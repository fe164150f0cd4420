--------------------------- MODULE MCAgentStreams ---------------------------
(***************************************************************************)
(* Model checking AgentStreams: agents that are started twice, more        *)
(* connections than agents, and a call of SendJob at any point.            *)
(***************************************************************************)
EXTENDS AgentStreams, TLC
=============================================================================
