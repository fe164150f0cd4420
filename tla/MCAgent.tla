------------------------------ MODULE MCAgent ------------------------------
(***************************************************************************)
(* Model checking Agent: channels with room for one item, and more items   *)
(* than fit.                                                               *)
(***************************************************************************)
EXTENDS Agent, TLC
=============================================================================
