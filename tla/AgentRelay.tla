----------------------------- MODULE AgentRelay -----------------------------
(***************************************************************************)
(* What an agent promises the controller, whatever goes on inside it: it   *)
(* announces itself before anything else, and answers a job, or passes on  *)
(* a packet, once or not at all. What it gives up stays given up.          *)
(***************************************************************************)
CONSTANTS Jobs, Packets,
          Register      \* the message that announces the agent

VARIABLES arrived,      \* what the agent has read
          sent,         \* what it has told the controller
          lost          \* what it has given up

vars == <<arrived, sent, lost>>

\* What the agent still owes: a message for everything it has read, and the
\* announcement.
Owed == (arrived \cup {Register}) \ (sent \cup lost)

Init == arrived = {} /\ sent = {} /\ lost = {}

\* The controller sends jobs to agents it knows; packets just come.
Arrive(x) ==
    /\ x \in Packets \/ (x \in Jobs /\ Register \in sent)
    /\ x \notin arrived
    /\ arrived' = arrived \cup {x}
    /\ UNCHANGED <<sent, lost>>

Send(x) ==
    /\ x \in Owed
    /\ x = Register \/ Register \in sent
    /\ sent' = sent \cup {x}
    /\ UNCHANGED <<arrived, lost>>

GiveUp(x) ==
    /\ x \in Owed
    /\ lost' = lost \cup {x}
    /\ UNCHANGED <<arrived, sent>>

Next ==
    \/ \E x \in Jobs \cup Packets : Arrive(x)
    \/ \E x \in Owed : Send(x) \/ GiveUp(x)

Spec == Init /\ [][Next]_vars
=============================================================================
