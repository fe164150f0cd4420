---------------------------- MODULE AgentStreams ----------------------------
(***************************************************************************)
(* How the controller reaches its agents: the map agentStreams, which the  *)
(* ControlStream goroutines fill and clear and SendJob reads.              *)
(* (internal/controller/controller.go)                                     *)
(*                                                                         *)
(* An agent is a process with an ID. It opens one connection when it       *)
(* starts and keeps it: after a crash, or when the network dropped the     *)
(* connection, it is the restarted process that opens the next one. The    *)
(* controller learns of a dead connection when Recv fails, some time later.*)
(***************************************************************************)
EXTENDS Naturals, FiniteSets

CONSTANTS AgentIDs,     \* the IDs of the agents
          Conns,        \* connections, hence calls of ControlStream
          Senders,      \* calls of SendJob
          MaxConnects,  \* bound: how often each agent is started
          NoAgent, NoConn

ASSUME SentinelAssumption == NoAgent \notin AgentIDs /\ NoConn \notin Conns

VARIABLES owner,         \* external: the agent that opened a connection
          link,          \* external: the state of a connection
          registering,   \* external: its Register message is on the way
          goroutine,     \* where the ControlStream call of a connection is
          agentID,       \* the local variable of that call
          agentStreams,  \* Controller.agentStreams
          pc,            \* where each SendJob call is
          stream         \* the stream it looked up

linkVars   == <<owner, link, registering>>
streamVars == <<goroutine, agentID, agentStreams>>
senderVars == <<pc, stream>>
vars == <<linkVars, streamVars, senderVars>>
-----------------------------------------------------------------------------
Init ==
    /\ owner = [s \in Conns |-> NoAgent]
    /\ link = [s \in Conns |-> "unused"]
    /\ registering = [s \in Conns |-> FALSE]
    /\ goroutine = [s \in Conns |-> "none"]
    /\ agentID = [s \in Conns |-> NoAgent]
    /\ agentStreams = [a \in AgentIDs |-> NoConn]
    /\ pc = [j \in Senders |-> "idle"]
    /\ stream = [j \in Senders |-> NoConn]

\* Agent a starts: it opens a connection and sends Register before anything else.
Connect(a, s) ==
    /\ link[s] = "unused"
    /\ Cardinality({ t \in Conns : owner[t] = a }) < MaxConnects
    /\ \A t \in Conns : owner[t] = a => link[t] = "down"
    /\ owner' = [owner EXCEPT ![s] = a]
    /\ link' = [link EXCEPT ![s] = "up"]
    /\ registering' = [registering EXCEPT ![s] = TRUE]
    /\ goroutine' = [goroutine EXCEPT ![s] = "receiving"]
    /\ UNCHANGED <<agentID, agentStreams, senderVars>>

\* The agent dies, or the network gives the connection up. A message that the
\* controller has not received may still reach it.
Break(s) ==
    /\ link[s] = "up"
    /\ link' = [link EXCEPT ![s] = "down"]
    /\ UNCHANGED <<owner, registering, streamVars, senderVars>>

\* Mutation: the local agentID is set only once the agent sends something else.
RegisterForgetsID(s) ==
    /\ goroutine[s] = "receiving"
    /\ registering[s]
    /\ registering' = [registering EXCEPT ![s] = FALSE]
    /\ agentStreams' = [agentStreams EXCEPT ![owner[s]] = s]
    /\ UNCHANGED <<owner, link, goroutine, agentID, senderVars>>

\* processAgentMessage, Register.
Register(s) ==
    /\ goroutine[s] = "receiving"
    /\ registering[s]
    /\ registering' = [registering EXCEPT ![s] = FALSE]
    /\ agentID' = [agentID EXCEPT ![s] = owner[s]]
    /\ agentStreams' = [agentStreams EXCEPT ![owner[s]] = s]
    /\ UNCHANGED <<owner, link, goroutine, senderVars>>

\* Recv fails: the deferred function is next.
RecvFails(s) ==
    /\ goroutine[s] = "receiving"
    /\ link[s] = "down"
    /\ goroutine' = [goroutine EXCEPT ![s] = "leaving"]
    /\ UNCHANGED <<linkVars, agentID, agentStreams, senderVars>>

\* processAgentMessage returns an error, for a message it cannot unpack: the
\* controller ends the stream.
BadMessage(s) ==
    /\ goroutine[s] = "receiving"
    /\ link[s] = "up"
    /\ goroutine' = [goroutine EXCEPT ![s] = "leaving"]
    /\ link' = [link EXCEPT ![s] = "down"]
    /\ UNCHANGED <<owner, registering, agentID, agentStreams, senderVars>>

\* Mutation: the stream stays in the map.
CleanupKeepsStream(s) ==
    /\ goroutine[s] = "leaving"
    /\ goroutine' = [goroutine EXCEPT ![s] = "ended"]
    /\ UNCHANGED <<linkVars, agentID, agentStreams, senderVars>>

\* The deferred function: it deletes whatever is registered under its ID.
Cleanup(s) ==
    /\ goroutine[s] = "leaving"
    /\ goroutine' = [goroutine EXCEPT ![s] = "ended"]
    /\ agentStreams' = IF agentID[s] = NoAgent
                       THEN agentStreams
                       ELSE [agentStreams EXCEPT ![agentID[s]] = NoConn]
    /\ UNCHANGED <<linkVars, agentID, senderVars>>
-----------------------------------------------------------------------------
\* SendJob looks the stream up under c.mu ...
LookUp(j, a) ==
    /\ pc[j] = "idle"
    /\ pc' = [pc EXCEPT ![j] = IF agentStreams[a] = NoConn THEN "failed" ELSE "found"]
    /\ stream' = [stream EXCEPT ![j] = agentStreams[a]]
    /\ UNCHANGED <<linkVars, streamVars>>

\* ... and sends with c.mu released. On a connection that is down Send may
\* still succeed until the controller has noticed; the job is lost then.
Send(j) ==
    /\ pc[j] = "found"
    /\ goroutine[stream[j]] = "receiving"
    /\ pc' = [pc EXCEPT ![j] = "sent"]
    /\ UNCHANGED <<linkVars, streamVars, stream>>

SendFails(j) ==
    /\ pc[j] = "found"
    /\ link[stream[j]] = "down"
    /\ pc' = [pc EXCEPT ![j] = "failed"]
    /\ UNCHANGED <<linkVars, streamVars, stream>>

\* The next measurement calls SendJob.
Again(j) ==
    /\ pc[j] \in {"sent", "failed"}
    /\ pc' = [pc EXCEPT ![j] = "idle"]
    /\ stream' = [stream EXCEPT ![j] = NoConn]
    /\ UNCHANGED <<linkVars, streamVars>>

StreamStep(s) == Register(s) \/ RecvFails(s) \/ BadMessage(s) \/ Cleanup(s)

SenderStep(j) == (\E a \in AgentIDs : LookUp(j, a)) \/ Send(j) \/ SendFails(j) \/ Again(j)

Next ==
    \/ \E s \in Conns : (\E a \in AgentIDs : Connect(a, s)) \/ Break(s) \/ StreamStep(s)
    \/ \E j \in Senders : SenderStep(j)

(***************************************************************************)
(* A ControlStream goroutine runs on, and Recv returns what there is: the  *)
(* messages that arrived, then the error.                                  *)
(***************************************************************************)
Fairness ==
    \A s \in Conns :
        WF_vars(Register(s)) /\ WF_vars(RecvFails(s)) /\ WF_vars(Cleanup(s))

Spec == Init /\ [][Next]_vars

FairSpec == Spec /\ Fairness
-----------------------------------------------------------------------------
TypeOK ==
    /\ owner \in [Conns -> AgentIDs \cup {NoAgent}]
    /\ link \in [Conns -> {"unused", "up", "down"}]
    /\ registering \in [Conns -> BOOLEAN]
    /\ goroutine \in [Conns -> {"none", "receiving", "leaving", "ended"}]
    /\ agentID \in [Conns -> AgentIDs \cup {NoAgent}]
    /\ agentStreams \in [AgentIDs -> Conns \cup {NoConn}]
    /\ pc \in [Senders -> {"idle", "found", "sent", "failed"}]
    /\ stream \in [Senders -> Conns \cup {NoConn}]
    /\ \A j \in Senders : pc[j] = "found" => stream[j] # NoConn
    /\ \A s \in Conns : registering[s] => owner[s] # NoAgent

(***************************************************************************)
(* The map never holds the stream of a ControlStream call that returned,   *)
(* whatever the order in which old and new connections of an agent         *)
(* register and end, and it holds a stream only under its agent's ID.      *)
(***************************************************************************)
NoDanglingStream ==
    \A a \in AgentIDs : \A s \in Conns :
        agentStreams[a] = s =>
            owner[s] = a /\ agentID[s] = a /\ goroutine[s] \in {"receiving", "leaving"}

\* A dead connection is forgotten: jobs for its agent fail instead of being lost.
DeadStreamsForgotten ==
    \A s \in Conns :
        link[s] = "down" ~> \A a \in AgentIDs : agentStreams[a] # s

(***************************************************************************)
(* An agent whose connection stays up can be reached, from some time on.   *)
(* (docs/api.md:368: ControlStream "maintains agent connection state")     *)
(***************************************************************************)
ConnectedAgentsReachable ==
    \A s \in Conns : \A a \in AgentIDs :
        link[s] = "up" /\ owner[s] = a ~> agentStreams[a] = s \/ link[s] = "down"
=============================================================================
