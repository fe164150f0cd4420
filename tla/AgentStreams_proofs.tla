------------------------ MODULE AgentStreams_proofs ------------------------
(***************************************************************************)
(* Proofs about agentStreams, for any number of agents and connections and *)
(* however often agents start over.                                        *)
(***************************************************************************)
EXTENDS AgentStreams, TLAPS

\* A connection nobody has opened has no ControlStream call.
Unopened == \A s \in Conns : link[s] = "unused" => goroutine[s] = "none"

StreamInv == TypeOK /\ Unopened /\ NoDanglingStream

LEMMA InitInv == Init => StreamInv
  BY SentinelAssumption DEF Init, StreamInv, TypeOK, Unopened, NoDanglingStream

\* What neither the connections nor the map notice.
LEMMA SenderStepInv ==
    ASSUME StreamInv, NEW j \in Senders, SenderStep(j)
    PROVE  StreamInv'
  <1>1. UNCHANGED <<owner, link, registering, goroutine, agentID, agentStreams>>
    BY DEF SenderStep, LookUp, Send, SendFails, Again, linkVars, streamVars
  <1>2. TypeOK'
    <2>1. CASE \E a \in AgentIDs : LookUp(j, a)
      <3>1. PICK a \in AgentIDs : LookUp(j, a)
        BY <2>1
      <3> QED  BY <3>1, <1>1 DEF LookUp, StreamInv, TypeOK
    <2>2. CASE Send(j)
      BY <2>2, <1>1 DEF Send, StreamInv, TypeOK
    <2>3. CASE SendFails(j)
      BY <2>3, <1>1 DEF SendFails, StreamInv, TypeOK
    <2>4. CASE Again(j)
      BY <2>4, <1>1 DEF Again, StreamInv, TypeOK
    <2> QED  BY <2>1, <2>2, <2>3, <2>4 DEF SenderStep
  <1> QED  BY <1>1, <1>2 DEF StreamInv, Unopened, NoDanglingStream

LEMMA ConnectInv ==
    ASSUME StreamInv, NEW a \in AgentIDs, NEW s \in Conns, Connect(a, s)
    PROVE  StreamInv'
  <1> USE DEF StreamInv
  <1>1. goroutine[s] = "none"
    BY DEF Connect, Unopened
  <1>2. TypeOK'
    BY SentinelAssumption DEF Connect, TypeOK, senderVars
  <1>3. Unopened'
    BY DEF Connect, Unopened, TypeOK
  <1>4. NoDanglingStream'
    <2>1. \A b \in AgentIDs : agentStreams[b] # s
      BY <1>1 DEF NoDanglingStream
    <2> QED  BY <2>1 DEF Connect, NoDanglingStream, TypeOK
  <1> QED  BY <1>2, <1>3, <1>4

LEMMA StreamStepInv ==
    ASSUME StreamInv, NEW s \in Conns, Break(s) \/ StreamStep(s)
    PROVE  StreamInv'
  <1> USE DEF StreamInv
  <1>1. CASE Break(s)
    BY <1>1 DEF Break, TypeOK, Unopened, NoDanglingStream, streamVars, senderVars
  <1>2. CASE Register(s)
    <2>1. owner[s] \in AgentIDs
      BY <1>2, SentinelAssumption DEF Register, TypeOK
    <2>2. TypeOK'
      BY <1>2, <2>1 DEF Register, TypeOK, senderVars
    <2>3. Unopened'
      BY <1>2 DEF Register, Unopened
    <2>4. NoDanglingStream'
      <3>1. ASSUME NEW a \in AgentIDs, NEW t \in Conns, agentStreams'[a] = t
            PROVE  owner[t] = a /\ agentID'[t] = a /\ goroutine[t] \in {"receiving", "leaving"}
        <4>1. CASE a = owner[s]
          BY <1>2, <3>1, <4>1 DEF Register, TypeOK
        <4>2. CASE a # owner[s]
          <5>1. agentStreams[a] = t
            BY <1>2, <3>1, <4>2 DEF Register, TypeOK
          <5>2. owner[t] = a /\ agentID[t] = a /\ goroutine[t] \in {"receiving", "leaving"}
            BY <5>1 DEF NoDanglingStream
          <5> QED  BY <1>2, <4>2, <5>2 DEF Register, TypeOK
        <4> QED  BY <4>1, <4>2
      <3> QED  BY <1>2, <3>1 DEF Register, NoDanglingStream
    <2> QED  BY <2>2, <2>3, <2>4
  <1>3. CASE RecvFails(s)
    BY <1>3 DEF RecvFails, TypeOK, Unopened, NoDanglingStream, linkVars, senderVars
  <1>4. CASE BadMessage(s)
    BY <1>4 DEF BadMessage, TypeOK, Unopened, NoDanglingStream, senderVars
  <1>5. CASE Cleanup(s)
    <2>1. TypeOK' /\ Unopened'
      BY <1>5 DEF Cleanup, TypeOK, Unopened, linkVars, senderVars
    <2>2. ASSUME NEW a \in AgentIDs, NEW t \in Conns, agentStreams'[a] = t
          PROVE  owner[t] = a /\ agentID[t] = a /\ goroutine'[t] \in {"receiving", "leaving"}
      <3>1. agentStreams[a] = t
        BY <1>5, <2>2, SentinelAssumption DEF Cleanup, TypeOK
      <3>2. owner[t] = a /\ agentID[t] = a /\ goroutine[t] \in {"receiving", "leaving"}
        BY <3>1 DEF NoDanglingStream
      <3>3. t # s
        BY <1>5, <2>2, <3>2, SentinelAssumption DEF Cleanup, TypeOK
      <3> QED  BY <1>5, <3>2, <3>3 DEF Cleanup, TypeOK
    <2>3. NoDanglingStream'
      BY <1>5, <2>2 DEF Cleanup, NoDanglingStream, linkVars
    <2> QED  BY <2>1, <2>3
  <1> QED  BY <1>1, <1>2, <1>3, <1>4, <1>5 DEF StreamStep

LEMMA StreamInvariant == Spec => []StreamInv
  <1>1. StreamInv /\ [Next]_vars => StreamInv'
    <2> SUFFICES ASSUME StreamInv, [Next]_vars PROVE StreamInv'
      OBVIOUS
    <2>1. CASE UNCHANGED vars
      BY <2>1 DEF vars, linkVars, streamVars, senderVars,
                  StreamInv, TypeOK, Unopened, NoDanglingStream
    <2>2. CASE Next
      BY <2>2, SenderStepInv, ConnectInv, StreamStepInv DEF Next
    <2> QED  BY <2>1, <2>2
  <1> QED  BY <1>1, InitInv, PTL DEF Spec

\* Type correctness of the connections, the ControlStream calls and the map.
THEOREM StreamsTypeCorrect == Spec => []TypeOK
  <1>1. StreamInv => TypeOK
    BY DEF StreamInv
  <1> QED  BY <1>1, StreamInvariant, PTL

(***************************************************************************)
(* However connections of the same agent overlap, the map never holds the  *)
(* stream of a ControlStream call that has returned, nor one that belongs  *)
(* to another agent. (ControlStream's deferred delete)                     *)
(***************************************************************************)
THEOREM StreamsNeverDangle == Spec => []NoDanglingStream
  <1>1. StreamInv => NoDanglingStream
    BY DEF StreamInv
  <1> QED  BY <1>1, StreamInvariant, PTL
-----------------------------------------------------------------------------
(***************************************************************************)
(* An agent on its first connection. The map can lose it only through the  *)
(* deferred function of an older connection of the same agent, which is    *)
(* what ConnectedAgentsReachable fails on; without one it stays reachable. *)
(***************************************************************************)
OnlyConnection(s, a) == owner[s] = a /\ \A t \in Conns \ {s} : owner[t] # a

FirstConnectionInMap ==
    \A s \in Conns, a \in AgentIDs :
        OnlyConnection(s, a) /\ goroutine[s] = "receiving" /\ ~registering[s]
            => agentStreams[a] = s

\* Where the IDs that the calls delete come from.
OwnIDs ==
    \A s \in Conns :
        /\ agentID[s] \in {NoAgent, owner[s]}
        /\ link[s] = "unused" => owner[s] = NoAgent /\ agentID[s] = NoAgent

LEMMA OwnIDsStep ==
    ASSUME StreamInv, OwnIDs, [Next]_vars
    PROVE  OwnIDs'
  <1> USE DEF OwnIDs, StreamInv
  <1>1. ASSUME NEW s \in Conns, NEW a \in AgentIDs, Connect(a, s) PROVE OwnIDs'
    BY <1>1, SentinelAssumption DEF Connect, TypeOK
  <1>2. ASSUME NEW s \in Conns, Register(s) PROVE OwnIDs'
    BY <1>2 DEF Register, TypeOK, Unopened
  <1>3. ASSUME NEW s \in Conns, Break(s) \/ RecvFails(s) \/ BadMessage(s) \/ Cleanup(s)
        PROVE  OwnIDs'
    BY <1>3 DEF Break, RecvFails, BadMessage, Cleanup, linkVars, streamVars, TypeOK
  <1>4. CASE (\E j \in Senders : SenderStep(j)) \/ UNCHANGED vars
    BY <1>4 DEF SenderStep, LookUp, Send, SendFails, Again, vars, linkVars, streamVars
  <1> QED  BY <1>1, <1>2, <1>3, <1>4 DEF Next, StreamStep

LEMMA FirstConnectionStep ==
    ASSUME StreamInv, OwnIDs, FirstConnectionInMap, [Next]_vars
    PROVE  FirstConnectionInMap'
  <1> SUFFICES ASSUME NEW s \in Conns, NEW a \in AgentIDs, OnlyConnection(s, a)',
                      goroutine'[s] = "receiving", ~registering'[s]
               PROVE  agentStreams'[a] = s
    BY DEF FirstConnectionInMap
  <1> USE DEF StreamInv
  <1>1. ASSUME NEW b \in AgentIDs, NEW t \in Conns, Connect(b, t) PROVE agentStreams'[a] = s
    <2>1. s # t
      BY <1>1 DEF Connect, TypeOK
    <2>2. OnlyConnection(s, a)
      <3>1. owner[t] = NoAgent /\ \A u \in Conns \ {t} : owner'[u] = owner[u]
        BY <1>1 DEF Connect, OwnIDs, TypeOK
      <3> QED  BY <2>1, <3>1, SentinelAssumption DEF OnlyConnection
    <2> QED  BY <1>1, <2>1, <2>2 DEF Connect, FirstConnectionInMap, TypeOK
  <1>2. ASSUME NEW t \in Conns, Register(t) PROVE agentStreams'[a] = s
    <2>1. CASE t = s
      BY <1>2, <2>1 DEF Register, OnlyConnection, TypeOK
    <2>2. CASE t # s
      <3>1. owner[t] # a /\ OnlyConnection(s, a) /\ goroutine[s] = "receiving" /\ ~registering[s]
        BY <1>2, <2>2 DEF Register, OnlyConnection, TypeOK
      <3>2. agentStreams[a] = s
        BY <3>1 DEF FirstConnectionInMap
      <3> QED  BY <1>2, <3>1, <3>2 DEF Register, TypeOK
    <2> QED  BY <2>1, <2>2
  <1>3. ASSUME NEW t \in Conns, Cleanup(t) PROVE agentStreams'[a] = s
    <2>1. /\ OnlyConnection(s, a) /\ goroutine[s] = "receiving" /\ ~registering[s]
          /\ t # s /\ owner[t] # a
      BY <1>3 DEF Cleanup, OnlyConnection, TypeOK, linkVars
    <2>2. agentStreams[a] = s /\ agentID[t] # a
      BY <2>1, SentinelAssumption DEF FirstConnectionInMap, OwnIDs
    <2> QED  BY <1>3, <2>2 DEF Cleanup, TypeOK
  <1>4. ASSUME NEW t \in Conns, Break(t) \/ RecvFails(t) \/ BadMessage(t)
        PROVE  agentStreams'[a] = s
    BY <1>4 DEF Break, RecvFails, BadMessage, OnlyConnection, FirstConnectionInMap, TypeOK,
                linkVars, streamVars
  <1>5. CASE (\E j \in Senders : SenderStep(j)) \/ UNCHANGED vars
    BY <1>5 DEF SenderStep, LookUp, Send, SendFails, Again, vars, linkVars, streamVars,
                OnlyConnection, FirstConnectionInMap
  <1> QED  BY <1>1, <1>2, <1>3, <1>4, <1>5 DEF Next, StreamStep

\* An agent that has not connected before is in the map from its Register until
\* its ControlStream call ends, whatever other agents do and however often they
\* start over. (processAgentMessage, ControlStream's deferred delete)
THEOREM FirstConnectionsReachable == Spec => []FirstConnectionInMap
  <1>1. Init => OwnIDs /\ FirstConnectionInMap
    BY SentinelAssumption DEF Init, OwnIDs, FirstConnectionInMap
  <1>2. StreamInv /\ OwnIDs /\ FirstConnectionInMap /\ [Next]_vars
            => OwnIDs' /\ FirstConnectionInMap'
    BY OwnIDsStep, FirstConnectionStep
  <1> QED  BY <1>1, <1>2, StreamInvariant, PTL DEF Spec
=============================================================================
