---------------------------- MODULE Agent_proofs ----------------------------
(***************************************************************************)
(* Proofs about the agent process, for any number of workers, jobs and     *)
(* packets and channels of any size.                                       *)
(***************************************************************************)
EXTENDS Agent, SequenceTheorems, FiniteSetTheorems, TLAPS

\* Bounded queues.
LEMMA EmptyQueue ==
    ASSUME NEW S
    PROVE  <<>> \in Queues(S)
  BY ChanSizeAssumption DEF Queues

LEMMA AppendToQueue ==
    ASSUME NEW S, NEW q \in Queues(S), NEW x \in S, HasRoom(q)
    PROVE  Append(q, x) \in Queues(S)
  BY ChanSizeAssumption DEF Queues, HasRoom

LEMMA TakeFromQueue ==
    ASSUME NEW S, NEW q \in Queues(S), q # <<>>
    PROVE  Head(q) \in S /\ Tail(q) \in Queues(S)
  BY ChanSizeAssumption DEF Queues

-----------------------------------------------------------------------------
\* A goroutine that is busy has something to be busy with.
HandOK ==
    /\ \A l \in Producers : loop[l] = "adding" => hand[l] \in Items
    /\ loop["outgoing"] = "sending" => hand["outgoing"] \in Items \cup {Register}
    /\ \A w \in Workers : worker[w] \in {"working", "queueing"} => hand[w] \in Items

AgentInv == TypeOK /\ HandOK

LEMMA InitAgentInv == Init => AgentInv
  <1> SUFFICES ASSUME Init PROVE AgentInv
    OBVIOUS
  <1>1. jobChan \in [Pools -> Queues(Items)] /\ outgoingMessages \in Queues(Items \cup {Register})
    BY EmptyQueue DEF Init
  <1>2. TypeOK
    BY <1>1 DEF Init, TypeOK
  <1>3. HandOK
    BY DEF Init, HandOK, Producers, Loops
  <1> QED  BY <1>2, <1>3 DEF AgentInv

\* The steps of Run, Stop, and the loss of the connection.
LEMMA MainAgentInv ==
    ASSUME AgentInv, MainStep \/ Stop \/ Disconnect
    PROVE  AgentInv'
  <1> USE DEF AgentInv, TypeOK, HandOK, MainMoves, poolVars, outVars, Loops, Pools, Producers
  <1>1. CASE Start
    BY <1>1 DEF Start
  <1>2. CASE StartFails
    BY <1>2 DEF StartFails
  <1>3. CASE QueueRegister
    <2>1. outgoingMessages' \in Queues(Items \cup {Register})
      BY <1>3, AppendToQueue DEF QueueRegister
    <2> QED  BY <1>3, <2>1 DEF QueueRegister
  <1>4. CASE RegisterFails
    BY <1>4 DEF RegisterFails
  <1>5. CASE WaitForLoops
    BY <1>5 DEF WaitForLoops
  <1>6. CASE JoinSenders
    BY <1>6 DEF JoinSenders
  <1>7. CASE JoinListeners
    BY <1>7 DEF JoinListeners
  <1>8. CASE Stop
    BY <1>8 DEF Stop
  <1>9. CASE Disconnect
    BY <1>9 DEF Disconnect
  <1> QED  BY <1>1, <1>2, <1>3, <1>4, <1>5, <1>6, <1>7, <1>8, <1>9 DEF MainStep

\* What a step of one loop leaves alone of the others.
LEMMA HandOfLoop ==
    ASSUME AgentInv, NEW l \in Loops, NEW to \in {"ready", "reading", "adding", "sending", "ended"},
           NEW x \in Items \cup {Register, NoItem},
           loop' = [loop EXCEPT ![l] = to], Grab(l, x), UNCHANGED worker,
           to = "adding" /\ l \in Producers => x \in Items,
           to = "sending" /\ l = "outgoing" => x \in Items \cup {Register}
    PROVE  /\ HandOK'
           /\ hand' \in [Loops \cup Workers -> Items \cup {Register, NoItem}]
           /\ loop' \in [Loops -> {"off", "ready", "reading", "adding", "sending", "ended"}]
  <1>1. /\ loop \in [Loops -> {"off", "ready", "reading", "adding", "sending", "ended"}]
        /\ hand \in [Loops \cup Workers -> Items \cup {Register, NoItem}]
    BY DEF AgentInv, TypeOK
  <1>2. \A k \in Loops : /\ loop'[k] = IF k = l THEN to ELSE loop[k]
                         /\ hand'[k] = IF k = l THEN x ELSE hand[k]
    BY <1>1 DEF Grab
  <1>3. \A w \in Workers : hand'[w] = hand[w]
    BY <1>1, GoroutinesAssumption DEF Grab
  <1>4. Producers \subseteq Loops /\ "outgoing" \in Loops
    BY DEF Producers, Loops
  <1>5. HandOK'
    BY <1>2, <1>3, <1>4 DEF AgentInv, HandOK
  <1> QED  BY <1>1, <1>5 DEF Grab

LEMMA LoopAgentInv ==
    ASSUME AgentInv, ControllerStep \/ SnifferStep \/ OutgoingStep \/ Arrival
    PROVE  AgentInv'
  <1> USE DEF LoopMoves, poolVars, outVars
  <1>0. "controller" \in Loops /\ "sniffer" \in Loops /\ "outgoing" \in Loops
    BY DEF Loops
  <1>1. ASSUME NEW l \in Producers, CheckContext(l) PROVE AgentInv'
    BY <1>1 DEF CheckContext, AgentInv, TypeOK, HandOK, Loops, Producers
  <1>2. ASSUME NEW j \in Jobs, ReceiveJob(j) PROVE AgentInv'
    <2>1. j \in Items
      BY DEF Items
    <2>2. HandOK' /\ hand' \in [Loops \cup Workers -> Items \cup {Register, NoItem}]
          /\ loop' \in [Loops -> {"off", "ready", "reading", "adding", "sending", "ended"}]
      BY <1>0, <1>2, <2>1, HandOfLoop DEF ReceiveJob
    <2> QED  BY <1>2, <2>1, <2>2 DEF ReceiveJob, AgentInv, TypeOK
  <1>3. CASE RecvFails
    BY <1>3 DEF RecvFails, AgentInv, TypeOK, HandOK, Loops, Producers
  <1>4. ASSUME NEW p \in Packets, Sniff(p) PROVE AgentInv'
    <2>1. p \in Items
      BY DEF Items
    <2>2. HandOK' /\ hand' \in [Loops \cup Workers -> Items \cup {Register, NoItem}]
          /\ loop' \in [Loops -> {"off", "ready", "reading", "adding", "sending", "ended"}]
      BY <1>0, <1>4, <2>1, HandOfLoop DEF Sniff
    <2> QED  BY <1>4, <2>1, <2>2 DEF Sniff, AgentInv, TypeOK
  <1>5. CASE ReadTimesOut
    BY <1>5 DEF ReadTimesOut, AgentInv, TypeOK, HandOK, Loops, Producers
  <1>6. ASSUME NEW l \in Producers, AddJob(l) PROVE AgentInv'
    <2>1. l \in Loops /\ Fed(l) \in Pools /\ hand[l] \in Items
      BY <1>6 DEF Producers, Loops, Fed, Pools, AddJob, AgentInv, HandOK
    <2>2. Grab(l, NoItem)
      BY <1>6 DEF AddJob, LetGo, GiveUp
    <2>3. HandOK' /\ hand' \in [Loops \cup Workers -> Items \cup {Register, NoItem}]
          /\ loop' \in [Loops -> {"off", "ready", "reading", "adding", "sending", "ended"}]
      BY <1>6, <2>1, <2>2, HandOfLoop DEF AddJob
    <2>4. jobChan' \in [Pools -> Queues(Items)] /\ lost' \subseteq Items \cup {Register}
      <3>1. jobChan \in [Pools -> Queues(Items)] /\ lost \subseteq Items \cup {Register}
        BY DEF AgentInv, TypeOK
      <3>2. CASE HasRoom(jobChan[Fed(l)])
        <4>1. Append(jobChan[Fed(l)], hand[l]) \in Queues(Items)
          BY <2>1, <3>1, <3>2, AppendToQueue
        <4> QED  BY <1>6, <2>1, <3>1, <3>2, <4>1 DEF AddJob
      <3>3. CASE ~HasRoom(jobChan[Fed(l)])
        BY <1>6, <2>1, <3>1, <3>3 DEF AddJob, GiveUp
      <3> QED  BY <3>2, <3>3
    <2> QED  BY <1>6, <2>3, <2>4 DEF AddJob, AgentInv, TypeOK
  <1>7. CASE OutgoingEnds
    BY <1>7 DEF OutgoingEnds, AgentInv, TypeOK, HandOK, Loops, Producers
  <1>8. CASE TakeMessage
    <2>1. /\ Head(outgoingMessages) \in Items \cup {Register}
          /\ outgoingMessages' \in Queues(Items \cup {Register})
      BY <1>8, TakeFromQueue DEF TakeMessage, AgentInv, TypeOK
    <2>2. HandOK' /\ hand' \in [Loops \cup Workers -> Items \cup {Register, NoItem}]
          /\ loop' \in [Loops -> {"off", "ready", "reading", "adding", "sending", "ended"}]
      BY <1>0, <1>8, <2>1, HandOfLoop DEF TakeMessage, Producers
    <2> QED  BY <1>8, <2>1, <2>2 DEF TakeMessage, AgentInv, TypeOK
  <1>9. CASE SendMessage \/ SendFails
    <2>1. hand["outgoing"] \in Items \cup {Register}
      BY <1>9 DEF SendMessage, SendFails, AgentInv, HandOK
    <2>2. HandOK' /\ hand' \in [Loops \cup Workers -> Items \cup {Register, NoItem}]
          /\ loop' \in [Loops -> {"off", "ready", "reading", "adding", "sending", "ended"}]
      BY <1>0, <1>9, HandOfLoop DEF SendMessage, SendFails, LetGo, GiveUp
    <2> QED  BY <1>9, <2>1, <2>2 DEF SendMessage, SendFails, GiveUp, AgentInv, TypeOK
  <1>10. "controller" \in Producers /\ "sniffer" \in Producers
    BY DEF Producers
  <1> QED
    BY <1>1, <1>2, <1>3, <1>4, <1>5, <1>6, <1>7, <1>8, <1>9, <1>10
    DEF ControllerStep, SnifferStep, OutgoingStep, Arrival

\* What a step of one worker leaves alone of the loops and the other workers.
LEMMA HandOfWorker ==
    ASSUME AgentInv, NEW w \in Workers, NEW to \in {"idle", "working", "queueing", "ended"},
           NEW x \in Items \cup {Register, NoItem},
           worker' = [worker EXCEPT ![w] = to], Grab(w, x), UNCHANGED loop,
           to \in {"working", "queueing"} => x \in Items
    PROVE  /\ HandOK'
           /\ hand' \in [Loops \cup Workers -> Items \cup {Register, NoItem}]
           /\ worker' \in [Workers -> {"off", "idle", "working", "queueing", "ended"}]
  <1>1. /\ worker \in [Workers -> {"off", "idle", "working", "queueing", "ended"}]
        /\ hand \in [Loops \cup Workers -> Items \cup {Register, NoItem}]
    BY DEF AgentInv, TypeOK
  <1>2. \A v \in Workers : /\ worker'[v] = IF v = w THEN to ELSE worker[v]
                           /\ hand'[v] = IF v = w THEN x ELSE hand[v]
    BY <1>1 DEF Grab
  <1>3. \A k \in Loops : hand'[k] = hand[k]
    BY <1>1, GoroutinesAssumption DEF Grab
  <1>4. Producers \subseteq Loops /\ "outgoing" \in Loops
    BY DEF Producers, Loops
  <1>5. HandOK'
    BY <1>2, <1>3, <1>4 DEF AgentInv, HandOK
  <1> QED  BY <1>1, <1>5 DEF Grab

LEMMA WorkerAgentInv ==
    ASSUME AgentInv, NEW w \in Workers, WorkerStep(w)
    PROVE  AgentInv'
  <1> USE DEF WorkerMoves, outVars
  <1>1. CASE WorkerEnds(w)
    BY <1>1 DEF WorkerEnds, AgentInv, TypeOK, HandOK
  <1>2. CASE TakeJob(w)
    <2>1. PoolOf(w) \in Pools
      BY DEF PoolOf, Pools
    <2>2. /\ Head(jobChan[PoolOf(w)]) \in Items
          /\ Tail(jobChan[PoolOf(w)]) \in Queues(Items)
      BY <1>2, <2>1, TakeFromQueue DEF TakeJob, AgentInv, TypeOK
    <2>3. HandOK' /\ hand' \in [Loops \cup Workers -> Items \cup {Register, NoItem}]
          /\ worker' \in [Workers -> {"off", "idle", "working", "queueing", "ended"}]
      BY <1>2, <2>2, HandOfWorker DEF TakeJob
    <2>4. jobChan' \in [Pools -> Queues(Items)]
      BY <1>2, <2>1, <2>2 DEF TakeJob, AgentInv, TypeOK
    <2> QED  BY <1>2, <2>3, <2>4 DEF TakeJob, AgentInv, TypeOK
  <1>3. CASE Finish(w)
    BY <1>3 DEF Finish, AgentInv, TypeOK, HandOK
  <1>4. CASE Abandon(w) \/ QueueCancelled(w)
    <2>1. hand[w] \in Items
      BY <1>4 DEF Abandon, QueueCancelled, AgentInv, HandOK
    <2>2. HandOK' /\ hand' \in [Loops \cup Workers -> Items \cup {Register, NoItem}]
          /\ worker' \in [Workers -> {"off", "idle", "working", "queueing", "ended"}]
      BY <1>4, HandOfWorker DEF Abandon, QueueCancelled, GiveUp, LetGo
    <2> QED  BY <1>4, <2>1, <2>2 DEF Abandon, QueueCancelled, GiveUp, AgentInv, TypeOK
  <1>5. CASE QueueMessage(w)
    <2>1. hand[w] \in Items
      BY <1>5 DEF QueueMessage, AgentInv, HandOK
    <2>2. HandOK' /\ hand' \in [Loops \cup Workers -> Items \cup {Register, NoItem}]
          /\ worker' \in [Workers -> {"off", "idle", "working", "queueing", "ended"}]
      BY <1>5, HandOfWorker DEF QueueMessage, LetGo
    <2>3. outgoingMessages' \in Queues(Items \cup {Register})
      BY <1>5, <2>1, AppendToQueue DEF QueueMessage, AgentInv, TypeOK
    <2> QED  BY <1>5, <2>2, <2>3 DEF QueueMessage, AgentInv, TypeOK
  <1> QED  BY <1>1, <1>2, <1>3, <1>4, <1>5 DEF WorkerStep
-----------------------------------------------------------------------------
Joined == {"joining senders", "joining listeners", "stopped"}

\* A pool is stopped only by Run, and only once every loop has ended.
ShutdownOrder ==
    /\ stopped # {} => main \in Joined
    /\ main \in Joined => \A l \in Loops : loop[l] = "ended"

Early == {"starting", "registering", "failed"}

\* Before Register is queued nothing can be in front of it.
NothingYet ==
    main \in Early =>
        /\ \A l \in Loops : loop[l] = "off"
        /\ \A w \in Workers : worker[w] \in {"off", "idle"}
        /\ \A p \in Pools : jobChan[p] = <<>>
        /\ outgoingMessages = <<>>
        /\ sent = {}

\* Where Register can be while nothing has been sent: next in the queue, in the
\* hand of the loop that sends it, or given up with the connection.
RegisterNext ==
    \/ outgoingMessages # <<>> /\ Head(outgoingMessages) = Register /\ loop["outgoing"] # "sending"
    \/ hand["outgoing"] = Register /\ loop["outgoing"] = "sending"
    \/ connection = "down"

RegisterLeads ==
    main \notin Early => Register \in sent \/ (sent = {} /\ RegisterNext)

OrderInv == ShutdownOrder /\ NothingYet /\ RegisterLeads

\* What is appended to an empty queue is its head.
LEMMA AppendToEmpty ==
    ASSUME NEW S, NEW q \in Seq(S), NEW x \in S, q = <<>>
    PROVE  Append(q, x) # <<>> /\ Head(Append(q, x)) = x
  <1>1. /\ Append(q, x) # <<>>
        /\ Append(q, x)[Len(q) + 1] = x
    BY AppendProperties, Zenon
  <1>2. Len(q) + 1 = 1
    BY SMT
  <1>3. Head(Append(q, x)) = Append(q, x)[1]
    OBVIOUS
  <1> QED  BY <1>1, <1>2, <1>3, Zenon

\* QueueRegister appends to the queue Run has just made, so Register leads it.
LEMMA RegisterQueued ==
    ASSUME AgentInv, outgoingMessages = <<>>
    PROVE  /\ Append(outgoingMessages, Register) # <<>>
           /\ Head(Append(outgoingMessages, Register)) = Register
  <1> DEFINE S == Items \cup {Register}
  <1>1. outgoingMessages \in Seq(S)
    BY DEF AgentInv, TypeOK, Queues
  <1>2. Register \in S
    OBVIOUS
  <1> HIDE DEF S
  <1> QED  BY <1>1, <1>2, AppendToEmpty

LEMMA InitOrder == Init => OrderInv
  BY DEF Init, OrderInv, ShutdownOrder, NothingYet, RegisterLeads, Joined, Early

LEMMA MainOrder ==
    ASSUME AgentInv, OrderInv, MainStep \/ Stop \/ Disconnect
    PROVE  OrderInv'
  <1> USE DEF OrderInv, ShutdownOrder, NothingYet, RegisterLeads, RegisterNext, Joined, Early,
              MainMoves, poolVars, outVars
  <1>1. CASE Start
    BY <1>1 DEF Start
  <1>2. CASE StartFails
    BY <1>2 DEF StartFails
  <1>3. CASE QueueRegister
    <2>1. outgoingMessages' # <<>> /\ Head(outgoingMessages') = Register
      <3>1. /\ outgoingMessages = <<>>
            /\ outgoingMessages' = Append(outgoingMessages, Register)
        BY <1>3 DEF QueueRegister
      <3> QED  BY <3>1, RegisterQueued
    <2>2. loop'["outgoing"] # "sending"
      BY <1>3 DEF QueueRegister, Loops
    <2> QED  BY <1>3, <2>1, <2>2 DEF QueueRegister
  <1>4. CASE RegisterFails
    BY <1>4 DEF RegisterFails
  <1>5. CASE WaitForLoops
    BY <1>5 DEF WaitForLoops
  <1>6. CASE JoinSenders
    BY <1>6 DEF JoinSenders
  <1>7. CASE JoinListeners
    BY <1>7 DEF JoinListeners
  <1>8. CASE Stop
    BY <1>8 DEF Stop
  <1>9. CASE Disconnect
    BY <1>9 DEF Disconnect
  <1> QED  BY <1>1, <1>2, <1>3, <1>4, <1>5, <1>6, <1>7, <1>8, <1>9 DEF MainStep

\* A loop takes a step only between QueueRegister and WaitForLoops.
LEMMA LoopRuns ==
    ASSUME OrderInv, NEW l \in Loops, loop[l] \in {"ready", "reading", "adding", "sending"}
    PROVE  main \notin Early /\ main \notin Joined /\ stopped = {}
  BY DEF OrderInv, ShutdownOrder, NothingYet

LEMMA ReadingLoopOrder ==
    ASSUME AgentInv, OrderInv, ControllerStep \/ SnifferStep \/ Arrival
    PROVE  OrderInv'
  <1>1. PICK l \in Producers :
           /\ loop[l] \in {"ready", "reading", "adding"}
           /\ \E to \in {"ready", "reading", "adding", "ended"} : loop' = [loop EXCEPT ![l] = to]
           /\ \E x \in Items \cup {NoItem} : hand' = [hand EXCEPT ![l] = x] \/ hand' = hand
    BY DEF ControllerStep, SnifferStep, Arrival, CheckContext, ReceiveJob, RecvFails, Sniff,
           ReadTimesOut, AddJob, LoopMoves, Grab, LetGo, GiveUp, Producers, Items
  <1>2. UNCHANGED <<main, connection, stopped, outgoingMessages, sent>>
    BY DEF ControllerStep, SnifferStep, Arrival, CheckContext, ReceiveJob, RecvFails, Sniff,
           ReadTimesOut, AddJob, poolVars, outVars
  <1>3. l \in Loops /\ l # "outgoing" /\ "outgoing" \in Loops
    BY <1>1 DEF Producers, Loops
  <1>4. main \notin Early /\ main \notin Joined /\ stopped = {}
    BY <1>1, <1>3, LoopRuns
  <1>5. loop'["outgoing"] = loop["outgoing"] /\ hand'["outgoing"] = hand["outgoing"]
    BY <1>1, <1>3 DEF AgentInv, TypeOK
  <1> QED
    BY <1>2, <1>4, <1>5 DEF OrderInv, ShutdownOrder, NothingYet, RegisterLeads, RegisterNext

LEMMA OutgoingOrder ==
    ASSUME AgentInv, OrderInv, OutgoingStep
    PROVE  OrderInv'
  <1>1. loop["outgoing"] \in {"ready", "sending"} /\ "outgoing" \in Loops
    BY DEF OutgoingStep, OutgoingEnds, TakeMessage, SendMessage, SendFails, LoopMoves, Loops
  <1>2. main \notin Early /\ main \notin Joined /\ stopped = {}
    BY <1>1, LoopRuns
  <1>3. main' = main /\ stopped' = stopped
    BY DEF OutgoingStep, OutgoingEnds, TakeMessage, SendMessage, SendFails, poolVars
  <1>4. /\ loop \in [Loops -> {"off", "ready", "reading", "adding", "sending", "ended"}]
        /\ hand \in [Loops \cup Workers -> Items \cup {Register, NoItem}]
    BY DEF AgentInv, TypeOK
  <1>5. RegisterLeads'
    <2> USE <1>1, <1>2, <1>3, <1>4 DEF OrderInv, RegisterLeads, RegisterNext, LoopMoves
    <2>1. CASE OutgoingEnds
      BY <2>1 DEF OutgoingEnds, outVars
    <2>2. CASE TakeMessage
      BY <2>2 DEF TakeMessage, Grab
    <2>3. CASE SendMessage
      BY <2>3 DEF SendMessage
    <2>4. CASE SendFails
      BY <2>4 DEF SendFails, outVars
    <2> QED  BY <2>1, <2>2, <2>3, <2>4 DEF OutgoingStep
  <1> QED  BY <1>2, <1>3, <1>5 DEF OrderInv, ShutdownOrder, NothingYet

LEMMA WorkerOrder ==
    ASSUME AgentInv, OrderInv, NEW w \in Workers, WorkerStep(w)
    PROVE  OrderInv'
  <1>1. UNCHANGED <<main, connection, loop, stopped, sent>>
    BY DEF WorkerStep, WorkerEnds, TakeJob, Finish, Abandon, QueueMessage, QueueCancelled, outVars
  <1>2. hand'["outgoing"] = hand["outgoing"]
    <2>1. hand \in [Loops \cup Workers -> Items \cup {Register, NoItem}]
      BY DEF AgentInv, TypeOK
    <2>2. "outgoing" # w
      BY GoroutinesAssumption DEF Loops
    <2>3. hand' = hand \/ \E x : hand' = [hand EXCEPT ![w] = x]
      BY DEF WorkerStep, WorkerEnds, TakeJob, Finish, Abandon, QueueMessage,
             QueueCancelled, Grab, LetGo, GiveUp
    <2>4. "outgoing" \in Loops \cup Workers
      BY DEF Loops
    <2> QED  BY <2>1, <2>2, <2>3, <2>4
  <1>3. main \notin Early
    <2>1. ASSUME main \in Early PROVE FALSE
      <3>1. stopped = {} /\ worker[w] \in {"off", "idle"} /\ jobChan[PoolOf(w)] = <<>>
        BY <2>1 DEF OrderInv, ShutdownOrder, NothingYet, Joined, Early, PoolOf, Pools
      <3> QED
        BY <3>1 DEF WorkerStep, WorkerEnds, TakeJob, Finish, Abandon, QueueMessage,
                    QueueCancelled, WorkerMoves
    <2> QED  BY <2>1
  <1>4. outgoingMessages # <<>> =>
           outgoingMessages' # <<>> /\ Head(outgoingMessages') = Head(outgoingMessages)
    <2>1. CASE QueueMessage(w)
      <3>1. outgoingMessages \in Seq(Items \cup {Register}) /\ hand[w] \in Items \cup {Register}
        BY <2>1 DEF AgentInv, TypeOK, HandOK, Queues, QueueMessage, WorkerMoves
      <3> QED  BY <2>1, <3>1 DEF QueueMessage
    <2>2. CASE ~QueueMessage(w)
      BY <2>2 DEF WorkerStep, WorkerEnds, TakeJob, Finish, Abandon, QueueCancelled, outVars
    <2> QED  BY <2>1, <2>2
  <1> QED
    BY <1>1, <1>2, <1>3, <1>4 DEF OrderInv, ShutdownOrder, NothingYet, RegisterLeads, RegisterNext

LEMMA AgentInvariant == Spec => [](AgentInv /\ OrderInv)
  <1>1. AgentInv /\ OrderInv /\ [Next]_vars => AgentInv' /\ OrderInv'
    <2> SUFFICES ASSUME AgentInv, OrderInv, [Next]_vars PROVE AgentInv' /\ OrderInv'
      OBVIOUS
    <2>1. CASE UNCHANGED vars
      BY <2>1 DEF vars, poolVars, outVars, AgentInv, TypeOK, HandOK, OrderInv, ShutdownOrder,
                  NothingYet, RegisterLeads, RegisterNext
    <2>2. CASE MainStep \/ Stop \/ Disconnect
      BY <2>2, MainAgentInv, MainOrder
    <2>3. CASE ControllerStep \/ SnifferStep \/ Arrival
      BY <2>3, LoopAgentInv, ReadingLoopOrder
    <2>4. CASE OutgoingStep
      BY <2>4, LoopAgentInv, OutgoingOrder
    <2>5. CASE \E w \in Workers : WorkerStep(w)
      BY <2>5, WorkerAgentInv, WorkerOrder
    <2>6. CASE Terminated
      BY <2>1, <2>6 DEF Terminated
    <2> QED  BY <2>1, <2>2, <2>3, <2>4, <2>5, <2>6 DEF Next
  <1> QED  BY <1>1, InitAgentInv, InitOrder, PTL DEF Spec
-----------------------------------------------------------------------------
\* Type correctness of the agent: the queues never hold more than their size.
THEOREM AgentTypeCorrect == Spec => []TypeOK
  <1>1. AgentInv => TypeOK
    BY DEF AgentInv
  <1> QED  BY <1>1, AgentInvariant, PTL

\* The agent never sends on the channel of a pool that it has stopped, however
\* Stop, a lost connection and the last jobs fall together. (Run, WorkerPool.Stop)
THEOREM NoSendOnClosedChannel == Spec => []PoolsOutliveProducers
  <1>1. OrderInv => PoolsOutliveProducers
    BY DEF OrderInv, ShutdownOrder, PoolsOutliveProducers, Producers, Loops
  <1> QED  BY <1>1, AgentInvariant, PTL

\* Whatever an agent sends, it has sent Register before. (Run, register)
THEOREM RegisterComesFirst == Spec => []RegisterFirst
  <1>1. OrderInv => RegisterFirst
    BY DEF OrderInv, NothingYet, RegisterLeads, RegisterFirst
  <1> QED  BY <1>1, AgentInvariant, PTL
-----------------------------------------------------------------------------
(***************************************************************************)
(* Every message of the agent, an item or Register, is in one place. The   *)
(* places are of six kinds; a message is at most once in the places of one *)
(* kind, and in places of one kind at most.                                *)
(***************************************************************************)
Goroutines == Loops \cup Workers
Messages   == Items \cup {Register}

\* The agent has read the item, or Run has queued Register.
Inside(x) == x \in arrived \/ (x = Register /\ main \notin Early)

Held(x)     == \E g \in Goroutines : hand[g] = x
HeldOnce(x) == \A g, h \in Goroutines : hand[g] = x /\ hand[h] = x => g = h

InQueue(q, x)   == \E i \in DOMAIN q : q[i] = x
OnceInQueue(q, x) == \A i, j \in DOMAIN q : q[i] = x /\ q[j] = x => i = j

Kinds == Pools \cup {"hands", "outgoing", "sent", "lost"}

IsAt(c, x) ==
    \/ c \in Pools /\ InQueue(jobChan[c], x)
    \/ c = "hands" /\ Held(x)
    \/ c = "outgoing" /\ InQueue(outgoingMessages, x)
    \/ c = "sent" /\ x \in sent
    \/ c = "lost" /\ x \in lost

\* Only a goroutine that is busy has its hands full, so what it takes next
\* replaces nothing.
IdleHands ==
    /\ \A l \in Producers : loop[l] # "sending"
    /\ loop["outgoing"] # "adding"
    /\ \A l \in Loops : loop[l] \notin {"adding", "sending"} => hand[l] = NoItem
    /\ \A w \in Workers : worker[w] \notin {"working", "queueing"} => hand[w] = NoItem

OnceEach ==
    \A x \in Messages :
        /\ HeldOnce(x)
        /\ \A p \in Pools : OnceInQueue(jobChan[p], x)
        /\ OnceInQueue(outgoingMessages, x)

OneKind ==
    \A x \in Messages :
        /\ Inside(x) <=> \E c \in Kinds : IsAt(c, x)
        /\ \A c, d \in Kinds : IsAt(c, x) /\ IsAt(d, x) => c = d

PlaceInv == IdleHands /\ OnceEach /\ OneKind

\* What queueing and taking do to what a queue holds.
LEMMA QueueAppended ==
    ASSUME NEW S, NEW q \in Seq(S), NEW y \in S, NEW x
    PROVE  /\ InQueue(Append(q, y), x) <=> InQueue(q, x) \/ x = y
           /\ OnceInQueue(q, x) /\ (x # y \/ ~InQueue(q, x)) => OnceInQueue(Append(q, y), x)
  <1>1. /\ Len(q) \in Nat
        /\ DOMAIN q = 1 .. Len(q)
        /\ DOMAIN Append(q, y) = 1 .. Len(q) + 1
        /\ \A i \in 1 .. Len(q) : Append(q, y)[i] = q[i]
        /\ Append(q, y)[Len(q) + 1] = y
    BY AppendProperties
  <1>2. \A i \in DOMAIN Append(q, y) : i \in DOMAIN q \/ i = Len(q) + 1
    BY <1>1
  <1>3. DOMAIN q \subseteq DOMAIN Append(q, y) /\ Len(q) + 1 \in DOMAIN Append(q, y)
    BY <1>1
  <1> QED  BY <1>1, <1>2, <1>3 DEF InQueue, OnceInQueue

LEMMA QueueTaken ==
    ASSUME NEW S, NEW q \in Seq(S), q # <<>>, NEW x
    PROVE  /\ InQueue(q, Head(q))
           /\ OnceInQueue(q, x) => OnceInQueue(Tail(q), x)
           /\ OnceInQueue(q, Head(q)) => ~InQueue(Tail(q), Head(q))
           /\ x # Head(q) => (InQueue(Tail(q), x) <=> InQueue(q, x))
  <1>1. /\ Len(q) \in Nat \ {0}
        /\ DOMAIN q = 1 .. Len(q)
        /\ Head(q) = q[1]
        /\ DOMAIN Tail(q) = 1 .. Len(q) - 1
        /\ \A i \in 1 .. Len(q) - 1 : Tail(q)[i] = q[i + 1]
    BY HeadTailProperties, EmptySeq
  <1>2. \A i \in DOMAIN Tail(q) : i \in Nat /\ i + 1 \in DOMAIN q /\ i + 1 # 1
    BY <1>1
  <1>3. \A i \in DOMAIN q : i # 1 => i - 1 \in DOMAIN Tail(q) /\ Tail(q)[i - 1] = q[i]
    BY <1>1
  <1>4. 1 \in DOMAIN q
    BY <1>1
  <1>5. InQueue(q, Head(q))
    BY <1>1, <1>4 DEF InQueue
  <1>6. OnceInQueue(q, x) => OnceInQueue(Tail(q), x)
    BY <1>1, <1>2 DEF OnceInQueue
  <1>7. OnceInQueue(q, Head(q)) => ~InQueue(Tail(q), Head(q))
    BY <1>1, <1>2, <1>4 DEF OnceInQueue, InQueue
  <1>8. x # Head(q) => (InQueue(Tail(q), x) <=> InQueue(q, x))
    BY <1>1, <1>2, <1>3 DEF InQueue
  <1> QED  BY <1>5, <1>6, <1>7, <1>8

\* Empty hands take something, full ones let go of it.
LEMMA HandsTake ==
    ASSUME AgentInv, OnceEach, NEW g \in Goroutines, hand[g] = NoItem,
           NEW y, y \in Messages => ~Held(y), Grab(g, y)
    PROVE  \A x \in Messages : HeldOnce(x)' /\ (Held(x)' <=> Held(x) \/ x = y)
  <1>1. \A h \in Goroutines : hand'[h] = IF h = g THEN y ELSE hand[h]
    BY DEF AgentInv, TypeOK, Goroutines, Grab
  <1>2. NoItem \notin Messages
    BY ItemsAssumption DEF Items, Messages
  <1> QED  BY <1>1, <1>2 DEF OnceEach, Held, HeldOnce

LEMMA HandsLetGo ==
    ASSUME AgentInv, OnceEach, NEW g \in Goroutines, LetGo(g)
    PROVE  \A x \in Messages : HeldOnce(x)' /\ (Held(x)' <=> Held(x) /\ x # hand[g])
  <1>1. \A h \in Goroutines : hand'[h] = IF h = g THEN NoItem ELSE hand[h]
    BY DEF AgentInv, TypeOK, Goroutines, Grab, LetGo
  <1>2. NoItem \notin Messages
    BY ItemsAssumption DEF Items, Messages
  <1> QED  BY <1>1, <1>2 DEF OnceEach, Held, HeldOnce

\* An item that leaves its place for one of another kind is in one place still.
LEMMA MoveKeepsOneKind ==
    ASSUME OneKind, UNCHANGED <<main, arrived>>, NEW y, NEW c \in Kinds, NEW d \in Kinds,
           y \in Messages => IsAt(c, y),
           \A x \in Messages : \A k \in Kinds :
               IsAt(k, x)' <=> IF x = y THEN k = d ELSE IsAt(k, x)
    PROVE  OneKind'
  <1>1. \A x \in Messages : Inside(x)' <=> Inside(x)
    BY DEF Inside
  <1> QED  BY <1>1 DEF OneKind

LEMMA AtUnchanged ==
    ASSUME UNCHANGED <<hand, jobChan, outgoingMessages, sent, lost>>, NEW x
    PROVE  /\ HeldOnce(x)' <=> HeldOnce(x)
           /\ \A k \in Kinds : IsAt(k, x)' <=> IsAt(k, x)
  BY DEF HeldOnce, IsAt, Held

LEMMA InitPlaces == Init => PlaceInv
  <1> SUFFICES ASSUME Init PROVE PlaceInv
    OBVIOUS
  <1>1. \A g \in Goroutines : hand[g] = NoItem
    BY DEF Init, Goroutines
  <1>2. \A x \in Messages : ~Held(x)
    BY <1>1, ItemsAssumption DEF Held, Items, Messages
  <1>3. \A x : ~InQueue(outgoingMessages, x) /\ \A p \in Pools : ~InQueue(jobChan[p], x)
    BY DEF Init, InQueue
  <1>4. IdleHands
    BY <1>1 DEF Init, IdleHands, Goroutines, Loops, Producers
  <1>5. OnceEach
    BY <1>2, <1>3 DEF OnceEach, HeldOnce, OnceInQueue, Held, InQueue
  <1>6. OneKind
    BY <1>2, <1>3 DEF OneKind, IsAt, Init, Inside, Early
  <1> QED  BY <1>4, <1>5, <1>6 DEF PlaceInv

\* What a step of one goroutine leaves alone of the others.
LEMMA IdleLoopStep ==
    ASSUME AgentInv, IdleHands, NEW l \in Loops,
           NEW to \in {"ready", "reading", "adding", "sending", "ended"},
           loop' = [loop EXCEPT ![l] = to], UNCHANGED worker,
           l \in Producers => to # "sending",
           l = "outgoing" => to # "adding",
           \/ hand' = hand /\ loop[l] \notin {"adding", "sending"}
           \/ \E x : Grab(l, x) /\ (to \notin {"adding", "sending"} => x = NoItem)
    PROVE  IdleHands'
  <1>1. /\ loop \in [Loops -> {"off", "ready", "reading", "adding", "sending", "ended"}]
        /\ hand \in [Loops \cup Workers -> Items \cup {Register, NoItem}]
    BY DEF AgentInv, TypeOK
  <1>2. \A k \in Loops : k # l => loop'[k] = loop[k] /\ hand'[k] = hand[k]
    BY <1>1 DEF Grab
  <1>3. loop'[l] = to /\ (to \notin {"adding", "sending"} => hand'[l] = NoItem)
    BY <1>1 DEF Grab, IdleHands
  <1>4. \A w \in Workers : hand'[w] = hand[w]
    BY <1>1, GoroutinesAssumption DEF Grab
  <1>5. Producers \subseteq Loops /\ "outgoing" \in Loops
    BY DEF Producers, Loops
  <1> QED  BY <1>2, <1>3, <1>4, <1>5 DEF IdleHands

LEMMA IdleWorkerStep ==
    ASSUME AgentInv, IdleHands, NEW w \in Workers,
           NEW to \in {"idle", "working", "queueing", "ended"},
           worker' = [worker EXCEPT ![w] = to], UNCHANGED loop,
           \/ hand' = hand /\ (to \notin {"working", "queueing"} => worker[w] = "idle")
           \/ \E x : Grab(w, x) /\ (to \notin {"working", "queueing"} => x = NoItem)
    PROVE  IdleHands'
  <1>1. /\ worker \in [Workers -> {"off", "idle", "working", "queueing", "ended"}]
        /\ hand \in [Loops \cup Workers -> Items \cup {Register, NoItem}]
    BY DEF AgentInv, TypeOK
  <1>2. \A v \in Workers : v # w => worker'[v] = worker[v] /\ hand'[v] = hand[v]
    BY <1>1 DEF Grab
  <1>3. worker'[w] = to /\ (to \notin {"working", "queueing"} => hand'[w] = NoItem)
    BY <1>1 DEF Grab, IdleHands
  <1>4. \A l \in Loops : hand'[l] = hand[l]
    BY <1>1, GoroutinesAssumption DEF Grab
  <1>5. Producers \subseteq Loops /\ "outgoing" \in Loops
    BY DEF Producers, Loops
  <1> QED  BY <1>2, <1>3, <1>4, <1>5 DEF IdleHands

\* A step that moves no item.
LEMMA QuietPlaces ==
    ASSUME PlaceInv, IdleHands', main \in Early <=> main' \in Early,
           UNCHANGED <<arrived, hand, jobChan, outgoingMessages, sent, lost>>
    PROVE  PlaceInv'
  <1>1. OnceEach'
    BY DEF PlaceInv, OnceEach, HeldOnce
  <1>2. OneKind'
    BY AtUnchanged DEF PlaceInv, OneKind, Inside
  <1> QED  BY <1>1, <1>2 DEF PlaceInv

LEMMA MainPlaces ==
    ASSUME AgentInv, OrderInv, PlaceInv, MainStep \/ Stop \/ Disconnect
    PROVE  PlaceInv'
  <1> USE DEF MainMoves, poolVars, outVars
  <1>1. CASE Start
    <2>1. \A w \in Workers : hand[w] = NoItem
      BY <1>1 DEF Start, OrderInv, NothingYet, Early, PlaceInv, IdleHands
    <2>2. IdleHands'
      BY <1>1, <2>1 DEF Start, PlaceInv, IdleHands
    <2> QED  BY <1>1, <2>2, QuietPlaces DEF Start, Early
  <1>2. CASE QueueRegister
    <2>1. /\ outgoingMessages' = Append(outgoingMessages, Register)
          /\ main \in Early /\ main' \notin Early
          /\ UNCHANGED <<arrived, hand, worker, jobChan, sent, lost>>
          /\ \A l \in Loops : loop'[l] \in {"ready", "ended"} /\ hand[l] = NoItem
      <3>1. \A l \in Loops : loop[l] = "off"
        BY <1>2 DEF QueueRegister, OrderInv, NothingYet, Early
      <3> QED  BY <1>2, <3>1 DEF QueueRegister, PlaceInv, IdleHands, Early
    <2>2. IdleHands'
      BY <2>1 DEF PlaceInv, IdleHands, Producers, Loops
    <2>3. \A k \in Kinds : ~IsAt(k, Register)
      <3>1. Register \in Messages /\ ~Inside(Register)
        BY <2>1, ItemsAssumption DEF Messages, Inside, AgentInv, TypeOK, Items
      <3> QED  BY <3>1 DEF PlaceInv, OneKind
    <2>4. ~InQueue(outgoingMessages, Register) /\ "outgoing" \in Kinds
      BY <2>3 DEF IsAt, Kinds
    <2>5. outgoingMessages \in Seq(Messages) /\ Register \in Messages
      BY DEF AgentInv, TypeOK, Queues, Messages
    <2>6. ASSUME NEW x \in Messages
          PROVE  /\ InQueue(outgoingMessages', x) <=> InQueue(outgoingMessages, x) \/ x = Register
                 /\ OnceInQueue(outgoingMessages', x)
      BY <2>1, <2>4, <2>5, QueueAppended DEF PlaceInv, OnceEach
    <2>7. OnceEach'
      BY <2>1, <2>6 DEF PlaceInv, OnceEach, HeldOnce
    <2>8. \A x \in Messages : \A k \in Kinds :
             IsAt(k, x)' <=> IsAt(k, x) \/ (x = Register /\ k = "outgoing")
      BY <2>1, <2>6 DEF IsAt, Held, Kinds, Pools
    <2>9. \A x \in Messages : Inside(x)' <=> Inside(x) \/ x = Register
      BY <2>1 DEF Inside
    <2>10. OneKind'
      BY <2>3, <2>4, <2>8, <2>9 DEF PlaceInv, OneKind
    <2> QED  BY <2>2, <2>7, <2>10 DEF PlaceInv
  <1>3. CASE StartFails \/ RegisterFails \/ WaitForLoops \/ JoinSenders \/ JoinListeners \/ Stop
             \/ Disconnect
    <2>1. /\ UNCHANGED <<arrived, loop, worker, hand, jobChan, outgoingMessages, sent, lost>>
          /\ main \in Early <=> main' \in Early
      BY <1>3 DEF StartFails, RegisterFails, WaitForLoops, JoinSenders, JoinListeners, Stop,
                  Disconnect, Early
    <2>2. IdleHands'
      BY <2>1 DEF PlaceInv, IdleHands
    <2> QED  BY <2>1, <2>2, QuietPlaces
  <1> QED  BY <1>1, <1>2, <1>3 DEF MainStep

\* An item that has not arrived is nowhere; one that has is taken by idle hands.
LEMMA ArrivalPlaces ==
    ASSUME AgentInv, PlaceInv, Arrival
    PROVE  PlaceInv'
  <1>1. PICK l \in Producers, y \in Items :
           /\ loop[l] = "reading" /\ loop' = [loop EXCEPT ![l] = "adding"]
           /\ y \notin arrived /\ arrived' = arrived \cup {y}
           /\ Grab(l, y)
           /\ UNCHANGED <<main, worker, jobChan, outgoingMessages, sent, lost>>
    BY DEF Arrival, ReceiveJob, Sniff, LoopMoves, Producers, Items, poolVars, outVars
  <1>2. y \in Messages /\ ~Inside(y)
    BY <1>1, ItemsAssumption DEF Messages, Inside, Items
  <1>3. l \in Loops /\ l # "outgoing" /\ l \in Goroutines
    BY DEF Producers, Loops, Goroutines
  <1>4. hand[l] = NoItem /\ ~Held(y)
    BY <1>2, <1>1, <1>3 DEF PlaceInv, IdleHands, OneKind, IsAt, Kinds
  <1>5. IdleHands'
    BY <1>1, <1>3, IdleLoopStep DEF PlaceInv
  <1>6. \A x \in Messages : HeldOnce(x)' /\ (Held(x)' <=> Held(x) \/ x = y)
    BY <1>1, <1>3, <1>4, HandsTake DEF PlaceInv
  <1>7. OnceEach'
    BY <1>1, <1>6 DEF PlaceInv, OnceEach
  <1>8. \A x \in Messages : \A k \in Kinds : IsAt(k, x)' <=> IsAt(k, x) \/ (x = y /\ k = "hands")
    BY <1>1, <1>6 DEF IsAt, Kinds, Pools
  <1>9. \A k \in Kinds : ~IsAt(k, y)
    BY <1>2 DEF PlaceInv, OneKind
  <1>10. OneKind'
    <2>1. "hands" \in Kinds
      BY DEF Kinds
    <2>2. \A x \in Messages : Inside(x)' <=> Inside(x) \/ x = y
      BY <1>1 DEF Inside
    <2> QED  BY <1>8, <1>9, <2>1, <2>2 DEF PlaceInv, OneKind
  <1> QED  BY <1>5, <1>7, <1>10 DEF PlaceInv

\* Hands that give up what they hold.
LEMMA GiveUpPlaces ==
    ASSUME AgentInv, PlaceInv, IdleHands', NEW g \in Goroutines, GiveUp(g),
           UNCHANGED <<main, arrived, jobChan, outgoingMessages, sent>>
    PROVE  PlaceInv'
  <1>1. LetGo(g) /\ lost' = lost \cup {hand[g]}
    BY DEF GiveUp
  <1>2. \A x \in Messages : HeldOnce(x)' /\ (Held(x)' <=> Held(x) /\ x # hand[g])
    BY <1>1, HandsLetGo DEF PlaceInv
  <1>3. OnceEach'
    BY <1>2 DEF PlaceInv, OnceEach
  <1>4. Held(hand[g])
    BY DEF Held
  <1>5. "hands" \in Kinds /\ "lost" \in Kinds /\ IsAt("hands", hand[g])
    BY <1>4 DEF Kinds, IsAt
  <1>6. hand[g] \in Messages => \A k \in Kinds : IsAt(k, hand[g]) => k = "hands"
    BY <1>5 DEF PlaceInv, OneKind
  <1>7. ASSUME NEW x \in Messages, NEW k \in Kinds
        PROVE  IsAt(k, x)' <=> IF x = hand[g] THEN k = "lost" ELSE IsAt(k, x)
    <2>1. CASE x = hand[g]
      BY <1>1, <1>2, <1>6, <2>1 DEF IsAt, Kinds, Pools
    <2>2. CASE x # hand[g]
      BY <1>1, <1>2, <2>2 DEF IsAt, Kinds, Pools
    <2> QED  BY <2>1, <2>2
  <1>8. OneKind'
    BY <1>5, <1>7, MoveKeepsOneKind DEF PlaceInv
  <1> QED  BY <1>3, <1>8 DEF PlaceInv

\* AddJob: from the hands of a reading loop to the channel it feeds, or lost.
LEMMA AddJobPlaces ==
    ASSUME AgentInv, PlaceInv, NEW l \in Producers, AddJob(l)
    PROVE  PlaceInv'
  <1> DEFINE p == Fed(l)
             y == hand[l]
  <1>1. /\ l \in Loops /\ l # "outgoing" /\ l \in Goroutines /\ p \in Pools
        /\ y \in Items
        /\ loop' = [loop EXCEPT ![l] = "ready"] /\ LetGo(l)
        /\ UNCHANGED <<main, arrived, worker, outgoingMessages, sent>>
    BY DEF AddJob, GiveUp, LoopMoves, Producers, Loops, Goroutines, Fed, Pools, AgentInv,
           HandOK, outVars
  <1>2. IdleHands'
    BY <1>1, IdleLoopStep DEF PlaceInv, LetGo
  <1>3. CASE ~HasRoom(jobChan[p])
    BY <1>1, <1>2, <1>3, GiveUpPlaces DEF AddJob
  <1>4. CASE HasRoom(jobChan[p])
    <2>1. jobChan' = [jobChan EXCEPT ![p] = Append(jobChan[p], y)] /\ lost' = lost
      BY <1>4 DEF AddJob
    <2>2. jobChan \in [Pools -> Queues(Items)] /\ jobChan[p] \in Seq(Items)
      BY <1>1 DEF AgentInv, TypeOK, Queues
    <2> HIDE DEF p, y
    <2>3. /\ jobChan'[p] = Append(jobChan[p], y)
          /\ \A o \in Pools \ {p} : jobChan'[o] = jobChan[o]
      BY <1>1, <2>1, <2>2
    <2>4. \A x \in Messages : HeldOnce(x)' /\ (Held(x)' <=> Held(x) /\ x # y)
      BY <1>1, HandsLetGo DEF PlaceInv, y
    <2>5. "hands" \in Kinds /\ p \in Kinds /\ IsAt("hands", y)
      BY <1>1 DEF Kinds, IsAt, Held, y
    <2>6. \A k \in Kinds : IsAt(k, y) => k = "hands"
      BY <1>1, <2>5 DEF PlaceInv, OneKind, Messages
    <2>7. ~InQueue(jobChan[p], y)
      <3>1. IsAt(p, y) => p = "hands"
        BY <2>5, <2>6
      <3> QED  BY <1>1, <3>1 DEF IsAt, Pools
    <2>8. ASSUME NEW x \in Messages
          PROVE  /\ InQueue(jobChan'[p], x) <=> InQueue(jobChan[p], x) \/ x = y
                 /\ OnceInQueue(jobChan'[p], x)
      BY <1>1, <2>2, <2>3, <2>7, QueueAppended DEF PlaceInv, OnceEach
    <2>9. OnceEach'
      BY <1>1, <2>3, <2>4, <2>8 DEF PlaceInv, OnceEach
    <2>10. ASSUME NEW x \in Messages, NEW k \in Kinds
           PROVE  IsAt(k, x)' <=> IF x = y THEN k = p ELSE IsAt(k, x)
      <3>1. CASE x = y
        BY <1>1, <2>1, <2>3, <2>4, <2>6, <2>8, <3>1 DEF IsAt, Kinds, Pools
      <3>2. CASE x # y
        BY <1>1, <2>1, <2>3, <2>4, <2>8, <3>2 DEF IsAt, Kinds, Pools
      <3> QED  BY <3>1, <3>2
    <2>11. OneKind'
      BY <1>1, <2>5, <2>10, MoveKeepsOneKind DEF PlaceInv
    <2> QED  BY <1>2, <2>9, <2>11 DEF PlaceInv
  <1> QED  BY <1>3, <1>4

\* TakeJob: from the channel of a pool to the hands of a worker.
LEMMA TakeJobPlaces ==
    ASSUME AgentInv, PlaceInv, NEW w \in Workers, TakeJob(w)
    PROVE  PlaceInv'
  <1> DEFINE p == PoolOf(w)
             y == Head(jobChan[p])
  <1>1. /\ p \in Pools /\ w \in Goroutines
        /\ jobChan \in [Pools -> Queues(Items)]
        /\ worker[w] = "idle" /\ worker' = [worker EXCEPT ![w] = "working"]
        /\ Grab(w, y)
        /\ jobChan[p] # <<>> /\ jobChan' = [jobChan EXCEPT ![p] = Tail(jobChan[p])]
        /\ UNCHANGED <<main, arrived, loop, outgoingMessages, sent, lost>>
    BY DEF TakeJob, WorkerMoves, PoolOf, Pools, Goroutines, outVars, AgentInv, TypeOK
  <1>2. jobChan[p] \in Seq(Items) /\ y \in Items
    <2>1. jobChan[p] \in Queues(Items)
      BY <1>1
    <2> QED  BY <1>1, <2>1, TakeFromQueue DEF Queues
  <1>3. IdleHands'
    BY <1>1, IdleWorkerStep DEF PlaceInv
  <1>4. /\ jobChan'[p] = Tail(jobChan[p])
        /\ \A o \in Pools \ {p} : jobChan'[o] = jobChan[o]
    BY <1>1
  <1>5. \A x \in Messages :
           /\ OnceInQueue(jobChan'[p], x)
           /\ InQueue(jobChan'[p], x) <=> InQueue(jobChan[p], x) /\ x # y
    <2>1. \A x \in Messages : OnceInQueue(jobChan[p], x)
      BY <1>1 DEF PlaceInv, OnceEach
    <2> QED  BY <1>1, <1>2, <1>4, <2>1, QueueTaken
  <1>6. p \in Kinds /\ "hands" \in Kinds /\ IsAt(p, y)
    <2>1. InQueue(jobChan[p], y)
      BY <1>1, <1>2, QueueTaken
    <2> QED  BY <1>1, <2>1 DEF Kinds, IsAt
  <1> HIDE DEF p, y
  <1>7. \A k \in Kinds : IsAt(k, y) => k = p
    BY <1>2, <1>6 DEF PlaceInv, OneKind, Messages
  <1>8. ~Held(y) /\ hand[w] = NoItem
    <2>1. IsAt("hands", y) => "hands" = p
      BY <1>6, <1>7
    <2> QED  BY <1>1, <2>1 DEF IsAt, Pools, PlaceInv, IdleHands
  <1>9. \A x \in Messages : HeldOnce(x)' /\ (Held(x)' <=> Held(x) \/ x = y)
    BY <1>1, <1>8, HandsTake DEF PlaceInv
  <1>10. OnceEach'
    BY <1>1, <1>4, <1>5, <1>9 DEF PlaceInv, OnceEach
  <1>11. ASSUME NEW x \in Messages, NEW k \in Kinds
         PROVE  IsAt(k, x)' <=> IF x = y THEN k = "hands" ELSE IsAt(k, x)
    <2>1. CASE x = y
      BY <1>1, <1>4, <1>5, <1>7, <1>9, <2>1 DEF IsAt, Kinds, Pools
    <2>2. CASE x # y
      BY <1>1, <1>4, <1>5, <1>9, <2>2 DEF IsAt, Kinds, Pools
    <2> QED  BY <2>1, <2>2
  <1>12. OneKind'
    BY <1>1, <1>6, <1>11, MoveKeepsOneKind DEF PlaceInv
  <1> QED  BY <1>3, <1>10, <1>12 DEF PlaceInv

\* TakeMessage: from the queue to the hands of the loop that sends. Register is
\* no item, and leaves every item where it is.
LEMMA TakeMessagePlaces ==
    ASSUME AgentInv, PlaceInv, TakeMessage
    PROVE  PlaceInv'
  <1> DEFINE y == Head(outgoingMessages)
             S == Messages
  <1>1. /\ "outgoing" \in Loops /\ "outgoing" \notin Producers /\ "outgoing" \in Goroutines
        /\ loop["outgoing"] = "ready" /\ loop' = [loop EXCEPT !["outgoing"] = "sending"]
        /\ Grab("outgoing", y)
        /\ outgoingMessages # <<>> /\ outgoingMessages' = Tail(outgoingMessages)
        /\ UNCHANGED <<main, arrived, worker, jobChan, sent, lost>>
    BY DEF TakeMessage, LoopMoves, Loops, Producers, Goroutines, poolVars
  <1>2. outgoingMessages \in Seq(S)
    BY DEF AgentInv, TypeOK, Queues, Messages
  <1>3. IdleHands'
    BY <1>1, IdleLoopStep DEF PlaceInv
  <1>4. \A x \in Messages :
           /\ OnceInQueue(outgoingMessages', x)
           /\ InQueue(outgoingMessages', x) <=> InQueue(outgoingMessages, x) /\ x # y
    <2>1. \A x \in Messages : OnceInQueue(outgoingMessages, x)
      BY DEF PlaceInv, OnceEach
    <2> HIDE DEF S
    <2> QED  BY <1>1, <1>2, <2>1, QueueTaken
  <1>5. "outgoing" \in Kinds /\ "hands" \in Kinds /\ IsAt("outgoing", y)
    <2>1. InQueue(outgoingMessages, y)
      <3> HIDE DEF S
      <3> QED  BY <1>1, <1>2, QueueTaken
    <2> QED  BY <2>1 DEF Kinds, IsAt
  <1> HIDE DEF y, S
  <1>6. y \in Messages => \A k \in Kinds : IsAt(k, y) => k = "outgoing"
    BY <1>5 DEF PlaceInv, OneKind
  <1>7. (y \in Messages => ~Held(y)) /\ hand["outgoing"] = NoItem
    <2>1. y \in Messages => ~IsAt("hands", y)
      BY <1>5, <1>6
    <2> QED  BY <1>1, <2>1 DEF IsAt, PlaceInv, IdleHands
  <1>8. \A x \in Messages : HeldOnce(x)' /\ (Held(x)' <=> Held(x) \/ x = y)
    BY <1>1, <1>7, HandsTake DEF PlaceInv
  <1>9. OnceEach'
    BY <1>1, <1>4, <1>8 DEF PlaceInv, OnceEach
  <1>10. ASSUME NEW x \in Messages, NEW k \in Kinds
         PROVE  IsAt(k, x)' <=> IF x = y THEN k = "hands" ELSE IsAt(k, x)
    <2>1. CASE x = y
      BY <1>1, <1>4, <1>6, <1>8, <2>1 DEF IsAt, Kinds, Pools
    <2>2. CASE x # y
      BY <1>1, <1>4, <1>8, <2>2 DEF IsAt, Kinds, Pools
    <2> QED  BY <2>1, <2>2
  <1>11. OneKind'
    BY <1>1, <1>5, <1>10, MoveKeepsOneKind DEF PlaceInv
  <1> QED  BY <1>3, <1>9, <1>11 DEF PlaceInv

\* SendMessage: from the hands of the loop that sends to the controller.
LEMMA SendMessagePlaces ==
    ASSUME AgentInv, PlaceInv, SendMessage
    PROVE  PlaceInv'
  <1> DEFINE y == hand["outgoing"]
  <1>1. /\ "outgoing" \in Loops /\ "outgoing" \in Goroutines
        /\ loop' = [loop EXCEPT !["outgoing"] = "ready"] /\ LetGo("outgoing")
        /\ sent' = sent \cup {y}
        /\ UNCHANGED <<main, arrived, worker, jobChan, outgoingMessages, lost>>
    BY DEF SendMessage, LoopMoves, Loops, Goroutines, poolVars
  <1>2. IdleHands'
    BY <1>1, IdleLoopStep DEF PlaceInv, LetGo
  <1>3. \A x \in Messages : HeldOnce(x)' /\ (Held(x)' <=> Held(x) /\ x # y)
    BY <1>1, HandsLetGo DEF PlaceInv
  <1>4. OnceEach'
    BY <1>1, <1>3 DEF PlaceInv, OnceEach
  <1>5. "hands" \in Kinds /\ "sent" \in Kinds /\ IsAt("hands", y)
    BY <1>1 DEF Kinds, IsAt, Held
  <1> HIDE DEF y
  <1>6. y \in Messages => \A k \in Kinds : IsAt(k, y) => k = "hands"
    BY <1>5 DEF PlaceInv, OneKind
  <1>7. ASSUME NEW x \in Messages, NEW k \in Kinds
        PROVE  IsAt(k, x)' <=> IF x = y THEN k = "sent" ELSE IsAt(k, x)
    <2>1. CASE x = y
      BY <1>1, <1>3, <1>6, <2>1 DEF IsAt, Kinds, Pools
    <2>2. CASE x # y
      BY <1>1, <1>3, <2>2 DEF IsAt, Kinds, Pools
    <2> QED  BY <2>1, <2>2
  <1>8. OneKind'
    BY <1>1, <1>5, <1>7, MoveKeepsOneKind DEF PlaceInv
  <1> QED  BY <1>2, <1>4, <1>8 DEF PlaceInv

\* QueueMessage: from the hands of a worker to the queue.
LEMMA QueueMessagePlaces ==
    ASSUME AgentInv, PlaceInv, NEW w \in Workers, QueueMessage(w)
    PROVE  PlaceInv'
  <1> DEFINE y == hand[w]
             S == Messages
  <1>1. /\ w \in Goroutines /\ y \in Items
        /\ worker' = [worker EXCEPT ![w] = "idle"] /\ LetGo(w)
        /\ outgoingMessages' = Append(outgoingMessages, y)
        /\ UNCHANGED <<main, arrived, loop, jobChan, sent, lost>>
    BY DEF QueueMessage, WorkerMoves, Goroutines, AgentInv, HandOK
  <1>2. outgoingMessages \in Seq(S) /\ y \in S
    BY <1>1 DEF AgentInv, TypeOK, Queues, Messages
  <1>3. IdleHands'
    BY <1>1, IdleWorkerStep DEF PlaceInv, LetGo
  <1>4. "hands" \in Kinds /\ "outgoing" \in Kinds /\ IsAt("hands", y)
    BY <1>1 DEF Kinds, IsAt, Held
  <1>5. \A x \in Messages : HeldOnce(x)' /\ (Held(x)' <=> Held(x) /\ x # y)
    BY <1>1, HandsLetGo DEF PlaceInv
  <1> HIDE DEF y, S
  <1>6. \A k \in Kinds : IsAt(k, y) => k = "hands"
    BY <1>1, <1>4 DEF PlaceInv, OneKind, Messages
  <1>7. ~InQueue(outgoingMessages, y)
    <2>1. ~IsAt("outgoing", y)
      BY <1>4, <1>6
    <2> QED  BY <2>1 DEF IsAt
  <1>8. \A x \in Messages :
           /\ OnceInQueue(outgoingMessages', x)
           /\ InQueue(outgoingMessages', x) <=> InQueue(outgoingMessages, x) \/ x = y
    <2>1. \A x \in Messages : OnceInQueue(outgoingMessages, x)
      BY DEF PlaceInv, OnceEach
    <2> QED  BY <1>1, <1>2, <1>7, <2>1, QueueAppended
  <1>9. OnceEach'
    BY <1>1, <1>5, <1>8 DEF PlaceInv, OnceEach
  <1>10. ASSUME NEW x \in Messages, NEW k \in Kinds
         PROVE  IsAt(k, x)' <=> IF x = y THEN k = "outgoing" ELSE IsAt(k, x)
    <2>1. CASE x = y
      BY <1>1, <1>5, <1>6, <1>8, <2>1 DEF IsAt, Kinds, Pools
    <2>2. CASE x # y
      BY <1>1, <1>5, <1>8, <2>2 DEF IsAt, Kinds, Pools
    <2> QED  BY <2>1, <2>2
  <1>11. OneKind'
    BY <1>1, <1>4, <1>10, MoveKeepsOneKind DEF PlaceInv
  <1> QED  BY <1>3, <1>9, <1>11 DEF PlaceInv

LEMMA LoopPlaces ==
    ASSUME AgentInv, PlaceInv, ControllerStep \/ SnifferStep \/ OutgoingStep
    PROVE  PlaceInv'
  <1>0. /\ "controller" \in Producers /\ "sniffer" \in Producers /\ Producers \subseteq Loops
        /\ "outgoing" \in Loops \ Producers /\ "outgoing" \in Goroutines
    BY DEF Producers, Loops, Goroutines
  <1>1. CASE RecvFails \/ ReadTimesOut \/ OutgoingEnds \/ \E l \in Producers : CheckContext(l)
    <2>1. PICK l \in Loops, to \in {"ready", "reading", "ended"} :
             /\ loop[l] \in {"ready", "reading"}
             /\ loop' = [loop EXCEPT ![l] = to]
             /\ UNCHANGED <<main, arrived, worker, hand, jobChan, outgoingMessages, sent, lost>>
      BY <1>0, <1>1 DEF CheckContext, RecvFails, ReadTimesOut, OutgoingEnds, LoopMoves,
                        poolVars, outVars
    <2>2. IdleHands'
      BY <2>1, IdleLoopStep DEF PlaceInv
    <2> QED  BY <2>1, <2>2, QuietPlaces
  <1>2. CASE \E l \in Producers : AddJob(l)
    BY <1>2, AddJobPlaces
  <1>3. CASE TakeMessage
    BY <1>3, TakeMessagePlaces
  <1>4. CASE SendMessage
    BY <1>4, SendMessagePlaces
  <1>5. CASE SendFails
    <2>1. /\ loop' = [loop EXCEPT !["outgoing"] = "ready"] /\ GiveUp("outgoing")
          /\ UNCHANGED <<main, arrived, worker, jobChan, outgoingMessages, sent>>
      BY <1>5 DEF SendFails, LoopMoves, poolVars, outVars
    <2>2. IdleHands'
      BY <1>0, <2>1, IdleLoopStep DEF PlaceInv, GiveUp, LetGo
    <2> QED  BY <1>0, <2>1, <2>2, GiveUpPlaces
  <1> QED  BY <1>0, <1>1, <1>2, <1>3, <1>4, <1>5 DEF ControllerStep, SnifferStep, OutgoingStep

LEMMA WorkerPlaces ==
    ASSUME AgentInv, PlaceInv, NEW w \in Workers, WorkerStep(w)
    PROVE  PlaceInv'
  <1>1. CASE WorkerEnds(w) \/ Finish(w)
    <2>1. PICK to \in {"queueing", "ended"} :
             /\ to = "ended" => worker[w] = "idle"
             /\ worker' = [worker EXCEPT ![w] = to]
             /\ UNCHANGED <<main, arrived, loop, hand, jobChan, outgoingMessages, sent, lost>>
      BY <1>1 DEF WorkerEnds, Finish, WorkerMoves, outVars
    <2>2. IdleHands'
      BY <2>1, IdleWorkerStep DEF PlaceInv
    <2> QED  BY <2>1, <2>2, QuietPlaces
  <1>2. CASE TakeJob(w)
    BY <1>2, TakeJobPlaces
  <1>3. CASE Abandon(w) \/ QueueCancelled(w)
    <2>1. /\ worker' = [worker EXCEPT ![w] = "idle"] /\ GiveUp(w)
          /\ UNCHANGED <<main, arrived, loop, jobChan, outgoingMessages, sent>>
      BY <1>3 DEF Abandon, QueueCancelled, WorkerMoves, outVars
    <2>2. IdleHands'
      BY <2>1, IdleWorkerStep DEF PlaceInv, GiveUp, LetGo
    <2> QED  BY <2>1, <2>2, GiveUpPlaces DEF Goroutines
  <1>4. CASE QueueMessage(w)
    BY <1>4, QueueMessagePlaces
  <1> QED  BY <1>1, <1>2, <1>3, <1>4 DEF WorkerStep

LEMMA PlaceInvariant == Spec => [](AgentInv /\ OrderInv /\ PlaceInv)
  <1>1. AgentInv /\ OrderInv /\ PlaceInv /\ [Next]_vars => PlaceInv'
    <2> SUFFICES ASSUME AgentInv, OrderInv, PlaceInv, [Next]_vars PROVE PlaceInv'
      OBVIOUS
    <2>1. CASE UNCHANGED vars
      <3>1. IdleHands'
        BY <2>1 DEF vars, poolVars, outVars, PlaceInv, IdleHands
      <3> QED  BY <2>1, <3>1, QuietPlaces DEF vars, poolVars, outVars
    <2>2. CASE MainStep \/ Stop \/ Disconnect
      BY <2>2, MainPlaces
    <2>3. CASE ControllerStep \/ SnifferStep \/ OutgoingStep
      BY <2>3, LoopPlaces
    <2>4. CASE Arrival
      BY <2>4, ArrivalPlaces
    <2>5. CASE \E w \in Workers : WorkerStep(w)
      BY <2>5, WorkerPlaces
    <2>6. CASE Terminated
      BY <2>1, <2>6 DEF Terminated
    <2> QED  BY <2>1, <2>2, <2>3, <2>4, <2>5, <2>6 DEF Next
  <1> QED  BY <1>1, InitPlaces, AgentInvariant, PTL DEF Spec

\* From "at most once, in one kind of place" to the count.
LEMMA OneOrNone ==
    ASSUME NEW S, \A a, b \in S : a = b
    PROVE  Cardinality(S) = IF S = {} THEN 0 ELSE 1
  <1>1. CASE S = {}
    BY <1>1, FS_EmptySet
  <1>2. CASE S # {}
    <2>1. PICK a \in S : TRUE
      BY <1>2
    <2>2. S = {a}
      BY <2>1
    <2> QED  BY <1>2, <2>2, FS_Singleton
  <1> QED  BY <1>1, <1>2

LEMMA PlacesCounted ==
    ASSUME AgentInv, PlaceInv
    PROVE  ItemsConserved
  <1> SUFFICES ASSUME NEW x \in Items, x \in arrived PROVE Places(x) = 1
    BY DEF ItemsConserved, AgentInv, TypeOK
  <1> DEFINE H == { g \in Loops \cup Workers : hand[g] = x }
             C == { pi \in Pools \X (1 .. ChanSize) :
                       pi[2] \in DOMAIN jobChan[pi[1]] /\ jobChan[pi[1]][pi[2]] = x }
             O == { i \in DOMAIN outgoingMessages : outgoingMessages[i] = x }
             T == {x} \cap sent
             L == {x} \cap lost
  <1>1. \A p \in Pools : jobChan[p] \in Seq(Items) /\ Len(jobChan[p]) <= ChanSize
    BY DEF AgentInv, TypeOK, Queues
  <1>2. H # {} <=> IsAt("hands", x)
    BY DEF IsAt, Held, Goroutines, Pools
  <1>3. C # {} <=> \E p \in Pools : IsAt(p, x)
    <2>1. ASSUME NEW p \in Pools, NEW i \in DOMAIN jobChan[p]
          PROVE  <<p, i>> \in Pools \X (1 .. ChanSize)
      BY <1>1, ChanSizeAssumption
    <2>2. \A p \in Pools : IsAt(p, x) <=> InQueue(jobChan[p], x)
      BY DEF IsAt, Pools
    <2>3. ASSUME C # {} PROVE \E p \in Pools : InQueue(jobChan[p], x)
      <3>1. PICK a \in C : TRUE
        BY <2>3
      <3>2. PICK p \in Pools, i \in 1 .. ChanSize : a = <<p, i>>
        OBVIOUS
      <3>3. i \in DOMAIN jobChan[p] /\ jobChan[p][i] = x
        BY <3>2
      <3> QED  BY <3>3 DEF InQueue
    <2>4. ASSUME NEW p \in Pools, InQueue(jobChan[p], x) PROVE C # {}
      <3>1. PICK i \in DOMAIN jobChan[p] : jobChan[p][i] = x
        BY <2>4 DEF InQueue
      <3>2. <<p, i>> \in C
        BY <2>1, <3>1
      <3> QED  BY <3>2
    <2> QED  BY <2>2, <2>3, <2>4
  <1>4. O # {} <=> IsAt("outgoing", x)
    BY DEF IsAt, InQueue, Pools
  <1>5. (T # {} <=> IsAt("sent", x)) /\ (L # {} <=> IsAt("lost", x))
    BY DEF IsAt, Pools
  <1>6. \A a, b \in H : a = b
    BY DEF Messages, PlaceInv, OnceEach, HeldOnce, Goroutines
  <1>7. \A a, b \in C : a = b
    <2> SUFFICES ASSUME NEW a \in C, NEW b \in C PROVE a = b
      OBVIOUS
    <2>1. PICK p \in Pools, i \in 1 .. ChanSize : a = <<p, i>>
      OBVIOUS
    <2>2. PICK o \in Pools, j \in 1 .. ChanSize : b = <<o, j>>
      OBVIOUS
    <2>3. /\ i \in DOMAIN jobChan[p] /\ jobChan[p][i] = x
          /\ j \in DOMAIN jobChan[o] /\ jobChan[o][j] = x
      BY <2>1, <2>2
    <2>4. p \in Kinds /\ o \in Kinds /\ IsAt(p, x) /\ IsAt(o, x)
      BY <2>3 DEF IsAt, InQueue, Kinds
    <2>5. p = o
      BY <2>4 DEF Messages, PlaceInv, OneKind
    <2>6. i = j
      BY <2>3, <2>5 DEF Messages, PlaceInv, OnceEach, OnceInQueue
    <2> QED  BY <2>1, <2>2, <2>5, <2>6
  <1>8. \A a, b \in O : a = b
    BY DEF Messages, PlaceInv, OnceEach, OnceInQueue
  <1>9. Places(x) = Cardinality(H) + Cardinality(C) + Cardinality(O) + Cardinality(T) + Cardinality(L)
    BY DEF Places
  <1> HIDE DEF H, C, O
  <1>10. /\ Cardinality(H) = IF H = {} THEN 0 ELSE 1
         /\ Cardinality(C) = IF C = {} THEN 0 ELSE 1
         /\ Cardinality(O) = IF O = {} THEN 0 ELSE 1
         /\ Cardinality(T) = IF T = {} THEN 0 ELSE 1
         /\ Cardinality(L) = IF L = {} THEN 0 ELSE 1
    <2>1. (\A a, b \in T : a = b) /\ (\A a, b \in L : a = b)
      OBVIOUS
    <2> HIDE DEF T, L
    <2> QED  BY <1>6, <1>7, <1>8, <2>1, OneOrNone
  <1>11. PICK c \in Kinds : IsAt(c, x) /\ \A d \in Kinds : IsAt(d, x) => d = c
    BY DEF PlaceInv, OneKind, Messages, Inside
  <1> HIDE DEF T, L
  <1>12. CASE c \in Pools
    <2>1. ~IsAt("hands", x) /\ ~IsAt("outgoing", x) /\ ~IsAt("sent", x) /\ ~IsAt("lost", x)
      BY <1>11, <1>12 DEF Kinds, Pools
    <2> QED  BY <1>2, <1>3, <1>4, <1>5, <1>9, <1>10, <1>11, <1>12, <2>1
  <1>13. CASE c \notin Pools
    <2>1. \A p \in Pools : ~IsAt(p, x)
      BY <1>11, <1>13 DEF Kinds
    <2>2. c \in {"hands", "outgoing", "sent", "lost"}
      BY <1>13 DEF Kinds
    <2>3. \A d \in {"hands", "outgoing", "sent", "lost"} : IsAt(d, x) <=> d = c
      BY <1>11, <2>2 DEF Kinds
    <2> QED  BY <1>2, <1>3, <1>4, <1>5, <1>9, <1>10, <2>1, <2>2, <2>3
  <1> QED  BY <1>12, <1>13

\* Every job and every packet an agent has read is in one place: in the hands of
\* one goroutine, once in one queue, given to the controller, or given up where
\* the code gives up. Nothing is answered twice, and nothing is both answered
\* and dropped. (AddJob, senderWorker, listenerWorker, handleOutgoingMessages)
THEOREM ItemsStayInOnePlace == Spec => []ItemsConserved
  BY PlacesCounted, PlaceInvariant, PTL
-----------------------------------------------------------------------------
(***************************************************************************)
(* The refinement of AgentRelay. What a goroutine holds is still owed:     *)
(* that is where the simulation needs the places.                          *)
(***************************************************************************)
LEMMA HeldIsOwed ==
    ASSUME PlaceInv, NEW g \in Goroutines, hand[g] \in Messages
    PROVE  hand[g] \in Relay!Owed
  <1>1. "hands" \in Kinds /\ "sent" \in Kinds /\ "lost" \in Kinds /\ IsAt("hands", hand[g])
    BY DEF Kinds, IsAt, Held
  <1>2. Inside(hand[g]) /\ ~IsAt("sent", hand[g]) /\ ~IsAt("lost", hand[g])
    BY <1>1 DEF PlaceInv, OneKind
  <1> QED  BY <1>2 DEF IsAt, Inside, Relay!Owed

LEMMA RelayGivesUp ==
    ASSUME PlaceInv, NEW g \in Goroutines, hand[g] \in Messages, GiveUp(g),
           UNCHANGED <<arrived, sent>>
    PROVE  Relay!Next
  <1>1. Relay!GiveUp(hand[g])
    BY HeldIsOwed DEF GiveUp, Relay!GiveUp
  <1> QED  BY <1>1, HeldIsOwed DEF Relay!Next

\* Nothing but Register is sent while Register may still be on its way.
LEMMA RelaySends ==
    ASSUME AgentInv, OrderInv, PlaceInv, SendMessage
    PROVE  Relay!Next
  <1> DEFINE y == hand["outgoing"]
  <1>1. /\ "outgoing" \in Goroutines /\ "outgoing" \in Loops
        /\ loop["outgoing"] = "sending" /\ connection = "up"
        /\ sent' = sent \cup {y} /\ UNCHANGED <<arrived, lost>>
        /\ y \in Messages
    BY DEF SendMessage, LoopMoves, Goroutines, Loops, AgentInv, HandOK, Messages
  <1>2. main \notin Early
    BY <1>1, LoopRuns
  <1>3. y = Register \/ Register \in sent
    BY <1>1, <1>2 DEF OrderInv, RegisterLeads, RegisterNext
  <1>4. y \in Relay!Owed
    BY <1>1, HeldIsOwed
  <1>5. Relay!Send(y)
    BY <1>1, <1>3, <1>4 DEF Relay!Send
  <1> QED  BY <1>4, <1>5 DEF Relay!Next

LEMMA RelaySimulation ==
    ASSUME AgentInv, OrderInv, PlaceInv, [Next]_vars
    PROVE  [Relay!Next]_(Relay!vars)
  <1> USE DEF Relay!vars
  <1>1. CASE MainStep \/ Stop \/ Disconnect \/ Terminated \/ UNCHANGED vars
    BY <1>1 DEF MainStep, Start, StartFails, QueueRegister, RegisterFails, WaitForLoops,
                JoinSenders, JoinListeners, Stop, Disconnect, Terminated, vars, outVars
  <1>2. ASSUME NEW j \in Jobs, ReceiveJob(j) PROVE Relay!Next
    <2>1. Relay!Arrive(j)
      BY <1>2 DEF ReceiveJob, Relay!Arrive, outVars
    <2> QED  BY <2>1 DEF Relay!Next
  <1>3. ASSUME NEW p \in Packets, Sniff(p) PROVE Relay!Next
    <2>1. Relay!Arrive(p)
      BY <1>3 DEF Sniff, Relay!Arrive, outVars
    <2> QED  BY <2>1 DEF Relay!Next
  <1>4. ASSUME NEW l \in Producers, AddJob(l) PROVE [Relay!Next]_(Relay!vars)
    <2>1. l \in Goroutines /\ hand[l] \in Messages
      BY <1>4 DEF AddJob, LoopMoves, Producers, Goroutines, Loops, Messages, AgentInv, HandOK
    <2>2. CASE GiveUp(l)
      BY <1>4, <2>1, <2>2, RelayGivesUp DEF AddJob, outVars
    <2> QED  BY <1>4, <2>2 DEF AddJob, outVars
  <1>5. CASE SendMessage
    BY <1>5, RelaySends
  <1>6. CASE SendFails
    <2>1. "outgoing" \in Goroutines /\ hand["outgoing"] \in Messages
      BY <1>6 DEF SendFails, LoopMoves, Goroutines, Loops, Messages, AgentInv, HandOK
    <2> QED  BY <1>6, <2>1, RelayGivesUp DEF SendFails, outVars
  <1>7. ASSUME NEW w \in Workers, WorkerStep(w) PROVE [Relay!Next]_(Relay!vars)
    <2>1. CASE Abandon(w) \/ QueueCancelled(w)
      <3>1. w \in Goroutines /\ hand[w] \in Messages
        BY <2>1 DEF Abandon, QueueCancelled, WorkerMoves, Goroutines, Messages, AgentInv, HandOK
      <3> QED  BY <2>1, <3>1, RelayGivesUp DEF Abandon, QueueCancelled, outVars
    <2> QED  BY <1>7, <2>1 DEF WorkerStep, WorkerEnds, TakeJob, Finish, QueueMessage, outVars
  <1>8. CASE RecvFails \/ ReadTimesOut \/ OutgoingEnds \/ TakeMessage
             \/ \E l \in Producers : CheckContext(l)
    BY <1>8 DEF RecvFails, ReadTimesOut, OutgoingEnds, TakeMessage, CheckContext, outVars
  <1> QED
    BY <1>1, <1>2, <1>3, <1>4, <1>5, <1>6, <1>7, <1>8
    DEF Next, ControllerStep, SnifferStep, OutgoingStep, Arrival, Producers

\* The agent implements AgentRelay: between the jobs and packets it reads and the
\* messages it sends, its loops, queues and worker pools cannot be told from a
\* relay that sends Register first and then every message once, or gives it up.
\* (Run, AddJob, handleOutgoingMessages, senderWorker, listenerWorker)
THEOREM AgentImplementsRelay == Spec => ImplementsRelay
  <1>1. Init => Relay!Init
    BY DEF Init, Relay!Init
  <1> QED  BY <1>1, RelaySimulation, PlaceInvariant, PTL DEF Spec, ImplementsRelay, Relay!Spec
-----------------------------------------------------------------------------
(***************************************************************************)
(* Why nothing waits for ever behind a lost connection: only Stop makes    *)
(* the consumers end, the loop that sends and the workers of both pools,   *)
(* and only Stop makes Run wait for the pools. The reading loops may end.  *)
(***************************************************************************)
ConsumersStay ==
    ~cancelled =>
        /\ main \notin Joined
        /\ loop["outgoing"] # "ended"
        /\ \A w \in Workers : worker[w] # "ended"

LEMMA MainKeepsConsumers ==
    ASSUME AgentInv, OrderInv, ConsumersStay, MainStep \/ Stop \/ Disconnect
    PROVE  ConsumersStay'
  <1>1. CASE Start \/ QueueRegister
    BY <1>1 DEF Start, QueueRegister, MainMoves, ConsumersStay, Joined, Loops, poolVars
  <1>2. CASE StartFails \/ RegisterFails
    BY <1>2 DEF StartFails, RegisterFails, MainMoves, ConsumersStay, Joined, poolVars
  <1>3. CASE WaitForLoops
    BY <1>3 DEF WaitForLoops, MainMoves, ConsumersStay, Loops
  <1>4. CASE JoinSenders \/ JoinListeners
    BY <1>4 DEF JoinSenders, JoinListeners, MainMoves, ConsumersStay, Joined
  <1>5. CASE Stop \/ Disconnect
    BY <1>5 DEF Stop, Disconnect, ConsumersStay, poolVars
  <1> QED  BY <1>1, <1>2, <1>3, <1>4, <1>5 DEF MainStep

LEMMA LoopsKeepConsumers ==
    ASSUME AgentInv, ConsumersStay, ControllerStep \/ SnifferStep \/ OutgoingStep \/ Arrival
    PROVE  ConsumersStay'
  <1>1. UNCHANGED <<main, cancelled, worker>>
    BY DEF ControllerStep, SnifferStep, OutgoingStep, Arrival, CheckContext, ReceiveJob, RecvFails,
           Sniff, ReadTimesOut, AddJob, OutgoingEnds, TakeMessage, SendMessage, SendFails, poolVars
  <1>2. loop'["outgoing"] = "ended" => cancelled \/ loop["outgoing"] = "ended"
    <2>1. CASE OutgoingStep
      BY <2>1 DEF OutgoingStep, OutgoingEnds, TakeMessage, SendMessage, SendFails, LoopMoves,
                  AgentInv, TypeOK, Loops
    <2>2. CASE ControllerStep \/ SnifferStep \/ Arrival
      BY <2>2 DEF ControllerStep, SnifferStep, Arrival, CheckContext, ReceiveJob, RecvFails, Sniff,
                  ReadTimesOut, AddJob, LoopMoves, AgentInv, TypeOK, Loops
    <2> QED  BY <2>1, <2>2
  <1> QED  BY <1>1, <1>2 DEF ConsumersStay

LEMMA WorkerKeepsConsumers ==
    ASSUME AgentInv, OrderInv, ConsumersStay, NEW w \in Workers, WorkerStep(w)
    PROVE  ConsumersStay'
  <1>1. UNCHANGED <<main, cancelled, loop>>
    BY DEF WorkerStep, WorkerEnds, TakeJob, Finish, Abandon, QueueMessage, QueueCancelled
  <1>2. CASE WorkerEnds(w)
    <2>1. main \in Joined
      BY <1>2 DEF WorkerEnds, OrderInv, ShutdownOrder
    <2> QED  BY <1>1, <2>1 DEF ConsumersStay
  <1>3. CASE ~WorkerEnds(w)
    <2>1. \A v \in Workers : worker'[v] = "ended" => worker[v] = "ended"
      BY <1>3 DEF WorkerStep, TakeJob, Finish, Abandon, QueueMessage, QueueCancelled, WorkerMoves,
                  AgentInv, TypeOK
    <2> QED  BY <1>1, <2>1 DEF ConsumersStay
  <1> QED  BY <1>2, <1>3

\* Nobody but Stop ends the agent's senders, its workers or its Run: a lost
\* connection, a failed Send and full channels do not. (handleOutgoingMessages,
\* WorkerPool.Stop)
THEOREM OnlyStopEndsConsumers == Spec => []ConsumersStay
  <1>1. Init => ConsumersStay
    BY DEF Init, ConsumersStay, Joined, Loops
  <1>2. AgentInv /\ OrderInv /\ ConsumersStay /\ [Next]_vars => ConsumersStay'
    <2> SUFFICES ASSUME AgentInv, OrderInv, ConsumersStay, [Next]_vars PROVE ConsumersStay'
      OBVIOUS
    <2>1. CASE UNCHANGED vars
      BY <2>1 DEF vars, poolVars, ConsumersStay
    <2> QED
      BY <2>1, MainKeepsConsumers, LoopsKeepConsumers, WorkerKeepsConsumers DEF Next, Terminated
  <1> QED  BY <1>1, <1>2, AgentInvariant, PTL DEF Spec
=============================================================================
