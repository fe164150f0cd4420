------------------------------- MODULE Agent -------------------------------
(***************************************************************************)
(* One agent process: the loops that read jobs and packets and that send   *)
(* messages, the two worker pools between them, and the shutdown.          *)
(* (internal/agent/agent.go and worker.go)                                 *)
(*                                                                         *)
(* A job and the Done that answers it are the same item, and so are a      *)
(* packet and the Reply that passes it on: the place tells which it is.    *)
(***************************************************************************)
EXTENDS Naturals, Sequences, FiniteSets

CONSTANTS Jobs, Packets,                   \* what may arrive from outside
          SenderWorkers, ListenerWorkers,  \* the goroutines of the two pools
          ChanSize,                        \* WorkerJobChannelSize
          Register,                        \* the Register message
          NoItem

ASSUME ChanSizeAssumption == ChanSize \in Nat \ {0}

ASSUME ItemsAssumption ==
    /\ Jobs \cap Packets = {}
    /\ {Register, NoItem} \cap (Jobs \cup Packets) = {}
    /\ Register # NoItem

VARIABLES
    main,              \* where Run is
    cancelled,         \* a.ctx is done
    connection,        \* external: the stream to the controller
    arrived,           \* external: the jobs and packets read so far
    loop,              \* where each loop is
    worker,            \* where each worker is
    hand,              \* what a loop or a worker is busy with
    jobChan,           \* the job channel of each pool
    stopped,           \* the pools that were told to stop
    outgoingMessages,
    sent,              \* external: the messages given to the controller
    lost               \* history: what was given up, with a log line at most

poolVars == <<worker, jobChan, stopped>>
outVars  == <<outgoingMessages, sent>>
vars == <<main, cancelled, connection, arrived, loop, hand, poolVars, outVars, lost>>
-----------------------------------------------------------------------------
Items   == Jobs \cup Packets
Pools   == {"senders", "listeners"}
Loops   == {"controller", "sniffer", "outgoing"}
Workers == SenderWorkers \cup ListenerWorkers

Members(p) == IF p = "senders" THEN SenderWorkers ELSE ListenerWorkers
PoolOf(w)  == IF w \in SenderWorkers THEN "senders" ELSE "listeners"

\* handleController feeds the senders, handleSniffer the listeners.
Fed(l) == IF l = "controller" THEN "senders" ELSE "listeners"
Producers == {"controller", "sniffer"}

ASSUME GoroutinesAssumption == Loops \cap Workers = {}

LoopMoves(l, from, to) ==
    /\ loop[l] = from
    /\ loop' = [loop EXCEPT ![l] = to]

WorkerMoves(w, from, to) ==
    /\ worker[w] = from
    /\ worker' = [worker EXCEPT ![w] = to]

MainMoves(from, to) == main = from /\ main' = to

Grab(g, item)  == hand' = [hand EXCEPT ![g] = item]
LetGo(g)       == Grab(g, NoItem)
GiveUp(g)      == lost' = lost \cup {hand[g]} /\ LetGo(g)

HasRoom(queue) == Len(queue) < ChanSize

Init ==
    /\ main = "starting"
    /\ cancelled = FALSE
    /\ connection = "up"
    /\ arrived = {}
    /\ loop = [l \in Loops |-> "off"]
    /\ worker = [w \in Workers |-> "off"]
    /\ hand = [g \in Loops \cup Workers |-> NoItem]
    /\ jobChan = [p \in Pools |-> <<>>]
    /\ stopped = {}
    /\ outgoingMessages = <<>>
    /\ sent = {}
    /\ lost = {}
-----------------------------------------------------------------------------
(***************************************************************************)
(* Run: connect, start the pools, queue the Register message, start the    *)
(* loops, wait for all of them, stop one pool and then the other.          *)
(***************************************************************************)
\* Mutation: the loops are started together with the pools.
StartEverything ==
    /\ MainMoves("starting", "registering")
    /\ worker' = [w \in Workers |-> "idle"]
    /\ loop' = [l \in Loops |-> "ready"]
    /\ UNCHANGED <<cancelled, connection, arrived, hand, jobChan, stopped, outVars, lost>>

Start ==
    /\ MainMoves("starting", "registering")
    /\ worker' = [w \in Workers |-> "idle"]
    /\ UNCHANGED <<cancelled, connection, arrived, loop, hand, jobChan, stopped, outVars, lost>>

StartFails ==
    /\ MainMoves("starting", "failed")
    /\ connection' = "down"
    /\ UNCHANGED <<cancelled, arrived, loop, hand, poolVars, outVars, lost>>

\* Without an ICMP socket, which takes root privileges, there is no sniffer.
QueueRegister ==
    /\ MainMoves("registering", "waiting")
    /\ HasRoom(outgoingMessages)
    /\ outgoingMessages' = Append(outgoingMessages, Register)
    /\ \E icmpSocket \in BOOLEAN :
          loop' = [l \in Loops |-> IF l = "sniffer" /\ ~icmpSocket THEN "ended" ELSE "ready"]
    /\ UNCHANGED <<cancelled, connection, arrived, hand, poolVars, sent, lost>>

RegisterFails ==
    /\ MainMoves("registering", "failed")
    /\ cancelled
    /\ connection' = "down"
    /\ UNCHANGED <<cancelled, arrived, loop, hand, poolVars, outVars, lost>>

\* Mutation: the wait group counts the outgoing loop only.
WaitForOutgoing ==
    /\ MainMoves("waiting", "joining senders")
    /\ loop["outgoing"] = "ended"
    /\ stopped' = stopped \cup {"senders"}
    /\ UNCHANGED <<cancelled, connection, arrived, loop, worker, hand, jobChan, outVars, lost>>

\* a.wg.Wait, then Stop of the senders: their context is cancelled and their
\* channel closed, either of which makes an idle worker return.
WaitForLoops ==
    /\ MainMoves("waiting", "joining senders")
    /\ \A l \in Loops : loop[l] = "ended"
    /\ stopped' = stopped \cup {"senders"}
    /\ UNCHANGED <<cancelled, connection, arrived, loop, worker, hand, jobChan, outVars, lost>>

JoinSenders ==
    /\ MainMoves("joining senders", "joining listeners")
    /\ \A w \in SenderWorkers : worker[w] = "ended"
    /\ stopped' = stopped \cup {"listeners"}
    /\ UNCHANGED <<cancelled, connection, arrived, loop, worker, hand, jobChan, outVars, lost>>

JoinListeners ==
    /\ MainMoves("joining listeners", "stopped")
    /\ \A w \in ListenerWorkers : worker[w] = "ended"
    /\ connection' = "down"
    /\ UNCHANGED <<cancelled, arrived, loop, hand, poolVars, outVars, lost>>

\* Stop, on a signal, whenever it comes.
Stop ==
    /\ ~cancelled
    /\ cancelled' = TRUE
    /\ UNCHANGED <<main, connection, arrived, loop, hand, poolVars, outVars, lost>>

\* The controller ends the stream, or the network gives it up.
Disconnect ==
    /\ connection = "up"
    /\ connection' = "down"
    /\ UNCHANGED <<main, cancelled, arrived, loop, hand, poolVars, outVars, lost>>
-----------------------------------------------------------------------------
\* The head of both reading loops: ended once the context is done.
CheckContext(l) ==
    /\ l \in Producers
    /\ LoopMoves(l, "ready", IF cancelled THEN "ended" ELSE "reading")
    /\ UNCHANGED <<main, cancelled, connection, arrived, hand, poolVars, outVars, lost>>

\* Recv returns a Job: the controller sends none before the agent registered.
ReceiveJob(j) ==
    /\ LoopMoves("controller", "reading", "adding")
    /\ connection = "up"
    /\ Register \in sent
    /\ j \notin arrived
    /\ arrived' = arrived \cup {j}
    /\ Grab("controller", j)
    /\ UNCHANGED <<main, cancelled, connection, poolVars, outVars, lost>>

RecvFails ==
    /\ LoopMoves("controller", "reading", "ended")
    /\ cancelled \/ connection = "down"
    /\ UNCHANGED <<main, cancelled, connection, arrived, hand, poolVars, outVars, lost>>

Sniff(p) ==
    /\ LoopMoves("sniffer", "reading", "adding")
    /\ p \notin arrived
    /\ arrived' = arrived \cup {p}
    /\ Grab("sniffer", p)
    /\ UNCHANGED <<main, cancelled, connection, poolVars, outVars, lost>>

\* SocketReadTimeout, or a read error: the loop starts over.
ReadTimesOut ==
    /\ LoopMoves("sniffer", "reading", "ready")
    /\ UNCHANGED <<main, cancelled, connection, arrived, hand, poolVars, outVars, lost>>

\* Mutation: nobody looks whether the channel has room.
AddJobUnbounded(l) ==
    /\ LoopMoves(l, "adding", "ready")
    /\ jobChan' = [jobChan EXCEPT ![Fed(l)] = Append(@, hand[l])]
    /\ LetGo(l)
    /\ UNCHANGED <<main, cancelled, connection, arrived, worker, stopped, outVars, lost>>

\* AddJob never blocks: what the channel has no room for is dropped. That the
\* pool is not stopped by then is PoolsOutliveProducers.
AddJob(l) ==
    /\ LoopMoves(l, "adding", "ready")
    /\ IF HasRoom(jobChan[Fed(l)])
       THEN /\ jobChan' = [jobChan EXCEPT ![Fed(l)] = Append(@, hand[l])]
            /\ LetGo(l)
            /\ UNCHANGED lost
       ELSE /\ GiveUp(l)
            /\ UNCHANGED jobChan
    /\ UNCHANGED <<main, cancelled, connection, arrived, worker, stopped, outVars>>

OutgoingEnds ==
    /\ LoopMoves("outgoing", "ready", "ended")
    /\ cancelled
    /\ UNCHANGED <<main, cancelled, connection, arrived, hand, poolVars, outVars, lost>>

TakeMessage ==
    /\ LoopMoves("outgoing", "ready", "sending")
    /\ outgoingMessages # <<>>
    /\ Grab("outgoing", Head(outgoingMessages))
    /\ outgoingMessages' = Tail(outgoingMessages)
    /\ UNCHANGED <<main, cancelled, connection, arrived, poolVars, sent, lost>>

SendMessage ==
    /\ LoopMoves("outgoing", "sending", "ready")
    /\ connection = "up"
    /\ sent' = sent \cup {hand["outgoing"]}
    /\ LetGo("outgoing")
    /\ UNCHANGED <<main, cancelled, connection, arrived, poolVars, outgoingMessages, lost>>

\* Mutation: the loop returns when Send fails, as handleController does.
SendFailsAndReturns ==
    /\ LoopMoves("outgoing", "sending", "ended")
    /\ cancelled \/ connection = "down"
    /\ connection' = "down"
    /\ GiveUp("outgoing")
    /\ UNCHANGED <<main, cancelled, arrived, poolVars, outVars>>

\* Send on a stream that is down, or whose context is done, which ends it. The
\* message is given up and the loop goes on.
SendFails ==
    /\ LoopMoves("outgoing", "sending", "ready")
    /\ cancelled \/ connection = "down"
    /\ connection' = "down"
    /\ GiveUp("outgoing")
    /\ UNCHANGED <<main, cancelled, arrived, poolVars, outVars>>
-----------------------------------------------------------------------------
\* A worker that finds its pool stopped and jobs left takes either case.
WorkerEnds(w) ==
    /\ WorkerMoves(w, "idle", "ended")
    /\ PoolOf(w) \in stopped
    /\ UNCHANGED <<main, cancelled, connection, arrived, loop, hand, jobChan, stopped, outVars, lost>>

TakeJob(w) ==
    /\ WorkerMoves(w, "idle", "working")
    /\ jobChan[PoolOf(w)] # <<>>
    /\ Grab(w, Head(jobChan[PoolOf(w)]))
    /\ jobChan' = [jobChan EXCEPT ![PoolOf(w)] = Tail(@)]
    /\ UNCHANGED <<main, cancelled, connection, arrived, loop, stopped, outVars, lost>>

\* senderWorker sent the probes, or listenerWorker found an ICMP error.
Finish(w) ==
    /\ WorkerMoves(w, "working", "queueing")
    /\ UNCHANGED <<main, cancelled, connection, arrived, loop, hand, jobChan, stopped, outVars, lost>>

\* senderWorker cannot open its socket, or the packet is not an ICMP error.
Abandon(w) ==
    /\ WorkerMoves(w, "working", "idle")
    /\ GiveUp(w)
    /\ UNCHANGED <<main, cancelled, connection, arrived, loop, jobChan, stopped, outVars>>

\* Mutation: a worker that has queued its message queues it once more.
QueueTwice(w) ==
    /\ worker[w] = "queueing"
    /\ HasRoom(outgoingMessages)
    /\ outgoingMessages' = Append(outgoingMessages, hand[w])
    /\ \/ WorkerMoves(w, "queueing", "idle") /\ LetGo(w)
       \/ UNCHANGED <<worker, hand>>
    /\ UNCHANGED <<main, cancelled, connection, arrived, loop, jobChan, stopped, sent, lost>>

QueueMessage(w) ==
    /\ WorkerMoves(w, "queueing", "idle")
    /\ HasRoom(outgoingMessages)
    /\ outgoingMessages' = Append(outgoingMessages, hand[w])
    /\ LetGo(w)
    /\ UNCHANGED <<main, cancelled, connection, arrived, loop, jobChan, stopped, sent, lost>>

\* Mutation: no case for the context, the worker waits for room.
QueueWaits(w) == QueueMessage(w)

QueueCancelled(w) ==
    /\ WorkerMoves(w, "queueing", "idle")
    /\ cancelled
    /\ GiveUp(w)
    /\ UNCHANGED <<main, cancelled, connection, arrived, loop, jobChan, stopped, outVars>>
-----------------------------------------------------------------------------
MainStep ==
    \/ Start \/ StartFails \/ QueueRegister \/ RegisterFails
    \/ WaitForLoops \/ JoinSenders \/ JoinListeners

ControllerStep == CheckContext("controller") \/ RecvFails \/ AddJob("controller")
SnifferStep    == CheckContext("sniffer") \/ ReadTimesOut \/ AddJob("sniffer")
OutgoingStep   == OutgoingEnds \/ TakeMessage \/ SendMessage \/ SendFails

WorkerStep(w) ==
    \/ WorkerEnds(w) \/ TakeJob(w) \/ Finish(w) \/ Abandon(w)
    \/ QueueMessage(w) \/ QueueCancelled(w)

Arrival == (\E j \in Jobs : ReceiveJob(j)) \/ (\E p \in Packets : Sniff(p))

\* Run returned: the process is over.
Terminated == main \in {"stopped", "failed"} /\ UNCHANGED vars

Next ==
    \/ MainStep \/ ControllerStep \/ SnifferStep \/ OutgoingStep
    \/ (\E w \in Workers : WorkerStep(w))
    \/ Arrival \/ Stop \/ Disconnect \/ Terminated

(***************************************************************************)
(* Every goroutine runs on, reads of the socket time out, and Send returns:*)
(* the controller reads its streams. Nothing has to arrive, nobody has to  *)
(* stop the agent, and a connection may last.                              *)
(***************************************************************************)
Fairness ==
    /\ WF_vars(MainStep)
    /\ WF_vars(ControllerStep)
    /\ WF_vars(SnifferStep)
    /\ WF_vars(OutgoingStep)
    /\ \A w \in Workers : WF_vars(WorkerStep(w))

Spec == Init /\ [][Next]_vars

FairSpec == Spec /\ Fairness
-----------------------------------------------------------------------------
Queues(S) == { q \in Seq(S) : Len(q) <= ChanSize }

TypeOK ==
    /\ main \in {"starting", "registering", "waiting", "joining senders",
                 "joining listeners", "stopped", "failed"}
    /\ cancelled \in BOOLEAN
    /\ connection \in {"up", "down"}
    /\ arrived \subseteq Items
    /\ loop \in [Loops -> {"off", "ready", "reading", "adding", "sending", "ended"}]
    /\ worker \in [Workers -> {"off", "idle", "working", "queueing", "ended"}]
    /\ hand \in [Loops \cup Workers -> Items \cup {Register, NoItem}]
    /\ jobChan \in [Pools -> Queues(Items)]
    /\ stopped \subseteq Pools
    /\ outgoingMessages \in Queues(Items \cup {Register})
    /\ sent \subseteq Items \cup {Register}
    /\ lost \subseteq Items \cup {Register}

(***************************************************************************)
(* AddJob never meets a pool that was stopped, whose channel is closed: a  *)
(* send on it would end the agent with a panic.                            *)
(***************************************************************************)
PoolsOutliveProducers ==
    \A l \in Producers : Fed(l) \in stopped => loop[l] = "ended"

(***************************************************************************)
(* The controller hears Register before anything else, so it knows which   *)
(* agent a Reply came from, although the workers run by then, packets come *)
(* in before the controller has answered, and a Send may fail.             *)
(***************************************************************************)
RegisterFirst == sent # {} => Register \in sent

\* In how many places an item is.
Places(x) ==
    Cardinality({ g \in Loops \cup Workers : hand[g] = x })
    + Cardinality({ pi \in Pools \X (1 .. ChanSize) :
                       pi[2] \in DOMAIN jobChan[pi[1]] /\ jobChan[pi[1]][pi[2]] = x })
    + Cardinality({ i \in DOMAIN outgoingMessages : outgoingMessages[i] = x })
    + Cardinality({x} \cap sent)
    + Cardinality({x} \cap lost)

(***************************************************************************)
(* No job is answered twice and no packet passed on twice, and none gets   *)
(* lost but where the code gives it up: an item is in one place.           *)
(***************************************************************************)
ItemsConserved == \A x \in arrived : Places(x) = 1

Relay == INSTANCE AgentRelay

(***************************************************************************)
(* The agent keeps the promise of AgentRelay through its pools and queues: *)
(* Register first, every message once, and nothing both sent and given up. *)
(* (Run, AddJob, handleOutgoingMessages, senderWorker, listenerWorker)     *)
(***************************************************************************)
ImplementsRelay == Relay!Spec

(***************************************************************************)
(* Stop ends the process, whatever the loops and workers are busy with and *)
(* however full the queues between them are.                               *)
(***************************************************************************)
Stops == cancelled ~> main \in {"stopped", "failed"}

(***************************************************************************)
(* As long as nobody stops the agent, everything that arrives is answered  *)
(* or given up: the workers never wait for a loop that has ended, not even *)
(* once the connection is gone.                                            *)
(***************************************************************************)
ItemsSettled == \A x \in Items : x \in arrived ~> x \in sent \cup lost \/ cancelled
=============================================================================
