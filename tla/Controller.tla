----------------------------- MODULE Controller -----------------------------
(***************************************************************************)
(* The controller: one UserRequest handler per user request, the Traceroute*)
(* program it runs, and the ControlStream goroutines that bring the agents'*)
(* Done and Reply messages to the programs.                                *)
(* (internal/controller/controller.go and traceroute.go)                   *)
(*                                                                         *)
(* A handler and its program are the same thing here, a request: every     *)
(* call of UserRequest makes its own Traceroute. Times, addresses and host *)
(* names are left out; what a result keeps instead of them is the request  *)
(* whose probe they are about.                                             *)
(***************************************************************************)
EXTENDS SessionAllocator, FiniteSets

CONSTANTS Requests,   \* calls of UserRequest
          Streams,    \* ControlStream goroutines, one per connected agent
          Confs,      \* what users ask for: records of maxTTL and probeNum
          MaxCopies,  \* bound: how often the reply to one probe is delivered
          NoRequest, NoBlock, NoCode, NoDone

ASSUME SentinelAssumption ==
    /\ NoRequest \notin Requests
    /\ NoBlock \notin Blocks
    /\ NoCode \notin {200, 400, 500}

ASSUME ConfsAssumption ==
    /\ Confs \subseteq [maxTTL : Nat, probeNum : Nat]
    /\ MaxCopies \in Nat

VARIABLES
    pc,              \* where each UserRequest handler is
    sid,             \* sessionStartID, the block the handler was given
    code,            \* the response code the handler has decided on
    programs,        \* Controller.programs
    results,         \* Traceroute.results
    receivedDone,    \* Traceroute.receivedDone
    waitingResults,  \* Traceroute.waitingResults
    handling,        \* the Done each stream has looked a program up for
    jobs,            \* external: the requests whose Job an agent has got
    acked,           \* external: the jobs whose Done has arrived
    copies           \* external: how often the reply to a probe has arrived

handlerVars == <<nextSessionID, inUseBlocks, sid, code, programs>>
programVars == <<results, receivedDone, waitingResults>>
agentVars   == <<handling, jobs, acked, copies>>
vars == <<pc, handlerVars, programVars, agentVars>>
-----------------------------------------------------------------------------
\* A result no reply has reached: Timeout is TRUE and T1 is empty.
EmptyResult == [t1 |-> NoRequest, reply |-> NoRequest]

TotalProbes(conf) == conf.maxTTL * conf.probeNum

\* One value for every probe sequence number of a measurement of n probes.
Table(n, value) == [k \in 0 .. n - 1 |-> value]

\* The phases of a handler, in the order it goes through them.
Registered == {"registered", "sent", "waiting", "timedout", "finished", "unregistering"}
Holding    == {"allocated", "created", "releasing"} \cup Registered
Phases     == {"idle", "answered"} \cup Holding

Holders == { r \in Requests : pc[r] \in Holding }

Transition(r, from, to) ==
    /\ pc[r] = from
    /\ pc' = [pc EXCEPT ![r] = to]

\* The handler returns a response: the deferred calls come next.
Respond(r, c) == code' = [code EXCEPT ![r] = c]

Init ==
    /\ AllocatorInit
    /\ pc = [r \in Requests |-> "idle"]
    /\ sid = [r \in Requests |-> NoBlock]
    /\ code = [r \in Requests |-> NoCode]
    /\ programs = [b \in Blocks |-> NoRequest]
    /\ results = [r \in Requests |-> Table(0, EmptyResult)]
    /\ receivedDone = [r \in Requests |-> FALSE]
    /\ waitingResults = [r \in Requests |-> 0]
    /\ handling = [s \in Streams |-> NoDone]
    /\ jobs = {}
    /\ acked = {}
    /\ copies = [r \in Requests |-> Table(0, 0)]
-----------------------------------------------------------------------------
(***************************************************************************)
(* UserRequest, step by step. Other handlers and the streams run between   *)
(* two steps; a step is a section under c.mu or a change that others see.  *)
(***************************************************************************)
Allocate(r) ==
    /\ Transition(r, "idle", "allocated")
    /\ \E b \in Blocks :
          /\ AllocateSessionID(b)
          /\ sid' = [sid EXCEPT ![r] = b]
    /\ UNCHANGED <<code, programs, programVars, agentVars>>

\* No block: answered before any defer is in place.
Refuse(r) ==
    /\ Transition(r, "idle", "answered")
    /\ AllocationFails
    /\ Respond(r, 500)
    /\ UNCHANGED <<sid, programs, programVars, agentVars>>

\* Mutation: the error is returned before the release is deferred.
ParseFailsLeaks(r) ==
    /\ Transition(r, "allocated", "answered")
    /\ Respond(r, 400)
    /\ UNCHANGED <<nextSessionID, inUseBlocks, sid, programs, programVars, agentVars>>

ParseFails(r) ==
    /\ Transition(r, "allocated", "releasing")
    /\ Respond(r, 400)
    /\ UNCHANGED <<nextSessionID, inUseBlocks, sid, programs, programVars, agentVars>>

\* NewTraceroute: the destination cannot be resolved.
CreateFails(r) ==
    /\ Transition(r, "allocated", "releasing")
    /\ Respond(r, 500)
    /\ UNCHANGED <<nextSessionID, inUseBlocks, sid, programs, programVars, agentVars>>

\* ParseTracerouteArgs and NewTraceroute.
Create(r) ==
    /\ Transition(r, "allocated", "created")
    /\ \E n \in { TotalProbes(conf) : conf \in Confs } :
          /\ results' = [results EXCEPT ![r] = Table(n, EmptyResult)]
          /\ waitingResults' = [waitingResults EXCEPT ![r] = n]
          /\ copies' = [copies EXCEPT ![r] = Table(n, 0)]
    /\ UNCHANGED <<handlerVars, receivedDone, handling, jobs, acked>>

Register(r) ==
    /\ Transition(r, "created", "registered")
    /\ programs' = [programs EXCEPT ![sid[r]] = r]
    /\ UNCHANGED <<nextSessionID, inUseBlocks, sid, code, programVars, agentVars>>

\* Run calls SendJob: from here on the agent may answer, although Run does not
\* listen yet.
SendJob(r) ==
    /\ Transition(r, "registered", "sent")
    /\ jobs' = jobs \cup {r}
    /\ UNCHANGED <<handlerVars, programVars, handling, acked, copies>>

\* Mutation: the delete of the program is deferred only once the job is sent.
SendJobFailsLeaks(r) ==
    /\ Transition(r, "registered", "releasing")
    /\ Respond(r, 500)
    /\ UNCHANGED <<nextSessionID, inUseBlocks, sid, programs, programVars, agentVars>>

\* The agent is not connected, or its stream is broken.
SendJobFails(r) ==
    /\ Transition(r, "registered", "unregistering")
    /\ Respond(r, 500)
    /\ UNCHANGED <<nextSessionID, inUseBlocks, sid, programs, programVars, agentVars>>

\* Run blocks in its select: a receiver of tr.finished exists from here on.
EnterSelect(r) ==
    /\ Transition(r, "sent", "waiting")
    /\ UNCHANGED <<handlerVars, programVars, agentVars>>

\* Mutation: the timer is armed by the Done of the agent.
TimerNeedsDone(r) ==
    /\ receivedDone[r]
    /\ Transition(r, "waiting", "timedout")
    /\ UNCHANGED <<handlerVars, programVars, agentVars>>

TimerFires(r) ==
    /\ Transition(r, "waiting", "timedout")
    /\ UNCHANGED <<handlerVars, programVars, agentVars>>

\* formatResults, under tr.mu: nothing that arrives later is in the response.
Format(r) ==
    /\ \/ Transition(r, "timedout", "unregistering")
       \/ Transition(r, "finished", "unregistering")
    /\ Respond(r, 200)
    /\ UNCHANGED <<nextSessionID, inUseBlocks, sid, programs, programVars, agentVars>>

\* The deferred calls run in reverse order: first the program goes ...
Unregister(r) ==
    /\ Transition(r, "unregistering", "releasing")
    /\ programs' = [programs EXCEPT ![sid[r]] = NoRequest]
    /\ UNCHANGED <<nextSessionID, inUseBlocks, sid, code, programVars, agentVars>>

\* ... then the block.
Release(r) ==
    /\ Transition(r, "releasing", "answered")
    /\ ReleaseSessionID(sid[r])
    /\ UNCHANGED <<sid, code, programs, programVars, agentVars>>
-----------------------------------------------------------------------------
(***************************************************************************)
(* The messages of the agents. An agent that got the Job of request q      *)
(* answers with one Done for its session, and passes on a Reply for every  *)
(* ICMP error that quotes a probe, each whenever it likes, or never. A     *)
(* Reply may reach any agent, the sites share an anycast address, so       *)
(* messages about one job are in no particular order.                      *)
(***************************************************************************)
\* Mutation: complete as soon as the agent has sent every probe.
CheckDoneEarly(r) ==
    pc' = IF receivedDone'[r] /\ pc[r] = "waiting"
          THEN [pc EXCEPT ![r] = "finished"]
          ELSE pc

\* checkDone sends on the unbuffered tr.finished without blocking: the signal
\* ends the select of Run, or is lost.
CheckDone(r) ==
    pc' = IF receivedDone'[r] /\ waitingResults'[r] = 0 /\ pc[r] = "waiting"
          THEN [pc EXCEPT ![r] = "finished"]
          ELSE pc

\* Mutation: nobody checks that a program is registered for the session.
LookupDoneUnchecked(s, q) ==
    /\ handling[s] = NoDone
    /\ q \in jobs \ acked
    /\ acked' = acked \cup {q}
    /\ handling' = [handling EXCEPT ![s] = [job |-> q, program |-> programs[sid[q]]]]
    /\ UNCHANGED <<pc, handlerVars, programVars, jobs, copies>>

\* A Done arrives: its program is looked up under c.mu.
LookupDone(s, q) ==
    /\ handling[s] = NoDone
    /\ q \in jobs \ acked
    /\ acked' = acked \cup {q}
    /\ handling' = IF programs[sid[q]] = NoRequest
                   THEN handling
                   ELSE [handling EXCEPT ![s] = [job |-> q, program |-> programs[sid[q]]]]
    /\ UNCHANGED <<pc, handlerVars, programVars, jobs, copies>>

\* HandleDone, with c.mu released and tr.mu held. The agent acknowledges the
\* probes it managed to send.
HandleDone(s) ==
    /\ handling[s] # NoDone
    /\ LET q == handling[s].job
           r == handling[s].program
       IN  /\ sid[q] = sid[r]
           /\ receivedDone' = [receivedDone EXCEPT ![r] = TRUE]
           /\ \E udpAcks \in SUBSET DOMAIN results[q] :
                 results' = [results EXCEPT ![r] =
                    [k \in DOMAIN @ |-> IF k \in udpAcks
                                        THEN [@[k] EXCEPT !.t1 = q]
                                        ELSE @[k]]]
           /\ UNCHANGED waitingResults
           /\ CheckDone(r)
    /\ handling' = [handling EXCEPT ![s] = NoDone]
    /\ UNCHANGED <<handlerVars, jobs, acked, copies>>

\* Mutation: the job is sent without its base port.
SeqToPortNoBase(q, k) == k

\* Mutation: the probes are counted from 1.
SeqToPortFromOne(q, k) == sid[q] + k + 1

\* seqToPort: the ID that belongs to probe k of request q, an int32.
SeqToPort(q, k) == sid[q] + k

PortCount == 65536

\* The destination port the agent gives the probe, a uint16: the base port of the
\* job is the ID of probe 0.
ProbePort(q, k) == (SeqToPort(q, 0) + k) % PortCount

\* Mutation: replies are also offered to programs whose handlers have returned.
AcceptsEnded(r, port) ==
    /\ sid[r] # NoBlock
    /\ port - sid[r] \in DOMAIN results[r]

\* Program r takes the port for one of its own (extractSequenceFromPacket).
Accepts(r, port) ==
    /\ \E b \in Blocks : programs[b] = r
    /\ port - sid[r] \in DOMAIN results[r]

\* HandleReply of program r, for the reply to a probe of request q.
HandleReply(r, q, port) ==
    /\ results' = [results EXCEPT ![r][port - sid[r]].reply = q]
    /\ waitingResults' = [waitingResults EXCEPT ![r] = @ - 1]
    /\ UNCHANGED receivedDone
    /\ CheckDone(r)

\* A Reply arrives: under c.mu the programs are asked in any order, and the
\* first that accepts it ends the search.
ReceiveReply(s, q, k) ==
    /\ handling[s] = NoDone
    /\ q \in jobs
    /\ copies[q][k] < MaxCopies
    /\ copies' = [copies EXCEPT ![q][k] = @ + 1]
    /\ LET port == ProbePort(q, k)
           takers == { r \in Requests : Accepts(r, port) }
       IN  \/ \E r \in takers : HandleReply(r, q, port)
           \/ takers = {} /\ UNCHANGED <<pc, programVars>>
    /\ UNCHANGED <<handlerVars, handling, jobs, acked>>
-----------------------------------------------------------------------------
HandlerStep(r) ==
    \/ Refuse(r) \/ Allocate(r)
    \/ ParseFails(r) \/ CreateFails(r) \/ Create(r) \/ Register(r)
    \/ SendJob(r) \/ SendJobFails(r) \/ EnterSelect(r) \/ TimerFires(r)
    \/ Format(r) \/ Unregister(r) \/ Release(r)

StreamStep(s) ==
    \/ \E q \in Requests : LookupDone(s, q)
    \/ HandleDone(s)
    \/ \E q \in Requests : \E k \in DOMAIN copies[q] : ReceiveReply(s, q, k)

\* All users are served: the server idles.
Quiescent ==
    /\ \A r \in Requests : pc[r] = "answered"
    /\ \A s \in Streams : handling[s] = NoDone
    /\ UNCHANGED vars

Next ==
    \/ \E r \in Requests : HandlerStep(r)
    \/ \E s \in Streams : StreamStep(s)
    \/ Quiescent

(***************************************************************************)
(* A handler runs on, its timer fires and its locks are granted. Nothing   *)
(* makes a user call, and nothing makes a message arrive.                  *)
(***************************************************************************)
Fairness == \A r \in Requests : WF_vars(pc[r] # "idle" /\ HandlerStep(r))

Spec == Init /\ [][Next]_vars

FairSpec == Spec /\ Fairness
-----------------------------------------------------------------------------
ProbeCounts == {0} \cup { TotalProbes(conf) : conf \in Confs }

Result == [ t1 : Requests \cup {NoRequest}, reply : Requests \cup {NoRequest} ]

Tables(S) == UNION { [0 .. n - 1 -> S] : n \in ProbeCounts }

TypeOK ==
    /\ AllocatorTypeOK
    /\ pc \in [Requests -> Phases]
    /\ sid \in [Requests -> Blocks \cup {NoBlock}]
    /\ code \in [Requests -> {200, 400, 500, NoCode}]
    /\ programs \in [Blocks -> Requests \cup {NoRequest}]
    /\ results \in [Requests -> Tables(Result)]
    /\ receivedDone \in [Requests -> BOOLEAN]
    /\ waitingResults \in [Requests -> Int]
    /\ handling \in [Streams -> [job : Requests, program : Requests] \cup {NoDone}]
    /\ jobs \subseteq Requests
    /\ acked \subseteq jobs
    /\ copies \in [Requests -> Tables(0 .. MaxCopies)]
    /\ \A r \in Requests : DOMAIN copies[r] = DOMAIN results[r]
    /\ \A r \in Holders \cup jobs : sid[r] \in Blocks

(***************************************************************************)
(* A block is marked in use exactly while one handler holds it, on every   *)
(* path through UserRequest: none leaks when parsing, resolving or sending *)
(* fails, and none is given back twice or while it is used.                *)
(***************************************************************************)
BlocksHeldOnce ==
    /\ inUseBlocks = { sid[r] : r \in Holders }
    /\ \A q, r \in Holders : q # r => sid[q] # sid[r]

(***************************************************************************)
(* The programs map holds the running programs, each under its own block:  *)
(* the deferred delete of a handler that is done never removes the program *)
(* of the next handler that was given the block.                           *)
(***************************************************************************)
ProgramsAreRunning ==
    \A b \in Blocks, r \in Requests :
        programs[b] = r <=> pc[r] \in Registered /\ sid[r] = b

(***************************************************************************)
(* What users ask for fits the blocks, and the blocks fit the ports.       *)
(* Nothing in the code makes sure.                                         *)
(***************************************************************************)
ConfsFit == \A conf \in Confs : TotalProbes(conf) <= BlockSize

PortsFit == EndID - StartID <= PortCount

\* The requests that the results of r are about.
Sources(r) ==
    { q \in Requests : \E k \in DOMAIN results[r] : q \in {results[r][k].t1, results[r][k].reply} }

(***************************************************************************)
(* Two measurements that run at the same time never mix: a result that is  *)
(* about another request's probe is about one that was served before, from *)
(* the same block. (UserRequest, HandleReply, HandleDone)                  *)
(***************************************************************************)
NoMixing ==
    \A r \in Requests : \A q \in Sources(r) \ {r} :
        sid[q] = sid[r] /\ ~(q \in Holders /\ r \in Holders)

\* No agent was ever sent a job of another request under the session of r. A
\* program that inherits a session may get what was meant for its former owner.
OnFreshBlock(r) == \A q \in jobs \ {r} : sid[q] # sid[r]

(***************************************************************************)
(* A reply is recorded in the program that sent the probe, unless the      *)
(* session of that program belonged to another one before.                 *)
(* (docs/api.md:405, the session ID identifies the measurement program)    *)
(***************************************************************************)
RepliesToOwner ==
    \A r \in Requests : OnFreshBlock(r) =>
        \A k \in DOMAIN results[r] : results[r][k].reply \in {r, NoRequest}

(***************************************************************************)
(* Messages go astray in one direction only, from a request that has been  *)
(* answered to one that was given its block later, also while a stream has *)
(* looked up a program for a Done and not called it yet. Nothing about a   *)
(* request that has not been answered reaches another program, not even    *)
(* one that is over and still held by a stream. (processAgentMessage)      *)
(***************************************************************************)
OnlyFormerOwners ==
    /\ \A r \in Requests : \A q \in Sources(r) \ {r} : pc[q] = "answered"
    /\ \A s \in Streams : handling[s] # NoDone =>
          handling[s].job = handling[s].program \/ pc[handling[s].job] = "answered"

(***************************************************************************)
(* The ID of a probe is taken by one program at most, so that the order in *)
(* which processAgentMessage asks the programs makes no difference.        *)
(* (docs/api.md:399, each program has a block of blockSize IDs)            *)
(***************************************************************************)
OneProgramPerID ==
    \A q, r \in Requests : \A k \in DOMAIN results[q] :
        Accepts(q, SeqToPort(q, k)) /\ Accepts(r, SeqToPort(q, k)) => q = r

(***************************************************************************)
(* A run that ended on the signal of checkDone, not on its timer, has the  *)
(* Done of an agent, and an answer to every probe unless its session       *)
(* belonged to another program before. (checkDone)                         *)
(***************************************************************************)
FinishedIsComplete ==
    \A r \in Requests : pc[r] = "finished" =>
        /\ receivedDone[r]
        /\ OnFreshBlock(r) => \A k \in DOMAIN results[r] : results[r][k].reply # NoRequest

(***************************************************************************)
(* A run does not wait for its timer once the traceroute is complete.      *)
(* (Run, line 108: wait for completion or timeout)                         *)
(***************************************************************************)
NoMissedCompletion ==
    \A r \in Requests :
        ~(pc[r] = "waiting" /\ receivedDone[r] /\ waitingResults[r] = 0)

heldBlock == [r \in Requests |-> IF pc[r] \in Holding THEN sid[r] ELSE NoBlock]

response == [r \in Requests |-> IF pc[r] = "answered" THEN code[r] ELSE NoCode]

Service == INSTANCE MeasurementService WITH
    Pool <- Blocks, block <- heldBlock, answer <- response

(***************************************************************************)
(* The handlers keep the promise of MeasurementService: the answer counts  *)
(* when UserRequest returns, after its deferred calls.                     *)
(***************************************************************************)
ImplementsService == Service!ServiceSafety

ImplementsLiveService == Service!ServiceSpec
=============================================================================
