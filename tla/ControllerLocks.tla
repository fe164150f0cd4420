-------------------------- MODULE ControllerLocks --------------------------
(***************************************************************************)
(* The locks of the controller: c.mu, and tr.mu of every program. The      *)
(* goroutines of Controller and AgentStreams take them in the order the    *)
(* code does, one lock at a time but for a Reply, which is offered to the  *)
(* programs (tr.mu) inside the search through them (c.mu).                 *)
(* (internal/controller/controller.go and traceroute.go)                   *)
(*                                                                         *)
(* What the sections compute is left to Controller: here a request has a   *)
(* session of its own, a program takes a Reply or not, and a message makes *)
(* it complete or not, as it likes.                                        *)
(***************************************************************************)
EXTENDS Naturals

CONSTANTS Requests,  \* calls of UserRequest, each with the program it runs
          Streams,   \* calls of ControlStream
          Mu,        \* c.mu; tr.mu of a program is named by its request
          NoThread

ASSUME ThreadsAssumption ==
    /\ Requests \cap Streams = {}
    /\ Mu \notin Requests
    /\ NoThread \notin Requests \cup Streams

Threads == Requests \cup Streams
Locks   == Requests \cup {Mu}

VARIABLES
    pc,        \* where each goroutine is
    readers,   \* external: who has locked a sync.RWMutex for reading
    writer,    \* external: who has called Lock, and is inside or next
    blocked,   \* external: who waits in RLock until the writer is gone
    programs,  \* Controller.programs, as the requests that run
    target,    \* the program a stream calls
    asked      \* the programs a stream has offered its Reply to

lockVars   == <<readers, writer, blocked>>
streamVars == <<target, asked>>
vars == <<pc, lockVars, programs, streamVars>>

\* The sections under tr.mu, and those under c.mu.
TrSections == {"formatting", "handling", "asking"}
CSections  == {"allocating", "registering", "sending", "unregistering", "releasing",
               "joining", "leaving", "looking", "searching"}
Sections   == TrSections \cup CSections

\* Mutation: the deferred delete only takes the lock for reading.
SharedDelete == {"sending", "looking", "searching", "formatting", "unregistering"}

\* Mutation: HandleReply only takes the lock for reading.
SharedReply == {"sending", "looking", "searching", "formatting", "asking"}

\* Those that call RLock.
Shared == {"sending", "looking", "searching", "formatting"}

LockOf(t) ==
    IF pc[t] \notin TrSections THEN Mu
    ELSE IF t \in Requests THEN t ELSE target[t]

Init ==
    /\ pc = [t \in Threads |-> IF t \in Requests THEN "idle" ELSE "recv"]
    /\ readers = [l \in Locks |-> {}]
    /\ writer = [l \in Locks |-> NoThread]
    /\ blocked = [l \in Locks |-> {}]
    /\ programs = {}
    /\ target = [s \in Streams |-> NoThread]
    /\ asked = [s \in Streams |-> {}]
-----------------------------------------------------------------------------
(***************************************************************************)
(* sync.RWMutex. A writer is announced before it is inside: from then on   *)
(* no reader comes in. When it leaves, those who waited in RLock are in    *)
(* before the next writer.                                                 *)
(***************************************************************************)
RLock(t) ==
    LET l == LockOf(t)
    IN  /\ pc[t] \in Shared
        /\ t \notin readers[l] \cup blocked[l]
        /\ IF writer[l] = NoThread
           THEN /\ readers' = [readers EXCEPT ![l] = @ \cup {t}]
                /\ UNCHANGED blocked
           ELSE /\ blocked' = [blocked EXCEPT ![l] = @ \cup {t}]
                /\ UNCHANGED readers
        /\ UNCHANGED <<pc, writer, programs, streamVars>>

Lock(t) ==
    LET l == LockOf(t)
    IN  /\ pc[t] \in Sections \ Shared
        /\ writer[l] = NoThread
        /\ writer' = [writer EXCEPT ![l] = t]
        /\ UNCHANGED <<pc, readers, blocked, programs, streamVars>>

\* The goroutine is inside the section it wants to be in.
Inside(t) ==
    /\ pc[t] \in Sections
    /\ IF pc[t] \in Shared
       THEN t \in readers[LockOf(t)]
       ELSE writer[LockOf(t)] = t /\ readers[LockOf(t)] = {}

RUnlock(t, l) ==
    /\ readers' = [readers EXCEPT ![l] = @ \ {t}]
    /\ UNCHANGED <<writer, blocked>>

Unlock(l) ==
    /\ writer' = [writer EXCEPT ![l] = NoThread]
    /\ readers' = [readers EXCEPT ![l] = blocked[l]]
    /\ blocked' = [blocked EXCEPT ![l] = {}]

Release(t) ==
    IF pc[t] \in Shared THEN RUnlock(t, LockOf(t)) ELSE Unlock(LockOf(t))

\* The goroutine runs its section at from, unlocks, and goes on to one of to.
Section(t, from, to) ==
    /\ pc[t] = from
    /\ Inside(t)
    /\ Release(t)
    /\ \E next \in to : pc' = [pc EXCEPT ![t] = next]

\* A step between two sections.
Go(t, from, to) ==
    /\ pc[t] = from
    /\ pc' = [pc EXCEPT ![t] = to]
    /\ UNCHANGED <<lockVars, programs, asked>>
-----------------------------------------------------------------------------
(***************************************************************************)
(* UserRequest and Run.                                                    *)
(***************************************************************************)
Call(r) == Go(r, "idle", "allocating") /\ UNCHANGED target

\* There may be no block left, and then the command or the host may be wrong.
AllocateSessionID(r) ==
    /\ Section(r, "allocating", {"answered", "releasing", "registering"})
    /\ UNCHANGED <<programs, streamVars>>

Register(r) ==
    /\ Section(r, "registering", {"sending"})
    /\ programs' = programs \cup {r}
    /\ UNCHANGED streamVars

\* SendJob reads agentStreams; it sends, or fails, without the lock.
SendJob(r) ==
    /\ Section(r, "sending", {"sent", "unregistering"})
    /\ UNCHANGED <<programs, streamVars>>

EnterSelect(r) == Go(r, "sent", "selecting") /\ UNCHANGED target

TimerFires(r) == Go(r, "selecting", "formatting") /\ UNCHANGED target

\* Mutation: the lock is kept until the handler has returned.
FormatKeepsLock(r) ==
    /\ pc[r] = "formatting"
    /\ Inside(r)
    /\ pc' = [pc EXCEPT ![r] = "unregistering"]
    /\ UNCHANGED <<lockVars, programs, streamVars>>

\* formatResults, which asks the resolver while it holds tr.mu.
Format(r) ==
    /\ Section(r, "formatting", {"unregistering"})
    /\ UNCHANGED <<programs, streamVars>>

Unregister(r) ==
    /\ Section(r, "unregistering", {"releasing"})
    /\ programs' = programs \ {r}
    /\ UNCHANGED streamVars

ReleaseSessionID(r) ==
    /\ Section(r, "releasing", {"answered"})
    /\ UNCHANGED <<programs, streamVars>>
-----------------------------------------------------------------------------
(***************************************************************************)
(* ControlStream. A message arrives, or the stream ends; a Done is about   *)
(* some request, also one that is over. Other messages take no lock.       *)
(***************************************************************************)
Recv(s) ==
    \/ \E to \in {"joining", "searching", "leaving", "gone"} :
          Go(s, "recv", to) /\ UNCHANGED target
    \/ \E r \in Requests :
          Go(s, "recv", "looking") /\ target' = [target EXCEPT ![s] = r]

Join(s) ==
    /\ Section(s, "joining", {"recv"})
    /\ UNCHANGED <<programs, streamVars>>

Leave(s) ==
    /\ Section(s, "leaving", {"gone"})
    /\ UNCHANGED <<programs, streamVars>>

\* The program of a Done is looked up, and called without the lock.
LookUp(s) ==
    /\ IF target[s] \in programs
       THEN Section(s, "looking", {"handling"}) /\ UNCHANGED target
       ELSE Section(s, "looking", {"recv"}) /\ target' = [target EXCEPT ![s] = NoThread]
    /\ UNCHANGED <<programs, asked>>

\* checkDone, after a message about p: it may end the select of Run.
CheckDone(s, p, next) ==
    \/ pc' = [pc EXCEPT ![s] = next]
    \/ pc[p] = "selecting" /\ pc' = [pc EXCEPT ![s] = next, ![p] = "formatting"]

HandleDone(s) ==
    /\ pc[s] = "handling"
    /\ Inside(s)
    /\ Release(s)
    /\ CheckDone(s, target[s], "recv")
    /\ target' = [target EXCEPT ![s] = NoThread]
    /\ UNCHANGED <<programs, asked>>

\* The search through the programs, which keeps c.mu, in any order.
NextProgram(s) ==
    /\ pc[s] = "searching"
    /\ Inside(s)
    /\ \E p \in programs \ asked[s] : target' = [target EXCEPT ![s] = p]
    /\ pc' = [pc EXCEPT ![s] = "asking"]
    /\ UNCHANGED <<lockVars, programs, asked>>

\* HandleReply returns true: the search is over.
ReplyTaken(s) ==
    /\ pc[s] = "asking"
    /\ Inside(s)
    /\ Release(s)
    /\ CheckDone(s, target[s], "found")
    /\ UNCHANGED <<programs, streamVars>>

\* Mutation: the search goes on until some program takes the Reply.
ReplyRefusedAgain(s) ==
    /\ Section(s, "asking", {"searching"})
    /\ UNCHANGED <<programs, streamVars>>

\* HandleReply returns false.
ReplyRefused(s) ==
    /\ Section(s, "asking", {"searching"})
    /\ asked' = [asked EXCEPT ![s] = @ \cup {target[s]}]
    /\ target' = [target EXCEPT ![s] = NoThread]
    /\ UNCHANGED programs

\* c.mu is released after the search, with or without a program.
EndSearch(s) ==
    /\ \/ pc[s] = "found"
       \/ pc[s] = "searching" /\ Inside(s) /\ programs \subseteq asked[s]
    /\ RUnlock(s, Mu)
    /\ pc' = [pc EXCEPT ![s] = "recv"]
    /\ asked' = [asked EXCEPT ![s] = {}]
    /\ target' = [target EXCEPT ![s] = NoThread]
    /\ UNCHANGED programs
-----------------------------------------------------------------------------
HandlerStep(r) ==
    \/ AllocateSessionID(r) \/ Register(r) \/ SendJob(r) \/ EnterSelect(r) \/ TimerFires(r)
    \/ Format(r) \/ Unregister(r) \/ ReleaseSessionID(r)

StreamStep(s) ==
    \/ Join(s) \/ Leave(s) \/ LookUp(s) \/ HandleDone(s)
    \/ NextProgram(s) \/ ReplyTaken(s) \/ ReplyRefused(s) \/ EndSearch(s)

\* Every user is served and every agent is gone.
Idle ==
    /\ \A r \in Requests : pc[r] = "answered"
    /\ \A s \in Streams : pc[s] = "gone"
    /\ UNCHANGED vars

Next ==
    \/ \E r \in Requests : Call(r) \/ HandlerStep(r)
    \/ \E s \in Streams : Recv(s) \/ StreamStep(s)
    \/ \E t \in Threads : RLock(t) \/ Lock(t)
    \/ Idle

(***************************************************************************)
(* Goroutines run on, the timer fires and the resolver answers. A mutex    *)
(* does not starve who calls Lock: after a millisecond it hands itself on. *)
(***************************************************************************)
Fairness ==
    /\ \A r \in Requests : WF_vars(HandlerStep(r))
    /\ \A s \in Streams : WF_vars(StreamStep(s))
    /\ \A t \in Threads : WF_vars(RLock(t)) /\ SF_vars(Lock(t))

Spec == Init /\ [][Next]_vars

FairSpec == Spec /\ Fairness
-----------------------------------------------------------------------------
Points == Sections \cup {"idle", "sent", "selecting", "answered", "recv", "found", "gone"}

TypeOK ==
    /\ pc \in [Threads -> Points]
    /\ readers \in [Locks -> SUBSET Threads]
    /\ writer \in [Locks -> Threads \cup {NoThread}]
    /\ blocked \in [Locks -> SUBSET Threads]
    /\ programs \subseteq Requests
    /\ target \in [Streams -> Requests \cup {NoThread}]
    /\ \A s \in Streams : pc[s] \in {"looking", "handling", "asking", "found"} => target[s] \in Requests
    /\ asked \in [Streams -> SUBSET Requests]

\* Goroutine t cannot go on before u has: u has its lock, or is to have it next.
WaitsFor(t, u) ==
    /\ pc[t] \in Sections /\ ~Inside(t)
    /\ u # t
    /\ u \in readers[LockOf(t)] \cup {writer[LockOf(t)]}

(***************************************************************************)
(* No goroutines wait for each other in a circle, although the Reply path  *)
(* holds c.mu when it asks for tr.mu, a request holds tr.mu as long as the *)
(* resolver takes, and a waiting writer keeps new readers out: in every    *)
(* group there is one that waits for none of the others.                   *)
(***************************************************************************)
NoCircularWait ==
    \A group \in SUBSET Threads : group # {} =>
       \E t \in group : \A u \in group : ~WaitsFor(t, u)

(***************************************************************************)
(* The programs map is not changed while a stream goes through it: Go ends *)
(* the process when it is, and a program could be missed.                  *)
(***************************************************************************)
SearchUndisturbed ==
    [][\A s \in Streams :
          pc[s] \in {"asking", "found"} \/ (pc[s] = "searching" /\ Inside(s))
             => programs' = programs]_vars

(***************************************************************************)
(* The report shows one state of the results: while formatResults goes     *)
(* through them, with lookups in between, no message is being entered.     *)
(***************************************************************************)
ReportIsSnapshot ==
    \A r \in Requests, s \in Streams :
       ~ /\ pc[r] = "formatting" /\ Inside(r)
         /\ pc[s] \in {"handling", "asking"} /\ Inside(s) /\ target[s] = r

(***************************************************************************)
(* Whoever asks for a lock gets it, as long as the resolver answers: the   *)
(* messages that keep coming starve no handler, and the handlers no stream.*)
(***************************************************************************)
LocksGranted ==
    \A t \in Threads : pc[t] \in Sections ~> Inside(t)
=============================================================================
