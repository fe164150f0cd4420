----------------------- MODULE ControllerLocks_proofs -----------------------
(***************************************************************************)
(* Proofs about the locks of the controller, for any number of requests    *)
(* and streams: who has which lock, and why nobody waits in a circle.      *)
(***************************************************************************)
EXTENDS ControllerLocks, TLAPS

\* Only handlers format reports: every section has a lock.
Kinds == \A s \in Streams : pc[s] # "formatting"

\* Where goroutine u stands with a lock: in the section it is in, or in the search
\* through the programs that goes on while it asks one of them.
Placed(u) ==
    /\ pc[u] \in {"asking", "found"} => u \in readers[Mu]
    /\ \A l \in Locks :
          /\ u \in readers[l] =>
                \/ pc[u] \in Shared /\ LockOf(u) = l
                \/ l = Mu /\ pc[u] \in {"asking", "found"}
          /\ u \in blocked[l] => pc[u] \in Shared /\ LockOf(u) = l /\ u \notin readers[l]
          /\ writer[l] = u => pc[u] \in Sections \ Shared /\ LockOf(u) = l

LocksHeld == \A u \in Threads : Placed(u)

LockInv == TypeOK /\ Kinds /\ LocksHeld

LEMMA LockIsLock ==
    ASSUME TypeOK, Kinds, NEW t \in Threads
    PROVE  /\ LockOf(t) \in Locks
           /\ LockOf(t) = Mu <=> pc[t] \notin TrSections
  <1>1. t \in Streams /\ pc[t] \in TrSections => pc[t] \in {"handling", "asking"}
    BY DEF Kinds, TrSections
  <1> QED  BY <1>1, ThreadsAssumption DEF TypeOK, LockOf, Locks, Threads

\* Goroutine t is in no lock's books, but that it may be in the search.
Apart(t) ==
    \A l \in Locks : t \notin readers[l] /\ t \notin blocked[l] /\ writer[l] # t

\* Nobody else loses a lock, or gets more of one than waiting in RLock promises.
Benign(u) ==
    \A l \in Locks :
       /\ u \in readers[l] => u \in readers'[l]
       /\ u \in readers'[l] => u \in readers[l] \cup blocked[l]
       /\ u \in blocked'[l] => u \in blocked[l] /\ (u \in readers'[l] => u \in readers[l])
       /\ writer'[l] = u => writer[l] = u

LEMMA SamePlace ==
    ASSUME NEW u \in Threads, Placed(u), Benign(u), pc'[u] = pc[u], LockOf(u)' = LockOf(u)
    PROVE  Placed(u)'
  BY DEF Placed, Benign, Locks

LEMMA ApartIsPlaced ==
    ASSUME NEW t, Apart(t)', pc'[t] \notin {"asking", "found"}
    PROVE  Placed(t)'
  BY DEF Apart, Placed

\* A goroutine outside all sections has no lock.
LEMMA OutsideIsApart ==
    ASSUME NEW t \in Threads, Placed(t), pc[t] \notin Sections \cup {"found"}
    PROVE  Apart(t)
  BY DEF Placed, Apart, Sections, TrSections, CSections, Shared

LEMMA SharedAreSections == Shared \subseteq Sections
  BY DEF Shared, Sections, TrSections, CSections

\* What releasing a lock does to the books.
LEMMA ReleaseEffect ==
    ASSUME TypeOK, Kinds, LocksHeld, NEW t \in Threads, Inside(t), Release(t)
    PROVE  /\ readers' \in [Locks -> SUBSET Threads]
           /\ writer' \in [Locks -> Threads \cup {NoThread}]
           /\ blocked' \in [Locks -> SUBSET Threads]
           /\ \A u \in Threads : u # t => Benign(u)
           /\ pc[t] # "asking" => Apart(t)'
           /\ pc[t] = "asking" => t \in readers'[Mu]
           /\ \A l \in Locks : /\ t \in readers'[l] => l = Mu /\ pc[t] = "asking"
                               /\ t \notin blocked'[l] /\ writer'[l] # t
  <1> DEFINE k == LockOf(t)
  <1>1. k \in Locks /\ Placed(t) /\ pc[t] \in Sections
    BY LockIsLock DEF LocksHeld, Inside
  <1>2. CASE pc[t] \in Shared
    <2>1. /\ t \in readers[k]
          /\ readers' = [readers EXCEPT ![k] = @ \ {t}]
          /\ writer' = writer /\ blocked' = blocked
      BY <1>2 DEF Inside, Release, RUnlock
    <2>2. pc[t] # "asking" /\ pc[t] # "found"
      BY <1>2 DEF Shared
    <2>3. \A l \in Locks : t \notin readers'[l] /\ t \notin blocked'[l] /\ writer'[l] # t
      BY <1>1, <1>2, <2>1, <2>2 DEF Placed, TypeOK
    <2>4. \A u \in Threads : u # t => Benign(u)
      BY <1>1, <2>1 DEF Benign, TypeOK
    <2> QED  BY <1>1, <2>1, <2>2, <2>3, <2>4 DEF TypeOK, Apart
  <1>3. CASE pc[t] \notin Shared
    <2>1. /\ writer[k] = t /\ readers[k] = {}
          /\ writer' = [writer EXCEPT ![k] = NoThread]
          /\ readers' = [readers EXCEPT ![k] = blocked[k]]
          /\ blocked' = [blocked EXCEPT ![k] = {}]
      BY <1>3 DEF Inside, Release, Unlock
    <2>2. pc[t] # "found"
      BY <1>1 DEF Sections, TrSections, CSections
    <2>3. \A l \in Locks : /\ t \in readers'[l] => l = Mu /\ pc[t] = "asking"
                           /\ t \notin blocked'[l] /\ writer'[l] # t
      BY <1>1, <1>3, <2>1, <2>2, ThreadsAssumption DEF Placed, TypeOK, Threads
    <2>4. \A u \in Threads : u # t => Benign(u)
      BY <1>1, <2>1, ThreadsAssumption DEF Benign, TypeOK, Threads
    <2>5. pc[t] = "asking" => t \in readers'[Mu]
      BY <1>1, <2>1, LockIsLock DEF Placed, TrSections, TypeOK, Locks
    <2> QED  BY <1>1, <2>1, <2>3, <2>4, <2>5 DEF TypeOK, Apart
  <1> QED  BY <1>2, <1>3

\* What a step of goroutine t leaves of the others.
OthersKept(t) ==
    \A u \in Threads : u # t =>
       /\ Benign(u)
       /\ \/ pc'[u] = pc[u]
          \/ pc[u] = "selecting" /\ pc'[u] = "formatting"
       /\ u \in Streams => target'[u] = target[u]

\* A step that puts its own goroutine in its place keeps everybody in place.
LEMMA LocksStayHeld ==
    ASSUME LocksHeld, NEW t \in Threads, OthersKept(t), Placed(t)'
    PROVE  LocksHeld'
  <1>1. SUFFICES ASSUME NEW u \in Threads, u # t
                 PROVE  Placed(u)'
    BY <1>1 DEF LocksHeld
  <1>2. Placed(u) /\ Benign(u)
    BY <1>1 DEF LocksHeld, OthersKept
  <1>3. CASE pc'[u] = pc[u]
    <2>1. LockOf(u)' = LockOf(u)
      BY <1>1, <1>3 DEF OthersKept, LockOf, Threads
    <2> QED  BY <1>2, <1>3, <2>1, SamePlace
  <1>4. CASE pc[u] = "selecting"
    <2>1. Apart(u)
      BY <1>2, <1>4, OutsideIsApart DEF Sections, TrSections, CSections
    <2>2. Apart(u)'
      BY <1>2, <2>1 DEF Apart, Benign
    <2> QED  BY <1>1, <1>4, <2>2, ApartIsPlaced DEF OthersKept
  <1> QED  BY <1>1, <1>3, <1>4 DEF OthersKept

\* The types of a step of one goroutine, and of the one checkDone wakes up.
LEMMA PointsStay ==
    ASSUME TypeOK, Kinds, NEW t \in Threads, NEW next \in Points,
           t \in Streams => next # "formatting",
           \/ pc' = [pc EXCEPT ![t] = next]
           \/ \E p \in Requests : pc' = [pc EXCEPT ![t] = next, ![p] = "formatting"]
    PROVE  pc' \in [Threads -> Points] /\ Kinds'
  <1>1. pc \in [Threads -> Points] /\ "formatting" \in Points
    BY DEF TypeOK, Points, Sections, TrSections
  <1>2. CASE pc' = [pc EXCEPT ![t] = next]
    BY <1>1, <1>2 DEF Kinds, Threads
  <1>3. CASE \E p \in Requests : pc' = [pc EXCEPT ![t] = next, ![p] = "formatting"]
    BY <1>1, <1>3, ThreadsAssumption DEF Kinds, Threads
  <1> QED  BY <1>2, <1>3

LEMMA NothingMoved ==
    ASSUME LockInv, UNCHANGED vars
    PROVE  LockInv'
  BY DEF LockInv, vars, lockVars, streamVars, TypeOK, Kinds, LocksHeld, Placed, LockOf

\* RLock and Lock: a goroutine enters the books for the section it is at.
LEMMA AskingKeepsLocks ==
    ASSUME LockInv, NEW t \in Threads, RLock(t) \/ Lock(t)
    PROVE  LockInv'
  <1> DEFINE k == LockOf(t)
  <1>1. TypeOK /\ Kinds /\ LocksHeld /\ Placed(t) /\ k \in Locks
    BY LockIsLock DEF LockInv, LocksHeld
  <1>2. UNCHANGED <<pc, programs, target, asked>>
    BY DEF RLock, Lock, streamVars
  <1>3. Kinds' /\ \A u \in Threads : LockOf(u)' = LockOf(u)
    BY <1>1, <1>2 DEF Kinds, LockOf
  <1>4. CASE RLock(t) /\ writer[k] = NoThread
    <2>1. /\ readers' = [readers EXCEPT ![k] = @ \cup {t}]
          /\ blocked' = blocked /\ writer' = writer /\ pc[t] \in Shared /\ t \notin blocked[k]
      BY <1>4 DEF RLock
    <2>2. Placed(t)'
      BY <1>1, <1>2, <1>3, <2>1 DEF Placed, TypeOK
    <2>3. OthersKept(t)
      BY <1>1, <1>2, <2>1 DEF OthersKept, Benign, TypeOK
    <2> QED  BY <1>1, <1>2, <1>3, <2>1, <2>2, <2>3, LocksStayHeld DEF LockInv, TypeOK
  <1>5. CASE RLock(t) /\ writer[k] # NoThread
    <2>1. /\ blocked' = [blocked EXCEPT ![k] = @ \cup {t}]
          /\ readers' = readers /\ writer' = writer /\ pc[t] \in Shared /\ t \notin readers[k]
      BY <1>5 DEF RLock
    <2>2. Placed(t)'
      BY <1>1, <1>2, <1>3, <2>1 DEF Placed, TypeOK
    <2>3. OthersKept(t)
      BY <1>1, <1>2, <2>1 DEF OthersKept, Benign, TypeOK
    <2> QED  BY <1>1, <1>2, <1>3, <2>1, <2>2, <2>3, LocksStayHeld DEF LockInv, TypeOK
  <1>6. CASE Lock(t)
    <2>1. /\ writer' = [writer EXCEPT ![k] = t]
          /\ readers' = readers /\ blocked' = blocked /\ pc[t] \in Sections \ Shared
      BY <1>6 DEF Lock
    <2>2. Placed(t)'
      BY <1>1, <1>2, <1>3, <2>1 DEF Placed, TypeOK
    <2>3. OthersKept(t)
      BY <1>1, <1>2, <2>1 DEF OthersKept, Benign, TypeOK
    <2> QED  BY <1>1, <1>2, <1>3, <2>1, <2>2, <2>3, LocksStayHeld DEF LockInv, TypeOK
  <1> QED  BY <1>4, <1>5, <1>6

\* A step from outside all sections, with no lock to give back.
LEMMA GoKeepsLocks ==
    ASSUME LockInv, NEW t \in Threads, NEW from, NEW to \in Points, Go(t, from, to),
           from \notin Sections \cup {"found"}, t \in Streams => to # "formatting",
           to \notin {"asking", "found"},
           \/ target' = target /\ to \notin {"looking", "handling"}
           \/ t \in Streams /\ \E r \in Requests : target' = [target EXCEPT ![t] = r]
    PROVE  LockInv'
  <1>1. TypeOK /\ Kinds /\ LocksHeld /\ Placed(t) /\ pc[t] = from
    BY DEF LockInv, LocksHeld, Go
  <1>2. /\ pc' = [pc EXCEPT ![t] = to]
        /\ UNCHANGED <<readers, writer, blocked, programs, asked>>
    BY DEF Go, lockVars
  <1>3. pc' \in [Threads -> Points] /\ Kinds'
    BY <1>1, <1>2, PointsStay
  <1>4. Placed(t)'
    <2>1. Apart(t)
      BY <1>1, OutsideIsApart
    <2> QED  BY <1>1, <1>2, <2>1, ApartIsPlaced DEF Apart, TypeOK
  <1>5. OthersKept(t)
    BY <1>1, <1>2 DEF OthersKept, Benign, TypeOK
  <1>6. TypeOK'
    BY <1>1, <1>2, <1>3, ThreadsAssumption DEF TypeOK, Threads
  <1> QED  BY <1>1, <1>3, <1>4, <1>5, <1>6, LocksStayHeld DEF LockInv

\* A step that gives a lock back, and wakes a handler up at most. A stream that
\* has asked a program is still in its search.
LEMMA ReleaseKeepsLocks ==
    ASSUME LockInv, NEW t \in Threads, NEW next \in Points, Inside(t), Release(t),
           \/ pc' = [pc EXCEPT ![t] = next]
           \/ \E p \in Requests : /\ pc[p] = "selecting"
                                  /\ pc' = [pc EXCEPT ![t] = next, ![p] = "formatting"],
           t \in Streams => next # "formatting",
           pc[t] = "asking" => next \in {"found", "searching"},
           next \in {"asking", "found"} => pc[t] = "asking",
           \/ target' = target
           \/ t \in Streams /\ target' = [target EXCEPT ![t] = NoThread],
           \/ next \notin {"looking", "handling", "asking", "found"}
           \/ target' = target /\ pc[t] \in {"looking", "asking"},
           t \in Requests => next \notin {"found", "looking", "handling", "asking"},
           programs' \subseteq Requests, asked' \in [Streams -> SUBSET Requests]
    PROVE  LockInv'
  <1>1. TypeOK /\ Kinds /\ LocksHeld /\ Placed(t) /\ pc[t] \in Sections
    BY DEF LockInv, LocksHeld, Inside
  <1>2. pc' \in [Threads -> Points] /\ Kinds'
    BY <1>1, PointsStay
  <1>3. /\ pc'[t] = next
        /\ \A u \in Threads : u # t => pc'[u] = pc[u] \/ (pc[u] = "selecting" /\ pc'[u] = "formatting")
    <2>1. pc[t] # "selecting" /\ pc \in [Threads -> Points]
      BY <1>1 DEF TypeOK, Sections, TrSections, CSections
    <2>2. CASE pc' = [pc EXCEPT ![t] = next]
      BY <2>1, <2>2
    <2>3. ASSUME NEW p \in Requests, pc[p] = "selecting",
                 pc' = [pc EXCEPT ![t] = next, ![p] = "formatting"]
          PROVE  /\ pc'[t] = next
                 /\ \A u \in Threads : u # t =>
                       pc'[u] = pc[u] \/ (pc[u] = "selecting" /\ pc'[u] = "formatting")
      BY <2>1, <2>3 DEF Threads
    <2> QED  BY <2>2, <2>3
  <1>4. /\ readers' \in [Locks -> SUBSET Threads]
        /\ writer' \in [Locks -> Threads \cup {NoThread}]
        /\ blocked' \in [Locks -> SUBSET Threads]
        /\ \A u \in Threads : u # t => Benign(u)
        /\ \A l \in Locks : /\ t \in readers'[l] => l = Mu /\ pc[t] = "asking"
                            /\ t \notin blocked'[l] /\ writer'[l] # t
        /\ pc[t] = "asking" => t \in readers'[Mu]
    BY <1>1, ReleaseEffect
  <1>5. Placed(t)'
    BY <1>3, <1>4 DEF Placed, LockOf, TrSections, Shared
  <1>6. OthersKept(t)
    BY <1>1, <1>3, <1>4 DEF OthersKept, TypeOK
  <1>7. TypeOK'
    <2>1. target' \in [Streams -> Requests \cup {NoThread}]
      BY <1>1 DEF TypeOK
    <2>2. ASSUME NEW s \in Streams, pc'[s] \in {"looking", "handling", "asking", "found"}
          PROVE  target'[s] \in Requests
      <3>1. CASE s = t
        BY <1>1, <1>3, <2>2, <3>1 DEF TypeOK
      <3>2. CASE s # t
        BY <1>1, <1>3, <2>2, <3>2 DEF TypeOK, Threads
      <3> QED  BY <3>1, <3>2
    <2> QED  BY <1>2, <1>4, <2>1, <2>2 DEF TypeOK
  <1> QED  BY <1>1, <1>2, <1>5, <1>6, <1>7, LocksStayHeld DEF LockInv

\* A handler's sections: what they have in common.
LEMMA HandlerSection ==
    ASSUME LockInv, NEW r \in Requests, NEW from, NEW to \in SUBSET Points, Section(r, from, to),
           to \cap {"found", "looking", "handling", "asking"} = {}, from # "asking",
           UNCHANGED streamVars, programs' \subseteq Requests
    PROVE  LockInv'
  <1>1. PICK next \in to : pc' = [pc EXCEPT ![r] = next]
    BY DEF Section
  <1>2. /\ next \in Points /\ next \notin {"found", "looking", "handling", "asking"}
        /\ Inside(r) /\ Release(r) /\ pc[r] # "asking" /\ r \in Threads /\ r \notin Streams
    BY ThreadsAssumption DEF Section, Threads
  <1>3. target' = target /\ asked' \in [Streams -> SUBSET Requests]
    BY DEF streamVars, LockInv, TypeOK
  <1> QED  BY <1>1, <1>2, <1>3, ReleaseKeepsLocks

LEMMA HandlerKeepsLocks ==
    ASSUME LockInv, NEW r \in Requests, Call(r) \/ HandlerStep(r)
    PROVE  LockInv'
  <1> USE DEF Points, Sections, TrSections, CSections
  <1>1. programs \subseteq Requests /\ r \in Threads /\ r \notin Streams
    BY ThreadsAssumption DEF LockInv, TypeOK, Threads
  <1>2. CASE Call(r)
    BY <1>1, <1>2, GoKeepsLocks DEF Call
  <1>3. CASE AllocateSessionID(r)
    BY <1>1, <1>3, HandlerSection DEF AllocateSessionID
  <1>4. CASE Register(r)
    BY <1>1, <1>4, HandlerSection DEF Register
  <1>5. CASE SendJob(r)
    BY <1>1, <1>5, HandlerSection DEF SendJob
  <1>6. CASE EnterSelect(r)
    BY <1>1, <1>6, GoKeepsLocks DEF EnterSelect
  <1>7. CASE TimerFires(r)
    BY <1>1, <1>7, GoKeepsLocks DEF TimerFires
  <1>8. CASE Format(r)
    BY <1>1, <1>8, HandlerSection DEF Format
  <1>9. CASE Unregister(r)
    BY <1>1, <1>9, HandlerSection DEF Unregister
  <1>10. CASE ReleaseSessionID(r)
    BY <1>1, <1>10, HandlerSection DEF ReleaseSessionID
  <1> QED  BY <1>2, <1>3, <1>4, <1>5, <1>6, <1>7, <1>8, <1>9, <1>10 DEF HandlerStep

\* The search holds c.mu while it asks a program, and gives it back at the end.
LEMMA SearchKeepsLocks ==
    ASSUME LockInv, NEW s \in Streams, NextProgram(s) \/ EndSearch(s)
    PROVE  LockInv'
  <1>1. TypeOK /\ Kinds /\ LocksHeld /\ Placed(s) /\ s \in Threads
    BY DEF LockInv, LocksHeld, Threads
  <1>2. CASE NextProgram(s)
    <2>1. PICK p \in programs \ asked[s] : target' = [target EXCEPT ![s] = p]
      BY <1>2 DEF NextProgram
    <2>2. /\ pc[s] = "searching" /\ Inside(s) /\ pc' = [pc EXCEPT ![s] = "asking"]
          /\ UNCHANGED <<readers, writer, blocked, programs, asked>>
      BY <1>2 DEF NextProgram, lockVars
    <2>3. pc' \in [Threads -> Points] /\ Kinds'
      <3>1. "asking" \in Points
        BY DEF Points, Sections, TrSections
      <3> QED  BY <1>1, <2>2, <3>1, PointsStay
    <2>4. OthersKept(s)
      BY <1>1, <2>1, <2>2 DEF OthersKept, Benign, TypeOK
    <2>5. Placed(s)'
      <3>1. LockOf(s) = Mu /\ s \in readers[Mu] /\ pc'[s] = "asking"
        BY <1>1, <2>2 DEF LockOf, TrSections, Inside, Shared, TypeOK
      <3>2. \A l \in Locks : /\ s \in readers[l] => l = Mu
                             /\ s \notin blocked[l] /\ writer[l] # s
        BY <1>1, <2>2, <3>1 DEF Placed, Shared
      <3> QED  BY <2>2, <3>1, <3>2 DEF Placed
    <2>6. TypeOK'
      <3>1. p \in Requests
        BY <1>1, <2>1 DEF TypeOK
      <3> QED  BY <1>1, <2>1, <2>2, <2>3, <3>1 DEF TypeOK, Threads
    <2> QED  BY <1>1, <2>3, <2>4, <2>5, <2>6, LocksStayHeld DEF LockInv
  <1>3. CASE EndSearch(s)
    <2>1. /\ pc[s] \in {"found", "searching"}
          /\ readers' = [readers EXCEPT ![Mu] = @ \ {s}]
          /\ pc' = [pc EXCEPT ![s] = "recv"]
          /\ asked' = [asked EXCEPT ![s] = {}]
          /\ target' = [target EXCEPT ![s] = NoThread]
          /\ UNCHANGED <<writer, blocked, programs>>
          /\ pc[s] = "searching" => Inside(s)
      BY <1>3 DEF EndSearch, RUnlock
    <2>2. pc' \in [Threads -> Points] /\ Kinds'
      <3>1. "recv" \in Points
        BY DEF Points
      <3> QED  BY <1>1, <2>1, <3>1, PointsStay
    <2>3. OthersKept(s)
      BY <1>1, <2>1 DEF OthersKept, Benign, TypeOK
    <2>4. Placed(s)'
      <3>1. LockOf(s) = Mu
        BY <2>1 DEF LockOf, TrSections
      <3>2. \A l \in Locks : s \notin readers'[l] /\ s \notin blocked[l] /\ writer[l] # s
        <4>1. pc[s] = "searching" => s \in readers[Mu]
          BY <2>1, <3>1 DEF Inside, Shared
        <4> QED  BY <1>1, <2>1, <3>1, <4>1 DEF Placed, Shared, Sections, TrSections, CSections, TypeOK, Locks
      <3> QED  BY <1>1, <2>1, <3>2 DEF Placed, TypeOK
    <2>5. TypeOK'
      <3>1. readers' \in [Locks -> SUBSET Threads] /\ asked' \in [Streams -> SUBSET Requests]
            /\ target' \in [Streams -> Requests \cup {NoThread}]
        BY <1>1, <2>1 DEF TypeOK
      <3>2. \A u \in Streams : pc'[u] \in {"looking", "handling", "asking", "found"} =>
                                  target'[u] \in Requests
        BY <1>1, <2>1 DEF TypeOK, Threads
      <3> QED  BY <1>1, <2>1, <2>2, <3>1, <3>2 DEF TypeOK
    <2> QED  BY <1>1, <2>2, <2>3, <2>4, <2>5, LocksStayHeld DEF LockInv
  <1> QED  BY <1>2, <1>3

LEMMA StreamKeepsLocks ==
    ASSUME LockInv, NEW s \in Streams, Recv(s) \/ StreamStep(s)
    PROVE  LockInv'
  <1>0. {"recv", "joining", "leaving", "gone", "looking", "handling", "searching", "found"} \subseteq Points
    BY DEF Points, Sections, TrSections, CSections
  <1>a. "recv" \notin Sections \cup {"found"}
    BY DEF Sections, TrSections, CSections
  <1>1. /\ TypeOK /\ programs \subseteq Requests /\ s \in Threads /\ s \notin Requests
        /\ asked \in [Streams -> SUBSET Requests]
    BY ThreadsAssumption DEF LockInv, TypeOK, Threads
  <1>2. CASE Recv(s)
    BY <1>0, <1>a, <1>1, <1>2, GoKeepsLocks DEF Recv
  <1>3. CASE Join(s)
    <2>1. /\ Inside(s) /\ Release(s) /\ pc[s] = "joining" /\ pc' = [pc EXCEPT ![s] = "recv"]
          /\ UNCHANGED <<programs, target, asked>>
      BY <1>3 DEF Join, Section, streamVars
    <2> QED  BY <1>0, <1>1, <2>1, ReleaseKeepsLocks
  <1>4. CASE Leave(s)
    <2>1. /\ Inside(s) /\ Release(s) /\ pc[s] = "leaving" /\ pc' = [pc EXCEPT ![s] = "gone"]
          /\ UNCHANGED <<programs, target, asked>>
      BY <1>4 DEF Leave, Section, streamVars
    <2> QED  BY <1>0, <1>1, <2>1, ReleaseKeepsLocks
  <1>5. CASE LookUp(s)
    <2>1. /\ Inside(s) /\ Release(s) /\ pc[s] = "looking" /\ UNCHANGED <<programs, asked>>
          /\ \/ pc' = [pc EXCEPT ![s] = "handling"] /\ target' = target
             \/ pc' = [pc EXCEPT ![s] = "recv"] /\ target' = [target EXCEPT ![s] = NoThread]
      BY <1>5 DEF LookUp, Section
    <2> QED  BY <1>0, <1>1, <2>1, ReleaseKeepsLocks
  <1>6. CASE HandleDone(s)
    <2>1. /\ Inside(s) /\ Release(s) /\ pc[s] = "handling" /\ UNCHANGED <<programs, asked>>
          /\ target' = [target EXCEPT ![s] = NoThread] /\ target[s] \in Requests
          /\ \/ pc' = [pc EXCEPT ![s] = "recv"]
             \/ /\ pc[target[s]] = "selecting"
                /\ pc' = [pc EXCEPT ![s] = "recv", ![target[s]] = "formatting"]
      BY <1>1, <1>6 DEF HandleDone, CheckDone, TypeOK
    <2> QED  BY <1>0, <1>1, <2>1, ReleaseKeepsLocks
  <1>7. CASE NextProgram(s) \/ EndSearch(s)
    BY <1>7, SearchKeepsLocks
  <1>8. CASE ReplyTaken(s)
    <2>1. /\ Inside(s) /\ Release(s) /\ pc[s] = "asking" /\ UNCHANGED <<programs, target, asked>>
          /\ target[s] \in Requests
          /\ \/ pc' = [pc EXCEPT ![s] = "found"]
             \/ /\ pc[target[s]] = "selecting"
                /\ pc' = [pc EXCEPT ![s] = "found", ![target[s]] = "formatting"]
      BY <1>1, <1>8 DEF ReplyTaken, CheckDone, TypeOK, streamVars
    <2> QED  BY <1>0, <1>1, <2>1, ReleaseKeepsLocks
  <1>9. CASE ReplyRefused(s)
    <2>1. /\ Inside(s) /\ Release(s) /\ pc[s] = "asking" /\ UNCHANGED programs
          /\ target' = [target EXCEPT ![s] = NoThread]
          /\ pc' = [pc EXCEPT ![s] = "searching"]
          /\ asked' = [asked EXCEPT ![s] = @ \cup {target[s]}] /\ target[s] \in Requests
      BY <1>1, <1>9 DEF ReplyRefused, Section, TypeOK
    <2>2. asked' \in [Streams -> SUBSET Requests]
      BY <1>1, <2>1
    <2> QED  BY <1>0, <1>1, <2>1, <2>2, ReleaseKeepsLocks
  <1> QED  BY <1>2, <1>3, <1>4, <1>5, <1>6, <1>7, <1>8, <1>9 DEF StreamStep

\* Whatever the goroutines do, the books of the locks are in order.
LEMMA LockInvariant == Spec => []LockInv
  <1>1. Init => LockInv
    <2>1. Init => TypeOK /\ Kinds
      BY ThreadsAssumption DEF Init, TypeOK, Kinds, Threads, Points
    <2>2. Init => LocksHeld
      BY ThreadsAssumption DEF Init, LocksHeld, Placed, Threads, Locks
    <2> QED  BY <2>1, <2>2 DEF LockInv
  <1>2. LockInv /\ [Next]_vars => LockInv'
    BY AskingKeepsLocks, HandlerKeepsLocks, StreamKeepsLocks, NothingMoved DEF Next, Idle
  <1> QED  BY <1>1, <1>2, PTL DEF Spec
-----------------------------------------------------------------------------
(***************************************************************************)
(* How far a goroutine is from going on: whoever it waits for is nearer.   *)
(* Nobody who is inside a section waits, but in the search; those who wait *)
(* for c.mu have no lock, and those who wait for tr.mu at most c.mu.       *)
(***************************************************************************)
Rank(t) ==
    IF pc[t] \notin Sections \/ Inside(t) THEN 0
    ELSE IF LockOf(t) # Mu
         THEN IF writer[LockOf(t)] = t THEN 1 ELSE 2
         ELSE IF writer[Mu] = t THEN 3 ELSE 4

\* Readers of tr.mu are at work, and so are those of c.mu, or they ask a program.
LEMMA ReaderRank ==
    ASSUME LockInv, NEW l \in Locks, NEW u \in readers[l]
    PROVE  Rank(u) <= 2 /\ (l # Mu => Rank(u) = 0)
  <1>1. TypeOK /\ Kinds /\ u \in Threads /\ Placed(u)
    BY DEF LockInv, LocksHeld, TypeOK
  <1>2. CASE pc[u] \in Shared /\ LockOf(u) = l
    <2>1. Inside(u)
      BY <1>2, SharedAreSections DEF Inside
    <2> QED  BY <2>1 DEF Rank
  <1>3. CASE l = Mu /\ pc[u] \in {"asking", "found"}
    <2>1. pc[u] = "asking" => LockOf(u) # Mu
      BY <1>1, LockIsLock DEF TrSections
    <2>2. pc[u] = "found" => pc[u] \notin Sections
      BY DEF Sections, TrSections, CSections
    <2> QED  BY <1>3, <2>1, <2>2 DEF Rank
  <1> QED  BY <1>1, <1>2, <1>3 DEF Placed

LEMMA RankDecreases ==
    ASSUME LockInv, NEW t \in Threads, NEW u \in Threads, WaitsFor(t, u)
    PROVE  Rank(u) < Rank(t)
  <1> DEFINE l == LockOf(t)
  <1>1. /\ TypeOK /\ Kinds /\ Placed(u) /\ l \in Locks
        /\ pc[t] \in Sections /\ ~Inside(t) /\ u # t
        /\ u \in readers[l] \/ writer[l] = u
    BY LockIsLock DEF LockInv, LocksHeld, WaitsFor
  <1>2. CASE u \in readers[l]
    <2>1. Rank(u) <= 2 /\ (l # Mu => Rank(u) = 0)
      BY <1>1, <1>2, ReaderRank
    <2> QED  BY <1>1, <2>1 DEF Rank
  <1>3. CASE writer[l] = u
    <2>1. LockOf(u) = l /\ pc[u] \in Sections
      BY <1>1, <1>3 DEF Placed
    <2> QED  BY <1>1, <1>3, <2>1 DEF Rank
  <1> QED  BY <1>1, <1>2, <1>3

LEMMA RankRange ==
    ASSUME NEW t \in Threads
    PROVE  Rank(t) \in 0 .. 4
  BY DEF Rank

LEMMA OrderedWaits ==
    ASSUME LockInv
    PROVE  NoCircularWait
  <1>1. SUFFICES ASSUME NEW group \in SUBSET Threads, group # {},
                        \A t \in group : \E u \in group : WaitsFor(t, u)
                 PROVE  FALSE
    BY Zenon DEF NoCircularWait
  <1>2. \A t \in group : \E u \in group : Rank(u) < Rank(t)
    BY <1>1, RankDecreases
  <1>3. \A t \in group : Rank(t) \in 0 .. 4
    BY RankRange
  <1> HIDE DEF Rank
  <1>4. \A t \in group : Rank(t) # 0
    BY <1>2, <1>3
  <1>5. \A t \in group : Rank(t) # 1
    BY <1>2, <1>3, <1>4
  <1>6. \A t \in group : Rank(t) # 2
    BY <1>2, <1>3, <1>4, <1>5
  <1>7. \A t \in group : Rank(t) # 3
    BY <1>2, <1>3, <1>4, <1>5, <1>6
  <1>8. \A t \in group : Rank(t) # 4
    BY <1>2, <1>3, <1>4, <1>5, <1>6, <1>7
  <1> QED  BY <1>1, <1>3, <1>4, <1>5, <1>6, <1>7, <1>8

(***************************************************************************)
(* The goroutines of controller.go and traceroute.go never wait for each   *)
(* other in a circle, for any number of requests and streams: the Reply    *)
(* path takes tr.mu inside c.mu, and nothing takes them the other way.     *)
(***************************************************************************)
THEOREM WaitsAreOrdered == Spec => []NoCircularWait
  BY LockInvariant, OrderedWaits, PTL

(***************************************************************************)
(* Type correctness of the locks and of the goroutines that take them.     *)
(***************************************************************************)
THEOREM LocksTypeCorrect == Spec => []TypeOK
  <1>1. LockInv => TypeOK
    BY DEF LockInv
  <1> QED  BY LockInvariant, <1>1, PTL

(***************************************************************************)
(* No message is handled by a program while formatResults goes through its *)
(* results, however long the resolver takes.                               *)
(***************************************************************************)
THEOREM ReportsAreSnapshots == Spec => []ReportIsSnapshot
  <1>1. LockInv => ReportIsSnapshot
    <2>1. SUFFICES ASSUME LockInv, NEW r \in Requests, NEW s \in Streams,
                          pc[r] = "formatting", Inside(r),
                          pc[s] \in {"handling", "asking"}, Inside(s), target[s] = r
                   PROVE  FALSE
      BY DEF ReportIsSnapshot
    <2>2. LockOf(r) = r /\ LockOf(s) = r
      BY <2>1, ThreadsAssumption DEF LockOf, TrSections
    <2>3. r \in readers[r] /\ readers[r] = {}
      BY <2>1, <2>2 DEF Inside, Shared
    <2> QED  BY <2>3
  <1> QED  BY LockInvariant, <1>1, PTL

(***************************************************************************)
(* The map of programs stays as it is while a stream searches it: only     *)
(* UserRequest changes it, inside c.mu and alone.                          *)
(***************************************************************************)
THEOREM SearchesAreUndisturbed == Spec => SearchUndisturbed
  <1>1. LockInv /\ [Next]_vars =>
           [\A s \in Streams :
               pc[s] \in {"asking", "found"} \/ (pc[s] = "searching" /\ Inside(s))
                  => programs' = programs]_vars
    <2>1. SUFFICES ASSUME LockInv, [Next]_vars, NEW s \in Streams,
                          pc[s] \in {"asking", "found"} \/ (pc[s] = "searching" /\ Inside(s)),
                          programs' # programs
                   PROVE  FALSE
      OBVIOUS
    <2>2. PICK r \in Requests : Register(r) \/ Unregister(r)
      BY <2>1 DEF Next, vars, HandlerStep, StreamStep, Idle, Call, Go, Recv, AllocateSessionID,
         SendJob, EnterSelect, TimerFires, Format, ReleaseSessionID, Join, Leave, LookUp, HandleDone,
         NextProgram, ReplyTaken, ReplyRefused, EndSearch, RLock, Lock
    <2>3. writer[Mu] = r /\ readers[Mu] = {}
      BY <2>2 DEF Register, Unregister, Section, Inside, LockOf, TrSections, Shared
    <2>4. s \in readers[Mu]
      BY <2>1 DEF LockInv, LocksHeld, Placed, Threads, Inside, LockOf, TrSections, Shared
    <2> QED  BY <2>3, <2>4
  <1> QED  BY LockInvariant, <1>1, PTL DEF SearchUndisturbed, Spec
=============================================================================
