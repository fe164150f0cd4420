-------------------------- MODULE Controller_proofs --------------------------
(***************************************************************************)
(* Proofs about Controller, for every set of requests and streams, every   *)
(* range and block size, and every set of measurements users ask for.      *)
(***************************************************************************)
EXTENDS Controller, SessionAllocator_proofs, FiniteSetTheorems

-----------------------------------------------------------------------------
(***************************************************************************)
(* The tables of results and of copies.                                    *)
(***************************************************************************)
LEMMA TableIsTable ==
    ASSUME NEW n \in ProbeCounts, NEW S, NEW value \in S
    PROVE  /\ Table(n, value) \in Tables(S)
           /\ DOMAIN Table(n, value) = 0 .. n - 1
  BY DEF Tables, Table

\* Recording something about one probe keeps a table a table.
LEMMA UpdateTable ==
    ASSUME NEW S, NEW T \in Tables(S), NEW U,
           U = [k \in DOMAIN T |-> U[k]], \A k \in DOMAIN T : U[k] \in S
    PROVE  U \in Tables(S) /\ DOMAIN U = DOMAIN T
  <1>1. PICK n \in ProbeCounts : T \in [0 .. n - 1 -> S]
    BY DEF Tables
  <1>2. U \in [0 .. n - 1 -> S]
    BY <1>1
  <1> QED  BY <1>1, <1>2 DEF Tables
-----------------------------------------------------------------------------
(***************************************************************************)
(* Type correctness.                                                       *)
(***************************************************************************)
LEMMA InitTypeOK == Init => TypeOK
  <1> SUFFICES ASSUME Init PROVE TypeOK
    OBVIOUS
  <1>1. 0 \in ProbeCounts /\ EmptyResult \in Result /\ 0 \in 0 .. MaxCopies
    BY ConfsAssumption DEF ProbeCounts, EmptyResult, Result
  <1>2. results \in [Requests -> Tables(Result)]
    BY <1>1, TableIsTable DEF Init
  <1>3. copies \in [Requests -> Tables(0 .. MaxCopies)]
    BY <1>1, TableIsTable DEF Init
  <1>4. \A r \in Requests : DOMAIN copies[r] = DOMAIN results[r]
    BY <1>1, TableIsTable DEF Init
  <1>5. pc \in [Requests -> Phases] /\ Holders = {}
    BY DEF Init, Phases, Holders, Holding, Registered
  <1> QED
    BY <1>2, <1>3, <1>4, <1>5, AllocatorInitTypeOK DEF Init, TypeOK

\* Steps of a handler that touch neither results nor the agents.
LEMMA HandlerTypeOK ==
    ASSUME TypeOK, NEW r \in Requests, HandlerStep(r)
    PROVE  TypeOK'
  <1> USE DEF Transition, Phases, Holding, Registered
  <1>1. CASE Allocate(r)
    <2>1. PICK b \in Blocks : AllocateSessionID(b) /\ sid' = [sid EXCEPT ![r] = b]
      BY <1>1 DEF Allocate
    <2>2. AllocatorTypeOK'
      BY <2>1, AllocateTypeOK DEF TypeOK
    <2> QED
      BY <1>1, <2>1, <2>2 DEF Allocate, TypeOK, programVars, agentVars, Holders
  <1>2. CASE Release(r)
    <2>1. AllocatorTypeOK'
      BY <1>2, ReleaseTypeOK DEF Release, TypeOK
    <2> QED
      BY <1>2, <2>1 DEF Release, TypeOK, programVars, agentVars, Holders
  <1>3. CASE Create(r)
    <2>1. PICK n \in ProbeCounts :
              /\ results' = [results EXCEPT ![r] = Table(n, EmptyResult)]
              /\ waitingResults' = [waitingResults EXCEPT ![r] = n]
              /\ copies' = [copies EXCEPT ![r] = Table(n, 0)]
      BY <1>3 DEF Create, ProbeCounts
    <2>2. n \in Int
      BY ConfsAssumption DEF ProbeCounts, TotalProbes
    <2>3. EmptyResult \in Result /\ 0 \in 0 .. MaxCopies
      BY ConfsAssumption DEF EmptyResult, Result
    <2>4. /\ results' \in [Requests -> Tables(Result)]
          /\ copies' \in [Requests -> Tables(0 .. MaxCopies)]
          /\ \A q \in Requests : DOMAIN copies'[q] = DOMAIN results'[q]
      <3>1. /\ Table(n, EmptyResult) \in Tables(Result)
            /\ DOMAIN Table(n, EmptyResult) = 0 .. n - 1
        BY <2>3, TableIsTable
      <3>2. /\ Table(n, 0) \in Tables(0 .. MaxCopies)
            /\ DOMAIN Table(n, 0) = 0 .. n - 1
        BY <2>3, TableIsTable
      <3> QED  BY <2>1, <3>1, <3>2 DEF TypeOK
    <2>5. AllocatorTypeOK'
      BY <1>3, AllocatorUnchangedTypeOK DEF Create, TypeOK, handlerVars, allocatorVars
    <2> QED
      BY <1>3, <2>1, <2>2, <2>4, <2>5 DEF Create, TypeOK, handlerVars, Holders
  <1>4. CASE \/ Refuse(r) \/ ParseFails(r) \/ CreateFails(r) \/ Register(r) \/ SendJob(r)
             \/ SendJobFails(r) \/ EnterSelect(r) \/ TimerFires(r) \/ Format(r) \/ Unregister(r)
    <2>1. UNCHANGED allocatorVars
      BY <1>4 DEF Refuse, AllocationFails, ParseFails, CreateFails, Register, SendJob, SendJobFails,
                  EnterSelect, TimerFires, Format, Unregister, handlerVars, allocatorVars
    <2>2. AllocatorTypeOK'
      BY <2>1, AllocatorUnchangedTypeOK DEF TypeOK
    <2>3. UNCHANGED <<sid, programVars, handling, acked, copies>>
      BY <1>4 DEF Refuse, ParseFails, CreateFails, Register, SendJob, SendJobFails,
                  EnterSelect, TimerFires, Format, Unregister, handlerVars, agentVars
    <2>4. pc' \in [Requests -> Phases]
      BY <1>4 DEF TypeOK, Refuse, ParseFails, CreateFails, Register, SendJob, SendJobFails,
                  EnterSelect, TimerFires, Format, Unregister
    <2>5. code' \in [Requests -> {200, 400, 500, NoCode}]
      <3>1. code \in [Requests -> {200, 400, 500, NoCode}]
        BY DEF TypeOK
      <3>2. code' = code \/ \E c \in {200, 400, 500} : code' = [code EXCEPT ![r] = c]
        BY <1>4 DEF Refuse, ParseFails, CreateFails, Register, SendJob, SendJobFails, Respond,
                    EnterSelect, TimerFires, Format, Unregister, handlerVars
      <3> QED  BY <3>1, <3>2
    <2>6. programs' \in [Blocks -> Requests \cup {NoRequest}]
      BY <1>4 DEF TypeOK, Refuse, ParseFails, CreateFails, Register, SendJob, SendJobFails,
                  EnterSelect, TimerFires, Format, Unregister, handlerVars
    <2>7. jobs' \subseteq Requests /\ jobs \subseteq jobs'
      BY <1>4 DEF TypeOK, Refuse, ParseFails, CreateFails, Register, SendJob, SendJobFails,
                  EnterSelect, TimerFires, Format, Unregister, agentVars
    <2>8. Holders' \cup jobs' \subseteq Holders \cup jobs
      BY <1>4 DEF TypeOK, Refuse, ParseFails, CreateFails, Register, SendJob, SendJobFails, Holders,
                  EnterSelect, TimerFires, Format, Unregister, handlerVars, agentVars
    <2> QED
      BY <2>2, <2>3, <2>4, <2>5, <2>6, <2>7, <2>8 DEF TypeOK, programVars
  <1> QED  BY <1>1, <1>2, <1>3, <1>4 DEF HandlerStep

\* Steps of a stream: a handler's phase changes only when checkDone signals.
LEMMA CheckDonePhases ==
    ASSUME TypeOK, NEW r \in Requests, CheckDone(r)
    PROVE  /\ pc' \in [Requests -> Phases]
           /\ Holders' = Holders
           /\ \A q \in Requests : pc'[q] \in Registered <=> pc[q] \in Registered
  BY DEF TypeOK, CheckDone, Phases, Holders, Holding, Registered

LEMMA StreamChecksDone ==
    ASSUME TypeOK, NEW s \in Streams, StreamStep(s)
    PROVE  pc' = pc \/ \E r \in Requests : CheckDone(r)
  <1>1. HandleDone(s) => \E r \in Requests : CheckDone(r)
    BY DEF HandleDone, TypeOK
  <1> QED  BY <1>1 DEF StreamStep, LookupDone, ReceiveReply, HandleReply

LEMMA LookupDoneTypeOK ==
    ASSUME TypeOK, NEW s \in Streams, NEW q \in Requests, LookupDone(s, q)
    PROVE  TypeOK'
  <1>1. AllocatorTypeOK'
    BY AllocatorUnchangedTypeOK DEF LookupDone, TypeOK, handlerVars, allocatorVars
  <1>2. q \in jobs /\ sid[q] \in Blocks
    BY DEF LookupDone, TypeOK
  <1>3. handling' \in [Streams -> [job : Requests, program : Requests] \cup {NoDone}]
    BY <1>2 DEF LookupDone, TypeOK
  <1> QED
    BY <1>1, <1>2, <1>3 DEF LookupDone, TypeOK, handlerVars, programVars, Holders

LEMMA HandleDoneTypeOK ==
    ASSUME TypeOK, NEW s \in Streams, HandleDone(s)
    PROVE  TypeOK'
  <1>1. AllocatorTypeOK'
    BY AllocatorUnchangedTypeOK DEF HandleDone, TypeOK, handlerVars, allocatorVars
  <1> DEFINE q == handling[s].job
             r == handling[s].program
  <1>0. q \in Requests /\ r \in Requests
    BY DEF HandleDone, TypeOK
  <1> HIDE DEF q, r
  <1>2. PICK udpAcks \in SUBSET DOMAIN results[q] :
            /\ receivedDone' = [receivedDone EXCEPT ![r] = TRUE]
            /\ results' = [results EXCEPT ![r] =
                  [k \in DOMAIN results[r] |->
                      IF k \in udpAcks THEN [results[r][k] EXCEPT !.t1 = q] ELSE results[r][k]]]
            /\ UNCHANGED waitingResults
            /\ CheckDone(r)
    BY <1>0 DEF HandleDone, TypeOK, q, r
  <1>3. results'[r] \in Tables(Result) /\ DOMAIN results'[r] = DOMAIN results[r]
    <2>1. results[r] \in Tables(Result)
      BY <1>0 DEF TypeOK
    <2>2. results'[r] = [k \in DOMAIN results[r] |->
              IF k \in udpAcks THEN [results[r][k] EXCEPT !.t1 = q] ELSE results[r][k]]
      BY <1>0, <1>2 DEF TypeOK
    <2>3. \A k \in DOMAIN results[r] : results[r][k] \in Result
      BY <2>1 DEF Tables
    <2>4. \A k \in DOMAIN results[r] : results'[r][k] \in Result
      BY <1>0, <2>2, <2>3 DEF Result
    <2>5. results'[r] = [k \in DOMAIN results[r] |-> results'[r][k]]
      BY <2>2
    <2> QED  BY <2>1, <2>4, <2>5, UpdateTable
  <1>4. /\ results' \in [Requests -> Tables(Result)]
        /\ \A p \in Requests : DOMAIN results'[p] = DOMAIN results[p]
    BY <1>0, <1>2, <1>3 DEF TypeOK
  <1>5. handling' \in [Streams -> [job : Requests, program : Requests] \cup {NoDone}]
    BY DEF HandleDone, TypeOK
  <1> QED
    BY <1>0, <1>1, <1>2, <1>4, <1>5, CheckDonePhases DEF HandleDone, TypeOK, handlerVars

LEMMA ReceiveReplyTypeOK ==
    ASSUME TypeOK, NEW s \in Streams, NEW q \in Requests, NEW k \in DOMAIN copies[q],
           ReceiveReply(s, q, k)
    PROVE  TypeOK'
  <1> DEFINE port == ProbePort(q, k)
  <1>1. AllocatorTypeOK'
    BY AllocatorUnchangedTypeOK DEF ReceiveReply, TypeOK, handlerVars, allocatorVars
  <1>2. copies[q][k] < MaxCopies /\ copies' = [copies EXCEPT ![q][k] = @ + 1]
    BY DEF ReceiveReply
  <1>3. copies'[q] \in Tables(0 .. MaxCopies) /\ DOMAIN copies'[q] = DOMAIN copies[q]
    <2>1. copies[q] \in Tables(0 .. MaxCopies)
      BY DEF TypeOK
    <2>2. copies'[q] = [copies[q] EXCEPT ![k] = copies[q][k] + 1]
      BY <1>2 DEF TypeOK
    <2>3. \A j \in DOMAIN copies[q] : copies[q][j] \in 0 .. MaxCopies
      BY <2>1 DEF Tables
    <2>4. \A j \in DOMAIN copies[q] : copies'[q][j] \in 0 .. MaxCopies
      BY <1>2, <2>2, <2>3, ConfsAssumption
    <2>5. copies'[q] = [j \in DOMAIN copies[q] |-> copies'[q][j]]
      BY <2>2
    <2> QED  BY <2>1, <2>4, <2>5, UpdateTable
  <1>4. /\ copies' \in [Requests -> Tables(0 .. MaxCopies)]
        /\ \A p \in Requests : DOMAIN copies'[p] = DOMAIN copies[p]
    BY <1>2, <1>3 DEF TypeOK
  <1>5. /\ pc' \in [Requests -> Phases]
        /\ Holders' = Holders
        /\ results' \in [Requests -> Tables(Result)]
        /\ \A p \in Requests : DOMAIN results'[p] = DOMAIN results[p]
        /\ receivedDone' \in [Requests -> BOOLEAN]
        /\ waitingResults' \in [Requests -> Int]
    <2>1. CASE \E r \in Requests : Accepts(r, port) /\ HandleReply(r, q, port)
      <3>1. PICK r \in Requests : Accepts(r, port) /\ HandleReply(r, q, port)
        BY <2>1
      <3> DEFINE i == port - sid[r]
      <3>2. i \in DOMAIN results[r] /\ results[r] \in Tables(Result)
        BY <3>1 DEF Accepts, TypeOK
      <3>3. results' = [results EXCEPT ![r][i].reply = q]
        BY <3>1 DEF HandleReply
      <3>4. results'[r] = [results[r] EXCEPT ![i] = [results[r][i] EXCEPT !.reply = q]]
        BY <3>3 DEF TypeOK
      <3>5. \A j \in DOMAIN results[r] : results[r][j] \in Result
        BY <3>2 DEF Tables
      <3>6. \A j \in DOMAIN results[r] : results'[r][j] \in Result
        BY <3>2, <3>4, <3>5 DEF Result
      <3>7. results'[r] = [j \in DOMAIN results[r] |-> results'[r][j]]
        BY <3>4
      <3>8. results'[r] \in Tables(Result) /\ DOMAIN results'[r] = DOMAIN results[r]
        BY <3>2, <3>6, <3>7, UpdateTable
      <3>9. /\ results' \in [Requests -> Tables(Result)]
            /\ \A p \in Requests : DOMAIN results'[p] = DOMAIN results[p]
        BY <3>3, <3>8 DEF TypeOK
      <3>10. CheckDone(r) /\ receivedDone' = receivedDone
             /\ waitingResults' = [waitingResults EXCEPT ![r] = @ - 1]
        BY <3>1 DEF HandleReply
      <3> QED  BY <3>9, <3>10, CheckDonePhases DEF TypeOK
    <2>2. CASE UNCHANGED <<pc, programVars>>
      BY <2>2 DEF TypeOK, programVars, Holders
    <2> QED  BY <2>1, <2>2 DEF ReceiveReply
  <1> QED
    BY <1>1, <1>4, <1>5 DEF ReceiveReply, TypeOK, handlerVars

\* The type invariant of the controller, and with it: a handler that holds a
\* block knows a real one, and so does every job an agent has got.
THEOREM TypeCorrect == Spec => []TypeOK
  <1>1. TypeOK /\ [Next]_vars => TypeOK'
    <2> SUFFICES ASSUME TypeOK, [Next]_vars PROVE TypeOK'
      OBVIOUS
    <2>1. CASE UNCHANGED vars
      <3>1. AllocatorTypeOK'
        BY <2>1, AllocatorUnchangedTypeOK DEF TypeOK, vars, handlerVars, allocatorVars
      <3> QED  BY <2>1, <3>1 DEF TypeOK, vars, handlerVars, programVars, agentVars, Holders
    <2> QED
      BY <2>1, HandlerTypeOK, LookupDoneTypeOK, HandleDoneTypeOK, ReceiveReplyTypeOK
      DEF Next, StreamStep, Quiescent
  <1> QED  BY <1>1, InitTypeOK, PTL DEF Spec
-----------------------------------------------------------------------------
(***************************************************************************)
(* Who holds which block, and which program is registered under it.        *)
(* BlocksHeldOnce and ProgramsAreRunning are inductive only together: that *)
(* Register overwrites nobody's entry needs that no other handler has the  *)
(* block.                                                                  *)
(***************************************************************************)
Ownership == TypeOK /\ BlocksHeldOnce /\ ProgramsAreRunning

\* Steps that move no block and no entry of the programs map.
LEMMA OwnershipKept ==
    ASSUME Ownership, TypeOK',
           UNCHANGED <<inUseBlocks, sid, programs>>,
           Holders' = Holders,
           \A q \in Requests : pc'[q] \in Registered <=> pc[q] \in Registered
    PROVE  Ownership'
  BY DEF Ownership, BlocksHeldOnce, ProgramsAreRunning

LEMMA AllocateOwnership ==
    ASSUME Ownership, TypeOK', NEW r \in Requests, Allocate(r)
    PROVE  Ownership'
  <1> USE DEF Ownership, Transition, Holding, Registered, Holders
  <1>1. PICK b \in Blocks : /\ b \notin inUseBlocks
                            /\ inUseBlocks' = inUseBlocks \cup {b}
                            /\ sid' = [sid EXCEPT ![r] = b]
    BY DEF Allocate, AllocateSessionID, Free
  <1>2. /\ pc[r] = "idle" /\ pc' = [pc EXCEPT ![r] = "allocated"]
        /\ r \notin Holders /\ Holders' = Holders \cup {r}
    BY DEF Allocate, TypeOK
  <1>3. sid'[r] = b /\ \A q \in Requests \ {r} : sid'[q] = sid[q] /\ pc'[q] = pc[q]
    BY <1>1, <1>2 DEF TypeOK
  <1>4. BlocksHeldOnce'
    <2>1. inUseBlocks' = { sid'[q] : q \in Holders' }
      BY <1>1, <1>2, <1>3 DEF BlocksHeldOnce
    <2>2. \A q \in Holders : sid[q] # b
      BY <1>1 DEF BlocksHeldOnce
    <2> QED  BY <1>2, <1>3, <2>1, <2>2 DEF BlocksHeldOnce
  <1>5. ProgramsAreRunning'
    BY <1>2, <1>3 DEF Allocate, ProgramsAreRunning
  <1> QED  BY <1>4, <1>5

LEMMA ReleaseOwnership ==
    ASSUME Ownership, TypeOK', NEW r \in Requests, Release(r)
    PROVE  Ownership'
  <1> USE DEF Ownership, Transition, Holding, Registered, Holders
  <1>1. /\ pc[r] = "releasing" /\ pc' = [pc EXCEPT ![r] = "answered"]
        /\ r \in Holders /\ Holders' = Holders \ {r}
    BY DEF Release, TypeOK
  <1>2. inUseBlocks' = inUseBlocks \ {sid[r]} /\ UNCHANGED <<sid, programs>>
    BY DEF Release, ReleaseSessionID
  <1>3. BlocksHeldOnce'
    BY <1>1, <1>2 DEF BlocksHeldOnce
  <1>4. ProgramsAreRunning'
    BY <1>1, <1>2 DEF ProgramsAreRunning, TypeOK
  <1> QED  BY <1>3, <1>4

LEMMA RegisterOwnership ==
    ASSUME Ownership, TypeOK', NEW r \in Requests, Register(r)
    PROVE  Ownership'
  <1> USE DEF Ownership, Transition, Holding, Registered, Holders
  <1>1. /\ pc[r] = "created" /\ pc' = [pc EXCEPT ![r] = "registered"]
        /\ r \in Holders /\ Holders' = Holders /\ sid[r] \in Blocks
        /\ programs' = [programs EXCEPT ![sid[r]] = r]
        /\ UNCHANGED <<inUseBlocks, sid>>
    BY DEF Register, TypeOK
  <1>2. BlocksHeldOnce'
    BY <1>1 DEF BlocksHeldOnce
  <1>3. \A q \in Requests \ {r} : pc[q] \in Registered => sid[q] # sid[r]
    BY <1>1 DEF BlocksHeldOnce
  <1>4. ProgramsAreRunning'
    BY <1>1, <1>3 DEF ProgramsAreRunning, TypeOK
  <1> QED  BY <1>2, <1>4

LEMMA UnregisterOwnership ==
    ASSUME Ownership, TypeOK', NEW r \in Requests, Unregister(r)
    PROVE  Ownership'
  <1> USE DEF Ownership, Transition, Holding, Registered, Holders
  <1>1. /\ pc[r] = "unregistering" /\ pc' = [pc EXCEPT ![r] = "releasing"]
        /\ r \in Holders /\ Holders' = Holders /\ sid[r] \in Blocks
        /\ programs' = [programs EXCEPT ![sid[r]] = NoRequest]
        /\ UNCHANGED <<inUseBlocks, sid>>
    BY DEF Unregister, TypeOK
  <1>2. BlocksHeldOnce'
    BY <1>1 DEF BlocksHeldOnce
  <1>3. \A q \in Requests \ {r} : pc[q] \in Registered => sid[q] # sid[r]
    BY <1>1 DEF BlocksHeldOnce
  <1>4. ProgramsAreRunning'
    BY <1>1, <1>3, SentinelAssumption DEF ProgramsAreRunning, TypeOK
  <1> QED  BY <1>2, <1>4

LEMMA HandlerOwnership ==
    ASSUME Ownership, TypeOK', NEW r \in Requests, HandlerStep(r)
    PROVE  Ownership'
  <1>1. CASE \/ Refuse(r) \/ ParseFails(r) \/ CreateFails(r) \/ Create(r) \/ SendJob(r)
             \/ SendJobFails(r) \/ EnterSelect(r) \/ TimerFires(r) \/ Format(r)
    <2>1. UNCHANGED <<inUseBlocks, sid, programs>>
      BY <1>1 DEF Refuse, AllocationFails, allocatorVars, ParseFails, CreateFails, Create, SendJob,
                  SendJobFails, EnterSelect, TimerFires, Format, handlerVars
    <2>2. /\ Holders' = Holders
          /\ \A q \in Requests : pc'[q] \in Registered <=> pc[q] \in Registered
      BY <1>1 DEF Refuse, ParseFails, CreateFails, Create, SendJob, SendJobFails, EnterSelect,
                  TimerFires, Format, Transition, Holders, Holding, Registered, Ownership, TypeOK
    <2> QED  BY <2>1, <2>2, OwnershipKept
  <1> QED
    BY <1>1, AllocateOwnership, ReleaseOwnership, RegisterOwnership, UnregisterOwnership
    DEF HandlerStep

LEMMA StreamOwnership ==
    ASSUME Ownership, TypeOK', NEW s \in Streams, StreamStep(s)
    PROVE  Ownership'
  <1>1. UNCHANGED <<inUseBlocks, sid, programs>>
    BY DEF StreamStep, LookupDone, HandleDone, ReceiveReply, handlerVars
  <1>2. pc' = pc \/ \E r \in Requests : CheckDone(r)
    BY StreamChecksDone DEF Ownership
  <1>3. /\ Holders' = Holders
        /\ \A q \in Requests : pc'[q] \in Registered <=> pc[q] \in Registered
    BY <1>2, CheckDonePhases DEF Ownership, Holders
  <1> QED  BY <1>1, <1>3, OwnershipKept

LEMMA OwnershipInvariant == Spec => []Ownership
  <1>1. Init => Ownership
    <2> SUFFICES ASSUME Init PROVE Ownership
      OBVIOUS
    <2>1. Holders = {} /\ \A r \in Requests : pc[r] \notin Registered
      BY DEF Init, Holders, Holding, Registered
    <2> QED
      BY <2>1, InitTypeOK, SentinelAssumption
      DEF Init, AllocatorInit, Ownership, BlocksHeldOnce, ProgramsAreRunning
  <1>2. Ownership /\ TypeOK' /\ [Next]_vars => Ownership'
    <2> SUFFICES ASSUME Ownership, TypeOK', [Next]_vars PROVE Ownership'
      OBVIOUS
    <2>1. CASE UNCHANGED vars
      BY <2>1, OwnershipKept DEF vars, handlerVars, Holders
    <2> QED
      BY <2>1, HandlerOwnership, StreamOwnership DEF Next, Quiescent
  <1> QED  BY <1>1, <1>2, TypeCorrect, PTL DEF Spec

\* No block leaks, is given back twice, or is held by two handlers at once.
THEOREM BlocksSafe == Spec => []BlocksHeldOnce
  <1>1. Ownership => BlocksHeldOnce
    BY DEF Ownership
  <1> QED  BY <1>1, OwnershipInvariant, PTL

\* The programs map holds exactly the running programs.
THEOREM ProgramsSafe == Spec => []ProgramsAreRunning
  <1>1. Ownership => ProgramsAreRunning
    BY DEF Ownership
  <1> QED  BY <1>1, OwnershipInvariant, PTL
-----------------------------------------------------------------------------
(***************************************************************************)
(* The handlers implement MeasurementService. A handler has decided on its *)
(* code before its deferred calls start.                                   *)
(***************************************************************************)
CodeDecided ==
    \A r \in Requests :
        pc[r] \in {"unregistering", "releasing"} => code[r] \in {200, 400, 500}

LEMMA CodeDecidedInvariant == Spec => []CodeDecided
  <1>1. Init => CodeDecided
    BY DEF Init, CodeDecided
  <1>2. TypeOK /\ CodeDecided /\ [Next]_vars => CodeDecided'
    <2> SUFFICES ASSUME TypeOK, CodeDecided, [Next]_vars PROVE CodeDecided'
      OBVIOUS
    <2> USE DEF CodeDecided
    <2>1. ASSUME NEW r \in Requests, HandlerStep(r) PROVE CodeDecided'
      <3>1. code \in [Requests -> {200, 400, 500, NoCode}] /\ pc \in [Requests -> Phases]
        BY DEF TypeOK
      <3>2. CASE \/ Refuse(r) \/ ParseFails(r) \/ CreateFails(r) \/ SendJobFails(r) \/ Format(r)
        <4>1. \E c \in {200, 400, 500} : code' = [code EXCEPT ![r] = c]
          BY <3>2 DEF Refuse, ParseFails, CreateFails, SendJobFails, Format, Respond
        <4>2. \A q \in Requests \ {r} : pc'[q] = pc[q]
          BY <3>1, <3>2 DEF Refuse, ParseFails, CreateFails, SendJobFails, Format, Transition
        <4> QED  BY <3>1, <4>1, <4>2
      <3>3. CASE \/ Allocate(r) \/ Create(r) \/ Register(r) \/ SendJob(r) \/ EnterSelect(r)
                 \/ TimerFires(r) \/ Unregister(r) \/ Release(r)
        BY <3>1, <3>3 DEF Allocate, Create, Register, SendJob, EnterSelect, TimerFires, Unregister,
                          Release, Transition, handlerVars
      <3> QED  BY <2>1, <3>2, <3>3 DEF HandlerStep
    <2>2. ASSUME NEW s \in Streams, StreamStep(s) PROVE CodeDecided'
      <3>1. code' = code
        BY <2>2 DEF StreamStep, LookupDone, HandleDone, ReceiveReply, handlerVars
      <3>2. pc' = pc \/ \E r \in Requests : CheckDone(r)
        BY <2>2, StreamChecksDone
      <3> QED  BY <3>1, <3>2 DEF CheckDone, TypeOK
    <2>3. CASE UNCHANGED vars
      BY <2>3 DEF vars, handlerVars
    <2> QED  BY <2>1, <2>2, <2>3 DEF Next, Quiescent
  <1> QED  BY <1>1, <1>2, TypeCorrect, PTL DEF Spec

\* A step that keeps the holders, their blocks and the answers is a stutter.
LEMMA ServiceStutter ==
    ASSUME TypeOK, UNCHANGED <<sid, code>>,
           \A q \in Requests : /\ pc'[q] \in Holding <=> pc[q] \in Holding
                               /\ pc'[q] = "answered" <=> pc[q] = "answered"
    PROVE  UNCHANGED Service!serviceVars
  <1>1. heldBlock' = heldBlock
    BY DEF heldBlock
  <1>2. response' = response
    BY DEF response
  <1> QED  BY <1>1, <1>2 DEF Service!serviceVars

\* The blocks the service counts as taken are those the allocator has marked.
LEMMA TakenInUse ==
    ASSUME Ownership
    PROVE  Service!Taken = inUseBlocks
  <1>1. \A r \in Holders : sid[r] \in Blocks /\ sid[r] # NoBlock
    BY SentinelAssumption DEF Ownership, TypeOK
  <1> QED  BY <1>1 DEF Service!Taken, heldBlock, Ownership, BlocksHeldOnce, Holders

LEMMA HandlerImplements ==
    ASSUME Ownership, CodeDecided, NEW r \in Requests, HandlerStep(r)
    PROVE  [Service!ServiceNext]_(Service!serviceVars)
  <1> USE DEF Transition, Holding, Registered
  <1>0. TypeOK /\ pc \in [Requests -> Phases]
    BY DEF Ownership, TypeOK
  <1>1. CASE Allocate(r)
    <2>1. PICK b \in Blocks : b \notin inUseBlocks /\ sid' = [sid EXCEPT ![r] = b]
      BY <1>1 DEF Allocate, AllocateSessionID, Free
    <2>2. Service!Accept(r)
      <3>1. /\ pc[r] = "idle" /\ pc' = [pc EXCEPT ![r] = "allocated"]
            /\ code' = code /\ sid \in [Requests -> Blocks \cup {NoBlock}]
        BY <1>0, <1>1 DEF Allocate, TypeOK
      <3>2. heldBlock[r] = NoBlock /\ response[r] = NoCode
        BY <3>1 DEF heldBlock, response
      <3>3. heldBlock' = [heldBlock EXCEPT ![r] = b]
        BY <1>0, <2>1, <3>1 DEF heldBlock
      <3>4. response' = response
        BY <1>0, <3>1 DEF response
      <3>5. b \in Blocks \ Service!Taken
        BY <2>1, TakenInUse
      <3> QED  BY <3>2, <3>3, <3>4, <3>5 DEF Service!Accept, Service!Fresh
    <2> QED  BY <2>2 DEF Service!ServiceNext
  <1>2. CASE Refuse(r)
    <2>1. Blocks \subseteq Service!Taken
      BY <1>2, TakenInUse DEF Refuse, AllocationFails, Free
    <2>2. Service!Refuse(r)
      <3>1. /\ pc[r] = "idle" /\ pc' = [pc EXCEPT ![r] = "answered"]
            /\ sid' = sid /\ code' = [code EXCEPT ![r] = 500]
            /\ code \in [Requests -> {200, 400, 500, NoCode}]
        BY <1>0, <1>2 DEF Refuse, Respond, TypeOK
      <3>2. heldBlock[r] = NoBlock /\ response[r] = NoCode
        BY <3>1 DEF heldBlock, response
      <3>3. response' = [response EXCEPT ![r] = 500]
        BY <1>0, <3>1 DEF response
      <3>4. heldBlock' = heldBlock
        BY <1>0, <3>1 DEF heldBlock
      <3> QED  BY <2>1, <3>2, <3>3, <3>4 DEF Service!Refuse, Service!Fresh
    <2> QED  BY <2>2 DEF Service!ServiceNext
  <1>3. CASE Release(r)
    <2>1. code[r] \in {200, 400, 500} /\ sid[r] # NoBlock
      BY <1>0, <1>3, SentinelAssumption DEF Release, CodeDecided, TypeOK, Holders
    <2>2. Service!Answer(r)
      <3>1. /\ pc[r] = "releasing" /\ pc' = [pc EXCEPT ![r] = "answered"]
            /\ sid' = sid /\ code' = code
        BY <1>3 DEF Release
      <3>2. heldBlock[r] # NoBlock
        BY <2>1, <3>1 DEF heldBlock
      <3>3. heldBlock' = [heldBlock EXCEPT ![r] = NoBlock]
        BY <1>0, <3>1 DEF heldBlock
      <3>4. response' = [response EXCEPT ![r] = code[r]]
        BY <1>0, <3>1 DEF response
      <3>5. \/ response' = [response EXCEPT ![r] = 200]
            \/ response' = [response EXCEPT ![r] = 400]
            \/ response' = [response EXCEPT ![r] = 500]
        BY <2>1, <3>4
      <3> QED  BY <3>2, <3>3, <3>5 DEF Service!Answer
    <2> QED  BY <2>2 DEF Service!ServiceNext
  <1>4. CASE \/ Create(r) \/ Register(r) \/ SendJob(r)
             \/ EnterSelect(r) \/ TimerFires(r) \/ Unregister(r)
    <2>1. UNCHANGED <<sid, code>>
      BY <1>4 DEF Create, Register, SendJob, EnterSelect, TimerFires, Unregister, handlerVars
    <2> QED
      BY <1>0, <1>4, <2>1, ServiceStutter
      DEF Create, Register, SendJob, EnterSelect, TimerFires, Unregister
  <1>5. CASE ParseFails(r) \/ CreateFails(r) \/ SendJobFails(r) \/ Format(r)
    <2>1. /\ sid' = sid
          /\ \A q \in Requests \ {r} : code'[q] = code[q]
          /\ pc[r] \in Holding /\ pc'[r] \in Holding
          /\ \A q \in Requests \ {r} : pc'[q] = pc[q]
      BY <1>0, <1>5 DEF ParseFails, CreateFails, SendJobFails, Format, Respond, TypeOK
    <2>2. heldBlock' = heldBlock /\ response' = response
      BY <1>0, <2>1 DEF heldBlock, response
    <2> QED  BY <2>2 DEF Service!serviceVars
  <1> QED  BY <1>1, <1>2, <1>3, <1>4, <1>5 DEF HandlerStep

LEMMA StreamImplements ==
    ASSUME Ownership, NEW s \in Streams, StreamStep(s)
    PROVE  UNCHANGED Service!serviceVars
  <1>1. UNCHANGED <<sid, code>> /\ TypeOK
    BY DEF StreamStep, LookupDone, HandleDone, ReceiveReply, handlerVars, Ownership
  <1>2. pc' = pc \/ \E r \in Requests : CheckDone(r)
    BY <1>1, StreamChecksDone
  <1>3. \A q \in Requests : /\ pc'[q] \in Holding <=> pc[q] \in Holding
                            /\ pc'[q] = "answered" <=> pc[q] = "answered"
    BY <1>1, <1>2 DEF CheckDone, TypeOK, Holding, Registered
  <1> QED  BY <1>1, <1>3, ServiceStutter

\* Safety of the promise made to users: a request is refused only when every
\* block is held, gets a block nobody else holds otherwise, and keeps it until
\* it is answered with one of the codes 200, 400 and 500.
THEOREM ControllerImplementsService == Spec => ImplementsService
  <1>1. Init => Service!ServiceInit
    BY DEF Init, Service!ServiceInit, heldBlock, response, Holding, Registered
  <1>2. Ownership /\ CodeDecided /\ [Next]_vars => [Service!ServiceNext]_(Service!serviceVars)
    <2> SUFFICES ASSUME Ownership, CodeDecided, [Next]_vars
                 PROVE  [Service!ServiceNext]_(Service!serviceVars)
      OBVIOUS
    <2>1. CASE UNCHANGED vars
      BY <2>1, ServiceStutter DEF vars, handlerVars, Ownership
    <2> QED
      BY <2>1, HandlerImplements, StreamImplements DEF Next, Quiescent
  <1> QED
    BY <1>1, <1>2, OwnershipInvariant, CodeDecidedInvariant, PTL
    DEF Spec, ImplementsService, Service!ServiceSafety
-----------------------------------------------------------------------------
(***************************************************************************)
(* Which requests a program's results are about. Results are only ever     *)
(* about requests whose Job an agent got, and a handler that has not asked *)
(* for a block yet has neither results nor a Job.                          *)
(***************************************************************************)
Provenance ==
    /\ \A r \in Requests : pc[r] = "idle" => DOMAIN results[r] = {} /\ r \notin jobs
    /\ \A r \in Requests : Sources(r) \subseteq jobs
    /\ \A s \in Streams : handling[s] # NoDone => handling[s].job \in jobs

\* A handler's own steps add no source to any program.
LEMMA HandlerSources ==
    ASSUME TypeOK, NEW r \in Requests, HandlerStep(r), NEW p \in Requests
    PROVE  Sources(p)' \subseteq Sources(p)
  <1>1. CASE Create(r)
    <2>1. PICK n : results' = [results EXCEPT ![r] = Table(n, EmptyResult)]
      BY <1>1 DEF Create
    <2>2. CASE p = r
      <3>1. results'[p] = Table(n, EmptyResult)
        BY <2>1, <2>2 DEF TypeOK
      <3>2. \A k \in DOMAIN results'[p] :
                results'[p][k].t1 = NoRequest /\ results'[p][k].reply = NoRequest
        BY <3>1 DEF Table, EmptyResult
      <3> QED  BY <3>2, SentinelAssumption DEF Sources
    <2>3. CASE p # r
      BY <2>1, <2>3 DEF TypeOK, Sources
    <2> QED  BY <2>2, <2>3
  <1>2. CASE ~Create(r)
    <2>1. results' = results
      BY <1>2 DEF HandlerStep, Refuse, Allocate, ParseFails, CreateFails, Register, SendJob,
                  SendJobFails, EnterSelect, TimerFires, Format, Unregister, Release, programVars
    <2> QED  BY <2>1 DEF Sources
  <1> QED  BY <1>1, <1>2

\* Overwriting one field of some results with q adds at most q.
LEMMA SourcesGrow ==
    ASSUME NEW p, NEW q, DOMAIN results'[p] = DOMAIN results[p],
           \A k \in DOMAIN results[p] :
               /\ results'[p][k].t1 \in {q, results[p][k].t1}
               /\ results'[p][k].reply \in {q, results[p][k].reply}
    PROVE  Sources(p)' \subseteq Sources(p) \cup {q}
  <1> SUFFICES ASSUME NEW x \in Sources(p)', x # q PROVE x \in Sources(p)
    OBVIOUS
  <1>1. PICK k \in DOMAIN results'[p] : x \in {results'[p][k].t1, results'[p][k].reply}
    BY DEF Sources
  <1>2. x \in {results[p][k].t1, results[p][k].reply} /\ k \in DOMAIN results[p]
    BY <1>1
  <1>3. x \in Requests
    BY DEF Sources
  <1> QED  BY <1>2, <1>3 DEF Sources

\* What a Done changes of the results: T1 of some, in one program.
LEMMA DoneFields ==
    ASSUME TypeOK, NEW s \in Streams, HandleDone(s), NEW p \in Requests
    PROVE  /\ DOMAIN results'[p] = DOMAIN results[p]
           /\ \A k \in DOMAIN results[p] : results'[p][k].reply = results[p][k].reply
           /\ \/ results'[p] = results[p]
              \/ /\ p = handling[s].program
                 /\ \A k \in DOMAIN results[p] :
                       results'[p][k].t1 \in {handling[s].job, results[p][k].t1}
  <1> DEFINE q == handling[s].job
             r == handling[s].program
  <1>1. q \in Requests /\ r \in Requests
    BY DEF HandleDone, TypeOK
  <1>2. PICK udpAcks \in SUBSET DOMAIN results[q] :
            results' = [results EXCEPT ![r] =
                  [k \in DOMAIN results[r] |->
                      IF k \in udpAcks THEN [results[r][k] EXCEPT !.t1 = q] ELSE results[r][k]]]
    BY <1>1 DEF HandleDone, TypeOK
  <1> HIDE DEF q, r
  <1>3. CASE p # r
    BY <1>1, <1>2, <1>3 DEF TypeOK
  <1>4. CASE p = r
    <2>1. /\ DOMAIN results'[p] = DOMAIN results[p]
          /\ \A k \in DOMAIN results[p] :
                results'[p][k] = IF k \in udpAcks THEN [results[p][k] EXCEPT !.t1 = q]
                                                  ELSE results[p][k]
      BY <1>1, <1>2, <1>4 DEF TypeOK
    <2>2. results[p] \in Tables(Result)
      BY DEF TypeOK
    <2>3. \A k \in DOMAIN results[p] : results[p][k] \in Result
      BY <2>2 DEF Tables
    <2>4. \A k \in DOMAIN results[p] :
              /\ results'[p][k].t1 \in {q, results[p][k].t1}
              /\ results'[p][k].reply = results[p][k].reply
      BY <2>1, <2>3 DEF Result
    <2> QED  BY <1>4, <2>1, <2>4 DEF q, r
  <1> QED  BY <1>3, <1>4

\* What a Reply changes: one reply of the program that takes it.
LEMMA ReplyFields ==
    ASSUME TypeOK, NEW r \in Requests, NEW q \in Requests, NEW port, Accepts(r, port),
           HandleReply(r, q, port)
    PROVE  /\ \A p \in Requests \ {r} : results'[p] = results[p]
           /\ DOMAIN results'[r] = DOMAIN results[r]
           /\ \A k \in DOMAIN results[r] :
                 /\ results'[r][k].t1 = results[r][k].t1
                 /\ results'[r][k].reply = IF k = port - sid[r] THEN q ELSE results[r][k].reply
  <1> DEFINE i == port - sid[r]
  <1>1. /\ results[r] \in Tables(Result) /\ i \in DOMAIN results[r]
        /\ results' = [results EXCEPT ![r][i].reply = q]
    BY DEF Accepts, HandleReply, TypeOK
  <1>2. results'[r] = [results[r] EXCEPT ![i] = [results[r][i] EXCEPT !.reply = q]]
    BY <1>1 DEF TypeOK
  <1>3. \A k \in DOMAIN results[r] : results[r][k] \in Result
    BY <1>1 DEF Tables
  <1>4. \A p \in Requests \ {r} : results'[p] = results[p]
    BY <1>1 DEF TypeOK
  <1>5. \A k \in DOMAIN results[r] :
            /\ results'[r][k].t1 = results[r][k].t1
            /\ results'[r][k].reply = IF k = i THEN q ELSE results[r][k].reply
    <2> HIDE DEF i
    <2> QED  BY <1>1, <1>2, <1>3 DEF Result
  <1>6. DOMAIN results'[r] = DOMAIN results[r]
    BY <1>2
  <1> QED  BY <1>4, <1>5, <1>6

\* A stream adds the request its message is about, to the program that takes
\* the message.
LEMMA DoneSources ==
    ASSUME TypeOK, NEW s \in Streams, HandleDone(s), NEW p \in Requests
    PROVE  /\ DOMAIN results'[p] = DOMAIN results[p]
           /\ \/ Sources(p)' \subseteq Sources(p)
              \/ /\ p = handling[s].program
                 /\ Sources(p)' \subseteq Sources(p) \cup {handling[s].job}
  <1>1. CASE results'[p] = results[p]
    BY <1>1 DEF Sources
  <1>2. CASE results'[p] # results[p]
    <2>1. /\ p = handling[s].program /\ DOMAIN results'[p] = DOMAIN results[p]
          /\ \A k \in DOMAIN results[p] :
                /\ results'[p][k].t1 \in {handling[s].job, results[p][k].t1}
                /\ results'[p][k].reply \in {handling[s].job, results[p][k].reply}
      BY <1>2, DoneFields
    <2>2. Sources(p)' \subseteq Sources(p) \cup {handling[s].job}
      BY <2>1, SourcesGrow
    <2> QED  BY <2>1, <2>2
  <1> QED  BY <1>1, <1>2

LEMMA ReplySources ==
    ASSUME TypeOK, NEW r \in Requests, NEW q \in Requests, NEW port, Accepts(r, port),
           HandleReply(r, q, port), NEW p \in Requests
    PROVE  /\ DOMAIN results'[p] = DOMAIN results[p]
           /\ Sources(p)' \subseteq IF p = r THEN Sources(p) \cup {q} ELSE Sources(p)
  <1>1. CASE p = r
    BY <1>1, ReplyFields, SourcesGrow
  <1>2. CASE p # r
    BY <1>2, ReplyFields DEF Sources
  <1> QED  BY <1>1, <1>2

LEMMA ProvenanceInvariant == Spec => []Provenance
  <1>1. Init => Provenance
    BY DEF Init, Provenance, Sources, Table
  <1>2. TypeOK /\ Provenance /\ [Next]_vars => Provenance'
    <2> SUFFICES ASSUME TypeOK, Provenance, [Next]_vars PROVE Provenance'
      OBVIOUS
    <2> USE DEF Provenance
    <2>1. ASSUME NEW r \in Requests, HandlerStep(r) PROVE Provenance'
      <3>1. jobs \subseteq jobs' /\ handling' = handling
        BY <2>1 DEF HandlerStep, Refuse, Allocate, ParseFails, CreateFails, Create, Register, SendJob,
                    SendJobFails, EnterSelect, TimerFires, Format, Unregister, Release, agentVars
      <3>2. \A p \in Requests : Sources(p)' \subseteq jobs'
        BY <2>1, <3>1, HandlerSources
      <3>3. ASSUME NEW p \in Requests, pc'[p] = "idle"
            PROVE  DOMAIN results'[p] = {} /\ p \notin jobs'
        <4>1. pc[p] = "idle" /\ p # r
          BY <2>1, <3>3 DEF TypeOK, Transition, HandlerStep, Refuse, Allocate, ParseFails, CreateFails,
                    Create, Register, SendJob, SendJobFails, EnterSelect, TimerFires, Format,
                    Unregister, Release
        <4>2. results'[p] = results[p]
          BY <2>1, <4>1 DEF TypeOK, HandlerStep, Refuse, Allocate, ParseFails, CreateFails, Create,
                    Register, SendJob, SendJobFails, EnterSelect, TimerFires, Format, Unregister,
                    Release, programVars
        <4>3. jobs' \subseteq jobs \cup {r}
          BY <2>1 DEF HandlerStep, Refuse, Allocate, ParseFails, CreateFails, Create, Register, SendJob,
                    SendJobFails, EnterSelect, TimerFires, Format, Unregister, Release, agentVars
        <4> QED  BY <4>1, <4>2, <4>3
      <3> QED  BY <3>1, <3>2, <3>3
    <2>2. ASSUME NEW s \in Streams, StreamStep(s) PROVE Provenance'
      <3>1. pc' = pc \/ \E r \in Requests : CheckDone(r)
        BY <2>2, StreamChecksDone
      <3>2. \A p \in Requests : pc'[p] = "idle" <=> pc[p] = "idle"
        BY <3>1 DEF CheckDone, TypeOK
      <3>3. jobs' = jobs
        BY <2>2 DEF StreamStep, LookupDone, HandleDone, ReceiveReply
      <3>4. ASSUME NEW p \in Requests
            PROVE  DOMAIN results'[p] = DOMAIN results[p] /\ Sources(p)' \subseteq jobs
        <4>1. CASE HandleDone(s)
          <5>1. handling[s].job \in jobs
            BY <4>1 DEF HandleDone
          <5> QED  BY <4>1, <5>1, DoneSources
        <4>2. ASSUME NEW q \in Requests, NEW k \in DOMAIN copies[q], ReceiveReply(s, q, k)
              PROVE  DOMAIN results'[p] = DOMAIN results[p] /\ Sources(p)' \subseteq jobs
          <5>1. q \in jobs
            BY <4>2 DEF ReceiveReply
          <5>2. CASE results' = results
            BY <5>2 DEF Sources
          <5>3. CASE \E r \in Requests : Accepts(r, ProbePort(q, k)) /\ HandleReply(r, q, ProbePort(q, k))
            BY <5>1, <5>3, ReplySources
          <5> QED  BY <4>2, <5>2, <5>3 DEF ReceiveReply, programVars
        <4>3. CASE \E q \in Requests : LookupDone(s, q)
          BY <4>3 DEF LookupDone, programVars, Sources
        <4> QED  BY <2>2, <4>1, <4>2, <4>3 DEF StreamStep
      <3>5. \A t \in Streams : handling'[t] # NoDone => handling'[t].job \in jobs
        <4>1. CASE HandleDone(s)
          BY <4>1 DEF HandleDone, TypeOK
        <4>2. CASE \E q \in Requests : LookupDone(s, q)
          BY <4>2 DEF LookupDone, TypeOK
        <4>3. CASE handling' = handling
          BY <4>3
        <4> QED  BY <2>2, <4>1, <4>2, <4>3 DEF StreamStep, ReceiveReply
      <3> QED  BY <3>2, <3>3, <3>4, <3>5
    <2>3. CASE UNCHANGED vars
      BY <2>3 DEF vars, programVars, agentVars, Sources
    <2> QED  BY <2>1, <2>2, <2>3 DEF Next, Quiescent
  <1> QED  BY <1>1, <1>2, TypeCorrect, PTL DEF Spec

\* Cut to 16 bits, an ID is still told from every other of a range that is no
\* longer than the ports.
LEMMA SameID ==
    ASSUME PortsFit, NEW x \in Nat, NEW y \in Nat, x < EndID, StartID <= y, y = x % PortCount
    PROVE  y = x
  BY RangeAssumption, SMT DEF PortsFit, PortCount

(***************************************************************************)
(* If every measurement fits its block, and the range fits the ports, a    *)
(* message can only reach a program whose block is that of the message,    *)
(* and two programs that run at the same time have different blocks.       *)
(***************************************************************************)
LEMMA PortIdentifiesBlock ==
    ASSUME ConfsFit, PortsFit, Ownership,
           NEW q \in jobs, NEW k \in DOMAIN copies[q],
           NEW r \in Requests, Accepts(r, ProbePort(q, k))
    PROVE  sid[q] = sid[r] /\ ProbePort(q, k) - sid[r] = k
  <1>1. q \in Requests /\ sid[q] \in Blocks
    BY DEF Ownership, TypeOK
  <1>2. sid[r] \in Blocks
    <2>1. PICK b \in Blocks : programs[b] = r
      BY DEF Accepts
    <2> QED  BY <2>1 DEF Ownership, ProgramsAreRunning
  <1>3. \A n \in ProbeCounts : n \in Nat /\ n <= BlockSize
    BY ConfsAssumption, RangeAssumption DEF ConfsFit, ProbeCounts, TotalProbes
  <1>4. ASSUME NEW p \in Requests PROVE \E n \in ProbeCounts : DOMAIN results[p] = 0 .. n - 1
    <2>1. results[p] \in Tables(Result)
      BY DEF Ownership, TypeOK
    <2> QED  BY <2>1 DEF Tables
  <1>5. k \in 0 .. BlockSize - 1
    <2>1. k \in DOMAIN results[q]
      BY <1>1 DEF Ownership, TypeOK
    <2> QED  BY <1>1, <1>3, <1>4, <2>1, RangeAssumption
  <1> DEFINE port == ProbePort(q, k)
  <1>6. port - sid[r] \in 0 .. BlockSize - 1
    <2>1. port - sid[r] \in DOMAIN results[r]
      BY DEF Accepts
    <2> QED  BY <1>3, <1>4, <2>1, RangeAssumption
  <1>7. /\ sid[q] \in Nat /\ sid[q] + BlockSize <= EndID
        /\ sid[r] \in Nat /\ StartID <= sid[r]
    BY <1>1, <1>2, BlockInRange
  <1>8. port \in Int /\ port = (sid[q] + k) % PortCount
    BY <1>5, <1>7, RangeAssumption, SMT DEF ProbePort, SeqToPort, PortCount
  <1> HIDE DEF port
  <1>9. sid[r] <= port /\ port < sid[r] + BlockSize
    BY <1>6, <1>7, <1>8, RangeAssumption
  <1>10. sid[q] <= sid[q] + k /\ sid[q] + k < sid[q] + BlockSize /\ sid[q] + k \in Nat
    BY <1>5, <1>7, RangeAssumption
  <1>11. port = sid[q] + k
    <2>1. port \in Nat /\ StartID <= port /\ sid[q] + k < EndID
      BY <1>7, <1>8, <1>9, <1>10, RangeAssumption
    <2> QED  BY <1>8, <1>10, <2>1, SameID
  <1>12. sid[q] + k \in IDsOf(sid[q]) \cap IDsOf(sid[r])
    BY <1>7, <1>9, <1>10, <1>11, RangeAssumption DEF IDsOf
  <1>13. sid[q] = sid[r]
    BY <1>1, <1>2, <1>12, BlocksDisjoint
  <1>14. port - sid[r] = k
    BY <1>5, <1>7, <1>11, <1>13
  <1> QED  BY <1>13, <1>14 DEF port

\* Two measurements that run at the same time never mix, provided that users
\* ask for no more probes than a block has IDs, and that the range has no more
\* IDs than there are ports.
THEOREM MeasurementsNeverMix ==
    ASSUME ConfsFit, PortsFit
    PROVE  Spec => []NoMixing
  <1>1. Init => NoMixing
    BY DEF Init, NoMixing, Sources, Table
  <1>2. Ownership /\ Ownership' /\ Provenance /\ NoMixing /\ [Next]_vars => NoMixing'
    <2> SUFFICES ASSUME Ownership, Ownership', Provenance, NoMixing, [Next]_vars
                 PROVE  NoMixing'
      OBVIOUS
    <2>1. ASSUME NEW r \in Requests, HandlerStep(r) PROVE NoMixing'
      <3>1. CASE Allocate(r)
        <4>1. /\ pc[r] = "idle" /\ Sources(r) = {} /\ r \notin jobs
          BY <3>1 DEF Allocate, Transition, Provenance, Sources
        <4>2. \A q \in Requests \ {r} : /\ sid'[q] = sid[q]
                                        /\ q \in Holders' <=> q \in Holders
          BY <3>1 DEF Allocate, Transition, Ownership, TypeOK, Holders
        <4>3. \A p \in Requests : Sources(p)' = Sources(p)
          BY <3>1 DEF Allocate, programVars, Sources
        <4>4. \A p \in Requests : Sources(p) \subseteq Requests \ {r}
          BY <4>1 DEF Provenance, Ownership, TypeOK
        <4> QED  BY <4>1, <4>2, <4>3, <4>4 DEF NoMixing
      <3>2. CASE ~Allocate(r)
        <4>1. sid' = sid
          BY <2>1, <3>2 DEF HandlerStep, Refuse, ParseFails, CreateFails, Create, Register, SendJob,
                    SendJobFails, EnterSelect, TimerFires, Format, Unregister, Release, handlerVars
        <4>2. Holders' \subseteq Holders
          BY <2>1, <3>2 DEF HandlerStep, Refuse, ParseFails, CreateFails, Create, Register, SendJob,
                    SendJobFails, EnterSelect, TimerFires, Format, Unregister, Release, Transition,
                    Holders, Holding, Registered, Ownership, TypeOK
        <4>3. \A p \in Requests : Sources(p)' \subseteq Sources(p)
          BY <2>1, HandlerSources DEF Ownership
        <4> QED  BY <4>1, <4>2, <4>3 DEF NoMixing
      <3> QED  BY <3>1, <3>2
    <2>2. ASSUME NEW s \in Streams, StreamStep(s) PROVE NoMixing'
      <3>1. sid' = sid
        BY <2>2 DEF StreamStep, LookupDone, HandleDone, ReceiveReply, handlerVars
      <3>2. Holders' = Holders
        <4>1. pc' = pc \/ \E r \in Requests : CheckDone(r)
          BY <2>2, StreamChecksDone DEF Ownership
        <4> QED  BY <4>1, CheckDonePhases DEF Ownership, Holders
      <3>3. ASSUME NEW p \in Requests, NEW x \in Sources(p)', x # p, x \notin Sources(p)
            PROVE  x \in Requests /\ sid[x] = sid[p]
        <4>1. CASE HandleDone(s)
          <5>1. p = handling[s].program /\ x = handling[s].job
            BY <3>3, <4>1, DoneSources DEF Ownership
          <5> QED  BY <4>1, <5>1 DEF HandleDone, Ownership, TypeOK
        <4>2. ASSUME NEW q \in Requests, NEW k \in DOMAIN copies[q], ReceiveReply(s, q, k)
              PROVE  x \in Requests /\ sid[x] = sid[p]
          <5>1. q \in jobs
            BY <4>2 DEF ReceiveReply
          <5>2. CASE results' = results
            BY <3>3, <5>2 DEF Sources
          <5>3. ASSUME NEW r \in Requests, Accepts(r, ProbePort(q, k)),
                       HandleReply(r, q, ProbePort(q, k))
                PROVE  x \in Requests /\ sid[x] = sid[p]
            <6>1. p = r /\ x = q
              BY <3>3, <5>3, ReplySources DEF Ownership
            <6> QED  BY <5>1, <5>3, <6>1, PortIdentifiesBlock
          <5> QED  BY <4>2, <5>2, <5>3 DEF ReceiveReply, programVars
        <4>3. CASE \E q \in Requests : LookupDone(s, q)
          BY <3>3, <4>3 DEF LookupDone, programVars, Sources
        <4> QED  BY <2>2, <4>1, <4>2, <4>3 DEF StreamStep
      <3>4. ASSUME NEW p \in Requests, NEW x \in Sources(p)', x # p
            PROVE  sid[x] = sid[p] /\ ~(x \in Holders /\ p \in Holders)
        <4>1. CASE x \in Sources(p)
          BY <3>4, <4>1 DEF NoMixing
        <4>2. CASE x \notin Sources(p)
          BY <3>3, <3>4, <4>2 DEF Ownership, BlocksHeldOnce
        <4> QED  BY <4>1, <4>2
      <3> QED  BY <3>1, <3>2, <3>4 DEF NoMixing
    <2>3. CASE UNCHANGED vars
      BY <2>3 DEF vars, handlerVars, programVars, NoMixing, Sources, Holders
    <2> QED  BY <2>1, <2>2, <2>3 DEF Next, Quiescent
  <1> QED  BY <1>1, <1>2, OwnershipInvariant, ProvenanceInvariant, PTL DEF Spec
-----------------------------------------------------------------------------
\* A handler that is over stays so, and the steps of a handler bring no message to
\* any program.
LEMMA HandlerKeepsDirection ==
    ASSUME TypeOK, OnlyFormerOwners, NEW r \in Requests, HandlerStep(r)
    PROVE  OnlyFormerOwners'
  <1>1. handling' = handling
    BY DEF HandlerStep, Refuse, Allocate, ParseFails, CreateFails, Create, Register, SendJob,
           SendJobFails, EnterSelect, TimerFires, Format, Unregister, Release, agentVars
  <1>2. \A p \in Requests : pc[p] = "answered" => pc'[p] = "answered"
    BY DEF TypeOK, Transition, HandlerStep, Refuse, Allocate, ParseFails, CreateFails, Create, Register,
           SendJob, SendJobFails, EnterSelect, TimerFires, Format, Unregister, Release
  <1>3. \A p \in Requests : Sources(p)' \subseteq Sources(p) /\ Sources(p) \subseteq Requests
    BY HandlerSources DEF Sources
  <1>4. \A s \in Streams : handling[s] # NoDone => handling[s].job \in Requests
    BY DEF TypeOK
  <1> QED  BY <1>1, <1>2, <1>3, <1>4 DEF OnlyFormerOwners

\* A job that ran in the block of a registered program, and is not its own, belongs
\* to a request that has been answered.
LEMMA FormerOwner ==
    ASSUME Ownership, Provenance, NEW q \in jobs, NEW r \in Requests, q # r,
           sid[q] = sid[r], pc[r] \in Registered
    PROVE  pc[q] = "answered"
  <1>1. q \in Requests /\ pc[q] # "idle" /\ pc[q] \in Phases
    BY DEF Ownership, TypeOK, Provenance
  <1>2. r \in Holders
    BY DEF Holders, Holding
  <1>3. q \notin Holders
    BY <1>1, <1>2 DEF Ownership, BlocksHeldOnce
  <1> QED  BY <1>1, <1>3 DEF Holders, Phases

LEMMA StreamKeepsDirection ==
    ASSUME ConfsFit, PortsFit, Ownership, Provenance, OnlyFormerOwners,
           NEW s \in Streams, StreamStep(s)
    PROVE  OnlyFormerOwners'
  <1>1. \A p \in Requests : pc[p] = "answered" => pc'[p] = "answered"
    <2>1. pc' = pc \/ \E r \in Requests : CheckDone(r)
      BY StreamChecksDone DEF Ownership
    <2> QED  BY <2>1 DEF CheckDone, Ownership, TypeOK
  <1>2. ASSUME NEW p \in Requests, NEW x \in Sources(p)', x # p, x \notin Sources(p)
        PROVE  pc[x] = "answered"
    <2>1. CASE HandleDone(s)
      <3>1. p = handling[s].program /\ x = handling[s].job
        BY <1>2, <2>1, DoneSources DEF Ownership
      <3> QED  BY <1>2, <2>1, <3>1 DEF HandleDone, OnlyFormerOwners
    <2>2. ASSUME NEW q \in Requests, NEW k \in DOMAIN copies[q], ReceiveReply(s, q, k)
          PROVE  pc[x] = "answered"
      <3>1. q \in jobs
        BY <2>2 DEF ReceiveReply
      <3>2. CASE results' = results
        BY <1>2, <3>2 DEF Sources
      <3>3. ASSUME NEW r \in Requests, Accepts(r, ProbePort(q, k)),
                   HandleReply(r, q, ProbePort(q, k))
            PROVE  pc[x] = "answered"
        <4>1. p = r /\ x = q
          BY <1>2, <3>3, ReplySources DEF Ownership
        <4>2. sid[q] = sid[r]
          BY <3>1, <3>3, PortIdentifiesBlock
        <4>3. pc[r] \in Registered
          BY <3>3 DEF Accepts, Ownership, ProgramsAreRunning
        <4> QED  BY <1>2, <3>1, <4>1, <4>2, <4>3, FormerOwner
      <3> QED  BY <2>2, <3>2, <3>3 DEF ReceiveReply, programVars
    <2>3. CASE \E q \in Requests : LookupDone(s, q)
      BY <1>2, <2>3 DEF LookupDone, programVars, Sources
    <2> QED  BY <2>1, <2>2, <2>3 DEF StreamStep
  <1>3. ASSUME NEW t \in Streams, handling'[t] # NoDone, handling'[t] # handling[t]
        PROVE  /\ handling'[t].job \in Requests
               /\ handling'[t].job = handling'[t].program \/ pc[handling'[t].job] = "answered"
    <2>1. PICK q \in Requests : LookupDone(s, q)
      BY <1>3 DEF StreamStep, HandleDone, ReceiveReply, Ownership, TypeOK
    <2>2. q \in jobs /\ sid[q] \in Blocks
      BY <2>1 DEF LookupDone, Ownership, TypeOK
    <2> DEFINE r == programs[sid[q]]
    <2>3. r # NoRequest /\ handling'[t] = [job |-> q, program |-> r]
      BY <1>3, <2>1 DEF LookupDone, Ownership, TypeOK
    <2>4. r \in Requests
      BY <2>2, <2>3 DEF Ownership, TypeOK
    <2>5. pc[r] \in Registered /\ sid[r] = sid[q]
      BY <2>2, <2>4 DEF Ownership, ProgramsAreRunning
    <2> HIDE DEF r
    <2> QED  BY <2>2, <2>3, <2>4, <2>5, FormerOwner
  <1>4. \A p \in Requests : Sources(p)' \subseteq Requests
    BY DEF Sources
  <1>5. \A t \in Streams : handling'[t] # NoDone => handling'[t].job \in Requests
    BY <1>3 DEF Ownership, TypeOK
  <1>6. ASSUME NEW p \in Requests, NEW x \in Sources(p)', x # p PROVE pc'[x] = "answered"
    <2>1. pc[x] = "answered"
      BY <1>2, <1>6 DEF OnlyFormerOwners
    <2> QED  BY <1>1, <1>4, <1>6, <2>1
  <1>7. ASSUME NEW t \in Streams, handling'[t] # NoDone
        PROVE  handling'[t].job = handling'[t].program \/ pc'[handling'[t].job] = "answered"
    <2>1. handling'[t].job = handling'[t].program \/ pc[handling'[t].job] = "answered"
      BY <1>3, <1>7 DEF OnlyFormerOwners
    <2> QED  BY <1>1, <1>5, <1>7, <2>1
  <1> QED  BY <1>6, <1>7 DEF OnlyFormerOwners

(***************************************************************************)
(* Under the assumptions of MeasurementsNeverMix, what a program gets from *)
(* another request is from one that had its block before and has been      *)
(* answered. What is about a later owner of a block never reaches an       *)
(* earlier one, though a stream may still hold the earlier one's program.  *)
(***************************************************************************)
THEOREM NothingFlowsBack ==
    ASSUME ConfsFit, PortsFit
    PROVE  Spec => []OnlyFormerOwners
  <1>1. Init => OnlyFormerOwners
    BY DEF Init, OnlyFormerOwners, Sources, Table
  <1>2. Ownership /\ Provenance /\ OnlyFormerOwners /\ [Next]_vars => OnlyFormerOwners'
    <2> SUFFICES ASSUME Ownership, Provenance, OnlyFormerOwners, [Next]_vars
                 PROVE  OnlyFormerOwners'
      OBVIOUS
    <2>1. CASE UNCHANGED vars
      BY <2>1 DEF vars, programVars, agentVars, OnlyFormerOwners, Sources
    <2> QED
      BY <2>1, HandlerKeepsDirection, StreamKeepsDirection DEF Next, Quiescent, Ownership
  <1> QED  BY <1>1, <1>2, OwnershipInvariant, ProvenanceInvariant, PTL DEF Spec
-----------------------------------------------------------------------------
(***************************************************************************)
(* If every measurement fits its block, no ID is taken by two programs:    *)
(* the one condition that nothing in NewTraceroute makes sure of.          *)
(***************************************************************************)
THEOREM IDsIdentifyPrograms ==
    ASSUME ConfsFit
    PROVE  Spec => []OneProgramPerID
  <1>1. Ownership => OneProgramPerID
    <2> SUFFICES ASSUME Ownership, NEW q \in Requests, NEW r \in Requests,
                        NEW k \in DOMAIN results[q],
                        Accepts(q, SeqToPort(q, k)), Accepts(r, SeqToPort(q, k)), q # r
                 PROVE  FALSE
      BY DEF OneProgramPerID
    <2> DEFINE id == SeqToPort(q, k)
    <2>1. \A p \in {q, r} : pc[p] \in Registered /\ sid[p] \in Blocks
      BY DEF Accepts, Ownership, ProgramsAreRunning
    <2>2. \A n \in ProbeCounts : n \in Nat /\ n <= BlockSize
      BY ConfsAssumption, RangeAssumption DEF ConfsFit, ProbeCounts, TotalProbes
    <2>3. ASSUME NEW p \in {q, r} PROVE id - sid[p] \in 0 .. BlockSize - 1
      <3>1. results[p] \in Tables(Result)
        BY DEF Ownership, TypeOK
      <3>2. PICK n \in ProbeCounts : DOMAIN results[p] = 0 .. n - 1
        BY <3>1 DEF Tables
      <3>3. id - sid[p] \in DOMAIN results[p]
        BY DEF Accepts
      <3> QED  BY <2>2, <3>2, <3>3, RangeAssumption
    <2>4. sid[q] \in Nat /\ sid[r] \in Nat
      BY <2>1, BlockInRange
    <2>5. k \in Int
      <3>1. results[q] \in Tables(Result)
        BY DEF Ownership, TypeOK
      <3>2. PICK n \in ProbeCounts : DOMAIN results[q] = 0 .. n - 1
        BY <3>1 DEF Tables
      <3> QED  BY <2>2, <3>2
    <2>6. id \in Int
      BY <2>4, <2>5 DEF SeqToPort
    <2> HIDE DEF id
    <2>7. id \in IDsOf(sid[q]) \cap IDsOf(sid[r])
      BY <2>3, <2>4, <2>6, RangeAssumption DEF IDsOf
    <2>8. sid[q] = sid[r]
      BY <2>1, <2>7, BlocksDisjoint
    <2> QED  BY <2>1, <2>8 DEF Ownership, BlocksHeldOnce, Holders, Holding
  <1> QED  BY <1>1, OwnershipInvariant, PTL
-----------------------------------------------------------------------------
(***************************************************************************)
(* As long as no other job ran under its session, a program hears nothing  *)
(* but the replies to its own probes, whatever the other programs do.      *)
(***************************************************************************)
THEOREM RepliesReachTheirOwner ==
    ASSUME ConfsFit, PortsFit
    PROVE  Spec => []RepliesToOwner
  <1>1. TypeOK /\ Provenance /\ NoMixing => RepliesToOwner
    <2> SUFFICES ASSUME TypeOK, Provenance, NoMixing,
                        NEW r \in Requests, OnFreshBlock(r), NEW k \in DOMAIN results[r]
                 PROVE  results[r][k].reply \in {r, NoRequest}
      BY DEF RepliesToOwner
    <2> DEFINE q == results[r][k].reply
    <2>1. q \in Requests \cup {NoRequest}
      <3>1. results[r] \in Tables(Result)
        BY DEF TypeOK
      <3>2. results[r][k] \in Result
        BY <3>1 DEF Tables
      <3> QED  BY <3>2 DEF Result
    <2>2. ASSUME q \in Requests, q # r PROVE FALSE
      <3>1. q \in Sources(r)
        BY <2>2 DEF Sources
      <3>2. q \in jobs /\ sid[q] = sid[r]
        BY <2>2, <3>1 DEF Provenance, NoMixing
      <3> QED  BY <2>2, <3>2 DEF OnFreshBlock
    <2> QED  BY <2>1, <2>2
  <1> QED  BY <1>1, TypeCorrect, ProvenanceInvariant, MeasurementsNeverMix, PTL
-----------------------------------------------------------------------------
(***************************************************************************)
(* The count of a program. waitingResults is the number of probes without  *)
(* an answer only as long as a probe is answered once, and by its owner:   *)
(* the code counts replies, not probes.                                    *)
(***************************************************************************)
Missing(r) == { k \in DOMAIN results[r] : results[r][k].reply = NoRequest }

CountExact(r) ==
    /\ waitingResults[r] = Cardinality(Missing(r))
    /\ pc[r] = "finished" => waitingResults[r] = 0
    /\ \A k \in DOMAIN results[r] \ Missing(r) : copies[r][k] >= 1

Bookkeeping ==
    \A r \in Requests :
        /\ pc[r] = "idle" => waitingResults[r] = 0
        /\ pc[r] = "finished" => receivedDone[r]
        /\ OnFreshBlock(r) => CountExact(r)

\* A table is finite, and so is what is missing in it.
LEMMA MissingFinite ==
    ASSUME TypeOK, NEW r \in Requests
    PROVE  /\ IsFiniteSet(Missing(r)) /\ Cardinality(Missing(r)) \in Nat
           /\ Cardinality(Missing(r)) = 0 <=> Missing(r) = {}
  <1>1. PICK n \in ProbeCounts : DOMAIN results[r] = 0 .. n - 1
    BY DEF TypeOK, Tables
  <1>2. n \in Int
    BY ConfsAssumption DEF ProbeCounts, TotalProbes
  <1>3. IsFiniteSet(DOMAIN results[r])
    BY <1>1, <1>2, FS_Interval
  <1>4. IsFiniteSet(Missing(r))
    BY <1>3, FS_Subset DEF Missing
  <1> QED  BY <1>4, FS_CardinalityType, FS_EmptySet

\* A session that is fresh after a step was fresh before it, but for the handler
\* that has just been given it.
LEMMA FreshBefore ==
    ASSUME Ownership, Provenance, [Next]_vars, NEW r \in Requests, OnFreshBlock(r)'
    PROVE  OnFreshBlock(r) \/ Allocate(r)
  <1>1. jobs \subseteq jobs'
    BY DEF Next, HandlerStep, Refuse, Allocate, ParseFails, CreateFails, Create, Register, SendJob,
           SendJobFails, EnterSelect, TimerFires, Format, Unregister, Release, StreamStep,
           LookupDone, HandleDone, ReceiveReply, Quiescent, vars, agentVars
  <1>2. \A p \in Requests : sid'[p] = sid[p] \/ Allocate(p)
    <2>1. sid' = sid \/ \E p \in Requests : Allocate(p)
      BY DEF Next, HandlerStep, Refuse, ParseFails, CreateFails, Create, Register, SendJob,
             SendJobFails, EnterSelect, TimerFires, Format, Unregister, Release, StreamStep,
             LookupDone, HandleDone, ReceiveReply, Quiescent, vars, handlerVars
    <2> QED  BY <2>1 DEF Allocate, Ownership, TypeOK
  <1>3. \A p \in jobs : p \in Requests /\ ~Allocate(p)
    BY DEF Allocate, Transition, Provenance, Ownership, TypeOK
  <1> QED  BY <1>1, <1>2, <1>3 DEF OnFreshBlock

\* A handler's own steps: only Create and Allocate concern the count.
LEMMA HandlerCounts ==
    ASSUME Ownership, Provenance, Bookkeeping, NEW r \in Requests, HandlerStep(r)
    PROVE  Bookkeeping'
  <1> SUFFICES ASSUME NEW p \in Requests
               PROVE  /\ pc'[p] = "idle" => waitingResults'[p] = 0
                      /\ pc'[p] = "finished" => receivedDone'[p]
                      /\ OnFreshBlock(p)' => CountExact(p)'
    BY DEF Bookkeeping
  <1>1. /\ receivedDone' = receivedDone
        /\ pc'[p] = IF p = r THEN pc'[r] ELSE pc[p]
        /\ pc'[r] \notin {"idle", "finished"}
    BY DEF Ownership, TypeOK, Transition, HandlerStep, Refuse, Allocate, ParseFails, CreateFails,
           Create, Register, SendJob, SendJobFails, EnterSelect, TimerFires, Format, Unregister,
           Release, programVars
  <1>2. OnFreshBlock(p)' => OnFreshBlock(p) \/ (p = r /\ Allocate(r))
    <2>1. OnFreshBlock(p)' => OnFreshBlock(p) \/ Allocate(p)
      BY FreshBefore DEF Next
    <2>2. ASSUME Allocate(p) PROVE p = r
      <3>1. pc[p] = "idle" /\ pc'[p] # "idle"
        BY <2>2 DEF Allocate, Transition, Ownership, TypeOK
      <3> QED  BY <1>1, <3>1
    <2> QED  BY <2>1, <2>2
  <1>3. CASE p = r /\ Create(r)
    <2>1. PICK n \in ProbeCounts :
             /\ results' = [results EXCEPT ![r] = Table(n, EmptyResult)]
             /\ waitingResults' = [waitingResults EXCEPT ![r] = n]
      BY <1>3 DEF Create, ProbeCounts
    <2>2. results'[r] = Table(n, EmptyResult) /\ waitingResults'[r] = n
      BY <2>1 DEF Ownership, TypeOK
    <2>3. Missing(r)' = 0 .. n - 1
      BY <2>2 DEF Missing, Table, EmptyResult
    <2>4. n \in Nat /\ Cardinality(0 .. n - 1) = n
      <3>1. n \in Nat
        BY ConfsAssumption DEF ProbeCounts, TotalProbes
      <3> QED  BY <3>1, FS_Interval
    <2>5. DOMAIN results'[r] = 0 .. n - 1
      BY <2>2 DEF Table
    <2> QED  BY <1>1, <1>3, <2>2, <2>3, <2>4, <2>5 DEF CountExact
  <1>4. CASE ~(p = r /\ Create(r))
    <2>1. /\ results'[p] = results[p] /\ waitingResults'[p] = waitingResults[p]
          /\ copies'[p] = copies[p]
      BY <1>4 DEF Ownership, TypeOK, HandlerStep, Refuse, Allocate, ParseFails, CreateFails, Create,
                  Register, SendJob, SendJobFails, EnterSelect, TimerFires, Format, Unregister,
                  Release, programVars, agentVars
    <2>2. Missing(p)' = Missing(p)
      BY <2>1 DEF Missing
    <2>3. CASE p = r /\ Allocate(r)
      <3>1. DOMAIN results[r] = {} /\ waitingResults[r] = 0
        BY <2>3 DEF Allocate, Transition, Provenance, Bookkeeping
      <3>2. Missing(r) = {}
        BY <3>1 DEF Missing
      <3> QED  BY <1>1, <2>1, <2>2, <2>3, <3>1, <3>2, FS_EmptySet DEF CountExact
    <2>4. CASE ~(p = r /\ Allocate(r))
      BY <1>1, <1>2, <2>1, <2>2, <2>4 DEF CountExact, Bookkeeping
    <2> QED  BY <2>3, <2>4
  <1> QED  BY <1>3, <1>4

\* A Reply to a program with a session of its own: the probe had no answer yet.
LEMMA ReplyCounts ==
    ASSUME ConfsFit, PortsFit, MaxCopies <= 1, Ownership, NEW q \in jobs,
           NEW k \in DOMAIN copies[q], copies[q][k] < MaxCopies,
           copies' = [copies EXCEPT ![q][k] = @ + 1],
           NEW r \in Requests, Accepts(r, ProbePort(q, k)), HandleReply(r, q, ProbePort(q, k)),
           OnFreshBlock(r), CountExact(r)
    PROVE  CountExact(r)'
  <1>1. q \in Requests /\ TypeOK
    BY DEF Ownership, TypeOK
  <1>2. q = r /\ ProbePort(q, k) - sid[r] = k
    BY PortIdentifiesBlock DEF OnFreshBlock
  <1>3. /\ DOMAIN results'[r] = DOMAIN results[r] /\ k \in DOMAIN results[r]
        /\ \A i \in DOMAIN results[r] :
              results'[r][i].reply = IF i = k THEN r ELSE results[r][i].reply
    BY <1>1, <1>2, ReplyFields DEF TypeOK
  <1>4. copies[r] \in Tables(0 .. MaxCopies)
    BY DEF Ownership, TypeOK
  <1>5. \A i \in DOMAIN copies[r] : copies[r][i] \in 0 .. MaxCopies
    BY <1>4 DEF Tables
  <1>6. copies[r][k] = 0
    BY <1>2, <1>5, ConfsAssumption
  <1>7. /\ DOMAIN copies[r] = DOMAIN results[r]
        /\ \A i \in DOMAIN copies[r] : copies'[r][i] = IF i = k THEN 1 ELSE copies[r][i]
    BY <1>2, <1>6 DEF Ownership, TypeOK
  <1>8. k \in Missing(r)
    BY <1>3, <1>6 DEF CountExact
  <1>9. Missing(r)' = Missing(r) \ {k}
    BY <1>3, SentinelAssumption DEF Missing
  <1>10. waitingResults'[r] = waitingResults[r] - 1
    BY <1>1 DEF HandleReply, TypeOK
  <1>11. waitingResults'[r] = Cardinality(Missing(r)')
    BY <1>1, <1>8, <1>9, <1>10, MissingFinite, FS_RemoveElement DEF CountExact
  <1>12. pc'[r] = "finished" => waitingResults'[r] = 0
    <2>1. Cardinality(Missing(r)) # 0
      BY <1>1, <1>8, MissingFinite
    <2>2. pc[r] # "finished"
      BY <2>1 DEF CountExact
    <2> QED  BY <1>1, <2>2 DEF HandleReply, CheckDone, TypeOK
  <1>13. \A i \in DOMAIN results'[r] \ Missing(r)' : copies'[r][i] >= 1
    BY <1>3, <1>7, <1>9 DEF CountExact
  <1> QED  BY <1>11, <1>12, <1>13 DEF CountExact

\* Messages. Whatever reaches other programs, and whichever copies get lost.
LEMMA StreamCounts ==
    ASSUME ConfsFit, PortsFit, MaxCopies <= 1, Ownership, Provenance, Bookkeeping,
           NEW s \in Streams, StreamStep(s)
    PROVE  Bookkeeping'
  <1> SUFFICES ASSUME NEW p \in Requests
               PROVE  /\ pc'[p] = "idle" => waitingResults'[p] = 0
                      /\ pc'[p] = "finished" => receivedDone'[p]
                      /\ OnFreshBlock(p)' => CountExact(p)'
    BY DEF Bookkeeping
  <1>0. TypeOK /\ UNCHANGED <<sid, jobs>> /\ (OnFreshBlock(p)' <=> OnFreshBlock(p))
    BY DEF StreamStep, LookupDone, HandleDone, ReceiveReply, handlerVars, Ownership, OnFreshBlock
  <1>1. ASSUME NEW q \in Requests, LookupDone(s, q)
        PROVE  /\ pc'[p] = "idle" => waitingResults'[p] = 0
               /\ pc'[p] = "finished" => receivedDone'[p]
               /\ OnFreshBlock(p)' => CountExact(p)'
    BY <1>0, <1>1 DEF LookupDone, programVars, Bookkeeping, CountExact, Missing
  <1>2. CASE HandleDone(s)
    <2> DEFINE r == handling[s].program
    <2>1. /\ r \in Requests /\ UNCHANGED <<waitingResults, copies>>
          /\ receivedDone' = [receivedDone EXCEPT ![r] = TRUE]
          /\ CheckDone(r)
      BY <1>0, <1>2 DEF HandleDone, TypeOK
    <2> HIDE DEF r
    <2>2. /\ receivedDone[p] => receivedDone'[p]
          /\ pc'[p] = "idle" => pc[p] = "idle"
          /\ pc'[p] = "finished" =>
                pc[p] = "finished" \/ (receivedDone'[p] /\ waitingResults'[p] = 0)
      BY <1>0, <2>1 DEF CheckDone, TypeOK
    <2>3. /\ DOMAIN results'[p] = DOMAIN results[p]
          /\ \A k \in DOMAIN results[p] : results'[p][k].reply = results[p][k].reply
      BY <1>0, <1>2, DoneFields
    <2>4. Missing(p)' = Missing(p)
      BY <2>3 DEF Missing
    <2> QED  BY <1>0, <2>1, <2>2, <2>3, <2>4 DEF Bookkeeping, CountExact
  <1>3. ASSUME NEW q \in Requests, NEW k \in DOMAIN copies[q], ReceiveReply(s, q, k)
        PROVE  /\ pc'[p] = "idle" => waitingResults'[p] = 0
               /\ pc'[p] = "finished" => receivedDone'[p]
               /\ OnFreshBlock(p)' => CountExact(p)'
    <2> DEFINE port == ProbePort(q, k)
    <2>1. /\ q \in jobs /\ copies[q][k] < MaxCopies
          /\ copies' = [copies EXCEPT ![q][k] = @ + 1]
      BY <1>3 DEF ReceiveReply
    <2>2. \A i \in DOMAIN copies[p] : copies[p][i] >= 1 => copies'[p][i] >= 1
      <3>1. copies[p] \in Tables(0 .. MaxCopies)
        BY <1>0 DEF TypeOK
      <3>2. \A i \in DOMAIN copies[p] : copies[p][i] \in 0 .. MaxCopies
        BY <3>1 DEF Tables
      <3> QED  BY <1>0, <2>1, <3>2, ConfsAssumption DEF TypeOK
    <2>3. DOMAIN copies[p] = DOMAIN results[p]
      BY <1>0 DEF TypeOK
    <2>4. ASSUME results'[p] = results[p], waitingResults'[p] = waitingResults[p],
                 receivedDone'[p] = receivedDone[p], pc'[p] = pc[p]
          PROVE  /\ pc'[p] = "idle" => waitingResults'[p] = 0
                 /\ pc'[p] = "finished" => receivedDone'[p]
                 /\ OnFreshBlock(p)' => CountExact(p)'
      <3>1. Missing(p)' = Missing(p)
        BY <2>4 DEF Missing
      <3> QED  BY <1>0, <2>2, <2>3, <2>4, <3>1 DEF Bookkeeping, CountExact
    <2>5. CASE UNCHANGED <<pc, programVars>>
      BY <2>4, <2>5 DEF programVars
    <2>6. ASSUME NEW r \in Requests, Accepts(r, port), HandleReply(r, q, port)
          PROVE  /\ pc'[p] = "idle" => waitingResults'[p] = 0
                 /\ pc'[p] = "finished" => receivedDone'[p]
                 /\ OnFreshBlock(p)' => CountExact(p)'
      <3>1. /\ receivedDone' = receivedDone /\ CheckDone(r)
            /\ waitingResults' = [waitingResults EXCEPT ![r] = @ - 1]
        BY <2>6 DEF HandleReply
      <3>2. CASE p # r
        <4>1. results'[p] = results[p] /\ waitingResults'[p] = waitingResults[p] /\ pc'[p] = pc[p]
          BY <1>0, <2>6, <3>1, <3>2, ReplyFields DEF CheckDone, TypeOK
        <4> QED  BY <2>4, <3>1, <4>1
      <3>3. CASE p = r
        <4>1. pc[r] \in Registered
          BY <2>6 DEF Accepts, Ownership, ProgramsAreRunning
        <4>2. pc'[r] # "idle" /\ (pc'[r] = "finished" => receivedDone'[r])
          BY <1>0, <3>1, <4>1 DEF CheckDone, TypeOK, Registered, Bookkeeping
        <4>3. OnFreshBlock(r)' => CountExact(r)'
          BY <1>0, <2>1, <2>6, <3>3, ReplyCounts DEF Bookkeeping
        <4> QED  BY <3>3, <4>2, <4>3
      <3> QED  BY <3>2, <3>3
    <2> QED  BY <1>3, <2>5, <2>6 DEF ReceiveReply
  <1> QED  BY <1>1, <1>2, <1>3 DEF StreamStep

\* A run that ends before its timer has the Done of an agent; and when no reply is
\* delivered twice and no other job ran under its session, it has the answers to
\* all of its probes: checkDone sees waitingResults at zero no sooner.
THEOREM FinishedRunsAreComplete ==
    ASSUME ConfsFit, PortsFit, MaxCopies <= 1
    PROVE  Spec => []FinishedIsComplete
  <1>1. Init => Bookkeeping
    <2> SUFFICES ASSUME Init, NEW r \in Requests
                 PROVE  pc[r] = "idle" /\ waitingResults[r] = 0 /\ CountExact(r)
      BY DEF Bookkeeping
    <2>1. Missing(r) = {} /\ DOMAIN results[r] = {}
      BY DEF Init, Missing, Table
    <2> QED  BY <2>1, FS_EmptySet DEF Init, CountExact
  <1>2. Ownership /\ Provenance /\ Bookkeeping /\ [Next]_vars => Bookkeeping'
    <2> SUFFICES ASSUME Ownership, Provenance, Bookkeeping, [Next]_vars PROVE Bookkeeping'
      OBVIOUS
    <2>1. CASE UNCHANGED vars
      BY <2>1 DEF vars, handlerVars, programVars, agentVars, Bookkeeping, CountExact, Missing,
                  OnFreshBlock
    <2> QED  BY <2>1, HandlerCounts, StreamCounts DEF Next, Quiescent
  <1>3. Ownership /\ Bookkeeping => FinishedIsComplete
    <2> SUFFICES ASSUME Ownership, Bookkeeping, NEW r \in Requests, pc[r] = "finished"
                 PROVE  receivedDone[r] /\ (OnFreshBlock(r) => Missing(r) = {})
      BY DEF FinishedIsComplete, Missing
    <2> QED  BY MissingFinite DEF Bookkeeping, CountExact, Ownership
  <1> QED  BY <1>1, <1>2, <1>3, OwnershipInvariant, ProvenanceInvariant, PTL DEF Spec
-----------------------------------------------------------------------------
(***************************************************************************)
(* The first lap of the allocator. The search for a block goes on from     *)
(* the last one handed out, also past blocks that were given back since,   *)
(* so that no block is handed out again before each was handed out once.   *)
(***************************************************************************)
Given == { r \in Requests : sid[r] # NoBlock }

FirstLap ==
    /\ \A r \in Requests : pc[r] = "idle" => sid[r] = NoBlock
    /\ \A q, r \in Given : sid[q] = sid[r] => q = r
    /\ { sid[r] : r \in Given } = { BlockID(i) : i \in 0 .. Cardinality(Given) - 1 }
    /\ Cardinality(Given) < MaxBlocks => nextSessionID = BlockID(Cardinality(Given))

\* Distinct numbers are distinct blocks, in the order of the range.
LEMMA BlockOrder ==
    ASSUME NEW i \in Nat, NEW j \in Nat, i < j
    PROVE  BlockID(i) \in Nat /\ BlockID(j) \in Nat /\ BlockID(i) < BlockID(j)
  <1>1. (i + 1) * BlockSize <= j * BlockSize
    BY TimesMonotonic
  <1>2. /\ (i + 1) * BlockSize = i * BlockSize + BlockSize
        /\ i * BlockSize \in Nat /\ j * BlockSize \in Nat
    BY RangeAssumption
  <1> QED  BY <1>1, <1>2, RangeAssumption DEF BlockID

\* A free block at which the search starts is the one that is handed out.
LEMMA SearchFindsCursor ==
    ASSUME NEW b, AllocateSessionID(b), nextSessionID \in Free
    PROVE  b = nextSessionID
  <1> SUFFICES ASSUME b # nextSessionID PROVE FALSE
    OBVIOUS
  <1>1. SearchedBefore(b, nextSessionID)
    BY DEF AllocateSessionID
  <1>2. b \in Int /\ nextSessionID \in Int
    BY BlockInRange DEF AllocateSessionID, Free
  <1> QED  BY <1>1, <1>2 DEF SearchedBefore

LEMMA AllocateFirstLap ==
    ASSUME IsFiniteSet(Requests), Cardinality(Requests) <= MaxBlocks,
           Ownership, FirstLap, NEW r \in Requests, Allocate(r)
    PROVE  FirstLap'
  <1> DEFINE m == Cardinality(Given)
  <1>1. PICK b \in Blocks : AllocateSessionID(b) /\ sid' = [sid EXCEPT ![r] = b]
    BY DEF Allocate
  <1>2. sid[r] = NoBlock /\ r \notin Given
    BY DEF Allocate, Transition, FirstLap, Given
  <1>3. /\ sid'[r] = b /\ b # NoBlock
        /\ \A q \in Requests \ {r} : sid'[q] = sid[q]
    BY <1>1, SentinelAssumption DEF Ownership, TypeOK
  <1>4. Given' = Given \cup {r}
    BY <1>2, <1>3 DEF Given
  <1>5. m \in Nat /\ m < MaxBlocks /\ Cardinality(Given)' = m + 1
    <2>1. IsFiniteSet(Given) /\ IsFiniteSet(Given \cup {r})
      BY FS_Subset, FS_AddElement DEF Given
    <2>2. m \in Nat /\ Cardinality(Given \cup {r}) = m + 1
      BY <1>2, <2>1, FS_CardinalityType, FS_AddElement
    <2>3. Cardinality(Given \cup {r}) <= Cardinality(Requests)
      <3>1. Given \cup {r} \subseteq Requests
        BY DEF Given
      <3> QED  BY <3>1, FS_Subset
    <2>4. Cardinality(Requests) \in Nat /\ MaxBlocks \in Nat
      BY FS_CardinalityType, MaxBlocksBounds
    <2> QED  BY <1>4, <2>2, <2>3, <2>4
  <1> HIDE DEF m
  <1>6. /\ nextSessionID = BlockID(m)
        /\ { sid[q] : q \in Given } = { BlockID(i) : i \in 0 .. m - 1 }
    BY <1>5 DEF FirstLap, m
  <1>7. \A i \in 0 .. m - 1 : BlockID(i) # BlockID(m)
    BY <1>5, BlockOrder
  <1>8. \A q \in Given : sid[q] # BlockID(m)
    BY <1>6, <1>7
  <1>9. b = BlockID(m)
    <2>1. BlockID(m) \in Blocks
      BY <1>5, MaxBlocksBounds DEF Blocks
    <2>2. Holders \subseteq Given
      BY SentinelAssumption DEF Ownership, TypeOK, Given, Holders
    <2>3. BlockID(m) \in Free
      BY <1>8, <2>1, <2>2 DEF Free, Ownership, BlocksHeldOnce
    <2> QED  BY <1>1, <1>6, <2>3, SearchFindsCursor
  <1>10. \A q \in Requests : pc'[q] = "idle" => sid'[q] = NoBlock
    BY <1>3 DEF Allocate, Transition, Ownership, TypeOK, FirstLap
  <1>11. \A p, q \in Given' : sid'[p] = sid'[q] => p = q
    <2>1. \A p \in Given : p \in Requests \ {r} /\ sid'[p] = sid[p]
      BY <1>2, <1>3 DEF Given
    <2> QED  BY <1>3, <1>4, <1>8, <1>9, <2>1 DEF FirstLap
  <1>12. { sid'[q] : q \in Given' } = { BlockID(i) : i \in 0 .. m }
    <2>1. { sid'[q] : q \in Given' } = { sid[q] : q \in Given } \cup {b}
      BY <1>2, <1>3, <1>4 DEF Given
    <2>2. 0 .. m = 0 .. m - 1 \cup {m}
      BY <1>5
    <2> QED  BY <1>6, <1>9, <2>1, <2>2
  <1>13. m + 1 < MaxBlocks => nextSessionID' = BlockID(m + 1)
    <2> SUFFICES ASSUME m + 1 < MaxBlocks PROVE nextSessionID' = BlockID(m + 1)
      OBVIOUS
    <2>1. /\ (m + 1) * BlockSize = m * BlockSize + BlockSize
          /\ (m + 2) * BlockSize = (m + 1) * BlockSize + BlockSize
          /\ m * BlockSize \in Nat /\ (m + 1) * BlockSize \in Nat
      BY <1>5, RangeAssumption
    <2>2. (m + 2) * BlockSize <= MaxBlocks * BlockSize
      BY <1>5, MaxBlocksBounds, TimesMonotonic
    <2>3. MaxBlocks * BlockSize \in Nat
      BY MaxBlocksBounds, RangeAssumption
    <2>4. b + BlockSize = BlockID(m + 1) /\ b + BlockSize < EndID
      BY <1>5, <1>9, <2>1, <2>2, <2>3, MaxBlocksBounds, RangeAssumption DEF BlockID
    <2>5. ~(b + BlockSize >= EndID)
      BY <2>4, BlockInRange, RangeAssumption
    <2> QED  BY <1>1, <2>4, <2>5 DEF AllocateSessionID, After
  <1>14. Cardinality(Given)' - 1 = m
    BY <1>5
  <1> QED  BY <1>5, <1>10, <1>11, <1>12, <1>13, <1>14 DEF FirstLap

\* As long as there are no more requests than blocks, every request that got a
\* block got one that nobody had before.
LEMMA FirstLapInvariant ==
    ASSUME IsFiniteSet(Requests), Cardinality(Requests) <= MaxBlocks
    PROVE  Spec => []FirstLap
  <1>1. Init => FirstLap
    <2> SUFFICES ASSUME Init PROVE FirstLap
      OBVIOUS
    <2>1. Given = {} /\ Cardinality(Given) = 0
      BY FS_EmptySet DEF Init, Given
    <2>2. nextSessionID = BlockID(0)
      BY RangeAssumption DEF Init, AllocatorInit, BlockID
    <2>3. 0 .. 0 - 1 = {}
      OBVIOUS
    <2> QED  BY <2>1, <2>2, <2>3 DEF Init, FirstLap
  <1>2. Ownership /\ FirstLap /\ [Next]_vars => FirstLap'
    <2> SUFFICES ASSUME Ownership, FirstLap, [Next]_vars PROVE FirstLap'
      OBVIOUS
    <2>1. CASE \E r \in Requests : Allocate(r)
      BY <2>1, AllocateFirstLap
    <2>2. CASE \A r \in Requests : ~Allocate(r)
      <3>1. UNCHANGED <<sid, nextSessionID>>
        BY <2>2 DEF Next, HandlerStep, Refuse, AllocationFails, allocatorVars, ParseFails,
               CreateFails, Create, Register, SendJob, SendJobFails, EnterSelect, TimerFires,
               Format, Unregister, Release, ReleaseSessionID, StreamStep, LookupDone, HandleDone,
               ReceiveReply, Quiescent, vars, handlerVars
      <3>2. \A r \in Requests : pc'[r] = "idle" => pc[r] = "idle"
        <4>1. CASE \E s \in Streams : StreamStep(s)
          <5>1. pc' = pc \/ \E r \in Requests : CheckDone(r)
            BY <4>1, StreamChecksDone DEF Ownership
          <5> QED  BY <5>1 DEF CheckDone, Ownership, TypeOK
        <4>2. CASE \E r \in Requests : HandlerStep(r)
          BY <4>2 DEF HandlerStep, Refuse, Allocate, ParseFails, CreateFails, Create, Register,
                 SendJob, SendJobFails, EnterSelect, TimerFires, Format, Unregister, Release,
                 Transition, Ownership, TypeOK
        <4>3. CASE UNCHANGED vars
          BY <4>3 DEF vars
        <4> QED  BY <4>1, <4>2, <4>3 DEF Next, Quiescent
      <3> QED  BY <3>1, <3>2 DEF FirstLap, Given
    <2> QED  BY <2>1, <2>2
  <1> QED  BY <1>1, <1>2, OwnershipInvariant, PTL DEF Spec

(***************************************************************************)
(* Until the range has been gone round once, every session is fresh: what  *)
(* RepliesToOwner and FinishedIsComplete say then holds of every program.  *)
(***************************************************************************)
THEOREM FirstLapIsFresh ==
    ASSUME IsFiniteSet(Requests), Cardinality(Requests) <= MaxBlocks
    PROVE  Spec => [](\A r \in Requests : OnFreshBlock(r))
  <1>1. Ownership /\ FirstLap => \A r \in Requests : OnFreshBlock(r)
    <2> SUFFICES ASSUME Ownership, FirstLap, NEW r \in Requests, NEW q \in jobs \ {r}
                 PROVE  sid[q] # sid[r]
      BY DEF OnFreshBlock
    <2>1. q \in Given
      BY SentinelAssumption DEF Ownership, TypeOK, Given
    <2> QED  BY <2>1 DEF FirstLap, Given
  <1> QED  BY <1>1, OwnershipInvariant, FirstLapInvariant, PTL

(***************************************************************************)
(* Until then a program also keeps clear of what other jobs left behind:   *)
(* all its results are about its own probes. (HandleDone, HandleReply)     *)
(***************************************************************************)
THEOREM FirstLapKeepsApart ==
    ASSUME IsFiniteSet(Requests), Cardinality(Requests) <= MaxBlocks, ConfsFit, PortsFit
    PROVE  Spec => [](\A r \in Requests : Sources(r) \subseteq {r})
  <1>1. /\ Provenance /\ NoMixing
        /\ \A r \in Requests : OnFreshBlock(r)
        => \A r \in Requests : Sources(r) \subseteq {r}
    BY DEF Provenance, NoMixing, OnFreshBlock
  <1> QED  BY <1>1, ProvenanceInvariant, MeasurementsNeverMix, FirstLapIsFresh, PTL
=============================================================================
