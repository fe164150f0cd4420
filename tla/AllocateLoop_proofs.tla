------------------------- MODULE AllocateLoop_proofs -------------------------
(***************************************************************************)
(* Proofs about the search of AllocateSessionID. The argument counts the   *)
(* blocks by index: the search starts at some index and, modulo the number *)
(* of blocks, has gone blocksChecked indices further.                      *)
(***************************************************************************)
EXTENDS AllocateLoop, SessionAllocator_proofs

\* An index that has run past the last block counts from the first one again.
Wrap(n) == IF n < MaxBlocks THEN n ELSE n - MaxBlocks

Indices == 0 .. MaxBlocks - 1

\* What the search would look at if currentID were id.
Normal(id) == IF id < StartID \/ id + BlockSize > EndID THEN StartID ELSE id

(***************************************************************************)
(* The search started at index s, and every block from there up to where   *)
(* it is now is in use.                                                    *)
(***************************************************************************)
SearchedFrom(s) ==
    /\ Normal(nextSessionID) = BlockID(s)
    /\ Candidate = BlockID(Wrap(s + blocksChecked))
    /\ \A u \in 0 .. blocksChecked - 1 : BlockID(Wrap(s + u)) \in inUseBlocks

Searching == (\E c \in Callers : pc[c] = "searching") => \E s \in Indices : SearchedFrom(s)

LoopInv == LoopTypeOK /\ Searching
-----------------------------------------------------------------------------
\* The grid of blocks: where the block with an index lies.
LEMMA BlockAt ==
    ASSUME NEW i \in Indices
    PROVE  /\ BlockID(i) \in Blocks
           /\ BlockID(i) \in Nat
           /\ StartID <= BlockID(i)
           /\ BlockID(i) + BlockSize <= EndID
           /\ BlockID(i) + BlockSize = BlockID(i + 1)
  <1>1. BlockID(i) \in Blocks
    BY DEF Blocks, Indices
  <1>2. i \in Int /\ (i + 1) * BlockSize = i * BlockSize + BlockSize
    BY MaxBlocksBounds, RangeAssumption DEF Indices
  <1>3. i * BlockSize \in Int
    BY <1>2, RangeAssumption
  <1>4. BlockID(i) + BlockSize = BlockID(i + 1)
    BY <1>2, <1>3, RangeAssumption DEF BlockID
  <1> QED  BY <1>1, <1>4, BlockInRange

\* One index past the last block there is no room for another one.
LEMMA PastLastBlock ==
    BlockID(MaxBlocks) \in Nat /\ BlockID(MaxBlocks) <= EndID
    /\ EndID < BlockID(MaxBlocks) + BlockSize
  <1>1. (MaxBlocks + 1) * BlockSize = MaxBlocks * BlockSize + BlockSize
    BY MaxBlocksBounds, RangeAssumption
  <1>2. MaxBlocks * BlockSize \in Nat
    BY MaxBlocksBounds, RangeAssumption
  <1> QED  BY <1>1, <1>2, MaxBlocksBounds, RangeAssumption DEF BlockID

LEMMA FirstBlock == 0 \in Indices /\ BlockID(0) = StartID
  BY MaxBlocksBounds, RangeAssumption DEF Indices, BlockID

\* Indices order the blocks.
LEMMA BlocksOrdered ==
    ASSUME NEW i \in Nat, NEW j \in Nat, i < j
    PROVE  BlockID(i) < BlockID(j)
  <1>1. (i + 1) * BlockSize <= j * BlockSize
    BY TimesMonotonic
  <1>2. (i + 1) * BlockSize = i * BlockSize + BlockSize
    BY RangeAssumption
  <1>3. i * BlockSize \in Int /\ j * BlockSize \in Int
    BY RangeAssumption
  <1> QED  BY <1>1, <1>2, <1>3, RangeAssumption DEF BlockID

LEMMA BlocksIndexed ==
    ASSUME NEW i \in Indices, NEW j \in Indices
    PROVE  /\ BlockID(i) = BlockID(j) <=> i = j
           /\ BlockID(i) < BlockID(j) <=> i < j
  <1>1. i \in Nat /\ j \in Nat
    BY MaxBlocksBounds DEF Indices
  <1>2. BlockID(i) \in Nat /\ BlockID(j) \in Nat
    BY BlockAt
  <1>3. i < j \/ i = j \/ j < i
    BY <1>1
  <1>4. CASE i < j
    BY <1>4, <1>1, <1>2, BlocksOrdered
  <1>5. CASE j < i
    BY <1>5, <1>1, <1>2, BlocksOrdered
  <1> QED  BY <1>2, <1>3, <1>4, <1>5

LEMMA WrapInIndices ==
    ASSUME NEW s \in Indices, NEW n \in 0 .. MaxBlocks
    PROVE  Wrap(s + n) \in Indices
  BY MaxBlocksBounds DEF Wrap, Indices

\* A cursor is a block, or lies past the last one and counts as the first.
LEMMA CursorIndex ==
    ASSUME NEW id \in Cursors
    PROVE  \E s \in Indices :
              /\ Normal(id) = BlockID(s)
              /\ id = BlockID(s) \/ (s = 0 /\ id = BlockID(MaxBlocks))
  <1>1. PICK i \in 0 .. MaxBlocks : id = BlockID(i)
    BY DEF Cursors
  <1>2. CASE i < MaxBlocks
    <2>1. i \in Indices
      BY <1>2, MaxBlocksBounds DEF Indices
    <2>2. Normal(id) = BlockID(i)
      BY <1>1, <2>1, BlockAt, RangeAssumption DEF Normal
    <2> QED  BY <1>1, <2>1, <2>2
  <1>3. CASE i = MaxBlocks
    BY <1>1, <1>3, PastLastBlock, FirstBlock DEF Normal
  <1> QED  BY <1>2, <1>3, MaxBlocksBounds

\* Moving on by one block is moving on by one index.
LEMMA NextCandidate ==
    ASSUME NEW s \in Indices, NEW n \in 0 .. MaxBlocks - 1
    PROVE  /\ Normal(BlockID(Wrap(s + n)) + BlockSize) = BlockID(Wrap(s + (n + 1)))
           /\ BlockID(Wrap(s + n)) + BlockSize \in Cursors
  <1> DEFINE i == Wrap(s + n)
  <1>1. i \in Indices
    BY WrapInIndices, MaxBlocksBounds
  <1>2. Wrap(s + (n + 1)) = IF i + 1 = MaxBlocks THEN 0 ELSE i + 1
    BY MaxBlocksBounds DEF Wrap, Indices
  <1>3. i + 1 \in 0 .. MaxBlocks
    BY <1>1, MaxBlocksBounds DEF Indices
  <1>4. BlockID(i) + BlockSize = BlockID(i + 1)
    BY <1>1, BlockAt
  <1>5. Normal(BlockID(i + 1)) = IF i + 1 = MaxBlocks THEN BlockID(0) ELSE BlockID(i + 1)
    <2>1. CASE i + 1 = MaxBlocks
      BY <2>1, PastLastBlock, FirstBlock DEF Normal
    <2>2. CASE i + 1 # MaxBlocks
      <3>1. i + 1 \in Indices
        BY <2>2, <1>3, MaxBlocksBounds DEF Indices
      <3> QED  BY <2>2, <3>1, BlockAt, RangeAssumption DEF Normal
    <2> QED  BY <2>1, <2>2
  <1> QED  BY <1>2, <1>3, <1>4, <1>5 DEF Cursors

\* A search that has gone all the way round has looked at every block.
LEMMA FullRound ==
    ASSUME NEW s \in Indices, NEW k \in Indices
    PROVE  \E u \in 0 .. MaxBlocks - 1 : Wrap(s + u) = k
  <1>1. CASE k >= s
    <2>1. k - s \in 0 .. MaxBlocks - 1 /\ Wrap(s + (k - s)) = k
      BY <1>1, MaxBlocksBounds DEF Wrap, Indices
    <2> QED  BY <2>1
  <1>2. CASE k < s
    <2>1. (k - s) + MaxBlocks \in 0 .. MaxBlocks - 1 /\ Wrap(s + ((k - s) + MaxBlocks)) = k
      BY <1>2, MaxBlocksBounds DEF Wrap, Indices
    <2> QED  BY <2>1
  <1> QED  BY <1>1, <1>2, MaxBlocksBounds DEF Indices
-----------------------------------------------------------------------------
(***************************************************************************)
(* The heart of the refinement: the first candidate that is not in use is  *)
(* the first free block in the cyclic order that starts at nextSessionID.  *)
(***************************************************************************)
LEMMA CandidateIsFirstFree ==
    ASSUME LoopTypeOK, NEW s \in Indices, SearchedFrom(s),
           LoopContinues, Candidate \notin inUseBlocks
    PROVE  Candidate \in Free /\ \A c \in Free \ {Candidate} : SearchedBefore(Candidate, c)
  <1> DEFINE t == blocksChecked
             j == Wrap(s + t)
  <1>1. t \in 0 .. MaxBlocks - 1
    BY MaxBlocksBounds DEF LoopTypeOK, LoopContinues
  <1>2. j \in Indices /\ Candidate = BlockID(j)
    BY <1>1, WrapInIndices, MaxBlocksBounds DEF SearchedFrom
  <1>3. Candidate \in Free
    BY <1>2, BlockAt DEF Free
  <1>4. ASSUME NEW c \in Free \ {Candidate}
        PROVE  SearchedBefore(Candidate, c)
    <2>1. PICK k \in Indices : c = BlockID(k)
      BY <1>4 DEF Free, Blocks, Indices
    <2>2. k # j /\ \A u \in 0 .. t - 1 : Wrap(s + u) # k
      BY <1>4, <1>2, <2>1 DEF Free, SearchedFrom
    <2>3. k \in Nat /\ j \in Nat /\ s \in Nat /\ BlockID(k) \in Nat /\ BlockID(j) \in Nat
      BY <1>2, <2>1, BlockAt, MaxBlocksBounds DEF Indices
    <2>4. Candidate < c <=> j < k
      BY <1>2, <2>1, BlocksIndexed
    <2>5. PICK s0 \in Indices :
             /\ Normal(nextSessionID) = BlockID(s0)
             /\ nextSessionID = BlockID(s0) \/ (s0 = 0 /\ nextSessionID = BlockID(MaxBlocks))
      BY CursorIndex DEF LoopTypeOK, AllocatorTypeOK
    <2>6. s0 = s
      BY <2>5, BlocksIndexed DEF SearchedFrom
    <2>7. CASE nextSessionID = BlockID(s)
      <3>1. (c >= nextSessionID <=> k >= s) /\ (Candidate >= nextSessionID <=> j >= s)
        <4>1. BlockID(s) \in Nat /\ (BlockID(k) < BlockID(s) <=> k < s)
                                 /\ (BlockID(j) < BlockID(s) <=> j < s)
          BY <1>2, <2>1, BlockAt, BlocksIndexed
        <4> QED  BY <4>1, <2>1, <2>3, <2>7, <1>2
      <3>2. CASE s + t < MaxBlocks
        <4>1. j = s + t /\ k >= s => k > j
          <5>1. j = s + t
            BY <3>2 DEF Wrap
          <5>2. ASSUME k >= s, k < j PROVE FALSE
            <6>1. k - s \in 0 .. t - 1 /\ Wrap(s + (k - s)) = k
              BY <5>1, <5>2, <2>3, <1>1, <3>2, MaxBlocksBounds DEF Wrap
            <6> QED  BY <6>1, <2>2
          <5> QED  BY <5>1, <5>2, <2>2, <2>3
        <4>2. j = s + t
          BY <3>2 DEF Wrap
        <4>3. c \in Nat /\ nextSessionID \in Nat /\ j >= s
          BY <4>2, <2>1, <2>3, <2>7, <1>1, BlockAt
        <4>4. k < j => k < s
          BY <4>1, <4>2, <2>3, <1>1
        <4> QED  BY <4>3, <4>4, <3>1, <2>2, <2>3, <2>4 DEF SearchedBefore
      <3>3. CASE s + t >= MaxBlocks
        <4>1. j = (s + t) - MaxBlocks /\ j < s
          BY <3>3, <1>1, <2>3, MaxBlocksBounds DEF Wrap
        <4>2. k < s
          <5>1. ASSUME k >= s PROVE FALSE
            <6>1. k - s \in 0 .. t - 1 /\ Wrap(s + (k - s)) = k
              BY <5>1, <3>3, <2>3, <1>1, <2>1, MaxBlocksBounds DEF Wrap, Indices
            <6> QED  BY <6>1, <2>2
          <5> QED  BY <5>1, <2>3
        <4>3. k > j
          <5>1. ASSUME k < j PROVE FALSE
            <6>1. (k - s) + MaxBlocks \in 0 .. t - 1 /\ Wrap(s + ((k - s) + MaxBlocks)) = k
              BY <5>1, <4>1, <2>3, <1>1, <2>1, MaxBlocksBounds DEF Wrap, Indices
            <6> QED  BY <6>1, <2>2
          <5> QED  BY <5>1, <2>2, <2>3
        <4> QED  BY <4>1, <4>2, <4>3, <3>1, <2>3, <2>4 DEF SearchedBefore
      <3> QED  BY <3>2, <3>3, <1>1, <2>3, MaxBlocksBounds
    <2>8. CASE s = 0 /\ nextSessionID = BlockID(MaxBlocks)
      <3>1. j = t
        BY <2>8, <1>1, MaxBlocksBounds DEF Wrap
      <3>2. ASSUME k < j PROVE FALSE
        <4>1. k \in 0 .. t - 1 /\ Wrap(s + k) = k
          BY <3>1, <3>2, <2>8, <2>1, <2>3, MaxBlocksBounds DEF Wrap, Indices
        <4> QED  BY <4>1, <2>2
      <3>3. k < MaxBlocks /\ j < MaxBlocks
        BY <1>2, <2>1, MaxBlocksBounds DEF Indices
      <3>4. c < nextSessionID /\ Candidate < nextSessionID
        BY <3>3, <2>1, <2>3, <2>8, <1>2, BlocksOrdered, MaxBlocksBounds
      <3> QED  BY <3>2, <3>4, <2>1, <2>2, <2>3, <2>4, <2>8, <1>2, PastLastBlock DEF SearchedBefore
    <2> QED  BY <2>5, <2>6, <2>7, <2>8
  <1> QED  BY <1>3, <1>4

\* A search that gives up has found every block in use.
LEMMA GivesUpWhenFull ==
    ASSUME LoopTypeOK, NEW s \in Indices, SearchedFrom(s), ~LoopContinues
    PROVE  Blocks \subseteq inUseBlocks
  <1>1. blocksChecked = MaxBlocks
    BY MaxBlocksBounds DEF LoopTypeOK, LoopContinues
  <1>2. ASSUME NEW b \in Blocks PROVE b \in inUseBlocks
    <2>1. PICK k \in Indices : b = BlockID(k)
      BY DEF Blocks, Indices
    <2> QED  BY <2>1, <1>1, FullRound DEF SearchedFrom
  <1> QED  BY <1>2
-----------------------------------------------------------------------------
\* The caller that holds the lock is the one that searches.
LEMMA OneSearcher ==
    ASSUME LoopTypeOK, NEW c \in Callers, NEW d \in Callers,
           pc[c] = "searching", pc[d] = "searching"
    PROVE  c = d
  BY DEF LoopTypeOK

LEMMA CandidateIsBlock ==
    ASSUME LoopInv, NEW c \in Callers, pc[c] = "searching"
    PROVE  Candidate \in Blocks
  <1>1. PICK s \in Indices : SearchedFrom(s)
    BY DEF LoopInv, Searching
  <1>2. Wrap(s + blocksChecked) \in Indices
    BY WrapInIndices DEF LoopInv, LoopTypeOK
  <1> QED  BY <1>1, <1>2, BlockAt DEF SearchedFrom

LEMMA LoopInitInv == LoopInit => LoopInv
  <1> SUFFICES ASSUME LoopInit PROVE LoopInv
    OBVIOUS
  <1>1. AllocatorTypeOK
    BY AllocatorInitTypeOK DEF LoopInit
  <1>2. LoopTypeOK
    BY <1>1, StartIsCursor, MaxBlocksBounds, CallersAssumption DEF LoopInit, LoopTypeOK
  <1> QED  BY <1>2 DEF LoopInv, Searching, LoopInit

LEMMA LoopTypeStep ==
    ASSUME LoopInv, [LoopNext]_vars
    PROVE  LoopTypeOK'
  <1> USE DEF LoopInv
  <1>1. CASE UNCHANGED vars
    BY <1>1 DEF vars, LoopTypeOK, AllocatorTypeOK
  <1>2. ASSUME NEW c \in Callers, Call(c) PROVE LoopTypeOK'
    BY <1>2 DEF Call, Transition, LoopTypeOK, AllocatorTypeOK
  <1>3. ASSUME NEW c \in Callers, Lock(c) PROVE LoopTypeOK'
    BY <1>3, MaxBlocksBounds, CallersAssumption DEF Lock, Transition, LoopTypeOK, AllocatorTypeOK
  <1>4. ASSUME NEW c \in Callers, Skip(c) PROVE LoopTypeOK'
    <2>1. PICK s \in Indices : SearchedFrom(s)
      BY <1>4 DEF Searching, Skip
    <2>2. blocksChecked \in 0 .. MaxBlocks - 1
      BY <1>4, MaxBlocksBounds DEF Skip, LoopContinues, LoopTypeOK
    <2>3. currentID' \in Cursors
      BY <1>4, <2>1, <2>2, NextCandidate DEF Skip, SearchedFrom
    <2>4. blocksChecked' \in 0 .. MaxBlocks
      BY <1>4, <2>2, MaxBlocksBounds DEF Skip
    <2> QED  BY <1>4, <2>3, <2>4 DEF Skip, LoopTypeOK, AllocatorTypeOK
  <1>5. ASSUME NEW c \in Callers, Take(c) PROVE LoopTypeOK'
    <2>1. Candidate \in Blocks
      BY <1>5, CandidateIsBlock DEF Take, Transition
    <2>2. nextSessionID' \in Cursors /\ nextSessionID' < EndID
      BY <1>5, <2>1, AfterIsCursor DEF Take, AfterTake, After
    <2>3. AllocatorTypeOK'
      BY <1>5, <2>1, <2>2 DEF Take, LoopTypeOK, AllocatorTypeOK
    <2>4. \A d \in Callers : mu' = d <=> pc'[d] = "searching"
      BY <1>5, CallersAssumption DEF Take, Transition, LoopTypeOK
    <2> QED  BY <1>5, <2>1, <2>3, <2>4 DEF Take, Transition, LoopTypeOK
  <1>6. ASSUME NEW c \in Callers, Fail(c) PROVE LoopTypeOK'
    BY <1>6, CallersAssumption DEF Fail, Transition, LoopTypeOK, AllocatorTypeOK
  <1>7. ASSUME NEW c \in Callers, Release(c) PROVE LoopTypeOK'
    BY <1>7 DEF Release, Transition, LoopTypeOK, AllocatorTypeOK
  <1>8. ASSUME NEW c \in Callers, Retry(c) PROVE LoopTypeOK'
    BY <1>8 DEF Retry, Transition, LoopTypeOK, AllocatorTypeOK
  <1> QED  BY <1>1, <1>2, <1>3, <1>4, <1>5, <1>6, <1>7, <1>8 DEF LoopNext

\* A step that starts no search, and changes nothing that a search is about.
LEMMA SearchUnchanged ==
    ASSUME Searching,
           UNCHANGED <<nextSessionID, inUseBlocks, currentID, blocksChecked>>,
           \A c \in Callers : pc'[c] = "searching" => pc[c] = "searching"
    PROVE  Searching'
  BY DEF Searching, SearchedFrom, Candidate, Normal

LEMMA SearchStep ==
    ASSUME LoopInv, [LoopNext]_vars, LoopTypeOK'
    PROVE  Searching'
  <1> USE DEF LoopInv
  <1>1. CASE UNCHANGED vars
    BY <1>1, SearchUnchanged DEF vars
  <1>2. ASSUME NEW c \in Callers, Call(c) PROVE Searching'
    BY <1>2, SearchUnchanged DEF Call, Transition, LoopTypeOK
  <1>3. ASSUME NEW c \in Callers, Lock(c) PROVE Searching'
    <2>1. PICK s \in Indices : Normal(nextSessionID) = BlockID(s)
      BY CursorIndex DEF LoopTypeOK, AllocatorTypeOK
    <2>2. Wrap(s + 0) = s
      BY MaxBlocksBounds DEF Wrap, Indices
    <2>3. Candidate' = Normal(nextSessionID)
      BY <1>3 DEF Lock, Candidate, Normal
    <2>4. SearchedFrom(s)'
      BY <1>3, <2>1, <2>2, <2>3 DEF Lock, SearchedFrom, Normal
    <2> QED  BY <2>4 DEF Searching
  <1>4. ASSUME NEW c \in Callers, Skip(c) PROVE Searching'
    <2>1. PICK s \in Indices : SearchedFrom(s)
      BY <1>4 DEF Searching, Skip
    <2>2. blocksChecked \in 0 .. MaxBlocks - 1
      BY <1>4, MaxBlocksBounds DEF Skip, LoopContinues, LoopTypeOK
    <2>3. Candidate' = Normal(Candidate + BlockSize)
      BY <1>4 DEF Skip, Candidate, Normal
    <2>4. Candidate' = BlockID(Wrap(s + blocksChecked'))
      BY <1>4, <2>1, <2>2, <2>3, NextCandidate DEF Skip, SearchedFrom
    <2>5. ASSUME NEW u \in 0 .. blocksChecked' - 1
          PROVE  BlockID(Wrap(s + u)) \in inUseBlocks'
      <3>1. u \in 0 .. blocksChecked - 1 \/ u = blocksChecked
        BY <1>4, <2>2, MaxBlocksBounds DEF Skip
      <3> QED  BY <1>4, <2>1, <3>1 DEF Skip, SearchedFrom
    <2>6. SearchedFrom(s)'
      BY <1>4, <2>1, <2>4, <2>5 DEF Skip, SearchedFrom, Normal
    <2> QED  BY <2>6 DEF Searching
  <1>5. ASSUME NEW c \in Callers, Take(c) PROVE Searching'
    <2>1. \A d \in Callers : pc'[d] # "searching"
      BY <1>5, CallersAssumption DEF Take, LoopTypeOK
    <2> QED  BY <2>1 DEF Searching
  <1>6. ASSUME NEW c \in Callers, Fail(c) PROVE Searching'
    BY <1>6, SearchUnchanged DEF Fail, Transition, LoopTypeOK
  <1>7. ASSUME NEW c \in Callers, Release(c) PROVE Searching'
    <2>1. \A d \in Callers : pc'[d] # "searching"
      BY <1>7, CallersAssumption DEF Release, LoopTypeOK
    <2> QED  BY <2>1 DEF Searching
  <1>8. ASSUME NEW c \in Callers, Retry(c) PROVE Searching'
    BY <1>8, SearchUnchanged DEF Retry, Transition, LoopTypeOK
  <1> QED  BY <1>1, <1>2, <1>3, <1>4, <1>5, <1>6, <1>7, <1>8 DEF LoopNext

LEMMA LoopInvariant == LoopSpec => []LoopInv
  <1>1. LoopInv /\ [LoopNext]_vars => LoopInv'
    BY LoopTypeStep, SearchStep DEF LoopInv
  <1> QED  BY <1>1, LoopInitInv, PTL DEF LoopSpec
-----------------------------------------------------------------------------
\* Type correctness of the search: the holder of the lock searches, and its
\* cursor stays on the block grid.
THEOREM LoopTypeCorrect == LoopSpec => []LoopTypeOK
  <1>1. LoopInv => LoopTypeOK
    BY DEF LoopInv
  <1> QED  BY <1>1, LoopInvariant, PTL

(***************************************************************************)
(* For every range and block size, the bounded search gives up only when   *)
(* every block is handed out. (the loop of AllocateSessionID)              *)
(***************************************************************************)
THEOREM SearchIsComplete == LoopSpec => RefusedOnlyWhenFull
  <1>1. LoopInv /\ [LoopNext]_vars => [\A c \in Callers : Fail(c) => Blocks = inUseBlocks]_vars
    <2> SUFFICES ASSUME LoopInv, NEW c \in Callers, Fail(c)
                 PROVE  Blocks = inUseBlocks
      OBVIOUS
    <2>1. PICK s \in Indices : SearchedFrom(s)
      BY DEF LoopInv, Searching, Fail, Transition
    <2>2. Blocks \subseteq inUseBlocks
      BY <2>1, GivesUpWhenFull DEF LoopInv, Fail
    <2> QED  BY <2>2 DEF LoopInv, LoopTypeOK, AllocatorTypeOK
  <1> QED  BY <1>1, LoopInvariant, PTL DEF LoopSpec, RefusedOnlyWhenFull

(***************************************************************************)
(* The loop implements the one-step allocator: Take is AllocateSessionID,  *)
(* Fail is AllocationFails, and the other steps of a search are invisible. *)
(***************************************************************************)
THEOREM LoopImplementsAllocator == LoopSpec => ImplementsAllocator
  <1>1. LoopInit => AllocatorInit
    BY DEF LoopInit
  <1>2. ASSUME LoopInv, [LoopNext]_vars
        PROVE  [AllocatorNext]_allocatorVars
    <2> USE DEF allocatorVars
    <2>1. CASE UNCHANGED vars
      BY <2>1 DEF vars
    <2>2. ASSUME NEW c \in Callers, Call(c) \/ Lock(c) \/ Skip(c) \/ Retry(c)
          PROVE  UNCHANGED allocatorVars
      BY <2>2 DEF Call, Lock, Skip, Retry
    <2>3. ASSUME NEW c \in Callers, Take(c) PROVE AllocatorNext
      <3>1. PICK s \in Indices : SearchedFrom(s)
        BY <1>2, <2>3 DEF LoopInv, Searching, Take, Transition
      <3>2. Candidate \in Free /\ \A b \in Free \ {Candidate} : SearchedBefore(Candidate, b)
        BY <1>2, <2>3, <3>1, CandidateIsFirstFree DEF LoopInv, Take
      <3>3. AllocateSessionID(Candidate)
        BY <2>3, <3>2 DEF Take, AllocateSessionID, AfterTake, After
      <3> QED  BY <3>2, <3>3 DEF AllocatorNext, Free
    <2>4. ASSUME NEW c \in Callers, Fail(c) PROVE UNCHANGED allocatorVars
      BY <2>4 DEF Fail
    <2>5. ASSUME NEW c \in Callers, Release(c) PROVE [AllocatorNext]_allocatorVars
      <3>1. ReleaseSessionID(block[c])
        BY <2>5 DEF Release, ReleaseSessionID
      <3>2. CASE block[c] \in inUseBlocks
        BY <3>1, <3>2 DEF AllocatorNext
      <3>3. CASE block[c] \notin inUseBlocks
        BY <3>1, <3>3 DEF ReleaseSessionID
      <3> QED  BY <3>2, <3>3
    <2> QED  BY <1>2, <2>1, <2>2, <2>3, <2>4, <2>5 DEF LoopNext
  <1> QED  BY <1>1, <1>2, LoopInvariant, PTL DEF LoopSpec, ImplementsAllocator, AllocatorSpec
-----------------------------------------------------------------------------
\* BlocksExclusive in terms of blocks instead of IDs, which is inductive.
HeldOnce ==
    /\ \A c \in Callers : pc[c] = "holding" => block[c] \in inUseBlocks
    /\ \A b \in inUseBlocks : \E c \in Callers : pc[c] = "holding" /\ block[c] = b
    /\ \A c, d \in Callers :
          pc[c] = "holding" /\ pc[d] = "holding" /\ block[c] = block[d] => c = d

LEMMA HeldOnceStep ==
    ASSUME LoopInv, HeldOnce, [LoopNext]_vars
    PROVE  HeldOnce'
  <1> USE DEF LoopInv, LoopTypeOK
  <1>1. CASE UNCHANGED vars
    BY <1>1 DEF vars, HeldOnce
  <1>2. ASSUME NEW c \in Callers, Call(c) \/ Lock(c) \/ Skip(c) \/ Fail(c) \/ Retry(c)
        PROVE  HeldOnce'
    <2>1. UNCHANGED <<inUseBlocks, block>>
      BY <1>2 DEF Call, Lock, Skip, Fail, Retry
    <2>2. \A d \in Callers : pc'[d] = "holding" <=> pc[d] = "holding"
      BY <1>2 DEF Call, Lock, Skip, Fail, Retry, Transition
    <2> QED  BY <2>1, <2>2 DEF HeldOnce
  <1>3. ASSUME NEW c \in Callers, Take(c) PROVE HeldOnce'
    <2>1. \A d \in Callers :
             /\ pc'[d] = "holding" <=> d = c \/ pc[d] = "holding"
             /\ block'[d] = IF d = c THEN Candidate ELSE block[d]
      BY <1>3 DEF Take, Transition
    <2>2. pc[c] # "holding"
      BY <1>3 DEF Take, Transition
    <2> QED  BY <1>3, <2>1, <2>2 DEF Take, HeldOnce
  <1>4. ASSUME NEW c \in Callers, Release(c) PROVE HeldOnce'
    <2>1. \A d \in Callers :
             /\ pc'[d] = "holding" <=> d # c /\ pc[d] = "holding"
             /\ block'[d] = IF d = c THEN NoBlock ELSE block[d]
      BY <1>4 DEF Release, Transition
    <2>2. pc[c] = "holding"
      BY <1>4 DEF Release, Transition
    <2> QED  BY <1>4, <2>1, <2>2 DEF Release, HeldOnce
  <1> QED  BY <1>1, <1>2, <1>3, <1>4 DEF LoopNext

(***************************************************************************)
(* For every range, block size and number of concurrent users, the blocks  *)
(* that are held share no ID and are exactly those marked in use.          *)
(***************************************************************************)
THEOREM LoopBlocksExclusive == LoopSpec => []BlocksExclusive
  <1>1. LoopInit => HeldOnce
    BY DEF LoopInit, AllocatorInit, HeldOnce
  <1>2. LoopInv /\ HeldOnce /\ [LoopNext]_vars => HeldOnce'
    BY HeldOnceStep
  <1>3. LoopInv /\ HeldOnce => BlocksExclusive
    <2> SUFFICES ASSUME LoopInv, HeldOnce PROVE BlocksExclusive
      OBVIOUS
    <2>1. inUseBlocks = { block[c] : c \in { d \in Callers : pc[d] = "holding" } }
      BY DEF HeldOnce
    <2>2. ASSUME NEW c \in Callers, NEW d \in Callers,
                 c # d, pc[c] = "holding", pc[d] = "holding"
          PROVE  IDsOf(block[c]) \cap IDsOf(block[d]) = {}
      <3>1. block[c] \in Blocks /\ block[d] \in Blocks /\ block[c] # block[d]
        BY <2>2 DEF HeldOnce, LoopInv, LoopTypeOK, AllocatorTypeOK
      <3> QED  BY <3>1, BlocksDisjoint
    <2> QED  BY <2>1, <2>2 DEF BlocksExclusive
  <1> QED  BY <1>1, <1>2, <1>3, LoopInvariant, PTL DEF LoopSpec
=============================================================================
