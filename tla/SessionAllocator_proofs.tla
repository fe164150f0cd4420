----------------------- MODULE SessionAllocator_proofs -----------------------
(***************************************************************************)
(* Proofs about the allocator, for every range and every block size that   *)
(* NewController accepts.                                                  *)
(***************************************************************************)
EXTENDS SessionAllocator, TLAPS

(***************************************************************************)
(* The division that computes maxBlocks: at least one block fits (the last *)
(* check of NewController), and one more would not.                        *)
(***************************************************************************)
LEMMA MaxBlocksBounds ==
    /\ MaxBlocks \in Nat \ {0}
    /\ MaxBlocks * BlockSize <= EndID - StartID
    /\ EndID - StartID < (MaxBlocks + 1) * BlockSize
  BY RangeAssumption DEF MaxBlocks

\* Multiplication by the block size is monotonic, which SMT needs spelled out.
LEMMA TimesMonotonic ==
    ASSUME NEW i \in Nat, NEW j \in Nat, i <= j
    PROVE  i * BlockSize <= j * BlockSize
  <1>1. j * BlockSize = i * BlockSize + (j - i) * BlockSize
    BY RangeAssumption
  <1>2. (j - i) * BlockSize >= 0
    BY RangeAssumption
  <1> QED  BY <1>1, <1>2, RangeAssumption

\* A block lies inside the range given to NewController.
LEMMA BlockInRange ==
    ASSUME NEW b \in Blocks
    PROVE  b \in Nat /\ StartID <= b /\ b + BlockSize <= EndID
  <1>1. PICK i \in 0 .. MaxBlocks - 1 : b = StartID + i * BlockSize
    BY DEF Blocks, BlockID
  <1>2. (i + 1) * BlockSize <= MaxBlocks * BlockSize
    BY MaxBlocksBounds, TimesMonotonic
  <1>3. (i + 1) * BlockSize = i * BlockSize + BlockSize /\ i * BlockSize \in Nat
    BY MaxBlocksBounds, RangeAssumption
  <1> QED  BY <1>1, <1>2, <1>3, MaxBlocksBounds, RangeAssumption

\* Two blocks never share an ID.
THEOREM BlocksDisjoint ==
    ASSUME NEW b \in Blocks, NEW c \in Blocks, b # c
    PROVE  IDsOf(b) \cap IDsOf(c) = {}
  <1>1. PICK i \in 0 .. MaxBlocks - 1 : b = StartID + i * BlockSize
    BY DEF Blocks, BlockID
  <1>2. PICK j \in 0 .. MaxBlocks - 1 : c = StartID + j * BlockSize
    BY DEF Blocks, BlockID
  <1>3. \A k \in Nat : (k + 1) * BlockSize = k * BlockSize + BlockSize
    BY RangeAssumption
  <1>4. CASE i < j
    <2>1. (i + 1) * BlockSize <= j * BlockSize
      BY <1>4, TimesMonotonic, MaxBlocksBounds
    <2>2. b + BlockSize <= c
      BY <2>1, <1>1, <1>2, <1>3, MaxBlocksBounds, RangeAssumption
    <2> QED  BY <2>2, BlockInRange, RangeAssumption DEF IDsOf
  <1>5. CASE j < i
    <2>1. (j + 1) * BlockSize <= i * BlockSize
      BY <1>5, TimesMonotonic, MaxBlocksBounds
    <2>2. c + BlockSize <= b
      BY <2>1, <1>1, <1>2, <1>3, MaxBlocksBounds, RangeAssumption
    <2> QED  BY <2>2, BlockInRange, RangeAssumption DEF IDsOf
  <1> QED  BY <1>1, <1>2, <1>4, <1>5, MaxBlocksBounds

\* The search may start at the start of the range: NewController makes it so.
LEMMA StartIsCursor == StartID \in Cursors /\ StartID < EndID
  <1>1. 0 \in 0 .. MaxBlocks
    BY MaxBlocksBounds
  <1>2. StartID = BlockID(0)
    BY RangeAssumption DEF BlockID
  <1> QED  BY <1>1, <1>2, RangeAssumption DEF Cursors

\* The search never leaves the block grid: what follows a block is the next
\* block, the start of the range, or the rest that is too short for a block.
LEMMA AfterIsCursor ==
    ASSUME NEW b \in Blocks
    PROVE  After(b) \in Cursors /\ After(b) < EndID
  <1>1. PICK i \in 0 .. MaxBlocks - 1 : b = StartID + i * BlockSize
    BY DEF Blocks, BlockID
  <1>2. (i + 1) * BlockSize = i * BlockSize + BlockSize
    BY MaxBlocksBounds, RangeAssumption
  <1>3. b + BlockSize \in Cursors
    <2>1. i + 1 \in 0 .. MaxBlocks /\ b + BlockSize = BlockID(i + 1)
      BY <1>1, <1>2, MaxBlocksBounds, RangeAssumption DEF BlockID
    <2> QED  BY <2>1 DEF Cursors
  <1> QED  BY <1>3, StartIsCursor, BlockInRange, RangeAssumption DEF After

\* Each operation keeps the type invariant; Controller_proofs cites these.
LEMMA AllocateTypeOK ==
    ASSUME AllocatorTypeOK, NEW b \in Blocks, AllocateSessionID(b)
    PROVE  AllocatorTypeOK'
  BY AfterIsCursor DEF AllocatorTypeOK, AllocateSessionID, Cursors, Blocks

LEMMA ReleaseTypeOK ==
    ASSUME AllocatorTypeOK, NEW b, ReleaseSessionID(b)
    PROVE  AllocatorTypeOK'
  BY DEF AllocatorTypeOK, ReleaseSessionID, Cursors, Blocks

LEMMA AllocatorInitTypeOK == AllocatorInit => AllocatorTypeOK
  BY StartIsCursor DEF AllocatorInit, AllocatorTypeOK

LEMMA AllocatorUnchangedTypeOK ==
    ASSUME AllocatorTypeOK, UNCHANGED allocatorVars
    PROVE  AllocatorTypeOK'
  BY DEF AllocatorTypeOK, allocatorVars, Cursors, Blocks

\* The type invariant of the allocator: only whole blocks inside the range are
\* ever handed out, and the search always starts on the block grid.
THEOREM AllocatorTypeCorrect == AllocatorSpec => []AllocatorTypeOK
  <1>1. AllocatorTypeOK /\ [AllocatorNext]_allocatorVars => AllocatorTypeOK'
    BY AllocateTypeOK, ReleaseTypeOK, AllocatorUnchangedTypeOK
    DEF AllocatorNext, AllocationFails
  <1> QED  BY <1>1, AllocatorInitTypeOK, PTL DEF AllocatorSpec
=============================================================================
