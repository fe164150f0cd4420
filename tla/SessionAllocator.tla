-------------------------- MODULE SessionAllocator --------------------------
(***************************************************************************)
(* The session blocks of the controller: AllocateSessionID and             *)
(* ReleaseSessionID of internal/controller/controller.go.                  *)
(*                                                                         *)
(* Both run from beginning to end under the write lock c.mu and are the    *)
(* only code that touches the two fields below, so each is one action.     *)
(* AllocateLoop opens the search up again, one loop iteration per step.    *)
(***************************************************************************)
EXTENDS Integers

CONSTANTS StartID,      \* first ID of the range given to NewController
          EndID,        \* one past the last ID of the range
          BlockSize     \* number of IDs handed to one measurement

(***************************************************************************)
(* What NewController accepts, and that currentID + blockSize, which the   *)
(* search computes for IDs up to EndID, is an int32.                       *)
(***************************************************************************)
ASSUME RangeAssumption ==
    /\ StartID \in Nat
    /\ EndID \in Nat
    /\ BlockSize \in Nat \ {0}
    /\ StartID < EndID
    /\ BlockSize <= EndID - StartID

ASSUME Int32Assumption == EndID + BlockSize <= 2147483647

VARIABLES nextSessionID,  \* where the next search starts
          inUseBlocks     \* first IDs of the blocks handed out

allocatorVars == <<nextSessionID, inUseBlocks>>
-----------------------------------------------------------------------------
\* maxBlocks: the whole blocks the range holds; a shorter rest is never used.
MaxBlocks == (EndID - StartID) \div BlockSize

BlockID(i) == StartID + i * BlockSize

Blocks == { BlockID(i) : i \in 0 .. MaxBlocks - 1 }

\* The IDs, hence the UDP destination ports, that belong to block b.
IDsOf(b) == b .. b + BlockSize - 1

Free == Blocks \ inUseBlocks

(***************************************************************************)
(* The search goes up from nextSessionID to the end of the range and then  *)
(* from StartID: b comes up before c.                                      *)
(***************************************************************************)
SearchedBefore(b, c) ==
    \/ b >= nextSessionID /\ c < nextSessionID
    \/ (b >= nextSessionID <=> c >= nextSessionID) /\ b < c

\* Where the next search starts once b is handed out.
After(b) == IF b + BlockSize >= EndID THEN StartID ELSE b + BlockSize

AllocatorInit ==
    /\ nextSessionID = StartID
    /\ inUseBlocks = {}

\* AllocateSessionID returns b: the first free block the search comes to.
AllocateSessionID(b) ==
    /\ b \in Free
    /\ \A c \in Free \ {b} : SearchedBefore(b, c)
    /\ inUseBlocks' = inUseBlocks \cup {b}
    /\ nextSessionID' = After(b)

\* Mutation: the search gives up one block too early.
FailsOneEarly ==
    /\ \E b \in Blocks : Free \subseteq {b}
    /\ UNCHANGED allocatorVars

\* AllocateSessionID returns an error: maxBlocks blocks looked at, none free.
AllocationFails ==
    /\ Free = {}
    /\ UNCHANGED allocatorVars

ReleaseSessionID(b) ==
    /\ inUseBlocks' = inUseBlocks \ {b}
    /\ UNCHANGED nextSessionID

(***************************************************************************)
(* The allocator on its own: whoever was given a block gives it back once. *)
(***************************************************************************)
AllocatorNext ==
    \/ \E b \in Blocks : AllocateSessionID(b)
    \/ AllocationFails
    \/ \E b \in inUseBlocks : ReleaseSessionID(b)

AllocatorSpec == AllocatorInit /\ [][AllocatorNext]_allocatorVars
-----------------------------------------------------------------------------
\* Every value the search may start from: a block, or the rest of the range
\* that is too short for one.
Cursors == { BlockID(i) : i \in 0 .. MaxBlocks }

AllocatorTypeOK ==
    /\ nextSessionID \in Cursors
    /\ nextSessionID < EndID
    /\ inUseBlocks \subseteq Blocks
=============================================================================
