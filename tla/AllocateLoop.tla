---------------------------- MODULE AllocateLoop ----------------------------
(***************************************************************************)
(* AllocateSessionID of internal/controller/controller.go as it is         *)
(* written: the handlers of concurrent user requests compete for the lock  *)
(* c.mu, and the one that holds it looks at one block per step.            *)
(*                                                                         *)
(* SessionAllocator, which declares the two fields, is its abstraction:    *)
(* there a call is one step.                                               *)
(***************************************************************************)
EXTENDS SessionAllocator

CONSTANTS Callers,   \* the handlers of the user requests
          NoCaller,  \* nobody holds c.mu
          NoBlock    \* the caller has no block

ASSUME CallersAssumption == NoCaller \notin Callers /\ NoBlock \notin Blocks

VARIABLES mu,              \* the caller that holds c.mu
          currentID,       \* locals of the call that holds c.mu
          blocksChecked,
          pc,              \* where each caller is
          block            \* the ID a caller was given and must release

vars == <<nextSessionID, inUseBlocks, mu, currentID, blocksChecked, pc, block>>
-----------------------------------------------------------------------------
Transition(c, from, to) ==
    /\ pc[c] = from
    /\ pc' = [pc EXCEPT ![c] = to]

\* Mutation: the cursor moves on by one ID too few.
AfterOverlaps(id) ==
    IF id + BlockSize >= EndID THEN StartID ELSE id + BlockSize - 1

\* Mutation: the cursor stays at the block that was just handed out.
AfterStays(id) == id

AfterTake(id) ==
    IF id + BlockSize >= EndID THEN StartID ELSE id + BlockSize

LoopInit ==
    /\ AllocatorInit
    /\ mu = NoCaller
    /\ currentID = StartID
    /\ blocksChecked = 0
    /\ pc = [c \in Callers |-> "idle"]
    /\ block = [c \in Callers |-> NoBlock]

Call(c) ==
    /\ Transition(c, "idle", "locking")
    /\ UNCHANGED <<nextSessionID, inUseBlocks, mu, currentID, blocksChecked, block>>

Lock(c) ==
    /\ Transition(c, "locking", "searching")
    /\ mu = NoCaller
    /\ mu' = c
    /\ currentID' = nextSessionID
    /\ blocksChecked' = 0
    /\ UNCHANGED <<nextSessionID, inUseBlocks, block>>

\* The block this iteration looks at: currentID, brought back to the start of
\* the range when no whole block is left above it.
Candidate ==
    IF currentID < StartID \/ currentID + BlockSize > EndID
    THEN StartID
    ELSE currentID

\* Mutation: the bound of the loop is off by one.
StopsOneEarly == blocksChecked < MaxBlocks - 1

LoopContinues == blocksChecked < MaxBlocks

\* Mutation: the iteration is not counted, so a full range is searched forever.
SkipUncounted(c) ==
    /\ pc[c] = "searching"
    /\ LoopContinues
    /\ Candidate \in inUseBlocks
    /\ currentID' = Candidate + BlockSize
    /\ UNCHANGED <<nextSessionID, inUseBlocks, mu, blocksChecked, pc, block>>

Skip(c) ==
    /\ pc[c] = "searching"
    /\ LoopContinues
    /\ Candidate \in inUseBlocks
    /\ currentID' = Candidate + BlockSize
    /\ blocksChecked' = blocksChecked + 1
    /\ UNCHANGED <<nextSessionID, inUseBlocks, mu, pc, block>>

Take(c) ==
    /\ Transition(c, "searching", "holding")
    /\ LoopContinues
    /\ Candidate \notin inUseBlocks
    /\ inUseBlocks' = inUseBlocks \cup {Candidate}
    /\ nextSessionID' = AfterTake(Candidate)
    /\ block' = [block EXCEPT ![c] = Candidate]
    /\ mu' = NoCaller
    /\ UNCHANGED <<currentID, blocksChecked>>

Fail(c) ==
    /\ Transition(c, "searching", "refused")
    /\ ~LoopContinues
    /\ mu' = NoCaller
    /\ UNCHANGED <<nextSessionID, inUseBlocks, currentID, blocksChecked, block>>

\* The deferred ReleaseSessionID: locks, deletes one entry, unlocks.
Release(c) ==
    /\ Transition(c, "holding", "idle")
    /\ mu = NoCaller
    /\ inUseBlocks' = inUseBlocks \ {block[c]}
    /\ block' = [block EXCEPT ![c] = NoBlock]
    /\ UNCHANGED <<nextSessionID, mu, currentID, blocksChecked>>

\* A refused user may ask again.
Retry(c) ==
    /\ Transition(c, "refused", "idle")
    /\ UNCHANGED <<nextSessionID, inUseBlocks, mu, currentID, blocksChecked, block>>

LoopNext ==
    \E c \in Callers :
        \/ Call(c) \/ Lock(c) \/ Skip(c) \/ Take(c)
        \/ Fail(c) \/ Release(c) \/ Retry(c)

(***************************************************************************)
(* A call that got the lock runs on, and a Go mutex starves nobody who     *)
(* waits for it. Nothing makes a user call, or give a block back.          *)
(***************************************************************************)
LoopFairness ==
    \A c \in Callers :
        /\ SF_vars(Lock(c))
        /\ WF_vars(Skip(c) \/ Take(c) \/ Fail(c))

LoopSpec == LoopInit /\ [][LoopNext]_vars /\ LoopFairness
-----------------------------------------------------------------------------
LoopTypeOK ==
    /\ AllocatorTypeOK
    /\ mu \in Callers \cup {NoCaller}
    /\ \A c \in Callers : mu = c <=> pc[c] = "searching"
    /\ currentID \in Cursors
    /\ blocksChecked \in 0 .. MaxBlocks
    /\ pc \in [Callers -> {"idle", "locking", "searching", "holding", "refused"}]
    /\ block \in [Callers -> Blocks \cup {NoBlock}]

(***************************************************************************)
(* The blocks that two users hold at the same time share no ID, and what   *)
(* is marked in use is exactly what somebody holds and will give back.     *)
(***************************************************************************)
BlocksExclusive ==
    /\ inUseBlocks = { block[c] : c \in { d \in Callers : pc[d] = "holding" } }
    /\ \A c, d \in Callers :
          c # d /\ pc[c] = "holding" /\ pc[d] = "holding"
          => IDsOf(block[c]) \cap IDsOf(block[d]) = {}

(***************************************************************************)
(* The bounded search misses no free block, wherever it starts and         *)
(* although it wraps around a range that is no multiple of the block size: *)
(* it gives up only when every block is handed out.                        *)
(***************************************************************************)
RefusedOnlyWhenFull ==
    [][\A c \in Callers : Fail(c) => Blocks = inUseBlocks]_vars

\* The loop behaves as the one-step allocator of SessionAllocator: the block it
\* returns is the first free one from nextSessionID on, cyclically.
ImplementsAllocator == AllocatorSpec

\* Every call of AllocateSessionID returns, with a block or an error.
CallsReturn ==
    \A c \in Callers : pc[c] = "locking" ~> pc[c] \in {"holding", "refused"}
=============================================================================
