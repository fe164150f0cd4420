SPECIFICATION LoopSpec
CONSTANTS
    StartID = 1
    EndID = 11
    BlockSize = 3
    Callers = {c1, c2, c3, c4}
    NoCaller = NoCaller
    NoBlock = NoBlock
INVARIANT LoopTypeOK
INVARIANT BlocksExclusive
PROPERTY RefusedOnlyWhenFull
PROPERTY ImplementsAllocator
PROPERTY CallsReturn
