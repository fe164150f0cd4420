SPECIFICATION FairSpec
CONSTANTS
    Requests = {r1, r2}
    Streams = {s1, s2}
    Confs <- FittingConfs
    MaxCopies = 1
    StartID = 65533
    EndID = 65537
    BlockSize = 2
    NoRequest = NoRequest
    NoBlock = NoBlock
    NoCode = NoCode
    NoDone = NoDone
INVARIANT TypeOK
INVARIANT RepliesToOwner
INVARIANT FinishedIsComplete
PROPERTY ImplementsLiveService
