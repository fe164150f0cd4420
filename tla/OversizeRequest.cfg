SPECIFICATION Spec
CONSTANTS
    Requests = {r1, r2}
    Streams = {s1}
    Confs <- OversizeConfs
    MaxCopies = 1
    StartID = 0
    EndID = 4
    BlockSize = 2
    NoRequest = NoRequest
    NoBlock = NoBlock
    NoCode = NoCode
    NoDone = NoDone
INVARIANT OneProgramPerID
