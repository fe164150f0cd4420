SPECIFICATION Spec
CONSTANTS
    Requests = {r1}
    Streams = {s1}
    Confs <- OneProbe
    MaxCopies = 1
    StartID = 0
    EndID = 2
    BlockSize = 2
    NoRequest = NoRequest
    NoBlock = NoBlock
    NoCode = NoCode
    NoDone = NoDone
INVARIANT NoMissedCompletion
