SPECIFICATION Spec
CONSTANTS
    Requests = {r1, r2, r3}
    Streams = {s1}
    Confs <- OneProbe
    MaxCopies = 1
    StartID = 0
    EndID = 2
    BlockSize = 1
    NoRequest = NoRequest
    NoBlock = NoBlock
    NoCode = NoCode
    NoDone = NoDone
SYMMETRY Symmetric
INVARIANT BlocksHeldOnce
INVARIANT ProgramsAreRunning
INVARIANT NoMixing
INVARIANT OnlyFormerOwners
PROPERTY ImplementsService
