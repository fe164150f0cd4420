SPECIFICATION FairSpec
CONSTANTS
    Jobs = {j1, j2}
    Packets = {p1}
    SenderWorkers = {w1}
    ListenerWorkers = {w2}
    ChanSize = 1
    Register = Register
    NoItem = NoItem
INVARIANT TypeOK
INVARIANT PoolsOutliveProducers
INVARIANT ItemsConserved
PROPERTY ImplementsRelay
PROPERTY Stops
PROPERTY ItemsSettled
