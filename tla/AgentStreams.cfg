SPECIFICATION FairSpec
CONSTANTS
    AgentIDs = {a1, a2}
    Conns = {s1, s2, s3}
    Senders = {j1}
    MaxConnects = 2
    NoAgent = NoAgent
    NoConn = NoConn
INVARIANT NoDanglingStream
PROPERTY DeadStreamsForgotten
