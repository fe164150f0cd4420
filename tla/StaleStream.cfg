SPECIFICATION FairSpec
CONSTANTS
    AgentIDs = {a1}
    Conns = {s1, s2}
    Senders = {j1}
    MaxConnects = 2
    NoAgent = NoAgent
    NoConn = NoConn
PROPERTY ConnectedAgentsReachable
