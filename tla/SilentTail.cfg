CONSTANTS
    Ident = 33000
    SrcPort = 258
    DefaultTTL = 2
    DefaultProbes = 2
    Numbers = {2}
    Ports = {65535}
    Protos = {"icmp"}
    MaxOptions = 1
    Answers <- MCAnswers
    NoProbe = NoProbe
    Stack <- MCStack
SPECIFICATION FairSpec
PROPERTIES
    EndsAtMaximum
