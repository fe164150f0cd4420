CONSTANTS
    Ident = 33000
    SrcPort = 258
    DefaultTTL = 1
    DefaultProbes = 1
    Numbers = {1, 2}
    Ports = {65535}
    Protos = {"icmp", "other"}
    MaxOptions = 3
    Answers <- MCAnswers
    NoProbe = NoProbe
    Stack <- MCStack
SPECIFICATION FairSpec
INVARIANTS
    TypeOK
    TTLsInOrder
    WaitingExact
    SkippedAreSilent
    PrintedInOrder
    AnswersCredited
    NoOverrun
PROPERTIES
    PrintedIsFinal
    Terminates
