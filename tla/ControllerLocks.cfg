SPECIFICATION FairSpec
CONSTANTS
    Requests = {r1}
    Streams = {s1, s2}
    Mu = mu
    NoThread = NoThread
INVARIANT NoCircularWait
INVARIANT ReportIsSnapshot
PROPERTY SearchUndisturbed
PROPERTY LocksGranted
