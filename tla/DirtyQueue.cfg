SPECIFICATION FairSpec
CONSTANTS
    Servers = {s1, s2, s3}
    Workers = {w1, w2}
    NoServer = NoServer
    MaxReport = 2
INVARIANTS
    NoLostWakeup
PROPERTIES
    LatestSnapshotHandedOut
    ImplementsDirtyWork
    MarkedIsEvaluated
CHECK_DEADLOCK FALSE
