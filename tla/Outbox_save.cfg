SPECIFICATION SaveSpec
CONSTANTS
    e1 = e1
    e2 = e2
    c1 = c1
    Events = {e1, e2}
    Channels = {c1}
    Rows <- MCRows
    Corrupt <- MCCorrupt
    Tested = {c1}
    RetryLimit = 1
    MaxRevision = 3
    MaxFaults = 3
INVARIANTS
    SaveResetsBudget
CHECK_DEADLOCK FALSE
