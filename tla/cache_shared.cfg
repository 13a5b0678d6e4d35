SPECIFICATION Spec
CONSTANTS
    t1 = t1
    t2 = t2
    t3 = t3
    p1 = p1
    p2 = p2
    Threads <- MCThreads
    Procs = {p1, p2}
    ProcessOf <- MCProcessOf
    Wants <- MCWants
    Keys <- MCKeys
    Kind <- MCKind
    MaxAttempts = 2
    MaxVersions = 2
    MaxCalls = 1
    MaxCrashes = 1
CHECK_DEADLOCK FALSE
INVARIANT EntriesWhole
