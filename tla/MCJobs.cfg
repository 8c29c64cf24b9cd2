SPECIFICATION FairSpec
CONSTANTS
    Process = {p1, p2}
    Job = {j1, j2}
    Locked = {j1, j2}
    PoolMax = 2
    MaxRetries = 1
    Stopping = {p1}
    Fault = {"die", "lose", "error"}
    MaxFaults = 1
    Serving = {p1}
    MaxRequests = 1
    MaxCycles = 2
INVARIANT TypeOK
INVARIANT OneRunPerJob
INVARIANT RunIsVisible
INVARIANT LockHasCycle
PROPERTY EveryCycleEnds
