SPECIFICATION FairSpec
CONSTANTS
    Notification = {called, done}
    Terminal = {done}
    Scanned = {}
    Dispatcher = {d1, d2}
    Run = {r1}
    MaxAttempts = 2
    MaxManual = 0
    MaxStalls = 1
    Fault = {"dispatcher", "response"}
    MaxFaults = 1
INVARIANT Recoverable
PROPERTY EveryNoticeEnds
