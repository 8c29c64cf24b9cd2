SPECIFICATION Spec
CONSTANTS
    Notification = {called, done}
    Terminal = {done}
    Scanned = {called}
    Dispatcher = {d1}
    Run = {r1, r2}
    MaxAttempts = 3
    MaxManual = 0
    MaxStalls = 1
    Fault = {"timeout", "response"}
    MaxFaults = 2
SYMMETRY Symmetry
INVARIANT AttemptsMadeOnce
INVARIANT SentWasAccepted
