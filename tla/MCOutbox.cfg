SPECIFICATION Spec
CONSTANTS
    Notification = {called, done}
    Terminal = {done}
    Scanned = {called}
    Dispatcher = {d1}
    Run = {r1, r2}
    MaxAttempts = 2
    MaxManual = 1
    MaxStalls = 1
    Fault = {"dispatcher", "worker", "outage", "add", "database", "response"}
    MaxFaults = 2
SYMMETRY Symmetry
VIEW View
INVARIANT TypeOK
INVARIANT OneDeliveryPerRow
PROPERTY ImplementsDelivery
