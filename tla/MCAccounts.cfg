SPECIFICATION FairSpec
CONSTANTS
    o = o
    m1 = m1
    m2 = m2
    s = s
    b1 = b1
    Owner = o
    Manager = {m1, m2}
    Staff = {s}
    Branch = {b1}
    BranchLimit = 1
    Resetting = {s}
    MaxResets = 2
    Circumstance = {}
    Email <- AllEmail
    WithLink <- Token
    Delivered <- SomeEmail
    Worker = {w1, w2}
    Batch = 1
    MaxAttempts = 2
    MaxFaults = 1
INVARIANT TypeOK
INVARIANT BranchKeepsManager
INVARIANT AccountsAgree
INVARIANT LinkIsMailedOrGivenUp
PROPERTY EveryEmailEnds
CHECK_DEADLOCK FALSE
