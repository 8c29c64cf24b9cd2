SPECIFICATION Spec
CONSTANTS
    Customer = {}
    Guest = Guest
    Nobody = Nobody
    Staff = {s1, s2}
    LastTicket = 4
    LastDay = 0
    QueueStatus = {"open", "paused"}
    Capacity = {2, 4}
    MaxAbsence = 2
    DeferralSlots = 2
    AllowSkip = FALSE
    Joins = FALSE
    InitialStock = 4
    Quantity = {1}
    ReservationsExpire = FALSE
    StaffPatchOrders = TRUE
    LateBookings = FALSE
SYMMETRY Symmetry
VIEW LineView
INVARIANT NoIdleWindow
INVARIANT AbsencesOverrunLittle
PROPERTY CapacityRespected
PROPERTY FirstComeFirstServed
PROPERTY DeferralIsExact
PROPERTY ImplementsLine
CHECK_DEADLOCK FALSE
