SPECIFICATION Spec
CONSTANTS
    Customer = {}
    Guest = Guest
    Nobody = Nobody
    Staff = {s1, s2}
    LastTicket = 2
    LastDay = 0
    QueueStatus = {"open"}
    Capacity = {2}
    MaxAbsence = 3
    DeferralSlots = 1
    AllowSkip = FALSE
    Joins = FALSE
    InitialStock = 0
    Quantity = {0}
    ReservationsExpire = FALSE
    StaffPatchOrders = FALSE
    LateBookings = FALSE
INVARIANT AbsencesBelowLimit
CHECK_DEADLOCK FALSE
