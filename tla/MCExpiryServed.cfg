SPECIFICATION Spec
CONSTANTS
    Customer = {c1}
    Guest = Guest
    Nobody = Nobody
    Staff = {s1}
    LastTicket = 2
    LastDay = 0
    QueueStatus = {"open"}
    Capacity = {2}
    MaxAbsence = 2
    DeferralSlots = 1
    AllowSkip = FALSE
    Joins = FALSE
    InitialStock = 2
    Quantity = {1}
    ReservationsExpire = TRUE
    StaffPatchOrders = FALSE
    LateBookings = FALSE
INVARIANT ServedGoodsConsumed
CHECK_DEADLOCK FALSE
