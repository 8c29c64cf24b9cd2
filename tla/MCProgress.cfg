SPECIFICATION FairSpec
CONSTANTS
    Customer = {}
    Guest = Guest
    Nobody = Nobody
    Staff = {s1}
    LastTicket = 3
    LastDay = 1
    QueueStatus = {"open"}
    Capacity = {3}
    MaxAbsence = 2
    DeferralSlots = 1
    AllowSkip = FALSE
    Joins = FALSE
    InitialStock = 3
    Quantity = {1}
    ReservationsExpire = FALSE
    StaffPatchOrders = FALSE
    LateBookings = TRUE
INVARIANT TicketMatchesOrder
INVARIANT NextNumberIsFree
PROPERTY EveryTicketEnds
CHECK_DEADLOCK FALSE
