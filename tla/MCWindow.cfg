SPECIFICATION Spec
CONSTANTS
    Customer = {c1}
    Guest = Guest
    Nobody = Nobody
    Staff = {s1}
    LastTicket = 3
    LastDay = 0
    QueueStatus = {"open"}
    Capacity = {3}
    MaxAbsence = 2
    DeferralSlots = 1
    AllowSkip = TRUE
    Joins = TRUE
    InitialStock = 2
    Quantity = {1}
    ReservationsExpire = TRUE
    StaffPatchOrders = FALSE
    LateBookings = FALSE
SYMMETRY Symmetry
VIEW View
INVARIANT TypeOK
INVARIANT StockConserved
INVARIANT AtMostOneAtCounter
INVARIANT DeletedQueueIsEmpty
INVARIANT TicketMatchesOrderOrExpired
INVARIANT OneLiveOrderPerCustomer
PROPERTY TicketLifecycle
PROPERTY ImplementsWindow
CHECK_DEADLOCK FALSE
