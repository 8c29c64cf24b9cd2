SPECIFICATION Spec
CONSTANTS
    Order = {o1, o2}
    LastPayment = 2
    LastItem = 2
    ProductOf <- Distinct
    Price <- PriceList
    Booking = {b1, b2}
    Staff = {s1}
    Key = {k1}
    MaxReports = 2
    MaxUnderway = 2
    Circumstance = {}
CONSTRAINT Bound
SYMMETRY Symmetry
INVARIANT TypeOK
INVARIANT PaidIsCollected
INVARIANT CollectedIsRecorded
INVARIANT SpentOnce
PROPERTY CancelledIsRefunded
PROPERTY RefundNeverShrinks
CHECK_DEADLOCK FALSE
