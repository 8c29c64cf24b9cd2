SPECIFICATION Spec
CONSTANTS
    Order = {o1}
    LastPayment = 2
    LastItem = 2
    ProductOf <- Distinct
    Price <- PriceList
    Booking = {b1}
    Staff = {s1}
    Key = {k1}
    MaxReports = 2
    MaxUnderway = 1
    Circumstance = {}
SYMMETRY Symmetry
INVARIANT PaidOrderIsCovered
CHECK_DEADLOCK FALSE
