SPECIFICATION Spec
CONSTANTS
    u1 = u1
    u2 = u2
    ClientIDs = {c1, c2, c3, c4}
    Users = {u1, u2}
    Prices = {1, 2, 3}
    Forms <- StopForms
    MaxOrders = 4
    FreshIDs = TRUE
    Requests = {"cancel_all"}
SYMMETRY Symmetric
INVARIANTS
    BookNotCrossed
    LastPriceTrue
    StopsAgree
    NothingLost
PROPERTIES
    NoMissedTrigger
    CancelAllComplete
CHECK_DEADLOCK FALSE
