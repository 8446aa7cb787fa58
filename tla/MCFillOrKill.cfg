SPECIFICATION Spec
CONSTANTS
    u1 = u1
    u2 = u2
    ClientIDs = {c1, c2}
    Users = {u1, u2}
    Prices = {1, 2}
    Forms <- MixedForms
    MaxOrders = 2
    FreshIDs = TRUE
    Requests = {}
INVARIANTS
    KilledUntouched
CHECK_DEADLOCK FALSE
