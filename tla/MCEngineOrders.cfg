SPECIFICATION Spec
CONSTANTS
    u1 = u1
    u2 = u2
    ClientIDs = {c1, c2, c3}
    Users = {u1, u2}
    Prices = {1, 2}
    Forms <- MixedForms
    MaxOrders = 3
    FreshIDs = TRUE
    Requests = {"cancel", "pause"}
INVARIANTS
    NoOverfill
    FilledIsFilled
    NoFilledRests
PROPERTIES
    BestFirst
    EngineReturns
CHECK_DEADLOCK FALSE
