SPECIFICATION MarketSpec
CONSTANTS
    u1 = u1
    u2 = u2
    ClientIDs = {c1, c2, c3, c4}
    Users = {u1, u2}
    Prices = {1, 2, 3}
    Forms <- MCForms
    AuctionForms <- MCAuctionForms
    MaxCollected = 4
    FreshIDs = TRUE
    Requests = {}
SYMMETRY Symmetric
INVARIANTS
    NoOverfill
CHECK_DEADLOCK FALSE
