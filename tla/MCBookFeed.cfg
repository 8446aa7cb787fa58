SPECIFICATION FeedSpec
CONSTANTS
    ClientIDs = {c1, c2}
    Users = {u1, u2}
    Prices = {1, 2}
    Quantities = {1, 2}
    MaxPlaced = 2
SYMMETRY Symmetric
INVARIANTS
    IndexAgrees
    VolumeCovers
    ReplicaConverges
CHECK_DEADLOCK FALSE
