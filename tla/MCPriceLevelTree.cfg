SPECIFICATION Spec
CONSTANTS
    Prices = {1, 2, 3, 4, 5, 6}
    Descending = TRUE
INVARIANTS
    MapAgrees
PROPERTIES
    InsertEnds
    ImplementsSortedPrices
