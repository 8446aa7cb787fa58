SPECIFICATION Spec
CONSTANTS
    Users <- MCUsers
    Prices = {119700, 157300}
    One = 1000
    MaintenanceRate = 50
    LiquidationCapacity = 2
    ADLCapacity = 1
    Goroutines = {g1, g2}
    Liquidators = {g2}
    TradePrices = {126000, 151200}
    ContractForms <- MCForms
    TPSLPrices <- MCTPSLPrices
    MaxLeverage = 20
    MaxOrderQty = 4
    MaxCalls = 4
INVARIANTS
    TypeOK
    PnlIsCash
PROPERTIES
    LiquidationExact
    TPSLStands
    TriggeredExecutes
    UnderwaterQueued
CHECK_DEADLOCK FALSE
