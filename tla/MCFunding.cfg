SPECIFICATION FundingSpec
CONSTANTS
    FundingSymbols = {f1}
    FundingPrices = {0, 100, 101}
    SlotsPerMinute = 2
    MinutesPerHour = 2
    MaxDelay = 1
    Horizon = 68
PROPERTY SettledWhenDue
CHECK_DEADLOCK FALSE
