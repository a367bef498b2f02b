SPECIFICATION FairBotSpec
CONSTANTS
    Symbols <- MCSymbols
    Plans <- MCPlans
    MaxOrders = 5
    MaxLegs = 1
    MaxCrashes = 2
INVARIANTS MapsToOpenTrades AdoptedOnce ClosesBounded
PROPERTIES RestartCovers FlatByClose
CHECK_DEADLOCK FALSE
