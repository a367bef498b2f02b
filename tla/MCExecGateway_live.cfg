SPECIFICATION GatewaySpec
CONSTANTS
    Symbols <- MCSymbols
    Underlyings <- MCUnderlyings
    LotSize <- MCLotSize
    Cash = 1000
    MaxLots = 3
    OrderForms <- MCSpotOrders
    PlanForms = {}
    Quotes = {}
    ChainStates <- MCChain
    ReplayLimit = 100
    AuditKept = 1
    Unknown = Unknown
    NoAudit = NoAudit
    MaxRows <- LiveRows
    MaxIssued = 2
    DryRun = FALSE
    NoCall = NoCall
    MaxFaults = 2
INVARIANTS
    SettledOnce
    SettledAtMostTwice
