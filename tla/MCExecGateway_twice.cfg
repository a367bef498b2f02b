SPECIFICATION GatewaySpec
CONSTANTS
    Symbols <- MCSymbols
    Underlyings <- MCUnderlyings
    LotSize <- MCLotSize
    Cash = 1000
    MaxLots = 3
    OrderForms <- MCOrders
    PlanForms = {}
    Quotes = {}
    ChainStates <- MCChain
    ReplayLimit = 100
    AuditKept = 1
    Unknown = Unknown
    NoAudit = NoAudit
    MaxRows <- MCRows
    MaxIssued = 1
    DryRun = FALSE
    NoCall = NoCall
    MaxFaults = 1
INVARIANTS
    FilledOnceLive
