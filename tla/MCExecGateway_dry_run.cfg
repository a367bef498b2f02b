SPECIFICATION FairGatewaySpec
CONSTANTS
    Symbols <- MCSymbols
    Underlyings <- MCUnderlyings
    LotSize <- MCLotSize
    Cash = 1000
    MaxLots = 3
    OrderForms = {}
    PlanForms <- MCPlans
    Quotes = {}
    ChainStates <- MCChain
    ReplayLimit = 100
    AuditKept = 1
    Unknown = Unknown
    NoAudit = NoAudit
    MaxRows <- MCRows
    MaxIssued = 2
    DryRun = TRUE
    NoCall = NoCall
    MaxFaults = 2
INVARIANTS
    SettledOnce
PROPERTIES
    PaperCatchesUp
