SPECIFICATION Spec
CONSTANTS
    Symbols <- OneSymbol
    Underlyings <- MCUnderlyings
    LotSize <- MCLotSize
    Cash = 100
    MaxLots = 3
    OrderForms <- MCOrders
    PlanForms = {}
    Quotes = {}
    ChainStates <- OneChain
    ReplayLimit = 100
    AuditKept = 1
    Unknown = Unknown
    NoAudit = NoAudit
    MaxRows <- FewRows
    MaxIssued = 2
INVARIANTS
    StateIsFold
