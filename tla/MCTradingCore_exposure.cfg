SPECIFICATION Spec
CONSTANTS
    Symbols <- MCSymbols
    Underlyings <- MCUnderlyings
    LotSize <- MCLotSize
    Cash = 100
    MaxLots = 3
    OrderForms = {}
    PlanForms <- MCPlans
    Quotes <- OneQuote
    ChainStates <- MCChain
    ReplayLimit = 100
    AuditKept = 1
    Unknown = Unknown
    NoAudit = NoAudit
    MaxRows <- FewRows
    MaxIssued = 2
INVARIANTS
    NeverOverAllocated
