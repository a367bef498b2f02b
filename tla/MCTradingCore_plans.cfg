SPECIFICATION Spec
CONSTANTS
    Symbols <- MCSymbols
    Underlyings <- MCUnderlyings
    LotSize <- MCLotSize
    Cash = 100
    MaxLots = 3
    OrderForms <- MCRefused
    PlanForms <- MCPlans
    Quotes = {}
    ChainStates <- MCChain
    ReplayLimit = 100
    AuditKept = 0
    Unknown = Unknown
    NoAudit = NoAudit
    MaxRows <- PlanRows
    MaxIssued = 2
INVARIANTS
    TypeOK
    ReplayFaithful
    PositionsAreNetFills
PROPERTIES
    CloseAllFlattens
