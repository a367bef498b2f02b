SPECIFICATION Spec
CONSTANTS
    Symbols <- OneSymbol
    Underlyings <- MCUnderlyings
    LotSize <- MCLotSize
    Cash = 100
    MaxLots = 3
    OrderForms <- MCOrders
    PlanForms = {}
    Quotes <- OneQuote
    ChainStates <- OneChain
    ReplayLimit = 100
    AuditKept = 1
    Unknown = Unknown
    NoAudit = NoAudit
    MaxRows <- OrderRows
    MaxIssued = 2
INVARIANTS
    ReplayFaithful
    PauseSurvives
    PositionsAreNetFills
PROPERTIES
    CloseAllFlattens
    BookKept
