SPECIFICATION FairBridgeSpec
CONSTANTS
    t1 = t1
    n1 = n1
    n2 = n2
    Decisions <- MCDecisions
    Trades = {t1}
    Notes = {n1, n2}
    NoTrade = NoTrade
    NoNote = NoNote
    EnforcedPlans <- MCEnforced
    Keep = 2
    MaxFaults = 1
INVARIANTS
    EnforcedEntersTwice
PROPERTIES
    KeepsPromises
    EodCloseReachesCore
