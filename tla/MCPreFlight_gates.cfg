SPECIFICATION Spec
CONSTANTS
    Symbols <- MCSymbols
    Underlyings <- MCUnderlyings
    LotSize <- MCLotSize
    Cash = 200
    MaxLots = 3
    OrderRequests <- MCOrders
    PlanRequests <- MCPlans
    HeldStates <- MCHeld
    TickStates <- MCTicks
    ChainStates <- MCChain
INVARIANTS
    FilledOrderWithinCap
    LessIsAccepted
    FilledPlanWithinCap
\* a request is judged once
CHECK_DEADLOCK FALSE
