---------------------------- MODULE TradingCore ----------------------------
(***************************************************************************)
(* The event-sourced trading core: the event log of                        *)
(* system/core/store/event_store.py, the projection folded from it         *)
(* (system/core/domain/state.py) and the handlers of the HTTP API          *)
(* (system/core/api/server.py), with crashes and restarts of the process.  *)
(*                                                                         *)
(* The handlers run on one asyncio loop and await nothing between reading  *)
(* the projection and broadcasting, so each is one step, except those that *)
(* commit two transactions: close_all and force_action append their        *)
(* AUDIT_LOG event separately, and the process may die in between.  audit  *)
(* names the record still to be appended; the loop serves nobody else      *)
(* until it is.                                                            *)
(*                                                                         *)
(* Orders are numbered by acceptance: the core draws a fresh uuid for each *)
(* leg without a client_order_id, and no client sends one.  issued is what *)
(* clients and the gateway have been told of, which RESET does not erase.  *)
(* Prices paid and P&L are left out: nothing here depends on them.         *)
(***************************************************************************)
EXTENDS PreFlight

CONSTANTS
    OrderForms,     \* orders a client may post to /api/order
    PlanForms,      \* sequences of orders a client may post to /api/plan
    Quotes,         \* quotes a data feed may post to /api/market_tick
    ChainStates,    \* contents of the option-chain file, in [Symbols -> Quote]
    ReplayLimit,    \* the limit of all_events: 100000 rows
    AuditKept,      \* audit entries the projection keeps: 100
    Unknown,        \* the symbol of a fill nobody can resolve
    NoAudit,        \* no audit record is pending
    MaxRows,        \* bound on the rows of the log of each event type
    MaxIssued       \* bound on the orders accepted

ForceActions == {"PAUSE", "RESUME", "CLOSE_ALL", "RESET", "RELOAD_BRAIN"}
EventTypes ==
    {"PLAN_SUBMITTED", "ORDER_PROPOSED", "ORDER_VALIDATED", "ORDER_REJECTED",
     "ORDER_FILLED", "ORDER_CANCELLED", "RISK_CIRCUIT_BREAKER", "AUDIT_LOG",
     "MARKET_TICK"}
Statuses == {"PROPOSED", "FILLED", "CANCELLED"}
Booked == Symbols \cup {Unknown}

ASSUME CoreParameters ==
    /\ OrderForms \subseteq Order
    /\ PlanForms \subseteq Seq(Order)
    /\ Quotes \subseteq Quote
    /\ ChainStates \subseteq [Symbols -> Quote]
    /\ ReplayLimit \in Nat
    /\ AuditKept \in Nat
    /\ Unknown \notin Symbols
    /\ NoAudit \notin ForceActions
    /\ MaxRows \in [EventTypes -> Nat]
    /\ MaxIssued \in Nat

VARIABLES
    log,        \* the rows of the events table, in rowid order
    proj,       \* app.state.projection
    up,         \* is the process running?
    audit,      \* the action whose AUDIT_LOG event is still to be appended
    issued      \* the accepted orders, order n under client_order_id n

vars == << log, proj, up, audit, issued >>

---------------------------------------------------------------------------
(* Events.  An order_id of 0 is one the core has never issued. *)

Proposed(id, order, plan) ==
    [type |-> "ORDER_PROPOSED", id |-> id, order |-> order, plan |-> plan]
Validated(id) == [type |-> "ORDER_VALIDATED", id |-> id]
Rejected(id) == [type |-> "ORDER_REJECTED", id |-> id]
Filled(id, symbol, side, qty) ==
    [type |-> "ORDER_FILLED", id |-> id, symbol |-> symbol, side |-> side,
     qty |-> qty]
Cancelled(id) == [type |-> "ORDER_CANCELLED", id |-> id]
PlanSubmitted(plan) == [type |-> "PLAN_SUBMITTED", plan |-> plan]
CircuitBreaker == [type |-> "RISK_CIRCUIT_BREAKER"]
AuditLog(action) == [type |-> "AUDIT_LOG", action |-> action]
MarketTick(symbol, quote) ==
    [type |-> "MARKET_TICK", symbol |-> symbol, quote |-> quote]

Event ==
    [type : {"ORDER_PROPOSED"}, id : Nat \ {0}, order : Order, plan : Nat]
    \cup [type : {"ORDER_VALIDATED", "ORDER_REJECTED", "ORDER_CANCELLED"}, id : Nat]
    \cup [type : {"ORDER_FILLED"}, id : Nat, symbol : Booked, side : Sides, qty : Nat]
    \cup [type : {"PLAN_SUBMITTED"}, plan : Nat]
    \cup [type : {"RISK_CIRCUIT_BREAKER"}]
    \cup [type : {"AUDIT_LOG"}, action : ForceActions]
    \cup [type : {"MARKET_TICK"}, symbol : Symbols, quote : Quote]

---------------------------------------------------------------------------
(* The projection and its fold. *)

Fresh ==
    [orders |-> << >>, held |-> [s \in Booked |-> 0], plans |-> {},
     ticks |-> << >>, rejections |-> 0, paused |-> FALSE, audits |-> << >>]

\* function f with f[x] = y, x in its domain before or not
Put(f, x, y) == [z \in DOMAIN f \cup {x} |-> IF z = x THEN y ELSE f[z]]

WithStatus(orders, id, status) ==
    IF id \in DOMAIN orders THEN [orders EXCEPT ![id].status = status] ELSE orders

\* (mutation) every fill booked on the symbol and side of its payload
FillTargetPayload(orders, e) == e

\* a fill of a known order is booked on the order's symbol and side, any other
\* on the symbol and side of the payload
FillTarget(orders, e) == IF e.id \in DOMAIN orders THEN orders[e.id].order ELSE e

\* (mutation) one entry too many
LastOfPlusOne(s, n) ==
    IF Len(s) <= n THEN s ELSE SubSeq(s, Len(s) - n, Len(s))

\* the last n elements of s
LastOf(s, n) == IF Len(s) <= n THEN s ELSE SubSeq(s, Len(s) - n + 1, Len(s))

Apply(p, e) ==
    CASE e.type = "ORDER_PROPOSED" ->
            [p EXCEPT !.orders = Put(@, e.id, [order |-> e.order, plan |-> e.plan,
                                               status |-> "PROPOSED"])]
      [] e.type = "ORDER_REJECTED" -> [p EXCEPT !.rejections = @ + 1]
      [] e.type = "ORDER_FILLED" ->
            LET t == FillTarget(p.orders, e)
            IN  [p EXCEPT !.orders = WithStatus(@, e.id, "FILLED"),
                          !.held[t.symbol] = @ + Signed(t.side, e.qty)]
      [] e.type = "ORDER_CANCELLED" ->
            [p EXCEPT !.orders = WithStatus(@, e.id, "CANCELLED")]
      [] e.type = "PLAN_SUBMITTED" -> [p EXCEPT !.plans = @ \cup {e.plan}]
      [] e.type = "RISK_CIRCUIT_BREAKER" -> [p EXCEPT !.paused = TRUE]
      [] e.type = "AUDIT_LOG" ->
            [p EXCEPT !.audits = LastOf(Append(@, e.action), AuditKept)]
      [] e.type = "MARKET_TICK" -> [p EXCEPT !.ticks = Put(@, e.symbol, e.quote)]
      [] OTHER -> p

\* the projections met while applying the events of s to p, one per prefix
Folds(p, s) ==
    LET f[n \in 0..Len(s)] == IF n = 0 THEN p ELSE Apply(f[n-1], s[n])
    IN  f

ApplyAll(p, s) == Folds(p, s)[Len(s)]

\* all_events: the oldest ReplayLimit rows
AllEvents(s) == IF Len(s) <= ReplayLimit THEN s ELSE SubSeq(s, 1, ReplayLimit)

\* build_state_projection
Replay(s) == ApplyAll(Fresh, AllEvents(s))

---------------------------------------------------------------------------
(* Handlers. *)

Init ==
    /\ log = << >>
    /\ proj = Fresh
    /\ up = TRUE
    /\ audit = NoAudit
    /\ issued = << >>

Serving == up /\ audit = NoAudit

\* the bound on the log: room for the rows of events
Room(events) ==
    LET rows(s, t) == Cardinality({i \in DOMAIN s : s[i].type = t})
    IN  \A t \in EventTypes : rows(log, t) + rows(events, t) <= MaxRows[t]

\* a command is served when there is room for its audit record
AuditRoom == Room(<< AuditLog("RESET") >>)

\* (mutation) only the first event of a batch stored
CommitFirst(events) ==
    /\ Room(events)
    /\ log' = log \o SubSeq(events, 1, 1)
    /\ proj' = ApplyAll(proj, events)

\* one transaction of the store, then the events applied to the projection
Commit(events) ==
    /\ Room(events)
    /\ log' = log \o events
    /\ proj' = ApplyAll(proj, events)

PlanEvents(legs) ==
    LET plan == Len(issued) + 1
    IN  [k \in 1..2 * Len(legs) + 1 |->
           IF k = 1 THEN PlanSubmitted(plan)
           ELSE IF k % 2 = 0
                THEN Proposed(Len(issued) + k \div 2, legs[k \div 2], plan)
                ELSE Validated(Len(issued) + k \div 2)]

SubmitPlan(legs, chain) ==
    /\ Serving
    /\ CheckPlan(legs, proj.held, proj.ticks, chain) = "ok"
    /\ Len(issued) + Len(legs) <= MaxIssued
    /\ Commit(PlanEvents(legs))
    /\ issued' = issued \o legs
    /\ UNCHANGED << up, audit >>

\* the rejections of a plan are appended, and not applied
RejectPlan(legs, chain) ==
    /\ Serving
    /\ CheckPlan(legs, proj.held, proj.ticks, chain) # "ok"
    /\ Room([i \in 1..Len(legs) |-> Rejected(0)])
    /\ log' = log \o [i \in 1..Len(legs) |-> Rejected(0)]
    /\ UNCHANGED << proj, up, audit, issued >>

SubmitOrder(order, chain) ==
    LET id == Len(issued) + 1
    IN  /\ Serving
        /\ CheckOrder(order, proj.held, proj.ticks, chain) = "ok"
        /\ id <= MaxIssued
        /\ Commit(<< Proposed(id, order, 0), Validated(id) >>)
        /\ issued' = Append(issued, order)
        /\ UNCHANGED << up, audit >>

RejectOrder(order, chain) ==
    /\ Serving
    /\ CheckOrder(order, proj.held, proj.ticks, chain) # "ok"
    /\ Commit(<< Rejected(0) >>)
    /\ UNCHANGED << up, audit, issued >>

CancelOrder(id) ==
    /\ Serving
    /\ Commit(<< Cancelled(id) >>)
    /\ UNCHANGED << up, audit, issued >>

\* (mutation) every position closed by selling
ClosingFillSell(s) == Filled(0, s, "SELL", Abs(proj.held[s]))

\* the fill that nets the position in s to zero
ClosingFill(s) ==
    Filled(0, s, IF proj.held[s] > 0 THEN "SELL" ELSE "BUY", Abs(proj.held[s]))

Open == {s \in Booked : proj.held[s] # 0}

\* the orders in which the positions of S may be listed
Listings(S) ==
    {l \in [1..Cardinality(S) -> S] : \A i, j \in DOMAIN l : l[i] = l[j] => i = j}

CloseAll(listing) ==
    /\ Serving
    /\ Open # {}
    /\ AuditRoom
    /\ Commit([i \in 1..Len(listing) |-> ClosingFill(listing[i])])
    /\ audit' = "CLOSE_ALL"
    /\ UNCHANGED << up, issued >>

\* (mutation) the pause kept in memory only
ForcePauseInMemory ==
    /\ Serving
    /\ AuditRoom
    /\ proj' = Apply(proj, CircuitBreaker)
    /\ audit' = "PAUSE"
    /\ UNCHANGED << log, up, issued >>

ForcePause ==
    /\ Serving
    /\ AuditRoom
    /\ Commit(<< CircuitBreaker >>)
    /\ audit' = "PAUSE"
    /\ UNCHANGED << up, issued >>

\* "Direct state reset (not via event for now)"
ForceResume ==
    /\ Serving
    /\ AuditRoom
    /\ proj' = [proj EXCEPT !.paused = FALSE]
    /\ audit' = "RESUME"
    /\ UNCHANGED << log, up, issued >>

\* (mutation) a fresh projection over the old events
ForceResetInMemory ==
    /\ Serving
    /\ AuditRoom
    /\ proj' = Fresh
    /\ audit' = "RESET"
    /\ UNCHANGED << log, up, issued >>

ForceReset ==
    /\ Serving
    /\ log' = << >>
    /\ proj' = Fresh
    /\ audit' = "RESET"
    /\ UNCHANGED << up, issued >>

\* CLOSE_ALL and RELOAD_BRAIN: nothing but the audit record
ForceRecordOnly(action) ==
    /\ Serving
    /\ AuditRoom
    /\ audit' = action
    /\ UNCHANGED << log, proj, up, issued >>

\* the second transaction of close_all and force_action
AppendAudit ==
    /\ up /\ audit # NoAudit
    /\ Commit(<< AuditLog(audit) >>)
    /\ audit' = NoAudit
    /\ UNCHANGED << up, issued >>

PostTick(symbol, quote) ==
    /\ Serving
    /\ Commit(<< MarketTick(symbol, quote) >>)
    /\ UNCHANGED << up, audit, issued >>

\* the gateway posts order_id, price and quantity, and no symbol or side
PostFill(id) ==
    /\ Serving
    /\ Commit(<< Filled(id, Unknown, "BUY", issued[id].qty) >>)
    /\ UNCHANGED << up, audit, issued >>

PostReject(id) ==
    /\ Serving
    /\ Commit(<< Rejected(id) >>)
    /\ UNCHANGED << up, audit, issued >>

\* the process dies: only the log is left
Crash ==
    /\ up
    /\ up' = FALSE
    /\ proj' = Fresh
    /\ audit' = NoAudit
    /\ UNCHANGED << log, issued >>

\* (mutation) a projection that is not rebuilt from the log
RestartEmpty ==
    /\ ~up
    /\ up' = TRUE
    /\ proj' = Fresh
    /\ UNCHANGED << log, audit, issued >>

Restart ==
    /\ ~up
    /\ up' = TRUE
    /\ proj' = Replay(log)
    /\ UNCHANGED << log, audit, issued >>

Submission ==
    \E chain \in ChainStates :
        \/ \E legs \in PlanForms : SubmitPlan(legs, chain) \/ RejectPlan(legs, chain)
        \/ \E order \in OrderForms : SubmitOrder(order, chain) \/ RejectOrder(order, chain)

Report == \E id \in 1..Len(issued) : PostFill(id) \/ PostReject(id)

Command ==
    \/ \E id \in 1..Len(issued) : CancelOrder(id)
    \/ \E listing \in Listings(Open) : CloseAll(listing)
    \/ ForcePause
    \/ ForceResume
    \/ ForceReset
    \/ \E action \in {"CLOSE_ALL", "RELOAD_BRAIN"} : ForceRecordOnly(action)

Feed == \E symbol \in Symbols, quote \in Quotes : PostTick(symbol, quote)

Next ==
    \/ Submission
    \/ Report
    \/ Command
    \/ Feed
    \/ AppendAudit
    \/ Crash
    \/ Restart

Spec == Init /\ [][Next]_vars

---------------------------------------------------------------------------
(* Types. *)

OrderRecord == [order : Order, plan : Nat, status : Statuses]

ProjectionOK(p) ==
    /\ p = [orders |-> p.orders, held |-> p.held, plans |-> p.plans,
            ticks |-> p.ticks, rejections |-> p.rejections,
            paused |-> p.paused, audits |-> p.audits]
    /\ DOMAIN p.orders \subseteq Nat \ {0}
    /\ p.orders \in [DOMAIN p.orders -> OrderRecord]
    /\ p.held \in [Booked -> Int]
    /\ p.plans \subseteq Nat
    /\ DOMAIN p.ticks \subseteq Symbols
    /\ p.ticks \in [DOMAIN p.ticks -> Quote]
    /\ p.rejections \in Nat
    /\ p.paused \in BOOLEAN
    /\ p.audits \in Seq(ForceActions)
    /\ Len(p.audits) <= AuditKept

\* The state is well formed; in particular the projection never holds more
\* audit entries than it keeps (state.py:273-274).
TypeOK ==
    /\ log \in Seq(Event)
    /\ ProjectionOK(proj)
    /\ up \in BOOLEAN
    /\ audit \in ForceActions \cup {NoAudit}
    /\ issued \in Seq(Order)

---------------------------------------------------------------------------
(* Safety. *)

\* the two projections agree on everything a trader acts on
Agree(p, q) ==
    /\ p.orders = q.orders
    /\ p.held = q.held
    /\ p.plans = q.plans
    /\ p.ticks = q.ticks
    /\ p.audits = q.audits

\* The live projection is what a restart would rebuild from the log: orders,
\* positions, plans, ticks and audit trail survive a crash at any point, even
\* between the two transactions of a handler ("State = fold(events)", ADR-001
\* line 22; build_state_projection, event_store.py:204-213).
ReplayFaithful ==
    up /\ Len(log) <= ReplayLimit => Agree(proj, Replay(log))

\* No restart lifts a pause: whenever the core is paused, so is the projection
\* a restart would rebuild (force_action PAUSE, server.py:291-295).
PauseSurvives ==
    up /\ Len(log) <= ReplayLimit /\ proj.paused => Replay(log).paused

\* The signed quantity a fill event at row i adds to symbol s, from the orders
\* issued and the rows before it, without the projection.
Contribution(i, s) ==
    LET e == log[i]
        known == \E j \in 1..i-1 : log[j].type = "ORDER_PROPOSED" /\ log[j].id = e.id
        booked == IF known THEN issued[e.id] ELSE e
    IN  IF booked.symbol = s THEN Signed(booked.side, e.qty) ELSE 0

NetFills(s) ==
    LET f[n \in 0..Len(log)] ==
            IF n = 0 THEN 0
            ELSE f[n-1] + (IF log[n].type = "ORDER_FILLED" THEN Contribution(n, s) ELSE 0)
    IN  f[Len(log)]

\* Every position is the net of the fills in the log, each booked on the order
\* it fills: no event other than a fill moves a position, and none is booked
\* twice or on another symbol (_apply_fill_to_position, state.py:317-405).
PositionsAreNetFills ==
    up /\ Len(log) <= ReplayLimit => \A s \in Booked : proj.held[s] = NetFills(s)

\* What close_all leaves behind when it commits its fills is flat: no position
\* survives it, long, short or unresolved (close_all, server.py:243-286).
CloseAllFlattens ==
    [][\A listing \in Listings(Open) :
          CloseAll(listing) => \A s \in Booked : proj'.held[s] = 0]_vars

---------------------------------------------------------------------------
(* The book the clients see. *)

\* the live projection, or what the next restart will rebuild
Visible == IF up THEN proj ELSE Replay(log)

\* what a trader acts on of projection p
BookOf(p) ==
    [orders |-> p.orders, held |-> p.held, plans |-> p.plans, ticks |-> p.ticks,
     paused |-> p.paused]

Book == INSTANCE DurableBook WITH
            book <- BookOf(Visible), command <- audit, NoCommand <- NoAudit

\* As long as a replay reads the whole log, the core is the durable book of
\* module DurableBook: every command changes the book in one step, refusals,
\* audit records, crashes and restarts leave it alone, and a restart may bring
\* back a pause but neither lift one nor lose or invent an order or a position
\* (create_app, server.py:92-114; build_state_projection,
\* event_store.py:204-213).
BookKept == Book!Spec

---------------------------------------------------------------------------
(* What the documents say and the code does not do. *)

\* ADR-001 line 22: "State = fold(events)".  All of the projection is what a
\* replay of the log rebuilds.  It is not: RESUME is no event (server.py:296-
\* 299), and the rejections of a plan are stored and never applied
\* (server.py:183-190).
StateIsFold == up /\ Len(log) <= ReplayLimit => proj = Replay(log)

\* the value of all positions together, at the prices of the last ticks
Exposure ==
    LET value(s) == IF s \in DOMAIN proj.ticks
                    THEN Abs(proj.held[s]) * proj.ticks[s].ltp ELSE 0
        sum[S \in SUBSET Symbols] ==
            IF S = {} THEN 0
            ELSE LET s == CHOOSE s \in S : TRUE IN value(s) + sum[S \ {s}]
    IN  sum[Symbols]

\* no fill was reported twice
FilledOnce ==
    \A i, j \in DOMAIN log :
        /\ log[i].type = "ORDER_FILLED" /\ log[j].type = "ORDER_FILLED"
        /\ log[i].id = log[j].id /\ log[i].id # 0
        => i = j

\* ADR-002 line 36: "Impossible to over-allocate (position cap check)", and
\* preflight.py:46: "30% of cash aggregate".  With every order filled at most
\* once, the positions together stay within the cap; the gates bound each
\* symbol on its own.
NeverOverAllocated == FilledOnce => 100 * Exposure <= PositionPct * Cash
=============================================================================
