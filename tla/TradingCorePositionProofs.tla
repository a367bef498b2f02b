-------------------- MODULE TradingCorePositionProofs --------------------
(***************************************************************************)
(* What the log makes of the positions, and what the clients see of the    *)
(* core, for every number of symbols, orders and events.                   *)
(*                                                                         *)
(* The live projection holds what a replay of the log rebuilds             *)
(* (ReplayFaithful, proved in TradingCoreProofs).  Two facts are built on  *)
(* that.  The proposals in the log are the issued orders, so the fold      *)
(* books each fill as NetFills counts it: the positions are the net of the *)
(* fills (PositionsCorrect).  And every handler makes of the projection    *)
(* the book that one command of DurableBook asks for, while a crash leaves *)
(* a log that rebuilds the same book: the core implements DurableBook      *)
(* (BookIsKept).                                                           *)
(***************************************************************************)
EXTENDS TradingCoreProofs

---------------------------------------------------------------------------
(* What one event does to the orders and to the positions. *)

LEMMA WithStatusOrders ==
    ASSUME NEW p, ProjectionOK(p), NEW id, NEW status \in Statuses,
           NEW orders, orders = WithStatus(p.orders, id, status)
    PROVE  /\ DOMAIN orders = DOMAIN p.orders
           /\ \A x \in DOMAIN p.orders : orders[x].order = p.orders[x].order
<1>1. CASE id \in DOMAIN p.orders
    <2>1. \A x \in DOMAIN p.orders : p.orders[x] \in OrderRecord
        BY DEF ProjectionOK
    <2>2. [p.orders[id] EXCEPT !.status = status].order = p.orders[id].order
        BY <1>1, <2>1 DEF OrderRecord
    <2>3. WithStatus(p.orders, id, status)
            = [p.orders EXCEPT ![id] = [p.orders[id] EXCEPT !.status = status]]
        BY <1>1 DEF WithStatus
    <2> QED BY <1>1, <2>2, <2>3 DEF ProjectionOK
<1>2. CASE id \notin DOMAIN p.orders
    BY <1>2 DEF WithStatus
<1> QED BY <1>1, <1>2

\* Only a proposal adds an order, and none is ever replaced by another but by
\* a proposal under its id.
LEMMA ApplyOrders ==
    ASSUME NEW p, ProjectionOK(p), NEW e \in Event, NEW q, q = Apply(p, e)
    PROVE  IF e.type = "ORDER_PROPOSED"
           THEN /\ DOMAIN q.orders = DOMAIN p.orders \cup {e.id}
                /\ \A x \in DOMAIN q.orders :
                      q.orders[x].order = IF x = e.id THEN e.order
                                          ELSE p.orders[x].order
           ELSE /\ DOMAIN q.orders = DOMAIN p.orders
                /\ \A x \in DOMAIN p.orders : q.orders[x].order = p.orders[x].order
<1>1. CASE e.type = "ORDER_PROPOSED"
    <2> DEFINE r == [order |-> e.order, plan |-> e.plan, status |-> "PROPOSED"]
    <2>1. q = [p EXCEPT !.orders = Put(p.orders, e.id, r)] /\ r.order = e.order
        BY <1>1 DEF Apply
    <2> HIDE DEF r
    <2>2. q.orders = Put(p.orders, e.id, r)
        BY <2>1 DEF ProjectionOK
    <2>3. /\ DOMAIN q.orders = DOMAIN p.orders \cup {e.id}
          /\ \A x \in DOMAIN q.orders :
                q.orders[x].order = IF x = e.id THEN e.order ELSE p.orders[x].order
        BY <2>1, <2>2 DEF Put
    <2> QED BY <1>1, <2>3
<1>2. CASE e.type = "ORDER_FILLED"
    <2> DEFINE t == FillTarget(p.orders, e)
    <2>1. q = [p EXCEPT !.orders = WithStatus(p.orders, e.id, "FILLED"),
                        !.held[t.symbol] = @ + Signed(t.side, e.qty)]
        BY <1>2 DEF Apply
    <2> HIDE DEF t
    <2>2. q.orders = WithStatus(p.orders, e.id, "FILLED")
        BY <2>1 DEF ProjectionOK
    <2>3. /\ DOMAIN q.orders = DOMAIN p.orders
          /\ \A x \in DOMAIN p.orders : q.orders[x].order = p.orders[x].order
        <3>1. "FILLED" \in Statuses /\ "CANCELLED" \in Statuses
            BY DEF Statuses
        <3> DEFINE orders == WithStatus(p.orders, e.id, "FILLED")
        <3>2. /\ DOMAIN orders = DOMAIN p.orders
              /\ \A x \in DOMAIN p.orders : orders[x].order = p.orders[x].order
            BY <3>1, WithStatusOrders
        <3> QED BY <2>2, <3>2
    <2> QED BY <1>2, <2>3
<1>3. CASE e.type = "ORDER_CANCELLED"
    <2>1. q = [p EXCEPT !.orders = WithStatus(p.orders, e.id, "CANCELLED")]
        BY <1>3 DEF Apply
    <2>2. q.orders = WithStatus(p.orders, e.id, "CANCELLED")
        BY <2>1 DEF ProjectionOK
    <2>3. /\ DOMAIN q.orders = DOMAIN p.orders
          /\ \A x \in DOMAIN p.orders : q.orders[x].order = p.orders[x].order
        <3>1. "FILLED" \in Statuses /\ "CANCELLED" \in Statuses
            BY DEF Statuses
        <3> DEFINE orders == WithStatus(p.orders, e.id, "CANCELLED")
        <3>2. /\ DOMAIN orders = DOMAIN p.orders
              /\ \A x \in DOMAIN p.orders : orders[x].order = p.orders[x].order
            BY <3>1, WithStatusOrders
        <3> QED BY <2>2, <3>2
    <2> QED BY <1>3, <2>3
<1>4. CASE e.type \in EventTypes \ {"ORDER_PROPOSED", "ORDER_FILLED", "ORDER_CANCELLED"}
    <2>1. q.orders = p.orders
        BY <1>4 DEF Apply, EventTypes, ProjectionOK
    <2> QED BY <1>4, <2>1
<1>5. e.type \in EventTypes
    BY DEF Event, EventTypes
<1> QED BY <1>1, <1>2, <1>3, <1>4, <1>5

\* what e adds to the position in s, the orders being those of p
Moved(p, e, s) ==
    LET t == FillTarget(p.orders, e)
    IN  IF e.type = "ORDER_FILLED" /\ t.symbol = s THEN Signed(t.side, e.qty) ELSE 0

\* Only a fill moves a position, and only that of its target.
LEMMA ApplyHeld ==
    ASSUME NEW p, ProjectionOK(p), NEW e \in Event, NEW s \in Booked
    PROVE  Apply(p, e).held[s] = p.held[s] + Moved(p, e, s)
<1> DEFINE q == Apply(p, e)
           t == FillTarget(p.orders, e)
<1>0. p.held \in [Booked -> Int]
    BY DEF ProjectionOK
<1>1. CASE e.type = "ORDER_FILLED"
    <2>1. q = [p EXCEPT !.orders = WithStatus(p.orders, e.id, "FILLED"),
                        !.held[t.symbol] = @ + Signed(t.side, e.qty)]
        BY <1>1 DEF Apply
    <2>2. Moved(p, e, s) = IF t.symbol = s THEN Signed(t.side, e.qty) ELSE 0
        BY <1>1 DEF Moved
    <2> HIDE DEF q, t
    <2>3. q.held = [p.held EXCEPT ![t.symbol] = @ + Signed(t.side, e.qty)]
        BY <2>1 DEF ProjectionOK
    <2>4. q.held[s] = p.held[s] + Moved(p, e, s)
        BY <1>0, <2>2, <2>3
    <2> QED BY <2>4 DEF q
<1>2. CASE e.type \in EventTypes \ {"ORDER_FILLED"}
    <2>1. q.held = p.held
        BY <1>2 DEF Apply, EventTypes, ProjectionOK
    <2>2. Moved(p, e, s) = 0
        BY <1>2 DEF Moved
    <2> HIDE DEF q
    <2>3. q.held[s] = p.held[s] + Moved(p, e, s)
        BY <1>0, <2>1, <2>2
    <2> QED BY <2>3 DEF q
<1>3. e.type \in EventTypes
    BY DEF Event, EventTypes
<1> QED BY <1>1, <1>2, <1>3

---------------------------------------------------------------------------
(* The log and the issued orders. *)

\* every proposal in the log is the issued order of its number
ProposalsIssued ==
    \A i \in 1..Len(log) :
        log[i].type = "ORDER_PROPOSED"
        => log[i].id \in 1..Len(issued) /\ log[i].order = issued[log[i].id]

\* the same of a batch that is about to be appended
BatchIssued(events, orders) ==
    \A i \in 1..Len(events) :
        events[i].type = "ORDER_PROPOSED"
        => events[i].id \in 1..Len(orders) /\ events[i].order = orders[events[i].id]

LEMMA AppendIssued ==
    ASSUME log \in Seq(Event), issued \in Seq(Order), ProposalsIssued,
           NEW events \in Seq(Event), NEW legs \in Seq(Order),
           log' = log \o events, issued' = issued \o legs,
           BatchIssued(events, issued')
    PROVE  ProposalsIssued'
<1>1. /\ Len(log) \in Nat /\ Len(events) \in Nat /\ Len(log') = Len(log) + Len(events)
      /\ \A i \in 1..Len(log) + Len(events) :
            log'[i] = IF i <= Len(log) THEN log[i] ELSE events[i - Len(log)]
    BY LenProperties, ConcatProperties
<1>2. /\ Len(issued) \in Nat /\ Len(legs) \in Nat
      /\ Len(issued') = Len(issued) + Len(legs)
      /\ \A i \in 1..Len(issued) : issued'[i] = issued[i]
    BY LenProperties, ConcatProperties
<1> SUFFICES ASSUME NEW i \in 1..Len(log'), log'[i].type = "ORDER_PROPOSED"
             PROVE  log'[i].id \in 1..Len(issued') /\ log'[i].order = issued'[log'[i].id]
    BY DEF ProposalsIssued
<1>3. CASE i <= Len(log)
    <2>1. i \in 1..Len(log) /\ log'[i] = log[i]
        BY <1>1, <1>3
    <2>2. log[i].id \in 1..Len(issued) /\ log[i].order = issued[log[i].id]
        BY <2>1 DEF ProposalsIssued
    <2> QED BY <1>2, <2>1, <2>2
<1>4. CASE ~(i <= Len(log))
    <2>1. i - Len(log) \in 1..Len(events) /\ log'[i] = events[i - Len(log)]
        BY <1>1, <1>4
    <2> QED BY <2>1 DEF BatchIssued
<1> QED BY <1>3, <1>4

\* A batch without a proposal, and no new order.
LEMMA AppendOthers ==
    ASSUME log \in Seq(Event), issued \in Seq(Order), ProposalsIssued,
           NEW events \in Seq(Event), log' = log \o events, issued' = issued,
           \A i \in 1..Len(events) : events[i].type # "ORDER_PROPOSED"
    PROVE  ProposalsIssued'
<1>1. << >> \in Seq(Order) /\ issued' = issued \o << >>
    BY EmptySeq, ConcatEmptySeq
<1>2. BatchIssued(events, issued')
    BY DEF BatchIssued
<1> QED BY <1>1, <1>2, AppendIssued

LEMMA PlanIssued ==
    ASSUME issued \in Seq(Order), NEW legs \in Seq(Order), issued' = issued \o legs
    PROVE  BatchIssued(PlanEvents(legs), issued')
<1>1. /\ Len(issued) \in Nat /\ Len(legs) \in Nat
      /\ Len(issued') = Len(issued) + Len(legs)
      /\ \A i \in 1..Len(legs) : issued'[Len(issued) + i] = legs[i]
    BY LenProperties, ConcatProperties
<1>2. Len(PlanEvents(legs)) = 2 * Len(legs) + 1
    BY <1>1 DEF PlanEvents
<1> SUFFICES ASSUME NEW k \in 1..2 * Len(legs) + 1,
                    PlanEvents(legs)[k].type = "ORDER_PROPOSED"
             PROVE  /\ PlanEvents(legs)[k].id \in 1..Len(issued')
                    /\ PlanEvents(legs)[k].order = issued'[PlanEvents(legs)[k].id]
    BY <1>2 DEF BatchIssued
<1>3. k # 1 /\ k % 2 = 0
    BY DEF PlanEvents, PlanSubmitted, Validated
<1>4. PlanEvents(legs)[k] = Proposed(Len(issued) + k \div 2, legs[k \div 2], Len(issued) + 1)
    BY <1>3 DEF PlanEvents
<1>5. k \div 2 \in 1..Len(legs)
    BY <1>1, <1>3
<1> QED BY <1>1, <1>4, <1>5 DEF Proposed

LEMMA NotProposals ==
    /\ \A id : /\ Rejected(id).type # "ORDER_PROPOSED"
               /\ Cancelled(id).type # "ORDER_PROPOSED"
    /\ \A id, symbol, side, qty : Filled(id, symbol, side, qty).type # "ORDER_PROPOSED"
    /\ \A s : ClosingFill(s).type # "ORDER_PROPOSED"
    /\ CircuitBreaker.type # "ORDER_PROPOSED"
    /\ \A action : AuditLog(action).type # "ORDER_PROPOSED"
    /\ \A symbol, quote : MarketTick(symbol, quote).type # "ORDER_PROPOSED"
BY DEF Rejected, Cancelled, Filled, ClosingFill, CircuitBreaker, AuditLog, MarketTick

LEMMA AppendOne ==
    ASSUME log \in Seq(Event), issued \in Seq(Order), ProposalsIssued,
           NEW e \in Event, e.type # "ORDER_PROPOSED",
           log' = log \o << e >>, issued' = issued
    PROVE  ProposalsIssued'
<1> DEFINE events == << e >>
<1>1. events \in Seq(Event) /\ log' = log \o events
      /\ \A i \in 1..Len(events) : events[i].type # "ORDER_PROPOSED"
    OBVIOUS
<1> HIDE DEF events
<1> QED BY <1>1, AppendOthers

\* ProposalsIssued is inductive, Inv being given before and after the step.
LEMMA StepIssued ==
    ASSUME Inv, ProposalsIssued, [Next]_vars
    PROVE  ProposalsIssued'
<1>0. log \in Seq(Event) /\ issued \in Seq(Order) /\ ProjectionOK(proj)
      /\ Len(issued) \in Nat /\ audit \in ForceActions \cup {NoAudit}
    BY LenProperties DEF Inv, TypeOK
<1>1. ASSUME NEW chain \in ChainStates, NEW legs \in PlanForms, SubmitPlan(legs, chain)
      PROVE  ProposalsIssued'
    <2>1. legs \in Seq(Order)
        BY CoreParameters
    <2>2. log' = log \o PlanEvents(legs) /\ issued' = issued \o legs
        BY <1>1 DEF SubmitPlan, Commit
    <2> QED BY <1>0, <2>1, <2>2, PlanEventsTyped, PlanIssued, AppendIssued
<1>2. ASSUME NEW chain \in ChainStates, NEW legs \in PlanForms, RejectPlan(legs, chain)
      PROVE  ProposalsIssued'
    <2> DEFINE events == [i \in 1..Len(legs) |-> Rejected(0)]
    <2>1. Len(legs) \in Nat /\ Rejected(0) \in Event
        BY CoreParameters, LenProperties, SmallEvents
    <2>2. events \in Seq(Event)
          /\ \A i \in 1..Len(events) : events[i].type # "ORDER_PROPOSED"
        BY <2>1, NotProposals
    <2>3. log' = log \o events /\ issued' = issued
        BY <1>2 DEF RejectPlan
    <2> HIDE DEF events
    <2> QED BY <1>0, <2>2, <2>3, AppendOthers
<1>3. ASSUME NEW chain \in ChainStates, NEW order \in OrderForms, SubmitOrder(order, chain)
      PROVE  ProposalsIssued'
    <2> DEFINE id == Len(issued) + 1
               events == << Proposed(id, order, 0), Validated(id) >>
               legs == << order >>
    <2>1. order \in Order /\ id \in Nat \ {0}
        BY <1>0, CoreParameters
    <2>2. Proposed(id, order, 0) \in Event /\ Validated(id) \in Event
        BY <2>1, SmallEvents
    <2>3. events \in Seq(Event) /\ legs \in Seq(Order)
        BY <2>1, <2>2
    <2>4. log' = log \o events
        BY <1>3 DEF SubmitOrder, Commit
    <2>5. issued' = Append(issued, order)
        BY <1>3 DEF SubmitOrder
    <2>6. issued' = issued \o legs
        BY <1>0, <2>1, <2>5
    <2>7. BatchIssued(events, issued')
        <3>1. id \in 1..Len(issued') /\ issued'[id] = order
            BY <1>0, <2>1, <2>5
        <3>2. Len(events) = 2
            OBVIOUS
        <3>3. events[1].id = id /\ events[1].order = order
            BY DEF Proposed
        <3>4. events[2].type # "ORDER_PROPOSED"
            BY DEF Validated
        <3> HIDE DEF events, id
        <3> QED BY <3>1, <3>2, <3>3, <3>4 DEF BatchIssued
    <2> HIDE DEF events, legs
    <2> QED BY <1>0, <2>3, <2>4, <2>6, <2>7, AppendIssued
<1>4. ASSUME NEW chain \in ChainStates, NEW order \in OrderForms, RejectOrder(order, chain)
      PROVE  ProposalsIssued'
    <2>1. log' = log \o << Rejected(0) >> /\ issued' = issued
        BY <1>4 DEF RejectOrder, Commit
    <2> QED BY <1>0, <2>1, SmallEvents, NotProposals, AppendOne
<1>5. ASSUME NEW id \in 1..Len(issued), PostFill(id)
      PROVE  ProposalsIssued'
    <2> DEFINE event == Filled(id, Unknown, "BUY", issued[id].qty)
    <2>0. issued[id] \in Order /\ id \in Nat
        BY <1>0, ElementOfSeq
    <2>1. issued[id].qty \in Nat /\ Unknown \in Booked /\ "BUY" \in Sides /\ id \in Nat
        BY <2>0 DEF Order, Booked, Sides
    <2>2. event \in Event /\ event.type # "ORDER_PROPOSED"
        BY <2>1, SmallEvents, NotProposals
    <2>3. log' = log \o << event >> /\ issued' = issued
        BY <1>5 DEF PostFill, Commit
    <2> HIDE DEF event
    <2> QED BY <1>0, <2>2, <2>3, AppendOne
<1>6. ASSUME NEW id \in 1..Len(issued), PostReject(id)
      PROVE  ProposalsIssued'
    <2>1. log' = log \o << Rejected(id) >> /\ issued' = issued
        BY <1>6 DEF PostReject, Commit
    <2> QED BY <1>0, <2>1, SmallEvents, NotProposals, AppendOne
<1>7. ASSUME NEW id \in 1..Len(issued), CancelOrder(id)
      PROVE  ProposalsIssued'
    <2>1. log' = log \o << Cancelled(id) >> /\ issued' = issued
        BY <1>7 DEF CancelOrder, Commit
    <2> QED BY <1>0, <2>1, SmallEvents, NotProposals, AppendOne, SMTT(30)
<1>8. ASSUME NEW listing \in Listings(Open), CloseAll(listing)
      PROVE  ProposalsIssued'
    <2> DEFINE events == [i \in 1..Len(listing) |-> ClosingFill(listing[i])]
    <2>1. events \in Seq(Event)
        BY <1>0, ClosingFillsTyped
    <2>2. \A i \in DOMAIN events : events[i].type # "ORDER_PROPOSED"
        BY NotProposals
    <2>3. log' = log \o events /\ issued' = issued
        BY <1>8 DEF CloseAll, Commit
    <2> HIDE DEF events
    <2>4. \A i \in 1..Len(events) : events[i].type # "ORDER_PROPOSED"
        BY <2>1, <2>2, LenProperties
    <2> QED BY <1>0, <2>1, <2>3, <2>4, AppendOthers
<1>9. CASE ForcePause
    <2>1. log' = log \o << CircuitBreaker >> /\ issued' = issued
        BY <1>9 DEF ForcePause, Commit
    <2> QED BY <1>0, <2>1, SmallEvents, NotProposals, AppendOne
<1>10. CASE ForceReset
    <2>1. log' = << >> /\ Len(<< >>) = 0
        BY <1>10, EmptySeq DEF ForceReset
    <2> QED BY <2>1 DEF ProposalsIssued
<1>11. ASSUME NEW symbol \in Symbols, NEW quote \in Quotes, PostTick(symbol, quote)
       PROVE  ProposalsIssued'
    <2>1. quote \in Quote
        BY CoreParameters
    <2>2. log' = log \o << MarketTick(symbol, quote) >> /\ issued' = issued
        BY <1>11 DEF PostTick, Commit
    <2> QED BY <1>0, <2>1, <2>2, SmallEvents, NotProposals, AppendOne
<1>12. CASE AppendAudit
    <2>1. audit \in ForceActions
        BY <1>0, <1>12 DEF AppendAudit
    <2>2. log' = log \o << AuditLog(audit) >> /\ issued' = issued
        BY <1>12 DEF AppendAudit, Commit
    <2> QED BY <1>0, <2>1, <2>2, SmallEvents, NotProposals, AppendOne
<1>13. CASE UNCHANGED << log, issued >>
    BY <1>13 DEF ProposalsIssued
<1> QED
    <2>1. CASE Submission
        BY <2>1, <1>1, <1>2, <1>3, <1>4 DEF Submission
    <2>2. CASE Report
        BY <2>2, <1>5, <1>6 DEF Report
    <2>3. CASE Command
        BY <2>3, <1>7, <1>8, <1>9, <1>10, <1>13 DEF Command, ForceResume, ForceRecordOnly
    <2>4. CASE Feed
        BY <2>4, <1>11 DEF Feed
    <2>5. CASE Crash \/ Restart \/ UNCHANGED vars
        BY <2>5, <1>13 DEF Crash, Restart, vars
    <2> QED BY <2>1, <2>2, <2>3, <2>4, <2>5, <1>12 DEF Next

---------------------------------------------------------------------------
(* The fold of a log of issued orders books every fill as NetFills counts  *)
(* it.                                                                     *)

\* the orders the fold knows after n events of the log
KnownAfter(p, n) ==
    /\ DOMAIN p.orders = {log[j].id : j \in {k \in 1..n : log[k].type = "ORDER_PROPOSED"}}
    /\ \A x \in DOMAIN p.orders : p.orders[x].order = issued[x]

LEMMA FoldKnows ==
    ASSUME log \in Seq(Event), ProposalsIssued, NEW n \in 0..Len(log)
    PROVE  ProjectionOK(Folds(Fresh, log)[n]) /\ KnownAfter(Folds(Fresh, log)[n], n)
<1> DEFINE f == Folds(Fresh, log)
           Good == {k \in 0..Len(log) : ProjectionOK(f[k]) /\ KnownAfter(f[k], k)}
<1>1. Len(log) \in Nat /\ \A k \in 1..Len(log) : log[k] \in Event
    BY LenProperties, ElementOfSeq
<1>2. f[0] = Fresh /\ \A k \in 1..Len(log) : f[k] = Apply(f[k-1], log[k])
    BY <1>1, FoldsRun
<1> HIDE DEF f
<1>3. 0 \in Good
    <2>1. DOMAIN Fresh.orders = {}
        BY DEF Fresh
    <2>2. KnownAfter(Fresh, 0)
        BY <2>1 DEF KnownAfter
    <2> QED BY <1>1, <1>2, <2>2, FreshTyped
<1>4. ASSUME NEW k \in 0..Len(log), k \in Good, k # Len(log)
      PROVE  k + 1 \in Good
    <2> DEFINE p == f[k]
               q == f[k+1]
               e == log[k+1]
    <2>1. k + 1 \in 1..Len(log) /\ q = Apply(p, e) /\ e \in Event
        BY <1>1, <1>2, <1>4
    <2>2. ProjectionOK(p) /\ KnownAfter(p, k)
        BY <1>4
    <2>3. ProjectionOK(q)
        BY <2>1, <2>2, ApplyTyped
    <2> HIDE DEF p, q
    <2>4. KnownAfter(q, k + 1)
        <3>1. CASE e.type = "ORDER_PROPOSED"
            <4>1. /\ DOMAIN q.orders = DOMAIN p.orders \cup {e.id}
                  /\ \A x \in DOMAIN q.orders :
                        q.orders[x].order = IF x = e.id THEN e.order ELSE p.orders[x].order
                BY <2>1, <2>2, <3>1, ApplyOrders
            <4>2. e.order = issued[e.id]
                BY <2>1, <3>1 DEF ProposalsIssued
            <4>3. {j \in 1..k+1 : log[j].type = "ORDER_PROPOSED"}
                    = {j \in 1..k : log[j].type = "ORDER_PROPOSED"} \cup {k+1}
                BY <1>4, <3>1
            <4> HIDE DEF e
            <4>4. DOMAIN q.orders
                    = {log[j].id : j \in {j \in 1..k+1 : log[j].type = "ORDER_PROPOSED"}}
                BY <2>2, <4>1, <4>3 DEF KnownAfter, e
            <4> QED BY <2>2, <4>1, <4>2, <4>4 DEF KnownAfter
        <3>2. CASE e.type # "ORDER_PROPOSED"
            <4>1. /\ DOMAIN q.orders = DOMAIN p.orders
                  /\ \A x \in DOMAIN p.orders : q.orders[x].order = p.orders[x].order
                BY <2>1, <2>2, <3>2, ApplyOrders
            <4>2. {j \in 1..k+1 : log[j].type = "ORDER_PROPOSED"}
                    = {j \in 1..k : log[j].type = "ORDER_PROPOSED"}
                BY <1>4, <3>2
            <4> QED BY <2>2, <4>1, <4>2 DEF KnownAfter
        <3> QED BY <3>1, <3>2
    <2> QED BY <1>1, <1>4, <2>3, <2>4 DEF q
<1> HIDE DEF Good
<1>5. \A k \in 0..Len(log) : k \in Good
    BY <1>1, <1>3, <1>4, Climb
<1> QED BY <1>5 DEF Good, f

\* what the event of row n adds to s, as NetFills counts it
Counted(n, s) == IF log[n].type = "ORDER_FILLED" THEN Contribution(n, s) ELSE 0

LEMMA MovedIsCounted ==
    ASSUME log \in Seq(Event), ProposalsIssued, NEW n \in 1..Len(log), NEW s \in Booked
    PROVE  Moved(Folds(Fresh, log)[n-1], log[n], s) = Counted(n, s)
<1> DEFINE p == Folds(Fresh, log)[n-1]
           e == log[n]
           known == \E j \in 1..n-1 : log[j].type = "ORDER_PROPOSED" /\ log[j].id = e.id
<1>1. Len(log) \in Nat /\ n - 1 \in 0..Len(log)
    BY LenProperties
<1>2. KnownAfter(p, n - 1)
    BY <1>1, FoldKnows
<1> HIDE DEF p
<1>3. e.id \in DOMAIN p.orders <=> known
    BY <1>2 DEF KnownAfter
<1>4. known => p.orders[e.id].order = issued[e.id]
    BY <1>2, <1>3 DEF KnownAfter
<1>5. Moved(p, e, s) = Counted(n, s)
    <2>1. CASE e.type = "ORDER_FILLED" /\ known
        BY <1>3, <1>4, <2>1 DEF Moved, FillTarget, Counted, Contribution
    <2>2. CASE e.type = "ORDER_FILLED" /\ ~known
        BY <1>3, <2>2 DEF Moved, FillTarget, Counted, Contribution
    <2>3. CASE e.type # "ORDER_FILLED"
        BY <2>3 DEF Moved, Counted
    <2> QED BY <2>1, <2>2, <2>3
<1> QED BY <1>5 DEF p

\* The recursion of NetFills is solved by the positions of the fold.
LEMMA NetFillsFolded ==
    ASSUME log \in Seq(Event), ProposalsIssued, NEW s \in Booked
    PROVE  NetFills(s) = ApplyAll(Fresh, log).held[s]
<1> DEFINE f == Folds(Fresh, log)
           L == Len(log)
           h == [n \in 0..L |-> f[n].held[s]]
           Recursion(g) == g = [n \in 0..L |-> IF n = 0 THEN 0 ELSE g[n-1] + Counted(n, s)]
           net == CHOOSE g : Recursion(g)
           Same == {n \in 0..L : net[n] = h[n]}
<1>1. L \in Nat /\ \A n \in 1..L : log[n] \in Event
    BY LenProperties, ElementOfSeq
<1>2. f[0] = Fresh /\ \A n \in 1..L : f[n] = Apply(f[n-1], log[n])
    BY <1>1, FoldsRun
<1>3. \A n \in 0..L : ProjectionOK(f[n])
    BY FoldKnows
<1>4. \A n \in 1..L : Moved(f[n-1], log[n], s) = Counted(n, s)
    BY MovedIsCounted
<1>5. ApplyAll(Fresh, log) = f[L]
    BY DEF ApplyAll
<1> HIDE DEF f
<1>6. h[0] = 0
    BY <1>1, <1>2 DEF Fresh
<1>7. \A n \in 1..L : h[n] = h[n-1] + Counted(n, s)
    <2> TAKE n \in 1..L
    <2>1. n - 1 \in 0..L /\ n \in 0..L
        BY <1>1
    <2>2. f[n].held[s] = f[n-1].held[s] + Moved(f[n-1], log[n], s)
        BY <1>1, <1>2, <1>3, <2>1, ApplyHeld
    <2> QED BY <1>4, <2>1, <2>2
<1>8. DOMAIN h = 0..L /\ h = [n \in 0..L |-> h[n]]
    OBVIOUS
<1> HIDE DEF h
<1>9. Recursion(h)
    <2>1. \A n \in 0..L : h[n] = IF n = 0 THEN 0 ELSE h[n-1] + Counted(n, s)
        BY <1>1, <1>6, <1>7
    <2> QED BY <1>8, <2>1
<1>10. Recursion(net)
    <2> HIDE DEF Recursion
    <2> QED BY <1>9
<1>11. NetFills(s) = net[L]
    BY DEF NetFills, Counted
<1> HIDE DEF net
<1>12. net[0] = 0 /\ \A n \in 1..L : net[n] = net[n-1] + Counted(n, s)
    BY <1>1, <1>10
<1> HIDE DEF Recursion, L
<1>13. 0 \in Same
    BY <1>1, <1>6, <1>12
<1>14. ASSUME NEW n \in 0..L, n \in Same, n # L
       PROVE  n + 1 \in Same
    <2>1. n + 1 \in 1..L /\ (n + 1) - 1 = n
        BY <1>1, <1>14
    <2>2. net[n+1] = net[n] + Counted(n + 1, s) /\ h[n+1] = h[n] + Counted(n + 1, s)
        BY <1>7, <1>12, <2>1
    <2> QED BY <1>1, <1>14, <2>1, <2>2
<1> HIDE DEF Same
<1>15. \A n \in 0..L : n \in Same
    BY <1>1, <1>13, <1>14, Climb
<1>16. net[L] = h[L] /\ h[L] = f[L].held[s]
    BY <1>1, <1>15 DEF Same, h
<1> QED BY <1>5, <1>11, <1>16

---------------------------------------------------------------------------
(* The theorem. *)

\* Every proposal ever logged is an order its client was told of, unchanged.
LEMMA IssuedHolds == Spec => []ProposalsIssued
<1>1. Init => ProposalsIssued
    <2>1. Len(<< >>) = 0
        BY EmptySeq
    <2> QED BY <2>1 DEF Init, ProposalsIssued
<1>2. Inv /\ ProposalsIssued /\ [Next]_vars => ProposalsIssued'
    BY StepIssued
<1> QED BY <1>1, <1>2, InvHolds, PTL DEF Spec

\* Every position is the net of the fills in the log, each booked on the order
\* it fills (_apply_fill_to_position, state.py:317-405).
THEOREM PositionsCorrect == Spec => []PositionsAreNetFills
<1>1. Inv /\ ProposalsIssued => PositionsAreNetFills
    <2> SUFFICES ASSUME Inv, ProposalsIssued, up, Len(log) <= ReplayLimit,
                        NEW s \in Booked
                 PROVE  proj.held[s] = NetFills(s)
        BY DEF PositionsAreNetFills
    <2>1. log \in Seq(Event)
        BY DEF Inv, TypeOK
    <2>2. proj.held = Replay(log).held
        BY DEF Inv, ReplayFaithful, Agree
    <2>3. Replay(log) = ApplyAll(Fresh, log)
        BY DEF Replay, AllEvents
    <2> QED BY <2>1, <2>2, <2>3, NetFillsFolded
<1> QED BY <1>1, IssuedHolds, InvHolds, PTL

---------------------------------------------------------------------------
(* The core implements the durable book.                                   *)
(*                                                                         *)
(* While the core is up the book is its projection, and each handler makes *)
(* of it the book the abstract command asks for: lemma by lemma below, one *)
(* event, the two of an order, the batch of a plan, the fills of close_all.*)
(* When it dies the book is what a replay would rebuild, which             *)
(* ReplayFaithful says is the same, but for a pause that may come back.    *)

\* One event committed is one event applied.
LEMMA ApplyOne ==
    ASSUME NEW p, NEW e
    PROVE  ApplyAll(p, << e >>) = Apply(p, e)
<1> DEFINE s == << e >>
<1>1. Len(s) = 1 /\ s[1] = e
    OBVIOUS
<1> HIDE DEF s
<1>2. Folds(p, s)[0] = p /\ Folds(p, s)[1] = Apply(Folds(p, s)[0], s[1])
    BY <1>1, FoldsRun
<1> QED BY <1>1, <1>2 DEF ApplyAll, s

\* The two events of an accepted order put it in the book as proposed.
LEMMA OrderApplied ==
    ASSUME ProjectionOK(proj), NEW order \in Order, NEW id \in Nat \ {0}
    PROVE  ApplyAll(proj, << Proposed(id, order, 0), Validated(id) >>)
             = [proj EXCEPT !.orders = Put(@, id, [order |-> order, plan |-> 0,
                                                   status |-> "PROPOSED"])]
<1> DEFINE a == Proposed(id, order, 0)
           b == Validated(id)
           q == Apply(proj, a)
<1>2. q = [proj EXCEPT !.orders = Put(@, id, [order |-> order, plan |-> 0,
                                              status |-> "PROPOSED"])]
    BY DEF Apply, Proposed
<1>3. b.type = "ORDER_VALIDATED"
    BY DEF Validated
<1> HIDE DEF a, b
<1> DEFINE s == << a, b >>
<1>4. Len(s) = 2 /\ s[1] = a /\ s[2] = b
    OBVIOUS
<1> HIDE DEF s
<1> DEFINE f == Folds(proj, s)
<1>5. ApplyAll(proj, s) = Apply(q, b)
    <2>0. Len(s) \in Nat
        BY <1>4
    <2>1. f[0] = proj /\ \A n \in 1..Len(s) : f[n] = Apply(f[n-1], s[n])
        BY <2>0, FoldsRun
    <2>2. ApplyAll(proj, s) = f[2]
        BY <1>4 DEF ApplyAll
    <2> HIDE DEF f
    <2>3. f[1] = Apply(proj, a) /\ f[2] = Apply(f[1], b)
        BY <1>4, <2>1
    <2> QED BY <2>2, <2>3
<1> HIDE DEF q
<1>6. Apply(q, b) = q
    BY <1>3 DEF Apply
<1> QED BY <1>2, <1>5, <1>6 DEF a, b, s

\* the orders of the projection and the legs of a plan, newly proposed
WithLegs(legs, plan) ==
    LET new == Len(issued) + 1 .. Len(issued) + Len(legs)
    IN  [id \in DOMAIN proj.orders \cup new |->
           IF id \in new
           THEN [order |-> legs[id - Len(issued)], plan |-> plan, status |-> "PROPOSED"]
           ELSE proj.orders[id]]

\* The batch of an accepted plan puts all of its legs in the book.
LEMMA PlanApplied ==
    ASSUME ProjectionOK(proj), issued \in Seq(Order), NEW legs \in Seq(Order),
           NEW plan, plan = Len(issued) + 1,
           NEW q, q = ApplyAll(proj, PlanEvents(legs))
    PROVE  /\ q.orders = WithLegs(legs, plan)
           /\ q.plans = proj.plans \cup {plan}
           /\ q.held = proj.held /\ q.ticks = proj.ticks /\ q.paused = proj.paused
<1> DEFINE m == Len(issued)
           L == Len(legs)
           events == PlanEvents(legs)
           f == Folds(proj, events)
           record(id) == [order |-> legs[id - m], plan |-> plan, status |-> "PROPOSED"]
           after(k) == [id \in DOMAIN proj.orders \cup (m + 1 .. m + k) |->
                          IF id \in m + 1 .. m + k THEN record(id) ELSE proj.orders[id]]
           Entering == {n \in 0..2 * L :
                          /\ ProjectionOK(f[n+1])
                          /\ f[n+1].orders = after((n + 1) \div 2)
                          /\ f[n+1].plans = proj.plans \cup {plan}
                          /\ f[n+1].held = proj.held
                          /\ f[n+1].ticks = proj.ticks
                          /\ f[n+1].paused = proj.paused}
<1>1. m \in Nat /\ L \in Nat
    BY LenProperties
<1>2. events \in Seq(Event)
    BY PlanEventsTyped
<1>3. /\ Len(events) = 2 * L + 1
      /\ events[1] = PlanSubmitted(plan)
      /\ \A k \in 1..2 * L + 1 : k # 1 =>
            events[k] = IF k % 2 = 0 THEN Proposed(m + k \div 2, legs[k \div 2], plan)
                        ELSE Validated(m + k \div 2)
    BY <1>1 DEF PlanEvents
<1> HIDE DEF events
<1>4. f[0] = proj /\ \A n \in 1..2 * L + 1 : f[n] = Apply(f[n-1], events[n])
    BY <1>1, <1>3, FoldsRun
<1>5. q = f[2 * L + 1]
    BY <1>3 DEF ApplyAll, events
<1>6. \A n \in 1..2 * L + 1 : events[n] \in Event
    BY <1>2, <1>3, ElementOfSeq
<1> HIDE DEF f, m, L
<1>7. 0 \in Entering
    <2>1. f[1] = Apply(proj, events[1]) /\ events[1] \in Event
        BY <1>1, <1>4, <1>6
    <2>2. f[1] = [proj EXCEPT !.plans = @ \cup {plan}]
        BY <1>3, <2>1 DEF Apply, PlanSubmitted
    <2>3. ProjectionOK(f[1])
        BY <2>1, ApplyTyped
    <2>4. m + 1 .. m + 0 = {} /\ (0 + 1) \div 2 = 0
        BY <1>1
    <2>5. proj.orders = after(0)
        BY <2>4 DEF ProjectionOK
    <2>6. f[1].orders = proj.orders /\ f[1].plans = proj.plans \cup {plan}
          /\ f[1].held = proj.held /\ f[1].ticks = proj.ticks /\ f[1].paused = proj.paused
        BY <2>2 DEF ProjectionOK
    <2> HIDE DEF after
    <2> QED BY <1>1, <2>3, <2>4, <2>5, <2>6
<1>8. ASSUME NEW n \in 0..2 * L, n \in Entering, n # 2 * L
      PROVE  n + 1 \in Entering
    <2> DEFINE p == f[n+1]
               r == f[n+2]
               e == events[n+2]
    <2>1. /\ n + 2 \in 1..2 * L + 1 /\ n + 2 # 1 /\ n + 1 \in 0..2 * L /\ n \in Nat
          /\ (n + 1) + 1 = n + 2
        BY <1>1, <1>8
    <2>2. r = Apply(p, e) /\ e \in Event
        BY <1>4, <1>6, <2>1
    <2>3. /\ ProjectionOK(p) /\ p.orders = after((n + 1) \div 2)
          /\ p.plans = proj.plans \cup {plan} /\ p.held = proj.held
          /\ p.ticks = proj.ticks /\ p.paused = proj.paused
        BY <1>8
    <2>4. ProjectionOK(r)
        BY <2>2, <2>3, ApplyTyped
    <2>5. e = IF (n + 2) % 2 = 0 THEN Proposed(m + (n + 2) \div 2, legs[(n + 2) \div 2], plan)
              ELSE Validated(m + (n + 2) \div 2)
        BY <1>3, <2>1
    <2> HIDE DEF p, r, e, after
    <2>6. /\ r.orders = after((n + 2) \div 2)
          /\ r.plans = p.plans /\ r.held = p.held /\ r.ticks = p.ticks /\ r.paused = p.paused
        <3>1. CASE (n + 2) % 2 = 0
            <4> DEFINE k == (n + 2) \div 2
                       id == m + k
            <4>1. k \in Nat /\ k # 0 /\ (n + 1) \div 2 = k - 1 /\ id - m = k
                BY <1>1, <2>1, <3>1
            <4>2. e = Proposed(id, legs[k], plan)
                BY <2>5, <3>1
            <4>3. r = [p EXCEPT !.orders = Put(@, id, [order |-> legs[k], plan |-> plan,
                                                       status |-> "PROPOSED"])]
                BY <2>2, <4>2 DEF Apply, Proposed
            <4>4. /\ r.orders = Put(p.orders, id, [order |-> legs[k], plan |-> plan,
                                                   status |-> "PROPOSED"])
                  /\ r.plans = p.plans /\ r.held = p.held /\ r.ticks = p.ticks
                  /\ r.paused = p.paused
                BY <2>3, <4>3 DEF ProjectionOK
            <4> HIDE DEF k
            <4>5. (m + 1 .. m + (k - 1)) \cup {id} = m + 1 .. m + k
                  /\ id \notin m + 1 .. m + (k - 1)
                BY <1>1, <4>1
            <4>6. p.orders = after(k - 1) /\ record(id) = [order |-> legs[k], plan |-> plan,
                                                           status |-> "PROPOSED"]
                BY <2>3, <4>1
            <4> HIDE DEF record, id
            <4>7. Put(after(k - 1), id, record(id)) = after(k)
                BY <4>5 DEF Put, after
            <4> QED BY <4>4, <4>6, <4>7 DEF k
        <3>2. CASE (n + 2) % 2 # 0
            <4>1. (n + 1) \div 2 = (n + 2) \div 2
                BY <2>1, <3>2
            <4>2. e.type = "ORDER_VALIDATED"
                BY <2>5, <3>2 DEF Validated
            <4>3. r = p
                BY <2>2, <4>2 DEF Apply
            <4> QED BY <2>3, <4>1, <4>3
        <3> QED BY <3>1, <3>2
    <2> QED BY <2>1, <2>3, <2>4, <2>6 DEF r
<1>9. 2 * L \in Entering
    <2> HIDE DEF Entering
    <2>1. 2 * L \in Nat
        BY <1>1
    <2>2. \A n \in 0..2 * L : n \in Entering
        BY <1>7, <1>8, <2>1, Climb
    <2> QED BY <2>1, <2>2
<1>10. (2 * L + 1) \div 2 = L
    BY <1>1
<1>11. q.orders = after(L) /\ q.plans = proj.plans \cup {plan}
       /\ q.held = proj.held /\ q.ticks = proj.ticks /\ q.paused = proj.paused
    <2> HIDE DEF after
    <2> QED BY <1>5, <1>9, <1>10
<1> QED BY <1>11 DEF m, L, WithLegs

\* The fills of close_all close every position and touch nothing else.
LEMMA ClosingApplied ==
    ASSUME ProjectionOK(proj), NEW listing \in Listings(Open),
           NEW q, q = ApplyAll(proj, [i \in 1..Len(listing) |-> ClosingFill(listing[i])])
    PROVE  /\ q.held = [s \in Booked |-> 0]
           /\ q.orders = proj.orders /\ q.plans = proj.plans
           /\ q.ticks = proj.ticks /\ q.paused = proj.paused
<1> DEFINE fills == [i \in 1..Len(listing) |-> ClosingFill(listing[i])]
           f == Folds(proj, fills)
           Kept == {n \in 0..Len(fills) :
                      /\ ProjectionOK(f[n])
                      /\ f[n].orders = proj.orders /\ f[n].plans = proj.plans
                      /\ f[n].ticks = proj.ticks /\ f[n].paused = proj.paused}
<1>1. fills \in Seq(Event)
    BY ClosingFillsTyped
<1>2. Len(fills) \in Nat /\ \A n \in 1..Len(fills) : fills[n] \in Event
    BY <1>1, LenProperties, ElementOfSeq
<1>3. \A n \in 1..Len(fills) : fills[n].type = "ORDER_FILLED" /\ fills[n].id = 0
    <2>1. \A n \in DOMAIN fills : fills[n].type = "ORDER_FILLED" /\ fills[n].id = 0
        BY DEF ClosingFill, Filled
    <2> QED BY <1>1, <2>1, LenProperties
<1> HIDE DEF fills
<1>4. f[0] = proj /\ \A n \in 1..Len(fills) : f[n] = Apply(f[n-1], fills[n])
    BY <1>2, FoldsRun
<1>5. q = f[Len(fills)]
    BY DEF ApplyAll, fills
<1> HIDE DEF f
<1>6. 0 \in Kept
    BY <1>2, <1>4
<1>7. ASSUME NEW n \in 0..Len(fills), n \in Kept, n # Len(fills)
      PROVE  n + 1 \in Kept
    <2> DEFINE p == f[n]
               r == f[n+1]
               e == fills[n+1]
               t == FillTarget(p.orders, e)
    <2>1. n + 1 \in 1..Len(fills) /\ (n + 1) - 1 = n
        BY <1>2, <1>7
    <2>2. r = Apply(p, e) /\ e \in Event /\ e.type = "ORDER_FILLED" /\ e.id = 0
        BY <1>2, <1>3, <1>4, <2>1
    <2>3. ProjectionOK(p) /\ p.orders = proj.orders /\ p.plans = proj.plans
          /\ p.ticks = proj.ticks /\ p.paused = proj.paused
        BY <1>7
    <2>4. r = [p EXCEPT !.orders = WithStatus(@, e.id, "FILLED"),
                        !.held[t.symbol] = @ + Signed(t.side, e.qty)]
        BY <2>2 DEF Apply
    <2> HIDE DEF p, r, e, t
    <2>5. WithStatus(p.orders, e.id, "FILLED") = p.orders
        BY <2>2, <2>3 DEF WithStatus, ProjectionOK
    <2>6. r.orders = p.orders /\ r.plans = p.plans /\ r.ticks = p.ticks
          /\ r.paused = p.paused
        BY <2>3, <2>4, <2>5 DEF ProjectionOK
    <2>7. ProjectionOK(r)
        BY <2>2, <2>3, ApplyTyped
    <2> QED BY <2>1, <2>3, <2>6, <2>7 DEF r
<1>8. Len(fills) \in Kept
    <2> HIDE DEF Kept
    <2>1. \A n \in 0..Len(fills) : n \in Kept
        BY <1>2, <1>6, <1>7, Climb
    <2> QED BY <1>2, <2>1
<1>9. q.held = [s \in Booked |-> 0]
    <2>1. \A s \in Booked : q.held[s] = 0
        BY ClosingFillsFlatten
    <2>2. q.held \in [Booked -> Int]
        BY <1>5, <1>8 DEF ProjectionOK
    <2> QED BY <2>1, <2>2
<1> QED BY <1>5, <1>8, <1>9

\* Every order of the live projection is the issued order of its number.
LEMMA OrdersIssued ==
    ASSUME Inv, ProposalsIssued, up, Len(log) <= ReplayLimit, NEW id \in DOMAIN proj.orders
    PROVE  proj.orders[id].order = issued[id]
<1>1. log \in Seq(Event) /\ proj.orders = Replay(log).orders
    BY DEF Inv, TypeOK, ReplayFaithful, Agree
<1>2. Replay(log) = Folds(Fresh, log)[Len(log)]
    BY DEF Replay, AllEvents, ApplyAll
<1>3. Len(log) \in 0..Len(log)
    BY <1>1, LenProperties
<1>4. KnownAfter(Folds(Fresh, log)[Len(log)], Len(log))
    BY <1>1, <1>3, FoldKnows
<1> QED BY <1>1, <1>2, <1>4 DEF KnownAfter

\* the premises of the step lemmas: the core serves and a replay reads the log
Whole == Inv /\ ProposalsIssued /\ Len(log) <= ReplayLimit

\* While the core is up, the book is its projection.
LEMMA VisibleUp ==
    ASSUME up, up' = up
    PROVE  Visible = proj /\ Visible' = proj'
BY DEF Visible

LEMMA SubmitOrderEnters ==
    ASSUME Whole, NEW chain \in ChainStates, NEW order \in OrderForms,
           SubmitOrder(order, chain)
    PROVE  Book!AcceptOrder(order)
<1> DEFINE id == Len(issued) + 1
           r == [order |-> order, plan |-> 0, status |-> "PROPOSED"]
<1>1. /\ ProjectionOK(proj) /\ issued \in Seq(Order) /\ order \in Order
      /\ Len(issued) \in Nat
    BY CoreParameters, LenProperties DEF Whole, Inv, TypeOK
<1>2. proj' = [proj EXCEPT !.orders = Put(@, id, r)]
    <2>1. proj' = ApplyAll(proj, << Proposed(id, order, 0), Validated(id) >>)
        BY DEF SubmitOrder, Commit
    <2>2. id \in Nat \ {0}
        BY <1>1
    <2> HIDE DEF id
    <2> QED BY <1>1, <2>1, <2>2, OrderApplied
<1>3. Visible = proj /\ Visible' = proj'
    BY VisibleUp DEF SubmitOrder, Serving
<1>4. Put(proj.orders, id, r) = Book!Entered(<< order >>, 0)
    <2> DEFINE legs == << order >>
    <2>1. Len(legs) = 1 /\ legs[1] = order
        OBVIOUS
    <2> HIDE DEF legs
    <2>2. id .. Len(issued) + Len(legs) = {id} /\ id - Len(issued) = 1
        BY <1>1, <2>1
    <2>3. BookOf(Visible).orders = proj.orders
        BY <1>3 DEF BookOf
    <2>4. Put(proj.orders, id, r) = Book!Entered(legs, 0)
        BY <2>1, <2>2, <2>3 DEF Put, Book!Entered
    <2> QED BY <2>4 DEF legs
<1> HIDE DEF id, r
<1>5. BookOf(Visible)' = [BookOf(Visible) EXCEPT !.orders = Book!Entered(<< order >>, 0)]
    BY <1>1, <1>2, <1>3, <1>4 DEF BookOf, ProjectionOK
<1>6. CheckOrder(order, BookOf(Visible).held, BookOf(Visible).ticks, chain) = "ok"
    BY <1>3 DEF SubmitOrder, BookOf
<1>7. audit = NoAudit /\ audit' = audit /\ issued' = Append(issued, order)
    BY DEF SubmitOrder, Serving
<1> QED BY <1>5, <1>6, <1>7 DEF Book!AcceptOrder

LEMMA SubmitPlanEnters ==
    ASSUME Whole, NEW chain \in ChainStates, NEW legs \in PlanForms,
           SubmitPlan(legs, chain)
    PROVE  Book!AcceptPlan(legs)
<1> DEFINE plan == Len(issued) + 1
<1>1. ProjectionOK(proj) /\ issued \in Seq(Order) /\ legs \in Seq(Order)
    BY CoreParameters DEF Whole, Inv, TypeOK
<1>2. proj' = ApplyAll(proj, PlanEvents(legs))
    BY DEF SubmitPlan, Commit
<1>3. Visible = proj /\ Visible' = proj'
    BY VisibleUp DEF SubmitPlan, Serving
<1>4. /\ proj'.orders = Book!Entered(legs, plan)
      /\ proj'.plans = proj.plans \cup {plan}
      /\ proj'.held = proj.held /\ proj'.ticks = proj.ticks /\ proj'.paused = proj.paused
    <2>1. BookOf(Visible).orders = proj.orders
        BY <1>3 DEF BookOf
    <2>2. plan = Len(issued) + 1
        OBVIOUS
    <2> HIDE DEF plan
    <2>3. Book!Entered(legs, plan) = WithLegs(legs, plan)
        BY <2>1 DEF Book!Entered, WithLegs
    <2>4. /\ proj'.orders = WithLegs(legs, plan)
          /\ proj'.plans = proj.plans \cup {plan}
          /\ proj'.held = proj.held /\ proj'.ticks = proj.ticks
          /\ proj'.paused = proj.paused
        BY <1>1, <1>2, <2>2, PlanApplied
    <2> QED BY <2>3, <2>4
<1> HIDE DEF plan
<1>5. BookOf(Visible)' = [BookOf(Visible) EXCEPT !.orders = Book!Entered(legs, plan),
                                                !.plans = @ \cup {plan}]
    <2> DEFINE entered == Book!Entered(legs, plan)
    <2> HIDE DEF entered
    <2>1. BookOf(Visible)' = [orders |-> entered, held |-> proj.held,
                              plans |-> proj.plans \cup {plan}, ticks |-> proj.ticks,
                              paused |-> proj.paused]
        BY <1>3, <1>4 DEF BookOf, entered
    <2>2. BookOf(Visible) = [orders |-> proj.orders, held |-> proj.held,
                             plans |-> proj.plans, ticks |-> proj.ticks,
                             paused |-> proj.paused]
        BY <1>3 DEF BookOf
    <2>3. BookOf(Visible)' = [BookOf(Visible) EXCEPT !.orders = entered,
                                                    !.plans = @ \cup {plan}]
        <3> DEFINE b == BookOf(Visible)
                   more == proj.plans \cup {plan}
        <3>1. b = [orders |-> proj.orders, held |-> proj.held, plans |-> proj.plans,
                   ticks |-> proj.ticks, paused |-> proj.paused]
            BY <2>2
        <3>0. b.plans = proj.plans
            BY <3>1
        <3>2. BookOf(Visible)' = [orders |-> entered, held |-> proj.held,
                                  plans |-> more, ticks |-> proj.ticks,
                                  paused |-> proj.paused]
            BY <2>1
        <3> HIDE DEF b, more
        <3>3. [b EXCEPT !.orders = entered, !.plans = more]
                = [orders |-> entered, held |-> proj.held, plans |-> more,
                   ticks |-> proj.ticks, paused |-> proj.paused]
            <4> DEFINE c == [b EXCEPT !.orders = entered]
            <4>1. c = [orders |-> entered, held |-> proj.held, plans |-> proj.plans,
                       ticks |-> proj.ticks, paused |-> proj.paused]
                BY <3>1
            <4>2. [b EXCEPT !.orders = entered, !.plans = more] = [c EXCEPT !.plans = more]
                OBVIOUS
            <4> HIDE DEF c
            <4>3. [c EXCEPT !.plans = more]
                    = [orders |-> entered, held |-> proj.held, plans |-> more,
                       ticks |-> proj.ticks, paused |-> proj.paused]
                BY <4>1
            <4> QED BY <4>2, <4>3
        <3> QED BY <3>0, <3>2, <3>3 DEF b, more
    <2> QED BY <2>3 DEF entered
<1>6. CheckPlan(legs, BookOf(Visible).held, BookOf(Visible).ticks, chain) = "ok"
    BY <1>3 DEF SubmitPlan, BookOf
<1>7. audit = NoAudit /\ audit' = audit /\ issued' = issued \o legs
    BY DEF SubmitPlan, Serving
<1> QED BY <1>5, <1>6, <1>7 DEF Book!AcceptPlan, plan

LEMMA PostFillNotes ==
    ASSUME Whole, NEW id \in 1..Len(issued), PostFill(id)
    PROVE  Book!Note
<1> DEFINE e == Filled(id, Unknown, "BUY", issued[id].qty)
           t == FillTarget(proj.orders, e)
           order == issued[id]
<1>1. ProjectionOK(proj) /\ issued[id] \in Order /\ Unknown \in Booked
    BY ElementOfSeq DEF Whole, Inv, TypeOK, Booked
<1>2. up /\ up' = up /\ UNCHANGED << issued, audit >> /\ audit = NoAudit
      /\ proj' = Apply(proj, e)
    BY ApplyOne DEF PostFill, Serving, Commit
<1>3. Visible = proj /\ Visible' = proj'
    BY <1>2, VisibleUp
<1>4. e.type = "ORDER_FILLED" /\ e.id = id /\ e.symbol = Unknown /\ e.side = "BUY"
      /\ e.qty = order.qty
    BY DEF Filled
<1> HIDE DEF e
<1>5. proj' = [proj EXCEPT !.orders = WithStatus(@, id, "FILLED"),
                           !.held[t.symbol] = @ + Signed(t.side, order.qty)]
    BY <1>2, <1>4 DEF Apply
<1> HIDE DEF t
<1>6. /\ proj'.orders = WithStatus(proj.orders, id, "FILLED")
      /\ proj'.held = [proj.held EXCEPT ![t.symbol] = @ + Signed(t.side, order.qty)]
      /\ proj'.plans = proj.plans /\ proj'.ticks = proj.ticks
      /\ proj'.paused = proj.paused
    BY <1>1, <1>5 DEF ProjectionOK
<1>7. BookOf(Visible)' = Book!Filled(id)
    <2>1. CASE id \in DOMAIN proj.orders
        <3>1. t = order
            BY <1>2, <1>4, <2>1, OrdersIssued DEF t, FillTarget, Whole
        <3>2. proj'.orders = [proj.orders EXCEPT ![id].status = "FILLED"]
            BY <1>6, <2>1 DEF WithStatus
        <3>3. proj'.held = [proj.held EXCEPT ![order.symbol] =
                                @ + (IF order.side = "BUY" THEN order.qty
                                     ELSE -order.qty)]
            BY <1>6, <3>1 DEF Signed
        <3> QED BY <1>3, <1>6, <2>1, <3>2, <3>3 DEF BookOf, Book!Filled
    <2>2. CASE id \notin DOMAIN proj.orders
        <3>1. t.symbol = Unknown /\ t.side = "BUY"
            BY <1>4, <2>2 DEF t, FillTarget
        <3>2. proj'.orders = proj.orders
            BY <1>6, <2>2 DEF WithStatus
        <3>3. proj'.held = [proj.held EXCEPT ![Unknown] = @ + order.qty]
            BY <1>6, <3>1 DEF Signed
        <3> QED BY <1>3, <1>6, <2>2, <3>2, <3>3 DEF BookOf, Book!Filled
    <2> QED BY <2>1, <2>2
<1> QED BY <1>2, <1>7 DEF Book!Note

LEMMA CancelNotes ==
    ASSUME Whole, NEW id \in 1..Len(issued), CancelOrder(id)
    PROVE  [Book!Next]_(Book!view)
<1> DEFINE e == Cancelled(id)
<1>1. ProjectionOK(proj)
    BY DEF Whole, Inv, TypeOK
<1>2. up /\ up' = up /\ UNCHANGED << issued, audit >> /\ audit = NoAudit
      /\ proj' = Apply(proj, e)
    BY ApplyOne DEF CancelOrder, Serving, Commit
<1>3. Visible = proj /\ Visible' = proj'
    BY <1>2, VisibleUp
<1>4. proj' = [proj EXCEPT !.orders = WithStatus(@, id, "CANCELLED")]
    BY <1>2 DEF Apply, Cancelled
<1>5. proj'.orders = WithStatus(proj.orders, id, "CANCELLED")
      /\ proj'.held = proj.held /\ proj'.plans = proj.plans
      /\ proj'.ticks = proj.ticks /\ proj'.paused = proj.paused
    BY <1>1, <1>4 DEF ProjectionOK
<1>6. CASE id \in DOMAIN proj.orders
    <2>1. BookOf(Visible)' = Book!Cancelled(id)
        BY <1>3, <1>5, <1>6 DEF BookOf, Book!Cancelled, WithStatus
    <2>2. id \in DOMAIN BookOf(Visible).orders
        BY <1>3, <1>6 DEF BookOf
    <2> QED BY <1>2, <2>1, <2>2 DEF Book!Note, Book!Next
<1>7. CASE id \notin DOMAIN proj.orders
    <2>1. BookOf(Visible)' = BookOf(Visible)
        BY <1>3, <1>5, <1>7 DEF BookOf, WithStatus
    <2> QED BY <1>2, <2>1 DEF Book!view
<1> QED BY <1>6, <1>7

LEMMA TickNotes ==
    ASSUME Whole, NEW symbol \in Symbols, NEW quote \in Quotes, PostTick(symbol, quote)
    PROVE  Book!Note
<1> DEFINE e == MarketTick(symbol, quote)
<1>1. ProjectionOK(proj)
    BY DEF Whole, Inv, TypeOK
<1>2. up /\ up' = up /\ UNCHANGED << issued, audit >> /\ audit = NoAudit
      /\ proj' = Apply(proj, e)
    BY ApplyOne DEF PostTick, Serving, Commit
<1>3. Visible = proj /\ Visible' = proj'
    BY <1>2, VisibleUp
<1>4. proj' = [proj EXCEPT !.ticks = Put(@, symbol, quote)]
    BY <1>2 DEF Apply, MarketTick
<1>5. BookOf(Visible)' = Book!Quoted(symbol, quote)
    BY <1>1, <1>3, <1>4 DEF BookOf, Book!Quoted, Put, ProjectionOK
<1> QED BY <1>2, <1>5 DEF Book!Note

\* A step that touches the pause of the projection touches that of the book.
LEMMA PausedBook ==
    ASSUME NEW p, NEW q, NEW paused, q.orders = p.orders, q.held = p.held,
           q.plans = p.plans, q.ticks = p.ticks, q.paused = paused
    PROVE  BookOf(q) = [BookOf(p) EXCEPT !.paused = paused]
<1> DEFINE b == BookOf(p)
<1>1. b = [orders |-> q.orders, held |-> q.held, plans |-> q.plans,
           ticks |-> q.ticks, paused |-> p.paused]
    BY DEF BookOf
<1> HIDE DEF b
<1>2. [b EXCEPT !.paused = paused]
        = [orders |-> q.orders, held |-> q.held, plans |-> q.plans,
           ticks |-> q.ticks, paused |-> paused]
    BY <1>1
<1> QED BY <1>2 DEF BookOf, b

LEMMA CloseAllObeys ==
    ASSUME Whole, NEW listing \in Listings(Open), CloseAll(listing)
    PROVE  Book!Obey("CLOSE_ALL")
<1>1. ProjectionOK(proj)
    BY DEF Whole, Inv, TypeOK
<1>2. /\ audit = NoAudit /\ audit' = "CLOSE_ALL" /\ issued' = issued
      /\ proj' = ApplyAll(proj, [i \in 1..Len(listing) |-> ClosingFill(listing[i])])
    BY DEF CloseAll, Serving, Commit
<1>3. Visible = proj /\ Visible' = proj'
    BY VisibleUp DEF CloseAll, Serving
<1>4. /\ proj'.held = [s \in Booked |-> 0]
      /\ proj'.orders = proj.orders /\ proj'.plans = proj.plans
      /\ proj'.ticks = proj.ticks /\ proj'.paused = proj.paused
    BY <1>1, <1>2, ClosingApplied
<1>5. Book!Flat = [s \in Booked |-> 0]
    BY DEF Book!Flat, Booked
<1>6. BookOf(Visible)' = [BookOf(Visible) EXCEPT !.held = Book!Flat]
    BY <1>3, <1>4, <1>5 DEF BookOf
<1> QED BY <1>2, <1>6 DEF Book!Obey, Book!Obeyed

LEMMA PauseObeys ==
    ASSUME Whole, ForcePause
    PROVE  Book!Obey("PAUSE")
<1>1. ProjectionOK(proj)
    BY DEF Whole, Inv, TypeOK
<1>2. audit = NoAudit /\ audit' = "PAUSE" /\ issued' = issued
      /\ proj' = Apply(proj, CircuitBreaker)
    BY ApplyOne DEF ForcePause, Serving, Commit
<1>3. Visible = proj /\ Visible' = proj'
    BY VisibleUp DEF ForcePause, Serving
<1>4. proj' = [proj EXCEPT !.paused = TRUE]
    BY <1>2 DEF Apply, CircuitBreaker
<1>5. /\ proj'.orders = proj.orders /\ proj'.held = proj.held
      /\ proj'.plans = proj.plans /\ proj'.ticks = proj.ticks
      /\ proj'.paused = TRUE
    BY <1>1, <1>4 DEF ProjectionOK
<1>6. BookOf(Visible)' = [BookOf(Visible) EXCEPT !.paused = TRUE]
    BY <1>3, <1>5, PausedBook
<1> QED BY <1>2, <1>6 DEF Book!Obey, Book!Obeyed

LEMMA ResumeObeys ==
    ASSUME Whole, ForceResume
    PROVE  Book!Obey("RESUME")
<1>1. ProjectionOK(proj)
    BY DEF Whole, Inv, TypeOK
<1>2. audit = NoAudit /\ audit' = "RESUME" /\ issued' = issued
      /\ proj' = [proj EXCEPT !.paused = FALSE]
    BY DEF ForceResume, Serving
<1>3. Visible = proj /\ Visible' = proj'
    BY VisibleUp DEF ForceResume, Serving
<1>4. /\ proj'.orders = proj.orders /\ proj'.held = proj.held
      /\ proj'.plans = proj.plans /\ proj'.ticks = proj.ticks
      /\ proj'.paused = FALSE
    BY <1>1, <1>2 DEF ProjectionOK
<1>5. BookOf(Visible)' = [BookOf(Visible) EXCEPT !.paused = FALSE]
    BY <1>3, <1>4, PausedBook
<1> QED BY <1>2, <1>5 DEF Book!Obey, Book!Obeyed

LEMMA ResetObeys ==
    ASSUME ForceReset
    PROVE  Book!Obey("RESET")
<1>1. audit = NoAudit /\ audit' = "RESET" /\ issued' = issued /\ proj' = Fresh
    BY DEF ForceReset, Serving
<1>2. Visible' = proj'
    BY VisibleUp DEF ForceReset, Serving
<1>3. BookOf(Visible)' = Book!Empty
    BY <1>1, <1>2 DEF BookOf, Fresh, Book!Empty, Book!Flat, Booked
<1> QED BY <1>1, <1>3 DEF Book!Obey, Book!Obeyed

LEMMA RecordObeys ==
    ASSUME NEW action \in {"CLOSE_ALL", "RELOAD_BRAIN"}, ForceRecordOnly(action)
    PROVE  Book!Obey(action)
<1>1. audit = NoAudit /\ audit' = action /\ UNCHANGED << issued, proj >>
    BY DEF ForceRecordOnly, Serving
<1>2. Visible = proj /\ Visible' = proj'
    BY VisibleUp DEF ForceRecordOnly, Serving
<1>3. BookOf(Visible)' = BookOf(Visible)
    BY <1>1, <1>2 DEF BookOf
<1>4. BookOf(Visible) \in Book!Obeyed(action)
    <2>1. CASE action = "CLOSE_ALL"
        BY <2>1 DEF Book!Obeyed
    <2>2. CASE action = "RELOAD_BRAIN"
        BY <2>2 DEF Book!Obeyed
    <2> QED BY <2>1, <2>2
<1> QED BY <1>1, <1>3, <1>4 DEF Book!Obey

\* The audit record changes nothing a trader acts on.
LEMMA AuditFinishes ==
    ASSUME Whole, AppendAudit
    PROVE  Book!Finish
<1>1. ProjectionOK(proj)
    BY DEF Whole, Inv, TypeOK
<1>2. audit' = NoAudit /\ issued' = issued /\ proj' = Apply(proj, AuditLog(audit))
    BY ApplyOne DEF AppendAudit, Commit
<1>3. Visible = proj /\ Visible' = proj'
    BY VisibleUp DEF AppendAudit
<1>4. proj' = [proj EXCEPT !.audits = LastOf(Append(@, audit), AuditKept)]
    BY <1>2 DEF Apply, AuditLog
<1>5. BookOf(Visible)' = BookOf(Visible)
    BY <1>1, <1>3, <1>4 DEF BookOf, ProjectionOK
<1> QED BY <1>2, <1>5 DEF Book!Finish

\* A crash leaves what a replay will rebuild: the book, or the book paused.
LEMMA CrashFinishes ==
    ASSUME Whole, Crash
    PROVE  Book!Finish
<1> DEFINE r == Replay(log)
<1>1. audit' = NoAudit /\ issued' = issued /\ up /\ ~up' /\ log' = log
    BY DEF Crash
<1>2. Visible = proj /\ Visible' = r
    BY <1>1 DEF Visible
<1>3. proj.paused \in BOOLEAN /\ r.paused \in BOOLEAN
    BY ReplayTyped DEF Whole, Inv, TypeOK, ProjectionOK
<1>4. /\ r.orders = proj.orders /\ r.held = proj.held /\ r.plans = proj.plans
      /\ r.ticks = proj.ticks
      /\ proj.paused => r.paused
    BY <1>1 DEF Whole, Inv, ReplayFaithful, PauseSurvives, Agree
<1> HIDE DEF r
<1>5. CASE r.paused = proj.paused
    <2>1. BookOf(Visible)' = BookOf(Visible)
        BY <1>2, <1>4, <1>5 DEF BookOf
    <2> QED BY <1>1, <2>1 DEF Book!Finish
<1>6. CASE r.paused # proj.paused
    <2>1. r.paused = TRUE
        BY <1>3, <1>4, <1>6
    <2>2. BookOf(Visible)' = [BookOf(Visible) EXCEPT !.paused = TRUE]
        BY <1>2, <1>4, <2>1, PausedBook
    <2> QED BY <1>1, <2>2 DEF Book!Finish
<1> QED BY <1>5, <1>6

\* A refusal is no step of the book: it is counted, and nothing else.
LEMMA RefusalStands ==
    ASSUME Whole, NEW id \in Nat, up, up' = up, UNCHANGED << audit, issued >>,
           Commit(<< Rejected(id) >>)
    PROVE  UNCHANGED Book!view
<1>1. ProjectionOK(proj)
    BY DEF Whole, Inv, TypeOK
<1>2. proj' = [proj EXCEPT !.rejections = @ + 1]
    BY ApplyOne DEF Commit, Apply, Rejected
<1>3. Visible = proj /\ Visible' = proj'
    BY VisibleUp
<1>4. BookOf(Visible)' = BookOf(Visible)
    BY <1>1, <1>2, <1>3 DEF BookOf, ProjectionOK
<1> QED BY <1>4 DEF Book!view

\* Neither are the refusal of a plan, a restart, and a step that changes nothing.
LEMMA Stands ==
    ASSUME UNCHANGED << audit, issued >>,
           \/ up /\ up' = up /\ proj' = proj
           \/ ~up /\ up' /\ proj' = Replay(log) /\ log' = log
           \/ UNCHANGED << log, proj, up >>
    PROVE  UNCHANGED Book!view
<1>1. Visible' = Visible
    BY DEF Visible
<1>2. BookOf(Visible)' = BookOf(Visible)
    BY <1>1 DEF BookOf
<1> QED BY <1>2 DEF Book!view

LEMMA StepBook ==
    ASSUME Whole, [Next]_vars
    PROVE  [Book!Next]_(Book!view)
<1>1. ASSUME NEW chain \in ChainStates, NEW legs \in PlanForms,
             SubmitPlan(legs, chain) \/ RejectPlan(legs, chain)
      PROVE  [Book!Next]_(Book!view)
    <2>1. CASE SubmitPlan(legs, chain)
        BY <2>1, SubmitPlanEnters DEF Book!Next
    <2>2. CASE RejectPlan(legs, chain)
        BY <2>2, Stands DEF RejectPlan, Serving
    <2> QED BY <1>1, <2>1, <2>2
<1>2. ASSUME NEW chain \in ChainStates, NEW order \in OrderForms,
             SubmitOrder(order, chain) \/ RejectOrder(order, chain)
      PROVE  [Book!Next]_(Book!view)
    <2>1. CASE SubmitOrder(order, chain)
        BY <2>1, SubmitOrderEnters DEF Book!Next
    <2>2. CASE RejectOrder(order, chain)
        BY <2>2, RefusalStands DEF RejectOrder, Serving
    <2> QED BY <1>2, <2>1, <2>2
<1>3. ASSUME NEW id \in 1..Len(issued), PostFill(id) \/ PostReject(id)
      PROVE  [Book!Next]_(Book!view)
    <2>1. CASE PostFill(id)
        BY <2>1, PostFillNotes DEF Book!Next
    <2>2. CASE PostReject(id)
        <3>1. id \in Nat
            OBVIOUS
        <3> QED BY <2>2, <3>1, RefusalStands DEF PostReject, Serving
    <2> QED BY <1>3, <2>1, <2>2
<1>4. ASSUME NEW id \in 1..Len(issued), CancelOrder(id)
      PROVE  [Book!Next]_(Book!view)
    BY <1>4, CancelNotes
<1>5. ASSUME NEW listing \in Listings(Open), CloseAll(listing)
      PROVE  [Book!Next]_(Book!view)
    BY <1>5, CloseAllObeys DEF Book!Next
<1>6. CASE ForcePause \/ ForceResume \/ ForceReset
    BY <1>6, PauseObeys, ResumeObeys, ResetObeys DEF Book!Next
<1>7. ASSUME NEW action \in {"CLOSE_ALL", "RELOAD_BRAIN"}, ForceRecordOnly(action)
      PROVE  [Book!Next]_(Book!view)
    BY <1>7, RecordObeys DEF Book!Next
<1>8. ASSUME NEW symbol \in Symbols, NEW quote \in Quotes, PostTick(symbol, quote)
      PROVE  [Book!Next]_(Book!view)
    BY <1>8, TickNotes DEF Book!Next
<1>9. CASE AppendAudit \/ Crash
    BY <1>9, AuditFinishes, CrashFinishes DEF Book!Next
<1>10. CASE Restart
    BY <1>10, Stands DEF Restart
<1>11. CASE UNCHANGED vars
    BY <1>11, Stands DEF vars
<1> QED BY <1>1, <1>2, <1>3, <1>4, <1>5, <1>6, <1>7, <1>8, <1>9, <1>10, <1>11
        DEF Next, Submission, Report, Command, Feed

\* As long as a replay reads the whole log, the core implements the durable
\* book: crashes, restarts, audit records and refusals are steps of the core
\* in which the book of the clients stands still, but that an earlier pause may
\* come back (create_app, server.py:92-114; build_state_projection,
\* event_store.py:204-213).
THEOREM BookIsKept == Spec /\ [](Len(log) <= ReplayLimit) => BookKept
<1>1. Init => Book!Init
    <2> SUFFICES ASSUME Init PROVE Book!Init
        OBVIOUS
    <2>1. BookOf(Visible) = Book!Empty
        BY DEF Init, Visible, BookOf, Fresh, Book!Empty, Book!Flat, Booked
    <2> QED BY <2>1 DEF Init, Book!Init
<1>2. Inv /\ ProposalsIssued /\ Len(log) <= ReplayLimit /\ [Next]_vars
        => [Book!Next]_(Book!view)
    BY StepBook DEF Whole
<1> QED BY <1>1, <1>2, InvHolds, IssuedHolds, PTL DEF Spec, BookKept, Book!Spec

=============================================================================
