------------------------ MODULE TradingCoreProofs ------------------------
(***************************************************************************)
(* Theorems of TradingCore, for every set of symbols, orders and plans and *)
(* every value of the bounds: the state is well formed, a restart rebuilds *)
(* the live projection, no restart lifts a pause, and close_all leaves no  *)
(* position.                                                               *)
(***************************************************************************)
EXTENDS TradingCoreFold, FiniteSetTheorems

---------------------------------------------------------------------------
(* The fold keeps the projection well formed. *)

LEMMA FreshTyped == ProjectionOK(Fresh)
<1>1. Fresh.orders = << >> /\ Fresh.ticks = << >> /\ Fresh.audits = << >>
    BY DEF Fresh
<1>2. DOMAIN << >> = {}
    OBVIOUS
<1> QED BY <1>1, <1>2, CoreParameters DEF Fresh, ProjectionOK

LEMMA SignedInt ==
    ASSUME NEW side, NEW qty \in Int
    PROVE  Signed(side, qty) \in Int
BY DEF Signed

\* The audit trail never grows past what the projection keeps.
LEMMA LastOfTyped ==
    ASSUME NEW S, NEW s \in Seq(S), NEW n \in Nat
    PROVE  LastOf(s, n) \in Seq(S) /\ Len(LastOf(s, n)) <= n
<1>1. CASE Len(s) <= n
    BY <1>1 DEF LastOf
<1>2. CASE ~(Len(s) <= n)
    <2>1. Len(s) \in Nat /\ \A i \in Len(s) - n + 1..Len(s) : s[i] \in S
        BY <1>2, LenProperties, ElementOfSeq
    <2>2. LastOf(s, n) = SubSeq(s, Len(s) - n + 1, Len(s))
        BY <1>2 DEF LastOf
    <2> QED BY <2>1, <2>2, SubSeqProperties
<1> QED BY <1>1, <1>2

LEMMA WithStatusTyped ==
    ASSUME NEW p, ProjectionOK(p), NEW id, NEW status \in Statuses
    PROVE  /\ DOMAIN WithStatus(p.orders, id, status) \subseteq Nat \ {0}
           /\ WithStatus(p.orders, id, status)
                 \in [DOMAIN WithStatus(p.orders, id, status) -> OrderRecord]
<1>1. CASE id \in DOMAIN p.orders
    <2>1. p.orders[id] \in OrderRecord
        BY <1>1 DEF ProjectionOK
    <2>2. [p.orders[id] EXCEPT !.status = status] \in OrderRecord
        BY <2>1 DEF OrderRecord
    <2>3. WithStatus(p.orders, id, status)
            = [p.orders EXCEPT ![id] = [p.orders[id] EXCEPT !.status = status]]
        BY <1>1 DEF WithStatus
    <2> QED BY <2>2, <2>3 DEF ProjectionOK
<1>2. CASE id \notin DOMAIN p.orders
    BY <1>2 DEF WithStatus, ProjectionOK
<1> QED BY <1>1, <1>2

LEMMA ApplyTyped ==
    ASSUME NEW p, ProjectionOK(p), NEW e \in Event
    PROVE  ProjectionOK(Apply(p, e))
<1>1. CASE e.type = "ORDER_PROPOSED"
    <2> DEFINE r == [order |-> e.order, plan |-> e.plan, status |-> "PROPOSED"]
    <2>1. e.id \in Nat \ {0} /\ e.order \in Order /\ e.plan \in Nat
        BY <1>1 DEF Event
    <2>2. r \in OrderRecord
        BY <2>1 DEF OrderRecord, Statuses
    <2>3. Apply(p, e) = [p EXCEPT !.orders = Put(p.orders, e.id, r)]
        BY <1>1 DEF Apply
    <2> HIDE DEF r
    <2>4. /\ DOMAIN Put(p.orders, e.id, r) \subseteq Nat \ {0}
          /\ Put(p.orders, e.id, r) \in [DOMAIN Put(p.orders, e.id, r) -> OrderRecord]
        BY <2>1, <2>2 DEF Put, ProjectionOK
    <2> QED BY <2>3, <2>4 DEF ProjectionOK
<1>2. CASE e.type = "ORDER_REJECTED"
    BY <1>2 DEF Apply, ProjectionOK
<1>3. CASE e.type = "ORDER_FILLED"
    <2> DEFINE t == FillTarget(p.orders, e)
    <2>1. e.symbol \in Booked /\ e.side \in Sides /\ e.qty \in Nat
        BY <1>3 DEF Event
    <2>2. t.symbol \in Booked
        <3>1. CASE e.id \in DOMAIN p.orders
            <4>1. p.orders[e.id].order \in Order
                BY <3>1 DEF ProjectionOK, OrderRecord
            <4> QED BY <3>1, <4>1 DEF FillTarget, Order, Booked
        <3>2. CASE e.id \notin DOMAIN p.orders
            BY <2>1, <3>2 DEF FillTarget
        <3> QED BY <3>1, <3>2
    <2>3. Apply(p, e) = [p EXCEPT !.orders = WithStatus(p.orders, e.id, "FILLED"),
                                  !.held[t.symbol] = @ + Signed(t.side, e.qty)]
        BY <1>3 DEF Apply
    <2>4. Signed(t.side, e.qty) \in Int
        BY <2>1, SignedInt
    <2>5. /\ DOMAIN WithStatus(p.orders, e.id, "FILLED") \subseteq Nat \ {0}
          /\ WithStatus(p.orders, e.id, "FILLED")
                \in [DOMAIN WithStatus(p.orders, e.id, "FILLED") -> OrderRecord]
        BY WithStatusTyped DEF Statuses
    <2> HIDE DEF t
    <2>6. [p.held EXCEPT ![t.symbol] = @ + Signed(t.side, e.qty)] \in [Booked -> Int]
        BY <2>2, <2>4 DEF ProjectionOK
    <2> QED BY <2>3, <2>5, <2>6 DEF ProjectionOK
<1>4. CASE e.type = "ORDER_CANCELLED"
    <2>1. Apply(p, e) = [p EXCEPT !.orders = WithStatus(p.orders, e.id, "CANCELLED")]
        BY <1>4 DEF Apply
    <2>2. /\ DOMAIN WithStatus(p.orders, e.id, "CANCELLED") \subseteq Nat \ {0}
          /\ WithStatus(p.orders, e.id, "CANCELLED")
                \in [DOMAIN WithStatus(p.orders, e.id, "CANCELLED") -> OrderRecord]
        BY WithStatusTyped DEF Statuses
    <2> QED BY <2>1, <2>2 DEF ProjectionOK
<1>5. CASE e.type = "PLAN_SUBMITTED"
    <2>1. e.plan \in Nat
        BY <1>5 DEF Event
    <2> QED BY <1>5, <2>1 DEF Apply, ProjectionOK
<1>6. CASE e.type = "RISK_CIRCUIT_BREAKER"
    BY <1>6 DEF Apply, ProjectionOK
<1>7. CASE e.type = "AUDIT_LOG"
    <2>1. e.action \in ForceActions
        BY <1>7 DEF Event
    <2>2. Apply(p, e) = [p EXCEPT !.audits = LastOf(Append(p.audits, e.action), AuditKept)]
        BY <1>7 DEF Apply
    <2>3. Append(p.audits, e.action) \in Seq(ForceActions)
        BY <2>1 DEF ProjectionOK
    <2>4. /\ LastOf(Append(p.audits, e.action), AuditKept) \in Seq(ForceActions)
          /\ Len(LastOf(Append(p.audits, e.action), AuditKept)) <= AuditKept
        BY <2>3, LastOfTyped, CoreParameters
    <2> QED BY <2>2, <2>4 DEF ProjectionOK
<1>8. CASE e.type = "MARKET_TICK"
    <2>1. e.symbol \in Symbols /\ e.quote \in Quote
        BY <1>8 DEF Event
    <2>2. Apply(p, e) = [p EXCEPT !.ticks = Put(p.ticks, e.symbol, e.quote)]
        BY <1>8 DEF Apply
    <2>3. /\ DOMAIN Put(p.ticks, e.symbol, e.quote) \subseteq Symbols
          /\ Put(p.ticks, e.symbol, e.quote) \in [DOMAIN Put(p.ticks, e.symbol, e.quote) -> Quote]
        BY <2>1 DEF Put, ProjectionOK
    <2> QED BY <2>2, <2>3 DEF ProjectionOK
<1>9. CASE e.type = "ORDER_VALIDATED"
    BY <1>9 DEF Apply
<1> QED BY <1>1, <1>2, <1>3, <1>4, <1>5, <1>6, <1>7, <1>8, <1>9 DEF Event

LEMMA ApplyAllTyped ==
    ASSUME NEW p, ProjectionOK(p), NEW s \in Seq(Event)
    PROVE  ProjectionOK(ApplyAll(p, s))
<1> DEFINE f == Folds(p, s)
           Typed == {n \in 0..Len(s) : ProjectionOK(f[n])}
<1>1. Len(s) \in Nat /\ \A n \in 1..Len(s) : s[n] \in Event
    BY LenProperties, ElementOfSeq
<1>2. f[0] = p /\ \A n \in 1..Len(s) : f[n] = Apply(f[n-1], s[n])
    BY <1>1, FoldsRun
<1>3. ApplyAll(p, s) = f[Len(s)]
    BY DEF ApplyAll
<1> HIDE DEF f
<1>4. 0 \in Typed
    BY <1>1, <1>2
<1>5. ASSUME NEW n \in 0..Len(s), n \in Typed, n # Len(s)
      PROVE  n + 1 \in Typed
    <2>1. f[n+1] = Apply(f[n], s[n+1]) /\ s[n+1] \in Event
        BY <1>1, <1>2, <1>5
    <2>2. ProjectionOK(f[n+1])
        BY <1>5, <2>1, ApplyTyped
    <2> QED BY <1>1, <1>5, <2>2
<1> HIDE DEF Typed
<1>6. \A n \in 0..Len(s) : n \in Typed
    BY <1>1, <1>4, <1>5, Climb
<1> QED BY <1>1, <1>3, <1>6 DEF Typed

LEMMA AllEventsTyped ==
    ASSUME NEW s \in Seq(Event)
    PROVE  AllEvents(s) \in Seq(Event)
<1>1. CASE Len(s) <= ReplayLimit
    BY <1>1 DEF AllEvents
<1>2. CASE ~(Len(s) <= ReplayLimit)
    <2>1. Len(s) \in Nat /\ \A i \in 1..ReplayLimit : s[i] \in Event
        BY <1>2, LenProperties, ElementOfSeq, CoreParameters
    <2>2. AllEvents(s) = SubSeq(s, 1, ReplayLimit)
        BY <1>2 DEF AllEvents
    <2> QED BY <2>1, <2>2, SubSeqProperties, CoreParameters
<1> QED BY <1>1, <1>2

LEMMA ReplayTyped ==
    ASSUME NEW s \in Seq(Event)
    PROVE  ProjectionOK(Replay(s))
BY AllEventsTyped, ApplyAllTyped, FreshTyped DEF Replay

---------------------------------------------------------------------------
(* The fold keeps two projections together that differ in the rejections,  *)
(* and in the pause only as far as the second is paused and the first not. *)

\* p follows q: they agree on what a trader acts on, and p is paused only if q is
Follows(p, q) == Agree(p, q) /\ (p.paused => q.paused)

LEMMA ApplyFollows ==
    ASSUME NEW p, ProjectionOK(p), NEW q, ProjectionOK(q), Follows(p, q), NEW e \in Event
    PROVE  Follows(Apply(p, e), Apply(q, e))
<1> USE DEF Follows, Agree
<1>0. /\ p = [orders |-> p.orders, held |-> p.held, plans |-> p.plans,
              ticks |-> p.ticks, rejections |-> p.rejections,
              paused |-> p.paused, audits |-> p.audits]
      /\ q = [orders |-> q.orders, held |-> q.held, plans |-> q.plans,
              ticks |-> q.ticks, rejections |-> q.rejections,
              paused |-> q.paused, audits |-> q.audits]
    BY DEF ProjectionOK
<1>1. CASE e.type = "ORDER_PROPOSED"
    BY <1>0, <1>1 DEF Apply
<1>2. CASE e.type = "ORDER_REJECTED"
    BY <1>0, <1>2 DEF Apply
<1>3. CASE e.type = "ORDER_FILLED"
    BY <1>0, <1>3 DEF Apply
<1>4. CASE e.type = "ORDER_CANCELLED"
    BY <1>0, <1>4 DEF Apply
<1>5. CASE e.type = "PLAN_SUBMITTED"
    BY <1>0, <1>5 DEF Apply
<1>6. CASE e.type = "RISK_CIRCUIT_BREAKER"
    BY <1>0, <1>6 DEF Apply
<1>7. CASE e.type = "AUDIT_LOG"
    BY <1>0, <1>7 DEF Apply
<1>8. CASE e.type = "MARKET_TICK"
    BY <1>0, <1>8 DEF Apply
<1>9. CASE e.type = "ORDER_VALIDATED"
    BY <1>9 DEF Apply
<1> QED BY <1>1, <1>2, <1>3, <1>4, <1>5, <1>6, <1>7, <1>8, <1>9 DEF Event

LEMMA ApplyAllFollows ==
    ASSUME NEW p, ProjectionOK(p), NEW q, ProjectionOK(q), Follows(p, q),
           NEW s \in Seq(Event)
    PROVE  Follows(ApplyAll(p, s), ApplyAll(q, s))
<1> DEFINE f == Folds(p, s)
           g == Folds(q, s)
           Together == {n \in 0..Len(s) : /\ ProjectionOK(f[n])
                                          /\ ProjectionOK(g[n])
                                          /\ Follows(f[n], g[n])}
<1>1. Len(s) \in Nat /\ \A n \in 1..Len(s) : s[n] \in Event
    BY LenProperties, ElementOfSeq
<1>2. f[0] = p /\ \A n \in 1..Len(s) : f[n] = Apply(f[n-1], s[n])
    BY <1>1, FoldsRun
<1>3. g[0] = q /\ \A n \in 1..Len(s) : g[n] = Apply(g[n-1], s[n])
    BY <1>1, FoldsRun
<1>4. ApplyAll(p, s) = f[Len(s)] /\ ApplyAll(q, s) = g[Len(s)]
    BY DEF ApplyAll
<1> HIDE DEF f, g
<1>5. 0 \in Together
    BY <1>1, <1>2, <1>3
<1>6. ASSUME NEW n \in 0..Len(s), n \in Together, n # Len(s)
      PROVE  n + 1 \in Together
    <2>1. f[n+1] = Apply(f[n], s[n+1]) /\ g[n+1] = Apply(g[n], s[n+1]) /\ s[n+1] \in Event
        BY <1>1, <1>2, <1>3, <1>6
    <2>2. ProjectionOK(f[n+1]) /\ ProjectionOK(g[n+1]) /\ Follows(f[n+1], g[n+1])
        BY <1>6, <2>1, ApplyTyped, ApplyFollows
    <2> QED BY <1>1, <1>6, <2>2
<1> HIDE DEF Together
<1>7. \A n \in 0..Len(s) : n \in Together
    BY <1>1, <1>5, <1>6, Climb
<1> QED BY <1>1, <1>4, <1>7 DEF Together

\* A batch of rejections leaves alone what a trader acts on.
LEMMA RejectionsFollow ==
    ASSUME NEW p, ProjectionOK(p), NEW q, ProjectionOK(q), Follows(p, q),
           NEW s \in Seq(Event), \A n \in 1..Len(s) : s[n].type = "ORDER_REJECTED"
    PROVE  Follows(p, ApplyAll(q, s))
<1> DEFINE g == Folds(q, s)
           Together == {n \in 0..Len(s) : ProjectionOK(g[n]) /\ Follows(p, g[n])}
<1>1. Len(s) \in Nat /\ \A n \in 1..Len(s) : s[n] \in Event
    BY LenProperties, ElementOfSeq
<1>2. g[0] = q /\ \A n \in 1..Len(s) : g[n] = Apply(g[n-1], s[n])
    BY <1>1, FoldsRun
<1>3. ApplyAll(q, s) = g[Len(s)]
    BY DEF ApplyAll
<1> HIDE DEF g
<1>4. 0 \in Together
    BY <1>1, <1>2
<1>5. ASSUME NEW n \in 0..Len(s), n \in Together, n # Len(s)
      PROVE  n + 1 \in Together
    <2>1. g[n+1] = Apply(g[n], s[n+1]) /\ s[n+1] \in Event /\ s[n+1].type = "ORDER_REJECTED"
        BY <1>1, <1>2, <1>5
    <2>2. ProjectionOK(g[n+1])
        BY <1>5, <2>1, ApplyTyped
    <2>3. g[n+1] = [g[n] EXCEPT !.rejections = @ + 1]
        BY <2>1 DEF Apply
    <2>4. Follows(p, g[n+1])
        BY <1>5, <2>3 DEF Follows, Agree, ProjectionOK
    <2> QED BY <1>1, <1>5, <2>2, <2>4
<1> HIDE DEF Together
<1>6. \A n \in 0..Len(s) : n \in Together
    BY <1>1, <1>4, <1>5, Climb
<1> QED BY <1>1, <1>3, <1>6 DEF Together

---------------------------------------------------------------------------
(* The events each handler commits are events. *)

LEMMA SmallEvents ==
    /\ \A id \in Nat : Rejected(id) \in Event /\ Cancelled(id) \in Event
                      /\ Validated(id) \in Event
    /\ \A id \in Nat \ {0}, order \in Order, plan \in Nat :
          Proposed(id, order, plan) \in Event
    /\ \A id \in Nat, symbol \in Booked, side \in Sides, qty \in Nat :
          Filled(id, symbol, side, qty) \in Event
    /\ \A plan \in Nat : PlanSubmitted(plan) \in Event
    /\ CircuitBreaker \in Event
    /\ \A action \in ForceActions : AuditLog(action) \in Event
    /\ \A symbol \in Symbols, quote \in Quote : MarketTick(symbol, quote) \in Event
BY DEF Event, Rejected, Cancelled, Validated, Proposed, Filled, PlanSubmitted,
       CircuitBreaker, AuditLog, MarketTick

LEMMA PlanEventsTyped ==
    ASSUME issued \in Seq(Order), NEW legs \in Seq(Order)
    PROVE  PlanEvents(legs) \in Seq(Event)
<1> DEFINE e(k) == IF k = 1 THEN PlanSubmitted(Len(issued) + 1)
                   ELSE IF k % 2 = 0
                        THEN Proposed(Len(issued) + k \div 2, legs[k \div 2], Len(issued) + 1)
                        ELSE Validated(Len(issued) + k \div 2)
           L == 2 * Len(legs) + 1
<1>1. Len(issued) \in Nat /\ Len(legs) \in Nat
    BY LenProperties
<1>2. ASSUME NEW k \in 1..L PROVE e(k) \in Event
    <2>1. CASE k = 1
        BY <1>1, <2>1, SmallEvents
    <2>2. CASE k # 1 /\ k % 2 = 0
        <3>1. k \div 2 \in 1..Len(legs)
            BY <1>1, <2>2
        <3>2. legs[k \div 2] \in Order
            BY <3>1, ElementOfSeq
        <3> QED BY <1>1, <2>2, <3>1, <3>2, SmallEvents
    <2>3. CASE k # 1 /\ k % 2 # 0
        <3>1. Len(issued) + k \div 2 \in Nat
            BY <1>1, <2>3
        <3> QED BY <2>3, <3>1, SmallEvents
    <2> QED BY <2>1, <2>2, <2>3
<1>3. L \in Nat
    BY <1>1
<1>4. PlanEvents(legs) = [k \in 1..L |-> e(k)]
    BY DEF PlanEvents
<1> HIDE DEF e, L
<1>5. [k \in 1..L |-> e(k)] \in Seq(Event)
    BY <1>2, <1>3, IsASeq
<1> QED BY <1>4, <1>5

LEMMA OpenFinite ==
    ASSUME ProjectionOK(proj)
    PROVE  IsFiniteSet(Open) /\ Cardinality(Open) \in Nat
<1>1. IsFiniteSet(Symbols \cup {Unknown})
    BY GateParameters, FS_AddElement
<1>2. Open \in SUBSET (Symbols \cup {Unknown})
    BY DEF Open, Booked
<1> QED BY <1>1, <1>2, FS_Subset, FS_CardinalityType

LEMMA ClosingFillsTyped ==
    ASSUME ProjectionOK(proj), NEW listing \in Listings(Open)
    PROVE  [i \in 1..Len(listing) |-> ClosingFill(listing[i])] \in Seq(Event)
<1> DEFINE e(i) == ClosingFill(listing[i])
<1>1. /\ Cardinality(Open) \in Nat
      /\ listing \in [1..Cardinality(Open) -> Open]
    BY OpenFinite DEF Listings
<1>2. listing \in Seq(Open) /\ Len(listing) = Cardinality(Open)
    BY <1>1
<1>3. ASSUME NEW i \in 1..Len(listing) PROVE e(i) \in Event
    <2>1. listing[i] \in Booked /\ proj.held[listing[i]] \in Int
        BY <1>1, <1>2 DEF Open, ProjectionOK
    <2>2. Abs(proj.held[listing[i]]) \in Nat
        BY <2>1 DEF Abs
    <2> QED BY <2>1, <2>2, SmallEvents DEF ClosingFill, Sides
<1> HIDE DEF e
<1>4. [i \in 1..Len(listing) |-> e(i)] \in Seq(Event)
    BY <1>1, <1>2, <1>3, IsASeq
<1> QED BY <1>4 DEF e

---------------------------------------------------------------------------
(* The inductive invariant. *)

\* ReplayFaithful and PauseSurvives are inductive together with TypeOK.
Inv == TypeOK /\ ReplayFaithful /\ PauseSurvives

\* what a step has to leave in the log and the projection
Rebuilt(l, p) ==
    /\ l \in Seq(Event)
    /\ ProjectionOK(p)
    /\ Len(l) <= ReplayLimit => Follows(p, Replay(l))

LEMMA InvRebuilt ==
    ASSUME Inv, up
    PROVE  Rebuilt(log, proj)
BY DEF Inv, TypeOK, ReplayFaithful, PauseSurvives, Rebuilt, Follows

LEMMA ReplayConcat ==
    ASSUME NEW s \in Seq(Event), NEW t \in Seq(Event), Len(s \o t) <= ReplayLimit
    PROVE  Len(s) <= ReplayLimit /\ Replay(s \o t) = ApplyAll(Replay(s), t)
<1>1. Len(s) \in Nat /\ Len(t) \in Nat /\ Len(s \o t) = Len(s) + Len(t)
    BY LenProperties, ConcatProperties
<1>2. Len(s) <= ReplayLimit
    BY <1>1, CoreParameters
<1>3. AllEvents(s \o t) = s \o t /\ AllEvents(s) = s
    BY <1>2 DEF AllEvents
<1>4. ApplyAll(Fresh, s \o t) = ApplyAll(ApplyAll(Fresh, s), t)
    BY ApplyAllConcat
<1> QED BY <1>2, <1>3, <1>4 DEF Replay

\* A transaction applied to the projection keeps it what the log rebuilds.
LEMMA CommitRebuilds ==
    ASSUME Inv, up, NEW events \in Seq(Event), Commit(events)
    PROVE  Rebuilt(log', proj')
<1>1. Rebuilt(log, proj)
    BY InvRebuilt
<1>2. log' = log \o events /\ proj' = ApplyAll(proj, events)
    BY DEF Commit
<1>3. log \in Seq(Event) /\ ProjectionOK(proj)
    BY <1>1 DEF Rebuilt
<1>4. log' \in Seq(Event) /\ ProjectionOK(proj')
    BY <1>2, <1>3, ApplyAllTyped, ConcatProperties
<1>5. ASSUME Len(log') <= ReplayLimit
      PROVE  Follows(proj', Replay(log'))
    <2>1. Len(log) <= ReplayLimit /\ Replay(log') = ApplyAll(Replay(log), events)
        BY <1>2, <1>3, <1>5, ReplayConcat
    <2>2. Follows(proj, Replay(log)) /\ ProjectionOK(Replay(log))
        BY <1>1, <1>3, <2>1, ReplayTyped DEF Rebuilt
    <2> QED BY <1>2, <1>3, <2>1, <2>2, ApplyAllFollows
<1> QED BY <1>4, <1>5 DEF Rebuilt

\* A transaction of rejections that is not applied does so as well.
LEMMA RejectionsRebuild ==
    ASSUME Inv, up, NEW n \in Nat,
           log' = log \o [i \in 1..n |-> Rejected(0)], proj' = proj
    PROVE  Rebuilt(log', proj')
<1> DEFINE events == [i \in 1..n |-> Rejected(0)]
<1>1. Rebuilt(log, proj)
    BY InvRebuilt
<1>2. log \in Seq(Event) /\ ProjectionOK(proj)
    BY <1>1 DEF Rebuilt
<1>3. Rejected(0) \in Event /\ Rejected(0).type = "ORDER_REJECTED"
    BY SmallEvents DEF Rejected
<1>4. events \in Seq(Event) /\ \A i \in 1..Len(events) : events[i].type = "ORDER_REJECTED"
    BY <1>3
<1>5. log' = log \o events
    OBVIOUS
<1> HIDE DEF events
<1>6. log' \in Seq(Event)
    BY <1>2, <1>4, <1>5, ConcatProperties
<1>7. ASSUME Len(log') <= ReplayLimit
      PROVE  Follows(proj, Replay(log'))
    <2>1. Len(log) <= ReplayLimit /\ Replay(log') = ApplyAll(Replay(log), events)
        BY <1>2, <1>4, <1>5, <1>7, ReplayConcat
    <2>2. Follows(proj, Replay(log)) /\ ProjectionOK(Replay(log))
        BY <1>1, <1>2, <2>1, ReplayTyped DEF Rebuilt
    <2> QED BY <1>2, <1>4, <2>1, <2>2, RejectionsFollow
<1> QED BY <1>2, <1>6, <1>7 DEF Rebuilt

\* An empty log rebuilds a fresh projection.
LEMMA EmptyRebuilds == Rebuilt(<< >>, Fresh)
<1>1. << >> \in Seq(Event) /\ Len(<< >>) = 0
    BY EmptySeq
<1>2. AllEvents(<< >>) = << >>
    BY <1>1, CoreParameters DEF AllEvents
<1>3. Replay(<< >>) = Fresh
    BY <1>1, <1>2, ApplyAllEmpty DEF Replay
<1>4. Follows(Fresh, Fresh)
    BY DEF Follows, Agree
<1> QED BY <1>1, <1>3, <1>4, FreshTyped DEF Rebuilt

LEMMA RebuiltInv ==
    ASSUME Rebuilt(log', proj'), up' \in BOOLEAN,
           audit' \in ForceActions \cup {NoAudit}, issued' \in Seq(Order)
    PROVE  Inv'
BY DEF Rebuilt, Inv, TypeOK, ReplayFaithful, PauseSurvives, Follows

LEMMA InitInv == ASSUME Init PROVE Inv
<1>1. Rebuilt(log, proj) /\ up \in BOOLEAN /\ audit = NoAudit /\ issued \in Seq(Order)
    BY EmptyRebuilds DEF Init
<1> QED BY <1>1 DEF Rebuilt, Inv, TypeOK, ReplayFaithful, PauseSurvives, Follows

LEMMA StepInv == ASSUME Inv, [Next]_vars PROVE Inv'
<1> USE DEF Serving
<1>0. /\ log \in Seq(Event) /\ ProjectionOK(proj) /\ up \in BOOLEAN
      /\ audit \in ForceActions \cup {NoAudit} /\ issued \in Seq(Order)
      /\ Len(issued) \in Nat
    BY LenProperties DEF Inv, TypeOK
<1>1. ASSUME NEW chain \in ChainStates, NEW legs \in PlanForms, SubmitPlan(legs, chain)
      PROVE  Inv'
    <2>1. legs \in Seq(Order)
        BY CoreParameters
    <2>2. Rebuilt(log', proj')
        BY <1>0, <1>1, <2>1, PlanEventsTyped, CommitRebuilds DEF SubmitPlan
    <2>3. issued' \in Seq(Order)
        BY <1>0, <1>1, <2>1, ConcatProperties DEF SubmitPlan
    <2> QED BY <1>0, <1>1, <2>2, <2>3, RebuiltInv DEF SubmitPlan
<1>2. ASSUME NEW chain \in ChainStates, NEW legs \in PlanForms, RejectPlan(legs, chain)
      PROVE  Inv'
    <2>1. Len(legs) \in Nat
        BY CoreParameters, LenProperties
    <2>2. Rebuilt(log', proj')
        BY <1>2, <2>1, RejectionsRebuild DEF RejectPlan
    <2> QED BY <1>0, <1>2, <2>2, RebuiltInv DEF RejectPlan
<1>3. ASSUME NEW chain \in ChainStates, NEW order \in OrderForms, SubmitOrder(order, chain)
      PROVE  Inv'
    <2> DEFINE id == Len(issued) + 1
               events == << Proposed(id, order, 0), Validated(id) >>
    <2>1. order \in Order
        BY CoreParameters
    <2>2. id \in Nat \ {0}
        BY <1>0
    <2>3. Proposed(id, order, 0) \in Event /\ Validated(id) \in Event
        BY <2>1, <2>2, SmallEvents
    <2>4. events \in Seq(Event)
        BY <2>3
    <2>5. up /\ Commit(events)
        BY <1>3 DEF SubmitOrder
    <2> HIDE DEF events
    <2>6. Rebuilt(log', proj')
        BY <2>4, <2>5, CommitRebuilds
    <2>7. issued' \in Seq(Order)
        BY <1>0, <1>3, <2>1 DEF SubmitOrder
    <2> QED BY <1>0, <1>3, <2>6, <2>7, RebuiltInv DEF SubmitOrder
<1>4. ASSUME NEW chain \in ChainStates, NEW order \in OrderForms, RejectOrder(order, chain)
      PROVE  Inv'
    <2>1. << Rejected(0) >> \in Seq(Event)
        BY SmallEvents
    <2>2. Rebuilt(log', proj')
        BY <1>4, <2>1, CommitRebuilds DEF RejectOrder
    <2> QED BY <1>0, <1>4, <2>2, RebuiltInv DEF RejectOrder
<1>5. ASSUME NEW id \in 1..Len(issued), PostFill(id)
      PROVE  Inv'
    <2> DEFINE event == Filled(id, Unknown, "BUY", issued[id].qty)
    <2>1. id \in Nat /\ issued[id] \in Order
        BY <1>0, ElementOfSeq
    <2>2. issued[id].qty \in Nat /\ Unknown \in Booked /\ "BUY" \in Sides
        BY <2>1 DEF Order, Booked, Sides
    <2>3. event \in Event
        BY <2>1, <2>2, SmallEvents
    <2>4. up /\ Commit(<< event >>)
        BY <1>5 DEF PostFill
    <2> HIDE DEF event
    <2>5. << event >> \in Seq(Event)
        BY <2>3
    <2>6. Rebuilt(log', proj')
        BY <2>4, <2>5, CommitRebuilds
    <2> QED BY <1>0, <1>5, <2>6, RebuiltInv DEF PostFill
<1>6. ASSUME NEW id \in 1..Len(issued), PostReject(id)
      PROVE  Inv'
    <2>1. << Rejected(id) >> \in Seq(Event)
        BY <1>0, SmallEvents
    <2>2. Rebuilt(log', proj')
        BY <1>6, <2>1, CommitRebuilds DEF PostReject
    <2> QED BY <1>0, <1>6, <2>2, RebuiltInv DEF PostReject
<1>7. ASSUME NEW id \in 1..Len(issued), CancelOrder(id)
      PROVE  Inv'
    <2>1. << Cancelled(id) >> \in Seq(Event)
        BY <1>0, SmallEvents
    <2>2. Rebuilt(log', proj')
        BY <1>7, <2>1, CommitRebuilds DEF CancelOrder
    <2> QED BY <1>0, <1>7, <2>2, RebuiltInv DEF CancelOrder
<1>8. ASSUME NEW listing \in Listings(Open), CloseAll(listing)
      PROVE  Inv'
    <2>1. [i \in 1..Len(listing) |-> ClosingFill(listing[i])] \in Seq(Event)
        BY <1>0, ClosingFillsTyped
    <2>2. Rebuilt(log', proj')
        BY <1>8, <2>1, CommitRebuilds DEF CloseAll
    <2> QED BY <1>0, <1>8, <2>2, RebuiltInv DEF CloseAll, ForceActions
<1>9. CASE ForcePause
    <2>1. << CircuitBreaker >> \in Seq(Event)
        BY SmallEvents
    <2>2. Rebuilt(log', proj')
        BY <1>9, <2>1, CommitRebuilds DEF ForcePause
    <2> QED BY <1>0, <1>9, <2>2, RebuiltInv DEF ForcePause, ForceActions
<1>10. CASE ForceResume
    <2>1. Rebuilt(log, proj)
        BY <1>10, InvRebuilt DEF ForceResume
    <2>2. proj' = [proj EXCEPT !.paused = FALSE] /\ log' = log
        BY <1>10 DEF ForceResume
    <2>3. ProjectionOK(proj')
        BY <1>0, <2>2 DEF ProjectionOK
    <2>4. ASSUME Len(log) <= ReplayLimit PROVE Follows(proj', Replay(log))
        <3>1. Follows(proj, Replay(log))
            BY <2>1, <2>4 DEF Rebuilt
        <3> QED BY <1>0, <2>2, <3>1 DEF Follows, Agree, ProjectionOK
    <2>5. Rebuilt(log', proj')
        BY <1>0, <2>2, <2>3, <2>4 DEF Rebuilt
    <2> QED BY <1>0, <1>10, <2>5, RebuiltInv DEF ForceResume, ForceActions
<1>11. CASE ForceReset
    BY <1>0, <1>11, EmptyRebuilds, RebuiltInv DEF ForceReset, ForceActions
<1>12. ASSUME NEW action \in {"CLOSE_ALL", "RELOAD_BRAIN"}, ForceRecordOnly(action)
       PROVE  Inv'
    <2>1. Rebuilt(log', proj')
        BY <1>12, InvRebuilt DEF ForceRecordOnly
    <2> QED BY <1>0, <1>12, <2>1, RebuiltInv DEF ForceRecordOnly, ForceActions
<1>13. ASSUME NEW symbol \in Symbols, NEW quote \in Quotes, PostTick(symbol, quote)
       PROVE  Inv'
    <2>1. quote \in Quote
        BY CoreParameters
    <2>2. << MarketTick(symbol, quote) >> \in Seq(Event)
        BY <2>1, SmallEvents
    <2>3. Rebuilt(log', proj')
        BY <1>13, <2>2, CommitRebuilds DEF PostTick
    <2> QED BY <1>0, <1>13, <2>3, RebuiltInv DEF PostTick
<1>14. CASE AppendAudit
    <2>1. audit \in ForceActions
        BY <1>0, <1>14 DEF AppendAudit
    <2>2. << AuditLog(audit) >> \in Seq(Event)
        BY <2>1, SmallEvents
    <2>3. Rebuilt(log', proj')
        BY <1>14, <2>2, CommitRebuilds DEF AppendAudit
    <2> QED BY <1>0, <1>14, <2>3, RebuiltInv DEF AppendAudit
<1>15. CASE Crash
    BY <1>0, <1>15, FreshTyped DEF Crash, Inv, TypeOK, ReplayFaithful, PauseSurvives
<1>16. CASE Restart
    <2>1. ProjectionOK(Replay(log)) /\ Follows(Replay(log), Replay(log))
        BY <1>0, ReplayTyped DEF Follows, Agree
    <2>2. Rebuilt(log', proj')
        BY <1>0, <1>16, <2>1 DEF Restart, Rebuilt
    <2> QED BY <1>0, <1>16, <2>2, RebuiltInv DEF Restart
<1>17. CASE UNCHANGED vars
    BY <1>17 DEF vars, Inv, TypeOK, ReplayFaithful, PauseSurvives
<1> QED
    <2>1. CASE Submission
        BY <2>1, <1>1, <1>2, <1>3, <1>4 DEF Submission
    <2>2. CASE Report
        BY <2>2, <1>5, <1>6 DEF Report
    <2>3. CASE Command
        BY <2>3, <1>7, <1>8, <1>9, <1>10, <1>11, <1>12 DEF Command
    <2>4. CASE Feed
        BY <2>4, <1>13 DEF Feed
    <2> QED BY <2>1, <2>2, <2>3, <2>4, <1>14, <1>15, <1>16, <1>17 DEF Next

---------------------------------------------------------------------------
(* Theorems. *)

THEOREM InvHolds == Spec => []Inv
<1>1. Init => Inv
    BY InitInv
<1>2. Inv /\ [Next]_vars => Inv'
    BY StepInv
<1> QED BY <1>1, <1>2, PTL DEF Spec

\* The log holds events, the projection is well formed and its audit trail
\* never outgrows the bound (state.py:273-274), whatever the handlers do.
THEOREM TypeCorrect == Spec => []TypeOK
<1>1. Inv => TypeOK
    BY DEF Inv
<1> QED BY <1>1, InvHolds, PTL

\* A restart rebuilds the orders, positions, plans, ticks and audit trail the
\* process had when it died (build_state_projection, event_store.py:204-213).
THEOREM CrashSafe == Spec => []ReplayFaithful
<1>1. Inv => ReplayFaithful
    BY DEF Inv
<1> QED BY <1>1, InvHolds, PTL

\* No restart lifts a pause (force_action PAUSE, server.py:291-295).
THEOREM PauseKept == Spec => []PauseSurvives
<1>1. Inv => PauseSurvives
    BY DEF Inv
<1> QED BY <1>1, InvHolds, PTL

---------------------------------------------------------------------------
(* close_all. *)

\* A listing of a finite set names each of its elements.
LEMMA ListingComplete ==
    ASSUME NEW S, IsFiniteSet(S), NEW listing \in Listings(S)
    PROVE  \A s \in S : \E i \in DOMAIN listing : listing[i] = s
<1> DEFINE D == 1..Cardinality(S)
<1>1. Cardinality(S) \in Nat
    BY FS_CardinalityType
<1>2. IsFiniteSet(D) /\ Cardinality(D) = Cardinality(S)
    BY <1>1, FS_Interval
<1>3. listing \in [D -> S] /\ \A i, j \in D : listing[i] = listing[j] => i = j
    BY DEF Listings
<1>4. listing \in Injection(D, S)
    BY <1>3 DEF Injection, IsInjective
<1> HIDE DEF D
<1>5. listing \in Surjection(D, S)
    BY <1>2, <1>4, FS_Injection
<1> QED BY <1>3, <1>5 DEF Surjection

\* The closing fill of a symbol brings its position to zero and moves nothing else.
LEMMA ClosingFillCloses ==
    ASSUME ProjectionOK(proj), NEW p, ProjectionOK(p), NEW s \in Booked,
           p.held[s] = proj.held[s]
    PROVE  LET q == Apply(p, ClosingFill(s))
           IN  q.held[s] = 0 /\ \A r \in Booked : r # s => q.held[r] = p.held[r]
<1> DEFINE side == IF proj.held[s] > 0 THEN "SELL" ELSE "BUY"
           e == ClosingFill(s)
           q == Apply(p, e)
<1>1. e.type = "ORDER_FILLED" /\ e.id = 0 /\ e.symbol = s /\ e.side = side
      /\ e.qty = Abs(proj.held[s])
    BY DEF ClosingFill, Filled
<1>2. 0 \notin DOMAIN p.orders
    BY DEF ProjectionOK
<1>3. FillTarget(p.orders, e) = e
    BY <1>1, <1>2 DEF FillTarget
<1> HIDE DEF e, side
<1>4. q = [p EXCEPT !.orders = WithStatus(p.orders, e.id, "FILLED"),
                    !.held[s] = @ + Signed(side, e.qty)]
    <2> DEFINE t == FillTarget(p.orders, e)
    <2>1. t.symbol = s /\ t.side = side
        BY <1>1, <1>3
    <2>2. q = [p EXCEPT !.orders = WithStatus(p.orders, e.id, "FILLED"),
                        !.held[t.symbol] = @ + Signed(t.side, e.qty)]
        BY <1>1 DEF Apply
    <2> HIDE DEF t, q
    <2> QED BY <2>1, <2>2
<1> HIDE DEF q
<1>5. q.held = [p.held EXCEPT ![s] = @ + Signed(side, e.qty)]
    BY <1>4 DEF ProjectionOK
<1>6. proj.held[s] \in Int
    BY DEF ProjectionOK
<1>7. proj.held[s] + Signed(side, e.qty) = 0
    BY <1>1, <1>6 DEF Signed, Abs, side
<1>8. p.held \in [Booked -> Int]
    BY DEF ProjectionOK
<1>9. q.held[s] = 0 /\ \A r \in Booked : r # s => q.held[r] = p.held[r]
    BY <1>5, <1>7, <1>8
<1> QED BY <1>9 DEF q, e

\* Whatever the order in which the positions are listed, after the fills of
\* close_all no position is left.
LEMMA ClosingFillsFlatten ==
    ASSUME ProjectionOK(proj), NEW listing \in Listings(Open), NEW s \in Booked
    PROVE  ApplyAll(proj, [i \in 1..Len(listing) |-> ClosingFill(listing[i])]).held[s] = 0
<1> DEFINE fills == [i \in 1..Len(listing) |-> ClosingFill(listing[i])]
           f == Folds(proj, fills)
           L == Len(listing)
           Done == {n \in 0..L :
                       /\ ProjectionOK(f[n])
                       /\ \A r \in Booked :
                             f[n].held[r] = IF \E i \in 1..n : listing[i] = r
                                            THEN 0 ELSE proj.held[r]}
<1>1. /\ Cardinality(Open) \in Nat /\ IsFiniteSet(Open)
      /\ listing \in [1..Cardinality(Open) -> Open]
      /\ \A i, j \in 1..Cardinality(Open) : listing[i] = listing[j] => i = j
    BY OpenFinite DEF Listings
<1>2. L = Cardinality(Open) /\ L \in Nat
    BY <1>1
<1>3. fills \in Seq(Event)
    BY ClosingFillsTyped
<1>4. Len(fills) = L /\ \A i \in 1..L : fills[i] = ClosingFill(listing[i])
    BY <1>2
<1> HIDE DEF fills
<1>5. f[0] = proj /\ \A n \in 1..L : f[n] = Apply(f[n-1], fills[n])
    BY <1>2, <1>4, FoldsRun
<1>6. ApplyAll(proj, fills) = f[L]
    BY <1>4 DEF ApplyAll
<1> HIDE DEF f, L
<1>7. 0 \in Done
    BY <1>2, <1>5
<1>8. ASSUME NEW n \in 0..L, n \in Done, n # L
      PROVE  n + 1 \in Done
    <2> DEFINE r == listing[n+1]
    <2>1. n + 1 \in 1..L /\ f[n+1] = Apply(f[n], fills[n+1])
        BY <1>2, <1>5, <1>8
    <2>2. fills[n+1] \in Event
        BY <1>3, <1>4, <2>1, ElementOfSeq
    <2>3. ProjectionOK(f[n]) /\ ProjectionOK(f[n+1])
        BY <1>8, <2>1, <2>2, ApplyTyped
    <2>4. r \in Booked /\ ~ \E i \in 1..n : listing[i] = r
        BY <1>1, <1>2, <1>8, <2>1 DEF Open
    <2>5. f[n].held[r] = proj.held[r]
        BY <1>8, <2>4
    <2>6. fills[n+1] = ClosingFill(r)
        BY <1>4, <2>1
    <2>7. f[n+1].held[r] = 0 /\ \A x \in Booked : x # r => f[n+1].held[x] = f[n].held[x]
        BY <2>1, <2>3, <2>4, <2>5, <2>6, ClosingFillCloses
    <2>8. ASSUME NEW x \in Booked
          PROVE  f[n+1].held[x] = IF \E i \in 1..n+1 : listing[i] = x
                                  THEN 0 ELSE proj.held[x]
        <3>1. CASE x = r
            BY <1>8, <2>1, <2>7, <3>1
        <3>2. CASE x # r
            <4>1. (\E i \in 1..n+1 : listing[i] = x) <=> (\E i \in 1..n : listing[i] = x)
                BY <1>2, <1>8, <3>2
            <4> QED BY <1>8, <2>7, <3>2, <4>1
        <3> QED BY <3>1, <3>2
    <2> QED BY <2>1, <2>3, <2>8
<1>9. ProjectionOK(f[L]) /\ f[L].held[s] = IF \E i \in 1..L : listing[i] = s
                                          THEN 0 ELSE proj.held[s]
    <2> HIDE DEF Done
    <2>1. \A n \in 0..L : n \in Done
        BY <1>2, <1>7, <1>8, Climb
    <2>2. L \in Done
        BY <1>2, <2>1
    <2> QED BY <2>2 DEF Done
<1>10. s \in Open => \E i \in 1..L : listing[i] = s
    BY <1>1, <1>2, ListingComplete
<1>11. f[L].held[s] = 0
    BY <1>9, <1>10 DEF Open
<1> QED BY <1>6, <1>11 DEF fills

\* close_all leaves no position, however many there are (close_all,
\* server.py:243-286).
THEOREM CloseAllComplete == Spec => CloseAllFlattens
<1>1. Inv /\ [Next]_vars =>
        [\A listing \in Listings(Open) :
            CloseAll(listing) => \A s \in Booked : proj'.held[s] = 0]_vars
    <2> SUFFICES ASSUME Inv, NEW listing \in Listings(Open), CloseAll(listing),
                        NEW s \in Booked
                 PROVE  proj'.held[s] = 0
        OBVIOUS
    <2>1. ProjectionOK(proj)
        BY DEF Inv, TypeOK
    <2>2. proj' = ApplyAll(proj, [i \in 1..Len(listing) |-> ClosingFill(listing[i])])
        BY DEF CloseAll, Commit
    <2> QED BY <2>1, <2>2, ClosingFillsFlatten
<1> QED BY <1>1, InvHolds, PTL DEF Spec, CloseAllFlattens
=============================================================================
