------------------------- MODULE ExecGatewayProofs -------------------------
(***************************************************************************)
(* The gateway beside the core, for every value of the constants: the      *)
(* composition implements the core alone, so that what TradingCoreProofs   *)
(* says of the core holds of it, the book its clients see among it; no     *)
(* order is settled twice in dry-run, or with --live before the first      *)
(* fault; and none is ever settled three times.                            *)
(*                                                                         *)
(* The proposals travel in order and are handled in order, so that all     *)
(* those the gateway still has to handle are younger than every order it   *)
(* ever sent a request for: this, and not processed_orders, is why it      *)
(* sends no second one.                                                    *)
(***************************************************************************)
EXTENDS ExecGateway, TradingCorePositionProofs

---------------------------------------------------------------------------
(* The invariant. *)

Settlement(e) == e.type \in Settling /\ e.id # 0

\* the proposals on the wire and in the batch being handled are issued orders,
\* each older than those behind it
InOrder ==
    /\ wire \in Seq(Seq(Nat))
    /\ todo \in Seq(Nat)
    /\ \A k \in 1..Len(todo) : todo[k] \in 1..Len(issued)
    /\ \A b \in 1..Len(wire) : \A k \in 1..Len(wire[b]) : wire[b][k] \in 1..Len(issued)
    /\ \A k, l \in 1..Len(todo) : k < l => todo[k] < todo[l]
    /\ \A b \in 1..Len(wire) : \A k, l \in 1..Len(wire[b]) :
          k < l => wire[b][k] < wire[b][l]
    /\ \A b, c \in 1..Len(wire) : b < c =>
          \A k \in 1..Len(wire[b]), l \in 1..Len(wire[c]) : wire[b][k] < wire[c][l]
    /\ \A k \in 1..Len(todo), b \in 1..Len(wire) :
          \A l \in 1..Len(wire[b]) : todo[k] < wire[b][l]

\* all that is still to be handled is younger than order id
Past(id) ==
    /\ \A k \in 1..Len(todo) : id < todo[k]
    /\ \A b \in 1..Len(wire) : \A k \in 1..Len(wire[b]) : id < wire[b][k]

\* every request and every settlement is of a past order
Requested ==
    /\ inflight \subseteq Request
    /\ call \in Request \cup {NoCall}
    /\ answer \in {"none", "ok", "failed"}
    /\ faults \in Nat
    /\ \A r \in inflight : r.id \in 1..Len(issued) /\ Past(r.id)
    /\ call # NoCall => call.id \in 1..Len(issued) /\ Past(call.id)
    /\ \A i \in 1..Len(log) :
          Settlement(log[i]) => log[i].id \in 1..Len(issued) /\ Past(log[i].id)

Guarded == DryRun \/ faults = 0

\* an order has one request or one settlement
Once ==
    Guarded =>
        /\ \A i, j \in 1..Len(log) :
              Settlement(log[i]) /\ Settlement(log[j]) /\ log[i].id = log[j].id => i = j
        /\ \A r \in inflight, i \in 1..Len(log) : Settlement(log[i]) => log[i].id # r.id
        /\ \A q, r \in inflight : q.id = r.id => q = r

\* before the first fault no request fails
Smooth ==
    ~DryRun /\ faults = 0 =>
        /\ up
        /\ answer # "failed"
        /\ call # NoCall /\ answer = "none" => call \in inflight

GatewayInv == Inv /\ InOrder /\ Requested /\ Once /\ Smooth

---------------------------------------------------------------------------
(* The channel: what each move of a proposal keeps.  Kept stands for the   *)
(* two facts all of them establish.                                        *)

Kept ==
    /\ InOrder'
    /\ \A id \in Nat : id <= Len(issued) /\ Past(id) => Past(id)'

\* more orders are issued, and none is sent
LEMMA StayKeeps ==
    ASSUME InOrder, wire' = wire, todo' = todo,
           Len(issued) \in Nat, Len(issued') \in Nat, Len(issued) <= Len(issued')
    PROVE  Kept
BY DEF Kept, InOrder, Past

\* the orders of a submission are younger than all others
LEMMA SendKeeps ==
    ASSUME InOrder, todo' = todo,
           Len(issued) \in Nat, Len(issued') \in Nat, Len(issued) <= Len(issued'),
           wire' = Append(wire, [k \in 1..Len(issued') - Len(issued) |-> Len(issued) + k])
    PROVE  Kept
<1> DEFINE d == Len(issued') - Len(issued)
           batch == [k \in 1..d |-> Len(issued) + k]
<1>1. batch \in Seq(Nat) /\ Len(batch) = d /\ \A k \in 1..d : batch[k] = Len(issued) + k
    OBVIOUS
<1>2. wire \in Seq(Seq(Nat)) /\ Len(wire) \in Nat
    BY LenProperties DEF InOrder
<1> HIDE DEF batch
<1>3. /\ wire' \in Seq(Seq(Nat)) /\ Len(wire') = Len(wire) + 1
      /\ \A b \in 1..Len(wire) : wire'[b] = wire[b]
      /\ wire'[Len(wire) + 1] = batch
    BY <1>1, <1>2, AppendProperties DEF batch
<1>4. \A b \in 1..Len(wire') :
          \/ b \in 1..Len(wire) /\ wire'[b] = wire[b]
          \/ b = Len(wire) + 1 /\ wire'[b] = batch
    BY <1>2, <1>3
<1>5. \A b \in 1..Len(wire) : \A k \in 1..Len(wire[b]) : wire[b][k] \in 1..Len(issued)
    BY DEF InOrder
<1>6. \A k \in 1..Len(batch) :
          batch[k] \in 1..Len(issued') /\ batch[k] > Len(issued)
    BY <1>1
<1>7. \A b \in 1..Len(wire') : \A k \in 1..Len(wire'[b]) : wire'[b][k] \in 1..Len(issued')
    BY <1>4, <1>5, <1>6
<1>8. ASSUME NEW b \in 1..Len(wire'),
             NEW k \in 1..Len(wire'[b]), NEW l \in 1..Len(wire'[b]), k < l
      PROVE  wire'[b][k] < wire'[b][l]
    <2>1. CASE b \in 1..Len(wire) /\ wire'[b] = wire[b]
        <3>1. k \in 1..Len(wire[b]) /\ l \in 1..Len(wire[b])
            BY <2>1
        <3>2. wire[b][k] < wire[b][l]
            BY <1>8, <2>1, <3>1 DEF InOrder
        <3> QED BY <2>1, <3>2
    <2>2. CASE wire'[b] = batch
        <3>1. k \in 1..d /\ l \in 1..d
            BY <1>1, <2>2
        <3>2. batch[k] = Len(issued) + k /\ batch[l] = Len(issued) + l
            BY <1>1, <3>1
        <3> QED BY <1>8, <2>2, <3>1, <3>2
    <2> QED BY <1>4, <2>1, <2>2
<1>9. ASSUME NEW b \in 1..Len(wire'), NEW c \in 1..Len(wire'), b < c,
             NEW k \in 1..Len(wire'[b]), NEW l \in 1..Len(wire'[c])
      PROVE  wire'[b][k] < wire'[c][l]
    <2>1. b \in 1..Len(wire) /\ wire'[b] = wire[b]
        BY <1>2, <1>3, <1>4, <1>9
    <2>2. wire[b][k] \in 1..Len(issued)
        BY <1>5, <1>9, <2>1
    <2>3. CASE wire'[c] = batch
        <3>1. l \in 1..d
            BY <1>1, <2>3
        <3>2. batch[l] = Len(issued) + l
            BY <1>1, <3>1
        <3>3. wire'[b][k] = wire[b][k] /\ wire'[c][l] = Len(issued) + l
            BY <2>1, <2>3, <3>2
        <3>4. l > 0
            BY <3>1
        <3> QED BY <2>2, <3>1, <3>3, <3>4, SMTT(30)
    <2>4. CASE c \in 1..Len(wire) /\ wire'[c] = wire[c]
        <3>1. k \in 1..Len(wire[b]) /\ l \in 1..Len(wire[c])
            BY <1>9, <2>1, <2>4
        <3>2. wire[b][k] < wire[c][l]
            BY <1>9, <2>1, <2>4, <3>1 DEF InOrder
        <3> QED BY <2>1, <2>4, <3>2
    <2> QED BY <1>4, <2>3, <2>4
<1>10. \A k \in 1..Len(todo') : todo'[k] \in 1..Len(issued') /\ todo'[k] <= Len(issued)
    BY DEF InOrder
<1>11. \A k \in 1..Len(todo'), b \in 1..Len(wire') :
          \A l \in 1..Len(wire'[b]) : todo'[k] < wire'[b][l]
    BY <1>4, <1>6, <1>10 DEF InOrder
<1>12. \A k, l \in 1..Len(todo') : k < l => todo'[k] < todo'[l]
    BY DEF InOrder
<1>13. todo' \in Seq(Nat)
    BY DEF InOrder
<1>14. InOrder'
    BY <1>3, <1>7, <1>8, <1>9, <1>10, <1>11, <1>12, <1>13 DEF InOrder
<1>15. ASSUME NEW id \in Nat, id <= Len(issued), Past(id) PROVE Past(id)'
    BY <1>4, <1>6, <1>15 DEF Past
<1> QED BY <1>14, <1>15 DEF Kept

\* a connection that drops loses the messages behind some point
LEMMA CutKeeps ==
    ASSUME InOrder, todo' = todo, issued' = issued,
           NEW n \in 0..Len(wire), wire' = SubSeq(wire, 1, n)
    PROVE  Kept
<1>1. wire \in Seq(Seq(Nat)) /\ Len(wire) \in Nat
    BY LenProperties DEF InOrder
<1>2. n \in Int /\ \A b \in 1..n : wire[b] \in Seq(Nat)
    BY <1>1, ElementOfSeq
<1>3. /\ wire' \in Seq(Seq(Nat)) /\ Len(wire') = n
      /\ \A b \in 1..n : wire'[b] = wire[b]
    <2>1. /\ SubSeq(wire, 1, n) \in Seq(Seq(Nat))
          /\ Len(SubSeq(wire, 1, n)) = IF 1 <= n THEN n - 1 + 1 ELSE 0
          /\ \A i \in 1..n - 1 + 1 : SubSeq(wire, 1, n)[i] = wire[1 + i - 1]
        BY <1>2, SubSeqProperties
    <2> QED BY <2>1
<1>4. \A b \in 1..Len(wire') : b \in 1..Len(wire) /\ wire'[b] = wire[b]
    BY <1>1, <1>3
<1>5. InOrder'
    <2>1. \A k \in 1..Len(todo'), b \in 1..Len(wire') :
              \A l \in 1..Len(wire'[b]) : todo'[k] < wire'[b][l]
        BY <1>4, SMTT(30) DEF InOrder
    <2>2. \A b \in 1..Len(wire') : \A k \in 1..Len(wire'[b]) : wire'[b][k] \in 1..Len(issued')
        BY <1>4 DEF InOrder
    <2>3. \A b \in 1..Len(wire') : \A k, l \in 1..Len(wire'[b]) :
              k < l => wire'[b][k] < wire'[b][l]
        BY <1>4 DEF InOrder
    <2>4. ASSUME NEW b \in 1..Len(wire'), NEW c \in 1..Len(wire'), b < c,
                 NEW k \in 1..Len(wire'[b]), NEW l \in 1..Len(wire'[c])
          PROVE  wire'[b][k] < wire'[c][l]
        <3>1. /\ b \in 1..Len(wire) /\ wire'[b] = wire[b]
              /\ c \in 1..Len(wire) /\ wire'[c] = wire[c]
            BY <1>4
        <3> QED BY <2>4, <3>1 DEF InOrder
    <2>5. /\ todo' \in Seq(Nat)
          /\ \A k \in 1..Len(todo') : todo'[k] \in 1..Len(issued')
          /\ \A k, l \in 1..Len(todo') : k < l => todo'[k] < todo'[l]
        BY DEF InOrder
    <2> QED BY <1>3, <2>1, <2>2, <2>3, <2>4, <2>5 DEF InOrder
<1>6. ASSUME NEW id \in Nat, Past(id) PROVE Past(id)'
    BY <1>4, <1>6 DEF Past
<1> QED BY <1>5, <1>6 DEF Kept

\* the gateway forgets all it had received
LEMMA ForgetKeeps ==
    ASSUME todo' = << >>, wire' = << >>
    PROVE  Kept
BY DEF Kept, InOrder, Past

LEMMA RecvKeeps ==
    ASSUME InOrder, issued' = issued, todo = << >>, wire # << >>,
           todo' = Head(wire), wire' = Tail(wire)
    PROVE  Kept
<1>1. wire \in Seq(Seq(Nat)) /\ Len(wire) \in Nat \ {0} /\ Head(wire) = wire[1]
    BY LenProperties, EmptySeq DEF InOrder
<1>2. todo' = wire[1] /\ todo' \in Seq(Nat)
    BY <1>1, ElementOfSeq
<1>3. /\ wire' \in Seq(Seq(Nat)) /\ Len(wire') = Len(wire) - 1
      /\ \A b \in 1..Len(wire') : wire'[b] = wire[b+1]
    BY <1>1, HeadTailProperties
<1>4. \A b \in 1..Len(wire') : b + 1 \in 1..Len(wire) /\ 1 < b + 1
    BY <1>1, <1>3
<1>5. 1 \in 1..Len(wire)
    BY <1>1
<1>6. InOrder'
    <2>1. \A k \in 1..Len(todo') : todo'[k] \in 1..Len(issued')
        BY <1>2, <1>5 DEF InOrder
    <2>2. \A b \in 1..Len(wire') : \A k \in 1..Len(wire'[b]) : wire'[b][k] \in 1..Len(issued')
        BY <1>3, <1>4 DEF InOrder
    <2>3. \A k, l \in 1..Len(todo') : k < l => todo'[k] < todo'[l]
        BY <1>2, <1>5 DEF InOrder
    <2>4. \A b \in 1..Len(wire') : \A k, l \in 1..Len(wire'[b]) :
              k < l => wire'[b][k] < wire'[b][l]
        BY <1>3, <1>4 DEF InOrder
    <2>5. \A b, c \in 1..Len(wire') : b < c =>
              \A k \in 1..Len(wire'[b]), l \in 1..Len(wire'[c]) : wire'[b][k] < wire'[c][l]
        <3>1. \A b, c \in 1..Len(wire') : b < c => b + 1 < c + 1
            BY <1>1, <1>3
        <3> QED BY <1>3, <1>4, <3>1 DEF InOrder
    <2>6. \A k \in 1..Len(todo'), b \in 1..Len(wire') :
              \A l \in 1..Len(wire'[b]) : todo'[k] < wire'[b][l]
        BY <1>2, <1>3, <1>4, <1>5 DEF InOrder
    <2> QED BY <1>2, <1>3, <2>1, <2>2, <2>3, <2>4, <2>5, <2>6 DEF InOrder
<1>7. ASSUME NEW id \in Nat, Past(id) PROVE Past(id)'
    BY <1>2, <1>3, <1>4, <1>5, <1>7 DEF Past
<1> QED BY <1>6, <1>7 DEF Kept

\* the next proposal is taken, and becomes the youngest past one
LEMMA TakeKeeps ==
    ASSUME InOrder, issued' = issued, todo # << >>, todo' = Tail(todo), wire' = wire
    PROVE  /\ Kept
           /\ Head(todo) \in 1..Len(issued)
           /\ \A id \in Nat : id = Head(todo) => Past(id)'
           /\ \A id \in Nat : Past(id) => id < Head(todo)
<1>1. todo \in Seq(Nat) /\ Len(todo) \in Nat \ {0} /\ Head(todo) = todo[1]
    BY LenProperties, EmptySeq DEF InOrder
<1>2. /\ todo' \in Seq(Nat) /\ Len(todo') = Len(todo) - 1
      /\ \A k \in 1..Len(todo') : todo'[k] = todo[k+1]
    BY <1>1, HeadTailProperties
<1>3. 1 \in 1..Len(todo)
      /\ \A k \in 1..Len(todo') : k + 1 \in 1..Len(todo) /\ 1 < k + 1
    BY <1>1, <1>2
<1>4. InOrder'
    <2>1. \A k, l \in 1..Len(todo') : k < l => todo'[k] < todo'[l]
        <3>1. \A k, l \in 1..Len(todo') : k < l => k + 1 < l + 1
            BY <1>1, <1>2
        <3> QED BY <1>2, <1>3, <3>1 DEF InOrder
    <2>2. \A k \in 1..Len(todo') : todo'[k] \in 1..Len(issued')
        BY <1>2, <1>3 DEF InOrder
    <2>3. ASSUME NEW k \in 1..Len(todo'), NEW b \in 1..Len(wire'), NEW l \in 1..Len(wire'[b])
          PROVE  todo'[k] < wire'[b][l]
        <3>1. k + 1 \in 1..Len(todo) /\ todo'[k] = todo[k+1] /\ wire'[b] = wire[b]
              /\ b \in 1..Len(wire) /\ l \in 1..Len(wire[b])
            BY <1>2, <1>3
        <3>2. todo[k+1] < wire[b][l]
            BY <3>1 DEF InOrder
        <3> QED BY <3>1, <3>2
    <2> QED BY <1>2, <2>1, <2>2, <2>3 DEF InOrder
<1>5. ASSUME NEW id \in Nat, Past(id) PROVE Past(id)' /\ id < Head(todo)
    BY <1>1, <1>2, <1>3, <1>5 DEF Past
<1>6. ASSUME NEW id \in Nat, id = Head(todo) PROVE Past(id)'
    <2>1. \A k \in 1..Len(todo') : todo[1] < todo'[k]
        BY <1>2, <1>3 DEF InOrder
    <2>2. \A b \in 1..Len(wire) : \A k \in 1..Len(wire[b]) : todo[1] < wire[b][k]
        BY <1>3 DEF InOrder
    <2> QED BY <1>1, <1>6, <2>1, <2>2 DEF Past
<1>7. Head(todo) \in 1..Len(issued)
    BY <1>1, <1>3 DEF InOrder
<1> QED BY <1>4, <1>5, <1>6, <1>7 DEF Kept

---------------------------------------------------------------------------
(* The core: only the requests of the gateway settle an order. *)

OldSettlements ==
    \A i \in 1..Len(log') : Settlement(log'[i]) => i \in 1..Len(log) /\ log'[i] = log[i]

IssuedGrows ==
    Len(issued) \in Nat /\ Len(issued') \in Nat /\ Len(issued) <= Len(issued')

LEMMA AppendHarmless ==
    ASSUME log \in Seq(Event), NEW events \in Seq(Event), log' = log \o events,
           \A i \in 1..Len(events) : ~Settlement(events[i])
    PROVE  OldSettlements
<1>1. /\ Len(log) \in Nat /\ Len(events) \in Nat /\ Len(log') = Len(log) + Len(events)
      /\ \A i \in 1..Len(log) + Len(events) :
            log'[i] = IF i <= Len(log) THEN log[i] ELSE events[i - Len(log)]
    BY LenProperties, ConcatProperties
<1> SUFFICES ASSUME NEW i \in 1..Len(log'), Settlement(log'[i])
             PROVE  i \in 1..Len(log) /\ log'[i] = log[i]
    BY DEF OldSettlements
<1>2. CASE ~(i <= Len(log))
    <2>1. i - Len(log) \in 1..Len(events) /\ log'[i] = events[i - Len(log)]
        BY <1>1, <1>2
    <2> QED BY <2>1
<1> QED BY <1>1, <1>2

LEMMA AppendOneHarmless ==
    ASSUME log \in Seq(Event), NEW e \in Event, ~Settlement(e), log' = log \o << e >>
    PROVE  OldSettlements
<1> DEFINE events == << e >>
<1>1. events \in Seq(Event) /\ \A i \in 1..Len(events) : ~Settlement(events[i])
    OBVIOUS
<1> HIDE DEF events
<1>2. log' = log \o events
    BY DEF events
<1> QED BY <1>1, <1>2, AppendHarmless

LEMMA Harmless ==
    /\ ~Settlement(Rejected(0)) /\ ~Settlement(CircuitBreaker)
    /\ \A id : ~Settlement(Cancelled(id)) /\ ~Settlement(Validated(id))
    /\ \A id, order, plan : ~Settlement(Proposed(id, order, plan))
    /\ \A s : ~Settlement(ClosingFill(s))
    /\ \A plan : ~Settlement(PlanSubmitted(plan))
    /\ \A action : ~Settlement(AuditLog(action))
    /\ \A symbol, quote : ~Settlement(MarketTick(symbol, quote))
BY DEF Settlement, Settling, Rejected, CircuitBreaker, Cancelled, Validated, Proposed,
       ClosingFill, Filled, PlanSubmitted, AuditLog, MarketTick

LEMMA CoreSettlesNothing ==
    ASSUME Inv, Submission \/ Command \/ Feed \/ AppendAudit \/ Restart \/ Crash
    PROVE  OldSettlements /\ IssuedGrows
<1>0. /\ log \in Seq(Event) /\ Len(log) \in Nat /\ ProjectionOK(proj)
      /\ audit \in ForceActions \cup {NoAudit} /\ issued \in Seq(Order)
      /\ Len(issued) \in Nat
    BY LenProperties DEF Inv, TypeOK
<1> DEFINE Goal == OldSettlements /\ IssuedGrows
<1>a. ASSUME issued' = issued PROVE IssuedGrows
    BY <1>0, <1>a DEF IssuedGrows
<1>b. ASSUME log' = log PROVE OldSettlements
    BY <1>b DEF OldSettlements
<1>1. ASSUME NEW chain \in ChainStates, NEW legs \in PlanForms, SubmitPlan(legs, chain)
      PROVE  Goal
    <2>1. legs \in Seq(Order)
        BY CoreParameters
    <2>2. /\ Len(legs) \in Nat /\ issued' = issued \o legs /\ log' = log \o PlanEvents(legs)
        BY <1>1, <2>1, LenProperties DEF SubmitPlan, Commit
    <2>3. Len(issued') = Len(issued) + Len(legs)
        BY <1>0, <2>1, <2>2, ConcatProperties
    <2>4. \A k \in 1..Len(PlanEvents(legs)) : ~Settlement(PlanEvents(legs)[k])
        <3>1. Len(PlanEvents(legs)) = 2 * Len(legs) + 1
            BY <2>2 DEF PlanEvents
        <3> QED BY <3>1, Harmless DEF PlanEvents
    <2>5. PlanEvents(legs) \in Seq(Event)
        BY <1>0, <2>1, PlanEventsTyped
    <2>6. OldSettlements
        BY <1>0, <2>2, <2>4, <2>5, AppendHarmless
    <2> QED BY <1>0, <2>2, <2>3, <2>6 DEF IssuedGrows
<1>2. ASSUME NEW chain \in ChainStates, NEW legs \in PlanForms, RejectPlan(legs, chain)
      PROVE  Goal
    <2> DEFINE events == [i \in 1..Len(legs) |-> Rejected(0)]
    <2>1. Len(legs) \in Nat /\ Rejected(0) \in Event
        BY CoreParameters, LenProperties, SmallEvents
    <2>2. events \in Seq(Event) /\ \A i \in 1..Len(events) : ~Settlement(events[i])
        BY <2>1, Harmless
    <2>3. log' = log \o events /\ issued' = issued
        BY <1>2 DEF RejectPlan
    <2> HIDE DEF events
    <2> QED BY <1>0, <1>a, <2>2, <2>3, AppendHarmless
<1>3. ASSUME NEW chain \in ChainStates, NEW order \in OrderForms, SubmitOrder(order, chain)
      PROVE  Goal
    <2> DEFINE id == Len(issued) + 1
               events == << Proposed(id, order, 0), Validated(id) >>
    <2>1. order \in Order /\ id \in Nat \ {0}
        BY <1>0, CoreParameters
    <2>2. Proposed(id, order, 0) \in Event /\ Validated(id) \in Event
        BY <2>1, SmallEvents
    <2>3. ~Settlement(Proposed(id, order, 0)) /\ ~Settlement(Validated(id))
        BY Harmless
    <2>4. events \in Seq(Event) /\ \A i \in 1..Len(events) : ~Settlement(events[i])
        BY <2>2, <2>3
    <2>5. log' = log \o events /\ issued' = Append(issued, order)
        BY <1>3 DEF SubmitOrder, Commit
    <2> HIDE DEF events
    <2>6. OldSettlements
        BY <1>0, <2>4, <2>5, AppendHarmless
    <2>7. Len(issued') = Len(issued) + 1
        BY <1>0, <2>1, <2>5, AppendProperties
    <2> QED BY <1>0, <2>6, <2>7 DEF IssuedGrows
<1>4. ASSUME NEW chain \in ChainStates, NEW order \in OrderForms, RejectOrder(order, chain)
      PROVE  Goal
    <2>1. log' = log \o << Rejected(0) >> /\ issued' = issued
        BY <1>4 DEF RejectOrder, Commit
    <2>2. Rejected(0) \in Event /\ ~Settlement(Rejected(0))
        BY SmallEvents, Harmless
    <2> QED BY <1>0, <1>a, <2>1, <2>2, AppendOneHarmless
<1>5. ASSUME NEW id \in 1..Len(issued), CancelOrder(id)
      PROVE  Goal
    <2>1. log' = log \o << Cancelled(id) >> /\ issued' = issued
        BY <1>5 DEF CancelOrder, Commit
    <2>2. Cancelled(id) \in Event /\ ~Settlement(Cancelled(id))
        BY <1>0, SmallEvents, Harmless
    <2> QED BY <1>0, <1>a, <2>1, <2>2, AppendOneHarmless
<1>6. ASSUME NEW listing \in Listings(Open), CloseAll(listing)
      PROVE  Goal
    <2> DEFINE events == [i \in 1..Len(listing) |-> ClosingFill(listing[i])]
    <2>1. events \in Seq(Event)
        BY <1>0, ClosingFillsTyped
    <2>2. Len(listing) \in Nat
        BY <1>0, OpenFinite DEF Listings
    <2>3. \A i \in 1..Len(events) : ~Settlement(events[i])
        BY <2>2, Harmless
    <2>4. log' = log \o events /\ issued' = issued
        BY <1>6 DEF CloseAll, Commit
    <2> HIDE DEF events
    <2> QED BY <1>0, <1>a, <2>1, <2>3, <2>4, AppendHarmless
<1>7. CASE ForcePause
    <2>1. log' = log \o << CircuitBreaker >> /\ issued' = issued
        BY <1>7 DEF ForcePause, Commit
    <2>2. CircuitBreaker \in Event /\ ~Settlement(CircuitBreaker)
        BY SmallEvents, Harmless
    <2> QED BY <1>0, <1>a, <2>1, <2>2, AppendOneHarmless
<1>8. CASE ForceReset
    <2>1. log' = << >> /\ issued' = issued
        BY <1>8 DEF ForceReset
    <2>2. OldSettlements
        BY <2>1 DEF OldSettlements
    <2> QED BY <1>a, <2>1, <2>2
<1>9. ASSUME NEW symbol \in Symbols, NEW quote \in Quotes, PostTick(symbol, quote)
      PROVE  Goal
    <2>1. log' = log \o << MarketTick(symbol, quote) >> /\ issued' = issued
        BY <1>9 DEF PostTick, Commit
    <2>2. MarketTick(symbol, quote) \in Event /\ ~Settlement(MarketTick(symbol, quote))
        BY CoreParameters, SmallEvents, Harmless
    <2> QED BY <1>0, <1>a, <2>1, <2>2, AppendOneHarmless
<1>10. CASE AppendAudit
    <2>1. log' = log \o << AuditLog(audit) >> /\ issued' = issued /\ audit \in ForceActions
        BY <1>0, <1>10 DEF AppendAudit, Commit
    <2>2. AuditLog(audit) \in Event /\ ~Settlement(AuditLog(audit))
        BY <2>1, SmallEvents, Harmless
    <2> QED BY <1>0, <1>a, <2>1, <2>2, AppendOneHarmless
<1>11. CASE log' = log /\ issued' = issued
    BY <1>11, <1>a, <1>b
<1>12. CASE Submission
    BY <1>1, <1>2, <1>3, <1>4, <1>12 DEF Submission
<1>13. CASE Command
    <2>1. ForceResume => log' = log /\ issued' = issued
        BY DEF ForceResume
    <2>2. \A action : ForceRecordOnly(action) => log' = log /\ issued' = issued
        BY DEF ForceRecordOnly
    <2> QED BY <1>5, <1>6, <1>7, <1>8, <1>11, <1>13, <2>1, <2>2 DEF Command
<1>14. Restart \/ Crash => log' = log /\ issued' = issued
    BY DEF Restart, Crash
<1> QED BY <1>9, <1>10, <1>11, <1>12, <1>13, <1>14 DEF Feed

\* Serving a request appends its settlement.
LEMMA ServeSettles ==
    ASSUME Inv, NEW r \in Request, r.id \in 1..Len(issued), Serve(r)
    PROVE  /\ Len(log) \in Nat /\ Len(log') = Len(log) + 1 /\ issued' = issued
           /\ \A i \in 1..Len(log) : log'[i] = log[i]
           /\ log'[Len(log) + 1].id = r.id
<1>0. log \in Seq(Event) /\ issued \in Seq(Order) /\ r.id \in Nat \ {0}
    BY LenProperties DEF Inv, TypeOK
<1>1. PICK e \in Event : e.id = r.id /\ log' = log \o << e >> /\ issued' = issued
    <2>1. CASE PostFill(r.id)
        <3> DEFINE e == Filled(r.id, Unknown, "BUY", issued[r.id].qty)
        <3>1. issued[r.id] \in Order
            BY <1>0, ElementOfSeq
        <3>2. issued[r.id].qty \in Nat /\ Unknown \in Booked /\ "BUY" \in Sides
            BY <3>1 DEF Order, Booked, Sides
        <3>3. e \in Event /\ e.id = r.id
            BY <1>0, <3>2, SmallEvents DEF Filled
        <3>4. log' = log \o << e >> /\ issued' = issued
            BY <2>1 DEF PostFill, Commit
        <3> QED BY <3>3, <3>4
    <2>2. CASE PostReject(r.id)
        <3>1. Rejected(r.id) \in Event /\ Rejected(r.id).id = r.id
            BY <1>0, SmallEvents DEF Rejected
        <3>2. log' = log \o << Rejected(r.id) >> /\ issued' = issued
            BY <2>2 DEF PostReject, Commit
        <3> QED BY <3>1, <3>2
    <2> QED BY <2>1, <2>2 DEF Serve
<1>2. /\ Append(log, e) = log \o << e >>
      /\ Len(Append(log, e)) = Len(log) + 1
      /\ \A i \in 1..Len(log) : Append(log, e)[i] = log[i]
      /\ Append(log, e)[Len(log) + 1] = e
    BY <1>0, AppendProperties, AppendIsConcat
<1> QED BY <1>0, <1>1, <1>2, LenProperties

\* Every step of the composition is a step of the core, or leaves it alone.
LEMMA StepImplements ==
    ASSUME Requested, [GatewayNext]_gvars
    PROVE  [Next]_vars
<1>1. ASSUME NEW r \in inflight, Serve(r) PROVE Next
    BY <1>1 DEF Requested, Serve, Report, Next
<1>2. CASE CoreSubmission \/ CoreWork \/ CoreCrash
    BY <1>2 DEF CoreSubmission, CoreWork, CoreCrash, Next
<1>3. CASE Connect \/ Disconnect \/ Handling \/ Fetch \/ GatewayRestart
    BY <1>3 DEF Connect, Disconnect, Handling, Recv, HandleOrder, SkipWithoutBroker,
                Timeout, Return, Fetch, WriteFetched, SyncUnchanged, GatewayRestart
<1>4. CASE UNCHANGED gvars
    BY <1>4 DEF gvars
<1> QED BY <1>1, <1>2, <1>3, <1>4 DEF GatewayNext, ServeAny

---------------------------------------------------------------------------
(* The invariant is inductive. *)

Held == InOrder /\ Requested /\ Once /\ Smooth

\* a step that sends nothing and settles nothing
LEMMA QuietStep ==
    ASSUME Held, Kept, OldSettlements, IssuedGrows, Smooth',
           inflight' \subseteq inflight, call' \in {call, NoCall},
           answer' \in {"none", "ok", "failed"},
           faults' \in Nat, faults' = 0 => faults = 0
    PROVE  Held'
<1>1. \A id \in 1..Len(issued) : Past(id) => id \in 1..Len(issued') /\ Past(id)'
    BY DEF Kept, IssuedGrows
<1>2. ASSUME NEW i \in 1..Len(log'), Settlement(log'[i])
      PROVE  log'[i].id \in 1..Len(issued) /\ Past(log'[i].id)
    BY <1>2 DEF Held, Requested, OldSettlements
<1>3. \A i \in 1..Len(log') : Settlement(log'[i]) =>
          \E id \in 1..Len(issued) : log'[i].id = id /\ Past(id)
    BY <1>2
<1>4. \A i \in 1..Len(log') : Settlement(log'[i]) =>
          log'[i].id \in 1..Len(issued') /\ Past(log[i].id)'
    <2> SUFFICES ASSUME NEW i \in 1..Len(log'), Settlement(log'[i]),
                        NEW id \in 1..Len(issued), log'[i].id = id, Past(id)
                 PROVE  log'[i].id \in 1..Len(issued') /\ Past(log[i].id)'
        BY <1>3
    <2> QED BY <1>1 DEF Past
<1>5. Requested'
    BY <1>1, <1>4 DEF Held, Requested
<1>6. Once'
    BY DEF Held, Once, Guarded, OldSettlements
<1> QED BY <1>5, <1>6 DEF Held, Kept

\* a request for an order not requested before, or in live mode and after a
\* fault for one the gateway is at
LEMMA PostStep ==
    ASSUME Inv, Held, Kept, log' = log, issued' = issued, up' = up, faults' = faults,
           NEW r \in Request, Post(r), r.id \in 1..Len(issued),
           \A id \in Nat : id = r.id => Past(id)',
           Guarded => ~(\E q \in inflight : q.id = r.id)
                      /\ \A i \in 1..Len(log) : Settlement(log[i]) => log[i].id # r.id
    PROVE  Held'
<1>1. r.id \in Nat /\ r # NoCall /\ Len(issued) \in Nat
    BY GatewayParameters, LenProperties DEF Request, Inv, TypeOK
<1>2. call' = r /\ inflight' \subseteq inflight \cup {r}
      /\ (up => inflight' = inflight \cup {r} /\ answer' = "none")
      /\ answer' \in {"none", "failed"}
    BY DEF Post
<1>3. \A id \in 1..Len(issued) : Past(id) => Past(id)'
    BY <1>1 DEF Kept
<1>4. Requested'
    <2>1. \A q \in inflight : q.id \in 1..Len(issued') /\ Past(q.id)'
        BY <1>3 DEF Held, Requested
    <2>2. r.id \in 1..Len(issued') /\ Past(r.id)'
        BY <1>1 DEF Past
    <2>3. \A i \in 1..Len(log') : Settlement(log'[i]) =>
              log'[i].id \in 1..Len(issued') /\ Past(log[i].id)'
        <3>1. \A i \in 1..Len(log) : Settlement(log[i]) =>
                  log[i].id \in 1..Len(issued) /\ Past(log[i].id)
            BY DEF Held, Requested
        <3> SUFFICES ASSUME NEW i \in 1..Len(log), Settlement(log[i]),
                            NEW id \in 1..Len(issued), log[i].id = id, Past(id)
                     PROVE  log'[i].id \in 1..Len(issued') /\ Past(log[i].id)'
            BY <3>1
        <3> QED BY <1>3 DEF Past
    <2> QED BY <1>2, <2>1, <2>2, <2>3 DEF Held, Requested
<1>5. Once'
    BY <1>2 DEF Held, Once, Guarded
<1>6. Smooth'
    BY <1>1, <1>2 DEF Held, Smooth
<1> QED BY <1>4, <1>5, <1>6 DEF Held, Kept

LEMMA ServeStep ==
    ASSUME Inv, Held, NEW r \in inflight, Serve(r)
    PROVE  Held'
<1>1. r \in Request /\ r.id \in 1..Len(issued) /\ Past(r.id)
    BY DEF Held, Requested
<1>2. /\ Len(log) \in Nat /\ Len(log') = Len(log) + 1 /\ issued' = issued
      /\ \A i \in 1..Len(log) : log'[i] = log[i]
      /\ log'[Len(log) + 1].id = r.id
    BY <1>1, ServeSettles
<1>3. /\ inflight' = inflight \ {r} /\ call' = call /\ faults' = faults
      /\ wire' = wire /\ todo' = todo
      /\ answer' = IF call = r /\ answer = "none" THEN "ok" ELSE answer
      /\ up /\ up' = up
    BY DEF Serve, PostFill, PostReject, Serving
<1>4. \A i \in 1..Len(log') :
          \/ i \in 1..Len(log) /\ log'[i] = log[i]
          \/ i = Len(log) + 1 /\ log'[i].id = r.id
    BY <1>2
<1>5. InOrder'
    BY <1>2, <1>3 DEF Held, InOrder
<1>6. \A id : Past(id) => Past(id)'
    BY <1>3 DEF Past
<1>7. Requested'
    <2>1. \A i \in 1..Len(log') : Settlement(log'[i]) =>
              log'[i].id \in 1..Len(issued) /\ Past(log'[i].id)
        BY <1>1, <1>4 DEF Held, Requested
    <2>2. \A i \in 1..Len(log') : Settlement(log'[i]) =>
              log'[i].id \in 1..Len(issued') /\ Past(log[i].id)'
        BY <1>2, <1>3, <2>1 DEF Past
    <2>3. \A q \in inflight' : q.id \in 1..Len(issued') /\ Past(q.id)'
        BY <1>2, <1>3 DEF Held, Requested, Past
    <2>4. call' # NoCall => call'.id \in 1..Len(issued') /\ Past(call.id)'
        BY <1>2, <1>3 DEF Held, Requested, Past
    <2>5. /\ inflight' \subseteq Request /\ call' \in Request \cup {NoCall}
          /\ answer' \in {"none", "ok", "failed"} /\ faults' \in Nat
        BY <1>3 DEF Held, Requested
    <2> QED BY <2>2, <2>3, <2>4, <2>5 DEF Requested
<1>8. Once'
    <2> SUFFICES ASSUME Guarded PROVE Once'
        BY <1>3 DEF Once, Guarded
    <2>1. \A i \in 1..Len(log) : Settlement(log[i]) => log[i].id # r.id
        BY DEF Held, Once
    <2>2. \A i, j \in 1..Len(log') :
              Settlement(log'[i]) /\ Settlement(log'[j]) /\ log'[i].id = log'[j].id => i = j
        BY <1>4, <2>1 DEF Held, Once
    <2>3. \A q \in inflight' : q \in inflight /\ q.id # r.id
        BY <1>3 DEF Held, Once
    <2>4. \A q \in inflight', i \in 1..Len(log') : Settlement(log'[i]) => log'[i].id # q.id
        BY <1>4, <2>3 DEF Held, Once
    <2>5. \A p, q \in inflight' : p.id = q.id => p = q
        BY <1>3 DEF Held, Once
    <2> QED BY <2>2, <2>4, <2>5 DEF Once
<1>9. Smooth'
    BY <1>3 DEF Held, Smooth
<1> QED BY <1>5, <1>7, <1>8, <1>9 DEF Held

LEMMA HandleOrderStep ==
    ASSUME Inv, Held, HandleOrder
    PROVE  Held'
<1> DEFINE id == Head(todo)
<1>0. Len(issued) \in Nat
    BY LenProperties DEF Inv, TypeOK
<1>1. /\ todo # << >> /\ todo' = Tail(todo) /\ wire' = wire /\ log' = log
      /\ issued' = issued /\ up' = up /\ faults' = faults
    BY DEF HandleOrder, vars
<1>2. /\ Kept /\ id \in 1..Len(issued)
      /\ \A n \in Nat : n = id => Past(n)'
      /\ \A n \in Nat : Past(n) => n < id
    BY <1>1, TakeKeeps DEF Held
<1>3. OldSettlements /\ IssuedGrows
    BY <1>0, <1>1 DEF OldSettlements, IssuedGrows
<1>4. /\ \A q \in inflight : q.id # id
      /\ \A i \in 1..Len(log) : Settlement(log[i]) => log[i].id # id
    BY <1>0, <1>2 DEF Held, Requested
<1>5. faults' \in Nat /\ (faults' = 0 => faults = 0)
    BY <1>1 DEF Held, Requested
<1> HIDE DEF id
<1>6. ASSUME NEW r \in Request, r.id = id, Post(r) PROVE Held'
    <2>1. \A n \in Nat : n = r.id => Past(n)'
        BY <1>2, <1>6
    <2> QED BY <1>1, <1>2, <1>4, <1>6, <2>1, PostStep
<1>7. \A route \in Routes :
          /\ Fill(id, route) \in Request /\ Fill(id, route).id = id
          /\ Refusal(id, route) \in Request /\ Refusal(id, route).id = id
    BY <1>0, <1>2 DEF Fill, Refusal, Request
<1>8. ASSUME NoPost PROVE Held'
    <2>1. inflight' = inflight /\ call' = NoCall /\ answer' = "none"
        BY <1>8 DEF NoPost
    <2>2. Smooth'
        BY <1>1, <2>1 DEF Held, Smooth
    <2> QED BY <1>2, <1>3, <1>5, <2>1, <2>2, QuietStep
<1>9. CASE id \in processed
    <2>1. inflight' = inflight /\ call' = call /\ answer' = answer
        BY <1>9 DEF HandleOrder, id
    <2>2. Smooth'
        BY <1>1, <2>1 DEF Held, Smooth
    <2>3. answer' \in {"none", "ok", "failed"}
        BY <2>1 DEF Held, Requested
    <2> QED BY <1>2, <1>3, <1>5, <2>1, <2>2, <2>3, QuietStep
<1>10. CASE id \notin processed
    <2>1. \/ Post(Fill(id, "direct")) \/ Post(Refusal(id, "direct"))
          \/ Post(Fill(id, "broker")) \/ Post(Refusal(id, "broker")) \/ NoPost
        BY <1>10 DEF HandleOrder, Broker, id
    <2> QED BY <2>1, <1>6, <1>7, <1>8 DEF Routes
<1> QED BY <1>9, <1>10

LEMMA ReturnStep ==
    ASSUME Inv, Held, Return
    PROVE  Held'
<1>0. Len(issued) \in Nat
    BY LenProperties DEF Inv, TypeOK
<1>1. /\ todo' = todo /\ wire' = wire /\ log' = log /\ issued' = issued
      /\ up' = up /\ faults' = faults /\ call # NoCall /\ answer # "none"
    BY DEF Return, vars
<1>2. Kept /\ OldSettlements /\ IssuedGrows
    BY <1>0, <1>1, StayKeeps DEF Held, OldSettlements, IssuedGrows
<1>3. /\ call \in Request /\ call.id \in 1..Len(issued) /\ Past(call.id)
      /\ faults' \in Nat /\ (faults' = 0 => faults = 0)
    BY <1>1 DEF Held, Requested
<1>4. \A n \in Nat : n = call.id => Past(n)'
    BY <1>0, <1>2, <1>3 DEF Kept
<1>5. CASE NoPost
    <2>1. inflight' = inflight /\ call' = NoCall /\ answer' = "none"
        BY <1>5 DEF NoPost
    <2>2. Smooth'
        BY <1>1, <2>1 DEF Held, Smooth
    <2> QED BY <1>2, <1>3, <2>1, <2>2, QuietStep
<1>6. ASSUME ~DryRun, answer = "failed",
             NEW r \in Request, r.id = call.id, Post(r)
      PROVE  Held'
    <2>1. ~Guarded
        BY <1>6 DEF Guarded, Held, Smooth
    <2>2. \A n \in Nat : n = r.id => Past(n)'
        BY <1>4, <1>6
    <2>3. r.id \in 1..Len(issued)
        BY <1>3, <1>6
    <2> QED BY <1>1, <1>2, <1>6, <2>1, <2>2, <2>3, PostStep
<1>7. \/ NoPost
      \/ ~DryRun /\ answer # "ok" /\ Broker(call.id)
    BY DEF Return
<1>8. /\ Fill(call.id, "broker") \in Request /\ Fill(call.id, "broker").id = call.id
      /\ Refusal(call.id, "broker") \in Request /\ Refusal(call.id, "broker").id = call.id
    BY <1>0, <1>3 DEF Fill, Refusal, Request, Routes
<1>9. answer # "ok" => answer = "failed"
    BY <1>1 DEF Held, Requested
<1> QED BY <1>5, <1>6, <1>7, <1>8, <1>9 DEF Broker

LEMMA GatewayStep ==
    ASSUME GatewayInv, [GatewayNext]_gvars
    PROVE  GatewayInv'
<1>0. /\ Inv /\ Held /\ Requested /\ Smooth
      /\ Len(issued) \in Nat /\ faults \in Nat /\ MaxFaults \in Nat
      /\ call \in {call, NoCall} /\ answer \in {"none", "ok", "failed"}
    BY LenProperties, GatewayParameters DEF GatewayInv, Held, Inv, TypeOK, Requested
<1>1. Inv'
    BY <1>0, StepImplements, StepInv
<1> SUFFICES Held'
    BY <1>1 DEF Held, GatewayInv
<1>2. ASSUME issued' = issued, log' = log PROVE OldSettlements /\ IssuedGrows
    BY <1>0, <1>2 DEF OldSettlements, IssuedGrows
<1>3. ASSUME Fault PROVE faults' \in Nat /\ faults' # 0 /\ Smooth'
    BY <1>0, <1>3 DEF Fault, Smooth
<1>4. CASE CoreSubmission
    <2>1. /\ Submission /\ Broadcast /\ UNCHANGED << todo, call, answer, inflight, faults >>
        BY <1>4 DEF CoreSubmission
    <2>2. OldSettlements /\ IssuedGrows
        BY <1>0, <2>1, CoreSettlesNothing
    <2>3. Kept
        BY <1>0, <2>1, <2>2, SendKeeps, StayKeeps DEF Broadcast, Held, IssuedGrows
    <2>4. up' = up
        BY <2>1 DEF Submission, SubmitPlan, RejectPlan, SubmitOrder, RejectOrder
    <2>5. Smooth'
        BY <1>0, <2>1, <2>4 DEF Smooth
    <2> QED BY <1>0, <2>1, <2>2, <2>3, <2>5, QuietStep
<1>5. CASE CoreWork
    <2>1. /\ Command \/ Feed \/ AppendAudit \/ Restart
          /\ UNCHANGED << wire, todo, call, answer, inflight, faults >>
        BY <1>5 DEF CoreWork, gateway
    <2>2. OldSettlements /\ IssuedGrows
        BY <1>0, <2>1, CoreSettlesNothing
    <2>3. Kept
        BY <1>0, <2>1, <2>2, StayKeeps DEF Held, IssuedGrows
    <2>4. up => up'
        BY <2>1 DEF Command, CancelOrder, CloseAll, ForcePause, ForceResume, ForceReset,
                    ForceRecordOnly, Feed, PostTick, AppendAudit, Restart
    <2>5. Smooth'
        BY <1>0, <2>1, <2>4 DEF Smooth
    <2> QED BY <1>0, <2>1, <2>2, <2>3, <2>5, QuietStep
<1>6. CASE ServeAny
    BY <1>0, <1>6, ServeStep DEF ServeAny
<1>7. CASE CoreCrash
    <2>1. /\ Fault /\ Crash /\ UNCHANGED << todo, call >> /\ inflight' = {}
          /\ answer' \in {"none", "ok", "failed"}
          /\ \E n \in 0..Len(wire) : wire' = SubSeq(wire, 1, n)
        BY <1>0, <1>7 DEF CoreCrash
    <2>2. OldSettlements /\ IssuedGrows /\ issued' = issued
        BY <1>0, <2>1, CoreSettlesNothing DEF Crash
    <2>3. Kept
        BY <1>0, <2>1, <2>2, CutKeeps DEF Held
    <2> QED BY <1>0, <1>3, <2>1, <2>2, <2>3, QuietStep
<1>8. CASE Connect \/ Fetch \/ WriteFetched \/ UNCHANGED gvars
    <2>1. UNCHANGED << log, issued, up, wire, todo, call, answer, inflight, faults >>
        BY <1>8 DEF Connect, Fetch, WriteFetched, SyncUnchanged, gvars, gateway, vars
    <2>2. Kept
        BY <1>0, <2>1, StayKeeps DEF Held
    <2>3. Smooth'
        BY <1>0, <2>1 DEF Smooth
    <2> QED BY <1>0, <1>2, <2>1, <2>2, <2>3, QuietStep
<1>9. CASE Disconnect
    <2>1. /\ Fault /\ UNCHANGED << log, issued, todo, call, answer, inflight >>
          /\ \E n \in 0..Len(wire) : wire' = SubSeq(wire, 1, n)
        BY <1>9 DEF Disconnect, vars
    <2>2. Kept
        BY <1>0, <2>1, CutKeeps DEF Held
    <2> QED BY <1>0, <1>2, <1>3, <2>1, <2>2, QuietStep
<1>10. CASE Recv
    <2>1. UNCHANGED << log, issued, up, call, answer, inflight, faults >>
        BY <1>10 DEF Recv, vars
    <2>2. Kept
        BY <1>0, <1>10, <2>1, RecvKeeps DEF Recv, Idle, Held
    <2>3. Smooth'
        BY <1>0, <2>1 DEF Smooth
    <2> QED BY <1>0, <1>2, <2>1, <2>2, <2>3, QuietStep
<1>11. CASE HandleOrder
    BY <1>0, <1>11, HandleOrderStep
<1>12. CASE SkipWithoutBroker
    <2>1. /\ Fault /\ UNCHANGED << log, issued, wire, call, answer, inflight >>
          /\ todo # << >> /\ todo' = Tail(todo)
        BY <1>12 DEF SkipWithoutBroker, vars
    <2>2. Kept
        BY <1>0, <2>1, TakeKeeps DEF Held
    <2> QED BY <1>0, <1>2, <1>3, <2>1, <2>2, QuietStep
<1>13. CASE Timeout
    <2>1. /\ UNCHANGED << log, issued, up, wire, todo, call, inflight >>
          /\ answer' = "failed" /\ call # NoCall /\ answer = "none"
          /\ IF call \in inflight THEN Fault ELSE faults' = faults
        BY <1>13 DEF Timeout, vars
    <2>2. Kept
        BY <1>0, <2>1, StayKeeps DEF Held
    <2>3. Smooth' /\ faults' \in Nat /\ (faults' = 0 => faults = 0)
        BY <1>0, <1>3, <2>1 DEF Smooth
    <2> QED BY <1>0, <1>2, <2>1, <2>2, <2>3, QuietStep
<1>14. CASE Return
    BY <1>0, <1>14, ReturnStep
<1>15. CASE GatewayRestart
    <2>1. /\ Fault /\ UNCHANGED << log, issued, inflight >>
          /\ wire' = << >> /\ todo' = << >> /\ call' = NoCall /\ answer' = "none"
        BY <1>15 DEF GatewayRestart, vars
    <2>2. Kept
        BY <2>1, ForgetKeeps
    <2> QED BY <1>0, <1>2, <1>3, <2>1, <2>2, QuietStep
<1> QED
    BY <1>4, <1>5, <1>6, <1>7, <1>8, <1>9, <1>10, <1>11, <1>12, <1>13, <1>14, <1>15
       DEF GatewayNext, Handling

---------------------------------------------------------------------------
(* No order is settled three times.                                        *)
(*                                                                         *)
(* What an order may still come to is counted with what it has come to:    *)
(* the settlements in the log and the requests not yet served.  A served   *)
(* request moves from one to the other; a new one is sent for an order the *)
(* gateway has just taken, of which there is neither, or in place of a     *)
(* direct fill that failed, of which there is one at most.                 *)

Rows(id) == {i \in 1..Len(log) : Settlement(log[i]) /\ log[i].id = id}

Requests(id) == {r \in inflight : r.id = id}

Reports(id) == Cardinality(Rows(id)) + Cardinality(Requests(id))

\* the gateway waits for the answer to a direct fill of order id
MayFallBack(id) == call # NoCall /\ call.route = "direct" /\ call.id = id

Bounded ==
    /\ IsFiniteSet(inflight)
    /\ \A id \in Nat \ {0} : Reports(id) <= IF MayFallBack(id) THEN 1 ELSE 2

LEMMA OneMore ==
    ASSUME NEW S, IsFiniteSet(S), NEW x
    PROVE  LET T == S \cup {x}
           IN  /\ IsFiniteSet(T) /\ Cardinality(S) \in Nat /\ Cardinality(T) \in Nat
               /\ Cardinality(T) <= Cardinality(S) + 1
               /\ x \notin S => Cardinality(T) = Cardinality(S) + 1
<1> DEFINE T == S \cup {x}
<1>1. Cardinality(S) \in Nat
    BY FS_CardinalityType
<1>2. IsFiniteSet(T)
      /\ Cardinality(T) = IF x \in S THEN Cardinality(S) ELSE Cardinality(S) + 1
    BY FS_AddElement, Zenon
<1> QED BY <1>1, <1>2

LEMMA CountedSets ==
    ASSUME log \in Seq(Event), IsFiniteSet(inflight), NEW id
    PROVE  /\ IsFiniteSet(Rows(id)) /\ Cardinality(Rows(id)) \in Nat
           /\ IsFiniteSet(Requests(id)) /\ Cardinality(Requests(id)) \in Nat
<1>1. Len(log) \in Nat
    BY LenProperties
<1>2. IsFiniteSet(1..Len(log))
    BY <1>1, FS_Interval
<1>3. Rows(id) \subseteq 1..Len(log) /\ Requests(id) \subseteq inflight
    BY DEF Rows, Requests
<1> QED BY <1>2, <1>3, FS_Subset, FS_CardinalityType

LEMMA QuietBound ==
    ASSUME Bounded, log \in Seq(Event), log' \in Seq(Event), OldSettlements,
           inflight' \subseteq inflight, call' \in {call, NoCall}
    PROVE  Bounded'
<1>1. IsFiniteSet(inflight) /\ IsFiniteSet(inflight')
    BY FS_Subset DEF Bounded
<1> SUFFICES ASSUME NEW id \in Nat \ {0}
             PROVE  Reports(id)' <= IF MayFallBack(id)' THEN 1 ELSE 2
    BY <1>1 DEF Bounded
<1>2. Rows(id)' \subseteq Rows(id) /\ Requests(id)' \subseteq Requests(id)
    BY DEF Rows, Requests, OldSettlements
<1>3. /\ Cardinality(Rows(id)') \in Nat /\ Cardinality(Rows(id)') <= Cardinality(Rows(id))
      /\ Cardinality(Requests(id)') \in Nat
      /\ Cardinality(Requests(id)') <= Cardinality(Requests(id))
      /\ Cardinality(Rows(id)) \in Nat /\ Cardinality(Requests(id)) \in Nat
    BY <1>1, <1>2, CountedSets, FS_Subset, FS_CardinalityType
<1>4. MayFallBack(id)' => MayFallBack(id)
    BY DEF MayFallBack
<1> QED BY <1>3, <1>4 DEF Bounded, Reports

LEMMA ServeBound ==
    ASSUME Inv, Requested, Bounded, NEW r \in inflight, Serve(r)
    PROVE  Bounded'
<1>1. r \in Request /\ r.id \in 1..Len(issued) /\ log \in Seq(Event)
    BY DEF Requested, Inv, TypeOK
<1>2. /\ Len(log) \in Nat /\ Len(log') = Len(log) + 1
      /\ \A i \in 1..Len(log) : log'[i] = log[i]
      /\ log'[Len(log) + 1].id = r.id
    BY <1>1, ServeSettles
<1>3. inflight' = inflight \ {r} /\ call' = call
    BY DEF Serve
<1>4. IsFiniteSet(inflight) /\ IsFiniteSet(inflight')
    BY <1>3, FS_RemoveElement DEF Bounded
<1> SUFFICES ASSUME NEW id \in Nat \ {0}
             PROVE  Reports(id)' <= IF MayFallBack(id)' THEN 1 ELSE 2
    BY <1>4 DEF Bounded
<1>5. /\ IsFiniteSet(Rows(id)) /\ Cardinality(Rows(id)) \in Nat
      /\ IsFiniteSet(Requests(id)) /\ Cardinality(Requests(id)) \in Nat
    BY <1>1, <1>4, CountedSets
<1>6. Reports(id)' <= Reports(id)
    <2>1. \A i \in Rows(id)' : i \in Rows(id) \/ (i = Len(log) + 1 /\ id = r.id)
        BY <1>2 DEF Rows
    <2>2. CASE id = r.id
        <3>1. Requests(id)' = Requests(id) \ {r} /\ r \in Requests(id)
            BY <1>3, <2>2 DEF Requests
        <3>2. Cardinality(Requests(id)') = Cardinality(Requests(id)) - 1
            <4>1. \A S : IsFiniteSet(S) /\ r \in S
                          => Cardinality(S \ {r}) = Cardinality(S) - 1
                BY FS_RemoveElement
            <4> QED BY <1>5, <3>1, <4>1
        <3>3. Rows(id)' \subseteq Rows(id) \cup {Len(log) + 1}
            BY <2>1
        <3>4. Len(log) + 1 \notin Rows(id)
            BY <1>2 DEF Rows
        <3>5. /\ IsFiniteSet(Rows(id) \cup {Len(log) + 1})
              /\ Cardinality(Rows(id) \cup {Len(log) + 1}) = Cardinality(Rows(id)) + 1
            BY <1>5, <3>4, FS_AddElement
        <3>6. /\ Cardinality(Rows(id)') \in Nat
              /\ Cardinality(Rows(id)') <= Cardinality(Rows(id)) + 1
            BY <3>3, <3>5, FS_Subset, FS_CardinalityType
        <3> QED BY <1>5, <3>2, <3>6 DEF Reports
    <2>3. CASE id # r.id
        <3>1. Requests(id)' = Requests(id)
            BY <1>3, <2>3 DEF Requests
        <3>2. Rows(id)' \subseteq Rows(id)
            BY <2>1, <2>3
        <3>3. Cardinality(Rows(id)') \in Nat /\ Cardinality(Rows(id)') <= Cardinality(Rows(id))
            BY <1>5, <3>2, FS_Subset, FS_CardinalityType
        <3> QED BY <1>5, <3>1, <3>3 DEF Reports
    <2> QED BY <2>2, <2>3
<1>7. Reports(id) \in Int /\ Reports(id)' \in Int
    <2>1. /\ Cardinality(Rows(id)') \in Nat /\ Cardinality(Requests(id)') \in Nat
        <3>1. IsFiniteSet(1..Len(log')) /\ Rows(id)' \subseteq 1..Len(log')
            BY <1>2, FS_Interval DEF Rows
        <3>2. Requests(id)' \subseteq inflight'
            BY DEF Requests
        <3> QED BY <1>4, <3>1, <3>2, FS_Subset, FS_CardinalityType
    <2> QED BY <1>5, <2>1 DEF Reports
<1>8. MayFallBack(id)' = MayFallBack(id)
    BY <1>3 DEF MayFallBack
<1> QED BY <1>6, <1>7, <1>8 DEF Bounded

\* a request adds one report of its order, which has none if it is a direct
\* fill and one at most if it is not
LEMMA PostBound ==
    ASSUME Inv, Bounded, log' = log, NEW r \in Request, Post(r), r.id # 0,
           Reports(r.id) <= IF r.route = "direct" THEN 0 ELSE 1
    PROVE  Bounded'
<1>1. /\ call' = r /\ inflight' \subseteq inflight \cup {r} /\ r # NoCall
      /\ r.id \in Nat \ {0} /\ log \in Seq(Event)
    BY GatewayParameters DEF Post, Request, Inv, TypeOK
<1>2. IsFiniteSet(inflight) /\ IsFiniteSet(inflight')
    <2>1. IsFiniteSet(inflight) /\ IsFiniteSet(inflight \cup {r})
        BY FS_AddElement DEF Bounded
    <2> QED BY <1>1, <2>1, FS_Subset
<1> SUFFICES ASSUME NEW id \in Nat \ {0}
             PROVE  Reports(id)' <= IF MayFallBack(id)' THEN 1 ELSE 2
    BY <1>2 DEF Bounded
<1>3. /\ Cardinality(Rows(id)) \in Nat /\ IsFiniteSet(Requests(id))
      /\ Cardinality(Requests(id)) \in Nat
    BY <1>1, <1>2, CountedSets
<1>4. Rows(id)' = Rows(id)
    BY DEF Rows
<1>5. CASE id = r.id
    <2>1. Requests(id)' \subseteq Requests(id) \cup {r}
        BY <1>1, <1>5 DEF Requests
    <2>2. /\ IsFiniteSet(Requests(id) \cup {r})
          /\ Cardinality(Requests(id) \cup {r}) <= Cardinality(Requests(id)) + 1
          /\ Cardinality(Requests(id) \cup {r}) \in Nat
        BY <1>3, OneMore
    <2>3. /\ Cardinality(Requests(id)') \in Nat
          /\ Cardinality(Requests(id)') <= Cardinality(Requests(id)) + 1
        BY <2>1, <2>2, <1>3, FS_Subset, FS_CardinalityType
    <2>4. MayFallBack(id)' => r.route = "direct"
        BY <1>1 DEF MayFallBack
    <2> QED BY <1>3, <1>4, <1>5, <2>3, <2>4 DEF Reports
<1>6. CASE id # r.id
    <2>1. Requests(id)' \subseteq Requests(id)
        BY <1>1, <1>6 DEF Requests
    <2>2. /\ Cardinality(Requests(id)') \in Nat
          /\ Cardinality(Requests(id)') <= Cardinality(Requests(id))
        BY <1>3, <2>1, FS_Subset, FS_CardinalityType
    <2>3. ~MayFallBack(id)'
        BY <1>1, <1>6 DEF MayFallBack
    <2>4. Reports(id) <= 2
        BY <1>3 DEF Bounded, Reports
    <2> QED BY <1>3, <1>4, <2>2, <2>3, <2>4 DEF Reports
<1> QED BY <1>5, <1>6

LEMMA HandleOrderBound ==
    ASSUME GatewayInv, Bounded, HandleOrder
    PROVE  Bounded'
<1> DEFINE id == Head(todo)
<1>0. log \in Seq(Event) /\ log' = log /\ Len(issued) \in Nat /\ Len(log) \in Nat
    BY LenProperties DEF HandleOrder, vars, GatewayInv, Inv, TypeOK
<1>1. id \in 1..Len(issued) /\ \A n \in Nat : Past(n) => n < id
    BY TakeKeeps DEF HandleOrder, vars, GatewayInv
<1> HIDE DEF id
<1>2. Rows(id) = {} /\ Requests(id) = {}
    BY <1>0, <1>1 DEF Rows, Requests, GatewayInv, Requested
<1>3. Reports(id) = 0
    BY <1>2, FS_EmptySet DEF Reports
<1>4. ASSUME NEW r \in Request, r.id = id, Post(r) PROVE Bounded'
    <2>1. r.id # 0 /\ Reports(r.id) <= IF r.route = "direct" THEN 0 ELSE 1
        BY <1>0, <1>1, <1>3, <1>4
    <2> QED BY <1>0, <1>4, <2>1, PostBound DEF GatewayInv
<1>5. \A route \in Routes :
          /\ Fill(id, route) \in Request /\ Fill(id, route).id = id
          /\ Refusal(id, route) \in Request /\ Refusal(id, route).id = id
    BY <1>0, <1>1 DEF Fill, Refusal, Request
<1>6. ASSUME inflight' = inflight, call' \in {call, NoCall} PROVE Bounded'
    BY <1>0, <1>6, QuietBound DEF OldSettlements
<1>7. CASE id \in processed
    <2>1. inflight' = inflight /\ call' = call
        BY <1>7 DEF HandleOrder, id
    <2> QED BY <1>6, <2>1
<1>8. CASE id \notin processed
    <2>1. \/ Post(Fill(id, "direct")) \/ Post(Refusal(id, "direct"))
          \/ Post(Fill(id, "broker")) \/ Post(Refusal(id, "broker")) \/ NoPost
        BY <1>8 DEF HandleOrder, Broker, id
    <2>2. NoPost => inflight' = inflight /\ call' = NoCall
        BY DEF NoPost
    <2> QED BY <2>1, <2>2, <1>4, <1>5, <1>6 DEF Routes
<1> QED BY <1>7, <1>8

LEMMA ReturnBound ==
    ASSUME GatewayInv, Bounded, Return
    PROVE  Bounded'
<1>0. log \in Seq(Event) /\ log' = log /\ Len(issued) \in Nat /\ Len(log) \in Nat
    BY LenProperties DEF Return, vars, GatewayInv, Inv, TypeOK
<1>1. call # NoCall /\ call \in Request /\ call.id \in 1..Len(issued)
    BY DEF Return, GatewayInv, Requested
<1>2. CASE NoPost
    <2>1. inflight' = inflight /\ call' = NoCall
        BY <1>2 DEF NoPost
    <2> QED BY <1>0, <2>1, QuietBound DEF OldSettlements
<1>3. CASE call.route = "direct" /\ Broker(call.id)
    <2>1. Reports(call.id) <= 1 /\ call.id \in Nat \ {0}
        BY <1>0, <1>1, <1>3 DEF Bounded, MayFallBack
    <2>2. ASSUME NEW r \in Request, r.id = call.id, r.route = "broker", Post(r)
          PROVE  Bounded'
        <3>1. r.id # 0 /\ Reports(r.id) <= IF r.route = "direct" THEN 0 ELSE 1
            BY <2>1, <2>2
        <3> QED BY <1>0, <2>2, <3>1, PostBound DEF GatewayInv
    <2>3. /\ Fill(call.id, "broker") \in Request /\ Fill(call.id, "broker").id = call.id
          /\ Fill(call.id, "broker").route = "broker"
          /\ Refusal(call.id, "broker") \in Request
          /\ Refusal(call.id, "broker").id = call.id
          /\ Refusal(call.id, "broker").route = "broker"
        BY <2>1 DEF Fill, Refusal, Request, Routes
    <2> QED BY <1>2, <1>3, <2>2, <2>3 DEF Broker
<1> QED BY <1>2, <1>3 DEF Return

LEMMA BoundStep ==
    ASSUME GatewayInv, GatewayInv', Bounded, [GatewayNext]_gvars
    PROVE  Bounded'
<1>0. Inv /\ Requested /\ log \in Seq(Event) /\ log' \in Seq(Event)
    BY DEF GatewayInv, Inv, TypeOK
<1>1. ASSUME OldSettlements, inflight' \subseteq inflight, call' \in {call, NoCall}
      PROVE  Bounded'
    BY <1>0, <1>1, QuietBound
<1>2. CASE CoreSubmission \/ CoreWork \/ CoreCrash
    <2>1. /\ Submission \/ Command \/ Feed \/ AppendAudit \/ Restart \/ Crash
          /\ inflight' \subseteq inflight /\ call' = call
        BY <1>2 DEF CoreSubmission, CoreWork, CoreCrash, gateway
    <2> QED BY <1>0, <1>1, <2>1, CoreSettlesNothing
<1>3. CASE Connect \/ Disconnect \/ Recv \/ SkipWithoutBroker \/ Timeout \/ WriteFetched
           \/ Fetch \/ GatewayRestart \/ UNCHANGED gvars
    <2>1. log' = log /\ inflight' = inflight /\ call' \in {call, NoCall}
        BY <1>3 DEF Connect, Disconnect, Recv, SkipWithoutBroker, Timeout, WriteFetched,
                    Fetch, SyncUnchanged, GatewayRestart, gvars, gateway, vars
    <2> QED BY <1>1, <2>1 DEF OldSettlements
<1>4. CASE ServeAny
    BY <1>0, <1>4, ServeBound DEF ServeAny
<1> QED BY <1>2, <1>3, <1>4, HandleOrderBound, ReturnBound DEF GatewayNext, Handling

---------------------------------------------------------------------------
(* Theorems. *)

THEOREM GatewayInvHolds == GatewaySpec => []GatewayInv
<1>1. GatewayInit => GatewayInv
    <2> SUFFICES ASSUME GatewayInit PROVE GatewayInv
        OBVIOUS
    <2>1. Inv
        BY InitInv DEF GatewayInit
    <2>2. Len(log) = 0 /\ Len(todo) = 0 /\ Len(wire) = 0 /\ up
        BY DEF GatewayInit, Init
    <2> QED BY <2>1, <2>2 DEF GatewayInit, GatewayInv, InOrder, Requested, Once, Smooth
<1>2. GatewayInv /\ [GatewayNext]_gvars => GatewayInv'
    BY GatewayStep
<1> QED BY <1>1, <1>2, PTL DEF GatewaySpec

\* The composition implements the core: with the gateway beside it the core
\* does nothing it may not do alone, for the gateway only ever reports orders
\* the core has issued (_handle_order_event, exec_gateway.py:184-372).
THEOREM GatewayImplementsCore == GatewaySpec => Spec
<1>1. GatewayInit => Init
    BY DEF GatewayInit
<1>2. GatewayInv /\ [GatewayNext]_gvars => [Next]_vars
    BY StepImplements DEF GatewayInv
<1> QED BY <1>1, <1>2, GatewayInvHolds, PTL DEF GatewaySpec, Spec

\* No order is settled twice in dry-run, nor with --live before a fault:
\* SettledOnce, for any number of orders, faults and restarts
\* (_handle_order_event, exec_gateway.py:184-372).
THEOREM SettledAtMostOnce == GatewaySpec => []SettledOnce
<1>1. GatewayInv => SettledOnce
    <2> SUFFICES ASSUME GatewayInv, DryRun \/ faults = 0,
                        NEW i \in DOMAIN log, NEW j \in DOMAIN log,
                        log[i].type \in Settling,
                        log[j].type \in Settling,
                        log[i].id = log[j].id, log[i].id # 0
                 PROVE  i = j
        BY DEF SettledOnce, Settlements
    <2>1. log \in Seq(Event) /\ DOMAIN log = 1..Len(log)
        BY LenProperties DEF GatewayInv, Inv, TypeOK
    <2> QED BY <2>1 DEF GatewayInv, Once, Guarded, Settlement
<1> QED BY <1>1, GatewayInvHolds, PTL

\* No order is settled three times, in either mode and whatever is lost, delayed
\* or restarted (_handle_order_event, exec_gateway.py:184-372).
THEOREM SettledTwiceAtMost == GatewaySpec => []SettledAtMostTwice
<1>1. GatewayInit => Bounded
    <2> SUFFICES ASSUME GatewayInit, NEW id \in Nat \ {0}
                 PROVE  IsFiniteSet(inflight) /\ Reports(id) = 0
        BY DEF Bounded
    <2>1. inflight = {} /\ Len(log) = 0
        BY DEF GatewayInit, Init
    <2>2. Rows(id) = {} /\ Requests(id) = {}
        BY <2>1 DEF Rows, Requests
    <2> QED BY <2>1, <2>2, FS_EmptySet DEF Reports
<1>2. GatewayInv /\ GatewayInv' /\ Bounded /\ [GatewayNext]_gvars => Bounded'
    BY BoundStep
<1>3. GatewayInv /\ Bounded => SettledAtMostTwice
    <2> SUFFICES ASSUME GatewayInv, Bounded, NEW i \in DOMAIN log, NEW j \in DOMAIN log,
                        NEW k \in DOMAIN log,
                        log[i].type \in Settling,
                        log[j].type \in Settling,
                        log[k].type \in Settling,
                        log[i].id = log[j].id, log[j].id = log[k].id, log[i].id # 0,
                        i # j, j # k, i # k
                 PROVE  FALSE
        BY DEF SettledAtMostTwice, Settlements
    <2> DEFINE id == log[i].id
    <2>1. log \in Seq(Event) /\ DOMAIN log = 1..Len(log) /\ IsFiniteSet(inflight)
          /\ Len(issued) \in Nat
        BY LenProperties DEF GatewayInv, Inv, TypeOK, Bounded
    <2>2. id \in Nat \ {0}
        BY <2>1 DEF GatewayInv, Requested, Settlement
    <2> HIDE DEF id
    <2>3. {i, j, k} \subseteq Rows(id)
        BY <2>1 DEF Rows, Settlement, id
    <2>4. Cardinality({i, j, k}) = 3
        <3>1. IsFiniteSet({i}) /\ Cardinality({i}) = 1
            BY FS_Singleton
        <3> DEFINE one == {i}
                   two == one \cup {j}
        <3>2. IsFiniteSet(two) /\ Cardinality(two) = 2
            <4>1. j \notin one
                OBVIOUS
            <4>2. IsFiniteSet(one) /\ Cardinality(one) = 1
                BY <3>1
            <4> HIDE DEF one
            <4> QED BY <4>1, <4>2, OneMore
        <3>3. k \notin two
            OBVIOUS
        <3> HIDE DEF two
        <3>5. Cardinality(two \cup {k}) = 3
            BY <3>2, <3>3, OneMore
        <3>4. {i, j, k} = two \cup {k}
            BY DEF two
        <3> QED BY <3>4, <3>5
    <2>5. /\ IsFiniteSet(Rows(id)) /\ Cardinality(Rows(id)) \in Nat
          /\ Cardinality(Requests(id)) \in Nat
        BY <2>1, CountedSets
    <2>6. Cardinality({i, j, k}) <= Cardinality(Rows(id))
        BY <2>3, <2>5, FS_Subset
    <2>7. Reports(id) <= 2
        BY <2>2, <2>5 DEF Bounded, Reports
    <2> QED BY <2>4, <2>5, <2>6, <2>7 DEF Reports
<1> QED BY <1>1, <1>2, <1>3, GatewayInvHolds, PTL DEF GatewaySpec

\* The composition keeps the book of its clients: what the gateway loses, repeats
\* or reports late never makes of the book what no report or command asked for.
THEOREM GatewayKeepsBook == GatewaySpec /\ [](Len(log) <= ReplayLimit) => BookKept
BY GatewayImplementsCore, BookIsKept, PTL
=============================================================================
