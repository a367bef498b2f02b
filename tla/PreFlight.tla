----------------------------- MODULE PreFlight -----------------------------
(***************************************************************************)
(* The pre-flight risk gates of system/core/risk/preflight.py: pure        *)
(* operators from an order (or a plan, a sequence of orders) and the part  *)
(* of the projection the gates read to the name of the gate that refuses   *)
(* it, or "ok".                                                            *)
(*                                                                         *)
(* An order is a record [symbol, underlying, side, qty, type, price, spot].*)
(* spot stands for exchange = "NSE" (a cash-segment leg); price = 0 is a   *)
(* request without a price.  The state read is                             *)
(*   held  : Symbols -> Int, the signed position,                          *)
(*   ticks : a function whose domain is the symbols with a market tick,    *)
(*   chain : Symbols -> quote of the option-chain file, bid = 0 if none.   *)
(* Percentages are compared by cross-multiplication; every quantity is an  *)
(* integer, as lots and scaled prices are.  Cash is a constant because no  *)
(* event ever changes account.cash.                                        *)
(***************************************************************************)
EXTENDS Integers, Sequences, FiniteSets

CONSTANTS
    Symbols,        \* instruments that can be named in an order
    Underlyings,    \* their underlyings
    LotSize,        \* Underlyings -> lot size of the exchange
    Cash,           \* account.cash
    MaxLots         \* max_lots_per_leg

PerTradePct == 5      \* max_per_trade_pct
PositionPct == 30     \* max_position_pct
LimitBuyPct == 95     \* 1 - limit_safety_buy
LimitSellPct == 120   \* limit_safety_sell

ASSUME GateParameters ==
    /\ IsFiniteSet(Symbols)
    /\ LotSize \in [Underlyings -> Nat \ {0}]
    /\ Cash \in Nat
    /\ MaxLots \in Nat

Sides == {"BUY", "SELL"}
OrderTypes == {"MARKET", "LIMIT", "SL", "SL-M"}
Quote == [bid : Nat, ask : Nat, ltp : Nat]
Order == [symbol : Symbols, underlying : Underlyings, side : Sides,
          qty : Nat, type : STRING, price : Nat, spot : BOOLEAN]

Abs(n) == IF n < 0 THEN -n ELSE n

\* a, or b when a is 0: Python's "a or b" on numbers
Or(a, b) == IF a # 0 THEN a ELSE b

\* the signed quantity an order or fill adds to a position
Signed(side, qty) == IF side = "BUY" THEN qty ELSE -qty

---------------------------------------------------------------------------
(* The gates, in the order check_order runs them. *)

StructureGate(o) ==
    IF o.qty > 0 /\ o.side \in Sides /\ o.type \in OrderTypes
    THEN "ok" ELSE "structure"

\* the price the per-trade cap estimates the cost with
CostPrice(o, ticks, chain) ==
    CASE o.price > 0 -> o.price
      [] o.price = 0 /\ o.symbol \in DOMAIN ticks ->
            Or(ticks[o.symbol].ask, ticks[o.symbol].ltp)
      [] o.price = 0 /\ o.symbol \notin DOMAIN ticks ->
            IF chain[o.symbol].bid > 0
            THEN Or(chain[o.symbol].ask, chain[o.symbol].bid) ELSE 0

\* (mutation) the exemption given to the orders above one lot
AtMostOneLotInverted(o) == 2 * o.qty >= 3 * LotSize[o.underlying]

\* max(1, round(qty / lot)) <= 1 : Python rounds 1.5 lots to 2
AtMostOneLot(o) == 2 * o.qty < 3 * LotSize[o.underlying]

PerTradeGate(o, ticks, chain) ==
    LET price == CostPrice(o, ticks, chain)
    IN  IF Cash = 0 THEN "cash"
        ELSE IF o.side = "SELL" \/ o.spot THEN "ok"
        ELSE IF price = 0 THEN "pricing"
        ELSE IF AtMostOneLot(o) \/ 100 * o.qty * price <= PerTradePct * Cash
             THEN "ok" ELSE "per_trade_cap"

\* the price the position cap values the exposure with: no chain fallback
ExposurePrice(o, ticks) ==
    Or(o.price, IF o.symbol \in DOMAIN ticks THEN ticks[o.symbol].ltp ELSE 0)

\* (mutation) the unsigned exposure the code used before it was made short-aware
PositionGateUnsigned(o, held, ticks) ==
    LET left == Abs(held[o.symbol]) + Signed(o.side, o.qty)
        price == ExposurePrice(o, ticks)
    IN  IF o.spot \/ 100 * (IF left < 0 THEN 0 ELSE left) * price
                        <= PositionPct * Cash
        THEN "ok" ELSE "position_cap"

PositionGate(o, held, ticks) ==
    LET exposure == Abs(held[o.symbol] + Signed(o.side, o.qty))
        price == ExposurePrice(o, ticks)
    IN  IF Cash = 0 THEN "cash"
        ELSE IF o.spot THEN "ok"
        ELSE IF price = 0 THEN "pricing"
        ELSE IF 100 * exposure * price <= PositionPct * Cash
             THEN "ok" ELSE "position_cap"

LotGate(o) ==
    IF o.qty % LotSize[o.underlying] # 0 THEN "lot_size"
    ELSE IF o.qty \div LotSize[o.underlying] > MaxLots THEN "lot_cap"
    ELSE "ok"

\* bid and ask a LIMIT is compared with: the tick, else the chain, else none
LimitQuote(o, ticks, chain) ==
    IF o.symbol \in DOMAIN ticks /\ ticks[o.symbol].bid > 0
    THEN [bid |-> ticks[o.symbol].bid, ask |-> ticks[o.symbol].ask]
    ELSE [bid |-> chain[o.symbol].bid,
          ask |-> Or(chain[o.symbol].ask, chain[o.symbol].bid)]

LimitGate(o, ticks, chain) ==
    LET q == LimitQuote(o, ticks, chain)
        tooHigh == o.side = "SELL" /\ 100 * o.price > LimitSellPct * q.bid
        tooLow == o.side = "BUY" /\ q.ask > 0
                  /\ 100 * o.price < LimitBuyPct * q.ask
    IN  IF o.type # "LIMIT" THEN "ok"
        ELSE IF q.bid = 0 THEN "pricing"
        ELSE IF o.price = 0 THEN "structure"
        ELSE IF tooHigh \/ tooLow THEN "limit_reasonable"
        ELSE "ok"

\* legs is <<>> for a single order
ConsistencyGate(legs) ==
    IF Cardinality({legs[i].underlying : i \in DOMAIN legs}) > 1
    THEN "plan_consistency" ELSE "ok"

\* the first gate of a sequence that refuses, "ok" when none does
FirstRefusal(gates) ==
    LET refusing == {i \in DOMAIN gates : gates[i] # "ok"}
    IN  IF refusing = {} THEN "ok"
        ELSE gates[CHOOSE i \in refusing : \A j \in refusing : i <= j]

CheckLeg(o, legs, held, ticks, chain) ==
    FirstRefusal(<< StructureGate(o),
                    PerTradeGate(o, ticks, chain),
                    PositionGate(o, held, ticks),
                    LotGate(o),
                    LimitGate(o, ticks, chain),
                    ConsistencyGate(legs) >>)

CheckOrder(o, held, ticks, chain) == CheckLeg(o, << >>, held, ticks, chain)

---------------------------------------------------------------------------
(* A plan: every leg against the same state, then the net outlay. *)

\* sum of qty * price, bought legs counted up and sold legs down
NetOutlay(legs) ==
    LET sum[n \in 0..Len(legs)] ==
            IF n = 0 THEN 0
            ELSE sum[n-1] + Signed(legs[n].side, legs[n].qty * legs[n].price)
    IN  sum[Len(legs)]

OutlayGate(legs) ==
    IF Cash = 0 THEN "cash"
    ELSE IF 100 * NetOutlay(legs) > PositionPct * Cash THEN "position_cap"
    ELSE "ok"

\* (mutation) the loop over the legs returns in its first round
CheckPlanFirst(legs, held, ticks, chain) ==
    IF legs = << >> THEN "structure"
    ELSE CheckLeg(legs[1], legs, held, ticks, chain)

CheckPlan(legs, held, ticks, chain) ==
    IF legs = << >> THEN "structure"
    ELSE FirstRefusal(
           [i \in 1..Len(legs) + 1 |->
              IF i <= Len(legs)
              THEN CheckLeg(legs[i], legs, held, ticks, chain)
              ELSE OutlayGate(legs)])
=============================================================================
