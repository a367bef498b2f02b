--------------------------- MODULE MCTradingCore ---------------------------
(***************************************************************************)
(* Bounded instance of TradingCore: a call and a put, lots of one unit, a  *)
(* cash of 100, so that one lot at the price of 20 fits the position cap   *)
(* and a second one in the same symbol does not.                           *)
(***************************************************************************)
EXTENDS TradingCore

CE == "CE"
PE == "PE"
MCSymbols == {CE, PE}
MCUnderlyings == {"NIFTY"}
MCLotSize == [u \in MCUnderlyings |-> 1]

Leg(symbol, side) ==
    [symbol |-> symbol, underlying |-> "NIFTY", side |-> side, qty |-> 1,
     type |-> "MARKET", price |-> 20, spot |-> FALSE]

OneSymbol == {CE}
MCOrders == {Leg(CE, "SELL")}
\* an order without a quantity, which the structure gate refuses
MCRefused == {[Leg(CE, "SELL") EXCEPT !.qty = 0]}
MCPlans == {<< Leg(CE, "SELL"), Leg(PE, "BUY") >>}
MCQuote == [bid |-> 20, ask |-> 20, ltp |-> 20]
OneQuote == {MCQuote}
MCChain == {[s \in MCSymbols |-> MCQuote]}
OneChain == {[s \in OneSymbol |-> MCQuote]}

\* single orders in one symbol, every command, no plans and
\* no rejections
OrderRows ==
    [t \in EventTypes |->
        CASE t \in {"ORDER_PROPOSED", "ORDER_VALIDATED", "ORDER_FILLED"} -> 2
          [] t \in {"PLAN_SUBMITTED", "ORDER_REJECTED"} -> 0
          [] OTHER -> 1]

\* one plan of two legs and refused orders, no cancellation and no pause
PlanRows ==
    [t \in EventTypes |->
        CASE t \in {"ORDER_PROPOSED", "ORDER_VALIDATED", "ORDER_REJECTED"} -> 2
          [] t = "ORDER_FILLED" -> 4
          [] t \in {"ORDER_CANCELLED", "RISK_CIRCUIT_BREAKER"} -> 0
          [] OTHER -> 1]

\* one of each row, and two of those of the orders: for the runs that look
\* for one violation
FewRows == [t \in EventTypes |-> IF t = "AUDIT_LOG" THEN 1 ELSE 2]
=============================================================================
