--------------------------- MODULE MCExecGateway ---------------------------
(***************************************************************************)
(* Bounded instance of ExecGateway: an option sold at a price and the cash *)
(* leg bought at the market, whose price the gateway has to find.          *)
(***************************************************************************)
EXTENDS ExecGateway

MCSymbols == {"CE", "SPOT"}
MCUnderlyings == {"NIFTY"}
MCLotSize == [u \in MCUnderlyings |-> 1]

Option ==
    [symbol |-> "CE", underlying |-> "NIFTY", side |-> "SELL", qty |-> 1,
     type |-> "LIMIT", price |-> 20, spot |-> FALSE]
Spot ==
    [symbol |-> "SPOT", underlying |-> "NIFTY", side |-> "BUY", qty |-> 1,
     type |-> "MARKET", price |-> 0, spot |-> TRUE]

MCOrders == {Option}
MCSpotOrders == {Spot}
MCPlans == {<< Option, Spot >>}
MCChain == {[s \in MCSymbols |-> [bid |-> 20, ask |-> 20, ltp |-> 20]]}

MCRows ==
    [t \in EventTypes |->
        CASE t \in {"ORDER_PROPOSED", "ORDER_VALIDATED"} -> 2
          [] t \in {"ORDER_FILLED", "ORDER_REJECTED"} -> 4
          [] t \in {"PLAN_SUBMITTED", "AUDIT_LOG", "ORDER_CANCELLED"} -> 1
          [] OTHER -> 0]

\* single orders, no cancellation; room for the three fills of one order that
\* should not be
LiveRows ==
    [t \in EventTypes |->
        CASE t \in {"ORDER_PROPOSED", "ORDER_VALIDATED"} -> 2
          [] t = "ORDER_FILLED" -> 3
          [] t = "ORDER_REJECTED" -> 1
          [] t = "AUDIT_LOG" -> 1
          [] OTHER -> 0]
=============================================================================
