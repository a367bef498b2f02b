---------------------------- MODULE PaperBroker ----------------------------
(***************************************************************************)
(* The paper broker of the stand-alone bot, in its configured fill mode    *)
(* 'realistic': the order book, the net position of every symbol and the   *)
(* symbols with a price.                                                   *)
(*                                                                         *)
(* Every method holds the broker's lock and saves the book before it       *)
(* returns, so a method is one step and the file holds the book of the     *)
(* last whole step: a crash costs the prices, which live in memory, and    *)
(* nothing else.  Prices, cash and averages are abstracted; an order of a  *)
(* symbol with a price fills whole when it is a MARKET order, and whole or *)
(* not at all when it is a LIMIT order.  The option chain the broker falls *)
(* back to counts as a tick.                                               *)
(***************************************************************************)
EXTENDS Integers, Sequences, FiniteSets, FiniteSetsExt

CONSTANTS
    Symbols,      \* the option contracts
    MaxOrders     \* bound of the model on the orders ever placed

ASSUME BrokerParameters == IsFiniteSet(Symbols) /\ MaxOrders \in Nat

VARIABLES
    orders,       \* _orders: every order, in the order they were placed
    position,     \* _positions: signed quantity, 0 for a symbol without a row
    quoted        \* symbols _try_fill finds a price for

brokerVars == <<orders, position, quoted>>

Buy == 1
Sell == -1

\* An order as it is handed to the broker; "closes" is the entry a tag
\* close_<order_id> names, 0 for every other tag.
Order(symbol, side, qty, kind, closes) ==
    [symbol |-> symbol, side |-> side, qty |-> qty, kind |-> kind,
     closes |-> closes, status |-> "OPEN", timed |-> TRUE]

BrokerInit ==
    /\ orders = <<>>
    /\ position = [s \in Symbols |-> 0]
    /\ quoted = {}

\* _compute_bid_ask_fill: a MARKET order takes the book, a LIMIT order
\* fills when it crosses.
MayFill(order) ==
    CASE order.symbol \notin quoted -> {FALSE}
      [] order.kind = "MARKET"      -> {TRUE}
      [] OTHER                      -> BOOLEAN

\* _apply_fill: a BUY adds to the signed quantity and a SELL takes from it,
\* through zero if need be.
Filled(pos, ks) ==
    [s \in Symbols |->
        pos[s] + MapThenSumSet(LAMBDA k : orders[k].side * orders[k].qty,
                               {k \in ks : orders[k].symbol = s})]

\* place_order.
PlaceOrder(order) ==
    /\ Len(orders) < MaxOrders
    /\ \E fills \in MayFill(order) :
         /\ orders' = Append(orders,
                [order EXCEPT !.status = IF fills THEN "COMPLETE" ELSE "OPEN"])
         /\ position' = IF fills
                        THEN [position EXCEPT ![order.symbol] =
                                 @ + order.side * order.qty]
                        ELSE position
    /\ UNCHANGED quoted

OpenOrders == {k \in DOMAIN orders : orders[k].status = "OPEN"}

\* inject_tick: the open orders of the symbol are tried, then any open order
\* past its minute is refused.
Tick(s) ==
    \E crossed \in SUBSET {k \in OpenOrders : orders[k].kind = "LIMIT"
                                              /\ orders[k].symbol = s} :
        LET market == {k \in OpenOrders : orders[k].kind = "MARKET"
                                          /\ orders[k].symbol = s}
            filled == crossed \cup market
        IN  \E late \in SUBSET {k \in OpenOrders \ filled : orders[k].timed} :
              /\ orders' = [k \in DOMAIN orders |->
                    CASE k \in filled -> [orders[k] EXCEPT !.status = "COMPLETE"]
                      [] k \in late   -> [orders[k] EXCEPT !.status = "REJECTED"]
                      [] OTHER        -> orders[k]]
              /\ position' = Filled(position, filled)
              /\ quoted' = quoted \cup {s}

\* _load_state of a new life: open orders without a limit price are
\* cancelled, the others stay open with no timer, and no price is known.
Reload ==
    /\ orders' = [k \in DOMAIN orders |->
          CASE k \notin OpenOrders            -> orders[k]
            [] orders[k].kind = "MARKET"      -> [orders[k] EXCEPT !.status = "CANCELLED"]
            [] OTHER                          -> [orders[k] EXCEPT !.timed = FALSE]]
    /\ quoted' = {}
    /\ UNCHANGED position

Held == {s \in Symbols : position[s] # 0}
Flat == Held = {}
=============================================================================
