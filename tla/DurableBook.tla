---------------------------- MODULE DurableBook ----------------------------
(***************************************************************************)
(* What the clients of the trading core are promised: one book of orders,  *)
(* positions, plans, quotes and the pause, that each command changes in    *)
(* one step and nothing else changes.  There is no log here, no process,   *)
(* no crash and no restart: TradingCore implements this module because     *)
(* those are steps in which the book stands still.                         *)
(*                                                                         *)
(* issued is what the clients have been told of; the book may know less of *)
(* it, after a reset.                                                      *)
(***************************************************************************)
EXTENDS Integers, Sequences

CONSTANTS
    Symbols, OrderForms, PlanForms, Quotes, ChainStates, Unknown,
    NoCommand,                  \* no command is being obeyed
    CheckOrder(_, _, _, _),     \* the verdict on an order: order, positions,
                                \* quotes, option chain
    CheckPlan(_, _, _, _)       \* the verdict on a plan

VARIABLES
    issued,     \* the accepted orders, order n under client_order_id n
    command,    \* the command that has been obeyed and not yet finished
    book        \* [orders, held, plans, ticks, paused]

view == << issued, command, book >>

Flat == [s \in Symbols \cup {Unknown} |-> 0]

Empty == [orders |-> << >>, held |-> Flat, plans |-> {}, ticks |-> << >>,
          paused |-> FALSE]

Init == issued = << >> /\ command = NoCommand /\ book = Empty

---------------------------------------------------------------------------
(* Accepted orders and plans. *)

\* all the legs of plan in the book together, under the next numbers
Entered(legs, plan) ==
    LET new == Len(issued) + 1 .. Len(issued) + Len(legs)
    IN  [id \in DOMAIN book.orders \cup new |->
           IF id \in new
           THEN [order |-> legs[id - Len(issued)], plan |-> plan, status |-> "PROPOSED"]
           ELSE book.orders[id]]

AcceptOrder(order) ==
    /\ command = NoCommand /\ UNCHANGED command
    /\ issued' = Append(issued, order)
    /\ book' = [book EXCEPT !.orders = Entered(<< order >>, 0)]
    /\ \E chain \in ChainStates : CheckOrder(order, book.held, book.ticks, chain) = "ok"

\* a plan has the number of its first leg
AcceptPlan(legs) ==
    LET plan == Len(issued) + 1
    IN  /\ command = NoCommand /\ UNCHANGED command
        /\ issued' = issued \o legs
        /\ book' = [book EXCEPT !.orders = Entered(legs, plan), !.plans = @ \cup {plan}]
        /\ \E chain \in ChainStates : CheckPlan(legs, book.held, book.ticks, chain) = "ok"

---------------------------------------------------------------------------
(* Reports and quotes, which come from outside at any time. *)

\* A fill of an order moves the position of that order and no other; if a
\* reset has made the book forget the order, the fill lands on Unknown.
Filled(id) ==
    LET order == issued[id]
        signed == IF order.side = "BUY" THEN order.qty ELSE -order.qty
    IN  IF id \in DOMAIN book.orders
        THEN [book EXCEPT !.orders[id].status = "FILLED",
                          !.held[order.symbol] = @ + signed]
        ELSE [book EXCEPT !.held[Unknown] = @ + order.qty]

Cancelled(id) == [book EXCEPT !.orders[id].status = "CANCELLED"]

Quoted(symbol, quote) ==
    [book EXCEPT !.ticks = [s \in DOMAIN @ \cup {symbol} |->
                              IF s = symbol THEN quote ELSE @[s]]]

Note ==
    /\ command = NoCommand /\ UNCHANGED << issued, command >>
    /\ book' \in {Filled(id) : id \in 1..Len(issued)}
                \cup {Cancelled(id) : id \in DOMAIN book.orders}
                \cup {Quoted(symbol, quote) : symbol \in Symbols, quote \in Quotes}

---------------------------------------------------------------------------
(* Commands: only a command closes positions, lifts a pause or resets. *)

\* the books that command c may make of this one; CLOSE_ALL is both the call
\* that closes every position and the force action that closes none
Obeyed(c) ==
    CASE c = "CLOSE_ALL" -> {[book EXCEPT !.held = Flat], book}
      [] c = "PAUSE" -> {[book EXCEPT !.paused = TRUE]}
      [] c = "RESUME" -> {[book EXCEPT !.paused = FALSE]}
      [] c = "RESET" -> {Empty}
      [] c = "RELOAD_BRAIN" -> {book}

Obey(c) ==
    /\ command = NoCommand /\ command' = c
    /\ UNCHANGED issued
    /\ book' \in Obeyed(c)

\* the command is over, its record kept or lost; at such a point an earlier
\* pause may return, and nothing else may happen
Finish ==
    /\ command' = NoCommand
    /\ UNCHANGED issued
    /\ book' \in {book, [book EXCEPT !.paused = TRUE]}

Next ==
    \/ Finish
    \/ Note
    \/ \E c \in {"PAUSE", "RESUME", "CLOSE_ALL", "RESET", "RELOAD_BRAIN"} : Obey(c)
    \/ \E order \in OrderForms : AcceptOrder(order)
    \/ \E legs \in PlanForms : AcceptPlan(legs)

Spec == Init /\ [][Next]_view
=============================================================================
