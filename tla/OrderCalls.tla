----------------------------- MODULE OrderCalls -----------------------------
(***************************************************************************)
(* What a thread may count on when it places a live order: the call comes  *)
(* to the exchange at one point, with at most one order, and is over; no   *)
(* other thread is touched.  LiveOrders, with its attempts, its lock and   *)
(* its rate limit, implements this.                                        *)
(***************************************************************************)
EXTENDS Naturals

CONSTANTS Callers

VARIABLES
    calling,      \* is the caller in a call?
    reached,      \* orders its current or last call put on the exchange
    result,       \* what the last call gave
    connected     \* is the client connected?

view == << calling, reached, result, connected >>

Init ==
    /\ calling = [c \in Callers |-> FALSE]
    /\ reached = [c \in Callers |-> 0]
    /\ result = [c \in Callers |-> "none"]
    /\ connected = TRUE

Begin(c) ==
    /\ ~calling[c]
    /\ calling' = [calling EXCEPT ![c] = TRUE]
    /\ reached' = [reached EXCEPT ![c] = 0]
    /\ result' = [result EXCEPT ![c] = "none"]
    /\ UNCHANGED connected

\* A status tells nothing of the exchange: an order returned as REJECTED may be
\* there, its answer lost, and one returned as OPEN may not.  A call begun while
\* the client was connected may return after it no longer is.
Answer(c) ==
    /\ calling[c]
    /\ calling' = [calling EXCEPT ![c] = FALSE]
    /\ \E n \in {0, 1}, status \in {"OPEN", "REJECTED"} :
          /\ reached' = [reached EXCEPT ![c] = n]
          /\ result' = [result EXCEPT ![c] = status]
    /\ UNCHANGED connected

\* An exception means that the client is not connected, and no order is sent.
Raise(c) ==
    /\ calling[c]
    /\ ~connected
    /\ calling' = [calling EXCEPT ![c] = FALSE]
    /\ result' = [result EXCEPT ![c] = "raised"]
    /\ UNCHANGED << reached, connected >>

Disconnect == connected' = FALSE /\ UNCHANGED << calling, reached, result >>

Next == Disconnect \/ \E c \in Callers : Begin(c) \/ Answer(c) \/ Raise(c)

Spec == Init /\ [][Next]_view
=============================================================================
