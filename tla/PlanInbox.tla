------------------------------ MODULE PlanInbox ------------------------------
(***************************************************************************)
(* What the queue between the brain and the core promises, without its     *)
(* files, passes and POSTs: a trade becomes a plan of the core at most     *)
(* once in a life of the bridge, and a close-all the end of the day asks   *)
(* for is done once asked, not before, and stays done till the day is over. *)
(***************************************************************************)
EXTENDS Naturals

CONSTANT Trades

VARIABLES
    accepted,       \* plans of a trade accepted since the bridge was started
    closing         \* the close-all of the day: "none", "asked" or "done"

ivars == << accepted, closing >>

Init ==
    /\ accepted = [t \in Trades |-> 0]
    /\ closing = "none"

Accept(t) ==
    /\ accepted[t] = 0
    /\ accepted' = [accepted EXCEPT ![t] = 1]
    /\ UNCHANGED closing

NewLife == accepted' = [t \in Trades |-> 0] /\ UNCHANGED closing

Ask == closing = "none" /\ closing' = "asked" /\ UNCHANGED accepted

CloseAll == closing = "asked" /\ closing' = "done" /\ UNCHANGED accepted

DayOver == closing # "none" /\ closing' = "none" /\ UNCHANGED accepted

Next == (\E t \in Trades : Accept(t)) \/ NewLife \/ Ask \/ CloseAll \/ DayOver

Spec == Init /\ [][Next]_ivars
=============================================================================
