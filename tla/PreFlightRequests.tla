------------------------- MODULE PreFlightRequests -------------------------
(***************************************************************************)
(* One request judged by the pre-flight gates of module PreFlight: a       *)
(* single order (POST /api/order) or a plan (POST /api/plan), against any  *)
(* of a set of states of the projection and of the option-chain file.      *)
(***************************************************************************)
EXTENDS PreFlight

CONSTANTS
    OrderRequests,  \* orders that may be submitted alone
    PlanRequests,   \* sequences of orders that may be submitted as a plan
    HeldStates,     \* subset of [Symbols -> Int]
    TickStates,     \* set of functions from subsets of Symbols to Quote
    ChainStates     \* subset of [Symbols -> Quote]

\* The fields an order may have and what the gates read.
ASSUME RequestParameters ==
    /\ OrderRequests \subseteq Order
    /\ PlanRequests \subseteq Seq(Order)
    /\ HeldStates \subseteq [Symbols -> Int]
    /\ \A t \in TickStates : DOMAIN t \subseteq Symbols /\ t \in [DOMAIN t -> Quote]
    /\ ChainStates \subseteq [Symbols -> Quote]

VARIABLES
    via,            \* "order" or "plan"
    legs,           \* the orders of the request
    held, ticks, chain,
    gate            \* the answer, "unasked" before it is given

vars == << via, legs, held, ticks, chain, gate >>

Init ==
    /\ \/ via = "order" /\ legs \in {<< o >> : o \in OrderRequests}
       \/ via = "plan" /\ legs \in PlanRequests
    /\ held \in HeldStates
    /\ ticks \in TickStates
    /\ chain \in ChainStates
    /\ gate = "unasked"

JudgeOrder ==
    /\ via = "order" /\ gate = "unasked"
    /\ gate' = CheckOrder(legs[1], held, ticks, chain)
    /\ UNCHANGED << via, legs, held, ticks, chain >>

JudgePlan ==
    /\ via = "plan" /\ gate = "unasked"
    /\ gate' = CheckPlan(legs, held, ticks, chain)
    /\ UNCHANGED << via, legs, held, ticks, chain >>

Next == JudgeOrder \/ JudgePlan

Spec == Init /\ [][Next]_vars

Accepted == gate = "ok"

---------------------------------------------------------------------------
(* The position a set of legs leaves behind once all of them are filled,   *)
(* and its value at the price the position cap uses: a reference for what  *)
(* the gates are there to bound.                                           *)

HeldAfter(s) ==
    LET sum[n \in 0..Len(legs)] ==
            IF n = 0 THEN held[s]
            ELSE sum[n-1] + (IF legs[n].symbol = s
                             THEN Signed(legs[n].side, legs[n].qty) ELSE 0)
    IN  sum[Len(legs)]

WithinPositionCap(o) ==
    100 * Abs(HeldAfter(o.symbol)) * ExposurePrice(o, ticks)
        <= PositionPct * Cash

\* Once an accepted order is filled, the position it leaves, long or short,
\* is worth at most 30% of the cash at the price of the gate; cash-segment
\* legs are exempt (_check_position_cap, preflight.py:248-289).
FilledOrderWithinCap ==
    via = "order" /\ Accepted /\ ~legs[1].spot => WithinPositionCap(legs[1])

\* An accepted order that adds to a position would also be accepted for any
\* smaller whole number of lots: the caps, the one-lot exemption and the lot
\* gate together never refuse less of what they allow (check_order,
\* preflight.py:107-141).
LessIsAccepted ==
    via = "order" /\ Accepted /\ held[legs[1].symbol] * Signed(legs[1].side, 1) >= 0
    => \A q \in 1..legs[1].qty - 1 :
          q % LotSize[legs[1].underlying] = 0
          => CheckOrder([legs[1] EXCEPT !.qty = q], held, ticks, chain) = "ok"

\* The legs of an accepted plan are judged one by one, all against the
\* positions before the plan; that is enough when no two of them are in one
\* symbol: once all are filled, each symbol is within the cap (check_plan,
\* preflight.py:143-158).
FilledPlanWithinCap ==
    /\ via = "plan" /\ Accepted
    /\ \A i, j \in DOMAIN legs : legs[i].symbol = legs[j].symbol => i = j
    => \A i \in DOMAIN legs : ~legs[i].spot => WithinPositionCap(legs[i])
=============================================================================
