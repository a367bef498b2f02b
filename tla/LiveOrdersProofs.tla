-------------------------- MODULE LiveOrdersProofs --------------------------
(***************************************************************************)
(* LiveOrders for every number of threads, every cap, window and number of *)
(* attempts: an order goes to the exchange at most once a call, a raised   *)
(* call not at all, and no window holds more than Cap placements.          *)
(***************************************************************************)
EXTENDS LiveOrders, NaturalsInduction, WellFoundedInduction,
        SequenceTheorems, TLAPS

-----------------------------------------------------------------------------
(* The rate limit's list.                                                  *)

\* What is used of a sequence of ages.
LEMMA AgesAre ==
    ASSUME NEW S, NEW ts \in Seq(S)
    PROVE  /\ Len(ts) \in Nat
           /\ DOMAIN ts = 1..Len(ts)
           /\ \A i \in 1..Len(ts) : ts[i] \in S
OBVIOUS

\* A table of the first n numbers is a sequence of length n.
LEMMA TableIsSequence ==
    ASSUME NEW S, NEW n \in Nat, NEW f \in [1..n -> S]
    PROVE  f \in Seq(S) /\ Len(f) = n
OBVIOUS

Kept(ts) == \A i \in DOMAIN ts : i + Cap \in DOMAIN ts => ts[i] >= Window

\* There is a first recent placement, or the place after the last.
LEMMA FirstRecentExists ==
    ASSUME NEW ts \in Seq(0..Window)
    PROVE  /\ FirstRecent(ts) \in 1..(Len(ts) + 1)
           /\ FirstRecent(ts) <= Len(ts) => ts[FirstRecent(ts)] < Window
<1> DEFINE n == Len(ts)
           Places == {k \in 1..(n + 1) : k <= n => ts[k] < Window}
<1>0. n \in Nat /\ \A i \in 1..n : ts[i] \in 0..Window
    BY AgesAre, Zenon
<1> HIDE DEF n
<1>1. Places \in SUBSET Nat /\ n + 1 \in Places
    BY <1>0
<1>2. IsWellFoundedOn(OpToRel(<, Nat), Nat)
    BY NatLessThanWellFounded
<1>3. PICK x \in Places : \A y \in Places : << y, x >> \notin OpToRel(<, Nat)
    <2> HIDE DEF Places
    <2> QED BY <1>1, <1>2, WFMin
<1>4. \A y \in Places : ~(y < x)
    <2> HIDE DEF Places
    <2> QED BY <1>3, <1>1 DEF OpToRel
<1>5. x \in 1..(n + 1) /\ (x <= n => ts[x] < Window)
    BY <1>3
<1>6. \A i \in 1..(x - 1) : ts[i] >= Window
    <2> TAKE i \in 1..(x - 1)
    <2>1. i \in 1..n /\ i < x
        BY <1>0, <1>5
    <2>2. i \notin Places
        <3> HIDE DEF Places
        <3> QED BY <1>4, <2>1
    <2>3. ~(ts[i] < Window)
        BY <2>1, <2>2, <1>0
    <2>4. ts[i] \in 0..Window
        BY <2>1, <1>0
    <2> QED BY <2>3, <2>4, LiveParameters
<1>7. \E k \in 1..(Len(ts) + 1) :
          /\ \A i \in 1..(k - 1) : ts[i] >= Window
          /\ k <= Len(ts) => ts[k] < Window
    BY <1>5, <1>6 DEF n
<1> QED BY <1>7 DEF FirstRecent

\* Of a list that keeps the rate, the recent part has at most Cap entries.
LEMMA RecentKept ==
    ASSUME NEW ts \in Seq(0..Window), Kept(ts)
    PROVE  /\ Recent(ts) \in Seq(0..Window)
           /\ Len(Recent(ts)) <= Cap
<1> DEFINE f == FirstRecent(ts)
           n == Len(ts)
<1>1. /\ f \in 1..(n + 1)
      /\ f <= n => ts[f] < Window
    BY FirstRecentExists
<1>2. n \in Nat /\ (\A i \in 1..n : ts[i] \in 0..Window) /\ DOMAIN ts = 1..n
    BY AgesAre, Zenon
<1>3. Recent(ts) = SubSeq(ts, f, n)
    BY DEF Recent
<1> HIDE DEF f
<1>4. /\ SubSeq(ts, f, n) \in Seq(0..Window)
      /\ Len(SubSeq(ts, f, n)) = n - f + 1
    <2> HIDE DEF n
    <2>1. \A i \in f..n : ts[i] \in 0..Window
        BY <1>1, <1>2
    <2>2. SubSeq(ts, f, n) = [i \in 1..(n - f + 1) |-> ts[i + f - 1]]
        BY <1>1, <1>2 DEF n
    <2> QED BY <2>1, <2>2, <1>1, <1>2, SubSeqProperties DEF n
<1> HIDE DEF n
<1>5. ASSUME n - f + 1 > Cap PROVE FALSE
    <2>1. f \in 1..n /\ f + Cap \in 1..n
        BY <1>1, <1>2, <1>5, LiveParameters
    <2>2. ts[f] >= Window
        BY <2>1, <1>2 DEF Kept
    <2>3. ts[f] < Window /\ ts[f] \in 0..Window
        BY <2>1, <1>1, <1>2
    <2> QED BY <2>2, <2>3, LiveParameters
<1> QED BY <1>1, <1>2, <1>3, <1>4, <1>5, LiveParameters

\* A list of at most Cap entries keeps the rate whatever their ages.
LEMMA ShortKept ==
    ASSUME NEW ts \in Seq(0..Window), Len(ts) <= Cap
    PROVE  Kept(ts)
<1>1. DOMAIN ts = 1..Len(ts) /\ Len(ts) \in Nat
    BY AgesAre, Zenon
<1> QED BY <1>1, LiveParameters DEF Kept

-----------------------------------------------------------------------------
(* The invariant.                                                          *)

\* Until a call is over it has put nothing on the exchange.
Underway == \A c \in Callers : pc[c] # "idle" => reached[c] = 0

\* Who sleeps in the rate limit or sends holds the lock, and whoever sleeps
\* has found the last second full.
Holds ==
    \A c \in Callers :
        /\ pc[c] \in {"limited", "sending"} => lock = c
        /\ pc[c] = "limited" => Len(ages) = Cap

LiveInv ==
    /\ LiveTypeOK
    /\ AtMostOnce
    /\ RaisedMeansUnsent
    /\ RateKept
    /\ Underway
    /\ Holds

LEMMA InitInv == LiveInit => LiveInv
<1> SUFFICES ASSUME LiveInit PROVE LiveInv
    OBVIOUS
<1> USE DEF LiveInit
<1>1. LiveTypeOK
    BY LiveParameters DEF LiveTypeOK
<1>2. AtMostOnce /\ RaisedMeansUnsent /\ Underway /\ Holds
    BY DEF AtMostOnce, RaisedMeansUnsent, Underway, Holds
<1>3. RateKept
    BY DEF RateKept
<1> QED BY <1>1, <1>2, <1>3 DEF LiveInv

LEMMA CallInv ==
    ASSUME LiveInv, NEW c \in Callers, Call(c) PROVE LiveInv'
<1> USE DEF LiveInv, Call
<1>1. LiveTypeOK'
    <2>1. 1 \in 0..Attempts
        BY LiveParameters
    <2> QED BY <2>1 DEF LiveTypeOK
<1>2. RateKept'
    BY DEF RateKept
<1>3. AtMostOnce' /\ RaisedMeansUnsent' /\ Underway' /\ Holds'
    BY DEF AtMostOnce, RaisedMeansUnsent, Underway, Holds, LiveTypeOK
<1> QED BY <1>1, <1>2, <1>3

LEMMA NotConnectedInv ==
    ASSUME LiveInv, NEW c \in Callers, NotConnected(c) PROVE LiveInv'
<1> USE DEF LiveInv, NotConnected
<1>1. ~Retryable("not connected")
    BY DEF Retryable
<1>2. /\ pc' = [pc EXCEPT ![c] = "idle"]
      /\ result' = [result EXCEPT ![c] = "raised"]
      /\ UNCHANGED attempt
    BY <1>1 DEF Fails
<1>3. LiveTypeOK'
    BY <1>2 DEF LiveTypeOK
<1>4. RateKept'
    BY DEF RateKept
<1>5. AtMostOnce' /\ RaisedMeansUnsent' /\ Underway' /\ Holds'
    BY <1>2 DEF AtMostOnce, RaisedMeansUnsent, Underway, Holds, LiveTypeOK
<1> QED BY <1>3, <1>4, <1>5

LEMMA PassTestInv ==
    ASSUME LiveInv, NEW c \in Callers, PassTest(c) PROVE LiveInv'
<1> USE DEF LiveInv, PassTest
<1>1. LiveTypeOK'
    BY DEF LiveTypeOK
<1>2. RateKept'
    BY DEF RateKept
<1>3. AtMostOnce' /\ RaisedMeansUnsent' /\ Underway' /\ Holds'
    BY DEF AtMostOnce, RaisedMeansUnsent, Underway, Holds, LiveTypeOK
<1> QED BY <1>1, <1>2, <1>3

LEMMA AcquireInv ==
    ASSUME LiveInv, NEW c \in Callers, Acquire(c) PROVE LiveInv'
<1> DEFINE rs == Recent(ages)
<1>1. rs \in Seq(0..Window) /\ Len(rs) \in Nat /\ Len(rs) <= Cap
    BY RecentKept, AgesAre DEF LiveInv, LiveTypeOK, RateKept, Kept
<1> HIDE DEF rs
<1>2. /\ ages' \in Seq(0..Window)
      /\ Len(ages') <= Cap
      /\ pc'[c] = "limited" => Len(ages') = Cap
    <2>1. CASE AtCap(rs)
        <3>1. ages' = rs /\ Len(rs) >= Cap
            BY <2>1 DEF Acquire, AtCap, rs
        <3> QED BY <3>1, <1>1, LiveParameters
    <2>2. CASE ~AtCap(rs)
        <3>1. /\ ages' = Append(rs, 0) /\ Len(rs) < Cap
              /\ pc' = [pc EXCEPT ![c] = "sending"]
            BY <2>2, <1>1, LiveParameters DEF Acquire, AtCap, rs
        <3>2. 0 \in 0..Window
            BY LiveParameters
        <3>3. Append(rs, 0) \in Seq(0..Window) /\ Len(Append(rs, 0)) = Len(rs) + 1
            BY <3>2, <1>1
        <3>4. pc'[c] = "sending"
            BY <3>1 DEF LiveInv, LiveTypeOK
        <3> QED BY <3>1, <3>3, <3>4, <1>1, LiveParameters
    <2> QED BY <2>1, <2>2
<1>3. /\ pc' \in [Callers -> {"idle", "calling", "waiting", "limited", "sending"}]
      /\ pc'[c] \in {"limited", "sending"}
      /\ \A d \in Callers \ {c} : pc'[d] = pc[d]
      /\ pc[c] = "waiting" /\ lock = Nobody /\ lock' = c
      /\ UNCHANGED <<attempt, reached, result, connected>>
    BY DEF LiveInv, LiveTypeOK, Acquire
<1>4. LiveTypeOK'
    <2>1. Len(ages') <= Cap + 1
        BY <1>2, LiveParameters
    <2> QED BY <2>1, <1>2, <1>3 DEF LiveInv, LiveTypeOK
<1>5. RateKept'
    <2>1. Kept(ages')
        BY <1>2, ShortKept
    <2> QED BY <2>1 DEF Kept, RateKept
<1>6. AtMostOnce' /\ RaisedMeansUnsent' /\ Underway'
    BY <1>3 DEF LiveInv, AtMostOnce, RaisedMeansUnsent, Underway
<1>7. Holds'
    <2>1. \A d \in Callers \ {c} : pc[d] \notin {"limited", "sending"}
        BY <1>3, LiveParameters DEF LiveInv, Holds
    <2> QED BY <2>1, <1>2, <1>3 DEF Holds
<1> QED BY <1>4, <1>5, <1>6, <1>7 DEF LiveInv

LEMMA WakeUpInv ==
    ASSUME LiveInv, NEW c \in Callers, WakeUp(c) PROVE LiveInv'
<1>1. /\ ages \in Seq(0..Window) /\ Len(ages) = Cap
      /\ ages[1] >= Window /\ ages' = Append(ages, 0)
      /\ lock = c /\ pc[c] = "limited"
    BY DEF LiveInv, LiveTypeOK, Holds, WakeUp
<1>2. /\ ages' \in Seq(0..Window) /\ Len(ages') = Cap + 1
      /\ ages'[1] >= Window
    <2>1. 0 \in 0..Window /\ 1 \in 1..Len(ages)
        BY <1>1, LiveParameters
    <2> QED BY <1>1, <2>1, LiveParameters
<1>3. /\ pc' \in [Callers -> {"idle", "calling", "waiting", "limited", "sending"}]
      /\ pc'[c] = "sending"
      /\ \A d \in Callers \ {c} : pc'[d] = pc[d] /\ pc[d] \notin {"limited", "sending"}
      /\ UNCHANGED <<attempt, reached, result, lock, connected>>
    BY <1>1 DEF LiveInv, LiveTypeOK, WakeUp, Holds
<1>4. LiveTypeOK'
    BY <1>2, <1>3 DEF LiveInv, LiveTypeOK
<1>5. RateKept'
    <2>1. \A i \in 1..Len(ages') : i + Cap \in 1..Len(ages') => i = 1
        BY <1>2, LiveParameters
    <2>2. DOMAIN ages' = 1..Len(ages')
        BY <1>2, AgesAre, Zenon
    <2> QED BY <2>1, <2>2, <1>2 DEF RateKept
<1>6. AtMostOnce' /\ RaisedMeansUnsent' /\ Underway'
    BY <1>1, <1>3 DEF LiveInv, AtMostOnce, RaisedMeansUnsent, Underway
<1>7. Holds'
    BY <1>1, <1>3 DEF Holds
<1> QED BY <1>4, <1>5, <1>6, <1>7 DEF LiveInv

LEMMA SendInv ==
    ASSUME LiveInv, NEW c \in Callers, Send(c) PROVE LiveInv'
<1>1. PICK answer \in Answers :
        /\ reached' = IF Reaches(answer) THEN [reached EXCEPT ![c] = @ + 1] ELSE reached
        /\ pc' = [pc EXCEPT ![c] = "idle"]
        /\ result' = [result EXCEPT ![c] = Status(answer)]
    BY DEF Send, Raised
<1>2. /\ pc[c] = "sending" /\ lock = c /\ lock' = Nobody
      /\ UNCHANGED <<attempt, ages, connected>>
    BY DEF Send, Raised, LiveInv, Holds
<1>3. Status(answer) \in {"OPEN", "REJECTED"}
    BY DEF Status
<1>4. /\ pc' \in [Callers -> {"idle", "calling", "waiting", "limited", "sending"}]
      /\ pc'[c] = "idle"
      /\ reached' \in [Callers -> Nat]
      /\ reached'[c] <= 1
      /\ result' \in [Callers -> {"none", "OPEN", "REJECTED", "raised"}]
      /\ result'[c] # "raised"
      /\ \A d \in Callers \ {c} :
            /\ pc'[d] = pc[d] /\ pc[d] \notin {"limited", "sending"}
            /\ reached'[d] = reached[d] /\ result'[d] = result[d]
    <2>1. reached[c] = 0
        BY <1>2 DEF LiveInv, Underway
    <2>2. \A d \in Callers \ {c} : pc[d] \notin {"limited", "sending"}
        BY <1>2 DEF LiveInv, Holds
    <2> QED BY <1>1, <1>3, <2>1, <2>2 DEF LiveInv, LiveTypeOK
<1>5. LiveTypeOK'
    BY <1>2, <1>4 DEF LiveInv, LiveTypeOK
<1>6. RateKept'
    BY <1>2 DEF LiveInv, RateKept
<1>7. AtMostOnce' /\ RaisedMeansUnsent' /\ Underway' /\ Holds'
    BY <1>2, <1>4 DEF LiveInv, AtMostOnce, RaisedMeansUnsent, Underway, Holds
<1> QED BY <1>5, <1>6, <1>7 DEF LiveInv

LEMMA DisconnectInv == ASSUME LiveInv, Disconnect PROVE LiveInv'
BY DEF LiveInv, Disconnect, LiveTypeOK, AtMostOnce, RaisedMeansUnsent,
       RateKept, Underway, Holds

LEMMA TickInv == ASSUME LiveInv, Tick PROVE LiveInv'
<1>1. /\ ages \in Seq(0..Window)
      /\ ages' = [i \in 1..Len(ages) |->
                     IF ages[i] < Window THEN ages[i] + 1 ELSE Window]
      /\ UNCHANGED <<pc, attempt, reached, result, lock, connected>>
    BY DEF LiveInv, LiveTypeOK, Tick
<1>2. /\ ages' \in Seq(0..Window) /\ Len(ages') = Len(ages)
      /\ \A i \in 1..Len(ages) : ages[i] >= Window => ages'[i] >= Window
    <2>1. \A i \in 1..Len(ages) : ages[i] \in 0..Window
        BY <1>1, AgesAre, Zenon
    <2>2. \A i \in 1..Len(ages) :
            (IF ages[i] < Window THEN ages[i] + 1 ELSE Window) \in 0..Window
        BY <2>1, LiveParameters
    <2>3. Len(ages) \in Nat
        BY <1>1, AgesAre, Zenon
    <2>4. \A i \in 1..Len(ages) : ages[i] >= Window => ages'[i] >= Window
        BY <1>1, <2>1, LiveParameters
    <2>5. ages' \in [1..Len(ages) -> 0..Window]
        BY <1>1, <2>2
    <2> QED BY <2>3, <2>4, <2>5, TableIsSequence, Zenon
<1>3. LiveTypeOK'
    BY <1>1, <1>2 DEF LiveInv, LiveTypeOK
<1>4. RateKept'
    BY <1>1, <1>2 DEF LiveInv, RateKept
<1>5. AtMostOnce' /\ RaisedMeansUnsent' /\ Underway' /\ Holds'
    BY <1>1, <1>2 DEF LiveInv, AtMostOnce, RaisedMeansUnsent, Underway, Holds
<1> QED BY <1>3, <1>4, <1>5 DEF LiveInv

\* Every step keeps the invariant.
LEMMA NextInv == LiveInv /\ [Next]_vars => LiveInv'
<1> SUFFICES ASSUME LiveInv, [Next]_vars PROVE LiveInv'
    OBVIOUS
<1>1. ASSUME NEW c \in Callers, Call(c) \/ Place(c) PROVE LiveInv'
    BY <1>1, CallInv, NotConnectedInv, PassTestInv, AcquireInv, WakeUpInv, SendInv
       DEF Place
<1>2. CASE UNCHANGED vars
    BY <1>2 DEF vars, LiveInv, LiveTypeOK, AtMostOnce, RaisedMeansUnsent,
                RateKept, Underway, Holds
<1> QED BY <1>1, <1>2, DisconnectInv, TickInv DEF Next

LEMMA LiveInvariant == LiveSpec => []LiveInv
BY InitInv, NextInv, PTL DEF LiveSpec

-----------------------------------------------------------------------------
\* The types hold, a call stops at its last attempt and the rate limit's list
\* keeps at most Cap + 1 placements, however long the bot trades.
THEOREM LiveTypeCorrect == LiveSpec => []LiveTypeOK
<1>1. LiveInv => LiveTypeOK
    BY DEF LiveInv
<1> QED BY <1>1, LiveInvariant, PTL

\* However many attempts the executor has and whatever answers are lost, one
\* call of place_order puts at most one order on the exchange.
THEOREM PlacedAtMostOnce == LiveSpec => []AtMostOnce
<1>1. LiveInv => AtMostOnce
    BY DEF LiveInv
<1> QED BY <1>1, LiveInvariant, PTL

\* A call that raised has put nothing on the exchange.
THEOREM RaisedIsSafe == LiveSpec => []RaisedMeansUnsent
<1>1. LiveInv => RaisedMeansUnsent
    BY DEF LiveInv
<1> QED BY <1>1, LiveInvariant, PTL

\* No window holds more than Cap placements, from any number of threads.
THEOREM RateLimited == LiveSpec => []RateKept
<1>1. LiveInv => RateKept
    BY DEF LiveInv
<1> QED BY <1>1, LiveInvariant, PTL

-----------------------------------------------------------------------------
(* The calls are single steps to their callers.                            *)

InCall(c) == pc[c] # "idle"

\* The mapped state of one caller changes as its own state does.
LEMMA MappedTo ==
    ASSUME LiveTypeOK, NEW c \in Callers, NEW state,
           NEW flag \in BOOLEAN, flag <=> state # "idle", pc' = [pc EXCEPT ![c] = state]
    PROVE  [d \in Callers |-> InCall(d)]'
             = [[d \in Callers |-> InCall(d)] EXCEPT ![c] = flag]
BY DEF LiveTypeOK, InCall

\* Inside a call nothing shows.
LEMMA Unseen ==
    ASSUME LiveTypeOK, UNCHANGED << reached, result, connected >>,
           \A c \in Callers : InCall(c)' = InCall(c)
    PROVE  UNCHANGED Calls!view
BY DEF LiveTypeOK, InCall, Calls!view

LEMMA StepCalls ==
    ASSUME LiveInv, [Next]_vars
    PROVE  [Calls!Next]_(Calls!view)
<1>0. LiveTypeOK
    BY DEF LiveInv
<1>1. ASSUME NEW c \in Callers, Call(c) PROVE Calls!Begin(c)
    <2>1. /\ pc[c] = "idle" /\ pc' = [pc EXCEPT ![c] = "calling"]
          /\ reached' = [reached EXCEPT ![c] = 0]
          /\ result' = [result EXCEPT ![c] = "none"]
          /\ UNCHANGED connected
        BY <1>1 DEF Call
    <2>2. [d \in Callers |-> InCall(d)]' = [[d \in Callers |-> InCall(d)] EXCEPT ![c] = TRUE]
        <3>1. TRUE \in BOOLEAN /\ (TRUE <=> "calling" # "idle")
            OBVIOUS
        <3> QED BY <1>0, <2>1, <3>1, MappedTo
    <2> QED BY <2>1, <2>2 DEF Calls!Begin, InCall
<1>2. ASSUME NEW c \in Callers, NotConnected(c) PROVE Calls!Raise(c)
    <2>1. ~Retryable("not connected")
        BY DEF Retryable
    <2>2. /\ pc' = [pc EXCEPT ![c] = "idle"] /\ result' = [result EXCEPT ![c] = "raised"]
          /\ ~connected /\ pc[c] = "calling" /\ UNCHANGED << reached, connected >>
        BY <1>2, <2>1 DEF NotConnected, Fails
    <2> QED BY <1>0, <2>2, MappedTo DEF Calls!Raise, InCall
<1>3. ASSUME NEW c \in Callers, PassTest(c) \/ Acquire(c) \/ WakeUp(c)
      PROVE  UNCHANGED Calls!view
    <2>1. /\ pc[c] # "idle" /\ UNCHANGED << reached, result, connected >>
          /\ \E state \in {"waiting", "limited", "sending"} : pc' = [pc EXCEPT ![c] = state]
        BY <1>3 DEF PassTest, Acquire, WakeUp
    <2>2. \A d \in Callers : InCall(d)' = InCall(d)
        BY <1>0, <2>1 DEF LiveTypeOK, InCall
    <2> QED BY <1>0, <2>1, <2>2, Unseen
<1>4. ASSUME NEW c \in Callers, Send(c) PROVE Calls!Answer(c)
    <2>1. PICK answer \in Answers :
            /\ reached' = IF Reaches(answer) THEN [reached EXCEPT ![c] = @ + 1] ELSE reached
            /\ pc' = [pc EXCEPT ![c] = "idle"]
            /\ result' = [result EXCEPT ![c] = Status(answer)]
        BY <1>4 DEF Send, Raised
    <2>2. pc[c] = "sending" /\ reached[c] = 0 /\ UNCHANGED connected
        BY <1>4 DEF Send, LiveInv, Underway
    <2>3. Status(answer) \in {"OPEN", "REJECTED"}
        BY DEF Status
    <2>4. \E n \in {0, 1} : reached' = [reached EXCEPT ![c] = n]
        <3>1. CASE Reaches(answer)
            <4>1. reached' = [reached EXCEPT ![c] = reached[c] + 1]
                BY <2>1, <3>1
            <4> QED BY <2>2, <4>1
        <3>2. CASE ~Reaches(answer)
            <4>1. reached' = [reached EXCEPT ![c] = 0]
                BY <1>0, <2>1, <2>2, <3>2 DEF LiveTypeOK
            <4> QED BY <4>1
        <3> QED BY <3>1, <3>2
    <2> QED BY <1>0, <2>1, <2>2, <2>3, <2>4, MappedTo DEF Calls!Answer, InCall
<1>5. CASE Disconnect
    <2>1. /\ connected' = FALSE /\ UNCHANGED << pc, reached, result >>
        BY <1>5 DEF Disconnect
    <2> QED BY <2>1 DEF Calls!Disconnect, Calls!Next
<1>6. CASE Tick \/ UNCHANGED vars
    <2>1. UNCHANGED << pc, reached, result, connected >>
        BY <1>6 DEF Tick, vars
    <2> QED BY <2>1 DEF Calls!view
<1> QED BY <1>1, <1>2, <1>3, <1>4, <1>5, <1>6 DEF Next, Place, Calls!Next

\* To its caller each call is one step, that puts one order on the exchange or
\* none, whatever the attempts, the other threads and the rate limit do in
\* between (ResilientExecutor.place_order, NeoClient.place_order).
THEOREM CallsAreAtomic == LiveSpec => CallsAreOneStep
<1>1. LiveInit => Calls!Init
    BY DEF LiveInit, Calls!Init
<1>2. LiveInv /\ [Next]_vars => [Calls!Next]_(Calls!view)
    BY StepCalls
<1> QED BY <1>1, <1>2, LiveInvariant, PTL DEF LiveSpec, CallsAreOneStep, Calls!Spec
=============================================================================
