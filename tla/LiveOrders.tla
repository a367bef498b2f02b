----------------------------- MODULE LiveOrders ----------------------------
(***************************************************************************)
(* How an order reaches the exchange when the bot trades live: the retry   *)
(* of the resilient executor around NeoClient.place_order, which holds the *)
(* client's lock while it waits for the rate limit and for the answer.     *)
(* Several threads call it.  Answers are lost; the client disconnects when *)
(* the bot shuts down.                                                     *)
(*                                                                         *)
(* Time is the age of the recorded placements, in steps up to Window: what *)
(* is older makes no difference to the code.                               *)
(***************************************************************************)
EXTENDS Naturals, Sequences

CONSTANTS
    Callers,      \* threads that place orders
    Nobody,       \* not a caller
    Cap,          \* orders a second: 10
    Window,       \* a second, in steps
    Attempts      \* retry_max_attempts

ASSUME LiveParameters ==
    /\ Nobody \notin Callers
    /\ Cap \in Nat \ {0}
    /\ Window \in Nat \ {0}
    /\ Attempts \in Nat \ {0}

VARIABLES
    pc,           \* where each caller is: idle, calling, waiting, limited, sending
    attempt,      \* i, the attempt of the caller's current call
    reached,      \* orders the current or last call put on the exchange
    result,       \* what the last call gave: a status of the order, "raised"
    lock,         \* holder of _lock
    ages,         \* _order_times, oldest first, as ages
    connected     \* _connected

vars == <<pc, attempt, reached, result, lock, ages, connected>>

LiveInit ==
    /\ pc = [c \in Callers |-> "idle"]
    /\ attempt = [c \in Callers |-> 0]
    /\ reached = [c \in Callers |-> 0]
    /\ result = [c \in Callers |-> "none"]
    /\ lock = Nobody
    /\ ages = <<>>
    /\ connected = TRUE

-----------------------------------------------------------------------------
(* What the exchange's SDK does with a request: it accepts the order and   *)
(* names it, returns an error document without a number, or raises, with   *)
(* the order in (the answer is lost) or not.                               *)

Answers == {"accepted", "no_number", "lost", "failed"}

Reaches(answer) == answer \in {"accepted", "lost"}

\* The order is OPEN whenever a document came back, REJECTED when it did not.
Status(answer) == IF answer \in {"accepted", "no_number"} THEN "OPEN" ELSE "REJECTED"

\* (mutation) place_order passes the exception on, as cancel_order does
RaisedOn(answer) == IF answer \in {"lost", "failed"} THEN "timeout" ELSE "none"

\* place_order catches whatever the SDK raises.
Raised(answer) == "none"

\* _is_retryable_error.
Retryable(error) == error \in {"timeout", "network", "rate limit", "5xx", "session expired"}

-----------------------------------------------------------------------------
(* The rate limit.                                                         *)

\* The placements of the last second: times only grow, so the older ones
\* are a prefix.
FirstRecent(ts) ==
    CHOOSE k \in 1..(Len(ts) + 1) :
        /\ \A i \in 1..(k - 1) : ts[i] >= Window
        /\ k <= Len(ts) => ts[k] < Window

\* (mutation) the old placements stay in the list
Recorded(ts) == ts

Recent(ts) == SubSeq(ts, FirstRecent(ts), Len(ts))

\* (mutation) one order too many
AtCapLate(ts) == Len(ts) > Cap

AtCap(ts) == Len(ts) >= Cap

-----------------------------------------------------------------------------
Call(c) ==
    /\ pc[c] = "idle"
    /\ pc' = [pc EXCEPT ![c] = "calling"]
    /\ attempt' = [attempt EXCEPT ![c] = 1]
    /\ reached' = [reached EXCEPT ![c] = 0]
    /\ result' = [result EXCEPT ![c] = "none"]
    /\ UNCHANGED <<lock, ages, connected>>

\* (mutation) every error is retried, without a count
FailsAgain(c, error) ==
    /\ pc' = [pc EXCEPT ![c] = "calling"]
    /\ UNCHANGED <<attempt, result>>

\* The executor meets an exception: another attempt, or up to the caller.
Fails(c, error) ==
    IF Retryable(error) /\ attempt[c] < Attempts
    THEN /\ pc' = [pc EXCEPT ![c] = "calling"]
         /\ attempt' = [attempt EXCEPT ![c] = @ + 1]
         /\ UNCHANGED result
    ELSE /\ pc' = [pc EXCEPT ![c] = "idle"]
         /\ result' = [result EXCEPT ![c] = "raised"]
         /\ UNCHANGED attempt

\* place_order tests the connection before it takes the lock.
NotConnected(c) ==
    /\ pc[c] = "calling"
    /\ ~connected
    /\ Fails(c, "not connected")
    /\ UNCHANGED <<reached, lock, ages, connected>>

PassTest(c) ==
    /\ pc[c] = "calling"
    /\ connected
    /\ pc' = [pc EXCEPT ![c] = "waiting"]
    /\ UNCHANGED <<attempt, reached, result, lock, ages, connected>>

\* _rate_limit_check: the placement is recorded, at once or after a sleep
\* until the oldest of the last second is a second old.
Acquire(c) ==
    /\ pc[c] = "waiting"
    /\ lock = Nobody
    /\ lock' = c
    /\ IF AtCap(Recent(ages))
       THEN /\ pc' = [pc EXCEPT ![c] = "limited"]
            /\ ages' = Recent(ages)
       ELSE /\ pc' = [pc EXCEPT ![c] = "sending"]
            /\ ages' = Append(Recent(ages), 0)
    /\ UNCHANGED <<attempt, reached, result, connected>>

WakeUp(c) ==
    /\ pc[c] = "limited"
    /\ ages[1] >= Window
    /\ pc' = [pc EXCEPT ![c] = "sending"]
    /\ ages' = Append(ages, 0)
    /\ UNCHANGED <<attempt, reached, result, lock, connected>>

\* The request to the exchange and what is made of the answer.
Send(c) ==
    /\ pc[c] = "sending"
    /\ \E answer \in Answers :
         /\ reached' = IF Reaches(answer) THEN [reached EXCEPT ![c] = @ + 1] ELSE reached
         /\ IF Raised(answer) # "none"
            THEN Fails(c, Raised(answer))
            ELSE /\ pc' = [pc EXCEPT ![c] = "idle"]
                 /\ result' = [result EXCEPT ![c] = Status(answer)]
                 /\ UNCHANGED attempt
    /\ lock' = Nobody
    /\ UNCHANGED <<ages, connected>>

\* disconnect, at the end of the program, while other threads still run.
Disconnect ==
    /\ connected
    /\ lock = Nobody
    /\ connected' = FALSE
    /\ UNCHANGED <<pc, attempt, reached, result, lock, ages>>

Tick ==
    /\ \E i \in DOMAIN ages : ages[i] < Window
    /\ ages' = [i \in DOMAIN ages |-> IF ages[i] < Window THEN ages[i] + 1 ELSE Window]
    /\ UNCHANGED <<pc, attempt, reached, result, lock, connected>>

Place(c) ==
    \/ NotConnected(c) \/ PassTest(c) \/ Acquire(c) \/ WakeUp(c) \/ Send(c)

Next ==
    \/ \E c \in Callers : Call(c) \/ Place(c)
    \/ Disconnect
    \/ Tick

LiveSpec == LiveInit /\ [][Next]_vars

\* Time passes, the exchange answers or the SDK gives up, and a thread that
\* waits for the lock gets it when it is free often enough.
FairLiveSpec ==
    /\ LiveSpec
    /\ WF_vars(Tick)
    /\ \A c \in Callers : SF_vars(Place(c))

-----------------------------------------------------------------------------
(* Properties.                                                             *)

\* The state has its types, a call stops at the last attempt, and the list
\* of placements does not grow with the day.
LiveTypeOK ==
    /\ pc \in [Callers -> {"idle", "calling", "waiting", "limited", "sending"}]
    /\ attempt \in [Callers -> 0..Attempts]
    /\ reached \in [Callers -> Nat]
    /\ result \in [Callers -> {"none", "OPEN", "REJECTED", "raised"}]
    /\ lock \in Callers \cup {Nobody}
    /\ ages \in Seq(0..Window)
    /\ Len(ages) <= Cap + 1
    /\ connected \in BOOLEAN

\* One call of the executor puts at most one order on the exchange: it
\* retries on errors that do not tell whether the order is in (a timeout),
\* and is safe only because NeoClient never lets one through.
AtMostOnce == \A c \in Callers : reached[c] <= 1

\* A caller that sees an exception may place its order again: nothing of
\* the call is on the exchange.  (Of an order returned as REJECTED that
\* cannot be said, nor of one returned as OPEN that it is there.)
RaisedMeansUnsent ==
    \A c \in Callers : result[c] = "raised" => reached[c] = 0

\* No second holds more than Cap placements: of any Cap + 1 recorded ones in
\* a row the first is a second old.
RateKept ==
    \A i \in DOMAIN ages : i + Cap \in DOMAIN ages => ages[i] >= Window

\* Every call comes back, to a caller that sleeps in the rate limit or waits
\* behind one who does.
CallsReturn == \A c \in Callers : pc[c] # "idle" ~> pc[c] = "idle"

\* To its caller a call is one step after it has begun, with the outcomes of
\* module OrderCalls: attempts, the wait for the lock, the sleep in the rate
\* limit and the calls of other threads do not show.
Calls == INSTANCE OrderCalls WITH calling <- [c \in Callers |-> pc[c] # "idle"]
CallsAreOneStep == Calls!Spec
=============================================================================
