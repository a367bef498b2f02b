----------------------------- MODULE BotOrders -----------------------------
(***************************************************************************)
(* The trade book of the stand-alone bot (OrderManager) over the paper     *)
(* broker, driven by the two threads that call it, the main loop and the   *)
(* Telegram handler, through a trading day, its square-off and the hard    *)
(* kill, with crashes and restarts.                                        *)
(*                                                                         *)
(* A thread's job is the list of what it still has to do.  The broker is   *)
(* locked call by call and the trade book not at all, so the threads       *)
(* interleave between any two broker calls.                                *)
(***************************************************************************)
EXTENDS PaperBroker, SequencesExt

CONSTANTS
    Plans,        \* entries: sequences of [symbol, side, kind]
    MaxLegs,      \* bound of the model on the legs entered in a day
    MaxCrashes    \* bound of the model on the crashes of a day

VARIABLES
    trades,       \* _trades, in the order they were opened
    tracked,      \* _symbol_to_trade
    file,         \* trades_state.json: [trades, tracked] of the last save
    job,          \* what each thread still has to do
    phase,        \* "trading" before square_off_time; then, up to the market's
                  \* close, "closing", or "held" while the flag of the AI keeps
                  \* the forced square-off and the hard kill away; then "over"
    expiring,     \* the contracts that expire today
    entries, crashes

bookVars == <<trades, tracked, file>>
dayVars == <<phase, expiring>>
vars == <<orders, position, quoted, trades, tracked, file, job, phase,
          expiring, entries, crashes>>

Threads == {"loop", "telegram"}

-----------------------------------------------------------------------------
(* Trades.                                                                 *)

\* A leg is the broker's own Order object ("LIVE": its status is the
\* broker's) or an object of its own with a status that never changes again.
Leg(order, symbol, side, qty, closing, status) ==
    [order |-> order, symbol |-> symbol, side |-> side, qty |-> qty,
     closing |-> closing, status |-> status]

StatusOf(leg) == IF leg.status = "LIVE" THEN orders[leg.order].status
                                        ELSE leg.status

Trade(legs, orphan) == [legs |-> legs, closed |-> FALSE, orphan |-> orphan]

\* _save_state and _load_state: what comes back has legs of its own, with
\* the statuses of the moment it was saved.
Saved(ts, map) ==
    [trades |-> [t \in DOMAIN ts |->
        [ts[t] EXCEPT !.legs = [i \in DOMAIN @ |->
            [@[i] EXCEPT !.status = StatusOf(ts[t].legs[i])]]]],
     tracked |-> map]

\* A symbol that is tracked already keeps its trade.
Tracking(map, symbols, t) ==
    [s \in DOMAIN map \cup symbols |-> IF s \in DOMAIN map THEN map[s] ELSE t]

\* (mutation) the symbols of a closed trade stay tracked
UntrackingNone(map, t) == map

Untracking(map, t) == [s \in {x \in DOMAIN map : map[x] # t} |-> map[s]]

\* (mutation) open_trades keeps the closed ones
AllTrades == DOMAIN trades

\* open_trades.
OpenTrades == {t \in DOMAIN trades : ~trades[t].closed}

-----------------------------------------------------------------------------
(* Jobs.                                                                   *)

ForceSquare == [op |-> "force_square"]
Sweep       == [op |-> "sweep"]
HardKill    == [op |-> "hard_kill"]
Orphans     == [op |-> "orphans"]
Flatten(s) == [op |-> "flatten", symbol |-> s]
Close(t, recheck) == [op |-> "close", trade |-> t, at |-> 1, recheck |-> recheck]
Open(by, plan) == [op |-> "open", by |-> by, plan |-> plan, placed |-> <<>>]

\* One task for each element of S.
Each(S, Job(_)) == [k \in 1..Cardinality(S) |-> Job(SetToSeq(S)[k])]

Doing(th, op) == job[th] # <<>> /\ Head(job[th]).op = op
Task(th) == Head(job[th])

\* The task at hand is replaced by these, or done with.
Becomes(th, tasks) == job' = [job EXCEPT ![th] = tasks \o Tail(@)]
Done(th) == Becomes(th, <<>>)

BotInit ==
    /\ BrokerInit
    /\ trades = <<>>
    /\ tracked = [s \in {} |-> 0]
    /\ file = [trades |-> <<>>, tracked |-> [s \in {} |-> 0]]
    /\ job = [th \in Threads |-> <<>>]
    /\ phase = "trading"
    /\ expiring \in SUBSET Symbols
    /\ entries = 0
    /\ crashes = 0

-----------------------------------------------------------------------------
(* Entries.                                                                *)

\* execute_plan, the OPEN action of the brain and the system-enforced one,
\* whose orders are all MARKET orders, place one leg after another.
PlaceLeg(th) ==
    /\ Doing(th, "open")
    /\ Task(th).plan # <<>>
    /\ LET task == Task(th)
           leg == Head(task.plan)
           kind == IF task.by = "enforced" THEN "MARKET" ELSE leg.kind
       IN  /\ PlaceOrder(Order(leg.symbol, leg.side, 1, kind, 0))
           /\ Becomes(th, <<[task EXCEPT !.plan = Tail(@), !.placed = Append(@,
                  Leg(Len(orders) + 1, leg.symbol, leg.side, 1, FALSE, "LIVE"))]>>)
    /\ UNCHANGED <<bookVars, dayVars, entries, crashes>>

\* A leg is refused before the broker sees it, for a missing field, its cost
\* or a strike far from the spot; execute_plan keeps it in the trade.
RefuseLeg(th) ==
    /\ Doing(th, "open")
    /\ Task(th).plan # <<>>
    /\ LET task == Task(th)
           leg == Head(task.plan)
           refused == Leg(0, leg.symbol, leg.side, 1, FALSE, "REJECTED")
       IN  Becomes(th, <<[task EXCEPT !.plan = Tail(@),
               !.placed = IF task.by = "execute_plan" THEN Append(@, refused) ELSE @]>>)
    /\ UNCHANGED <<brokerVars, bookVars, dayVars, entries, crashes>>

\* The trade enters the book and is saved.
Register(legs) ==
    LET symbols == {legs[i].symbol : i \in DOMAIN legs}
    IN  /\ trades' = Append(trades, Trade(legs, FALSE))
        /\ tracked' = Tracking(tracked, symbols, Len(trades) + 1)
        /\ file' = Saved(trades', tracked')

\* The brain's legs are registered as new Order objects, which nobody
\* completes; an entry of which no leg was placed, or one in a symbol that is
\* tracked, is not registered, and a system-enforced entry never is.
Brains(legs) == [i \in DOMAIN legs |-> [legs[i] EXCEPT !.status = "PENDING"]]

RegisterTrade(th) ==
    /\ Doing(th, "open")
    /\ LET task == Task(th)
           legs == task.placed
       IN  /\ task.plan = <<>>
           /\ CASE task.by = "execute_plan" -> Register(legs)
                [] \/ task.by = "enforced"
                   \/ legs = <<>>
                   \/ \E i \in DOMAIN legs : legs[i].symbol \in DOMAIN tracked ->
                       UNCHANGED bookVars
                [] OTHER -> Register(Brains(legs))
    /\ Done(th)
    /\ UNCHANGED <<brokerVars, dayVars, entries, crashes>>

-----------------------------------------------------------------------------
(* Closing.                                                                *)

Closable(t, i) ==
    /\ StatusOf(trades[t].legs[i]) = "COMPLETE"
    /\ ~trades[t].legs[i].closing

\* Legs of the trade close_trade has still to close.
Remaining(t, at) == {i \in DOMAIN trades[t].legs : i >= at /\ Closable(t, i)}

\* square_off_all looks again at each trade before it closes it.
Overtaken(task) == task.recheck /\ trades[task.trade].closed

CloseSkipped(th) ==
    /\ Doing(th, "close")
    /\ Overtaken(Task(th))
    /\ Done(th)
    /\ UNCHANGED <<brokerVars, bookVars, dayVars, entries, crashes>>

\* close_trade: one MARKET order per leg, added to the trade.
CloseLeg(th) ==
    /\ Doing(th, "close")
    /\ ~Overtaken(Task(th))
    /\ Remaining(Task(th).trade, Task(th).at) # {}
    /\ LET task == Task(th)
           i == Min(Remaining(task.trade, task.at))
           leg == trades[task.trade].legs[i]
       IN  /\ PlaceOrder(Order(leg.symbol, -leg.side, leg.qty, "MARKET", leg.order))
           /\ trades' = [trades EXCEPT ![task.trade].legs = Append(@,
                  Leg(Len(orders) + 1, leg.symbol, -leg.side, leg.qty, TRUE, "LIVE"))]
           /\ Becomes(th, <<[task EXCEPT !.at = i + 1, !.recheck = FALSE]>>)
    /\ UNCHANGED <<tracked, file, dayVars, entries, crashes>>

\* close_trade, its end: whatever became of the orders, the trade is closed,
\* its symbols are dropped and the book is saved.
CloseDone(th) ==
    /\ Doing(th, "close")
    /\ ~Overtaken(Task(th))
    /\ Remaining(Task(th).trade, Task(th).at) = {}
    /\ LET t == Task(th).trade
       IN  /\ trades' = [trades EXCEPT ![t].closed = TRUE]
           /\ tracked' = Untracking(tracked, t)
           /\ file' = Saved(trades', tracked')
    /\ Done(th)
    /\ UNCHANGED <<brokerVars, dayVars, entries, crashes>>

\* square_off_all reads the list of trades and closes them one by one.
SquareOffAll == Each(OpenTrades, LAMBDA t : Close(t, TRUE))

\* The forced square-off closes whatever trades are open by then, and sweeps the
\* positions if the core answers its close_all.
SquareOffForced(th) ==
    /\ Doing(th, "force_square")
    /\ \E answered \in BOOLEAN :
         Becomes(th, SquareOffAll \o (IF answered THEN <<Sweep>> ELSE <<>>))
    /\ UNCHANGED <<brokerVars, bookVars, dayVars, entries, crashes>>

\* The sweeps go through the broker's positions, whoever opened them.
SweepPositions(th) ==
    /\ Doing(th, "sweep")
    /\ Becomes(th, Each(Held, Flatten))
    /\ UNCHANGED <<brokerVars, bookVars, dayVars, entries, crashes>>

FlattenPosition(th) ==
    /\ Doing(th, "flatten")
    /\ LET s == Task(th).symbol
           qty == position[s]
       IN  IF qty = 0
           THEN UNCHANGED brokerVars
           ELSE PlaceOrder(IF qty > 0 THEN Order(s, Sell, qty, "MARKET", 0)
                                      ELSE Order(s, Buy, -qty, "MARKET", 0))
    /\ Done(th)
    /\ UNCHANGED <<bookVars, dayVars, entries, crashes>>

\* (mutation) the hard kill looks at the trade book only
KillTrades == Each(OpenTrades, LAMBDA t : Close(t, FALSE))

\* The hard kill closes the trades it finds open, without a second look,
\* and sweeps the positions when it finds none.
KillTasks == IF OpenTrades # {}
             THEN Each(OpenTrades, LAMBDA t : Close(t, FALSE))
             ELSE <<Sweep>>

Kill(th) ==
    /\ Doing(th, "hard_kill")
    /\ Becomes(th, KillTasks)
    /\ UNCHANGED <<brokerVars, bookVars, dayVars, entries, crashes>>

\* The symbols that the open trades of a book account for: those of the legs
\* that have a fill price of their own, which the brain's never get.
Covered(ts) ==
    UNION {{ts[t].legs[i].symbol :
               i \in {j \in DOMAIN ts[t].legs : StatusOf(ts[t].legs[j]) = "COMPLETE"}} :
           t \in {u \in DOMAIN ts : ~ts[u].closed}}

Uncovered == Held \ Covered(trades)

\* The orphan check, which leaves those worth too much cash to the sweeps.
CloseOrphans(th) ==
    /\ Doing(th, "orphans")
    /\ \E small \in SUBSET Uncovered : Becomes(th, Each(small, Flatten))
    /\ UNCHANGED <<brokerVars, bookVars, dayVars, entries, crashes>>

-----------------------------------------------------------------------------
(* What the threads take up.                                               *)

Take(th, tasks) ==
    /\ job[th] = <<>>
    /\ job' = [job EXCEPT ![th] = tasks]
    /\ UNCHANGED <<brokerVars, bookVars, dayVars, crashes>>

Enters(th, by) ==
    \E plan \in Plans :
        /\ entries + Len(plan) <= MaxLegs
        /\ Take(th, <<Open(by, plan)>>)
        /\ entries' = entries + Len(plan)

\* An OPEN action of the brain.  It is refused in the last quarters of the hours
\* from 15:15 on, which a clock past the market's close leaves again.
BrainOpens == phase \notin {"closing", "held"} /\ Enters("loop", "brain")

\* An entry of system_enforced_action.json, at any hour.
EnforcedOpens == Enters("loop", "enforced")

\* _force_trade, while the market is open.
ForceTrade == phase # "over" /\ Enters("telegram", "execute_plan")

\* _force_close.
ForceClose ==
    /\ OpenTrades # {}
    /\ Take("telegram", SquareOffAll)
    /\ UNCHANGED entries

\* A CLOSE of the brain, and CLOSE_UNDERLYING of mavis_force_action.json:
\* whatever they name, all trades are closed.
BrainCloses ==
    /\ OpenTrades # {}
    /\ Take("loop", SquareOffAll)
    /\ UNCHANGED entries

\* Take profit, stop loss and smart exit, which close trades of a list read
\* before.
AutoClose ==
    /\ \E t \in OpenTrades : Take("loop", <<Close(t, FALSE)>>)
    /\ UNCHANGED entries

\* CLOSE_ALL of mavis_force_action.json.
MavisCloseAll ==
    /\ OpenTrades # {} \/ ~Flat
    /\ Take("loop", Append(SquareOffAll, Sweep))
    /\ UNCHANGED entries

\* The orphan check closes from no_new_trades_after on, while the market is open.
OrphanCheck ==
    /\ phase # "over"
    /\ Uncovered # {}
    /\ Take("loop", <<Orphans>>)
    /\ UNCHANGED entries

\* A pass of the loop from square_off_time on: square off; past the force_square_
\* off_time within it, and unless the AI's flag holds it back, square off by force;
\* and the hard kill, from 15:15 to 15:30.  (The drawdown check in between asks for
\* broker.get_paper_state, which no broker has, and never ends the pass.)
ClosingPass ==
    /\ phase # "trading"
    /\ OpenTrades # {} \/ ~Flat
    /\ \E late \in BOOLEAN :
         Take("loop",
              SquareOffAll \o (IF late /\ phase # "held" THEN <<ForceSquare>> ELSE <<>>)
                           \o (IF phase = "closing" THEN <<HardKill>> ELSE <<>>))
    /\ UNCHANGED entries

\* The clock, and the AI's flag, which is written and runs out at any time.
DayMoves ==
    /\ phase' \in (CASE phase = "trading" -> {"closing", "held"}
                     [] phase = "closing" -> {"held", "over"}
                     [] phase = "held"    -> {"closing", "over"}
                     [] OTHER             -> {})
    /\ UNCHANGED <<brokerVars, bookVars, job, expiring, entries, crashes>>

Ticks(s) == UNCHANGED <<bookVars, job, dayVars, entries, crashes>> /\ Tick(s)

-----------------------------------------------------------------------------
(* Crash and restart.                                                      *)

\* (mutation) the symbols are not read back
LoadedTrades == [file EXCEPT !.tracked = [s \in {} |-> 0]]

\* What _load_state brings back of the book.
Loaded == file

\* (mutation) short positions are not adopted
Long(map) == {s \in Symbols : position[s] > 0} \ DOMAIN map

\* register_orphan_positions: the positions whose symbol is not tracked, and
\* the trade that each of them becomes.
Untracked(map) == Held \ DOMAIN map

\* _is_phantom_0dte: a position in a contract that expires today and that no open
\* trade accounts for is left out if no price was saved with it, and after the
\* market's close whatever its price.
Phantoms(ts) ==
    LET doubtful == (Held \cap expiring) \ Covered(ts)
    IN  IF phase = "over" THEN {doubtful} ELSE SUBSET doubtful

Adopted(s) ==
    Trade(<<IF position[s] > 0 THEN Leg(0, s, Buy, position[s], FALSE, "COMPLETE")
                               ELSE Leg(0, s, Sell, -position[s], FALSE, "COMPLETE")>>,
          TRUE)

Restart ==
    /\ crashes < MaxCrashes
    /\ crashes' = crashes + 1
    /\ Reload
    /\ \E phantoms \in Phantoms(Loaded.trades) :
         LET adopted == Untracked(Loaded.tracked) \ phantoms
             found == SetToSeq(adopted)
         IN  /\ trades' = Loaded.trades \o Each(adopted, Adopted)
             /\ tracked' = [s \in DOMAIN Loaded.tracked \cup adopted |->
                    IF s \in DOMAIN Loaded.tracked
                    THEN Loaded.tracked[s]
                    ELSE Len(Loaded.trades) + (CHOOSE k \in DOMAIN found : found[k] = s)]
             /\ file' = [trades |-> trades', tracked |-> tracked']
    /\ job' = [th \in Threads |-> <<>>]
    /\ UNCHANGED <<dayVars, entries>>

-----------------------------------------------------------------------------
Works(th) ==
    \/ PlaceLeg(th) \/ RefuseLeg(th) \/ RegisterTrade(th)
    \/ CloseSkipped(th) \/ CloseLeg(th) \/ CloseDone(th)
    \/ SquareOffForced(th) \/ SweepPositions(th) \/ FlattenPosition(th)
    \/ Kill(th) \/ CloseOrphans(th)

TakesUp ==
    \/ BrainOpens \/ EnforcedOpens \/ ForceTrade
    \/ BrainCloses \/ ForceClose \/ AutoClose \/ MavisCloseAll
    \/ OrphanCheck \/ ClosingPass

Next ==
    \/ \E th \in Threads : Works(th)
    \/ TakesUp
    \/ DayMoves
    \/ \E s \in Symbols : Ticks(s)
    \/ Restart

BotSpec == BotInit /\ [][Next]_vars

\* The threads run, and the loop, whatever else its passes do, comes by the hard
\* kill in every one of them.
FairBotSpec ==
    /\ BotSpec
    /\ \A th \in Threads : WF_vars(Works(th))
    /\ SF_vars(phase = "closing" /\ ClosingPass)

-----------------------------------------------------------------------------
(* Properties.                                                             *)

\* A symbol is tracked for a trade that is open and has a leg in it, in
\* memory and on file: a stale entry would keep a position from ever being
\* adopted (register_orphan_positions) and an entry of the brain from ever
\* being registered.
TracksOpenTrades(ts, map) ==
    \A s \in DOMAIN map :
        /\ map[s] \in DOMAIN ts
        /\ ~ts[map[s]].closed
        /\ \E i \in DOMAIN ts[map[s]].legs : ts[map[s]].legs[i].symbol = s

MapsToOpenTrades ==
    /\ TracksOpenTrades(trades, tracked)
    /\ TracksOpenTrades(file.trades, file.tracked)

\* After a restart every position is tracked for an open trade, registered or
\* not by the life before, long or short; the only ones that may not be are
\* those in a contract that expires today and of which the saved book has no
\* filled leg in an open trade (the reconciliation of __main__.py:774-809 and
\* register_orphan_positions).
RestartCovers ==
    [][crashes' # crashes =>
          \A s \in Held :
              \/ s \in DOMAIN tracked' /\ ~trades'[tracked'[s]].closed
              \/ s \in expiring /\ s \notin Covered(file.trades)]_vars

\* A position found at a restart is adopted once: no restart makes a second
\* trade of it while the first is open, which would close it twice.
AdoptedOnce ==
    \A t, u \in DOMAIN trades :
        /\ t # u
        /\ trades[t].orphan /\ trades[u].orphan
        /\ ~trades[t].closed /\ ~trades[u].closed
        => trades[t].legs[1].symbol # trades[u].legs[1].symbol

\* However the threads and the crashes fall, an entry is closed at most once
\* by each thread in each life of the bot.
ClosesBounded ==
    \A e \in DOMAIN orders :
        Cardinality({k \in DOMAIN orders : orders[k].closes = e})
            <= Cardinality(Threads) * (1 + crashes)

\* The hard kill's window leaves the positions flat if it lasts and every
\* contract has a price: what the trade book forgot, closed twice or never knew,
\* such as the system-enforced entries, the sweeps bring to zero
\* (__main__.py:2748-2797).  The AI's flag and 15:30 end the window.
FlatByClose ==
    <>[](phase = "closing" /\ quoted = Symbols /\ Len(orders) < MaxOrders) => <>[]Flat
=============================================================================
