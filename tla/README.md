# Verification of the Kotak Neo trading system

TLA+ specifications of the trading system under `src/`, the TLC runs that check
them on small instances, and the TLAPS proofs that hold for every instance.

1. [The system](#1-the-system) – inventory: parts, state, operations, hard behaviours
2. [Modules](#2-modules) – what models what, and how
3. [Runs](#3-runs) – what each run checks, its bounds, what it shows
4. [Fairness](#4-fairness)
5. [Theorems](#5-theorems) – what is proved, from what, along which argument
6. [Where code and documents disagree](#6-where-code-and-documents-disagree)
7. [What is left out](#7-what-is-left-out)
8. [What remains](#8-what-remains)

## 1. The system

The repository holds two generations of one trading system for Indian index
options. `src/system` is the newer one: an event-sourced core with satellite
processes that talk to it over HTTP, a WebSocket and JSON files. `src/kotak_bot`
is the older, monolithic bot, which still carries the broker clients and runs
beside the core or alone. `src/scripts` holds several hundred operator scripts,
most of which run once; `quant_service` is a service that runs all day and writes
one of the files below.

```
 brain ──brain files──▶ brain bridge ──POST /api/plan──▶ core ──WebSocket──▶ execution gateway ──▶ broker
                                                          ▲ │ ◀─POST /api/order_fill, order_reject──┘   │
                               data feed ──market_tick────┘ └─▶ SQLite event log     paper_state.json ◀─┘

 Telegram thread ─┐                    ┌─▶ paper broker (orders, positions, its own file)
 main loop ───────┴─▶ order manager ───┤
   (brain files, clock)  │             └─▶ retry ─▶ live client (lock, rate limit) ─▶ exchange
                         └─▶ trades_state.json
```

### Core (`src/system/core`)

| | |
|---|---|
| State | table `events` of `state.db`, append-only but for RESET; `StateProjection` in memory: orders, positions, plans, ticks, rejections, pause, audit trail |
| Operations | `submit_plan`, `submit_order`, `cancel_order`, `close_all`, `force_action` (PAUSE, RESUME, CLOSE_ALL, RESET, RELOAD_BRAIN), `post_tick`, `post_order_fill`, `post_order_reject`; start-up replays the log |
| Interacts | every handler appends events, applies them to the projection and broadcasts them; submissions are judged first by the gates of `risk/preflight.py` |
| Hard | the projection must be what a replay rebuilds, after a crash anywhere, between the two transactions of a handler too; memory-only changes (RESUME, RESET); fills of orders the projection no longer knows; fills reported twice; gates that look at one leg and one symbol at a time |
| Correct if | a restart rebuilds the live state; no restart lifts a pause; positions are the net of the logged fills; `close_all` leaves nothing open; an accepted order stays within the caps |

### Execution gateway (`src/system/exec/exec_gateway.py`)

| | |
|---|---|
| State | `processed_orders` in memory, the loaded broker, `data_cache/paper_state.json` |
| Operations | receive a broadcast, execute each proposal in it (directly at a resolved price, or through the broker), post the fill or the rejection, add a fill to the paper file; every 30 s overwrite the paper file from `GET /api/positions` |
| Interacts | consumes the core's WebSocket; posts over HTTP with a timeout of 5 s |
| Hard | a POST that timed out may have been served; broadcasts are lost while disconnected; `processed_orders` is lost at a restart; two routes for one order; two writers of one paper file entry |
| Correct if | no order is executed twice; every proposal is settled; the paper file follows the core |

### Brain and brain bridge (`src/system/brain`, `src/system/bridge/brain_bridge.py`)

| | |
|---|---|
| State | `quant_actions.json`, written by the brain, by the bridge, by `quant_service` (`scripts/quant_service.py:2959-2970`, as a whole and without reading it) and by the bot where it trades by itself (`kotak_bot/__main__.py:2171, 2291`); `system_enforced_action.json`, entered and marked by the bridge (`bridge_consumed`) and by the bot (`consumed`); the bridge's keys of processed actions, in memory |
| Operations | the brain appends a trade, a swing close or the end-of-day CLOSE_ALL and keeps the last 20; the bridge reads the document, posts action by action, marks them and writes its copy back, then does the same with the enforced document; the bot reads the enforced document, places its legs and writes its copy back with a mark of its own (`__main__.py:2302-2423`). `KOTAK_BRIDGE_ACTIVE=YES` keeps the bot from `quant_actions.json` (`__main__.py:1711-1738`) and not from the enforced document |
| Interacts | through the files, without a lock and through one `.tmp` name; with the core over HTTP |
| Hard | each writer replaces what the others stored since its read, marks included; an answer is lost after the core served the request; keys die with the process; the LLM repeats a decision in other words; a CLOSE_ALL is marked even when its POST failed |
| Correct if | a trade becomes at most one plan in one life of the bridge; a close is only done when asked for; an enforced document enters in a bounded number of passes; the end-of-day close reaches the core |

### Order manager and paper broker (`src/kotak_bot/execution/order_manager.py`, `broker/paper_client.py`, `__main__.py`)

| | |
|---|---|
| State | `_trades` with their legs, `_symbol_to_trade`, `trades_state.json`; the broker's orders, positions and last prices |
| Operations | place the legs of an entry, register it (`execute_plan`, or the brain's own way) or, for the enforced document, not at all; `close_trade`, `square_off_all`, the forced square-off, the sweeps of the broker's positions, the orphan check, the hard kill; reload and adoption of positions at start-up |
| Interacts | main loop and Telegram thread call the order manager without a lock and the broker, which locks each call |
| Hard | a trade is placed leg by leg and saved at the end; closing it is placed leg by leg and saved at the end; two threads close one trade; copies of orders keep the status of the save; closing orders of the book and of the sweeps fill both; entries of the enforced document come at any hour and are in no trade; a restart takes some positions in contracts that expire for phantoms |
| Correct if | the book tracks only what is open; a restart leaves no position without a trade, except in expiring contracts the book does not account for, and adopts none twice; the hard kill leaves the positions flat |

### Live orders (`src/kotak_bot/execution/resilient.py`, `broker/neo_client.py`)

| | |
|---|---|
| State | the list of placements of the last second, the lock, the connection |
| Operations | `place_order` of the executor with its retries, around `place_order` of the client |
| Hard | a timeout does not tell whether the order is in; the lock is held through sleep and request; the connection may go while a thread is on its way |
| Correct if | one call puts at most one order on the exchange; an exception means none; the rate limit holds; every call returns |

### Other parts

| part | why there is no model of it |
|---|---|
| Circuit breaker (`kotak_bot/utils/circuit_breaker.py`) | no call of the bot goes through it |
| Risk engine (`kotak_bot/risk`) | counters of one thread, and formulas over floating-point numbers |
| Learners, prompts, indicators, feeds, backtest | numerical or I/O, no protocol between steps |
| `quant_service` | what it does to `quant_actions.json` is an environment of the bridge (`ReplaceFile`); the rest is prompts and decisions |
| Reports, alerts, dashboards, other operator scripts | readers and restarters that run once |

`PROJECT.json` lists every component with its status, and under `hazards` each
hard behaviour at the line where it bites, with the properties that cover it or
the reason why none does.

## 2. Modules

| module | extends | role |
|---|---|---|
| `PreFlight` | – | the risk gates, pure operators |
| `PreFlightRequests` | `PreFlight` | one request judged against any state; the properties of the gates |
| `DurableBook` | – | abstract: the book the clients of the core see |
| `TradingCore` | `PreFlight` | log, projection, handlers, crash and restart; implements `DurableBook` |
| `ExecGateway` | `TradingCore` | the gateway composed with the core |
| `PlanInbox` | – | abstract: what the queue between brain and core promises |
| `BrainBridge` | – | brain and bridge on their files; implements `PlanInbox` |
| `PaperBroker` | – | the paper book |
| `BotOrders` | `PaperBroker` | the trade book over the paper book, with both threads |
| `OrderCalls` | – | abstract: what a thread that places a live order may count on |
| `LiveOrders` | – | the retry, the lock and the rate limit of live placement; implements `OrderCalls` |
| `PreFlightProofs` | `PreFlightRequests` | theorems of the gates |
| `TradingCoreFold` | `TradingCore` | lemmas on the fold |
| `TradingCoreProofs`, `TradingCorePositionProofs` | `TradingCoreFold` | theorems of the core |
| `ExecGatewayProofs` | `ExecGateway`, `TradingCorePositionProofs` | theorems of the composition |
| `BrainBridgeProofs`, `BotOrdersProofs`, `LiveOrdersProofs` | their subjects | theorems of the bridge, the trade book, the live orders |
| `MCPreFlight`, `MCTradingCore`, `MCExecGateway`, `MCBrainBridge`, `MCBotOrders`, `MCLiveOrders` | the above | values of the constants for TLC |

Operators marked `(mutation)` are variants of the definition that follows them,
each with a plausible bug (three of them bugs the code once had: the unsigned
exposure of `PositionGateUnsigned`, the sync behind `ws.recv()` of
`FetchAfterRecv` and the rationale in the key of `KeyWithNote`). They are used
by no specification; substituting one for its original must break the property
it is paired with in `PROJECT.json`.

### PreFlight

Every gate of `check_order` and `check_plan` in the order the code runs them; the
result is the name of the refusing gate, or `"ok"`. Percentages are compared by
cross-multiplication over integers. `Cash` is a constant because no event
changes `account.cash`. A `price` of 0 is a request without a price, a `bid` of
0 a missing quote.

### TradingCore

| variable | code |
|---|---|
| `log` | rows of `events`, in rowid order |
| `proj` | `app.state.projection`: `orders`, `held` (signed quantities, 0 for no position), `plans`, `ticks`, `rejections` (how many), `paused`, `audits` |
| `up` | the process runs |
| `audit` | the AUDIT_LOG event a handler has still to append |
| `issued` | the orders ever accepted; order *n* carries id *n* (the uuid of the code). Not erased by RESET: clients remember |

The handlers run on one asyncio loop and await nothing between reading the
projection and broadcasting, so each is one action. `close_all` and
`force_action` commit two transactions; between them the process may die, so
`AppendAudit` is a step of its own, and `Serving` keeps the loop for it.

| action | handler |
|---|---|
| `SubmitPlan`, `RejectPlan` | `submit_plan`, by the verdict of `CheckPlan` |
| `SubmitOrder`, `RejectOrder` | `submit_order` |
| `CancelOrder` | `cancel_order` |
| `CloseAll`, then `AppendAudit` | `close_all`, for any order of listing the positions |
| `ForcePause`, `ForceResume`, `ForceReset`, `ForceRecordOnly`, then `AppendAudit` | `force_action` |
| `PostTick`, `PostFill`, `PostReject` | `post_tick`, `post_order_fill`, `post_order_reject` |
| `Crash`, `Restart` | end of the process; `create_app`, which replays the log |

`Apply` is `StateProjection.apply`, one case per event type the core emits.
Event types nobody emits (sessions, risk breaches, `PLAN_COMPLETED`) are left out.

`DurableBook` is what all this is for: one book of orders, positions, plans,
quotes and the pause, changed by one command at a time, with no log, process,
crash or restart. `TradingCore` instantiates it (`Book`) under the mapping

| `DurableBook` | in `TradingCore` |
|---|---|
| `book` | `BookOf(Visible)`: of `proj` while the core is up, of what a restart will rebuild from `log` while it is down |
| `command` | `audit`: a command is under way until its audit record is stored, or lost in a crash |
| `issued` | `issued` |

Rejections and the audit trail are no part of the book. Two weaknesses of the
code are, so that the book promises no more than there is: a pause may come back
when a command ends or the core restarts (`Finish`), and a fill of a forgotten
order lands on `UNKNOWN` (`Filled`).

### ExecGateway

It extends the core without changing it: `CoreSubmission` is `Submission` with
the broadcast, `CoreWork` the commands, ticks and restarts, and a fill or
rejection reaches the core only as the service of a request (`Serve`).

| variable | code |
|---|---|
| `linked` | the gateway is in `ws_clients` |
| `wire` | broadcasts with proposals sent and not yet received |
| `todo` | the rest of the batch being handled |
| `processed` | `processed_orders` |
| `broker` | the positions of the broker's own book, which it reads from `paper_state.json` once; `NoCall` until it is loaded |
| `call`, `answer`, `inflight` | the POST being waited for, its answer, POSTs the core may still serve |
| `fetched` | positions read by a full sync and not yet written |
| `paper` | positions of `paper_state.json` |
| `faults` | crashes, dropped connections and timeouts so far |

The gateway is one sequential loop; its actions are the points at which it
waits. `HandleOrder` covers an order up to the POST, `Return` what follows the
answer: the paper entry, or with `--live` the broker after a failed direct fill.
`Broker` fills into the broker's own book and saves that book over
`paper_state.json` (`PaperClient._save_state`), whatever else was written there
since the broker read it.
`Timeout` leaves the request in `inflight`: the core may serve it later.
`CoreCrash`, `Disconnect` and `GatewayRestart` lose what each process holds.

### BrainBridge and PlanInbox

| variable | code |
|---|---|
| `file` | the actions of `quant_actions.json` |
| `enforced`, `copy`, `fallback` | `system_enforced_action.json` with its two marks; what the bot has read of it and not written back; what the bridge has |
| `drafting`, `draft` | the brain between `read_json` and `write_json_atomic` |
| `pc`, `doc`, `at`, `waiting`, `submitted` | the bridge in one of the two parts of `run_once`: its copy, the action it is at, a POST waited for |
| `keys` | `_processed_keys` |
| `up`, `accepted`, `entered`, `closing` | the core: does it answer, plans it accepted from the queue (in this life of the bridge), passes in which it accepted plans of the enforced document, what became of the end-of-day close |
| `faults` | crashes, lost answers, failed and colliding writes |

| action | code |
|---|---|
| `DraftOpen`, `DraftSwingClose`, `DraftCloseAll`, then `BrainWrite` | `_write_quant_action`, the swing closes of `cycle`, `_write_close_all`; the replacement |
| `StartPass`, `Skip`, `Post` | `run_once`; the action loop of both parts |
| `CoreAccepts`, `CoreRefuses`, `AnswerLost` | the answer of the core, and what the bridge makes of it |
| `WriteBack`, `MarkEnforced` | the end of `process_quant_actions` and of `process_system_enforced` |
| `BotReads`, `BotMarks`, `BotDrops` | the bot's own part with the enforced document: taken up without its mark, written back with it; removed after 30 minutes |
| `ReplaceFile` | `quant_service` and the bot, which put a decision, nothing, or what they read in place of `quant_actions.json` |
| `WriteEnforced`, `Elapse`, `EodOpens`, `EodEnds` | the writer of the enforced document; the five minutes of a CLOSE_ALL; the end-of-day window |
| `BridgeRestart`, `CoreStops`, `CoreStarts` | processes that end and start |

Only the age of a CLOSE_ALL matters to the code, so time is one bit of it. The
core is an environment here: `TradingCore` is judged on its own for any
sequence of submissions. `PlanInbox` knows neither files nor passes; its
variables are the `accepted` and `closing` of the bridge, and the refinement is
by name.

### PaperBroker and BotOrders

| variable | code |
|---|---|
| `orders`, `position`, `quoted` | `_orders`, `_positions`, the symbols with a price |
| `trades`, `tracked`, `file` | `_trades`, `_symbol_to_trade`, `trades_state.json` |
| `job` | what each thread has still to do, as a list of tasks |
| `phase` | `"trading"` before `square_off_time`; then, up to the market's close, `"closing"`, or `"held"` while the AI's flag keeps the forced square-off and the hard kill away; then `"over"` |
| `expiring` | the contracts that expire today |
| `entries`, `crashes` | counters of the bounds: legs entered, crashes |

A broker method holds the broker's lock and saves its book before it returns:
one action each. The order manager takes no lock, so a thread's job is cut at
every broker call, and the other thread may run in between. A leg is the
broker's own order (`"LIVE"`) as long as the process lives, and a copy with a
status of its own after a reload or when the brain's way of registering made it.

| action | code |
|---|---|
| `PlaceLeg`, `RefuseLeg`, `RegisterTrade` | `execute_plan`; the OPEN of the brain with its own registration; the entries of the enforced document, which nobody registers |
| `CloseSkipped`, `CloseLeg`, `CloseDone` | `square_off_all`'s second look, `close_trade` |
| `SquareOffForced`, `SweepPositions`, `FlattenPosition`, `Kill`, `CloseOrphans` | the forced square-off; the sweeps of positions; the hard kill; the orphan check |
| `BrainOpens`, `EnforcedOpens`, `BrainCloses`, `AutoClose`, `MavisCloseAll`, `OrphanCheck`, `ClosingPass` | what the main loop takes up |
| `ForceTrade`, `ForceClose` | what the Telegram thread takes up |
| `Ticks` | `inject_tick`: open orders fill or pass their minute |
| `DayMoves` | the clock, and the AI's flag |
| `Restart` | a crash at any point; both reloads, the filter of phantoms and `register_orphan_positions` |

The legs of the brain and of the enforced document are refused or skipped one by
one, and the trade is registered with the rest (`RefuseLeg`); `execute_plan` keeps
a refused leg in its trade.

`ClosingPass` is a pass of the loop past `square_off_time` (15:15), in the order
of the code: square off; past `force_square_off_time` (15:25) the forced
square-off, which lists the open trades anew and sweeps the positions if the core
answered its `close_all`; and in the window of the hard kill, 15:15 to 15:30, the
kill. The AI's flag (`"held"`) keeps away the last two. The drawdown check between
them never ends the pass: it asks for `get_paper_state`, which no broker has (see 6).

`Restart` adopts what no symbol of the book tracks, less the phantoms
(`_is_phantom_0dte`, `__main__.py:774-798`): of the positions in expiring contracts
that no open trade has a filled leg in, some while the market is open (those whose
price was not saved), all after its close.

`Doing`, `Task`, `Becomes`, `Done`, `Take`, `Each` are the bookkeeping of jobs and
stand for no code of their own.

### LiveOrders

| variable | code |
|---|---|
| `pc`, `attempt`, `result` | where a thread is in the executor and the client, `i` of its loop, what the call gave |
| `reached` | orders of the call that the exchange has: known to nobody in the code |
| `lock`, `ages`, `connected` | `_lock`, `_order_times` as ages, `_connected` |

`Call` starts one; `NotConnected`, `PassTest`, `Acquire`, `WakeUp` and `Send` are
the steps of an attempt, `Fails` what the executor does with an exception. The
SDK is external: it names the order, answers without a number, or raises, with
the order in or not.

`OrderCalls` is the caller's view: a call begins, and then in one step returns a
status with at most one order on the exchange, or raises with none because the
client is not connected. `LiveOrders` instantiates it (`Calls`) with `calling`
mapped to `pc # "idle"` and the other variables by name: attempts, lock, sleep
and list of placements are steps that do not show.

## 3. Runs

Two workers, times on a small machine. Every passing run explores all the
states of its instance.

| run | instance | checks | result |
|---|---|---|---|
| `preflight_gates` | 1 request, lots of 2, cash 200, quantities and prices on both sides of each threshold | `FilledOrderWithinCap`, `LessIsAccepted`, `FilledPlanWithinCap` | hold, 152,172 states, 8 s |
| `core_orders` | 1 symbol, 2 orders, 2 fills, every command and a tick | `ReplayFaithful`, `PauseSurvives`, `PositionsAreNetFills`, `CloseAllFlattens`, `BookKept` | hold, 249,343 states, 145 s |
| `core_plans` | 2 symbols, 1 plan of a short and a long leg, 4 fills, refused orders | `TypeOK`, `ReplayFaithful`, `PositionsAreNetFills`, `CloseAllFlattens` | hold, 565,438 states, 135 s |
| `gateway_dry_run` | dry-run, 1 plan of an option and a cash leg, 2 faults | `SettledOnce`, `PaperCatchesUp` | hold, 136,125 states, 61 s |
| `gateway_live` | `--live`, 2 single orders, 3 fills, 2 faults | `SettledOnce`, `SettledAtMostTwice` | hold, 1,132,081 states, 80 s |
| `bridge_queue` | 1 trade in two wordings, enforced documents of 1 trade, 2 actions kept, 1 fault | `KeepsPromises`, `EnforcedEntersTwice`, `EodCloseReachesCore` | hold, 907,576 states, 200 s |
| `bot_day` | 1 contract sold, expiring or not, 5 orders, 2 crashes, both threads | `MapsToOpenTrades`, `AdoptedOnce`, `ClosesBounded`, `RestartCovers`, `FlatByClose` | hold, 316,478 states, 88 s |
| `live_place` | 3 threads, 3 orders in a window of 3 steps, 3 attempts | `LiveTypeOK`, `AtMostOnce`, `RaisedMeansUnsent`, `RateKept`, `CallsReturn`, `CallsAreOneStep` | hold, 53,195 states, 23 s |
| `core_fold` | 1 symbol | `StateIsFold` | violated, see 6 |
| `core_exposure` | 2 symbols | `NeverOverAllocated` | violated, see 6 |
| `gateway_twice` | `--live`, 1 order, 1 fault | `FilledOnceLive` | violated, see 6 |
| `gateway_lost` | dry-run, 1 order, 1 fault | `ProposalsAreSettled` | violated, see 6 |

What the properties say:

* `FilledOrderWithinCap`: the position an accepted order leaves, long or short, added to, reduced or flipped, is worth at most 30% of the cash.
* `LessIsAccepted`: if an order that adds to a position is accepted, so is every smaller whole number of lots; caps, exemption and lot gate never invert.
* `FilledPlanWithinCap`: `check_plan` judges each leg against the positions before the plan, never against the other legs; when no two legs are in one symbol that is enough, and the plan as a whole leaves every symbol within the cap. (Across symbols it is not: `NeverOverAllocated`, see 6.)
* `ReplayFaithful`: whenever the core is up, a replay of its log rebuilds orders, positions, plans, ticks and audit trail. Rejections and the pause are not in it, for the code does not keep them so (see 6); `PauseSurvives` says what does hold of the pause.
* `PositionsAreNetFills`: every position is the sum of the logged fills, counted from the log and the issued orders without the projection.
* `CloseAllFlattens`: a `close_all` step leaves every position at zero, those booked on `UNKNOWN` too.
* `BookKept`: the core is a `DurableBook`. To a client each command is one step that does to the book what it says; refusals, audit records, crashes between any two transactions, and restarts leave the book as it was, except that an earlier pause may return.
* `SettledOnce`: no order has two of fills and rejections, in dry-run whatever fails, with `--live` before the first fault.
* `SettledAtMostTwice`: no order is ever settled three times, in either mode, whatever fails. `FilledOnceLive` is false (see 6); this is how far it goes, hence how far off a position can be.
* `PaperCatchesUp`: whatever happens, the paper file is the core's positions again.
* `KeepsPromises`: brain, bridge and file together are a `PlanInbox`. In one life of the bridge a trade becomes a plan at most once, in whatever words it comes back, whatever is overwritten or lost; a close is done only when the day asked for it.
* `EnforcedEntersTwice`: bridge and bot each write back the fallback document as they read it, so the bot can undo the bridge's mark, with no fault anywhere, and the bridge enters the plans again. Once it stays: until something fails no document is entered in more than two passes, since the second time the bridge's copy has the bot's mark and the bot does not take it up again. What the bot itself enters of the document comes on top (`EnforcedOpens` of `BotOrders`).
* `EodCloseReachesCore`: while the end-of-day window is open, refused connections, lost answers, marks on failed posts and overwritten files only delay the close.
* `MapsToOpenTrades`: in memory and on file, a symbol is tracked only for an open trade that has a leg in it. A stale entry would hide a position from adoption and an entry from registration.
* `RestartCovers`: after a restart every position belongs to an open trade, whichever half-done entry or close the crash fell into, and whether anybody registered it. The exception is in the code: a position in a contract that expires today, with no filled leg in an open trade of the saved book, may be taken for a phantom, and is then in no trade and closed by the sweeps alone.
* `AdoptedOnce`: two open trades adopted from positions are never of one symbol.
* `ClosesBounded`: an entry is closed at most once by each thread in each life. Once altogether is more than the code gives: the two threads and a crash each can repeat a close, and the sweeps bring back what that overshoots.
* `FlatByClose`: the window of the hard kill, if it lasts and every contract has a price, leaves the positions flat, those of the enforced document too, which no trade knows and which may be entered at any hour. It does not say that every day ends flat: the AI's flag and 15:30 end the window, and what is entered after it stays.
* `AtMostOnce`, `RaisedMeansUnsent`: one call puts at most one order on the exchange; if it raises, none. Of an order returned as REJECTED that cannot be said.
* `RateKept`: of any cap + 1 placements in a row the first is a window older than the last.
* `CallsReturn`: every call comes back, behind the lock, the sleeps and the retries of the others.
* `CallsAreOneStep`: to its caller a call is one atomic step with the outcomes of `OrderCalls`.

### Bounds, and why they are enough

* `MaxRows` bounds the rows of the log per event type. RESET empties the log, so the runs contain unboundedly many commands, only never more than this many rows at once. Two fills suffice for opening and closing, or adding, or the same order reported twice; the four of `core_plans` fill both legs and close both, in any order and with orphans of a RESET in between.
* `MaxIssued`: two orders are the fewest for a fill of one to be booked on the other, and for a RESET to leave ids that are no longer known.
* `AuditKept` is 1 or 0 in the runs, 100 in the code: the oldest entry is dropped from the second on.
* `ReplayLimit` is 100 in the runs, more than `MaxRows` allows, for beyond it the properties are not claimed (see 7). The theorems carry it as a parameter.
* `AuditRoom` makes a command wait until its audit row fits: without it the bound, and not the code, would stop between the two transactions.
* `MaxFaults`: `SettledOnce` in dry-run is about one lost answer followed by another loss (a restart, a broken connection, a second timeout), so two; with `--live` it is claimed before the first fault only, and the run has two all the same, for `SettledAtMostTwice`: one to lose the answer to a direct fill, and another after the broker was asked. The log of that run has room for the third fill that should not be.
* `BookKept` is checked in `core_orders`, which has no plan: TLC evaluates the replay of the log at every step of a core that is down, and on `core_plans` that takes more than five minutes. `AcceptPlan` of the book is covered by the theorem.
* Quantities are one lot. Positions still range over negative, zero and positive values; the gates are judged on many quantities in `preflight_gates`.
* `bridge_queue`: one trade in two wordings is what at-most-once is about; one trade in the enforced document, for `entered` counts the passes that sent any; `Keep` 2 (20 in the code) lets a new action push out an old one; one fault, because two multiply the states beyond the time of a run. Taken apart, the queue alone holds its two properties through three faults (207,964 states), and documents of one and two trades beside a queue of closes theirs through two (215,840). The theorems have no bound on any of these.
* `bot_day`: `MaxOrders` 5 leaves room for an entry, a close by each thread, a close repeated after a crash, and a sweep that brings back what they overshot; where it is reached `FlatByClose` claims nothing. `MaxLegs` 1 and one contract: entries of several legs, and the branch that does not register an entry in a tracked symbol, are covered by the theorems, which have no such bound. Two crashes are the fewest for a position to be adopted and found again.
* `live_place`: three callers, so that one can hold the lock, one wait for it and one be elsewhere; `Cap`, `Window` and `Attempts` of 3 (10 orders a second in the code) let the list fill, be pruned in part and be waited for.
* Symmetry is not used: the symbols are told apart by the plans, and temporal properties forbid it elsewhere.

`CHECK_DEADLOCK FALSE` appears where an instance ends: a request is judged once
(`preflight_gates`), `gateway_lost` comes to rest when its single order is
spent, and `bot_day` when the day is over. In all other runs something can always happen, and TLC checks it.

## 4. Fairness

`FairGatewaySpec`, for `PaperCatchesUp` and `ProposalsAreSettled`:

* weak on `Restart`, `AppendAudit`: a supervisor restarts the core, and a handler goes on to its second transaction;
* weak on `Connect` and `Handling`: `run_forever` reconnects after every error and goes through its batch; a POST returns or times out after 5 s;
* strong on `ServeAny`: the core's event loop takes the waiting requests in turn, even when other clients send requests without end (which switch the service off and on again, through `audit`);
* strong on `Fetch`: the timer of the receive loop comes round every 30 s, whether or not proposals arrive in between.

`FairBridgeSpec`, for `EodCloseReachesCore`:

* weak on `Pass`, `CoreStarts`, `Elapse`: the bridge loops for ever and its POSTs end, the supervisor restarts the core, five minutes pass;
* strong on `DraftCloseAll` and on `BrainWrite` while the bridge is asleep: the bridge sleeps 5 s after each pass and the brain cycles on a timer of its own, so not every read and write of the brain falls within a pass. Without it, the bridge could write its older copy over every CLOSE_ALL for ever.

`FairBotSpec`, for `FlatByClose`: weak on each thread's work, and strong on
`ClosingPass` while `phase = "closing"`: whatever else the passes of the loop do,
each of them comes by the hard kill, so it is taken up again and again, and not
only when nothing else is. Nothing is assumed of ticks, of the clock, of entries
and of crashes. That the window lasts and that every contract has a price is the
premise of `FlatByClose`, not a fairness condition: a run in which the clock moves
on, or a price never comes, meets it by not being in it.

`FairLiveSpec`, for `CallsReturn`: weak on the clock, strong on the steps of each
caller, because a thread that waits for a lock other threads take and release
gets it in the end; the SDK answers or gives up.

Nothing is assumed of clients, of the data feed or of faults: those may happen or not.

## 5. Theorems

All hold for every value of the constants that satisfies the assumptions
`GateParameters`, `RequestParameters`, `CoreParameters`, `GatewayParameters`,
`BridgeParameters`, `BrokerParameters` and `LiveParameters`: a finite set of
symbols, any lot sizes, cash and bounds, any sets of orders, plans, trades,
callers and quotes. TLC evaluates the assumptions in every run.

| theorem | statement |
|---|---|
| `PositionCapHolds` | `Spec => []FilledOrderWithinCap` (of `PreFlightRequests`) |
| `GatesAreMonotone` | `Spec => []LessIsAccepted` |
| `PlanCapHolds` | `Spec => []FilledPlanWithinCap` |
| `TypeCorrect` | `Spec => []TypeOK` (of `TradingCore`) |
| `CrashSafe` | `Spec => []ReplayFaithful` |
| `PauseKept` | `Spec => []PauseSurvives` |
| `CloseAllComplete` | `Spec => CloseAllFlattens` |
| `PositionsCorrect` | `Spec => []PositionsAreNetFills` |
| `BookIsKept` | `Spec /\ [](Len(log) <= ReplayLimit) => BookKept` |
| `GatewayImplementsCore` | `GatewaySpec => Spec` |
| `SettledAtMostOnce` | `GatewaySpec => []SettledOnce` |
| `SettledTwiceAtMost` | `GatewaySpec => []SettledAtMostTwice` |
| `GatewayKeepsBook` | `GatewaySpec /\ [](Len(log) <= ReplayLimit) => BookKept` |
| `BridgeTypeCorrect` | `BridgeSpec => []BridgeTypeOK` |
| `QueueKeepsPromises` | `BridgeSpec => KeepsPromises` |
| `FallbackEntersTwice` | `BridgeSpec => []EnforcedEntersTwice` |
| `TracksOnlyOpen` | `BotSpec => []MapsToOpenTrades` |
| `AdoptedAtMostOnce` | `BotSpec => []AdoptedOnce` |
| `RestartLeavesExpiring` | `BotSpec => RestartCovers` |
| `ClosesAreBounded` | `BotSpec => []ClosesBounded` |
| `LiveTypeCorrect` | `LiveSpec => []LiveTypeOK` |
| `PlacedAtMostOnce` | `LiveSpec => []AtMostOnce` |
| `RaisedIsSafe` | `LiveSpec => []RaisedMeansUnsent` |
| `RateLimited` | `LiveSpec => []RateKept` |
| `CallsAreAtomic` | `LiveSpec => CallsAreOneStep` |

**The gates** (`PreFlightProofs`). The invariant, `RequestInv`, is only that the
answer is the verdict of the gates on the request; the work is in them. The cap
rests on the position gate alone. For monotony each gate is shown to pass a
smaller quantity of the same order whenever it passes the larger, the exemption
of one lot and the lot gate among them (`LessPasses`). For a plan, acceptance means
that each leg passed every gate (`PlanAccepted`, `LegAccepted`), and a symbol in
which the plan has one leg ends at what that leg alone makes of it
(`HeldAfterOneLeg`, by the fold over the legs): what the position gate compared is
then what the plan leaves.

**The fold** (`TradingCoreFold`). `Folds` is a recursive function on `0..Len(s)`.
Everything rests on two facts about it: it runs (`FoldsRun`), and applying a
concatenation is applying the one part, then the other (`ApplyAllConcat`). Both
are inductions up to a bound, done once in `Climb` by a least counterexample,
since the provers cannot use an induction rule that takes a predicate.

**Crash safety** (`TradingCoreProofs`). `ReplayFaithful` is not inductive: a
restart sets `proj` to `Replay(log)`, which differs from the projection that
was live before in the pause and the rejections, and it says nothing while the
core is down. The invariant `Inv` adds the types and says, for a log within
`ReplayLimit`, that the live projection *follows* the replayed one: they agree
on orders, positions, plans, ticks and audit trail, and where the live one is
paused so is the replayed one. `Follows` is kept by applying one event to both
(`ApplyFollows`), hence by a batch (`ApplyAllFollows`); the events `RejectPlan`
stores without applying move only the rejections (`RejectionsFollow`); RESUME
can only make the live one less paused. `TypeCorrect`, `CrashSafe` and
`PauseKept` follow from `Inv`.

**Closing** (`CloseAllComplete`). For any finite set of open symbols a listing
names each exactly once (`ListingComplete`); along the batch every symbol
already listed is flat and every other untouched (`ClosingFillsFlatten`).

**Positions** (`PositionsCorrect`). By `CrashSafe` it is enough to look at the
log. The invariant `ProposalsIssued` says that each proposal in the log carries
the order issued under its id; hence at each row the fold knows an order exactly
if it was proposed before, under the symbol and side `NetFills` counts
(`FoldKnows`), and both sums climb together (`NetFillsFolded`).

**The book** (`BookIsKept`, in `TradingCorePositionProofs`). Each handler has a
lemma that it is a step of `DurableBook` or leaves the book alone. While the core
is up the book is the projection, and the work is to show what a whole batch
makes of it: a plan's events enter all its legs (`PlanApplied`, an induction
along the batch), the fills of a close make every position zero and touch nothing
else (`ClosingApplied`, on top of `CloseAllComplete`), and each fill finds the
order that was issued (`OrdersIssued`). A crash replaces the projection by
`Replay(log)`, and `Inv` with `ReplayFaithful` makes that the same book up to the
pause (`CrashFinishes`); a restart then changes nothing. The hypothesis that the
log stays within `ReplayLimit` (100,000 rows) is what the code needs: on a longer
log a crash does lose orders and positions (see 7). It can be met, for the bound
`MaxRows` of the model may be as low as one likes. `GatewayKeepsBook` is the same
for the core with the gateway beside it, through `GatewayImplementsCore`.

**The gateway** (`ExecGatewayProofs`). `GatewayImplementsCore` shows each action
of the composition to be a step of the core or to leave it alone, so every
theorem of the core holds beside the gateway, whatever is lost, late or
restarted. `SettledAtMostOnce` needs `GatewayInv`: the proposals on the wire and
in the batch are in increasing order of id (`InOrder`); everything requested or
settled is older than all of them (`Requested`); under the premise of
`SettledOnce` an order has one request or one settlement (`Once`); and with
`--live`, before a fault, no POST fails (`Smooth`). The invariant is what
explains the code: single execution does not rest on `processed_orders`, which
a restart forgets, but on the core broadcasting a proposal once, on one
connection, in order. A change that sends waiting proposals again to a new
connection, the natural repair of `ProposalsAreSettled`, would break it.

`SettledTwiceAtMost` has no premise about faults, so requests that were served
though their POST timed out have to be counted. `Reports(id)` is the number of
settlements of an order in the log plus the requests for it not yet served.
The invariant `Bounded` says that it is at most two, and at most one while the
gateway waits for the answer to a direct fill, the only point from which it may
send another. `GatewayInv` gives the base: for a proposal just taken up
`Reports` is zero.

**The bridge** (`BrainBridgeProofs`). At most once rests on the keys and on
nothing in the file: the invariant says that a trade was accepted at most once,
that every trade accepted has its key, and that the trade of a POST being waited
for has none yet. The marks, the order of the document and what either side
overwrites do not enter, which is why any number of faults is allowed, and why
the promise is for one life of the bridge. With it each step of the composition
is a step of `PlanInbox` or a stutter.

`FallbackEntersTwice` needs to know who holds which copy (`Faultless`). Before the
first fault the bot holds a copy only while its own mark is not on the document, so
a copy without the bridge's mark is of a document that entered at most once; it is
written back with the bot's mark, and what the bridge then enters has that mark,
which the bridge writes back. So a document that the bridge may still enter has not
entered, or has entered once and carries the bot's mark, and the bot takes it up no
more.

**The trade book** (`BotOrdersProofs`). `BooksAgree` shows `BookInv`: book and file
each satisfy `BookOK`, and the legs a thread carries in its job are legs
(`JobOK`). `BookOK` adds to `MapsToOpenTrades` that an open adopted trade is
tracked under its symbol (`OrphansTracked`): that is what keeps the next restart
from adopting the position again, and it survives because `Tracking` never
re-points a tracked symbol and `Untracking` drops only those of the closed
trade. Of the broker nothing is needed: positions may be anything at a restart.
Nor does it matter which of them are taken for phantoms: adoption keeps `BookOK`
for any part of the untracked positions (`AdoptedOK`), and those left out are
expiring and not covered by definition (`RestartBooks`, for
`RestartLeavesExpiring`).

`ClosesAreBounded` counts the closing orders of an entry. The count alone is not
inductive: it does not say who may still send one. `CloseInv` says, leg by leg,
that there are at most two for each crash so far and one for each thread that has
had its turn in this life (`Counted`). A thread has had its turn (`Used`) at a
leg of an open trade once the close in its job has passed the leg, and at a leg
of a closed trade unless its job still holds a close that will reach it without
looking again. So a thread that closes the leg comes into `Used` by that very
step, marking the trade closed takes no one out of it, and a thread is given
closes of open trades only. That no order is the entry of two
legs, in memory, on file or in a job (`EntriesOnce`, `FlightOK`), and that a job
closes a trade once, and closes nothing after a task that lists the open trades
anew, as the forced square-off and the hard kill do (`Ordered`), is what the count
rests on. A crash empties the
jobs and adds two to the allowance.

**Live orders** (`LiveOrdersProofs`). `reached` is zero from the call to `Send`,
which ends the call because the client lets no exception out: both theorems on
placement say how much of the retry's safety hangs on that. For the rate,
by `RateKept` itself at most the cap survives the pruning of the list, and a
thread asleep in the limit holds the lock and exactly the cap (`Holds`), so the
list it wakes up to is the one it left. For `CallsAreAtomic` every action of a
caller but the first and the one that ends its call is shown to leave the mapped
variables alone; the end is an answer because of `Send`, or an exception because
of `NotConnected`, whose error is not retryable. `CallsAreAtomic` says more than
`PlacedAtMostOnce` and `RaisedIsSafe`: no other thread's step shows in a call, and
an exception comes only while the client is not connected.

Left to TLC: liveness under fairness (`PaperCatchesUp`, `EodCloseReachesCore`,
`FlatByClose`, `CallsReturn`), which the prover does not cover, and the
violations. Every safety property of the runs is also proved.

## 6. Where code and documents disagree

| run | what the run shows |
|---|---|
| `core_fold` | PAUSE, RESUME: the log still pauses a restarted core. ADR-001 line 22: "State = fold(events)" |
| `core_exposure` | two accepted legs in two symbols together exceed the 30% that `preflight.py` line 46 calls aggregate and ADR-002 line 36 "impossible" to exceed |
| `gateway_twice` | with `--live`, a POST that timed out but was served is followed by a broker fill of the same order, and the core books both |
| `gateway_lost` | a proposal broadcast while the gateway is away is never executed, though the gateway is to serve "each ORDER_PROPOSED without a corresponding fill" |

Met while modelling, plain from reading and so without a run of their own (paths
under `src/`):

* The rejections of a refused plan are appended and broadcast, and not applied (`system/core/api/server.py:188`): `recent_rejections` changes at the next restart. `core_fold` takes no plans and does not show it.
* `force_action` CLOSE_ALL of the core records an audit entry and closes nothing; RUNBOOK line 90 names it "Force-close all". `close_all` does close.
* The main loop never scans for entries: the orphan check sets `last_scan = now` (`kotak_bot/__main__.py:3060`) just before the scan asks for 30 seconds since `last_scan` (line 3130). Entries come from the brain's file and from Telegram; `BotOrders` has those and no scan.
* The brain's trades are registered with orders that are never completed (`__main__.py:2243`): the trade book closes none of their legs, and from 15:00 on the orphan check flattens their positions while the trade stays open.
* `NeoClient.place_order` catches every exception (`broker/neo_client.py:416`), and "not connected" is not retryable: the executor's retry of placements never happens. `RaisedOn` shows what would if it did.
* An order without a number in the answer is returned OPEN under an empty id; one whose answer was lost is returned REJECTED.
* `partial_fill_min_pct` is 0.7 in `config/settings.yaml:33` and passed to no broker, whose default is all or nothing; the branch it would enable uses `OrderStatus.PARTIAL`, which does not exist (`broker/paper_client.py:438`). `PaperBroker` fills whole orders.
* A SELL that adds to a short books realized P&L (`broker/paper_client.py:1165`); the core books P&L on the fill that reaches zero only (`core/domain/state.py:401`); `paper_state.json` averages over reductions (`exec/exec_gateway.py:169`).
* The bridge's keys are forgotten at a restart and `bridge_consumed` is not read back for plans: a restart submits them again. They are never reset either: a trade repeated on the next day is taken for a duplicate as long as the process lives.
* A CLOSE_ALL left unmarked at the end of the day is executed on the next.
* The bot, told by `KOTAK_BRIDGE_ACTIVE` that the bridge is there, still enters `system_enforced_action.json`: it looks at its own mark only, at any hour, and registers no trade (`__main__.py:2302-2423`). The bridge enters the same plans into the core.
* The brain's OPENs are refused when `now.hour >= 15 and now.minute >= 15` (`__main__.py:1853`): from 16:00 to 16:14 they are taken again.
* The drawdown check before the forced square-off (`__main__.py:2634-2655`) asks the broker for `get_paper_state` if it has one, and none has: the pass goes on as if there were no such check.
* `plan_completed` is called by nothing: a plan stays active for ever.

## 7. What is left out

Of the core and the gateway:

* Prices paid, average prices, realized P&L and marks to market: positions are quantities.
* Beyond `ReplayLimit` rows (100,000) `all_events` returns the oldest ones, so a restart of a core with a longer log rebuilds a past state. The properties are stated up to the limit, and false beyond it.
* Orders are filled whole, as the gateway always reports them. Clients send no `client_order_id`; the core's uuid is a number.
* Fills and rejections come from the gateway: ids nobody issued are not posted. Orphan fills arise all the same, through RESET.
* SQLite transactions are atomic and durable, as the store assumes.
* The rest of the broadcasts (fills, audit records) reach the dashboards; the gateway ignores them, so `wire` holds proposals only.
* The gateway's full sync also reads `/api/state` for cash: not modelled. It runs only while connected, as in the receive loop.
* What the broker does is a choice among its outcomes: a fill, a rejection, an exception.

Of the brain and the bridge:

* What leads the brain to a decision, its learners and prompts; its check of the pause before the LLM call (a hazard without a property: the core promises nothing there).
* What is in a plan beyond the key; the gates, which refuse at will; `brain_actions.json`, which the bridge does not read.
* The writer of the enforced document is not in the repository: it may write at any moment. What the bot makes of the document is in `BotOrders`, what it does to the file in `BrainBridge`; no module has both books.
* What `quant_service` and the bot do to `quant_actions.json` counts as a fault each time, for neither minds the other writers: `KeepsPromises` holds for any number of such faults (as proved), `EodCloseReachesCore` for finitely many.

Of the bot:

* It is modelled as it runs alone. The pairing with the core (`core_bridge.py`) and the core's own close at the end of the day are not; the answer of the core decides whether the sweep runs, and is a choice.
* Prices, cash, margins, daily caps and P&L. A LIMIT order fills or does not; the size that makes the orphan check skip a position is a choice; live brackets, modification and cancellation of orders are left out.
* Overnight positions: `allow_overnight` is false in the settings, and the branches that it guards are left out.
* At start-up: the flattening of positions of more than 50 lots or above the cap on their number (`__main__.py:820-945`); settled positions of past expiries are not there any more when the book is read back. Expiry settlement.
* In `register_external_managed_trade` adding the trade and mapping its symbols are one step; so are reading the book and the positions in the orphan check.
* Live positions read from the exchange: `LiveOrders` is about placement.

Not modelled at all (`not_modelled` in `PROJECT.json`): numerical code (learners,
indicators, greeks, backtest), I/O without a protocol between its steps
(reports, alerts, dashboards, feeds, clients of search and language models), and
the operator scripts, most of them a process that runs once, reports or restarts;
`quant_service`, which runs all day, is there as what it does to the shared file. They are about nine tenths of the lines of the repository, which is why the
modelled lines are a small share of it: the state that several processes, threads
and restarts share is concentrated in the files of section 2.

## 8. What remains

* A ledger of average price and realized P&L of the core and of `paper_state.json`, against the cash of the fills. It would state what two of the hazards without a property say; the code is known to lose P&L on partial exits (section 6), so it needs a decision what the numbers are to mean first.
* The bridge composed with `TradingCore` instead of an environment that accepts and refuses at will. Both sides are checked against what the other may do; the product of their states is beyond a run of minutes.
* The bot and the core side by side: each closes at the end of the day what it knows, and neither knows the other's book.
