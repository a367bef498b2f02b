---------------------------- MODULE ExecGateway ----------------------------
(***************************************************************************)
(* The execution gateway of system/exec/exec_gateway.py composed with the  *)
(* trading core: it learns of proposed orders over the core's WebSocket,   *)
(* executes each and posts the fill or the rejection back over HTTP, and   *)
(* keeps data_cache/paper_state.json in step with the core's positions.    *)
(*                                                                         *)
(* The gateway is one sequential loop: it waits for each of its POSTs, and *)
(* receives nothing meanwhile.  The two processes fail independently; a    *)
(* POST may time out and still be served later; what is broadcast while    *)
(* the gateway is not connected is never sent again, and a connection that *)
(* drops loses what its buffer does not hold yet.                          *)
(*                                                                         *)
(* The core is module TradingCore, unchanged: its fills and rejections are *)
(* exactly the requests of the gateway it serves.                          *)
(***************************************************************************)
EXTENDS TradingCore

CONSTANTS
    DryRun,         \* is the gateway started without --live?
    NoCall,         \* the gateway waits for no answer
    MaxFaults       \* bound on crashes, dropped connections and timeouts

Routes == {"direct", "broker"}
Request == [id : Nat, kind : {"fill", "reject"}, route : Routes]

ASSUME GatewayParameters ==
    /\ DryRun \in BOOLEAN
    /\ NoCall \notin Request \cup [Booked -> Int]
    /\ MaxFaults \in Nat

VARIABLES
    linked,         \* is the gateway in ws_clients of the core?
    wire,           \* batches of proposed orders sent and not yet received
    todo,           \* the rest of the batch being handled
    processed,      \* processed_orders
    broker,         \* the positions in the broker's own book, or NoCall: not loaded
    call,           \* the request the gateway is waiting for, or NoCall
    answer,         \* "none" yet, "ok" (HTTP 200) or "failed"
    inflight,       \* requests sent and not yet served by the core
    fetched,        \* the positions of a full sync still to be written, or NoCall
    paper,          \* the positions in paper_state.json, 0 for no entry
    faults          \* faults so far

gateway ==
    << linked, wire, todo, processed, broker, call, answer, inflight, fetched, paper,
       faults >>
gvars == << vars, gateway >>

GatewayInit ==
    /\ Init
    /\ linked = FALSE
    /\ wire = << >>
    /\ todo = << >>
    /\ processed = {}
    /\ broker = NoCall
    /\ call = NoCall
    /\ answer = "none"
    /\ inflight = {}
    /\ fetched = NoCall
    /\ paper = [s \in Booked |-> 0]
    /\ faults = 0

Fault == faults < MaxFaults /\ faults' = faults + 1

---------------------------------------------------------------------------
(* The core. *)

\* _broadcast of the events of a submission: the proposals in it are the
\* orders it added to issued
Broadcast ==
    wire' = IF linked /\ issued' # issued
            THEN Append(wire, [k \in 1..Len(issued') - Len(issued) |-> Len(issued) + k])
            ELSE wire

CoreSubmission ==
    /\ Submission
    /\ Broadcast
    /\ UNCHANGED << linked, todo, processed, broker, call, answer, inflight, fetched,
                    paper, faults >>

CoreWork ==
    /\ Command \/ Feed \/ AppendAudit \/ Restart
    /\ UNCHANGED gateway

\* post_order_fill and post_order_reject, for a request of the gateway
Serve(r) ==
    /\ r \in inflight
    /\ (r.kind = "fill" /\ PostFill(r.id)) \/ (r.kind = "reject" /\ PostReject(r.id))
    /\ inflight' = inflight \ {r}
    /\ answer' = IF call = r /\ answer = "none" THEN "ok" ELSE answer
    /\ UNCHANGED << linked, wire, todo, processed, broker, call, fetched, paper, faults >>

\* requests not served and an answer not yet sent are lost, messages in the
\* gateway's own buffer are not
CoreCrash ==
    /\ Fault
    /\ Crash
    /\ linked' = FALSE
    /\ \E n \in 0..Len(wire) : wire' = SubSeq(wire, 1, n)
    /\ inflight' = {}
    /\ answer' \in (IF answer = "ok" THEN {"ok", "failed"} ELSE {answer})
    /\ UNCHANGED << todo, processed, broker, call, fetched, paper >>

---------------------------------------------------------------------------
(* The connection. *)

\* the loop waits for a message
Idle == todo = << >> /\ call = NoCall /\ fetched = NoCall

\* the snapshot that comes first is drained
Connect ==
    /\ ~linked /\ up /\ Idle /\ wire = << >>
    /\ linked' = TRUE
    /\ UNCHANGED << vars, wire, todo, processed, broker, call, answer, inflight, fetched,
                    paper, faults >>

Disconnect ==
    /\ Fault
    /\ linked
    /\ linked' = FALSE
    /\ \E n \in 0..Len(wire) : wire' = SubSeq(wire, 1, n)
    /\ UNCHANGED << vars, todo, processed, broker, call, answer, inflight, fetched, paper >>

Recv ==
    /\ Idle /\ wire # << >>
    /\ todo' = Head(wire)
    /\ wire' = Tail(wire)
    /\ UNCHANGED << vars, linked, processed, broker, call, answer, inflight, fetched,
                    paper, faults >>

---------------------------------------------------------------------------
(* _handle_order_event. *)

\* a POST is sent, and fails at once when the core is down
Post(r) ==
    /\ call' = r
    /\ inflight' = IF up THEN inflight \cup {r} ELSE inflight
    /\ answer' = IF up THEN "none" ELSE "failed"

NoPost == call' = NoCall /\ answer' = "none" /\ UNCHANGED inflight

Fill(id, route) == [id |-> id, kind |-> "fill", route |-> route]
Refusal(id, route) == [id |-> id, kind |-> "reject", route |-> route]

\* the book of positions q with the order filled
WithFill(q, id) ==
    [q EXCEPT ![issued[id].symbol] = @ + Signed(issued[id].side, issued[id].qty)]

\* _load_broker: a PaperClient, which reads paper_state.json once; the book it
\* has of its own is only used with --live
Loaded == IF broker # NoCall THEN broker
          ELSE IF DryRun THEN [s \in Booked |-> 0] ELSE paper

\* place_order of the broker: it fills into its own book or does not, and saves
\* that book over paper_state.json unless it is disabled or the save fails.  What
\* is posted is a fill at a real price, a rejection (its own, or the gateway's for
\* a placeholder price), or nothing after an exception.
Broker(id) ==
    /\ broker' \in {Loaded, WithFill(Loaded, id)}
    /\ paper' \in {paper, broker'}
    /\ Post(Fill(id, "broker")) \/ Post(Refusal(id, "broker")) \/ NoPost

\* can an execution price above 1 be found?  The price of the order decides,
\* else the tick of the core or the chain file, whatever they hold by now
Resolutions(id) ==
    IF issued[id].price > 1 THEN {TRUE}
    ELSE IF issued[id].price = 1 THEN {FALSE} ELSE BOOLEAN

\* one proposal of the batch: skipped when already processed, else executed
HandleOrder ==
    LET id == Head(todo)
    IN  /\ call = NoCall /\ todo # << >>
        /\ todo' = Tail(todo)
        /\ processed' = processed \cup {id}
        /\ IF id \in processed
           THEN UNCHANGED << broker, call, answer, inflight, paper >>
           ELSE \E resolved \in Resolutions(id) :
                   IF ~resolved /\ ~DryRun THEN Broker(id)
                   ELSE /\ Post(IF resolved THEN Fill(id, "direct")
                                            ELSE Refusal(id, "direct"))
                        /\ broker' = Loaded
                        /\ UNCHANGED paper
        /\ UNCHANGED << vars, linked, wire, fetched, faults >>

\* the broker module cannot be loaded: the order stays marked as processed
SkipWithoutBroker ==
    /\ Fault
    /\ broker = NoCall
    /\ call = NoCall /\ todo # << >>
    /\ Head(todo) \notin processed
    /\ todo' = Tail(todo)
    /\ processed' = processed \cup {Head(todo)}
    /\ UNCHANGED << vars, linked, wire, broker, call, answer, inflight, fetched, paper >>

\* the 5 seconds of a POST are over; the core may still serve it
Timeout ==
    /\ call # NoCall /\ answer = "none"
    /\ IF call \in inflight THEN Fault ELSE UNCHANGED faults
    /\ answer' = "failed"
    /\ UNCHANGED << vars, linked, wire, todo, processed, broker, call, inflight, fetched,
                    paper >>

\* _sync_paper_state: the fill added to the entry of the order's symbol
SyncFill(id) == paper' = WithFill(paper, id)

\* (mutation) a failed post is tried once more
ReturnRetrying ==
    /\ call # NoCall /\ answer # "none"
    /\ IF call.kind = "fill" /\ call.route = "direct"
       THEN IF answer = "ok" THEN SyncFill(call.id) /\ NoPost
            ELSE Post(Fill(call.id, "broker")) /\ UNCHANGED paper
       ELSE NoPost /\ UNCHANGED paper
    /\ UNCHANGED << vars, linked, wire, todo, processed, broker, fetched, faults >>

\* (mutation) a direct fill goes to the broker even when it was acknowledged
ReturnFallingThrough ==
    /\ call # NoCall /\ answer # "none"
    /\ IF call.kind = "fill" /\ call.route = "direct" /\ ~DryRun
       THEN Broker(call.id) ELSE NoPost /\ UNCHANGED << broker, paper >>
    /\ UNCHANGED << vars, linked, wire, todo, processed, fetched, faults >>

\* (mutation) whatever fill was not acknowledged is placed with the broker again
ReturnPlacingAgain ==
    /\ call # NoCall /\ answer # "none"
    /\ IF call.kind = "fill"
       THEN IF answer = "ok" THEN SyncFill(call.id) /\ NoPost /\ UNCHANGED broker
            ELSE Broker(call.id)
       ELSE NoPost /\ UNCHANGED << broker, paper >>
    /\ UNCHANGED << vars, linked, wire, todo, processed, fetched, faults >>

\* the answer of a POST: a direct fill is written to paper_state.json when it
\* was acknowledged, and falls back to the broker when not, unless in dry-run
Return ==
    /\ call # NoCall /\ answer # "none"
    /\ IF call.kind = "fill" /\ call.route = "direct" /\ (answer = "ok" \/ ~DryRun)
       THEN IF answer = "ok" THEN SyncFill(call.id) /\ NoPost /\ UNCHANGED broker
            ELSE Broker(call.id)
       ELSE NoPost /\ UNCHANGED << broker, paper >>
    /\ UNCHANGED << vars, linked, wire, todo, processed, fetched, faults >>

---------------------------------------------------------------------------
(* paper_state.json. *)

\* _sync_full_from_core: GET /api/positions, on a timer of the receive loop,
\* then the file written; the core may move on in between
SyncUnchanged ==
    UNCHANGED << vars, linked, wire, todo, processed, broker, call, answer, inflight,
                 faults >>

\* (mutation) the sync placed behind ws.recv(), as it once was
FetchAfterRecv ==
    /\ linked /\ Serving
    /\ todo # << >> /\ call = NoCall /\ fetched = NoCall
    /\ fetched' = proj.held
    /\ UNCHANGED paper
    /\ SyncUnchanged

Fetch ==
    /\ linked /\ Serving
    /\ Idle
    /\ fetched' = proj.held
    /\ UNCHANGED paper
    /\ SyncUnchanged

WriteFetched ==
    /\ fetched # NoCall
    /\ paper' = fetched
    /\ fetched' = NoCall
    /\ SyncUnchanged

\* the process dies and is restarted: processed_orders was in its memory
GatewayRestart ==
    /\ Fault
    /\ linked' = FALSE
    /\ wire' = << >>
    /\ todo' = << >>
    /\ processed' = {}
    /\ broker' = NoCall
    /\ call' = NoCall
    /\ answer' = "none"
    /\ fetched' = NoCall
    /\ UNCHANGED << vars, inflight, paper >>

Handling ==
    Recv \/ HandleOrder \/ SkipWithoutBroker \/ Timeout \/ Return \/ WriteFetched

ServeAny == \E r \in inflight : Serve(r)

GatewayNext ==
    \/ CoreSubmission
    \/ CoreWork
    \/ ServeAny
    \/ CoreCrash
    \/ Connect
    \/ Disconnect
    \/ Handling
    \/ Fetch
    \/ GatewayRestart

GatewaySpec == GatewayInit /\ [][GatewayNext]_gvars

\* The receive loop goes on and reconnects for ever, the two processes are
\* restarted by their supervisors, and the core's event loop serves the
\* requests that wait for it in turn.
GatewayFairness ==
    /\ WF_gvars(Restart /\ UNCHANGED gateway)
    /\ WF_gvars(AppendAudit /\ UNCHANGED gateway)
    /\ WF_gvars(Connect)
    /\ WF_gvars(Handling)
    /\ SF_gvars(ServeAny)
    /\ SF_gvars(Fetch)

FairGatewaySpec == GatewaySpec /\ GatewayFairness

---------------------------------------------------------------------------
(* Properties. *)

Settling == {"ORDER_FILLED", "ORDER_REJECTED"}

\* The rows of the log that settle an order: its fills and rejections by the
\* gateway, and not the fills of a close_all, which name no order.
Settlements == {i \in DOMAIN log : log[i].type \in Settling /\ log[i].id # 0}

\* No order is settled twice, by a fill or by a rejection of the gateway: in
\* dry-run whatever is lost, delayed or restarted, with --live as long as
\* nothing fails (_handle_order_event, exec_gateway.py:184-372).
SettledOnce ==
    DryRun \/ faults = 0 =>
        \A i, j \in Settlements : log[i].id = log[j].id => i = j

\* Whatever is lost, delayed or restarted, an order is settled at most twice: by
\* the fill posted directly and by the one report of the broker the gateway
\* falls back to.  (That it may be twice is what FilledOnceLive denies.)  It is
\* how far positions can be wrong (_handle_order_event, exec_gateway.py:291-372).
SettledAtMostTwice ==
    \A i, j, k \in Settlements :
        log[i].id = log[j].id /\ log[j].id = log[k].id => i = j \/ j = k \/ i = k

\* paper_state.json never stays stale: after every fill, close, reset, crash or
\* lost answer it is again the positions of the core ("the core is the source
\* of truth; paper_state.json is a derived view of it", exec_gateway.py:429-435).
PaperCatchesUp == []<>(paper = proj.held)

---------------------------------------------------------------------------
(* What the documents say and the code does not do. *)

\* exec_gateway.py:95-97: _post_fill "Returns True if the fill was emitted
\* successfully, False otherwise", and callers use it "to decide whether to fall
\* back to the legacy broker path".  No order is then filled twice; but False
\* also stands for a POST that timed out and is served all the same.
FilledOnceLive == FilledOnce

Waiting(id) == id \in DOMAIN proj.orders /\ proj.orders[id].status = "PROPOSED"

\* exec_gateway.py:10-13: "For each ORDER_PROPOSED without a corresponding fill
\* ... Call broker.place_order() ... Emit ORDER_FILLED event with the result".
\* Every order is filled, cancelled or rejected in the end.
ProposalsAreSettled ==
    \A id \in 1..MaxIssued :
        Waiting(id) ~> (~Waiting(id) \/ \E i \in DOMAIN log : log[i] = Rejected(id))
=============================================================================
