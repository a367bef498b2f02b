----------------------------- MODULE BrainBridge -----------------------------
(***************************************************************************)
(* The brain (system/brain/brain_daemon.py) and the brain bridge           *)
(* (system/bridge/brain_bridge.py) on the file they share, quant_actions   *)
(* .json: the brain appends the trades it decides on and, at the end of    *)
(* the day, a CLOSE_ALL; the bridge posts what it finds to the core, marks *)
(* it and writes the whole document back.  Neither takes a lock: each      *)
(* reads the file in one step and replaces it in a later one.  The bridge  *)
(* and the bot both enter the plans of a second file, system_enforced_     *)
(* action.json, each with a mark of its own, and each writes back the      *)
(* whole document it read.                                                 *)
(*                                                                         *)
(* The core is the environment here: it accepts or refuses a plan, carries *)
(* out a close-all, may be down, and may serve a request whose answer is   *)
(* lost.  So are the other writers of quant_actions.json: quant_service    *)
(* and, where it trades by itself, the bot.                                *)
(***************************************************************************)
EXTENDS Naturals, Sequences

CONSTANTS
    Trades,         \* strategy, symbol and legs: what the bridge's key is made of
    Notes,          \* rationales, which the LLM words anew each cycle
    Decisions,      \* the trades with a rationale the brain may decide on
    NoTrade, NoNote,
    EnforcedPlans,  \* what is written to system_enforced_action.json
    Keep,           \* the actions the brain keeps in the file, 20 in the code
    MaxFaults       \* bound on crashes, lost answers, failed and colliding writes

ASSUME BridgeParameters ==
    /\ Decisions \subseteq Trades \X Notes
    /\ NoTrade \notin Trades /\ NoNote \notin Notes
    /\ EnforcedPlans \subseteq Seq(Trades)
    /\ Keep \in Nat \ {0}
    /\ MaxFaults \in Nat

VARIABLES
    file,           \* "actions" of quant_actions.json
    enforced,       \* system_enforced_action.json
    copy,           \* the one the bot has read and not yet written back, if any
    fallback,       \* the one the bridge read at the start of its second part
    drafting,       \* is the brain between its read and its write?
    draft,          \* the actions it is about to write
    pc,             \* the bridge: asleep, or in one of the two parts of a pass
    doc,            \* the actions the bridge read at the start of that part
    at,             \* the next of them
    waiting,        \* has the action at "at" been posted?
    submitted,      \* has the core accepted something in this part?
    keys,           \* _processed_keys
    up,             \* does the core answer?
    accepted,       \* plans the core accepted from the queue, in this life of the bridge
    entered,        \* passes in which it accepted plans of the enforced document
    closing,        \* "none" by day; in the window of the end-of-day close "asked",
                    \* and "done" once the core has carried out a close-all
    faults

brain == << drafting, draft >>
fallbackVars == << enforced, copy, fallback >>
pass == << pc, doc, at, waiting, submitted >>
core == << accepted, entered, closing >>
bvars == << file, fallbackVars, brain, pass, keys, up, core, faults >>

---------------------------------------------------------------------------
(* Data. *)

\* recent: a CLOSE_ALL of the last five minutes.  A SWING_CLOSE is a close to the
\* bridge and never recent to the brain, which looks for CLOSE_ALL only.
Action ==
    [kind : {"open"}, trade : Trades, note : Notes \cup {NoNote},
     consumed : BOOLEAN, recent : {FALSE}]
    \cup [kind : {"close"}, trade : {NoTrade}, note : {NoNote},
          consumed : BOOLEAN, recent : BOOLEAN]

Open(t, n) ==
    [kind |-> "open", trade |-> t, note |-> n, consumed |-> FALSE, recent |-> FALSE]
CloseAll ==
    [kind |-> "close", trade |-> NoTrade, note |-> NoNote, consumed |-> FALSE, recent |-> TRUE]
SwingClose == [CloseAll EXCEPT !.recent = FALSE]

\* the document with an action appended, truncated to its last Keep actions
Queued(a) ==
    LET s == Append(file, a)
    IN  IF Len(s) > Keep THEN SubSeq(s, Len(s) - Keep + 1, Len(s)) ELSE s

\* done: bridge_consumed; taken: consumed, the mark of the bot
Fallback(plans) == [plans |-> plans, done |-> FALSE, taken |-> FALSE]
NoFallback == Fallback(<< >>)

BridgeInit ==
    /\ file = << >>
    /\ enforced = NoFallback
    /\ copy = << >>
    /\ fallback = NoFallback
    /\ drafting = FALSE
    /\ draft = << >>
    /\ pc = "asleep"
    /\ doc = << >>
    /\ at = 1
    /\ waiting = FALSE
    /\ submitted = FALSE
    /\ keys = {}
    /\ up = TRUE
    /\ accepted = [t \in Trades |-> 0]
    /\ entered = 0
    /\ closing = "none"
    /\ faults = 0

Fault == faults < MaxFaults /\ faults' = faults + 1

---------------------------------------------------------------------------
(* The brain: one cycle at a time, a read of the file and then its         *)
(* replacement (read_json, write_json_atomic).                             *)

Drafting(actions) ==
    /\ ~drafting
    /\ drafting' = TRUE
    /\ draft' = actions
    /\ UNCHANGED << file, fallbackVars, pass, keys, up, core, faults >>

\* _write_quant_action: not when the same trade with the same rationale is there
DraftOpen(t, n) ==
    /\ closing = "none"
    /\ \A i \in DOMAIN file : << file[i].trade, file[i].note >> # << t, n >>
    /\ Drafting(Queued(Open(t, n)))

DraftSwingClose ==
    /\ closing = "none"
    /\ Drafting(Queued(SwingClose))

\* (mutation) a CLOSE_ALL is written once, however old the one in the file
DraftCloseAllOnce ==
    /\ closing # "none"
    /\ \A i \in DOMAIN file : file[i].kind # "close"
    /\ Drafting(Queued(CloseAll))

\* _write_close_all, in every cycle of the end-of-day window: not when the file
\* has a CLOSE_ALL of the last five minutes
DraftCloseAll ==
    /\ closing # "none"
    /\ \A i \in DOMAIN file : ~file[i].recent
    /\ Drafting(Queued(CloseAll))

\* the replacement fails when the bridge holds the file, or the brain dies
BrainWrite ==
    /\ drafting
    /\ drafting' = FALSE
    /\ draft' = << >>
    /\ \/ file' = draft /\ UNCHANGED faults
       \/ Fault /\ UNCHANGED file
    /\ UNCHANGED << fallbackVars, pass, keys, up, core >>

\* quant_service puts its own decision in place of the whole document, and empties
\* it of actions of which no leg was placed; the bot writes it back as it read it.
\* None of them counts on the other writers: each time is a fault here
ReplaceFile(actions) ==
    /\ Fault
    /\ file' = actions
    /\ UNCHANGED << fallbackVars, brain, pass, keys, up, core >>

---------------------------------------------------------------------------
(* The fallback document.  While the bridge or the bot is between its read *)
(* and its write, a new document counts as a fault, for either may replace *)
(* it by the old one.                                                      *)

WriteEnforced(plans) ==
    /\ enforced # Fallback(plans)
    /\ IF pc = "enforced" \/ copy # << >> THEN Fault ELSE UNCHANGED faults
    /\ enforced' = Fallback(plans)
    /\ entered' = 0
    /\ UNCHANGED << file, copy, fallback, brain, pass, keys, up, accepted, closing >>

\* (mutation) the bot takes up a document whatever its marks
BotReadsAgain ==
    /\ copy = << >>
    /\ enforced.plans # << >>
    /\ copy' = << enforced >>
    /\ UNCHANGED << file, enforced, fallback, brain, pass, keys, up, core, faults >>

\* The bot takes up a document without its own mark and places the legs of its
\* plans (what it makes of them: EnforcedOpens of BotOrders).
BotReads ==
    /\ copy = << >>
    /\ enforced.plans # << >> /\ ~enforced.taken
    /\ copy' = << enforced >>
    /\ UNCHANGED << file, enforced, fallback, brain, pass, keys, up, core, faults >>

\* It writes back what it read, with its mark; the write fails, or it dies.
BotMarks ==
    /\ copy # << >>
    /\ copy' = << >>
    /\ \/ enforced' = [copy[1] EXCEPT !.taken = TRUE] /\ UNCHANGED faults
       \/ Fault /\ UNCHANGED enforced
    /\ UNCHANGED << file, fallback, brain, pass, keys, up, core >>

\* It removes a document of more than 30 minutes.
BotDrops ==
    /\ copy = << >>
    /\ enforced.plans # << >>
    /\ enforced' = NoFallback
    /\ UNCHANGED << file, copy, fallback, brain, pass, keys, up, core, faults >>

---------------------------------------------------------------------------
(* Time. *)

Aged(actions) == [i \in DOMAIN actions |-> [actions[i] EXCEPT !.recent = FALSE]]

\* five minutes pass
Elapse ==
    /\ ~drafting
    /\ file' = Aged(file)
    /\ doc' = Aged(doc)
    /\ UNCHANGED << fallbackVars, brain, pc, at, waiting, submitted, keys, up, core, faults >>

\* _is_eod_close_time
EodOpens ==
    /\ closing = "none" /\ ~drafting
    /\ closing' = "asked"
    /\ UNCHANGED << file, fallbackVars, brain, pass, keys, up, accepted, entered, faults >>

EodEnds ==
    /\ closing # "none" /\ ~drafting
    /\ closing' = "none"
    /\ file' = Aged(file)
    /\ doc' = Aged(doc)
    /\ UNCHANGED << fallbackVars, brain, pc, at, waiting, submitted, keys, up, accepted,
                    entered, faults >>

---------------------------------------------------------------------------
(* The bridge: run_once, when the core is healthy.                         *)

Beginning(part, actions) ==
    /\ pc' = part
    /\ doc' = actions
    /\ at' = 1
    /\ waiting' = FALSE
    /\ submitted' = FALSE

StartPass ==
    /\ pc = "asleep" /\ up
    /\ Beginning("quant", file)
    /\ UNCHANGED << file, fallbackVars, brain, keys, up, core, faults >>

Current == doc[at]

\* (mutation) the rationale is part of the key, as it was before 2026-10-22
KeyWithNote(a) == << a.trade, a.note >>

\* the composite key: strategy, symbol and legs, and not the rationale
Key(a) == a.trade

\* what the bridge has dealt with already: a close by its mark, a plan by its key
Processed(a) == IF a.kind = "open" THEN Key(a) \in keys ELSE a.consumed

Unposted == pc # "asleep" /\ ~waiting /\ at <= Len(doc)

Skip ==
    /\ Unposted /\ pc = "quant" /\ Processed(Current)
    /\ at' = at + 1
    /\ UNCHANGED << file, fallbackVars, brain, pc, doc, waiting, submitted, keys, up, core,
                    faults >>

Post ==
    /\ Unposted
    /\ pc = "quant" => ~Processed(Current)
    /\ waiting' = TRUE
    /\ UNCHANGED << file, fallbackVars, brain, pc, doc, at, submitted, keys, up, core, faults >>

\* what the core does when it serves a request
Served(a) ==
    IF a.kind # "open"
    THEN closing' = (IF closing = "none" THEN "none" ELSE "done")
         /\ UNCHANGED << accepted, entered >>
    ELSE IF pc = "quant"
         THEN accepted' = [accepted EXCEPT ![a.trade] = @ + 1]
              /\ UNCHANGED << entered, closing >>
         ELSE entered' = (IF submitted THEN entered ELSE entered + 1)
              /\ UNCHANGED << accepted, closing >>

\* the bridge goes on: whatever the result, an action of the queue is marked in
\* the bridge's copy and the key of a plan is remembered
Answered(ok) ==
    /\ waiting' = FALSE
    /\ at' = at + 1
    /\ submitted' = (submitted \/ (ok /\ pc = "enforced"))
    /\ doc' = IF pc = "quant" THEN [doc EXCEPT ![at].consumed = TRUE] ELSE doc
    /\ keys' = IF pc = "quant" /\ Current.kind = "open" THEN keys \cup {Key(Current)} ELSE keys

\* HTTP 200
CoreAccepts ==
    /\ waiting /\ up
    /\ Served(Current)
    /\ Answered(TRUE)
    /\ UNCHANGED << file, fallbackVars, brain, pc, up, faults >>

\* HTTP 400 for a plan a gate refuses, no POST for one without legs, no
\* connection when the core is down
CoreRefuses ==
    /\ waiting
    /\ up => Current.kind = "open"
    /\ Answered(FALSE)
    /\ UNCHANGED << file, fallbackVars, brain, pc, up, core, faults >>

\* a timeout: the core may have served the request or not
AnswerLost ==
    /\ Fault
    /\ waiting /\ up
    /\ Served(Current) \/ UNCHANGED core
    /\ Answered(FALSE)
    /\ UNCHANGED << file, fallbackVars, brain, pc, up >>

\* a fallback document as a queue of trades
Actions(plans) == [i \in DOMAIN plans |-> Open(plans[i], NoNote)]

\* the end of process_quant_actions: the document read at its start replaces
\* the file when anything in it is marked; process_system_enforced follows, if
\* there is a fallback document the bridge has not marked
WriteBack ==
    /\ pc = "quant" /\ ~waiting /\ at > Len(doc)
    /\ LET marked == \E i \in DOMAIN doc : doc[i].consumed
       IN  \/ file' = (IF marked THEN doc ELSE file) /\ UNCHANGED faults
           \/ marked /\ Fault /\ UNCHANGED file
    /\ IF enforced.plans # << >> /\ ~enforced.done
       THEN Beginning("enforced", Actions(enforced.plans)) /\ fallback' = enforced
       ELSE Beginning("asleep", << >>) /\ UNCHANGED fallback
    /\ UNCHANGED << enforced, copy, brain, keys, up, core >>

\* the end of process_system_enforced: consumed when one plan was accepted
MarkEnforced ==
    /\ pc = "enforced" /\ ~waiting /\ at > Len(doc)
    /\ \/ /\ submitted
          /\ enforced' = [fallback EXCEPT !.done = TRUE]
          /\ UNCHANGED faults
       \/ submitted /\ Fault /\ UNCHANGED enforced
       \/ ~submitted /\ UNCHANGED << enforced, faults >>
    /\ Beginning("asleep", << >>)
    /\ fallback' = NoFallback
    /\ UNCHANGED << file, copy, brain, keys, up, core >>

---------------------------------------------------------------------------
(* Failures. *)

\* the keys are in the memory of the process
BridgeRestart ==
    /\ Fault
    /\ Beginning("asleep", << >>)
    /\ keys' = {}
    /\ fallback' = NoFallback
    /\ accepted' = [t \in Trades |-> 0]
    /\ UNCHANGED << file, enforced, copy, brain, up, entered, closing >>

CoreStops ==
    /\ Fault
    /\ up
    /\ up' = FALSE
    /\ UNCHANGED << file, fallbackVars, brain, pass, keys, core >>

CoreStarts ==
    /\ ~up
    /\ up' = TRUE
    /\ UNCHANGED << file, fallbackVars, brain, pass, keys, core, faults >>

Pass ==
    \/ StartPass \/ Skip \/ Post
    \/ CoreAccepts \/ CoreRefuses \/ AnswerLost
    \/ WriteBack \/ MarkEnforced

Brain ==
    \/ \E d \in Decisions : DraftOpen(d[1], d[2])
    \/ DraftSwingClose \/ DraftCloseAll
    \/ BrainWrite

Bot == BotReads \/ BotMarks \/ BotDrops

\* What other writers leave in quant_actions.json: one decision, or nothing.
Replacements ==
    {<< >>, << SwingClose >>} \cup {<< Open(d[1], d[2]) >> : d \in Decisions}

Environment ==
    \/ \E actions \in Replacements : ReplaceFile(actions)
    \/ \E plans \in EnforcedPlans : WriteEnforced(plans)
    \/ Elapse \/ EodOpens \/ EodEnds
    \/ BridgeRestart \/ CoreStops \/ CoreStarts

BridgeNext == Pass \/ Brain \/ Bot \/ Environment

BridgeSpec == BridgeInit /\ [][BridgeNext]_bvars

\* Both processes loop for ever, the core's supervisor restarts it and five
\* minutes always pass.  The bridge sleeps 5 seconds between passes, so a brain
\* that cycles on a timer of its own does not do all its reads and writes
\* inside the passes of the bridge.
BridgeFairness ==
    /\ WF_bvars(Pass)
    /\ WF_bvars(CoreStarts)
    /\ WF_bvars(Elapse)
    /\ SF_bvars(DraftCloseAll /\ pc = "asleep")
    /\ SF_bvars(BrainWrite /\ pc = "asleep")

FairBridgeSpec == BridgeSpec /\ BridgeFairness

---------------------------------------------------------------------------
(* Properties. *)

FlagsOK ==
    drafting \in BOOLEAN /\ waiting \in BOOLEAN /\ submitted \in BOOLEAN /\ up \in BOOLEAN

FallbackDocument ==
    [plans : EnforcedPlans \cup {<< >>}, done : BOOLEAN, taken : BOOLEAN]

FallbackOK ==
    /\ enforced \in FallbackDocument /\ fallback \in FallbackDocument
    /\ copy \in {<< >>} \cup {<< d >> : d \in FallbackDocument}

BridgeTypeOK ==
    /\ file \in Seq(Action) /\ draft \in Seq(Action) /\ doc \in Seq(Action)
    /\ FallbackOK
    /\ pc \in {"asleep", "quant", "enforced"}
    /\ at \in Nat \ {0}
    /\ FlagsOK
    /\ keys \subseteq Trades
    /\ accepted \in [Trades -> Nat] /\ entered \in Nat
    /\ closing \in {"none", "asked", "done"}
    /\ faults \in Nat

\* The queue keeps the promises of PlanInbox: in one life of the bridge a trade
\* of the queue becomes a plan of the core at most once, however often the brain
\* words it anew, whatever is clobbered, lost or refused in between, and a
\* close-all is only ever done of what was asked (process_quant_actions).
Inbox == INSTANCE PlanInbox
KeepsPromises == Inbox!Spec

\* Bridge and bot undo each other's marks on the fallback document, for each
\* writes back what it read before the other's write; yet until something fails
\* no document sends its plans to the core in more than two passes: the bot can
\* undo the bridge's mark once, and the bridge keeps the bot's the next time
\* (process_system_enforced, brain_bridge.py:523-553; __main__.py:2310-2420).
EnforcedEntersTwice == faults = 0 => entered <= 2

\* The close-all of the end-of-day window reaches the core while the window is
\* open: refused connections, lost answers, marks on failed posts and clobbered
\* writes only delay it (cycle, _write_close_all, brain_daemon.py:941-1091).
EodCloseReachesCore == closing = "asked" ~> closing # "asked"
=============================================================================
