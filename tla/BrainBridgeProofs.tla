-------------------------- MODULE BrainBridgeProofs --------------------------
(***************************************************************************)
(* Proofs about BrainBridge: its type invariant, that the queue keeps the  *)
(* promises of PlanInbox, and that the fallback document enters at most    *)
(* twice.                                                                  *)
(***************************************************************************)
EXTENDS BrainBridge, SequenceTheorems, TLAPS

\* The sequence operators the brain and the bridge apply to the actions of the
\* file keep them actions.
LEMMA QueuedType ==
    ASSUME BridgeParameters, BridgeTypeOK, NEW a \in Action
    PROVE  Queued(a) \in Seq(Action)
<1> DEFINE s == Append(file, a)
<1>1. s \in Seq(Action) BY DEF BridgeTypeOK
<1>2. Keep \in Nat /\ Keep >= 1 BY DEF BridgeParameters
<1>3. CASE Len(s) > Keep
  <2>1. Len(s) - Keep + 1 \in 1..(Len(s) + 1) BY <1>1, <1>2, <1>3, LenProperties
  <2>2. SubSeq(s, Len(s) - Keep + 1, Len(s)) \in Seq(Action)
    BY <1>1, <2>1, <1>2, <1>3, SubSeqProperties, LenProperties
  <2> QED BY <2>2, <1>3 DEF Queued
<1>4. CASE ~(Len(s) > Keep) BY <1>1, <1>4 DEF Queued
<1> QED BY <1>3, <1>4

LEMMA NewActions ==
    ASSUME BridgeParameters
    PROVE  /\ CloseAll \in Action /\ SwingClose \in Action
           /\ \A d \in Decisions : Open(d[1], d[2]) \in Action
           /\ \A t \in Trades : Open(t, NoNote) \in Action
           /\ Replacements \subseteq Seq(Action)
<1>1. /\ CloseAll \in Action /\ SwingClose \in Action
      /\ \A d \in Decisions : Open(d[1], d[2]) \in Action
      /\ \A t \in Trades : Open(t, NoNote) \in Action
  BY DEF BridgeParameters, CloseAll, SwingClose, Open, Action
<1>2. Replacements \subseteq Seq(Action)
  <2>1. << >> \in Seq(Action) BY EmptySeq
  <2>2. \A a \in Action : << a >> \in Seq(Action) OBVIOUS
  <2> QED BY <1>1, <2>1, <2>2 DEF Replacements
<1> QED BY <1>1, <1>2

LEMMA AgedType ==
    ASSUME NEW s \in Seq(Action)
    PROVE  /\ Aged(s) \in Seq(Action)
           /\ Len(Aged(s)) = Len(s)
           /\ \A i \in 1..Len(s) : /\ Aged(s)[i].kind = s[i].kind
                                   /\ Aged(s)[i].trade = s[i].trade
                                   /\ Aged(s)[i].consumed = s[i].consumed
<1>1. DOMAIN s = 1..Len(s) /\ Len(s) \in Nat BY LenProperties
<1>2. \A i \in 1..Len(s) : s[i] \in Action BY ElementOfSeq
<1>3. \A i \in 1..Len(s) : [s[i] EXCEPT !.recent = FALSE] \in Action BY <1>2 DEF Action
<1>4. Aged(s) = [i \in 1..Len(s) |-> [s[i] EXCEPT !.recent = FALSE]] BY <1>1 DEF Aged
<1>5. Aged(s) \in Seq(Action) /\ Len(Aged(s)) = Len(s)
  <2>1. Aged(s) \in [1..Len(s) -> Action] BY <1>3, <1>4
  <2> QED BY <2>1, <1>1, IsASeq, LenProperties
<1>6. \A i \in 1..Len(s) : /\ Aged(s)[i].kind = s[i].kind
                           /\ Aged(s)[i].trade = s[i].trade
                           /\ Aged(s)[i].consumed = s[i].consumed
  <2> SUFFICES ASSUME NEW i \in 1..Len(s)
               PROVE  /\ Aged(s)[i].kind = s[i].kind
                      /\ Aged(s)[i].trade = s[i].trade
                      /\ Aged(s)[i].consumed = s[i].consumed
    OBVIOUS
  <2>1. Aged(s)[i] = [s[i] EXCEPT !.recent = FALSE] BY <1>4
  <2> QED BY <2>1, <1>2 DEF Action
<1> QED BY <1>5, <1>6

LEMMA ConsumedType ==
    ASSUME NEW s \in Seq(Action), NEW k \in 1..Len(s)
    PROVE  /\ [s EXCEPT ![k].consumed = TRUE] \in Seq(Action)
           /\ Len([s EXCEPT ![k].consumed = TRUE]) = Len(s)
<1> DEFINE r == [s EXCEPT ![k].consumed = TRUE]
<1>1. DOMAIN s = 1..Len(s) /\ Len(s) \in Nat BY LenProperties
<1>2. \A i \in 1..Len(s) : s[i] \in Action BY ElementOfSeq
<1>3. [s[k] EXCEPT !.consumed = TRUE] \in Action BY <1>2 DEF Action
<1>4. r \in [1..Len(s) -> Action] BY <1>1, <1>2, <1>3
<1> QED BY <1>4, <1>1, IsASeq, LenProperties

LEMMA ActionsType ==
    ASSUME BridgeParameters, NEW p \in EnforcedPlans \cup {<< >>}
    PROVE  /\ Actions(p) \in Seq(Action)
           /\ Len(Actions(p)) = Len(p)
           /\ \A i \in 1..Len(p) : /\ Actions(p)[i].kind = "open"
                                   /\ Actions(p)[i].trade = p[i]
<1>1. p \in Seq(Trades) BY EmptySeq DEF BridgeParameters
<1>2. DOMAIN p = 1..Len(p) /\ Len(p) \in Nat BY <1>1, LenProperties
<1>3. \A i \in 1..Len(p) : Open(p[i], NoNote) \in Action BY <1>1, NewActions, ElementOfSeq
<1>4. Actions(p) = [i \in 1..Len(p) |-> Open(p[i], NoNote)] BY <1>2 DEF Actions
<1>5. Actions(p) \in [1..Len(p) -> Action] BY <1>3, <1>4
<1>6. Actions(p) \in Seq(Action) /\ Len(Actions(p)) = Len(p)
  BY <1>5, <1>2, IsASeq, LenProperties
<1>7. \A i \in 1..Len(p) : /\ Actions(p)[i].kind = "open"
                           /\ Actions(p)[i].trade = p[i]
  BY <1>4 DEF Open
<1> QED BY <1>6, <1>7

---------------------------------------------------------------------------
\* The bridge waits only for an action of its own copy it had not processed.
PassOK ==
    /\ pc = "asleep" => doc = << >> /\ ~waiting
    /\ pc # "enforced" => ~submitted
    /\ waiting => at <= Len(doc)
    /\ waiting /\ pc = "quant" => ~Processed(Current)

\* What was accepted in this life of the bridge is remembered.
KeysOK == \A t \in Trades : accepted[t] \in {0, 1} /\ (accepted[t] = 1 => t \in keys)

\* In its second part the bridge has plans before it.
EnforcedOK == pc = "enforced" => \A i \in 1..Len(doc) : doc[i].kind = "open"

Inductive == BridgeTypeOK /\ PassOK /\ KeysOK /\ EnforcedOK

LEMMA InitInductive ==
    ASSUME BridgeParameters, BridgeInit
    PROVE  Inductive
<1>1. << >> \in Seq(Action) BY EmptySeq
<1>2. FallbackOK
  BY DEF BridgeInit, NoFallback, Fallback, FallbackOK, FallbackDocument
<1>3. BridgeTypeOK
  <2>1. FlagsOK BY Zenon DEF BridgeInit, FlagsOK
  <2> QED BY <1>1, <1>2, <2>1 DEF BridgeInit, BridgeTypeOK
<1>4. PassOK /\ KeysOK /\ EnforcedOK BY DEF BridgeInit, PassOK, KeysOK, EnforcedOK
<1> QED BY <1>3, <1>4 DEF Inductive

\* The action the bridge waits for is one of the actions it read.
LEMMA CurrentIsRead ==
    ASSUME Inductive, waiting
    PROVE  /\ at \in 1..Len(doc) /\ Current \in Action
           /\ pc \in {"quant", "enforced"}
           /\ pc = "quant" /\ Current.kind = "open" =>
                 Current.trade \in Trades \ keys /\ accepted[Current.trade] = 0
<1>1. at \in 1..Len(doc) BY LenProperties DEF Inductive, PassOK, BridgeTypeOK
<1>2. Current \in Action BY <1>1, ElementOfSeq DEF Inductive, BridgeTypeOK, Current
<1>3. pc \in {"quant", "enforced"} BY DEF Inductive, PassOK, BridgeTypeOK
<1>4. ASSUME pc = "quant", Current.kind = "open"
      PROVE  Current.trade \in Trades \ keys /\ accepted[Current.trade] = 0
  <2>1. Current.trade \in Trades BY <1>2, <1>4 DEF Action
  <2>2. Current.trade \notin keys BY <1>4 DEF Inductive, PassOK, Processed, Key
  <2> QED BY <2>1, <2>2 DEF Inductive, KeysOK
<1> QED BY <1>1, <1>2, <1>3, <1>4

\* Whatever the answer, the bridge's state stays typed and remembers the key.
LEMMA AnsweredInductive ==
    ASSUME Inductive, waiting, NEW ok \in BOOLEAN, Answered(ok)
    PROVE  /\ doc' \in Seq(Action) /\ at' \in Nat \ {0}
           /\ waiting' = FALSE /\ submitted' \in BOOLEAN
           /\ keys' \subseteq Trades /\ keys \subseteq keys'
           /\ pc = "quant" /\ Current.kind = "open" => Current.trade \in keys'
<1>1. at \in 1..Len(doc) /\ Current \in Action BY CurrentIsRead
<1>2. doc \in Seq(Action) BY DEF Inductive, BridgeTypeOK
<1>3. doc' \in Seq(Action) BY <1>1, <1>2, ConsumedType DEF Answered
<1>4. at' \in Nat \ {0} BY DEF Answered, Inductive, BridgeTypeOK
<1>5. waiting' = FALSE /\ submitted' \in BOOLEAN BY DEF Answered, Inductive, BridgeTypeOK
<1>6. Current.kind = "open" => Current.trade \in Trades BY <1>1 DEF Action
<1>7. keys' \subseteq Trades /\ keys \subseteq keys'
  BY <1>6 DEF Answered, Key, Inductive, BridgeTypeOK
<1>8. pc = "quant" /\ Current.kind = "open" => Current.trade \in keys' BY DEF Answered, Key
<1> QED BY <1>3, <1>4, <1>5, <1>7, <1>8

\* What the core does for an action the bridge waits for.
LEMMA ServedCounts ==
    ASSUME Inductive, waiting, Served(Current) \/ UNCHANGED core
    PROVE  /\ accepted' \in [Trades -> Nat] /\ entered' \in Nat
           /\ closing' \in {"none", "asked", "done"}
           /\ \A t \in Trades : \/ accepted'[t] = accepted[t]
                                \/ /\ pc = "quant" /\ Current.kind = "open"
                                   /\ t = Current.trade /\ accepted'[t] = 1
<1>1. /\ accepted \in [Trades -> Nat] /\ entered \in Nat
      /\ closing \in {"none", "asked", "done"}
  BY DEF Inductive, BridgeTypeOK
<1>2. CASE UNCHANGED core BY <1>1, <1>2 DEF core
<1>3. CASE Served(Current) /\ Current.kind # "open" BY <1>1, <1>3 DEF Served
<1>4. CASE Served(Current) /\ Current.kind = "open" /\ pc = "quant"
  <2>1. accepted[Current.trade] = 0 /\ Current.trade \in Trades BY <1>4, CurrentIsRead
  <2>2. accepted' = [accepted EXCEPT ![Current.trade] = 1] BY <1>4, <2>1 DEF Served
  <2>3. UNCHANGED << entered, closing >> BY <1>4 DEF Served
  <2> QED BY <2>1, <2>2, <2>3, <1>1, <1>4
<1>5. CASE Served(Current) /\ Current.kind = "open" /\ pc # "quant"
  <2>1. UNCHANGED << accepted, closing >> BY <1>5 DEF Served
  <2>2. entered' = (IF submitted THEN entered ELSE entered + 1) BY <1>5 DEF Served
  <2> QED BY <2>1, <2>2, <1>1
<1> QED BY <1>2, <1>3, <1>4, <1>5

LEMMA AnswerInductive ==
    ASSUME Inductive, waiting, NEW ok \in BOOLEAN, Answered(ok),
           Served(Current) \/ UNCHANGED core,
           UNCHANGED << file, fallbackVars, brain, pc, up >>, faults' \in Nat
    PROVE  Inductive'
<1>0. FlagsOK' BY AnsweredInductive, Zenon DEF Inductive, BridgeTypeOK, FlagsOK, brain
<1>5. FallbackOK' BY DEF Inductive, BridgeTypeOK, FallbackOK, fallbackVars
<1>1. BridgeTypeOK'
  BY <1>0, <1>5, AnsweredInductive, ServedCounts DEF Inductive, BridgeTypeOK, brain
<1>4. EnforcedOK' BY DEF Inductive, EnforcedOK, Answered
<1>2. PassOK'
  <2>1. pc # "enforced" => ~submitted'
    BY DEF Inductive, BridgeTypeOK, FlagsOK, PassOK, Answered
  <2> QED BY <2>1, AnsweredInductive, CurrentIsRead DEF PassOK
<1>3. KeysOK'
  BY AnsweredInductive, ServedCounts DEF Inductive, KeysOK
<1> QED BY <1>1, <1>2, <1>3, <1>4 DEF Inductive

\* The flags of the three processes stay flags.
LEMMA FlagsStep ==
    ASSUME FlagsOK, [BridgeNext]_bvars
    PROVE  FlagsOK'
<1> USE DEF FlagsOK
<1>1. ASSUME NEW s, Drafting(s) PROVE FlagsOK'
  BY <1>1, Zenon DEF Drafting, pass
<1>2. CASE Brain
  <2>1. ASSUME NEW d \in Decisions, DraftOpen(d[1], d[2]) PROVE FlagsOK'
    BY <1>1, <2>1 DEF DraftOpen
  <2>2. CASE DraftSwingClose \/ DraftCloseAll
    BY <1>1, <2>2 DEF DraftSwingClose, DraftCloseAll
  <2>3. CASE BrainWrite BY <2>3, Zenon DEF BrainWrite, pass
  <2> QED BY <1>2, <2>1, <2>2, <2>3 DEF Brain
<1>3. CASE Environment
  <2>1. ASSUME NEW plans \in EnforcedPlans, WriteEnforced(plans) PROVE FlagsOK'
    BY <2>1, Zenon DEF WriteEnforced, brain, pass
  <2>8. ASSUME NEW actions \in Replacements, ReplaceFile(actions) PROVE FlagsOK'
    BY <2>8, Zenon DEF ReplaceFile, brain, pass
  <2>2. CASE Elapse BY <2>2, Zenon DEF Elapse, brain
  <2>3. CASE EodOpens BY <2>3, Zenon DEF EodOpens, brain, pass
  <2>4. CASE EodEnds BY <2>4, Zenon DEF EodEnds, brain
  <2>5. CASE BridgeRestart BY <2>5, Zenon DEF BridgeRestart, Beginning, brain
  <2>6. CASE CoreStops BY <2>6, Zenon DEF CoreStops, brain, pass
  <2>7. CASE CoreStarts BY <2>7, Zenon DEF CoreStarts, brain, pass
  <2> QED BY <1>3, <2>1, <2>2, <2>3, <2>4, <2>5, <2>6, <2>7, <2>8, Zenon DEF Environment
<1>6. CASE Bot
  BY <1>6, Zenon DEF Bot, BotReads, BotMarks, BotDrops, brain, pass
<1>4. CASE Pass
  <2>1. CASE StartPass BY <2>1, Zenon DEF StartPass, Beginning, brain
  <2>2. CASE Skip BY <2>2, Zenon DEF Skip, brain
  <2>3. CASE Post BY <2>3, Zenon DEF Post, brain
  <2>4. CASE CoreAccepts BY <2>4, Zenon DEF CoreAccepts, Answered, brain
  <2>5. CASE CoreRefuses BY <2>5, Zenon DEF CoreRefuses, Answered, brain
  <2>6. CASE AnswerLost BY <2>6, Zenon DEF AnswerLost, Answered, brain
  <2>7. CASE WriteBack BY <2>7, Zenon DEF WriteBack, Beginning, brain
  <2>8. CASE MarkEnforced BY <2>8, Zenon DEF MarkEnforced, Beginning, brain
  <2> QED BY <1>4, <2>1, <2>2, <2>3, <2>4, <2>5, <2>6, <2>7, <2>8, Zenon DEF Pass
<1>5. CASE UNCHANGED bvars BY <1>5, Zenon DEF bvars, brain, pass
<1> QED BY <1>2, <1>3, <1>4, <1>5, <1>6, Zenon DEF BridgeNext

\* So do the fallback document and the two copies of it.
LEMMA FallbackStep ==
    ASSUME BridgeParameters, FallbackOK, [BridgeNext]_bvars
    PROVE  FallbackOK'
<1>0. NoFallback \in FallbackDocument
      /\ \A p \in EnforcedPlans : Fallback(p) \in FallbackDocument
  BY DEF NoFallback, Fallback, FallbackDocument
<1>1. ASSUME UNCHANGED fallbackVars PROVE FallbackOK'
  BY <1>1 DEF FallbackOK, fallbackVars
<1>2. ASSUME enforced' \in FallbackDocument, fallback' \in FallbackDocument,
             UNCHANGED copy
      PROVE  FallbackOK'
  BY <1>2 DEF FallbackOK
<1>3. enforced \in FallbackDocument /\ fallback \in FallbackDocument
  BY DEF FallbackOK
<1>4. CASE Brain
  BY <1>1, <1>4 DEF Brain, DraftOpen, DraftSwingClose, DraftCloseAll, Drafting, BrainWrite
<1>5. CASE Environment
  <2>1. ASSUME NEW plans \in EnforcedPlans, WriteEnforced(plans) PROVE FallbackOK'
    BY <1>0, <1>2, <1>3, <2>1 DEF WriteEnforced
  <2>2. CASE BridgeRestart BY <1>0, <1>2, <1>3, <2>2 DEF BridgeRestart
  <2>3. CASE (\E actions \in Replacements : ReplaceFile(actions))
             \/ Elapse \/ EodOpens \/ EodEnds \/ CoreStops \/ CoreStarts
    BY <1>1, <2>3 DEF ReplaceFile, Elapse, EodOpens, EodEnds, CoreStops, CoreStarts
  <2> QED BY <1>5, <2>1, <2>2, <2>3 DEF Environment
<1>6. CASE Bot
  <2>1. CASE BotReads
    <3>1. copy' \in {<< d >> : d \in FallbackDocument} BY <1>3, <2>1 DEF BotReads
    <3>2. UNCHANGED << enforced, fallback >> BY <2>1 DEF BotReads
    <3> QED BY <1>3, <3>1, <3>2 DEF FallbackOK
  <2>2. CASE BotMarks
    <3>1. copy # << >> /\ copy' = << >> /\ fallback' = fallback
      BY <2>2 DEF BotMarks
    <3>2. PICK d \in FallbackDocument : copy = << d >> BY <3>1 DEF FallbackOK
    <3>3. copy[1] = d BY <3>2
    <3>4. [d EXCEPT !.taken = TRUE] \in FallbackDocument BY DEF FallbackDocument
    <3>5. enforced' \in FallbackDocument BY <1>3, <2>2, <3>3, <3>4 DEF BotMarks
    <3> QED BY <1>3, <3>1, <3>5 DEF FallbackOK
  <2>3. CASE BotDrops BY <1>0, <1>2, <1>3, <2>3 DEF BotDrops
  <2> QED BY <1>6, <2>1, <2>2, <2>3 DEF Bot
<1>7. CASE Pass
  <2>1. CASE WriteBack
    <3>1. fallback' = enforced \/ fallback' = fallback BY <2>1 DEF WriteBack
    <3>2. UNCHANGED << enforced, copy >> BY <2>1 DEF WriteBack
    <3> QED BY <1>2, <1>3, <3>1, <3>2
  <2>2. CASE MarkEnforced
    <3>1. [fallback EXCEPT !.done = TRUE] \in FallbackDocument
      BY <1>3 DEF FallbackDocument
    <3>2. enforced' \in FallbackDocument BY <1>3, <2>2, <3>1 DEF MarkEnforced
    <3> QED BY <1>0, <1>2, <2>2, <3>2 DEF MarkEnforced
  <2>3. CASE StartPass \/ Skip \/ Post \/ CoreAccepts \/ CoreRefuses \/ AnswerLost
    BY <1>1, <2>3 DEF StartPass, Skip, Post, CoreAccepts, CoreRefuses, AnswerLost
  <2> QED BY <1>7, <2>1, <2>2, <2>3 DEF Pass
<1>8. CASE UNCHANGED bvars BY <1>1, <1>8 DEF bvars
<1> QED BY <1>4, <1>5, <1>6, <1>7, <1>8 DEF BridgeNext

LEMMA StepInductive ==
    ASSUME BridgeParameters, Inductive, [BridgeNext]_bvars
    PROVE  Inductive'
<1> USE DEF Inductive
<1>f. MaxFaults \in Nat /\ faults \in Nat BY DEF BridgeParameters, BridgeTypeOK
<1>e. << >> \in Seq(Action) BY EmptySeq
<1>0. FlagsOK' /\ FallbackOK' BY FlagsStep, FallbackStep DEF BridgeTypeOK
<1>1. ASSUME NEW a \in Action, Drafting(Queued(a)) PROVE Inductive'
  <2>1. BridgeTypeOK'
    BY <1>0, <1>1, QueuedType DEF Drafting, BridgeTypeOK, pass, core
  <2>2. PassOK' /\ KeysOK' /\ EnforcedOK'
    BY <1>1 DEF EnforcedOK, Drafting, PassOK, KeysOK, Processed, Current, pass, core
  <2> QED BY <2>1, <2>2
<1>2. ASSUME NEW d \in Decisions, DraftOpen(d[1], d[2]) PROVE Inductive'
  BY <1>1, <1>2, NewActions DEF DraftOpen
<1>3. CASE DraftSwingClose BY <1>1, <1>3, NewActions DEF DraftSwingClose
<1>4. CASE DraftCloseAll BY <1>1, <1>4, NewActions DEF DraftCloseAll
<1>5. CASE BrainWrite
  <2>1. BridgeTypeOK' BY <1>0, <1>5, <1>f, <1>e DEF BrainWrite, Fault, BridgeTypeOK, pass, core
  <2>2. PassOK' /\ KeysOK' /\ EnforcedOK'
    BY <1>5 DEF EnforcedOK, BrainWrite, PassOK, KeysOK, Processed, Current, pass, core
  <2> QED BY <2>1, <2>2
<1>6. ASSUME NEW plans \in EnforcedPlans, WriteEnforced(plans) PROVE Inductive'
  <2>1. BridgeTypeOK' BY <1>0, <1>6, <1>f DEF WriteEnforced, Fault, BridgeTypeOK, brain, pass
  <2>2. PassOK' /\ KeysOK' /\ EnforcedOK'
    BY <1>6 DEF EnforcedOK, WriteEnforced, PassOK, KeysOK, Processed, Current, pass
  <2> QED BY <2>1, <2>2
<1>23. ASSUME NEW actions \in Replacements, ReplaceFile(actions) PROVE Inductive'
  <2>1. BridgeTypeOK'
    BY <1>0, <1>23, <1>f, NewActions DEF ReplaceFile, Fault, BridgeTypeOK, brain, pass, core
  <2>2. PassOK' /\ KeysOK' /\ EnforcedOK'
    BY <1>23 DEF EnforcedOK, ReplaceFile, PassOK, KeysOK, Processed, Current, pass, core
  <2> QED BY <2>1, <2>2
<1>24. CASE Bot
  <2>1. /\ UNCHANGED << file, brain, pass, keys, up, core >>
        /\ UNCHANGED faults \/ Fault
    BY <1>24 DEF Bot, BotReads, BotMarks, BotDrops
  <2>2. BridgeTypeOK'
    BY <1>0, <1>f, <2>1 DEF Fault, BridgeTypeOK, brain, pass, core
  <2>3. PassOK' /\ KeysOK' /\ EnforcedOK'
    BY <2>1 DEF EnforcedOK, PassOK, KeysOK, Processed, Current, pass, core
  <2> QED BY <2>2, <2>3
<1>7. ASSUME doc' = Aged(doc), UNCHANGED << pc, at, waiting, submitted, keys, accepted >>
      PROVE  PassOK' /\ KeysOK' /\ EnforcedOK'
  <2>1. /\ Len(doc') = Len(doc)
        /\ \A i \in 1..Len(doc) : /\ doc'[i].kind = doc[i].kind
                                  /\ doc'[i].trade = doc[i].trade
                                  /\ doc'[i].consumed = doc[i].consumed
    BY <1>7, AgedType DEF BridgeTypeOK
  <2>2. doc = << >> => doc' = << >>
    BY <1>7, <2>1, AgedType, LenProperties DEF BridgeTypeOK, Aged
  <2>3. KeysOK' BY <1>7 DEF KeysOK
  <2>4. waiting' /\ pc' = "quant" => ~Processed(Current)'
    <3> SUFFICES ASSUME waiting', pc' = "quant" PROVE ~Processed(Current)'
      OBVIOUS
    <3>1. waiting /\ pc = "quant" BY <1>7
    <3>2. at \in 1..Len(doc) BY <3>1, CurrentIsRead
    <3>3. ~Processed(Current) BY <3>1 DEF PassOK
    <3> QED BY <3>2, <3>3, <2>1, <1>7 DEF Processed, Key, Current
  <2>5. EnforcedOK' BY <1>7, <2>1 DEF EnforcedOK
  <2> QED BY <2>1, <2>2, <2>3, <2>4, <2>5, <1>7 DEF PassOK
<1>8. CASE Elapse
  <2>1. BridgeTypeOK' BY <1>0, <1>8, AgedType DEF Elapse, BridgeTypeOK, brain, core
  <2> QED BY <1>7, <1>8, <2>1 DEF Elapse, core
<1>9. CASE EodOpens
  <2>1. BridgeTypeOK' BY <1>0, <1>9 DEF EodOpens, BridgeTypeOK, brain, pass
  <2>2. PassOK' /\ KeysOK' /\ EnforcedOK' BY <1>9 DEF EnforcedOK, EodOpens, PassOK, KeysOK, Processed, Current, pass
  <2> QED BY <2>1, <2>2
<1>10. CASE EodEnds
  <2>1. BridgeTypeOK' BY <1>0, <1>10, AgedType DEF EodEnds, BridgeTypeOK, brain
  <2> QED BY <1>7, <1>10, <2>1 DEF EodEnds
<1>11. CASE StartPass
  <2>1. BridgeTypeOK' BY <1>0, <1>11 DEF StartPass, Beginning, BridgeTypeOK, brain, core
  <2>2. PassOK' /\ KeysOK' /\ EnforcedOK' BY <1>11 DEF EnforcedOK, StartPass, Beginning, PassOK, KeysOK, core
  <2> QED BY <2>1, <2>2
<1>12. CASE Skip
  <2>1. BridgeTypeOK' BY <1>0, <1>12 DEF Skip, BridgeTypeOK, brain, core
  <2>2. PassOK' /\ KeysOK' /\ EnforcedOK' BY <1>12 DEF EnforcedOK, Skip, Unposted, PassOK, KeysOK, core
  <2> QED BY <2>1, <2>2
<1>13. CASE Post
  <2>1. BridgeTypeOK' BY <1>0, <1>13 DEF Post, BridgeTypeOK, brain, core
  <2>2. PassOK' /\ KeysOK' /\ EnforcedOK'
    BY <1>13 DEF EnforcedOK, Post, Unposted, PassOK, KeysOK, Processed, Current, core
  <2> QED BY <2>1, <2>2
<1>14. CASE CoreAccepts
  BY <1>14, <1>f, AnswerInductive DEF CoreAccepts
<1>15. CASE CoreRefuses
  BY <1>15, <1>f, AnswerInductive DEF CoreRefuses
<1>16. CASE AnswerLost
  <2>1. faults' \in Nat BY <1>16, <1>f DEF AnswerLost, Fault
  <2>2. Served(Current) \/ UNCHANGED core BY <1>16 DEF AnswerLost
  <2>3. waiting /\ Answered(FALSE) /\ UNCHANGED << file, fallbackVars, brain, pc, up >>
    BY <1>16 DEF AnswerLost
  <2> QED BY <2>1, <2>2, <2>3, AnswerInductive
<1>17. CASE WriteBack
  <2>1. /\ Actions(enforced.plans) \in Seq(Action)
        /\ \A i \in 1..Len(Actions(enforced.plans)) :
              Actions(enforced.plans)[i].kind = "open"
    <3>1. enforced.plans \in EnforcedPlans \cup {<< >>}
      BY DEF BridgeTypeOK, FallbackOK, FallbackDocument
    <3> QED BY <3>1, ActionsType
  <2>4. /\ pc' \in {"asleep", "quant", "enforced"} /\ at' \in Nat \ {0}
        /\ doc' \in Seq(Action)
    <3>1. \/ Beginning("enforced", Actions(enforced.plans)) \/ Beginning("asleep", << >>)
      BY <1>17 DEF WriteBack
    <3>2. \/ doc' = << >> \/ doc' = Actions(enforced.plans)
      BY <3>1 DEF Beginning
    <3>3. doc' \in Seq(Action) BY <2>1, <3>2, <1>e
    <3>4. pc' \in {"asleep", "enforced"} /\ at' = 1 BY <3>1 DEF Beginning
    <3> QED BY <3>3, <3>4
  <2>6. file' \in Seq(Action) /\ faults' \in Nat
    BY <1>17, <1>f DEF WriteBack, Fault, BridgeTypeOK
  <2>7. UNCHANGED << brain, keys, core >> BY <1>17 DEF WriteBack
  <2>2. BridgeTypeOK' BY <1>0, <2>4, <2>6, <2>7 DEF BridgeTypeOK, brain, core
  <2>3. PassOK' /\ KeysOK' BY <1>17 DEF WriteBack, Beginning, PassOK, KeysOK, core
  <2>5. EnforcedOK' BY <1>17, <2>1 DEF WriteBack, Beginning, EnforcedOK
  <2> QED BY <2>2, <2>3, <2>5
<1>22. CASE MarkEnforced
  <2>2. BridgeTypeOK'
    BY <1>0, <1>22, <1>e, <1>f, SMTT(30) DEF MarkEnforced, Fault, Beginning, BridgeTypeOK, brain, core
  <2>3. PassOK' /\ KeysOK' /\ EnforcedOK' BY <1>22 DEF EnforcedOK, MarkEnforced, Beginning, PassOK, KeysOK, core
  <2> QED BY <2>2, <2>3
<1>18. CASE BridgeRestart
  <2>1. BridgeTypeOK' BY <1>0, <1>18, <1>e, <1>f DEF BridgeRestart, Fault, Beginning, BridgeTypeOK, brain
  <2>2. PassOK' /\ KeysOK' /\ EnforcedOK' BY <1>18 DEF EnforcedOK, BridgeRestart, Beginning, PassOK, KeysOK
  <2> QED BY <2>1, <2>2
<1>19. CASE CoreStops
  <2>1. BridgeTypeOK' BY <1>0, <1>19, <1>f DEF CoreStops, Fault, BridgeTypeOK, brain, pass, core
  <2>2. PassOK' /\ KeysOK' /\ EnforcedOK'
    BY <1>19 DEF EnforcedOK, CoreStops, PassOK, KeysOK, Processed, Current, pass, core
  <2> QED BY <2>1, <2>2
<1>20. CASE CoreStarts
  <2>1. BridgeTypeOK' BY <1>0, <1>20 DEF CoreStarts, BridgeTypeOK, brain, pass, core
  <2>2. PassOK' /\ KeysOK' /\ EnforcedOK'
    BY <1>20 DEF EnforcedOK, CoreStarts, PassOK, KeysOK, Processed, Current, pass, core
  <2> QED BY <2>1, <2>2
<1>21. CASE UNCHANGED bvars
  <2>1. BridgeTypeOK' BY <1>0, <1>21 DEF bvars, BridgeTypeOK, brain, pass, core
  <2>2. PassOK' /\ KeysOK' /\ EnforcedOK'
    BY <1>21 DEF EnforcedOK, bvars, PassOK, KeysOK, Processed, Current, brain, pass, core
  <2> QED BY <2>1, <2>2
<1> QED
  BY <1>2, <1>3, <1>4, <1>5, <1>6, <1>8, <1>9, <1>10, <1>11, <1>12, <1>13, <1>14, <1>15,
     <1>16, <1>17, <1>18, <1>19, <1>20, <1>21, <1>22, <1>23, <1>24
  DEF BridgeNext, Pass, Brain, Environment

\* The state stays typed, and what the proofs below use of it stays true.
THEOREM BridgeTypeCorrect == BridgeSpec => []BridgeTypeOK
<1>1. BridgeInit => Inductive BY BridgeParameters, InitInductive
<1>2. Inductive /\ [BridgeNext]_bvars => Inductive' BY BridgeParameters, StepInductive
<1>3. Inductive => BridgeTypeOK BY DEF Inductive
<1> QED BY <1>1, <1>2, <1>3, PTL DEF BridgeSpec

---------------------------------------------------------------------------
\* Every step of the brain, the bridge and their environment is a step of the
\* inbox or leaves it alone.
LEMMA StepKeepsPromises ==
    ASSUME BridgeParameters, Inductive, [BridgeNext]_bvars
    PROVE  [Inbox!Next]_(Inbox!ivars)
<1> USE DEF Inbox!ivars
<1>1. ASSUME UNCHANGED << accepted, closing >> PROVE [Inbox!Next]_(Inbox!ivars)
  BY <1>1
<1>2. CASE Brain
  BY <1>1, <1>2 DEF Brain, DraftOpen, DraftSwingClose, DraftCloseAll, Drafting, BrainWrite, core
<1>3. CASE Environment
  <2>1. CASE EodOpens BY <2>1 DEF EodOpens, Inbox!Next, Inbox!Ask
  <2>2. CASE EodEnds BY <2>2 DEF EodEnds, Inbox!Next, Inbox!DayOver
  <2>3. CASE BridgeRestart BY <2>3 DEF BridgeRestart, Inbox!Next, Inbox!NewLife
  <2>4. CASE Elapse \/ CoreStops \/ CoreStarts
    BY <1>1, <2>4 DEF Elapse, CoreStops, CoreStarts, core
  <2>5. ASSUME NEW plans \in EnforcedPlans, WriteEnforced(plans)
        PROVE  [Inbox!Next]_(Inbox!ivars)
    BY <1>1, <2>5 DEF WriteEnforced
  <2>6. ASSUME NEW actions \in Replacements, ReplaceFile(actions)
        PROVE  [Inbox!Next]_(Inbox!ivars)
    BY <1>1, <2>6 DEF ReplaceFile, core
  <2> QED BY <1>3, <2>1, <2>2, <2>3, <2>4, <2>5, <2>6 DEF Environment
<1>7. CASE Bot BY <1>1, <1>7 DEF Bot, BotReads, BotMarks, BotDrops, core
<1>4. ASSUME waiting, Served(Current) PROVE [Inbox!Next]_(Inbox!ivars)
  <2>1. closing \in {"none", "asked", "done"} BY DEF Inductive, BridgeTypeOK
  <2>2. CASE Current.kind # "open"
    BY <1>4, <2>1, <2>2 DEF Served, Inbox!Next, Inbox!CloseAll
  <2>3. CASE Current.kind = "open" /\ pc = "quant"
    <3>1. Current.trade \in Trades /\ accepted[Current.trade] = 0
      BY <1>4, <2>3, CurrentIsRead
    <3>2. Inbox!Accept(Current.trade) BY <1>4, <2>3, <3>1 DEF Served, Inbox!Accept
    <3> QED BY <3>1, <3>2 DEF Inbox!Next
  <2>4. CASE Current.kind = "open" /\ pc # "quant" BY <1>1, <1>4, <2>4 DEF Served
  <2> QED BY <2>2, <2>3, <2>4
<1>5. CASE Pass
  <2>1. CASE StartPass \/ Skip \/ Post \/ CoreRefuses \/ WriteBack \/ MarkEnforced
    BY <1>1, <2>1 DEF StartPass, Skip, Post, CoreRefuses, WriteBack, MarkEnforced, core
  <2>2. CASE CoreAccepts BY <1>4, <2>2 DEF CoreAccepts
  <2>3. CASE AnswerLost BY <1>1, <1>4, <2>3 DEF AnswerLost, core
  <2> QED BY <1>5, <2>1, <2>2, <2>3 DEF Pass
<1>6. CASE UNCHANGED bvars BY <1>1, <1>6 DEF bvars, core
<1> QED BY <1>2, <1>3, <1>5, <1>6, <1>7 DEF BridgeNext

\* The file, the passes and the POSTs implement PlanInbox: within a life of the
\* bridge a trade of the queue becomes a plan at most once, for any number of
\* trades, rationales, kept actions and faults.
THEOREM QueueKeepsPromises == BridgeSpec => KeepsPromises
<1>1. BridgeInit => Inductive BY BridgeParameters, InitInductive
<1>2. Inductive /\ [BridgeNext]_bvars => Inductive' BY BridgeParameters, StepInductive
<1>3. BridgeInit => Inbox!Init BY DEF BridgeInit, Inbox!Init
<1>4. Inductive /\ [BridgeNext]_bvars => [Inbox!Next]_(Inbox!ivars)
  BY BridgeParameters, StepKeepsPromises
<1> QED BY <1>1, <1>2, <1>3, <1>4, PTL DEF BridgeSpec, KeepsPromises, Inbox!Spec

---------------------------------------------------------------------------
\* A document the bridge would enter, and the pass that enters it just now.
Live == enforced.plans # << >> /\ ~enforced.done
Round == IF submitted THEN 1 ELSE 0

\* While nothing fails: the bot holds no copy of a document with its own mark,
\* so it can undo the mark of the bridge only before its own is there; and what
\* the bridge enters a second time has the bot's mark, which the bridge keeps.
Faultless ==
    /\ entered <= 2
    /\ enforced.taken => copy = << >>
    /\ copy # << >> => ~copy[1].taken
    /\ copy # << >> /\ ~copy[1].done => entered <= 1
    /\ pc # "enforced" /\ Live => entered = 0 \/ (enforced.taken /\ entered = 1)
    /\ pc = "enforced" => entered = Round \/ (fallback.taken /\ entered = 1 + Round)
    /\ pc = "enforced" /\ fallback.taken =>
          copy = << >> /\ (enforced.taken \/ enforced.plans = << >>)

FaultlessSoFar == faults = 0 => Faultless

LEMMA StepFaultless ==
    ASSUME BridgeParameters, Inductive, FaultlessSoFar, [BridgeNext]_bvars
    PROVE  FaultlessSoFar'
<1>f. faults \in Nat /\ entered \in Nat BY DEF Inductive, BridgeTypeOK
<1>1. SUFFICES ASSUME faults' = 0 PROVE Faultless'
  BY DEF FaultlessSoFar
<1>2. ASSUME Fault PROVE FALSE BY <1>1, <1>2, <1>f DEF Fault
<1>d. /\ enforced \in FallbackDocument /\ fallback \in FallbackDocument
      /\ copy \in {<< >>} \cup {<< d >> : d \in FallbackDocument}
  BY DEF Inductive, BridgeTypeOK, FallbackOK
<1>3. ASSUME UNCHANGED << entered, fallbackVars, pc, submitted, faults >>
      PROVE  Faultless'
  BY <1>1, <1>3 DEF FaultlessSoFar, Faultless, Live, Round, fallbackVars
<1>4. CASE Brain
  BY <1>2, <1>3, <1>4
  DEF Brain, DraftOpen, DraftSwingClose, DraftCloseAll, Drafting, BrainWrite, core, pass
<1>5. CASE Environment
  <2>1. ASSUME NEW plans \in EnforcedPlans, WriteEnforced(plans) PROVE Faultless'
    <3>1. /\ pc # "enforced" /\ copy = << >> /\ entered' = 0
          /\ pc' = pc /\ copy' = copy
      BY <1>2, <2>1 DEF WriteEnforced, pass
    <3> QED BY <3>1 DEF Faultless
  <2>2. CASE Elapse \/ EodEnds \/ EodOpens \/ CoreStarts
    BY <1>3, <2>2 DEF Elapse, EodEnds, EodOpens, CoreStarts, core, pass
  <2>3. CASE BridgeRestart \/ CoreStops \/ \E actions \in Replacements : ReplaceFile(actions)
    BY <1>2, <2>3 DEF BridgeRestart, CoreStops, ReplaceFile
  <2> QED BY <1>5, <2>1, <2>2, <2>3 DEF Environment
<1>6. CASE Bot
  <2>1. UNCHANGED << pc, submitted, fallback, entered >>
    BY <1>6 DEF Bot, BotReads, BotMarks, BotDrops, pass, core
  <2>2. faults = 0 /\ Faultless
    <3>1. UNCHANGED faults BY <1>2, <1>6 DEF Bot, BotReads, BotMarks, BotDrops
    <3> QED BY <3>1, <1>1 DEF FaultlessSoFar
  <2>3. CASE BotReads
    <3>1. /\ copy = << >> /\ enforced' = enforced /\ ~enforced.taken
          /\ enforced.plans # << >> /\ copy' = << enforced >>
      BY <2>3 DEF BotReads
    <3>2. copy'[1] = enforced BY <3>1
    <3>3. pc # "enforced" \/ ~fallback.taken BY <2>2, <3>1 DEF Faultless
    <3>4. ~enforced.done => entered <= 1
      BY <2>2, <3>1, <3>3 DEF Faultless, Live, Round
    <3> QED BY <2>1, <2>2, <3>1, <3>2, <3>3, <3>4 DEF Faultless, Live, Round
  <2>4. CASE BotMarks
    <3>1. copy # << >> /\ copy' = << >> /\ enforced' = [copy[1] EXCEPT !.taken = TRUE]
      BY <1>2, <2>4 DEF BotMarks
    <3>2. PICK d \in FallbackDocument : copy = << d >> BY <1>d, <3>1
    <3>3. copy[1] = d BY <3>2
    <3>4. enforced'.taken /\ enforced'.done = d.done
      BY <3>1, <3>3 DEF FallbackDocument
    <3>5. pc # "enforced" \/ ~fallback.taken BY <2>2, <3>1 DEF Faultless
    <3>6. Live' => entered = 0 \/ entered = 1
      BY <1>f, <2>2, <3>1, <3>3, <3>4 DEF Faultless, Live
    <3> QED BY <2>1, <2>2, <3>1, <3>4, <3>5, <3>6 DEF Faultless, Round
  <2>5. CASE BotDrops
    <3>1. /\ copy = << >> /\ copy' = << >> /\ enforced'.plans = << >>
          /\ ~enforced'.taken
      BY <2>5 DEF BotDrops, NoFallback, Fallback
    <3> QED BY <2>1, <2>2, <3>1 DEF Faultless, Live, Round
  <2> QED BY <1>6, <2>3, <2>4, <2>5 DEF Bot
<1>7. CASE StartPass
  <2>1. /\ UNCHANGED << entered, fallbackVars, faults >> /\ pc = "asleep"
        /\ pc' = "quant"
    BY <1>7 DEF StartPass, Beginning, core
  <2> QED BY <2>1, <1>1 DEF FaultlessSoFar, Faultless, Live, fallbackVars
<1>8. CASE Skip \/ Post BY <1>3, <1>8 DEF Skip, Post, core
<1>9. ASSUME waiting, faults = 0, UNCHANGED << pc, fallbackVars >>, NEW ok \in BOOLEAN,
             Answered(ok), (ok /\ Served(Current)) \/ (~ok /\ UNCHANGED core)
      PROVE  Faultless'
  <2>0. Faultless BY <1>9 DEF FaultlessSoFar
  <2>1. at \in 1..Len(doc) /\ pc \in {"quant", "enforced"} BY <1>9, CurrentIsRead
  <2>2. submitted \in BOOLEAN /\ submitted' = (submitted \/ (ok /\ pc = "enforced"))
    BY <1>9 DEF Answered, Inductive, BridgeTypeOK, FlagsOK
  <2>3. CASE ~ok \/ pc = "quant"
    <3>1. entered' = entered BY <1>9, <2>3 DEF Served, core
    <3>2. submitted' = submitted BY <2>2, <2>3
    <3> QED BY <1>9, <2>0, <3>1, <3>2 DEF Faultless, Live, Round, fallbackVars
  <2>4. CASE ok /\ pc = "enforced"
    <3>1. Current.kind = "open" BY <2>1, <2>4 DEF Inductive, EnforcedOK, Current
    <3>2. entered' = (IF submitted THEN entered ELSE entered + 1)
      BY <1>9, <2>4, <3>1 DEF Served
    <3>3. submitted' BY <2>2, <2>4
    <3>4. entered' = Round' \/ (fallback.taken /\ entered' = 1 + Round')
      BY <1>f, <2>0, <2>4, <3>2, <3>3 DEF Faultless, Round
    <3>5. copy # << >> => ~fallback.taken BY <2>0, <2>4 DEF Faultless
    <3>6. Round' = 1 BY <3>3 DEF Round
    <3>7. UNCHANGED << enforced, copy, fallback >> /\ pc' = "enforced"
      BY <1>9, <2>4 DEF fallbackVars
    <3>8. entered' <= 2 /\ (copy # << >> => entered' <= 1) BY <3>4, <3>5, <3>6
    <3> QED BY <2>0, <2>4, <3>4, <3>7, <3>8 DEF Faultless
  <2> QED BY <2>1, <2>3, <2>4, <1>9
<1>10. CASE CoreAccepts
  <2>1. waiting /\ faults = 0 /\ UNCHANGED << pc, fallbackVars >> /\ Answered(TRUE)
        /\ Served(Current)
    BY <1>1, <1>10 DEF CoreAccepts
  <2> QED BY <1>9, <2>1
<1>11. CASE CoreRefuses
  <2>1. waiting /\ faults = 0 /\ UNCHANGED << pc, fallbackVars, core >> /\ Answered(FALSE)
    BY <1>1, <1>11 DEF CoreRefuses
  <2> QED BY <1>9, <2>1
<1>12. CASE AnswerLost BY <1>2, <1>12 DEF AnswerLost
<1>13. CASE WriteBack
  <2>1. /\ faults = 0 /\ UNCHANGED << enforced, copy, entered >> /\ pc = "quant"
        /\ submitted' = FALSE
        /\ \/ Live /\ pc' = "enforced" /\ fallback' = enforced
           \/ ~Live /\ pc' = "asleep" /\ fallback' = fallback
    BY <1>1, <1>2, <1>13 DEF WriteBack, Beginning, core, Live
  <2>2. Faultless BY <2>1 DEF FaultlessSoFar
  <2> QED BY <2>1, <2>2 DEF Faultless, Live, Round
<1>14. CASE MarkEnforced
  <2>1. /\ faults = 0 /\ UNCHANGED << entered, copy >> /\ pc = "enforced" /\ pc' = "asleep"
    BY <1>1, <1>2, <1>14 DEF MarkEnforced, Beginning, core
  <2>2. Faultless BY <2>1 DEF FaultlessSoFar
  <2>3. CASE submitted
    <3>1. enforced' = [fallback EXCEPT !.done = TRUE] BY <1>2, <1>14, <2>3 DEF MarkEnforced
    <3>2. enforced'.done /\ enforced'.taken = fallback.taken
      BY <1>d, <3>1 DEF FallbackDocument
    <3> QED BY <2>1, <2>2, <3>2 DEF Faultless, Live
  <2>4. CASE ~submitted
    <3>1. UNCHANGED enforced BY <1>14, <2>4 DEF MarkEnforced
    <3>2. entered = 0 \/ (fallback.taken /\ entered = 1)
      BY <2>1, <2>2, <2>4 DEF Faultless, Round
    <3> QED BY <2>1, <2>2, <3>1, <3>2 DEF Faultless, Live
  <2> QED BY <2>3, <2>4
<1>15. CASE UNCHANGED bvars BY <1>3, <1>15 DEF bvars, core, pass
<1> QED
  BY <1>4, <1>5, <1>6, <1>7, <1>8, <1>10, <1>11, <1>12, <1>13, <1>14, <1>15
  DEF BridgeNext, Pass

\* Until something fails, no fallback document sends its plans to the core in
\* more than two passes of the bridge, whatever the bot writes over it
\* (EnforcedEntersTwice).
THEOREM FallbackEntersTwice == BridgeSpec => []EnforcedEntersTwice
<1>1. BridgeInit => Inductive /\ FaultlessSoFar
  <2> SUFFICES ASSUME BridgeInit PROVE Inductive /\ FaultlessSoFar
    OBVIOUS
  <2>1. /\ entered = 0 /\ copy = << >> /\ pc = "asleep"
        /\ enforced.plans = << >> /\ ~enforced.taken
    BY DEF BridgeInit, NoFallback, Fallback
  <2>2. FaultlessSoFar BY <2>1 DEF FaultlessSoFar, Faultless, Live
  <2> QED BY <2>2, BridgeParameters, InitInductive
<1>2. Inductive /\ FaultlessSoFar /\ [BridgeNext]_bvars => Inductive' /\ FaultlessSoFar'
  BY BridgeParameters, StepInductive, StepFaultless
<1>3. FaultlessSoFar => EnforcedEntersTwice
  BY DEF FaultlessSoFar, Faultless, EnforcedEntersTwice
<1> QED BY <1>1, <1>2, <1>3, PTL DEF BridgeSpec
=============================================================================
