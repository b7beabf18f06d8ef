--------------------------- MODULE DelayedSeedRun ---------------------------
(***************************************************************************)
(* One run of the delayed Seed evaluation, live or smoke, over an output   *)
(* directory that survives it (eval/python: delayed_seed_cli.py,           *)
(* delayed_seed_runner.py).                                                *)
(*                                                                         *)
(* Unlike the ANCHOR run no failure is ever frozen: an error of an RPC, of *)
(* the provider or of a parser ends the process, and the operator starts   *)
(* it again.                                                               *)
(***************************************************************************)
EXTENDS DelayedSeedEffect

CONSTANTS
    Cohort,         \* the Instances in the order of the data
    Actives,        \* [Instances -> active Dispositions Core may have after a session: none or one]
    Contexts,       \* [Instances -> what Core may select]
    Sizes,          \* [Instances -> size of its counterfactual Dispositions]
    Replies,        \* [Instances -> what the answer model may say]
    Verdicts,       \* what the judge may say
    AnswerOrder,    \* answer_arm_order: the Modes in the order of a hash
    JudgeOrder,     \* the Jobs in the order of a hash
    MaxStops,       \* bound: crashes and failing calls
    MaxDrifts       \* bound: changes of what the manifest binds

\* Every pair is judged in both directions.
Jobs == Pairs \X {"forward", "reverse"}

\* The memories of Core have refs of their own.
ASSUME RunAssumption ==
    /\ ToSet(Cohort) = Instances /\ Len(Cohort) = Cardinality(Instances)
    /\ ToSet(AnswerOrder) = Modes /\ ToSet(JudgeOrder) = Jobs
    /\ \A i \in Instances : \A c \in Contexts[i] :
          Selectable(c) /\ {Oracle, Anti} \cap VisibleRefs(c.recollections) = {}
    /\ MaxStops \in Nat /\ MaxDrifts \in Nat

ASSUME NoneIsFresh ==
    None \notin {0, 1, Oracle, Anti, "RELATION", "recollection_smoke", "seed_smoke"}

\* len(instance.history_sessions)
NumSessions == 3

VARIABLES
    live,           \* run_live, else run_smoke: two commands, each with a directory of its own
    pc,             \* "down" when no Harness runs
    part,           \* the .part file, or None
    manifest, results, summary, cache,  \* output directory
    learned,        \* [Instances -> active Dispositions of Core after every session it has observed]
    selected,       \* [Instances -> the context Core has frozen for the probe]
    cur,            \* the instance at work
    completions,    \* model calls of this process, counted by the smoke only
    outcome,        \* how the last process ended: "none", "returned", "raised"
    config,         \* what build_run_manifest would bind now
    stops, drifts,
    madeUnder       \* history: config each result was made under

files == <<manifest, results, summary, cache, madeUnder>>
core == <<learned, selected>>
env == <<live, config, stops, drifts>>
vars == <<pc, part, files, core, cur, completions, outcome, env>>

-----------------------------------------------------------------------------
(***************************************************************************)
(* Files, and the start of a run.                                          *)
(***************************************************************************)
\* The temporary file is written; `then` is where the Harness goes on.
Write(file, key, value, then) ==
    /\ part' = [file |-> file, key |-> key, value |-> value, then |-> then]
    /\ pc' = "writing"

\* temporary.replace(destination)
Replace ==
    /\ pc = "writing"
    /\ manifest' = IF part.file = "manifest" THEN part.value ELSE manifest
    /\ results' = IF part.file = "result" THEN [results EXCEPT ![part.key] = part.value] ELSE results
    /\ madeUnder' = IF part.file = "result" THEN [madeUnder EXCEPT ![part.key] = config] ELSE madeUnder
    /\ summary' = IF part.file = "summary" THEN part.value ELSE summary
    /\ cache' = IF part.file = "cache" THEN With(cache, part.key, part.value) ELSE cache
    /\ part' = None
    /\ pc' = part.then
    /\ UNCHANGED <<core, cur, completions, outcome, env>>

NoPartialFiles == part = None

\* assert_isolated_database: Core has no row of an evaluation.
Isolated == \A i \in Instances : learned[i] = <<>>

\* What build_run_manifest binds a run to: data, prompts, runtime, Core, Worker and six
\* sources of the Harness.  What it leaves out (anchor_cli.py, personamem_effect_runner.py,
\* the renderer of the SDK) may change unnoticed.
BuildRunManifest == config

\* Variant: a manifest that is there is not compared.
ManifestUncompared == TRUE

\* freeze_manifest on a manifest that is there.
ManifestAgrees == manifest \in {None, BuildRunManifest}

\* An exception leaves the process; nothing is recorded of it.
Raise == pc' = "down" /\ outcome' = "raised" /\ cur' = None /\ completions' = 0

\* Variant: every live run wants an empty database.
StartIsolated ==
    /\ pc = "down"
    /\ NoPartialFiles /\ ManifestAgrees
    /\ live => Isolated
    /\ pc' = "manifest" /\ outcome' = "none"
    /\ UNCHANGED <<part, files, core, cur, completions, env>>

\* run_live and run_smoke: refused by a .part file, by a manifest that says
\* something else and, on a first live run, by a database that is not empty.
Start ==
    /\ pc = "down"
    /\ NoPartialFiles /\ ManifestAgrees
    /\ live /\ manifest = None => Isolated
    /\ pc' = "manifest" /\ outcome' = "none"
    /\ UNCHANGED <<part, files, core, cur, completions, env>>

FreezeManifest ==
    /\ pc = "manifest"
    /\ IF manifest = None
       THEN Write("manifest", None, BuildRunManifest, "next")
       ELSE pc' = "next" /\ UNCHANGED part
    /\ UNCHANGED <<files, core, cur, completions, outcome, env>>

-----------------------------------------------------------------------------
(***************************************************************************)
(* One instance: three sessions, one Select, four answers, eight verdicts. *)
(***************************************************************************)
\* What is next of an order while some of it is open.
FirstOf(order, open) == Head(SelectSeq(order, LAMBDA entry : entry \in open))

\* load_frozen_result: the instances without a result.
Pending == {i \in Instances : results[i] = None}

NextInstance ==
    /\ pc = "next"
    /\ \E i \in Pending :
          /\ i = FirstOf(Cohort, Pending)
          /\ cur' = [inst |-> i, settled |-> <<>>, contexts |-> <<>>, answers |-> <<>>, tokens |-> <<>>]
    /\ pc' = "session"
    /\ UNCHANGED <<part, files, core, completions, outcome, env>>

\* What consolidation makes of a session Core has not observed before; what it has
\* observed is a replay, and the settled state is the one of all that is observed.
LearnSession(i, k, active) ==
    /\ IF k <= Len(learned[i]) THEN active = Last(learned[i]) /\ UNCHANGED learned
       ELSE active \in Actives[i] /\ learned' = [learned EXCEPT ![i] = Append(@, active)]

SmokeSettles(active) == active = 1 /\ UNCHANGED learned

\* _observe_session and settle, one session at a time.
ObserveSession ==
    /\ pc = "session" /\ Len(cur.settled) < NumSessions
    /\ \E active \in 0 .. 1 :
          /\ IF live THEN LearnSession(cur.inst, Len(cur.settled) + 1, active) ELSE SmokeSettles(active)
          /\ cur' = [cur EXCEPT !.settled = Append(@, active)]
    /\ UNCHANGED <<pc, part, files, selected, completions, outcome, env>>

\* The one context of _SmokeMemory.
SmokeSelected ==
    LET Item(section, ref) == [section |-> section, ref |-> ref, scope |-> "RELATION", size |-> 1,
                               blank |-> FALSE]
    IN  [recollections |-> <<Item("RECOLLECTIONS", "recollection_smoke")>>,
         dispositions  |-> <<Item("DISPOSITIONS", "seed_smoke")>>]

\* The budget is one the smoke's memory fits into.
ASSUME SmokeAssumption ==
    ToSet(Refs(Render(SmokeSelected.recollections \o SmokeSelected.dispositions)))
        = {"recollection_smoke", "seed_smoke"}

\* What Core may answer the Select of the probe: the frozen context, if there is one.
SelectMemory(i) ==
    CASE ~live -> {SmokeSelected}
      [] live /\ selected[i] # None -> {selected[i]}
      [] OTHER -> {c \in Contexts[i] : c.dispositions # <<>> => Last(learned[i]) > 0}

\* The four arms of every context an instance may be given.
Rendered ==
    [i \in Instances |->
        [c \in Contexts[i] \cup {SmokeSelected} |-> BuildDelayedContexts(c, Sizes[i])]]

\* The unbound probe and its one Select; the arms are rendered from it, unless a
\* counterfactual does not fit the budget.
SelectOnce ==
    /\ pc = "session" /\ Len(cur.settled) = NumSessions
    /\ \E c \in SelectMemory(cur.inst) :
          LET contexts == Rendered[cur.inst][c] IN
          /\ selected' = IF live THEN [selected EXCEPT ![cur.inst] = c] ELSE selected
          /\ IF CounterfactualsFit(contexts)
             THEN /\ cur' = [cur EXCEPT !.contexts = contexts]
                  /\ pc' = "answer"
                  /\ UNCHANGED <<completions, outcome>>
             ELSE Raise
    /\ UNCHANGED <<part, files, learned, env>>

\* build_answer_prompt: persona, request and rendered memory, not the arm.
AnswerRequest(mode) == <<"answer", cur.inst, cur.contexts[mode].text>>

\* The arms shown as RESPONSE_A and RESPONSE_B.
Shown(job) == IF job[2] = "forward" THEN job[1] ELSE <<job[1][2], job[1][1]>>

JudgeRequest(job) ==
    <<"judge", cur.inst, cur.answers[Shown(job)[1]], cur.answers[Shown(job)[2]]>>

\* _SmokeAnswerModel looks for the refs in the text.
SmokeAnswer(text) ==
    IF "seed_smoke" \in ToSet(text) THEN "SMOKE_LEARNED"
    ELSE IF Oracle \in ToSet(text) THEN "SMOKE_ORACLE"
    ELSE IF Anti \in ToSet(text) THEN "SMOKE_ANTI"
    ELSE "SMOKE_RAG"

\* _SmokeJudgeModel
SmokeVerdict(a, b) ==
    LET rank == [SMOKE_ORACLE |-> 3, SMOKE_LEARNED |-> 2, SMOKE_RAG |-> 1, SMOKE_ANTI |-> 0]
    IN  IF rank[a] = rank[b] THEN "TIE" ELSE IF rank[a] > rank[b] THEN "A" ELSE "B"

\* CachedTextModel.complete: a reply on disk is used, another one is bought and
\* written before it is used.  The smoke calls its models without a cache and
\* counts the calls.
Reply(request, smokeReply) == IF live THEN cache[request] ELSE smokeReply

AtOnce(request) ==
    /\ live => request \in DOMAIN cache
    /\ completions' = completions + (IF live THEN 0 ELSE 1)

Buy(request, possible) ==
    /\ live /\ request \notin DOMAIN cache
    /\ \E reply \in possible : Write("cache", request, reply, pc)
    /\ UNCHANGED <<cur, completions>>

UseAnswer(mode, reply) ==
    /\ cur' = [cur EXCEPT !.answers = With(@, mode, reply)]
    /\ UNCHANGED <<pc, part>>

AnswerArm ==
    /\ pc = "answer" /\ DOMAIN cur.answers # Modes
    /\ LET mode == FirstOf(AnswerOrder, Modes \ DOMAIN cur.answers)
           request == AnswerRequest(mode)
           smoke == SmokeAnswer(cur.contexts[mode].text)
       IN  \/ AtOnce(request) /\ UseAnswer(mode, Reply(request, smoke))
           \/ Buy(request, Replies[cur.inst])
    /\ UNCHANGED <<files, core, outcome, env>>

\* The label is loaded once all four answers are there.
BeginJudging ==
    /\ pc = "answer" /\ DOMAIN cur.answers = Modes
    /\ pc' = "judge"
    /\ UNCHANGED <<part, files, core, cur, completions, outcome, env>>

NextJob == FirstOf(JudgeOrder, Jobs \ DOMAIN cur.tokens)

\* parse_pairwise_token on a reply within the contract.
UseVerdict(job, reply) ==
    /\ reply \in Tokens
    /\ cur' = [cur EXCEPT !.tokens = With(@, job, reply)]
    /\ UNCHANGED <<pc, part>>

JudgePair ==
    /\ pc = "judge" /\ DOMAIN cur.tokens # Jobs
    /\ LET request == JudgeRequest(NextJob)
           smoke == SmokeVerdict(cur.answers[Shown(NextJob)[1]], cur.answers[Shown(NextJob)[2]])
       IN  \/ AtOnce(request) /\ UseVerdict(NextJob, Reply(request, smoke))
           \/ Buy(request, Verdicts)
    /\ UNCHANGED <<files, core, outcome, env>>

\* ... and on any other: it is on disk by now.
RejectVerdict ==
    /\ pc = "judge" /\ live /\ DOMAIN cur.tokens # Jobs
    /\ JudgeRequest(NextJob) \in DOMAIN cache
    /\ cache[JudgeRequest(NextJob)] \notin Tokens
    /\ Raise
    /\ UNCHANGED <<part, files, core, env>>

FreezeResult ==
    /\ pc = "judge" /\ DOMAIN cur.tokens = Jobs
    /\ Write("result", cur.inst,
             [active   |-> Last(cur.settled), settled |-> cur.settled,
              selected |-> cur.contexts[Learned].selected,
              rendered |-> cur.contexts[Learned].dispositions,
              recollections |-> [mode \in Modes |-> cur.contexts[mode].recollections],
              pairwise |-> cur.tokens], "next")
    /\ UNCHANGED <<files, core, cur, completions, outcome, env>>

-----------------------------------------------------------------------------
(***************************************************************************)
(* The summary, failures and the operator.                                 *)
(***************************************************************************)
\* _verify_manifest_inputs: every bound input is read again.
InputsUnchanged == manifest = BuildRunManifest

\* verified_summary, at the end of a run or by the summarize command.
VerifiedSummary ==
    /\ \/ pc = "next"
       \/ pc = "down" /\ NoPartialFiles /\ manifest # None
    /\ Pending = {} /\ InputsUnchanged
    /\ IF summary = None
       THEN Write("summary", None, Summarize(results), IF pc = "next" THEN "end" ELSE "down")
       ELSE pc' = (IF pc = "next" THEN "end" ELSE "down") /\ UNCHANGED part
    /\ cur' = None
    /\ UNCHANGED <<files, core, completions, outcome, env>>

\* run_smoke counts the completions of its own process.
AllCompletions == Len(Cohort) * (Len(AnswerOrder) + Len(JudgeOrder))

End ==
    /\ pc = "end"
    /\ IF live \/ completions = AllCompletions
       THEN pc' = "down" /\ outcome' = "returned" /\ cur' = None /\ completions' = 0
       ELSE Raise
    /\ UNCHANGED <<part, files, core, env>>

\* A crash, or an RPC, a wait or a provider call that fails for good.
Stop ==
    /\ pc # "down" /\ stops < MaxStops
    /\ stops' = stops + 1
    /\ Raise
    /\ UNCHANGED <<live, part, files, core, config, drifts>>

\* The operator clears what every command refuses to start on.
RemovePartial ==
    /\ pc = "down" /\ part # None
    /\ part' = None
    /\ UNCHANGED <<pc, files, core, cur, completions, outcome, env>>

\* What the manifest binds changes; before it is frozen nothing depends on it.
Drift ==
    /\ pc = "down" /\ manifest # None /\ drifts < MaxDrifts
    /\ drifts' = drifts + 1
    /\ config' = 1 - config
    /\ UNCHANGED <<live, pc, part, files, core, cur, completions, outcome, stops>>

Init ==
    /\ live \in BOOLEAN
    /\ pc = "down" /\ part = None /\ cur = None /\ completions = 0 /\ outcome = "none"
    /\ manifest = None /\ summary = None /\ cache = <<>>
    /\ results = [i \in Instances |-> None] /\ madeUnder = [i \in Instances |-> None]
    /\ learned = [i \in Instances |-> <<>>] /\ selected = [i \in Instances |-> None]
    /\ config = 0 /\ stops = 0 /\ drifts = 0

Step ==
    \/ Start \/ FreezeManifest \/ NextInstance \/ ObserveSession \/ SelectOnce
    \/ AnswerArm \/ BeginJudging \/ JudgePair \/ RejectVerdict \/ FreezeResult
    \/ VerifiedSummary \/ End \/ Replace \/ RemovePartial

Next == Step \/ Stop \/ Drift

Spec == Init /\ [][Next]_vars

\* A Harness that runs goes on, and the operator starts it again.
FairSpec == Spec /\ WF_vars(Step)

-----------------------------------------------------------------------------
(***************************************************************************)
(* Properties.                                                             *)
(***************************************************************************)
TypeOK ==
    /\ pc \in {"down", "manifest", "next", "session", "answer", "judge", "writing", "end"}
    /\ manifest \in {None, 0, 1} /\ config \in {0, 1}
    /\ outcome \in {"none", "returned", "raised"}
    /\ pc = "writing" => part.file \in {"manifest", "cache", "result", "summary"}
    /\ pc \in {"session", "answer", "judge"} => cur.inst \in Pending
    /\ \A i \in Instances :
          /\ learned[i] \in Seq({0, 1}) /\ Len(learned[i]) <= NumSessions
          /\ results[i] # None => DOMAIN results[i].pairwise = Jobs

\* Before Core has learned anything the manifest that makes the next start a
\* resume is on disk: the isolation check never locks an evaluation out of its own
\* database.
ResumableOnceLearned == live /\ (\E i \in Instances : learned[i] # <<>>) => manifest # None

\* Results of different manifests never meet in one diagnosis, whatever that a manifest
\* binds is changed between two starts.
ResultsOfOneConfig == \A i \in Instances : madeUnder[i] \in {None, manifest}

\* The Seed gets credit or blame only where it was shown: without a rendered
\* Disposition the learned arm is the RAG arm, its two answers are one cached answer,
\* both orders are one judge request, and neither arm can have a clear win.
CreditNeedsRendering ==
    \A i \in Instances :
        results[i] # None /\ results[i].rendered = {} =>
            Consensus(results[i], <<Learned, Rag>>) \in {"tie", "inconsistent"}

\* The four arms are a paired comparison: they show the same Recollections, so
\* that they differ in their Dispositions only.
ArmsShareRecollections ==
    \A i \in Instances : results[i] # None =>
        \A mode \in Modes : results[i].recollections[mode] = results[i].recollections[Rag]

\* The diagnosis on disk is the diagnosis of the complete cohort on disk, and an
\* advantage is one of Dispositions that were shown.
SummaryOfResults ==
    summary # None =>
        /\ Pending = {} /\ summary = Summarize(results)
        /\ summary.status = "preliminary_learned_advantage" =>
              DominanceWins <= Cardinality({i \in Instances :
                  /\ results[i].rendered # {} /\ results[i].active > 0
                  /\ Consensus(results[i], <<Learned, Rag>>) = Learned})

\* The smoke exercises the whole protocol: a smoke that returns, however the
\* directory came about, has every arm told apart in both orders.
SmokeShowsAdvantage ==
    ~live /\ outcome = "returned" =>
        /\ summary.status = "preliminary_learned_advantage"
        /\ \A i \in Instances, pair \in Pairs : Consensus(results[i], pair) = pair[1]

\* The bottleneck a diagnosis reports is the earliest: enough instances reached every
\* stage before it; and the effect is blamed only if enough Seeds were shown and
\* still did not win.
BottleneckIsEarliest ==
    LET Enough(stage) == Reached(results, stage) >= DominanceWins IN
    summary # None /\ summary.status = "learning_or_selection_bottleneck" =>
        CASE summary.bottleneck = "formed"   -> ~Enough("formed")
          [] summary.bottleneck = "selected" -> Enough("formed") /\ ~Enough("selected")
          [] summary.bottleneck = "rendered" -> Enough("selected") /\ ~Enough("rendered")
          [] summary.bottleneck = "learned_effect" ->
                 Enough("rendered") /\ ~Dominates(results, <<Learned, Rag>>)

\* What a directory does not recover from: inputs that have changed since the manifest,
\* a reply outside the judge's contract, which is cached before it is parsed, and
\* a frozen context that leaves no room for the counterfactuals.
Stuck ==
    \/ manifest \notin {None, config}
    \/ \E r \in DOMAIN cache : r[1] = "judge" /\ cache[r] \notin Tokens
    \/ \E i \in Instances :
           selected[i] # None /\ ~CounterfactualsFit(Rendered[i][selected[i]])

\* An evaluation that is started again after every crash and every failure, and is
\* not stuck, ends with a diagnosis.
EvaluationEnds == <>(summary # None \/ Stuck)

\* A directory can be resumed wherever the Harness is killed: the manifest is there
\* in time and all results are of its configuration.
DirectoryInv == TypeOK /\ ResumableOnceLearned /\ ResultsOfOneConfig

\* The diagnosis is justified by the results on disk: the arms are a paired comparison,
\* a Seed that was not shown has no clear win, and the status and the bottleneck
\* follow from the complete cohort.
VerdictJustified ==
    /\ CreditNeedsRendering
    /\ ArmsShareRecollections
    /\ SummaryOfResults
    /\ SmokeShowsAdvantage
    /\ BottleneckIsEarliest

=============================================================================
