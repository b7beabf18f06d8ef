------------------------------ MODULE AnchorRun ------------------------------
(***************************************************************************)
(* One ANCHOR evaluation: run_live, execute_dev and verified_summary over  *)
(* an output directory that survives crashes (eval/python: anchor_cli.py,  *)
(* anchor_runner.py; CachedTextModel and freeze_manifest of                *)
(* personamem_effect_runner.py).                                           *)
(*                                                                         *)
(* Every file is written to a .part file that then replaces its target, so *)
(* a crash leaves either nothing, the .part file or the whole file.  The   *)
(* Harness, an operator who removes .part files and starts it again, and a *)
(* repository that changes between two starts are the actors.              *)
(***************************************************************************)
EXTENDS AnchorEffect, RequestCache

CONSTANTS
    Contexts,       \* [Instances -> what Core may select, with the active Dispositions]
    Replies,        \* [Instances -> what the answer model may say]
    Verdicts,       \* what the judge may say
    ArmOrder,       \* [Instances -> Modes in the order of a hash of the instance]
    NumCases,       \* lifecycle cases
    MaxCrashes,     \* bound: crashes
    MaxDrifts       \* bound: changes of what the manifest binds

ASSUME RunAssumption ==
    /\ NumCases \in Nat \ {0} /\ MaxCrashes \in Nat /\ MaxDrifts \in Nat
    /\ \A i \in Instances : \A c \in Contexts[i] :
          /\ c.active \in Nat /\ (c.selected.dispositions # <<>> => c.active > 0)
          /\ Selectable(c.selected)

\* What is not there yet is none of the things that may be there.
ASSUME NoneIsFresh == None \notin {0, 1, "passed", "failed"}

VARIABLES
    pc,             \* "down" when no Harness runs
    part,           \* the .part file, or None
    manifest, cases, lifecycle, results, summary,   \* output directory
    cache,          \* model-cache: [request -> reply], partial
    owners,         \* owners Core has rows for
    selected,       \* [Instances -> the context Core has frozen for the probe]
    cur,            \* the instance at work, its arms so far
    config,         \* what build_run_manifest would bind now
    crashes, drifts,
    calls,          \* history: provider calls per request
    madeUnder       \* history: config each result was made under

files == <<manifest, cases, lifecycle, results, summary, cache, madeUnder>>
world == <<owners, selected, config, crashes, drifts, calls>>
vars == <<pc, part, files, cur, world>>

-----------------------------------------------------------------------------
(***************************************************************************)
(* Files.                                                                  *)
(***************************************************************************)
\* The temporary file is written; `then` is where the Harness goes on.
Write(file, key, value, then) ==
    /\ part' = [file |-> file, key |-> key, value |-> value, then |-> then]
    /\ pc' = "writing"

\* temporary.replace(destination)
Replace ==
    /\ pc = "writing"
    /\ manifest' = IF part.file = "manifest" THEN part.value ELSE manifest
    /\ cases' = IF part.file = "case" THEN part.key ELSE cases
    /\ lifecycle' = IF part.file = "lifecycle" THEN part.value ELSE lifecycle
    /\ results' = IF part.file = "result" THEN [results EXCEPT ![part.key] = part.value] ELSE results
    /\ madeUnder' = IF part.file = "result" THEN [madeUnder EXCEPT ![part.key] = config] ELSE madeUnder
    /\ summary' = IF part.file = "summary" THEN part.value ELSE summary
    /\ cache' = IF part.file = "cache" THEN With(cache, part.key, part.value) ELSE cache
    /\ part' = None
    /\ pc' = part.then
    /\ UNCHANGED <<cur, world>>

-----------------------------------------------------------------------------
(***************************************************************************)
(* Start of a run, and the lifecycle gate.                                 *)
(***************************************************************************)
NoPartialFiles == part = None

\* assert_isolated_database: no table the evaluation writes has a row.
Isolated == owners = {}

\* What build_run_manifest binds a run to: data, prompts, runtime, Core, Worker and eight
\* sources of the Harness.  What it leaves out (perma_seed_effect.py,
\* personamem_effect_runner.py, the renderer of the SDK) may change unnoticed.
BuildRunManifest == config

\* run_live: refused by a .part file, by a manifest that says something else,
\* and, on a first run, by a database that is not empty.
Start ==
    /\ pc = "down"
    /\ NoPartialFiles
    /\ IF manifest = None THEN Isolated ELSE manifest = BuildRunManifest
    /\ pc' = "manifest"
    /\ UNCHANGED <<part, files, cur, world>>

\* Variant: the manifest is left to the end of the lifecycle gate.
FreezeManifestLate ==
    /\ pc = "manifest"
    /\ IF manifest = None /\ lifecycle # None
       THEN Write("manifest", None, BuildRunManifest, "lifecycle")
       ELSE pc' = "lifecycle" /\ UNCHANGED part
    /\ UNCHANGED <<files, cur, world>>

FreezeManifest ==
    /\ pc = "manifest"
    /\ IF manifest = None
       THEN Write("manifest", None, BuildRunManifest, "lifecycle")
       ELSE pc' = "lifecycle" /\ UNCHANGED part
    /\ UNCHANGED <<files, cur, world>>

\* Variant: leftover cases are taken for nothing and the suite refuses to run.
LoadLifecycleRefused ==
    /\ pc = "lifecycle" /\ (lifecycle = None => cases = 0)
    /\ pc' = IF lifecycle # None THEN "next" ELSE "suite"
    /\ UNCHANGED <<part, files, cur, world>>

\* The gate is read if it is there; a suite that left some of its cases
\* cannot be resumed, and execute_dev takes that for a failed gate.
LoadLifecycle ==
    /\ pc = "lifecycle"
    /\ IF lifecycle # None THEN pc' = "next" /\ UNCHANGED part
       ELSE IF cases > 0 THEN Write("lifecycle", None, "failed", "next")
       ELSE pc' = "suite" /\ UNCHANGED part
    /\ UNCHANGED <<files, cur, world>>

SuiteCase ==
    /\ pc = "suite" /\ cases < NumCases
    /\ owners' = owners \cup {"lifecycle"}
    /\ Write("case", cases + 1, "result", "suite")
    /\ UNCHANGED <<files, cur, selected, config, crashes, drifts, calls>>

\* An exception of the suite, or a summary that does not pass.
SuiteFails ==
    /\ pc = "suite"
    /\ owners' = owners \cup {"lifecycle"}
    /\ Write("lifecycle", None, "failed", "next")
    /\ UNCHANGED <<files, cur, selected, config, crashes, drifts, calls>>

SuitePasses ==
    /\ pc = "suite" /\ cases = NumCases
    /\ Write("lifecycle", None, "passed", "next")
    /\ UNCHANGED <<files, cur, world>>

-----------------------------------------------------------------------------
(***************************************************************************)
(* One instance: replay, one Select, three answers, three verdicts.        *)
(***************************************************************************)
Failure(stage) == [error |-> stage, arms |-> <<>>, active |-> 0]

FreezeFailure(stage) == Write("result", cur.inst, Failure(stage), "next")

Pending(kind) == {i \in kind : results[i] = None}

\* The next instance that has no result yet, trajectories first.
NextInstance ==
    LET open == IF Pending(Trajectory) # {} THEN Pending(Trajectory) ELSE Pending(Behavior) IN
    /\ pc = "next" /\ open # {}
    /\ \E i \in open :
          /\ cur' = [inst |-> i, contexts |-> <<>>, arms |-> <<>>]
          /\ IF lifecycle = "passed" THEN pc' = "replay" /\ UNCHANGED part
             ELSE Write("result", i, Failure(Harness), "next")
    /\ UNCHANGED <<files, world>>

\* prepare_probe: the history is observed again, which Core takes for a replay.
ReplayHistory ==
    /\ pc = "replay"
    /\ owners' = owners \cup {cur.inst}
    /\ pc' = "select"
    /\ UNCHANGED <<part, files, cur, selected, config, crashes, drifts, calls>>

\* One Select under the run_ref of the probe.
SelectOnce ==
    /\ pc = "select"
    /\ \E c \in (IF selected[cur.inst] = None THEN Contexts[cur.inst] ELSE {selected[cur.inst]}) :
          /\ selected' = [selected EXCEPT ![cur.inst] = c]
          /\ cur' = [cur EXCEPT !.contexts = BuildSeedContexts(c.selected)]
    /\ pc' = "answer"
    /\ UNCHANGED <<part, files, owners, config, crashes, drifts, calls>>

\* RPC errors, settle timeouts and provider errors end the instance.
InstanceFails ==
    /\ pc \in {"replay", "select", "answer", "judge"}
    /\ FreezeFailure(Harness)
    /\ UNCHANGED <<files, cur, world>>

AnswerRequest(mode) == <<"answer", cur.inst, cur.contexts[mode].text>>
JudgeRequest(mode) == <<"judge", cur.inst, cur.arms[mode].output>>

Cached(request) == request \in DOMAIN cache

\* CachedTextModel.complete: a reply on disk is used, another one is bought
\* and written before it is used.
Buy(request, possible) ==
    /\ ~Cached(request)
    /\ \E reply \in possible : Write("cache", request, reply, pc)
    /\ calls' = CountCall(calls, request)
    /\ UNCHANGED <<files, cur, owners, selected, config, crashes, drifts>>

UseAnswer(mode, reply) ==
    IF cur.inst \in Trajectory /\ reply \notin Options
    THEN FreezeFailure(Harness) /\ UNCHANGED cur
    ELSE /\ cur' = [cur EXCEPT !.arms =
              With(@, mode, [context |-> cur.contexts[mode], output |-> reply, score |-> "none"])]
         /\ UNCHANGED <<pc, part>>

Answered == DOMAIN cur.arms = ToSet(Modes)
Judged == Answered /\ \A mode \in DOMAIN cur.arms : cur.arms[mode].score # "none"

\* answer_arm_order and judge_arm_order.
FirstArm(inst, open) == Head(SelectSeq(ArmOrder[inst], LAMBDA mode : mode \in open))

AnswerArm ==
    /\ pc = "answer" /\ ~Answered
    /\ LET mode == FirstArm(cur.inst, ToSet(Modes) \ DOMAIN cur.arms)
           request == AnswerRequest(mode)
       IN  \/ Cached(request) /\ UseAnswer(mode, cache[request]) /\ UNCHANGED <<files, world>>
           \/ Buy(request, Replies[cur.inst])

UseVerdict(mode, reply) ==
    IF reply \notin Scores
    THEN FreezeFailure(Judge) /\ UNCHANGED cur
    ELSE cur' = [cur EXCEPT !.arms[mode].score = reply] /\ UNCHANGED <<pc, part>>

JudgeArm ==
    /\ pc = "judge" /\ ~Judged
    /\ LET mode == FirstArm(cur.inst, {m \in ToSet(Modes) : cur.arms[m].score = "none"})
           request == JudgeRequest(mode)
       IN  \/ Cached(request) /\ UseVerdict(mode, cache[request]) /\ UNCHANGED <<files, world>>
           \/ Buy(request, Verdicts)

\* A behavior is judged only after all three answers.
BeginJudging ==
    /\ pc = "answer" /\ Answered /\ cur.inst \in Behavior
    /\ pc' = "judge"
    /\ UNCHANGED <<part, files, cur, world>>

FreezeResult ==
    /\ \/ pc = "answer" /\ Answered /\ cur.inst \in Trajectory
       \/ pc = "judge" /\ Judged
    /\ Write("result", cur.inst,
             [error |-> "none", arms |-> cur.arms, active |-> selected[cur.inst].active], "next")
    /\ UNCHANGED <<files, cur, world>>

-----------------------------------------------------------------------------
(***************************************************************************)
(* The summary, crashes and the operator.                                  *)
(***************************************************************************)
\* _verify_manifest_inputs: every bound input is read again.
InputsUnchanged == manifest = BuildRunManifest

\* verified_summary, at the end of a run or by the summarize command: every
\* result is there and the inputs are the ones the manifest binds.
VerifiedSummary ==
    /\ \/ pc = "next"
       \/ pc = "down" /\ NoPartialFiles /\ manifest # None /\ lifecycle # None
    /\ Pending(Instances) = {}
    /\ InputsUnchanged
    /\ IF summary = None
       THEN Write("summary", None, Decision(lifecycle, results), "down")
       ELSE pc' = "down" /\ UNCHANGED part
    /\ UNCHANGED <<files, cur, world>>

Crash ==
    /\ pc # "down" /\ crashes < MaxCrashes
    /\ crashes' = crashes + 1
    /\ pc' = "down"
    /\ cur' = None
    /\ UNCHANGED <<part, files, owners, selected, config, drifts, calls>>

\* The operator clears what every command refuses to start on.
RemovePartial ==
    /\ pc = "down" /\ part # None
    /\ part' = None
    /\ UNCHANGED <<pc, files, cur, world>>

\* Something the manifest binds is changed while no Harness runs.
Drift ==
    /\ pc = "down" /\ drifts < MaxDrifts
    /\ drifts' = drifts + 1
    /\ config' = 1 - config
    /\ UNCHANGED <<pc, part, files, cur, owners, selected, crashes, calls>>

Init ==
    /\ pc = "down" /\ part = None
    /\ manifest = None /\ cases = 0 /\ lifecycle = None /\ summary = None
    /\ results = [i \in Instances |-> None] /\ madeUnder = [i \in Instances |-> None]
    /\ cache = <<>> /\ calls = <<>>
    /\ owners = {} /\ selected = [i \in Instances |-> None]
    /\ cur = None
    /\ config = 0 /\ crashes = 0 /\ drifts = 0

Step ==
    \/ Start \/ FreezeManifest \/ LoadLifecycle \/ SuiteCase \/ SuiteFails \/ SuitePasses
    \/ NextInstance \/ ReplayHistory \/ SelectOnce \/ InstanceFails
    \/ AnswerArm \/ JudgeArm \/ BeginJudging \/ FreezeResult \/ VerifiedSummary \/ Replace \/ RemovePartial

Next == Step \/ Crash \/ Drift

Spec == Init /\ [][Next]_vars

\* A Harness that runs goes on, and the operator starts it again.
FairSpec == Spec /\ WF_vars(Step)

-----------------------------------------------------------------------------
(***************************************************************************)
(* Properties.                                                             *)
(***************************************************************************)
TypeOK ==
    /\ pc \in {"down", "manifest", "lifecycle", "suite", "next", "replay", "select", "answer",
               "judge", "writing"}
    /\ manifest \in {None, 0, 1} /\ lifecycle \in {None, "passed", "failed"}
    /\ cases \in 0 .. NumCases
    /\ \A i \in Instances : results[i] # None =>
          results[i].error \in {"none", Harness, Judge} /\ results[i].active \in Nat
    /\ owners \subseteq Instances \cup {"lifecycle"}
    /\ pc = "writing" => part.file \in {"manifest", "case", "lifecycle", "result", "summary", "cache"}

\* The isolation check of a first run never meets rows of its own evaluation: before
\* Core has learned anything the manifest that makes the next start a resume
\* is on disk, wherever the Harness is killed.
ResumableOnceLearned == owners # {} => manifest # None

\* Results of different manifests never meet in one directory, whatever that a manifest
\* binds is changed between two starts.
ResultsOfOneConfig == \A i \in Instances : madeUnder[i] \in {None, manifest}

\* A reply is bought once: identical arms share it, a restarted run reads it, and
\* only a crash before it is on disk makes the Harness pay again.
RepliesBoughtOnce == \A r \in DOMAIN calls : calls[r] <= 1 + crashes

\* The Seed gets credit or blame only where it was shown: arms that were rendered
\* alike have the same answer and the same score.
CreditNeedsRendering ==
    \A i \in Instances :
        results[i] # None /\ results[i].error = "none"
            /\ results[i].arms[Seed].context.dispositions = {} =>
            /\ results[i].arms[Seed].output = results[i].arms[Base].output
            /\ results[i].arms[Seed].score = results[i].arms[Base].score

\* What the Harness generates passes the validation of the summary: the arms
\* of a result without error are always a paired comparison.
GeneratedArmsValidate ==
    \A i \in Instances :
        results[i] # None /\ results[i].error = "none" => ValidatedArms(results[i].arms)

\* The verdict on disk is the verdict of the complete cohort on disk, whichever
\* run or summarize command wrote it and whatever crashed before.
SummaryOfResults ==
    summary # None => Pending(Instances) = {} /\ summary = Decision(lifecycle, results)

\* The verdict calls a cohort ready for holdout exactly if nothing failed, the Seed
\* raised the score of every dimension on balance, and it set at least one option right
\* without losing accuracy: the funnel names a bottleneck, it is never one itself.
ReadyIsImprovement ==
    summary # None =>
        (summary = HoldoutReady <=>
            /\ lifecycle = "passed" /\ Failures(results) = {}
            /\ \A d \in Dimensions : SeedDelta(results, d) > 0
            /\ TrajectoryImproved(results))

\* The bottleneck that is reported is the earliest one: every dimension has an
\* instance that got past each stage before it, and some dimension has none
\* that got past it.
BottleneckIsEarliest ==
    summary # None =>
        LET stage == summary.bottleneck
            InEvery(s) == \A d \in Dimensions : \E b \in Behavior :
                             Dimension[b] = d /\ Reached(results[b], s)
        IN  /\ stage = "formed" => ~InEvery("formed")
            /\ stage = "selected" => InEvery("formed") /\ ~InEvery("selected")
            /\ stage = "rendered" => InEvery("selected") /\ ~InEvery("rendered")
            /\ stage = "behavior_changed" => InEvery("rendered") /\ ~InEvery("behavior_changed")
            /\ stage = "score_improved" => InEvery("behavior_changed")

\* However often it is killed, an evaluation that is started again ends, unless its
\* inputs have changed for good.
EvaluationEnds == <>(summary # None \/ manifest \notin {None, config})

\* A directory can be resumed wherever the Harness is killed: the manifest is
\* there in time, what was paid for is kept, and all results are of one configuration.
DirectoryInv == TypeOK /\ ResumableOnceLearned /\ ResultsOfOneConfig /\ RepliesBoughtOnce

\* The verdict is justified by the results on disk: they are paired comparisons, they
\* credit only what was shown, and the verdict is ready or names the earliest bottleneck
\* of the complete cohort.
VerdictJustified ==
    /\ CreditNeedsRendering
    /\ GeneratedArmsValidate
    /\ SummaryOfResults
    /\ ReadyIsImprovement
    /\ BottleneckIsEarliest

=============================================================================
