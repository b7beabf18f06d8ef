------------------------------ MODULE CupidRun ------------------------------
(***************************************************************************)
(* A CUPID evaluation: execute_cohort runs the instances of one split      *)
(* after the other, several at a time, over one cached model (eval/python: *)
(* cupid_cli.py, cupid_runner.py; CachedTextModel of                       *)
(* personamem_effect_runner.py).                                           *)
(*                                                                         *)
(* Every instance is an asyncio task.  A task gives way only where it      *)
(* awaits: for the semaphore, for Core, for the lock of a request and for  *)
(* the provider.  One task that raises cancels all the others and ends the *)
(* process.                                                                *)
(***************************************************************************)
EXTENDS CupidEffect, RequestCache

CONSTANTS
    Cohort,         \* the Instances in the order of the data
    Contexts,       \* [Instances -> what Core may select, with the active Dispositions]
    Request,        \* [Instances -> current_request]
    Label,          \* [Instances -> preference and checklist]
    Replies,        \* what the answer model may say
    Verdicts,       \* what the judge may say
    ArmOrder,       \* [Instances -> Modes in the order of a hash of the instance]
    Limit,          \* instance_workers
    MaxStarts,      \* bound: processes
    MaxDrifts       \* bound: changes of the code or of the configuration

ASSUME CupidAssumption ==
    /\ ToSet(Cohort) = Instances /\ Len(Cohort) = Cardinality(Instances)
    /\ Limit \in Nat \ {0} /\ MaxStarts \in Nat /\ MaxDrifts \in Nat
    /\ \A i \in Instances : \A c \in Contexts[i] :
          /\ c.active \in Nat /\ (c.selected.dispositions # <<>> => c.active > 0)
          /\ Selectable(c.selected)

\* A result: the arms of an instance, answered and judged, and its active Dispositions.
Results ==
    [arms : [ToSet(Modes) ->
                [context : UNION {{BuildSeedContexts(c.selected)[mode] : mode \in ToSet(Modes)} :
                                  c \in UNION {Contexts[i] : i \in Instances}},
                 output : Replies, verdict : Verdicts]],
     active : Nat]

\* What is not there yet is none of the things that may be there.
ASSUME NoneIsFresh == None \notin Results /\ None \notin {0, 1, "passed"}

VARIABLES
    pc,             \* execute_cohort: "down", "manifest", "lifecycle", "suite", "instances"
    split,          \* index of the split at work
    task,           \* [Instances -> [at, arms, contexts]]
    manifest, lifecycle, memory, results, summary, cache,   \* output directory
    selected,       \* [Instances -> what Core has frozen for the probe]
    config, starts, drifts,
    calls,          \* history: provider calls per request
    madeUnder       \* history: config each result was made under

files == <<manifest, lifecycle, memory, results, summary, cache, madeUnder>>
env == <<config, starts, drifts>>
vars == <<pc, split, task, files, selected, env, calls>>

NoTask == [at |-> "none", contexts |-> <<>>, arms |-> <<>>]

AtWork == {"prepare", "answer", "asking", "judge", "judging", "memory", "freeze"}

-----------------------------------------------------------------------------
(***************************************************************************)
(* The process.                                                            *)
(***************************************************************************)
\* freeze_manifest: written once, compared ever after.
ManifestAgrees == manifest \in {None, config}

Start ==
    /\ pc = "down" /\ starts < MaxStarts /\ ManifestAgrees
    /\ starts' = starts + 1
    /\ pc' = "manifest"
    /\ UNCHANGED <<split, task, files, selected, config, drifts, calls>>

FreezeManifest ==
    /\ pc = "manifest"
    /\ manifest' = IF manifest = None THEN config ELSE manifest
    /\ pc' = IF Formal THEN "lifecycle" ELSE "instances"
    /\ UNCHANGED <<split, task, lifecycle, memory, results, summary, cache, madeUnder, selected, env, calls>>

\* An exception: the task group cancels its tasks and the process ends.
Raise ==
    /\ pc' = "down" /\ split' = 1
    /\ task' = [i \in Instances |-> NoTask]

\* The first case of the suite, where there is no lifecycle directory yet.
BeginSuite ==
    /\ pc = "lifecycle" /\ lifecycle = None
    /\ lifecycle' = "partial"
    /\ pc' = "suite"
    /\ UNCHANGED <<split, task, manifest, memory, results, summary, cache, madeUnder, selected, env, calls>>

\* The frozen gate of an earlier process; a suite that was left unfinished is refused.
LoadLifecycle ==
    /\ pc = "lifecycle" /\ lifecycle # None
    /\ IF lifecycle = "passed" THEN pc' = "instances" /\ UNCHANGED <<split, task>> ELSE Raise
    /\ UNCHANGED <<files, selected, env, calls>>

\* The gate is frozen, passed or not, and must have passed.
EndSuite ==
    /\ pc = "suite"
    /\ lifecycle' \in {"passed", "failed"}
    /\ IF lifecycle' = "passed" THEN pc' = "instances" /\ UNCHANGED <<split, task>> ELSE Raise
    /\ UNCHANGED <<manifest, memory, results, summary, cache, madeUnder, selected, env, calls>>

-----------------------------------------------------------------------------
(***************************************************************************)
(* run_instances_bounded.                                                  *)
(***************************************************************************)
\* Variant: one task group for all splits.
GroupAtWorkAll == Instances

\* The tasks of the group at work.
GroupAtWork == Group(Splits[split])

Frozen(i) == results[i] # None

Running == {i \in Instances : task[i].at \in AtWork}

\* The semaphore lets tasks in as they were created.
FirstInLine(i) ==
    \A k, n \in DOMAIN Cohort :
        Cohort[n] = i /\ k < n /\ Cohort[k] \in GroupAtWork => task[Cohort[k]].at # "none"

Goto(i, at) == task' = [task EXCEPT ![i].at = at]

\* A task gets the semaphore; a frozen result is taken as it is.
Acquire(i) ==
    /\ pc = "instances" /\ i \in GroupAtWork /\ task[i].at = "none"
    /\ Cardinality(Running) < Limit /\ FirstInLine(i)
    /\ Goto(i, IF Frozen(i) THEN "done" ELSE "prepare")
    /\ UNCHANGED <<pc, split, files, selected, env, calls>>

\* prepare_instance: history, settling and the one Select of the probe.
Prepare(i) ==
    /\ task[i].at = "prepare"
    /\ \E c \in (IF selected[i] = None THEN Contexts[i] ELSE {selected[i]}) :
          /\ selected' = [selected EXCEPT ![i] = c]
          /\ task' = [task EXCEPT ![i] = [@ EXCEPT !.at = "answer",
                                                   !.contexts = BuildSeedContexts(c.selected)]]
    /\ UNCHANGED <<pc, split, files, env, calls>>

Answered(i) == DOMAIN task[i].arms
Judged(i) == {mode \in Answered(i) : task[i].arms[mode].verdict # "none"}

\* answer_arm_order and judge_arm_order
FirstOf(i, open) ==
    ArmOrder[i][CHOOSE k \in 1 .. 3 : ArmOrder[i][k] \in open
                    /\ \A j \in 1 .. k - 1 : ArmOrder[i][j] \notin open]

AnswerMode(i) == FirstOf(i, ToSet(Modes) \ Answered(i))
JudgeMode(i) == FirstOf(i, ToSet(Modes) \ Judged(i))

\* The completion a task is at: neither the instance nor the arm is part of it.
RequestOf(i) ==
    IF task[i].at \in {"answer", "asking"}
    THEN <<"answer", Request[i], task[i].contexts[AnswerMode(i)].text>>
    ELSE <<"judge", Request[i], Label[i], task[i].arms[JudgeMode(i)].output>>

Asks(i) ==
    \/ task[i].at \in {"answer", "asking"} /\ Answered(i) # ToSet(Modes)
    \/ task[i].at \in {"judge", "judging"} /\ Judged(i) # ToSet(Modes)

\* What a task does with a reply.
Use(i, reply) ==
    LET t == task[i] IN
    task' = [task EXCEPT ![i] =
        IF t.at \in {"answer", "asking"}
        THEN [t EXCEPT !.at = "answer",
                       !.arms = With(t.arms, AnswerMode(i),
                                     [context |-> t.contexts[AnswerMode(i)], output |-> reply,
                                      verdict |-> "none"])]
        ELSE [t EXCEPT !.at = "judge", !.arms[JudgeMode(i)].verdict = reply]]

\* Variant: a lock is never given back.
LockKept(request) == request \notin DOMAIN calls

\* The lock of a request is held across the call of the provider.
LockFree(request) == \A j \in Instances : task[j].at \in {"asking", "judging"} => RequestOf(j) # request

Acceptable(i, reply) == task[i].at \in {"judge", "judging"} => Parses(reply)

\* CachedTextModel.complete on a reply that is on disk.
UseCached(i) ==
    /\ task[i].at \in {"answer", "judge"} /\ Asks(i)
    /\ RequestOf(i) \in DOMAIN cache /\ LockFree(RequestOf(i))
    /\ IF Acceptable(i, cache[RequestOf(i)])
       THEN Use(i, cache[RequestOf(i)]) /\ UNCHANGED <<pc, split>>
       ELSE Raise
    /\ UNCHANGED <<files, selected, env, calls>>

\* ... and where there is none: the provider is called,
CallProvider(i) ==
    /\ task[i].at \in {"answer", "judge"} /\ Asks(i)
    /\ RequestOf(i) \notin DOMAIN cache /\ LockFree(RequestOf(i))
    /\ calls' = CountCall(calls, RequestOf(i))
    /\ Goto(i, IF task[i].at = "answer" THEN "asking" ELSE "judging")
    /\ UNCHANGED <<pc, split, files, selected, env>>

\* its reply is written and then used, or refused by the parser.
Reply(i) ==
    /\ task[i].at \in {"asking", "judging"}
    /\ \E reply \in (IF task[i].at = "asking" THEN Replies ELSE Verdicts) :
          /\ cache' = With(cache, RequestOf(i), reply)
          /\ IF Acceptable(i, reply) THEN Use(i, reply) /\ UNCHANGED <<pc, split>> ELSE Raise
    /\ UNCHANGED <<manifest, lifecycle, memory, results, summary, madeUnder, selected, env, calls>>

\* All arms are answered before a label is shown to the judge.
Proceed(i) ==
    /\ task[i].at \in {"answer", "judge"} /\ ~Asks(i)
    /\ Goto(i, IF task[i].at = "answer" THEN "judge" ELSE "memory")
    /\ UNCHANGED <<pc, split, files, selected, env, calls>>

\* The memory of the owner is frozen beside the result.
FreezeMemory(i) ==
    /\ task[i].at = "memory"
    /\ IF memory[i] \in {None, selected[i].active}
       THEN memory' = [memory EXCEPT ![i] = selected[i].active] /\ Goto(i, "freeze") /\ UNCHANGED <<pc, split>>
       ELSE Raise /\ UNCHANGED memory
    /\ UNCHANGED <<manifest, lifecycle, results, summary, cache, madeUnder, selected, env, calls>>

FreezeResult(i) ==
    /\ task[i].at = "freeze"
    /\ results' = [results EXCEPT ![i] = [arms |-> task[i].arms, active |-> selected[i].active]]
    /\ madeUnder' = [madeUnder EXCEPT ![i] = config]
    /\ task' = [task EXCEPT ![i] = [NoTask EXCEPT !.at = "done"]]
    /\ UNCHANGED <<pc, split, manifest, lifecycle, memory, summary, cache, selected, env, calls>>

GroupDone == \A i \in GroupAtWork : task[i].at = "done"

\* The task group is left when its tasks are done.
NextSplit ==
    /\ pc = "instances" /\ GroupDone /\ split < Len(Splits)
    /\ split' = split + 1
    /\ UNCHANGED <<pc, task, files, selected, env, calls>>

-----------------------------------------------------------------------------
\* verified_summary of the complete cohort, and the end of the process.
VerifiedSummary ==
    /\ pc = "instances" /\ split = Len(Splits) /\ GroupDone
    /\ \A i \in Instances : Frozen(i)
    /\ Formal => lifecycle = "passed"
    /\ summary' = IF summary = None THEN Reasons(results) ELSE summary
    /\ Raise
    /\ UNCHANGED <<manifest, lifecycle, memory, results, cache, madeUnder, selected, env, calls>>

\* A crash, or a call that fails for good in one of the tasks.
Stop ==
    /\ pc # "down" /\ starts < MaxStarts
    /\ Raise
    /\ UNCHANGED <<files, selected, env, calls>>

\* Something the manifest binds is changed while no Harness runs.
Drift ==
    /\ pc = "down" /\ drifts < MaxDrifts
    /\ drifts' = drifts + 1
    /\ config' = 1 - config
    /\ UNCHANGED <<pc, split, task, files, selected, starts, calls>>

Init ==
    /\ pc = "down" /\ split = 1 /\ task = [i \in Instances |-> NoTask]
    /\ manifest = None /\ lifecycle = None /\ summary = None /\ cache = <<>>
    /\ memory = [i \in Instances |-> None] /\ results = [i \in Instances |-> None]
    /\ madeUnder = [i \in Instances |-> None] /\ selected = [i \in Instances |-> None]
    /\ config = 0 /\ starts = 0 /\ drifts = 0 /\ calls = <<>>

InstanceStep(i) ==
    \/ Acquire(i) \/ Prepare(i) \/ UseCached(i) \/ CallProvider(i) \/ Reply(i) \/ Proceed(i)
    \/ FreezeMemory(i) \/ FreezeResult(i)

Main ==
    \/ Start \/ FreezeManifest \/ BeginSuite \/ LoadLifecycle \/ EndSuite \/ NextSplit \/ VerifiedSummary

Next == Main \/ (\E i \in Instances : InstanceStep(i)) \/ Stop \/ Drift

Spec == Init /\ [][Next]_vars

\* The event loop runs every task that can go on, the operator starts the run again.
FairSpec == Spec /\ WF_vars(Main) /\ \A i \in Instances : WF_vars(InstanceStep(i))

-----------------------------------------------------------------------------
(***************************************************************************)
(* Properties.                                                             *)
(***************************************************************************)
TypeOK ==
    /\ pc \in {"down", "manifest", "lifecycle", "suite", "instances"}
    /\ split \in 1 .. Len(Splits)
    /\ \A i \in Instances : task[i].at \in {"none", "done"} \cup AtWork
    /\ Cardinality(Running) <= Limit
    /\ manifest \in {None, 0, 1} /\ lifecycle \in {None, "partial", "passed", "failed"}
    /\ \A r \in DOMAIN cache : r[1] = "answer" => cache[r] \in Replies

\* The Seed gets credit or blame only where it was shown, also while another
\* instance asks the very same thing: arms that were rendered alike have one answer
\* and one score.
CreditNeedsRendering ==
    \A i \in Instances :
        Frozen(i) /\ results[i].arms[Seed].context.dispositions = {} =>
            /\ results[i].arms[Seed].output = results[i].arms[Base].output
            /\ Delta(results[i]) = 0

\* Tasks that want the same completion buy it once: no process pays twice for a
\* request, and a reply on disk is never bought again.
RepliesBoughtOnce == \A r \in DOMAIN calls : calls[r] <= starts

\* The second holdout is not touched, not even by Core, before the first one is
\* complete on disk, whatever was cancelled and started again in between.
HoldoutInOrder ==
    Formal /\ (\E i \in Group("H2") : selected[i] # None) => \A i \in Group("H1") : Frozen(i)

\* No holdout instance is looked at unless the lifecycle gate has passed.
GateFirst ==
    Formal /\ (\E i \in Instances : selected[i] # None) => lifecycle = "passed"

\* Results of different manifests never meet in one summary, whatever that a manifest
\* binds is changed between two starts.
ResultsOfOneConfig == \A i \in Instances : madeUnder[i] \in {None, manifest}

\* A formal cohort that passes has, in each holdout, an instance whose score was
\* raised by a Disposition it was shown, and the verdict is the one of the cohort on disk.
PassMeansRenderedGain ==
    summary # None =>
        /\ \A i \in Instances : Frozen(i)
        /\ summary = Reasons(results)
        /\ Formal /\ summary = {} =>
              \A s \in ToSet(Splits) : \E i \in Group(s) :
                  Delta(results[i]) > 0 /\ Reached(results[i], "rendered") /\ Reached(results[i], "formed")

\* What a directory does not recover from: code or settings that have changed since the
\* manifest, a gate that failed or was left unfinished, and a verdict outside the
\* contract, which is cached before it is parsed.
Stuck ==
    \/ manifest \notin {None, config}
    \/ lifecycle = "failed"
    \/ lifecycle = "partial" /\ pc # "suite"
    \/ \E r \in DOMAIN cache : r[1] = "judge" /\ ~Parses(cache[r])

\* Semaphore, request locks and task groups never wait for each other: a cohort
\* whose processes die only so often, and that is not stuck, gets its summary.
EvaluationEnds == <>(summary # None \/ Stuck)

\* The protocol of a cohort holds through concurrency, cancellation and restarts: the
\* holdouts come in order behind the gate, replies are bought once, and results
\* are of one configuration.
ProtocolInv ==
    /\ TypeOK
    /\ GateFirst
    /\ HoldoutInOrder
    /\ RepliesBoughtOnce
    /\ ResultsOfOneConfig

\* The verdict is justified by the results on disk: credit is for what was shown, and
\* a cohort that passes was helped in each of its holdouts.
VerdictJustified == CreditNeedsRendering /\ PassMeansRenderedGain

=============================================================================
