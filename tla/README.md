# A verification project for ChoraMem

TLA+ models, TLC runs and TLAPS proofs for the memory core `memoryd` (causal
intake, the durable consolidation queue), for the Python inference Worker and
SDK around it, and for the evaluation harness that decides whether learned
memory helps. Paths below are relative to the repository; `eval/` stands for
`eval/python/src/memory_core_eval/`. The line ranges behind every definition are
in `PROJECT.json` under `map`.

## 1. Inventory

| Part | State | Operations | Talks to |
|---|---|---|---|
| Causal ledger `internal/core/ledger` | sources, typed links, in memory | `Observe` | reference semantics of intake |
| Causal intake `internal/storage/{postgres,mysql}/{store,feedback}.go` | `request_receipts`, `source_events`, `episode_links`, `episodes`, `outcome_events`, `memory_delivery_receipts` | `Observe`, `RecordMemoryDelivery`, `ReportOutcome` | enqueues to the queue and to the index streams in its own transaction |
| Consolidation queue `consolidation_jobs.go` | `consolidation_jobs`: collecting, frozen, completed windows | enqueue, lease (freeze, split, overlap), complete, retry | filled by intake, drained by the scheduler |
| Scheduler `internal/scheduler` | one lease at a time per processor | `ProcessOne`, `Run` | queue, engine |
| Semantic engine `consolidation.go`, `feedback_consolidation.go`, `recollection.go` | seeds, recollections, their versions and bases, `consolidation_receipts` | `ConsolidateWindow` | Worker (gRPC), index streams |
| Python Worker `worker/python` | none between calls | `ProcessConsolidationWindow`: up to four model calls, mechanical repairs, binding of plain bodies | text model; Core's tagged text parser reads its answer |
| Python SDK `sdk/python` | one turn of an Agent | observe, select, render, deliver, run, observe, report | Core over gRPC, with deadlines |
| Memory index projection `memory_index_projection.go`, `memoryindex/` | `memory_index_operations`, an external index | lease, acknowledge, retry, `Rebuild` | index provider |
| Memory selection `memory_context.go`, `internal/core/selection` | `memory_contexts` and items, frozen per run | `SelectMemory` | owners' versions, index |
| Worker replay `eval/personamem_live.py` | exact and semantic replay tables, `windows.jsonl` | `complete`, `load_worker_replay` | wraps the Worker's model in evaluations |
| Settling probe and lifecycle gate `eval/anchor_cli.py`, `personamem_effect_runner.py`, `seed_lifecycle.py` | case results, `summary.json` | readiness reads, formation, four cases | Core's database while Core works |
| ANCHOR, delayed Seed, CUPID and PersonaMem evaluations `eval/*_cli.py`, `*_runner.py`, `*_effect.py` | an output directory: manifest, request cache, results, summary | start, resume, answer, judge, freeze, summarize | Core, an answer model, a judge |
| Other evaluations, data loading, transports, configuration | see section 7 | – | – |

What is hard in it. Intake transactions of several statements interleave
between advisory locks, row locks and unique keys. Intake and leases change the
same queue rows. Processors crash, lose their leases, and finish late. A commit
can take effect and its answer be lost. Every request may be repeated while its
first attempt runs. The two adapters run the same statements at different
isolation levels. The Worker combines four answers of a model that may say
anything. A turn that timed out is run again while its first request is on the
way. The evaluations read a Core that keeps working, are killed and started
again over a directory and a Core that remember, share one request cache
between concurrent tasks, and end in a verdict over averages. The list with
lines is `hazards` in `PROJECT.json`.

What makes each part correct:

- *Intake*: the interleaved transactions implement the one-step ledger; retries
  get the same answer; nothing that belongs to an Episode stays unbound or
  unqueued; deliveries precede acts; locks are taken in one order.
- *Queue*: one collecting Job per owner; frozen windows are immutable; nothing
  committed is lost or stuck; windows take effect once and in order; everything
  is eventually consolidated.
- *Worker*: a new Seed comes through one lane only; a later lane does not cost the
  window what an earlier one said; feedback rests on causal pairs; no model call
  exceeds the configured input.
- *SDK*: what the model saw is what Core has on record, through timeouts and
  repeated turns; the Outcome names it; the renderer keeps its budget.
- *Replay*: an answer is reused only for the same window under other names.
- *Evaluations*: results come from one manifest and, where promised, from
  one frozen memory; arms differ only in what they compare; a Seed gets credit
  only where it was shown; a verdict is that of the complete cohort and names the
  earliest bottleneck; a run that is started again ends.

## 2. Plan

1. `ConsolidationQueue` – modelled, checked, proved (`ConsolidationProofs`).
2. `Ledger`, `CausalIntake` – modelled and checked; proved (`TurnAndIntakeProofs`):
   for PostgreSQL all properties but `CallsProceed`, with the refinement of
   `Ledger`; what does not depend on current reads for MySQL as well.
3. `Rendering`, `TurnLifecycle` – modelled, checked, proved (`TurnAndIntakeProofs`).
   `TaggedText`, `Worker` – modelled and checked; `LanesOwnSeeds` and
   `PromptsJustified` proved (`ConsolidationProofs`).
4. `Settling`, `SeedLifecycle`, `SemanticReplay` – modelled, checked and proved
   (`LifecycleAndReplayProofs`).
   `CupidRun`, `AnchorRun`, `DelayedSeedRun`, `PersonaRun` – modelled and checked;
   all their safety properties are proved (a module `…Proofs` each, over the lemmas
   about the renderer in `RenderingProofs`).

Not proved: `AnswerSurvives` and `FeedbackIsCausal` of the Worker (section 6).

None of the modules declares a RECURSIVE operator.

## 3. Modules

### ConsolidationQueue

| TLA+ | Code |
|---|---|
| `jobs[n]` | row of `consolidation_jobs` with `job_order` n; `collecting`: no `window_hash`, `frozen`: hash set, `completed`: `completed_at` set |
| `token`, `leased`, `due`, `quiet` | `lease_token`, `lease_until > now()`, `not_before <= now()`, `updated_at <= QuietBefore` |
| `lastDone[w]` | the row `prependPreviousOverlap` finds by `completed_at DESC` |
| `tx[i]` | an intake transaction inside `enqueueConsolidationEvidence`, statement by statement |
| `proc[p]` | a `ProcessOne` call with its private copy of the window |
| `receipts`, `applied` | `consolidation_receipts`; how often the changes of a Job were committed |
| `IntakeBegin` … `EnqueueExtend`, `IntakeAbort` | Observe and ReportOutcome from the group lock on, collection lock, `SELECT … FOR UPDATE`, `INSERT … ON CONFLICT DO NOTHING`, the second `SELECT`, `UPDATE`, rollback |
| `LeaseCollecting`, `LeaseFrozen` | `LeaseConsolidationJob` with `FOR UPDATE SKIP LOCKED`: one transaction on rows nobody else can write, hence one step |
| `EngineSnapshot` … `EngineFails` | `ConsolidateWindow`: snapshot, Worker call, commit transaction with the receipt looked up again |
| `Complete`, `Retry`, `LeaseLost`, `Crash` | the acknowledgement by token; a failed acknowledgement, a shutdown and a crash leave the lease to expire |
| `LeaseExpires`, `RetryDelayElapses`, `QuietPeriodElapses` | time |

A lease token is random in the code; since a processor handles one lease at a
time the processor stands for it. A crashed and restarted processor is the same
element of `Processor`: its old token stays in the row but no call of the new
one uses it before leasing again. Outcomes are a set, since the queue never
looks at their order; Episodes are a sequence, since windows and overlap do.
`CompleteConsolidationJob` is documented as acknowledging "only the caller's
live lease" but matches the token alone; `EffectOnce` and `CommitsInOrder` show
that acknowledging an expired lease that nobody has taken over is harmless.

PostgreSQL details that the model keeps: `FOR UPDATE` picks rows in its snapshot
and looks at them again after waiting, so it misses a remainder that a
concurrent freeze has inserted; this is the only way to the `ON CONFLICT` path.
A `SKIP LOCKED` lease skips rows that intake has locked (`RowLocked`).

### Ledger and CausalIntake

`Ledger` is `internal/core/ledger` as an abstract specification: admitted
sources and links; an Episode exists when its links pass the distinct-role gate.

| TLA+ (`CausalIntake`) | Code |
|---|---|
| `receipts` … `deliveries` | the tables of intake; `bound`: `episode_ref` is set |
| `queued`, `projected` | what was handed to `enqueueConsolidationEvidence` and `enqueueEpisodeProjection` in the same transaction |
| `tx[c].pc` | which locks the call holds: request, run, source row, group |
| `tx[c].view` | what the reads of the call see: nothing fixed, or the rows at the time of the read that fixed it |
| `Begin`, `ClaimRequest`, `LoadDeliveryReceipt`, `LoadOutcomeReceipt` | the start of the three commands up to replay, conflict or claim |
| `LockFeedbackRun`, `AdmitSource`, `LockGroup` | the locks in the order of the code, each with the reads that follow it |
| `CommitSource`, `CommitObserve`, `CommitOutcome`, `CommitDelivery` | `appendLinkAndMaterialize`, the queue, the projection, the receipt and the commit |
| `RejectSealed`, `RejectRetroactive`, `Abort` | the error paths; `Abort` also stands for invalid deliveries, lock timeouts, lost connections, crashes |

Reads decide on `Visible(c)`; INSERT, UPDATE and unique keys work on the rows
that are there. With `Adapter = "postgres"` a read before the last lock fixes
nothing. With `"mysql"` the first plain SELECT fixes the view of the
transaction: `BeginTx` (`mysql/sql.go:40`) leaves the isolation level at the
server's default, which is REPEATABLE READ, and nothing else sets it. `SELECT
GET_LOCK` reads no table and fixes nothing. The statements between the last
lock and the commit are one step, because the rows they read are written only
under a lock the call holds; the reads of an outcome's bindings are one step
because rows are only ever added. The steps of the queue inside the commit are
those of `ConsolidationQueue`.

A request stands for its canonical hash. A call that is repeated is another
`Begin` with the same request, by any caller at any time.

`enqueueRunEpisodes` is part of `CommitDelivery` but never enqueues anything on
PostgreSQL: an Episode needs an AgentAct in its run, which the check before it
excludes.

### TaggedText and Worker

`TaggedText` has a text as a sequence of lines, each line one token: Core's
`ParseTaggedText` and the Worker's repairs (`_split_copied_inline_application`,
`_restore_initial_new_target`, `_deduplicate_basis`,
`_remove_new_disposition_changes`, `_normalize_feedback_output`) compare whole
lines. Byte limits become numbers of lines. `Worker` is one
`ProcessConsolidationWindow` call: `Call`, then `PrimaryAnswer`,
`FormationAnswer`, `FeedbackAnswer` and `RecollectionAnswer`, one for each await
of the model, each with everything the handler does up to the next await.
`ModelFails` and a body that `bind_disposition` refuses end the call; `CallAgain`
is Core's retry of the Job. `raw`, `formed`, `recovered` and `sizes` are history.

Two properties are conditional, because the Worker and Core do not read every text
alike (section 5). `ReadAlike` is the condition on the primary answer under which they
do: every line `TARGET` that `splitlines` finds opens a block Core reads, no body holds
a separator of its own, and no blank line comes between `TARGET` and the target.
`AnswerSurvives` needs besides that the recovered feedback is readable by itself;
`FeedbackIsCausal` needs only the first part (`TargetsOpenBlocks`), of the reply. The
answers of the run include those that break each condition.

What is assumed of the inputs: a model answers with lines, any lines
(`AnswerAssumption`). A request is what the messages of `inference.proto` can say;
the refs that Core offers as Basis and as feedback targets are minted by Core, so none
is a word of the protocol, a body or blank, and an eligible application is `SELF` or
`RELATION` (`RequestAssumption`, `WindowRequest`). A window is given by what the Worker
reads from its text, so nothing quoted in it is taken for one of Core's own lines.

### Rendering and TurnLifecycle

`Rendering` is `render_memory_context`: items taken in order while the whole text
with its headings stays in the budget. `Render` is a recursive function over the
number of items looked at, one `WithItem` each, and `VisibleAt` the positions it
takes when the budget allows. `TurnLifecycle` is a turn as
`adapters/openai_agents.py` sequences it over `AsyncMemoryClient`: `net` holds
requests under way; `CoreHandles` may answer a request nobody waits for any
more; `Timeout` leaves the request in `net` or loses it; `RunAgain` is the
Harness with the same stable identities; `Close` and `CallRefused` are the
client's `close`. Core is what its handlers promise for one run (a frozen
context, one delivery, one AgentAct); `Learn` changes what it would select.

### Settling, SeedLifecycle, SemanticReplay

`Settling` is the readiness probe: four SELECTs, one step each (`ReadEpisodes`,
`ReadJobs`, `ReadCompleted`, `ReadOps`), against a Core whose windows commit, whose
Jobs complete and whose index operations are acknowledged in between
(`Background`). What a window makes of an Episode is left open, a Core that breaks
its rules included. `SeedLifecycle` puts the formation turns and the four cases of
`seed_lifecycle.py` on top of it; `CrashAndRestart` keeps Core and the files.

`SemanticReplay` is `RecordingWorkerModel`: `Receive` (exact hit, semantic hit,
refusal or a call of the provider), `Reply`, `Cancel`, `Stop`, `Start` from the
log. Canonical inputs are computed as in the code. An Episode, Outcome, session, source
or actor goes by the bag of contexts that name it, unless another has the same bag, and
then by its name; a memory goes by its descriptor, and without one by its turn among the
memories met. The order of the `DIRECT_EPISODE`, `REVISION_ANCHOR` and `ALLOWED_*` lines,
of memories and of related Episodes, which the code sorts, is not part of a state. Left
out are the `FEEDBACK_EPISODE` and `FEEDBACK_OUTCOME` lines, the headings of the text, and
refs that occur inside free text. `NamesByKind` says what the
regular expressions of the code tell refs apart by: an Episode, an Outcome and a memory
never have one name; a session may have any.

### The evaluations

`SeedArms`, `AnchorEffect`, `DelayedSeedEffect`, `CupidEffect` and `PersonaEffect`
are the pure parts: arms from one Select, validation, judge contracts, verdicts
and bottlenecks. `AnchorRun`, `DelayedSeedRun`, `CupidRun` and `PersonaRun` are the
runs. `RequestCache` has what they and `SemanticReplay` share: tables that grow by
one entry (`With`, `Extended`) and the history of provider calls (`CountCall`).

| TLA+ | Code |
|---|---|
| `manifest`, `results`, `summary`, `cache`, `lifecycle` … | files of the output directory |
| `part`, `Write`, `Replace` | the `.part` file and its rename (ANCHOR, delayed); a crash leaves it and `RemovePartial` is the operator. In CUPID and PersonaMem a file is one step |
| `config`, `Drift` | what `build_run_manifest` binds: data, prompts, runtime and the source files it lists; `Drift` is the environment changing one of them |
| `selected`, `owners`, `learned`, `contexts` | what Core remembers of the evaluation across restarts |
| `Cached`, `Buy`, `UseCached`, `CallProvider`, `Reply` | `CachedTextModel.complete`; in CUPID with its per-request lock, which is held across the provider call |
| `task[i]`, `Acquire`, `GroupAtWork`, `Raise` | asyncio tasks, semaphore, one task group per split; an exception cancels the others |
| `before`, `VerifyMemory`, `VerifyProjection`, `FreezeProof` | the memory snapshot of PersonaMem and `verify_frozen` |
| `version`, `indexed`, `Learn`, `Project` | Core learning on its own, and the index behind it |
| `Select`, `Load` (PersonaMem) | `SelectMemory`: the search of the index, which may fail and then finds nothing, and after it, under the owner locks, the candidates and the frozen context |
| `EvidenceCandidates`, `BoundEpisodeEvidence` | `loadEpisodeEvidence`: of the Episodes found, those that can be loaded and do not hold the situation asked about, each once; of these in order what fits the bytes and the number of entries, what does not fit being skipped |
| `Crash`, `Stop` | the process is killed, or a call fails for good |
| `calls`, `madeUnder` | history |

`config` is not all of the code. The manifest of ANCHOR omits `perma_seed_effect.py` and
`personamem_effect_runner.py`, that of the delayed Seed `personamem_effect_runner.py`, and
none of them lists the SDK's `rendering.py`: `ResultsOfOneConfig` is about what a manifest
binds, and a change of those files between two starts is not noticed by the code either.

Texts are sequences of the refs rendered, so two arms have the same prompt exactly
if they were shown the same. `Selectable` is what is assumed of a selection: Core names
a memory once and with its scope (`validateSelectedMemoryRefs`, `buildMemoryContext`), and
the renderer refuses anything else. That the arms of such a selection are
paired, whatever the budget, is a lemma (`ArmsArePaired`). Memory refs are minted by
Core, so none is the `oracle:` or `anti:` ref of a counterfactual arm; that the memory of
the smoke fits the budget of the smoke is `SmokeAssumption`.
Hashed orders of arms are constants. Bootstrap samples
are a constant table (`Draws`): `random.Random(0)` is deterministic, and the verdicts
use only how many samples are not positive. Means become sums, whose signs agree.

## 4. Runs

| Run | Shows | Instance |
|---|---|---|
| `queue` | `CommitsInOrder`, `EffectOnce`, `QueueInv` (`QueueShape`), `LeaseNeverWedged`, `EvidenceNeverLost`, `FrozenWindowsFixed`, `FreezeMakesProgress` | two intakes, two processors, one owner, three Episodes, one Outcome, three intake transactions |
| `queue_liveness` | `EvidenceConsolidated` | one intake, one processor, three Episodes, four intake transactions |
| `intake` | `LedgerInv` (`EpisodesMatchLedger`), `ReplayAgrees`, `EvidenceBound`, `CallsProceed`, `ImplementsLedger`, `DeliveryBeforeAct` on PostgreSQL | three callers, twelve requests, four calls |
| `mysql_outcome` | `EvidenceBound` violated on MySQL: the finding below | two callers |
| `worker` | `LanesOwnSeeds` and `PromptsJustified` (`InputBound`) for any answer, `AnswerSurvives` and `FeedbackIsCausal` under their preconditions | eleven windows, 39 primary answers, five formation bodies, ten recovery answers, seven fallback bodies, two attempts |
| `turn` | `ModelSeesDelivered`, `CoreRecordsTurn` (`ReturnedActRecorded`, `OutcomeNamesDelivery`), `TurnInv` (`RenderedWithinBudget`) | three attempts, five contexts |
| `anchor` | `DirectoryInv` (`ResumableOnceLearned`, `ResultsOfOneConfig`, `RepliesBoughtOnce`), `VerdictJustified` (`CreditNeedsRendering`, `GeneratedArmsValidate`, `SummaryOfResults`, `ReadyIsImprovement`, `BottleneckIsEarliest`), `EvaluationEnds` | one trajectory, one behavior, one crash, one drift |
| `lifecycle` | `SettledInv` (`SettledIsFinal`), `PassedMeansBoundary`, `SuiteEnds` | two formation turns, one crash |
| `replay` | `RestoredIsRenaming`, `ReplayInv` (`OneAnswerPerState`, `OnlyCompletedReplayed`) | two concurrent callers, two calls, two processes; windows of two Episodes in one session or two, of one actor or two, with an Outcome, related Episodes, and memories with and without descriptor (63,271 states) |
| `delayed` | `DirectoryInv` (`ResumableOnceLearned`, `ResultsOfOneConfig`), `VerdictJustified` (`CreditNeedsRendering`, `ArmsShareRecollections`, `SummaryOfResults`, `SmokeShowsAdvantage`, `BottleneckIsEarliest`), `EvaluationEnds` | live and smoke, two instances, one of which may form a Disposition after any session, the first included, and lose it again; one stop, one drift (572,826 states) |
| `cupid` | `ProtocolInv` (`GateFirst`, `HoldoutInOrder`, `RepliesBoughtOnce`, `ResultsOfOneConfig`), `VerdictJustified` (`CreditNeedsRendering`, `PassMeansRenderedGain`), `EvaluationEnds` | a formal cohort of four instances, three with one request; two at a time, two processes |
| `persona` | `MemoryFrozen` (`ResultsOfFrozenMemory`, `ProofCoversResults`), `ArmsComparable` (`FunnelHolds`, `CoreArmsShareLearned`), `BlameJustified` (`BlameNeedsLoss`, `BlameIsLargest`), `EvaluationEnds` | two personas, three questions, one persona still learned about, one stop or failing search; evidence that exceeds the bytes that are left (192,042 states) |

In brackets the named parts of an invariant that is a conjunction; its first part
is the `TypeOK` of the module where the name ends in `Inv`, and in
`PromptsJustified` and `MemoryFrozen`. Deadlock checking is off in all runs: with the bounds
used up, or with nothing to do, the system may stop. Deadlock among the calls of
intake is the property `CallsProceed`, among the tasks of CUPID it is
`EvaluationEnds`.

**Bounds.** Queue: windows of two Episodes and an overlap configured as two (so
that it is clamped to one) make three Episodes split, overlap and leave a
remainder. Each committed intake adds at most one collected Episode and each
freeze takes at least one away (`FreezeMakesProgress`), so there are never more
Jobs than intakes and `MaxJobs = MaxIntakes` never disables anything. Two
processors suffice for a lost lease, since only the owner of the token and
somebody else are told apart. A fourth transaction is needed to find the owner's
slot taken by the remainder of a freeze (`EnqueueConflict`): with two processors it
is beyond TLC's reach in the time a run is given, so this path is in the instance
of `queue_liveness`, whose evidence is Episodes only, and its safety is what the
proofs show. Other owners, windows and numbers of everything are
covered by the proofs. Intake: one group with both roles, a second group of the same
run for deliveries; four calls are enough for the situation and the act of an
Episode and for an Outcome and a retry or a conflict that race with them. Worker: the answers are single blocks, their
truncations, and pairs whose order and lanes differ, with separators, blank lines and
bodies that are markers; the sizes let each lane be
within and beyond the limits. Turn: three attempts let the requests of two
earlier ones arrive late. Evaluations: one crash and one start more reach every
pair of adjacent files; a second crash meets the same states with fewer files. One
instance of each kind suffices for what is said of a single result, and two are
needed for what is said of the cohort and of shared requests; CUPID has four, so
that with two places in the semaphore one waits for a place and two for one request.
In `anchor` and `delayed` only some instances have a choice of replies and
contexts. Callers, processors and intakes are interchangeable: a
symmetry of `queue`, `intake`, `mysql_outcome` and `replay`, which check safety only.

**Fairness.** Queue: a transaction runs to its end (weak fairness of
`EnqueueStep`). `Run` polls for ever, and `SKIP LOCKED` passes over a row only
while intake has it, so a Job ready again and again is leased; the Worker, the
commit and the acknowledgement may fail any number of times but not for ever
(strong fairness). This is an assumption about the environment: a window that
can never be consolidated does block its owner. Deadlines pass. Nothing is
assumed of intake starting, of aborts, crashes or failures. Evaluations: a process
that can go on does, and the operator starts it again (`WF` of `Step` in
`AnchorRun` and `DelayedSeedRun`; of `Main` and of every instance in `CupidRun`, of
every persona in `PersonaRun`, because the event loop runs every ready task);
the scheduler and projector of Core finish what they began (`CoreWorks` in
`SeedLifecycle`, `Project` in `PersonaRun`). Crashes, drifts and learning are not
fair and are bounded in number; timeouts of the lifecycle's waits are possible at any
time but never relied on, so a wait for a number that is never reached would
violate `SuiteEnds`.

`EvaluationEnds` names what a directory does not recover from: changed inputs
(all four), a reply outside the judge's contract that is cached before it is
parsed, a frozen context that leaves no room for the counterfactuals (delayed,
CUPID), a gate that failed or was left unfinished (CUPID), and a Core that has
learned since the snapshot (PersonaMem). Everything else it does recover from.

Each property of a passing run has a mutant: a definition with a plausible slip (a dropped guard, a
swapped order, a missing comparison) under which TLC finds it violated, for a
conjunction by one of its parts; they stand as `Variant:` before the definition
they replace.

## 5. Findings

`mysql_outcome`: on MySQL an Outcome that waits for the materializing call is stored
without its Episode and not queued. A plain SELECT before the group lock fixes
what the reads under the lock see, since the isolation level is left at
REPEATABLE READ. The PostgreSQL run checks the same property and passes.

Two more consequences of the same cause were seen with `Adapter = "mysql"` and have
no run of their own: a call for a source that already exists compares it in
`admitSource`, waits for the group lock and does not see the other role in
`distinctRoleGate`, so that both links exist and no Episode
(`EpisodesMatchLedger`; a later call for the group makes up for it); and a delivery
that waits for an AgentAct of its run is accepted after it (`DeliveryBeforeAct`).

Behaviour met while modelling that a property has to leave out:

- *Worker, lines.* `_remove_new_disposition_changes` splits with `splitlines` and
  joins with LF; a Unicode line separator inside a kept body becomes a line break
  that Core's parser rejects, and with it the whole answer. `ReadAlike` leaves such a
  body out of `AnswerSurvives`.
- *Worker, blank lines.* `_contains_target_block` looks at adjacent lines, blank
  ones included, Core at meaningful lines. A header with a blank line in it is
  asked for again although Core could read it, and the repeated target makes Core
  drop both: with them the rest of the primary answer (`ReadAlike`).
- *Worker, a body that is a marker.* `_contains_only_target_blocks` takes every line
  `TARGET` for the head of a block. A feedback block whose TEXT body is the line
  `TARGET`, which Core reads, keeps the Basis the model chose (`TargetsOpenBlocks`).
- *Worker, recovered feedback.* The answer to the recovery prompt is appended without a
  reading of its own. One that repeats a target or names an unknown scope makes Core
  reject the reply, and the primary answer is lost with it; `AnswerSurvives` therefore
  asks that it is readable by itself.
- *Worker, formation.* A formation body of several lines raises out of the handler
  and fails the RPC, while the plain Recollection fallback keeps the answer.
- *Lifecycle gate.* A case takes effect in Core before its result is on disk. A suite
  that is killed in between and run again compares the state with itself; a passed
  gate then has not seen every change, so `PassedMeansBoundary` is about suites that
  were not killed. ANCHOR takes a suite that left cases for a failed gate, CUPID
  refuses it.
- *Delayed Seed.* A resumed instance reads the state after all its sessions at every
  session, so its learning curve is flat; only the last value enters the
  diagnosis. A smoke resumed over frozen results ends in an exception because it
  counts the completions of its own process.
- *PersonaMem.* A failed index search inside `SelectMemory` is not an error: the context
  is frozen without what the index would have found, and a question that is asked again
  gets it again. The evaluation cannot tell this from a selection that found nothing.
- *Replay.* The output of a refused call is logged; a log that holds one with an
  unknown ref, or two answers for one state, is refused by the next process.

## 6. Proofs

Each theorem holds for every value of the constants that meets the assumptions
named in the last column; TLC evaluates those assumptions on every run of the
module. Where a property is a conjunction the theorem is about all of it.

| Module | Theorem | Property | Assumptions |
|---|---|---|---|
| `ConsolidationProofs` | `TypeCorrect` | `TypeOK` | `OwnerOfType`, `EpisodeOfType`, `WindowBounds`, `ModelBounds`, `NullIsFresh` |
| | `QueueKeepsShape` | `QueueInv` | |
| | `FrozenWindowsStayFixed` | `FrozenWindowsFixed` | |
| | `CommitsStayInOrder` | `CommitsInOrder` | |
| | `EffectsHappenOnce` | `EffectOnce` | |
| | `LeaseIsNeverWedged` | `LeaseNeverWedged` | |
| | `EvidenceIsNeverLost` | `EvidenceNeverLost` | |
| | `FreezesMakeProgress` | `FreezeMakesProgress` | |
| | `SeedsAreOwned` | `LanesOwnSeeds` | `MaxTaggedLinesAssumption`, `LineAssumption`, `WorkerAssumption`, `AnswerAssumption`, `RequestAssumption` |
| | `PromptsFit` | `PromptsJustified` | |
| `TurnAndIntakeProofs` | `TypeCorrect` | `TypeOK` | `RunOfType`, `RequestsWellFormed`, `AdapterKnown`, `CallBound` |
| | `SourcesImmutable` | `SourcesUnique` | |
| | `RepliesAgree` | `ReplayAgrees` | |
| | `LedgerCorrect` | `LedgerInv` | the same, PostgreSQL |
| | `EvidenceIsBound` | `EvidenceBound` | the same, PostgreSQL |
| | `DeliveriesPrecedeActs` | `DeliveryBeforeAct` | the same, PostgreSQL |
| | `IntakeImplementsLedger` | `ImplementsLedger` | the same, PostgreSQL |
| | `TurnTypeCorrect` | `TurnTypeOK` | `TurnAssumption`, `ContextsAreSequences`, `BudgetAssumption`, `NoneIsFresh` |
| | `DeliveryIsTheTruth` | `ModelSeesDelivered` | |
| | `RecordIsTheTurn` | `CoreRecordsTurn` | |
| | `TurnIsWithinBudget` | `TurnInv` | |
| `AnchorRunProofs` | `DirectoryCorrect` | `DirectoryInv` | `CohortAssumption`, `RunAssumption`, `BudgetAssumption`, `NoneIsFresh` |
| | `VerdictOfCohort` | `SummaryOfResults` | |
| | `AlikeArms` | `AlikeArmsAgree` | |
| | `CreditIsRendered` | `CreditNeedsRendering` | |
| | `GeneratedArms` | `GeneratedArmsValidate` | |
| | `EarliestBottleneck` | `BottleneckIsEarliest` | |
| | `HoldoutIsEarned` | `ReadyIsEarned` | |
| | `ReadyExactly` | `ReadyIsImprovement` | |
| | `VerdictIsJustified` | `VerdictJustified` | |
| `DelayedSeedRunProofs` | `DelayedDirectory` | `DirectoryInv` | `RunAssumption`, `SmokeAssumption`, `BudgetAssumption`, `NoneIsFresh` |
| | `DiagnosisIsJustified` | `VerdictJustified` | |
| `CupidRunProofs` | `ProtocolKept` | `ProtocolInv` | `CohortAssumption`, `CupidAssumption`, `BudgetAssumption`, `NoneIsFresh` |
| | `VerdictOfCohort` | `SummaryOfCohort` | |
| | `AlikeArms` | `AlikeArmsAgree` | |
| | `CreditIsRendered` | `CreditNeedsRendering` | |
| | `PassIsEarned` | `PassMeansRenderedGain` | |
| | `VerdictIsJustified` | `VerdictJustified` | |
| `PersonaRunProofs` | `MemoryIsFrozen` | `MemoryFrozen` | `EffectAssumption`, `RunAssumption`, `NoneIsFresh` |
| | `ArmsAreComparable` | `ArmsComparable` | and `OrdersAreSequences`, `BudgetAssumption` |
| | `DeliveryIsRepeated` | `OneDelivery` | |
| | `BlameIsJustified` | `BlameJustified` | |
| `LifecycleAndReplayProofs` | `SettledIsSettled` | `SettledInv` | `LifecycleAssumption`, `NoneIsFresh` |
| | `BoundaryIsProved` | `PassedMeansBoundary` | |
| | `ReplayIsConsistent` | `ReplayInv` | `ReplayBounds`, `InputsWellFormed`, `OutputsWellFormed` |
| | `HitsAreRenamings` | `RestoredIsRenaming` | and `NamesByKind` |

The argument, module by module. Each proof has an inductive invariant with one
lemma per action or per kind of action.

**Queue.** `StepCases` classifies the steps: each either leaves owners and
windows of all rows alone and at most completes a frozen row (`SteadyRows`), or
is one of the three that write windows (insert, extend, freeze). On it rest the
inductive invariants; `QueueShape` is inductive together with the first.

- `TypeInv` adds to `TypeOK` that the evidence of a transaction belongs to its
  Episode (`TxEvidence`), that rows are filled in order from 1 and have an owner
  (`JobRows`), and that a processor at work refers to a frozen or completed row
  (`ProcJobs`): without these the UPDATEs are not known to stay in the table.
- `LockedRows`: a row locked by intake is still collecting. The lock keeps leases
  away, so the extend step never touches a frozen window.
- `EffectInv`: a processor's copy of a window is the window of its row, which is
  first in its owner's queue (`ProcWindows`); a receipt is for the window of such
  a row and counted once, and completed rows have one (`ReceiptRows`). Being
  first in the queue is stable, which gives `CommitsInOrder` for processors that
  commit long after their lease.
- `EvidenceInv`: every Outcome of a row has its Episode in the same row
  (`SelfContained`), unused rows are blank (`BlankRows`), and
  `EvidenceNeverLost`. Self-containment is what makes the partition of a lease
  succeed, and the partition is what preserves it.
- `CollectingLists`: a collecting row lists Episodes without repeating one, and
  is not empty. The remainder of a freeze is the old list without the members of
  the window, so it is shorter by at least the first of them; the count is a
  pigeonhole over positions.

**Worker.** The inductive invariant `WorkerInv` says what a text is made of (`Lanes`):
what is left of the primary answer, then the block of the formation lane, then blocks
that later lanes appended. In the first part no block for a new Seed with an operation of
another lane stands anywhere (`Removal`: either all such blocks are found and cut out, or
the whole text is given up); a later addition opens with `TARGET` and has no header for
a new Seed in it (`NormalizeIs`, `RecollectionsAre`). Putting texts together makes no such
block at the seam (`SeedOfJoined`), because what is appended opens with `TARGET` and a
header has five lines at fixed places. Core reads a change for a new Seed only where such
a block stands (`ReadIs`, `ReadSeed`); the formed block is read in the middle of a text
exactly as alone (`BlockMoved`), so what Core reads of it is in `Changes(formed)`.
The parser and the repairs are recursive functions over positions and concatenations;
what holds along them is proved by a least position at which it would fail
(`SeqInduction`, `FlattenSteps`, `ParseSteps`). The lemmas hold for any lines the model
answers with: words of the protocol, separators and blank lines included.
For `InputBound` the recovery prompt names refs that the primary prompt has listed
already, each at most once (`FeedbackFits`), and its rules are shorter.

**Intake.** What a call in hand has locked determines what it has read
(`PhaseInv`); nobody shares a lock (`LocksExclusive`); a source row is unique, and
the caller that is about to insert one is alone with it (`SourceInv`); a caller
that holds the lock of its key found nothing under it, and there is still nothing
(`KeyInv`). Together these are `CallInv`, which holds on both adapters and gives
`SourcesUnique` and `ReplayAgrees`. On PostgreSQL what a call has read of its group
is still so as long as it has the lock (`ViewInv`), so the gate is evaluated on the
rows themselves (`GateInv`): `StoreInv` is inductive and gives the rest. On MySQL
`ViewInv` is false, because a snapshot may be older than the lock; these theorems
have PostgreSQL as a hypothesis for that reason, and section 5 shows what happens
without it. For the refinement a commit that appends its link is `Observe` of
`Ledger`, one that stores its source alone is `Admit`, and every other step
stutters.

**Turn.** `TurnIInv`: what Core holds for the run is complete up to some step of the
turn (`CoreShape`), the context it froze is the one that was selected
(`FrozenContext`), a delivery precedes the answer (`DeliveredFirst`), a returned act
was sent before (`ActSent`), and a receipt in the Harness's hand is the one in Core
(`ReceiptKnown`). Requests from an earlier attempt carry the same identities, so
they change nothing that is there. `TurnIsWithinBudget` is an induction over the
items of a context, by a least counterexample (`TakingExists`): after n items the
text taken is the visible part of the first n.

**ANCHOR.** `IInv` adds to the three parts of `DirectoryInv` that a file is written
where the program says it is (`PartOK`), that work happens only under the manifest
of the present inputs (`BoundInv`), that the gate is decided once and first, and that
a provider call without a reply on disk was lost in a crash (`CallsCounted`).
`ArmsInv` carries through the tasks that an answer is the cached reply to the text
shown and a verdict the cached one to the question and answer (`ArmsOf`, `Verdict`);
since texts are the keys of the cache, arms with the same text have the same verdict.
Rendering the Recollections and then the Dispositions continues the rendering of the
Recollections alone (`RenderContinues`, `ShownTogether`), so the two arms of a selection
show the same Recollections and differ only where a Disposition is shown
(`ArmsArePaired`). `CreditNeedsRendering` and `GeneratedArmsValidate` follow. The verdict
is about sums over the cohort: a sum of differences is positive only if one of them is
(`SumIs`), and that one belongs to an instance whose two arms were shown different
texts (`GainWasShown`).

**Delayed Seed.** The protocol of ANCHOR without a gate and with a result per instance
(`InstanceInv`, `Frozen`): once an instance is learned its result comes from what Core
selected then, under the manifest of the present inputs. `ArmsInv` carries the four arms
through an instance that may be resumed in the middle: the contexts are those of one
selection (`Rendered`), an answer is the reply to the text of its arm, a token the verdict
on the two answers as they were shown. That a clear win needs a rendered Seed is then a
fact about one result (`CreditOfResult`): without it the learned arm has the text of the
RAG arm, hence its answer, hence the forward and the reverse judgement are of one request
and its token cannot favour the same arm twice. A counterfactual arm
shows what the RAG arm shows and besides it its own ref alone, or nothing more
(`CounterfactualShown`). The smoke's models answer from the refs in the text, so
each arm is told from every other (`SmokeIsTold`) and each pair is decided by its rank in
both orders (`SmokeResult`). The diagnosis is the first stage of the funnel that is
short, by the least index (`FirstShortIsEarliest`).

**CUPID.** As for ANCHOR, with tasks in place of a program counter: only one task
asks for a request, and only while there is no reply (`LocksInv`), a process has paid
only for what is on disk or under way (`CallsInv`), results are never made twice, and a
split is left when it is complete (`FrozenInv`). The semaphore is counted with the
cardinality lemmas of the library. `PassIsEarned` is the argument of ANCHOR about sums,
for each holdout.

**PersonaMem.** The memory of a persona may change at any step, and the run notices
only at its next check. The invariant therefore says of a frozen context and of a
result only that they come from a version no older than the snapshot; that it is the
snapshot is known once the memory was seen unchanged after the answer, because
versions only grow. The index is between the snapshot and the current version, so an
index that had everything of a version equal to the snapshot was that of the snapshot.

`FunnelInv` carries through an evaluation that a result has the funnel of what was
found and selected at the versions it names; once it is frozen these are one version,
the snapshot. There Core and the semantic arm filter the same order, and Core looks no
further into it, so what it selected was found (`EvidenceIsFound`): what Core skips,
because it cannot be loaded or does not fit, only makes its choice smaller, and a search
that failed found nothing. For the two arms of
Core, rendering a list and then more of it continues the rendering of the list with
items of the rest, whatever the budget (`RenderContinues`). Both are inductions along a
recursive function over the positions looked at (`EpisodesAre`, `RenderIsTaken`,
`PicksContinue`).

A blamed stage: answers are looked up by question and text, so arms that were shown the
same text have the same answer (`AlikeInv`); a verdict that names a stage is about the
results on disk, which no later step changes (`VerdictInv`). A reliable effect has a positive
sum of gains, hence a question that was lost (`EffectIs`); and means compared by
cross-multiplication are ordered (`MeansAreOrdered`), so the stage `max` takes is one
that no other exceeds (`WorstIs`).

**Lifecycle.** The probe reads four numbers at different times. `ProbeInv`: Jobs read
as none stay none, because only Jobs create operations of the index and nobody admits
an Episode during a wait; `SettledOK` is what follows for the state compared.
`CausalInv` follows an Episode's links and results through the cases of a suite that
was not killed; `PassedMeansBoundary` needs all of it.

**Replay.** An answer of the log that the process has loaded was returned by a
completed call, or is one that makes it refuse the log (`LogOK`), and the semantic table of a process has one answer for one canonical
input, that of a record (`SemanticOK`); what was returned agrees with it (`ReturnedOK`).
A restored output depends on the identities asked with only through
the canonical input (`RestoredAgrees`), which gives `OneAnswerPerState` for calls that
overlap. Every answer a process has, in its semantic table or returned, goes back to a
call that asked the provider in the same canonical state (`OriginInv`: also after a
restart, because what is loaded was returned). A marker tells its identity among those
of its sort, and the sort (`MarkersTell`, `SortOfMarker`), so two inputs with one
canonical text have the same markers sort by sort, and going from an identity to the
one of the same marker is a bijection of each sort (`MatchIsBijection`,
`RenamingMatches`). Where the order is not part of a state, the bags agree because
the renaming merges and separates elements exactly as the markers do (`SameBags`,
`BlocksExactly`, `LinesExactly`); `RenamedState` puts the parts of a window together.

Only model-checked:

- liveness under fairness (`EvidenceConsolidated`, `SuiteEnds`, `EvaluationEnds`)
  and `CallsProceed`, which is about `ENABLED`;
- `AnswerSurvives` and `FeedbackIsCausal` of the Worker. Unlike `LanesOwnSeeds` and
  `InputBound` they do not hold for every answer; section 5 says where they fail, their
  preconditions leave out just that, and for the answers of the run they are checked.

## 7. Not modelled

- *Engine*: what an admitted change does to the versions of seeds and
  recollections, and the comparison of the snapshot before a commit.
- *Index projection*: streams, leases, `Rebuild`, late writes; the index is a
  service outside the repository. *Selection*: which Seeds a search ranks.
- *MySQL queue*: the control flow of the PostgreSQL queue over other locking reads.
- *Transports, authentication, configuration, migrations*: no state of their own.
- *Seed generalization*: the run machinery of the evaluations above over other data.
  *PERMA*: only its arms, which ANCHOR shares. *ANCHOR companion study*: scoring of
  frozen records.
- *Reference harness, MemoryAgentBench, formation ablation, OmniMemEval adapter*:
  sequential drivers that resume, cache and share nothing.
- *Data loading and history writing of the evaluations*, the wording of prompts,
  hashing, clocks beyond the comparisons above, embeddings and scores of the local
  index.
