-------------------------- MODULE ConsolidationQueue --------------------------
(***************************************************************************)
(* The durable consolidation queue (table consolidation_jobs) with its     *)
(* three kinds of actors:                                                  *)
(*                                                                         *)
(*   - intake transactions, which materialize an Episode or attach an      *)
(*     Outcome and, in the same transaction, join that evidence to the     *)
(*     sole collecting Job of the long-term owner                          *)
(*     (enqueueConsolidationEvidence);                                     *)
(*   - scheduler processors, which lease the oldest ready Job, freezing    *)
(*     its window on the first lease, run ConsolidateWindow and then       *)
(*     acknowledge or release the Job (Processor.ProcessOne);              *)
(*   - time: quiet periods, lease deadlines and retry delays that pass.    *)
(*                                                                         *)
(* The semantic engine is reduced to what the queue can tell apart: the    *)
(* consolidation receipt of a Job and how often its changes were           *)
(* committed.  Clocks are reduced to the three comparisons the SQL makes   *)
(* (quiet, leased, due).  A lease token is a fresh random string in the    *)
(* code; a processor handles one lease at a time, so the identity of the   *)
(* leasing processor stands for it.                                        *)
(***************************************************************************)
EXTENDS Integers, Sequences, FiniteSets

CONSTANTS
    Owner,        \* long-term owners (tenant, kind, agent, relationship)
    Episode,      \* Episodes that intake may materialize
    Outcome,      \* Outcome events that intake may attach
    OwnerOf,      \* the owner of each Episode
    EpisodeOf,    \* the Episode each Outcome is attached to
    Intake,       \* concurrent intake transactions
    Processor,    \* scheduler processors, over all memoryd instances
    MaxEpisodes,  \* scheduler.Config.MaxEpisodes
    Overlap,      \* scheduler.Config.Overlap
    MaxJobs,      \* bound of the model: rows ever inserted in the queue
    MaxIntakes,   \* bound of the model: intake transactions that commit
    Null          \* no owner, no token

ASSUME OwnerOfType == OwnerOf \in [Episode -> Owner]
ASSUME EpisodeOfType == EpisodeOf \in [Outcome -> Episode]
ASSUME WindowBounds == MaxEpisodes \in Nat /\ MaxEpisodes >= 2 /\ Overlap \in Nat
ASSUME ModelBounds == MaxJobs \in Nat /\ MaxIntakes \in Nat
ASSUME NullIsFresh == Null \notin Owner /\ Null \notin Processor

VARIABLES
    jobs,       \* consolidation_jobs, by job_order
    nextOrder,  \* the job_order the next INSERT receives
    lastDone,   \* the owner's most recently completed Job (0: none yet)
    episodes,   \* committed rows of episodes
    outcomes,   \* committed rows of outcome_events bound to an Episode
    tx,         \* intake transactions in progress
    proc,       \* ProcessOne calls in progress
    receipts,   \* consolidation_receipts: the window committed for a Job
    applied,    \* how often the changes of a Job were committed
    intakes     \* committed intake transactions (bound only)

vars == <<jobs, nextOrder, lastDone, episodes, outcomes, tx, proc, receipts,
          applied, intakes>>

-----------------------------------------------------------------------------
(* State space *)

JobOrder == 1..MaxJobs

\* A row of consolidation_jobs.  "collecting": window_hash IS NULL; "frozen":
\* window_hash set; "completed": completed_at set; "none": no such row.
\* token = lease_token; leased: lease_until > now(); due: not_before <= now();
\* quiet: updated_at <= QuietBefore.
Job == [state    : {"none", "collecting", "frozen", "completed"},
        owner    : Owner \cup {Null},
        episodes : Seq(Episode),
        outcomes : SUBSET Outcome,
        token    : Processor \cup {Null},
        leased   : BOOLEAN,
        due      : BOOLEAN,
        quiet    : BOOLEAN]

NoJob == [state |-> "none", owner |-> Null, episodes |-> <<>>, outcomes |-> {},
          token |-> Null, leased |-> FALSE, due |-> FALSE, quiet |-> FALSE]

\* A row as INSERTed: column defaults make it due at once and not yet quiet.
NewJob(w, eps, outs) ==
    [state |-> "collecting", owner |-> w, episodes |-> eps, outcomes |-> outs,
     token |-> Null, leased |-> FALSE, due |-> TRUE, quiet |-> FALSE]

\* Where an intake transaction stands inside enqueueConsolidationEvidence.
TxPc == {"idle", "begun", "selected", "inserting", "conflicted", "reselected",
         "locked"}
IdleTx == [pc |-> "idle", episode |-> Null, added |-> {}, seen |-> 0]
Tx == [pc : TxPc, episode : Episode \cup {Null}, added : SUBSET Outcome,
       seen : 0..MaxJobs]

\* Where a ProcessOne call stands, and its private copy of the leased window.
ProcPc == {"idle", "leased", "inferring", "answered", "done", "failed"}
Idle == [pc |-> "idle", job |-> 0, episodes |-> <<>>, outcomes |-> {}]
Proc == [pc : ProcPc, job : 0..MaxJobs, episodes : Seq(Episode),
         outcomes : SUBSET Outcome]

NoReceipt == [committed |-> FALSE, episodes |-> <<>>, outcomes |-> {}]
Receipt == [committed : BOOLEAN, episodes : Seq(Episode),
            outcomes : SUBSET Outcome]

TypeOK ==
    /\ jobs \in [JobOrder -> Job]
    /\ nextOrder \in 1..(MaxJobs + 1)
    /\ lastDone \in [Owner -> 0..MaxJobs]
    /\ episodes \in SUBSET Episode
    /\ outcomes \in SUBSET Outcome
    /\ tx \in [Intake -> Tx]
    /\ proc \in [Processor -> Proc]
    /\ receipts \in [JobOrder -> Receipt]
    /\ applied \in [JobOrder -> Nat]
    /\ intakes \in Nat

Init ==
    /\ jobs = [j \in JobOrder |-> NoJob]
    /\ nextOrder = 1
    /\ lastDone = [w \in Owner |-> 0]
    /\ episodes = {}
    /\ outcomes = {}
    /\ tx = [i \in Intake |-> IdleTx]
    /\ proc = [p \in Processor |-> Idle]
    /\ receipts = [j \in JobOrder |-> NoReceipt]
    /\ applied = [j \in JobOrder |-> 0]
    /\ intakes = 0

-----------------------------------------------------------------------------
(* Lists of refs *)

Elements(s) == {s[n] : n \in DOMAIN s}

\* The list (unique when s has no repetition) of the members of s that are in
\* keep, in the order of s.  A set, so that an action picks its sole member.
Filtered(s, keep) ==
    {t \in UNION {[1..n -> Elements(s)] : n \in 0..Len(s)} :
        /\ Elements(t) = Elements(s) \cap keep
        /\ \A m, n \in DOMAIN t : m < n =>
              \E k, l \in DOMAIN s : k < l /\ s[k] = t[m] /\ s[l] = t[n]}

LastRefs(s, n) == IF Len(s) > n THEN SubSeq(s, Len(s) - n + 1, Len(s)) ELSE s

FirstRefs(s, n) == IF Len(s) > n THEN SubSeq(s, 1, n) ELSE s

\* appendUniqueRefs for the single Episode an intake transaction enqueues.
AppendUnique(s, e) == IF e \in Elements(s) THEN s ELSE Append(s, e)

-----------------------------------------------------------------------------
(* Queries over the queue *)

Incomplete(j) == jobs[j].state \in {"collecting", "frozen"}

\* The partial unique index one_collecting_job_per_owner admits one row here.
CollectingJobs(w) ==
    {j \in JobOrder : jobs[j].state = "collecting" /\ jobs[j].owner = w}

TxOwner(i) == OwnerOf[tx[i].episode]

\* Advisory locks are held to the end of the transaction, so holding one is a
\* matter of how far the transaction has come.
HoldsGroupLock(i, e) == tx[i].pc # "idle" /\ tx[i].episode = e

HoldsCollectionLock(i, w) == tx[i].pc \notin {"idle", "begun"} /\ TxOwner(i) = w

RowLocked(j) == \E i \in Intake : tx[i].pc = "locked" /\ tx[i].seen = j

\* enqueueEpisodeState: every Outcome of the Episode that this transaction sees.
EpisodeState(i) ==
    tx[i].added \cup {o \in outcomes : EpisodeOf[o] = tx[i].episode}

-----------------------------------------------------------------------------
(* Intake *)

\* The durable part of an intake transaction that is over.
CommitIntake(i) ==
    /\ episodes' = episodes \cup {tx[i].episode}
    /\ outcomes' = outcomes \cup tx[i].added
    /\ intakes' = intakes + 1
    /\ tx' = [tx EXCEPT ![i] = IdleTx]
    /\ UNCHANGED <<lastDone, proc, receipts, applied>>

StepTx(i, pc, seen) ==
    /\ tx' = [tx EXCEPT ![i].pc = pc, ![i].seen = seen]
    /\ UNCHANGED <<jobs, nextOrder, lastDone, episodes, outcomes, proc, receipts,
                   applied, intakes>>

\* Observe or ReportOutcome under the group lock of Episode e: e materializes
\* together with the Outcomes reported before it, or one more Outcome arrives,
\* or (O = {}) an outcome-role source link does.
IntakeBegin(i, e, O) ==
    /\ tx[i].pc = "idle"
    /\ \A k \in Intake : ~HoldsGroupLock(k, e)
    /\ intakes + Cardinality({k \in Intake : tx[k].pc # "idle"}) < MaxIntakes
    /\ e \in episodes => Cardinality(O) <= 1
    /\ tx' = [tx EXCEPT ![i] = [pc |-> "begun", episode |-> e, added |-> O,
                                seen |-> 0]]
    /\ UNCHANGED <<jobs, nextOrder, lastDone, episodes, outcomes, proc, receipts,
                   applied, intakes>>

\* The row that the snapshot of a SELECT ... FOR UPDATE shows.
VisibleRow(w) == IF CollectingJobs(w) = {} THEN {0} ELSE CollectingJobs(w)

\* Take the owner's collection lock; the SELECT takes its snapshot.
EnqueueSelect(i) ==
    /\ tx[i].pc = "begun"
    /\ \A k \in Intake : ~HoldsCollectionLock(k, TxOwner(i))
    /\ \E j \in VisibleRow(TxOwner(i)) : StepTx(i, "selected", j)

\* Variant: the row of the snapshot is used without looking at it again.
EnqueueLockStale(i) ==
    /\ tx[i].pc = "selected"
    /\ StepTx(i, IF tx[i].seen # 0 THEN "locked" ELSE "inserting", tx[i].seen)

\* FOR UPDATE waits for a lease that has the row and then looks at it again: a
\* row frozen meanwhile no longer qualifies, and the remainder the lease put in
\* its place is younger than the snapshot.
EnqueueLock(i) ==
    /\ tx[i].pc = "selected"
    /\ \/ /\ tx[i].seen \in CollectingJobs(TxOwner(i))
          /\ StepTx(i, "locked", tx[i].seen)
       \/ /\ tx[i].seen \notin CollectingJobs(TxOwner(i))
          /\ StepTx(i, "inserting", 0)

\* INSERT ... ON CONFLICT DO NOTHING.
EnqueueInsert(i) ==
    /\ tx[i].pc = "inserting"
    /\ CollectingJobs(TxOwner(i)) = {}
    /\ nextOrder \in JobOrder
    /\ jobs' = [jobs EXCEPT ![nextOrder] =
                    NewJob(TxOwner(i), <<tx[i].episode>>, EpisodeState(i))]
    /\ nextOrder' = nextOrder + 1
    /\ CommitIntake(i)

EnqueueConflict(i) ==
    /\ tx[i].pc = "inserting"
    /\ CollectingJobs(TxOwner(i)) # {}
    /\ StepTx(i, "conflicted", 0)

\* The second SELECT ... FOR UPDATE, for the remainder row.
EnqueueReselect(i) ==
    /\ tx[i].pc = "conflicted"
    /\ \E j \in VisibleRow(TxOwner(i)) : StepTx(i, "reselected", j)

\* A remainder that is gone again fails the whole intake transaction.
EnqueueRelock(i) ==
    /\ tx[i].pc = "reselected"
    /\ \/ /\ tx[i].seen \in CollectingJobs(TxOwner(i))
          /\ StepTx(i, "locked", tx[i].seen)
       \/ /\ tx[i].seen \notin CollectingJobs(TxOwner(i))
          /\ tx' = [tx EXCEPT ![i] = IdleTx]
          /\ UNCHANGED <<jobs, nextOrder, lastDone, episodes, outcomes, proc,
                         receipts, applied, intakes>>

\* Variant: the Outcomes of the Episode replace those collected so far.
ExtendedReplacing(job, i) ==
    [job EXCEPT !.episodes = AppendUnique(job.episodes, tx[i].episode),
                !.outcomes = EpisodeState(i), !.due = TRUE, !.quiet = FALSE]

\* Merge into the locked row; an UPDATE restarts its quiet period, and evidence
\* that is already there changes nothing.
Extended(job, i) ==
    LET eps  == AppendUnique(job.episodes, tx[i].episode)
        outs == job.outcomes \cup EpisodeState(i)
    IN  IF eps = job.episodes /\ outs = job.outcomes
        THEN job
        ELSE [job EXCEPT !.episodes = eps, !.outcomes = outs, !.due = TRUE,
                         !.quiet = FALSE]

EnqueueExtend(i) ==
    /\ tx[i].pc = "locked"
    /\ jobs' = [jobs EXCEPT ![tx[i].seen] = Extended(jobs[tx[i].seen], i)]
    /\ UNCHANGED nextOrder
    /\ CommitIntake(i)

\* Any later failure, lost connection or crash rolls the transaction back.
IntakeAbort(i) ==
    /\ tx[i].pc # "idle"
    /\ tx' = [tx EXCEPT ![i] = IdleTx]
    /\ UNCHANGED <<jobs, nextOrder, lastDone, episodes, outcomes, proc, receipts,
                   applied, intakes>>

-----------------------------------------------------------------------------
(* LeaseConsolidationJob *)

\* Variant: younger Jobs of an owner may overtake older ones.
ReadyOutOfOrder(j) ==
    /\ Incomplete(j)
    /\ jobs[j].due
    /\ ~jobs[j].leased
    /\ jobs[j].state = "frozen" \/ jobs[j].quiet
    /\ ~RowLocked(j)

\* Variant: only a Job without a token can be leased, expired or not.
ReadyWithoutToken(j) ==
    /\ Incomplete(j)
    /\ jobs[j].due
    /\ jobs[j].token = Null
    /\ \A k \in JobOrder :
          k < j /\ jobs[k].owner = jobs[j].owner => ~Incomplete(k)
    /\ jobs[j].state = "frozen" \/ jobs[j].quiet
    /\ ~RowLocked(j)

\* The WHERE clause, with SKIP LOCKED.
Ready(j) ==
    /\ Incomplete(j)
    /\ jobs[j].due
    /\ ~jobs[j].leased
    /\ \A k \in JobOrder :
          k < j /\ jobs[k].owner = jobs[j].owner => ~Incomplete(k)
    /\ \/ jobs[j].state = "frozen"
       \/ /\ jobs[j].quiet \/ Len(jobs[j].episodes) >= MaxEpisodes
          /\ Len(jobs[j].episodes) >= 1
    /\ ~RowLocked(j)

\* ORDER BY job_order LIMIT 1.
NextReady(j) == Ready(j) /\ \A k \in JobOrder : Ready(k) => j <= k

\* Variant: the configured overlap is used as it is.
OverlapUnclamped == Overlap

\* scheduler.New and the lease both clamp the overlap below the window size.
OverlapLimit == IF Overlap >= MaxEpisodes THEN MaxEpisodes - 1 ELSE Overlap

\* prependPreviousOverlap: the tail of the owner's last completed window ...
PreviousEpisodes(w) ==
    IF lastDone[w] = 0 THEN <<>>
                       ELSE LastRefs(jobs[lastDone[w]].episodes, OverlapLimit)

PreviousOutcomes(w) ==
    IF lastDone[w] = 0 \/ OverlapLimit = 0 THEN {} ELSE jobs[lastDone[w]].outcomes

\* Variant: every Outcome of the previous window is carried over.
OverlapOutcomesAll(w) == PreviousOutcomes(w)

\* ... and the Outcomes that belong to that tail.
OverlapOutcomes(w) ==
    {o \in PreviousOutcomes(w) : EpisodeOf[o] \in Elements(PreviousEpisodes(w))}

\* Every Outcome the partition of a freeze has to place.
CandidateOutcomes(j) == OverlapOutcomes(jobs[j].owner) \cup jobs[j].outcomes

\* partitionConsolidationOutcomes fails the lease on an Outcome that is not a
\* row of this owner or whose Episode is not among the collected ones.
PartitionOK(outs, eps) ==
    \A o \in outs : o \in outcomes /\ EpisodeOf[o] \in eps

PartitionsOK(j) ==
    LET w == jobs[j].owner IN
    /\ lastDone[w] # 0 => PartitionOK(PreviousOutcomes(w),
                                      Elements(jobs[lastDone[w]].episodes))
    /\ PartitionOK(CandidateOutcomes(j),
                   Elements(PreviousEpisodes(w)) \cup Elements(jobs[j].episodes))

\* The UPDATE that freezes and leases the row, and the INSERT of the remainder.
\* Nothing takes the place of the row while it is locked, so the INSERT meets
\* no other collecting row.
FreezeAs(p, j, window, inside, rest, outside) ==
    LET frozen == [state |-> "frozen", owner |-> jobs[j].owner,
                   episodes |-> window, outcomes |-> inside, token |-> p,
                   leased |-> TRUE, due |-> jobs[j].due, quiet |-> FALSE]
    IN
    /\ \/ /\ rest = <<>>
          /\ jobs' = [jobs EXCEPT ![j] = frozen]
          /\ UNCHANGED nextOrder
       \/ /\ rest # <<>>
          /\ nextOrder \in JobOrder
          /\ jobs' = [jobs EXCEPT ![j] = frozen,
                         ![nextOrder] = NewJob(jobs[j].owner, rest, outside)]
          /\ nextOrder' = nextOrder + 1
    /\ proc' = [proc EXCEPT ![p] = [pc |-> "leased", job |-> j,
                                    episodes |-> window, outcomes |-> inside]]

InWindow(outs, window) == {o \in outs : EpisodeOf[o] \in Elements(window)}

\* Freeze the first MaxEpisodes of overlap and collected Episodes with their
\* Outcomes; what does not fit becomes the owner's next collecting row.
Freeze(p, j) ==
    LET prev == PreviousEpisodes(jobs[j].owner) IN
    \E fresh \in Filtered(jobs[j].episodes, Episode \ Elements(prev)) :
    LET window == FirstRefs(prev \o fresh, MaxEpisodes)
        inside == InWindow(CandidateOutcomes(j), window)
    IN
    \E rest \in Filtered(jobs[j].episodes, Episode \ Elements(window)) :
        FreezeAs(p, j, window, inside, rest, CandidateOutcomes(j) \ inside)

LeaseCollecting(p, j) ==
    /\ proc[p].pc = "idle"
    /\ NextReady(j)
    /\ jobs[j].state = "collecting"
    /\ PartitionsOK(j)
    /\ Freeze(p, j)
    /\ UNCHANGED <<lastDone, episodes, outcomes, tx, receipts, applied, intakes>>

\* A retry keeps the frozen window.
LeaseFrozen(p, j) ==
    /\ proc[p].pc = "idle"
    /\ NextReady(j)
    /\ jobs[j].state = "frozen"
    /\ jobs' = [jobs EXCEPT ![j].token = p, ![j].leased = TRUE]
    /\ proc' = [proc EXCEPT ![p] = [pc |-> "leased", job |-> j,
                    episodes |-> jobs[j].episodes, outcomes |-> jobs[j].outcomes]]
    /\ UNCHANGED <<nextOrder, lastDone, episodes, outcomes, tx, receipts, applied,
                   intakes>>

-----------------------------------------------------------------------------
(* ConsolidateWindow, as far as the queue is concerned *)

StepProc(p, pc) ==
    /\ proc' = [proc EXCEPT ![p].pc = pc]
    /\ UNCHANGED <<jobs, nextOrder, lastDone, episodes, outcomes, tx, intakes>>

\* loadConsolidationReceipt: the frozen receipt, or ErrWindowConflict.
Replayed(p) ==
    LET r == receipts[proc[p].job] IN
    IF r.episodes = proc[p].episodes /\ r.outcomes = proc[p].outcomes
    THEN "done" ELSE "failed"

\* The snapshot transaction: a Job with a receipt needs no Worker call.
EngineSnapshot(p) ==
    /\ proc[p].pc = "leased"
    /\ StepProc(p, IF receipts[proc[p].job].committed THEN Replayed(p)
                                                      ELSE "inferring")
    /\ UNCHANGED <<receipts, applied>>

WorkerAnswers(p) ==
    /\ proc[p].pc = "inferring"
    /\ StepProc(p, "answered")
    /\ UNCHANGED <<receipts, applied>>

\* The commit transaction looks for the receipt again under the Job lock.
EngineReplay(p) ==
    /\ proc[p].pc = "answered"
    /\ receipts[proc[p].job].committed
    /\ StepProc(p, Replayed(p))
    /\ UNCHANGED <<receipts, applied>>

\* Variant: the receipt is only looked for before the Worker call.
EngineCommitUnchecked(p, reply) ==
    /\ proc[p].pc = "answered"
    /\ receipts' = [receipts EXCEPT ![proc[p].job] =
                       [committed |-> TRUE, episodes |-> proc[p].episodes,
                        outcomes |-> proc[p].outcomes]]
    /\ applied' = [applied EXCEPT ![proc[p].job] = @ + 1]
    /\ StepProc(p, reply)

\* Changes and receipt commit together.  reply = "failed": the commit took
\* effect and its response was lost.
EngineCommit(p, reply) ==
    /\ proc[p].pc = "answered"
    /\ ~receipts[proc[p].job].committed
    /\ receipts' = [receipts EXCEPT ![proc[p].job] =
                       [committed |-> TRUE, episodes |-> proc[p].episodes,
                        outcomes |-> proc[p].outcomes]]
    /\ applied' = [applied EXCEPT ![proc[p].job] = @ + 1]
    /\ StepProc(p, reply)

\* Worker error or timeout, a stale window, or a database error.
EngineFails(p) ==
    /\ proc[p].pc \in {"leased", "inferring", "answered"}
    /\ StepProc(p, "failed")
    /\ UNCHANGED <<receipts, applied>>

-----------------------------------------------------------------------------
(* Complete, Retry, and processes that stop *)

HoldsToken(p) ==
    LET j == proc[p].job IN jobs[j].token = p /\ jobs[j].state # "completed"

EndProc(p) ==
    /\ proc' = [proc EXCEPT ![p] = Idle]
    /\ UNCHANGED <<nextOrder, episodes, outcomes, tx, receipts, applied, intakes>>

\* CompleteConsolidationJob matches the lease token, not lease_until.
Complete(p) ==
    /\ proc[p].pc = "done"
    /\ HoldsToken(p)
    /\ jobs' = [jobs EXCEPT ![proc[p].job].state = "completed",
                            ![proc[p].job].token = Null,
                            ![proc[p].job].leased = FALSE]
    /\ lastDone' = [lastDone EXCEPT ![jobs[proc[p].job].owner] = proc[p].job]
    /\ EndProc(p)

\* RetryConsolidationJob releases the frozen window for later.
Retry(p) ==
    /\ proc[p].pc = "failed"
    /\ HoldsToken(p)
    /\ jobs' = [jobs EXCEPT ![proc[p].job].token = Null,
                            ![proc[p].job].leased = FALSE,
                            ![proc[p].job].due = FALSE]
    /\ UNCHANGED lastDone
    /\ EndProc(p)

\* Either statement of a caller whose token was replaced: ErrLeaseLost.
LeaseLost(p) ==
    /\ proc[p].pc \in {"done", "failed"}
    /\ ~HoldsToken(p)
    /\ UNCHANGED <<jobs, lastDone>>
    /\ EndProc(p)

\* The process dies, or shuts down and leaves the lease to expire.
Crash(p) ==
    /\ proc[p].pc # "idle"
    /\ UNCHANGED <<jobs, lastDone>>
    /\ EndProc(p)

-----------------------------------------------------------------------------
(* Time *)

Tick(j, job) ==
    /\ jobs' = [jobs EXCEPT ![j] = job]
    /\ UNCHANGED <<nextOrder, lastDone, episodes, outcomes, tx, proc, receipts,
                   applied, intakes>>

LeaseExpires(j) == jobs[j].leased /\ Tick(j, [jobs[j] EXCEPT !.leased = FALSE])

RetryDelayElapses(j) ==
    Incomplete(j) /\ ~jobs[j].due /\ Tick(j, [jobs[j] EXCEPT !.due = TRUE])

QuietPeriodElapses(j) ==
    /\ jobs[j].state = "collecting"
    /\ ~jobs[j].quiet
    /\ Tick(j, [jobs[j] EXCEPT !.quiet = TRUE])

-----------------------------------------------------------------------------

OutcomesOf(e) == {o \in Outcome : EpisodeOf[o] = e}

EnqueueStep(i) ==
    \/ EnqueueSelect(i)
    \/ EnqueueLock(i)
    \/ EnqueueInsert(i)
    \/ EnqueueConflict(i)
    \/ EnqueueReselect(i)
    \/ EnqueueRelock(i)
    \/ EnqueueExtend(i)

IntakeNext(i) ==
    \/ \E e \in Episode : \E O \in SUBSET (OutcomesOf(e) \ outcomes) :
          IntakeBegin(i, e, O)
    \/ EnqueueStep(i)
    \/ IntakeAbort(i)

Lease(p) == \E j \in JobOrder : LeaseCollecting(p, j) \/ LeaseFrozen(p, j)

EngineStep(p) ==
    \/ EngineSnapshot(p)
    \/ WorkerAnswers(p)
    \/ EngineReplay(p)
    \/ \E reply \in {"done", "failed"} : EngineCommit(p, reply)
    \/ EngineFails(p)

ProcessorNext(p) ==
    \/ Lease(p)
    \/ EngineStep(p)
    \/ Complete(p)
    \/ Retry(p)
    \/ LeaseLost(p)
    \/ Crash(p)

TimeNext ==
    \E j \in JobOrder : LeaseExpires(j) \/ RetryDelayElapses(j) \/ QuietPeriodElapses(j)

Next ==
    \/ \E i \in Intake : IntakeNext(i)
    \/ \E p \in Processor : ProcessorNext(p)
    \/ TimeNext

Spec == Init /\ [][Next]_vars

\* What the code's scheduling provides.  A database transaction runs on to its
\* end.  Run polls for ever and SKIP LOCKED only skips rows that intake locks
\* for the length of a transaction, so a Job that is ready again and again is
\* leased.  The Worker, the commit and the acknowledgement fail or crash at
\* times but not every time they are tried.  Deadlines pass.
Fairness ==
    /\ \A i \in Intake : WF_vars(EnqueueStep(i))
    /\ \A p \in Processor :
          /\ SF_vars(Lease(p))
          /\ SF_vars(EngineSnapshot(p))
          /\ SF_vars(WorkerAnswers(p))
          /\ SF_vars(EngineReplay(p) \/ EngineCommit(p, "done"))
          /\ SF_vars(Complete(p))
          /\ WF_vars(Retry(p))
          /\ WF_vars(LeaseLost(p))
    /\ \A j \in JobOrder :
          /\ WF_vars(LeaseExpires(j))
          /\ WF_vars(RetryDelayElapses(j))
          /\ WF_vars(QuietPeriodElapses(j))

LiveSpec == Spec /\ Fairness

-----------------------------------------------------------------------------
(* Properties *)

\* One collecting Job per owner, however a freeze, its remainder and the
\* INSERT of a concurrent intake transaction interleave; and an owner's frozen
\* Job is older than everything else the owner still has to do, so that it is
\* the only one.
QueueShape ==
    \A j, k \in JobOrder :
        jobs[j].owner = jobs[k].owner /\ j # k /\ Incomplete(j) /\ Incomplete(k)
        => /\ ~(jobs[j].state = "collecting" /\ jobs[k].state = "collecting")
           /\ jobs[j].state = "frozen" => j < k

\* The table of Jobs keeps its rows well formed and its shape: one open window
\* per owner (one_collecting_job_per_owner), frozen windows before it.
QueueInv == TypeOK /\ QueueShape

\* A lease never runs into the errors of partitionConsolidationOutcomes, which
\* would roll it back on every attempt and stop the owner's queue for good:
\* every Outcome in a collecting Job, or carried over from the last completed
\* one, belongs to an Episode that is there too.
LeaseNeverWedged ==
    \A j \in JobOrder : jobs[j].state = "collecting" => PartitionsOK(j)

\* "A crash can lose neither both nor one": each committed Episode and each
\* committed Outcome is in some Job of the queue, an Outcome always together
\* with its Episode.
EvidenceNeverLost ==
    /\ \A e \in episodes : \E j \in JobOrder : e \in Elements(jobs[j].episodes)
    /\ \A o \in outcomes : \E j \in JobOrder :
          o \in jobs[j].outcomes /\ EpisodeOf[o] \in Elements(jobs[j].episodes)

\* The windows of one owner take effect in queue order, even when a processor
\* that lost its lease is still at work: when the changes of a Job are
\* committed, every older Job of the owner is completed.
CommitsInOrder ==
    \A j, k \in JobOrder :
        receipts[j].committed /\ k < j /\ jobs[k].owner = jobs[j].owner
        => jobs[k].state = "completed"

\* However often a Job is leased, replayed, committed with a lost response or
\* acknowledged late, its changes are committed at most once, for exactly the
\* frozen window, and before it counts as completed.
EffectOnce ==
    \A j \in JobOrder :
        /\ applied[j] <= 1
        /\ receipts[j].committed => /\ receipts[j].episodes = jobs[j].episodes
                                    /\ receipts[j].outcomes = jobs[j].outcomes
        /\ jobs[j].state = "completed" => applied[j] = 1

\* Evidence that arrives after the freeze goes to another Job: the window of a
\* frozen Job never changes and a completed Job is never reopened.
FrozenWindowsFixed ==
    [][\A j \in JobOrder : jobs[j].state \in {"frozen", "completed"} =>
          /\ jobs'[j].episodes = jobs[j].episodes
          /\ jobs'[j].outcomes = jobs[j].outcomes
          /\ jobs'[j].state \in {jobs[j].state, "completed"}]_vars

\* A freeze is bounded and makes progress: the window holds at most MaxEpisodes
\* and at least one collected Episode leaves the collecting queue, so overlap
\* and splitting cannot chase each other for ever.
FreezeMakesProgress ==
    [][\A j \in JobOrder :
          jobs[j].state = "collecting" /\ jobs'[j].state = "frozen" =>
          /\ Len(jobs'[j].episodes) <= MaxEpisodes
          /\ \A k \in JobOrder :
                jobs'[k].state = "collecting" /\ jobs'[k].owner = jobs[j].owner
                => Len(jobs'[k].episodes) < Len(jobs[j].episodes)]_vars

\* Committed evidence that no completed window holds, an Outcome together with
\* its Episode.
Unlearned ==
    LET done == {j \in JobOrder : jobs[j].state = "completed"} IN
    {e \in episodes : \A j \in done : e \notin Elements(jobs[j].episodes)}
    \cup {o \in outcomes : \A j \in done :
             o \notin jobs[j].outcomes \/ EpisodeOf[o] \notin Elements(jobs[j].episodes)}

\* Everything that intake commits is eventually learned from: the queue always
\* drains, despite crashes, lost leases, failures and retries.
EvidenceConsolidated == Unlearned # {} ~> Unlearned = {}

=============================================================================
