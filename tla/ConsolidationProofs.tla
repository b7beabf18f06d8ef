------------------------- MODULE ConsolidationProofs -------------------------
(***************************************************************************)
(* Theorems about ConsolidationQueue and about the Worker, for every       *)
(* choice of their constants: first the queue, whose processors have       *)
(* windows consolidated, then the Worker that answers for a window,        *)
(* whatever lines the model answers with.                                  *)
(***************************************************************************)
EXTENDS ConsolidationQueue, Worker, RenderingProofs, FunctionTheorems

-----------------------------------------------------------------------------
(* Lists of refs *)

\* The list helpers of the lease return lists of the same refs.
LEMMA ElementsType ==
    ASSUME NEW S, NEW s \in Seq(S)
    PROVE  Elements(s) \subseteq S
  BY DEF Elements

LEMMA FilteredType ==
    ASSUME NEW S, NEW s \in Seq(S), NEW keep, NEW t \in Filtered(s, keep)
    PROVE  /\ t \in Seq(S)
           /\ Elements(t) = Elements(s) \cap keep
  <1>1. PICK n \in 0..Len(s) : t \in [1..n -> Elements(s)]
    BY DEF Filtered
  <1>2. Elements(s) \subseteq S
    BY ElementsType
  <1>3. t \in [1..n -> S]
    BY <1>1, <1>2
  <1>4. t \in Seq(S)
    BY <1>3
  <1>5. Elements(t) = Elements(s) \cap keep
    BY DEF Filtered
  <1> QED
    BY <1>4, <1>5

LEMMA SubSeqType ==
    ASSUME NEW S, NEW s \in Seq(S), NEW m \in 1..(Len(s) + 1), NEW n \in 0..Len(s)
    PROVE  SubSeq(s, m, n) \in Seq(S)
  OBVIOUS

LEMMA LastRefsType ==
    ASSUME NEW S, NEW s \in Seq(S), NEW n \in Nat
    PROVE  LastRefs(s, n) \in Seq(S)
  BY SubSeqType DEF LastRefs

LEMMA FirstRefsType ==
    ASSUME NEW S, NEW s \in Seq(S), NEW n \in Nat
    PROVE  FirstRefs(s, n) \in Seq(S)
  BY SubSeqType DEF FirstRefs

LEMMA AppendUniqueType ==
    ASSUME NEW S, NEW s \in Seq(S), NEW e \in S
    PROVE  AppendUnique(s, e) \in Seq(S)
  BY DEF AppendUnique

LEMMA OverlapLimitType == OverlapLimit \in Nat /\ OverlapLimit < MaxEpisodes
  BY WindowBounds DEF OverlapLimit
-----------------------------------------------------------------------------
(* Type correctness *)

LEMMA InitTypeOK == Init => TypeOK
  BY ModelBounds, NullIsFresh
     DEF Init, TypeOK, JobOrder, Job, NoJob, Tx, TxPc, IdleTx, Proc, ProcPc, Idle,
         Receipt, NoReceipt

LEMMA NewJobType ==
    ASSUME NEW w \in Owner, NEW eps \in Seq(Episode), NEW outs \in SUBSET Outcome
    PROVE  NewJob(w, eps, outs) \in Job
  BY DEF NewJob, Job

\* A transaction in progress knows its Episode and attaches that Episode's
\* Outcomes.
TxEvidence ==
    \A i \in Intake : tx[i].pc # "idle" =>
        /\ tx[i].episode \in Episode
        /\ tx[i].added \subseteq OutcomesOf(tx[i].episode)

\* Job orders are given out in sequence, and a row has an owner.
JobRows ==
    \A j \in JobOrder : IF j < nextOrder
                        THEN jobs[j].state # "none" /\ jobs[j].owner \in Owner
                        ELSE jobs[j].state = "none"

\* A processor at work holds the ref of a row that has been frozen.
ProcJobs ==
    \A p \in Processor : proc[p].pc # "idle" =>
        /\ proc[p].job \in JobOrder
        /\ jobs[proc[p].job].state \in {"frozen", "completed"}

TypeInv == TypeOK /\ TxEvidence /\ JobRows /\ ProcJobs

LEMMA InitTypeInv == Init => TypeInv
  <1> SUFFICES ASSUME Init PROVE TypeInv
    OBVIOUS
  <1>1. TypeOK
    BY InitTypeOK
  <1>2. TxEvidence /\ ProcJobs
    BY DEF Init, TxEvidence, ProcJobs, IdleTx, Idle
  <1>3. JobRows
    BY ModelBounds DEF Init, JobRows, JobOrder, NoJob
  <1> QED
    BY <1>1, <1>2, <1>3 DEF TypeInv

USE DEF JobOrder

LEMMA EpisodeStateType ==
    ASSUME TypeOK, NEW i \in Intake
    PROVE  EpisodeState(i) \in SUBSET Outcome
  BY DEF TypeOK, EpisodeState, Tx

LEMMA StepTxTypeInv ==
    ASSUME TypeInv, NEW i \in Intake, tx[i].pc # "idle", NEW pc \in TxPc,
           NEW seen \in 0..MaxJobs, StepTx(i, pc, seen)
    PROVE  TypeInv'
  <1>1. tx' \in [Intake -> Tx]
    BY ZenonT(30) DEF TypeInv, TypeOK, StepTx, Tx
  <1>2. TypeOK'
    BY <1>1 DEF TypeInv, TypeOK, StepTx
  <1>3. TxEvidence'
    BY DEF TypeInv, TypeOK, TxEvidence, StepTx, Tx
  <1>4. JobRows' /\ ProcJobs'
    BY DEF TypeInv, JobRows, ProcJobs, StepTx
  <1> QED
    BY <1>2, <1>3, <1>4 DEF TypeInv

LEMMA CommitIntakeType ==
    ASSUME TypeInv, NEW i \in Intake, tx[i].pc # "idle", CommitIntake(i)
    PROVE  /\ lastDone' = lastDone /\ proc' = proc /\ receipts' = receipts
           /\ applied' = applied
           /\ episodes' \in SUBSET Episode
           /\ outcomes' \in SUBSET Outcome
           /\ tx' \in [Intake -> Tx]
           /\ intakes' \in Nat
           /\ TxEvidence'
  BY ModelBounds DEF TypeInv, TypeOK, TxEvidence, CommitIntake, Tx, TxPc, IdleTx

LEMMA IntakeTypeInv ==
    ASSUME TypeInv, NEW i \in Intake, IntakeNext(i)
    PROVE  TypeInv'
  <1>1. ASSUME NEW e \in Episode, NEW O \in SUBSET (OutcomesOf(e) \ outcomes),
               IntakeBegin(i, e, O)
        PROVE  TypeInv'
    <2>1. O \in SUBSET Outcome
      BY DEF OutcomesOf
    <2>2. TypeOK'
      BY <1>1, <2>1, ModelBounds DEF TypeInv, TypeOK, IntakeBegin, Tx, TxPc
    <2>3. TxEvidence'
      BY <1>1 DEF TypeInv, TypeOK, TxEvidence, IntakeBegin, Tx
    <2>4. JobRows' /\ ProcJobs'
      BY <1>1 DEF TypeInv, JobRows, ProcJobs, IntakeBegin
    <2> QED
      BY <2>2, <2>3, <2>4 DEF TypeInv
  <1>2. ASSUME NEW j, j \in VisibleRow(TxOwner(i))
        PROVE  j \in 0..MaxJobs
    BY <1>2, ModelBounds DEF VisibleRow, CollectingJobs
  <1>3. CASE EnqueueSelect(i) \/ EnqueueReselect(i)
    BY <1>3, <1>2, StepTxTypeInv DEF EnqueueSelect, EnqueueReselect, TxPc
  <1>4. CASE EnqueueLock(i) \/ EnqueueConflict(i)
    <2>1. tx[i].seen \in 0..MaxJobs /\ 0 \in 0..MaxJobs
      BY ModelBounds DEF TypeInv, TypeOK, Tx
    <2>2. tx[i].pc # "idle" /\ {"locked", "inserting", "conflicted"} \subseteq TxPc
      BY <1>4 DEF EnqueueLock, EnqueueConflict, TxPc
    <2>3. \/ StepTx(i, "locked", tx[i].seen)
          \/ StepTx(i, "inserting", 0)
          \/ StepTx(i, "conflicted", 0)
      BY <1>4 DEF EnqueueLock, EnqueueConflict
    <2> QED
      BY <2>1, <2>2, <2>3, StepTxTypeInv
  <1>5. CASE EnqueueInsert(i)
    <2>1. tx[i].pc # "idle" /\ CommitIntake(i)
      BY <1>5 DEF EnqueueInsert
    <2>2. tx[i].episode \in Episode /\ TxOwner(i) \in Owner
      BY <2>1, OwnerOfType DEF TypeInv, TxEvidence, TxOwner
    <2>3. NewJob(TxOwner(i), <<tx[i].episode>>, EpisodeState(i)) \in Job
      <3>1. <<tx[i].episode>> \in Seq(Episode)
        BY <2>2
      <3>2. EpisodeState(i) \in SUBSET Outcome
        BY EpisodeStateType DEF TypeInv
      <3> QED
        BY <2>2, <3>1, <3>2, NewJobType
    <2>4. jobs' \in [JobOrder -> Job] /\ nextOrder' \in 1..(MaxJobs + 1)
      BY <1>5, <2>3, ModelBounds DEF EnqueueInsert, TypeInv, TypeOK
    <2>5. TypeOK' /\ TxEvidence'
      BY <2>1, <2>4, CommitIntakeType DEF TypeInv, TypeOK
    <2>6. JobRows'
      BY <1>5, <2>2, ModelBounds DEF EnqueueInsert, TypeInv, TypeOK, JobRows, NewJob
    <2>7. ProcJobs'
      <3>1. proc' = proc
        BY <2>1, CommitIntakeType
      <3>2. \A j \in JobOrder : jobs[j].state \in {"frozen", "completed"}
                                 => jobs'[j] = jobs[j]
        BY <1>5 DEF EnqueueInsert, TypeInv, TypeOK, JobRows
      <3> QED
        BY <3>1, <3>2 DEF TypeInv, ProcJobs
    <2> QED
      BY <2>5, <2>6, <2>7 DEF TypeInv
  <1>6. CASE EnqueueRelock(i)
    <2>1. CASE StepTx(i, "locked", tx[i].seen)
      BY <1>6, <2>1, StepTxTypeInv DEF EnqueueRelock, TypeInv, TypeOK, Tx, TxPc
    <2>2. CASE tx' = [tx EXCEPT ![i] = IdleTx]
      <3>1. TypeOK' /\ TxEvidence'
        BY <1>6, <2>2, ModelBounds DEF EnqueueRelock, StepTx, TypeInv, TypeOK,
           TxEvidence, Tx, TxPc, IdleTx
      <3>2. JobRows' /\ ProcJobs'
        BY <1>6 DEF EnqueueRelock, StepTx, TypeInv, JobRows, ProcJobs
      <3> QED
        BY <3>1, <3>2 DEF TypeInv
    <2> QED
      BY <1>6, <2>1, <2>2 DEF EnqueueRelock
  <1>7. CASE EnqueueExtend(i)
    <2>1. tx[i].pc # "idle" /\ CommitIntake(i)
      BY <1>7 DEF EnqueueExtend
    <2>2. tx[i].episode \in Episode
      BY <2>1 DEF TypeInv, TxEvidence
    <2>3. ASSUME NEW job \in Job
          PROVE  /\ Extended(job, i) \in Job
                 /\ Extended(job, i).state = job.state
                 /\ Extended(job, i).owner = job.owner
      <3>1. AppendUnique(job.episodes, tx[i].episode) \in Seq(Episode)
        BY <2>2, AppendUniqueType DEF Job
      <3>2. EpisodeState(i) \in SUBSET Outcome
        BY EpisodeStateType DEF TypeInv
      <3> QED
        BY <3>1, <3>2 DEF Extended, Job
    <2>4. jobs' \in [JobOrder -> Job] /\ nextOrder' = nextOrder
      BY <1>7, <2>3 DEF EnqueueExtend, TypeInv, TypeOK
    <2>5. TypeOK' /\ TxEvidence'
      BY <2>1, <2>4, CommitIntakeType DEF TypeInv, TypeOK
    <2>6. \A j \in JobOrder : /\ jobs'[j].state = jobs[j].state
                              /\ jobs'[j].owner = jobs[j].owner
                              /\ j # tx[i].seen => jobs'[j] = jobs[j]
      BY <1>7, <2>3 DEF EnqueueExtend, TypeInv, TypeOK
    <2>7. JobRows'
      BY <2>4, <2>6 DEF TypeInv, JobRows
    <2>8. ProcJobs'
      BY <2>6, <2>1, CommitIntakeType DEF TypeInv, ProcJobs
    <2> QED
      BY <2>5, <2>7, <2>8 DEF TypeInv
  <1>8. CASE IntakeAbort(i)
    <2>1. TypeOK' /\ TxEvidence'
      BY <1>8, ModelBounds DEF IntakeAbort, TypeInv, TypeOK, TxEvidence, Tx, TxPc,
         IdleTx
    <2>2. JobRows' /\ ProcJobs'
      BY <1>8 DEF IntakeAbort, TypeInv, JobRows, ProcJobs
    <2> QED
      BY <2>1, <2>2 DEF TypeInv
  <1> QED
    BY <1>1, <1>3, <1>4, <1>5, <1>6, <1>7, <1>8 DEF IntakeNext, EnqueueStep

\* What a freeze reads and writes has its type.
LEMMA PreviousType ==
    ASSUME TypeOK, NEW w \in Owner
    PROVE  /\ PreviousEpisodes(w) \in Seq(Episode)
           /\ PreviousOutcomes(w) \in SUBSET Outcome
           /\ OverlapOutcomes(w) \in SUBSET Outcome
  <1>1. lastDone[w] # 0 => jobs[lastDone[w]] \in Job
    BY ModelBounds DEF TypeOK
  <1>2. PreviousEpisodes(w) \in Seq(Episode)
    BY <1>1, LastRefsType, OverlapLimitType DEF PreviousEpisodes, Job
  <1>3. PreviousOutcomes(w) \in SUBSET Outcome
    BY <1>1 DEF PreviousOutcomes, Job
  <1> QED
    BY <1>2, <1>3 DEF OverlapOutcomes

\* The facts about a freeze that every other proof needs.
IsFreeze(p, j, window, inside, rest, outside) ==
    LET prev == PreviousEpisodes(jobs[j].owner) IN
    /\ \E fresh \in Filtered(jobs[j].episodes, Episode \ Elements(prev)) :
          window = FirstRefs(prev \o fresh, MaxEpisodes)
    /\ rest \in Filtered(jobs[j].episodes, Episode \ Elements(window))
    /\ Elements(rest) = Elements(jobs[j].episodes) \cap (Episode \ Elements(window))
    /\ inside = InWindow(CandidateOutcomes(j), window)
    /\ outside = CandidateOutcomes(j) \ inside
    /\ FreezeAs(p, j, window, inside, rest, outside)

LEMMA FreezeEffect ==
    ASSUME TypeInv, NEW p \in Processor, NEW j \in JobOrder,
           jobs[j].state = "collecting", Freeze(p, j)
    PROVE  /\ jobs[j].owner \in Owner
           /\ nextOrder # j
           /\ \E window, rest \in Seq(Episode), inside, outside \in SUBSET Outcome :
                 IsFreeze(p, j, window, inside, rest, outside)
  <1> DEFINE prev == PreviousEpisodes(jobs[j].owner)
             candidates == CandidateOutcomes(j)
  <1>1. jobs[j].owner \in Owner /\ jobs[j] \in Job /\ j < nextOrder
    BY DEF TypeInv, TypeOK, JobRows
  <1>2. prev \in Seq(Episode) /\ candidates \in SUBSET Outcome
    BY <1>1, PreviousType DEF TypeInv, Job, CandidateOutcomes
  <1>3. jobs[j].episodes \in Seq(Episode)
    BY <1>1 DEF Job
  <1>4. PICK fresh \in Filtered(jobs[j].episodes, Episode \ Elements(prev)) :
          \E rest \in Filtered(jobs[j].episodes,
                     Episode \ Elements(FirstRefs(prev \o fresh, MaxEpisodes))) :
          FreezeAs(p, j, FirstRefs(prev \o fresh, MaxEpisodes),
             InWindow(candidates, FirstRefs(prev \o fresh, MaxEpisodes)), rest,
             candidates \ InWindow(candidates, FirstRefs(prev \o fresh, MaxEpisodes)))
    BY DEF Freeze
  <1> DEFINE window == FirstRefs(prev \o fresh, MaxEpisodes)
             inside == InWindow(candidates, window)
  <1>5. PICK rest \in Filtered(jobs[j].episodes, Episode \ Elements(window)) :
          FreezeAs(p, j, window, inside, rest, candidates \ inside)
    BY <1>4
  <1>6. fresh \in Seq(Episode)
    BY <1>3, FilteredType
  <1>7. prev \o fresh \in Seq(Episode)
    BY <1>2, <1>6
  <1>8. window \in Seq(Episode)
    BY <1>7, FirstRefsType, WindowBounds
  <1>9. inside \in SUBSET Outcome /\ candidates \ inside \in SUBSET Outcome
    BY <1>2 DEF InWindow
  <1>10. /\ rest \in Seq(Episode)
         /\ Elements(rest) = Elements(jobs[j].episodes) \cap (Episode \ Elements(window))
    BY <1>3, FilteredType
  <1>11. nextOrder # j
    BY <1>1 DEF TypeInv, TypeOK
  <1>12. IsFreeze(p, j, window, inside, rest, candidates \ inside)
    BY <1>5, <1>10 DEF IsFreeze
  <1> HIDE DEF window, inside, prev, candidates
  <1> QED
    BY <1>1, <1>8, <1>9, <1>10, <1>11, <1>12

\* A freeze touches the row it freezes and, for a remainder, one blank row.
FreezeWrites(p, j, window, inside, rest, outside) ==
    /\ jobs' \in [JobOrder -> Job]
    /\ nextOrder' \in 1..(MaxJobs + 1)
    /\ jobs'[j] = [state |-> "frozen", owner |-> jobs[j].owner,
                   episodes |-> window, outcomes |-> inside, token |-> p,
                   leased |-> TRUE, due |-> jobs[j].due, quiet |-> FALSE]
    /\ \A k \in JobOrder : k # j /\ k # nextOrder => jobs'[k] = jobs[k]
    /\ \/ /\ rest = <<>>
          /\ nextOrder' = nextOrder
          /\ \A k \in JobOrder : k # j => jobs'[k] = jobs[k]
       \/ /\ rest # <<>>
          /\ nextOrder \in JobOrder
          /\ nextOrder' = nextOrder + 1
          /\ jobs'[nextOrder] = NewJob(jobs[j].owner, rest, outside)
    /\ proc' = [proc EXCEPT ![p] = [pc |-> "leased", job |-> j,
                                    episodes |-> window, outcomes |-> inside]]

LEMMA FreezeRows ==
    ASSUME TypeInv, NEW p \in Processor, NEW j \in JobOrder,
           jobs[j].state = "collecting", nextOrder # j,
           NEW window \in Seq(Episode), NEW rest \in Seq(Episode),
           NEW inside \in SUBSET Outcome, NEW outside \in SUBSET Outcome,
           FreezeAs(p, j, window, inside, rest, outside)
    PROVE  FreezeWrites(p, j, window, inside, rest, outside)
  <1> DEFINE frozen == [state |-> "frozen", owner |-> jobs[j].owner,
                   episodes |-> window, outcomes |-> inside, token |-> p,
                   leased |-> TRUE, due |-> jobs[j].due, quiet |-> FALSE]
             fresh == NewJob(jobs[j].owner, rest, outside)
  <1>1. jobs[j].owner \in Owner /\ jobs[j] \in Job
    BY DEF TypeInv, TypeOK, JobRows
  <1>2. frozen \in Job
    BY <1>1 DEF Job
  <1>3. fresh \in Job
    BY <1>1, NewJobType
  <1>4. /\ \/ /\ rest = <<>>
              /\ jobs' = [jobs EXCEPT ![j] = frozen]
              /\ nextOrder' = nextOrder
           \/ /\ rest # <<>>
              /\ nextOrder \in JobOrder
              /\ jobs' = [jobs EXCEPT ![j] = frozen, ![nextOrder] = fresh]
              /\ nextOrder' = nextOrder + 1
        /\ proc' = [proc EXCEPT ![p] = [pc |-> "leased", job |-> j,
                                    episodes |-> window, outcomes |-> inside]]
    BY DEF FreezeAs
  <1>5. jobs \in [JobOrder -> Job] /\ nextOrder \in 1..(MaxJobs + 1)
    BY DEF TypeInv, TypeOK
  <1> HIDE DEF frozen, fresh
  <1>6. jobs' \in [JobOrder -> Job] /\ nextOrder' \in 1..(MaxJobs + 1)
    BY <1>2, <1>3, <1>4, <1>5, ModelBounds
  <1>7. /\ jobs'[j] = frozen
        /\ \A k \in JobOrder : k # j /\ k # nextOrder => jobs'[k] = jobs[k]
        /\ \/ /\ rest = <<>>
              /\ nextOrder' = nextOrder
              /\ \A k \in JobOrder : k # j => jobs'[k] = jobs[k]
           \/ /\ rest # <<>>
              /\ nextOrder \in JobOrder
              /\ nextOrder' = nextOrder + 1
              /\ jobs'[nextOrder] = fresh
    BY <1>4, <1>5
  <1> QED
    BY <1>4, <1>6, <1>7 DEF frozen, fresh, FreezeWrites

LEMMA LeaseTypeInv ==
    ASSUME TypeInv, NEW p \in Processor, NEW j \in JobOrder,
           LeaseCollecting(p, j) \/ LeaseFrozen(p, j)
    PROVE  TypeInv'
  <1>1. CASE LeaseCollecting(p, j)
    <2>1. /\ jobs[j].state = "collecting" /\ Freeze(p, j)
          /\ UNCHANGED <<lastDone, episodes, outcomes, tx, receipts, applied, intakes>>
      BY <1>1 DEF LeaseCollecting
    <2>2. /\ nextOrder # j /\ jobs[j].owner \in Owner
          /\ \E window, rest \in Seq(Episode), inside, outside \in SUBSET Outcome :
                 IsFreeze(p, j, window, inside, rest, outside)
      BY <2>1, FreezeEffect
    <2>3. PICK window \in Seq(Episode), rest \in Seq(Episode),
               inside \in SUBSET Outcome, outside \in SUBSET Outcome :
                 FreezeAs(p, j, window, inside, rest, outside)
      BY <2>2 DEF IsFreeze
    <2>a. FreezeWrites(p, j, window, inside, rest, outside)
      BY <2>1, <2>2, <2>3, FreezeRows
    <2>4. /\ jobs' \in [JobOrder -> Job]
          /\ nextOrder' \in 1..(MaxJobs + 1)
          /\ jobs'[j].state = "frozen" /\ jobs'[j].owner = jobs[j].owner
          /\ \A k \in JobOrder : k # j /\ k # nextOrder => jobs'[k] = jobs[k]
          /\ \/ /\ nextOrder' = nextOrder
                /\ \A k \in JobOrder : k # j => jobs'[k] = jobs[k]
             \/ /\ nextOrder \in JobOrder
                /\ nextOrder' = nextOrder + 1
                /\ jobs'[nextOrder] = NewJob(jobs[j].owner, rest, outside)
          /\ proc' = [proc EXCEPT ![p] = [pc |-> "leased", job |-> j,
                                    episodes |-> window, outcomes |-> inside]]
      BY <2>a DEF FreezeWrites
    <2>5. proc' \in [Processor -> Proc]
      BY <2>4, ModelBounds DEF TypeInv, TypeOK, Proc, ProcPc
    <2>6. TypeOK'
      BY <2>1, <2>4, <2>5 DEF TypeInv, TypeOK
    <2>7. TxEvidence'
      BY <2>1 DEF TypeInv, TxEvidence
    <2>8. JobRows'
      <3>1. NewJob(jobs[j].owner, rest, outside).state = "collecting"
            /\ NewJob(jobs[j].owner, rest, outside).owner \in Owner
        BY <2>2 DEF NewJob
      <3>2. JobRows /\ nextOrder \in Nat /\ j \in Nat
        BY DEF TypeInv, TypeOK
      <3>3. ASSUME NEW k \in JobOrder
            PROVE  IF k < nextOrder' THEN jobs'[k].state # "none" /\ jobs'[k].owner \in Owner
                                     ELSE jobs'[k].state = "none"
        <4>1. IF k < nextOrder THEN jobs[k].state # "none" /\ jobs[k].owner \in Owner
                               ELSE jobs[k].state = "none"
          BY <3>2 DEF JobRows
        <4>2. CASE k = j
          BY <2>1, <2>2, <2>4, <3>2, <4>1, <4>2
        <4>3. CASE k # j /\ k = nextOrder
          BY <2>1, <2>2, <2>4, <3>1, <3>2, <4>1, <4>3
        <4>4. CASE k # j /\ k # nextOrder
          BY <2>4, <3>2, <4>1, <4>4
        <4> QED BY <4>2, <4>3, <4>4
      <3> QED
        BY <3>3 DEF JobRows
    <2>9. ProcJobs'
      <3>1. \A k \in JobOrder : jobs[k].state \in {"frozen", "completed"}
                                => jobs'[k].state = jobs[k].state
        BY <2>1, <2>4 DEF TypeInv, TypeOK, JobRows
      <3>2. \A q \in Processor : q # p => proc'[q] = proc[q]
        BY <2>4 DEF TypeInv, TypeOK
      <3>3. proc'[p].job = j
        BY <2>4 DEF TypeInv, TypeOK
      <3>4. ProcJobs
        BY DEF TypeInv
      <3> QED
        BY <2>4, <3>1, <3>2, <3>3, <3>4 DEF ProcJobs
    <2> QED
      BY <2>6, <2>7, <2>8, <2>9 DEF TypeInv
  <1>2. CASE LeaseFrozen(p, j)
    <2>1. jobs[j] \in Job /\ jobs \in [JobOrder -> Job]
      BY DEF TypeInv, TypeOK
    <2>2. jobs' \in [JobOrder -> Job]
      BY <1>2, <2>1 DEF LeaseFrozen, Job
    <2>3. \A k \in JobOrder : jobs'[k].state = jobs[k].state
                              /\ jobs'[k].owner = jobs[k].owner
      BY <1>2, <2>1 DEF LeaseFrozen, Job
    <2>4. proc' \in [Processor -> Proc]
      BY <1>2, <2>1, ModelBounds DEF LeaseFrozen, TypeInv, TypeOK, Proc, ProcPc, Job
    <2>5. TypeOK'
      BY <1>2, <2>2, <2>4 DEF LeaseFrozen, TypeInv, TypeOK
    <2>6. TxEvidence' /\ JobRows'
      BY <1>2, <2>3 DEF LeaseFrozen, TypeInv, TxEvidence, JobRows
    <2>7. ProcJobs'
      BY <1>2, <2>3 DEF LeaseFrozen, TypeInv, TypeOK, ProcJobs
    <2> QED
      BY <2>5, <2>6, <2>7 DEF TypeInv
  <1> QED
    BY <1>1, <1>2

\* The engine moves a processor along; at most it adds the receipt of its Job.
LEMMA EngineTypeInv ==
    ASSUME TypeInv, NEW p \in Processor, EngineStep(p)
    PROVE  TypeInv'
  <1>1. /\ proc[p].pc # "idle"
        /\ \E pc \in ProcPc \ {"idle"} : StepProc(p, pc)
    BY DEF EngineStep, EngineSnapshot, WorkerAnswers, EngineReplay, EngineCommit,
       EngineFails, Replayed, ProcPc
  <1>2. PICK pc \in ProcPc \ {"idle"} : StepProc(p, pc)
    BY <1>1
  <1>3. proc[p].job \in JobOrder /\ proc[p] \in Proc
    BY <1>1 DEF TypeInv, TypeOK, ProcJobs
  <1>4. receipts' \in [JobOrder -> Receipt] /\ applied' \in [JobOrder -> Nat]
    <2>1. CASE UNCHANGED <<receipts, applied>>
      BY <2>1 DEF TypeInv, TypeOK
    <2>2. CASE \E reply \in {"done", "failed"} : EngineCommit(p, reply)
      BY <1>3, <2>2 DEF EngineCommit, TypeInv, TypeOK, Receipt, Proc
    <2> QED
      BY <2>1, <2>2 DEF EngineStep, EngineSnapshot, WorkerAnswers, EngineReplay,
         EngineFails
  <1>5. proc' \in [Processor -> Proc]
    BY <1>2 DEF StepProc, TypeInv, TypeOK, Proc
  <1>6. TypeOK'
    BY <1>2, <1>4, <1>5 DEF StepProc, TypeInv, TypeOK
  <1>7. TxEvidence' /\ JobRows'
    BY <1>2 DEF StepProc, TypeInv, TxEvidence, JobRows
  <1>8. \A q \in Processor : /\ proc'[q].job = proc[q].job
                             /\ proc'[q].pc # "idle" => proc[q].pc # "idle"
    BY <1>1, <1>2 DEF StepProc, TypeInv, TypeOK, Proc
  <1>9. ProcJobs'
    BY <1>2, <1>8 DEF StepProc, TypeInv, ProcJobs
  <1> QED
    BY <1>6, <1>7, <1>9 DEF TypeInv

\* The end of a ProcessOne call.
LEMMA EndTypeInv ==
    ASSUME TypeInv, NEW p \in Processor,
           Complete(p) \/ Retry(p) \/ LeaseLost(p) \/ Crash(p)
    PROVE  TypeInv'
  <1>1. proc[p].pc # "idle" /\ EndProc(p)
    BY DEF Complete, Retry, LeaseLost, Crash
  <1>2. proc[p].job \in JobOrder /\ jobs[proc[p].job] \in Job
        /\ jobs[proc[p].job].state \in {"frozen", "completed"}
    BY <1>1 DEF TypeInv, TypeOK, ProcJobs
  <1>3. jobs[proc[p].job].owner \in Owner
    BY <1>2 DEF TypeInv, TypeOK, JobRows
  <1>4. jobs' \in [JobOrder -> Job] /\ lastDone' \in [Owner -> 0..MaxJobs]
    <2>1. CASE Complete(p)
      <3>1. jobs' \in [JobOrder -> Job]
        BY <1>2, <2>1 DEF Complete, TypeInv, TypeOK, Job
      <3>2. lastDone' \in [Owner -> 0..MaxJobs]
        BY <1>2, <1>3, <2>1 DEF Complete, TypeInv, TypeOK
      <3> QED
        BY <3>1, <3>2
    <2>2. CASE Retry(p)
      BY <1>2, <2>2 DEF Retry, TypeInv, TypeOK, Job
    <2>3. CASE UNCHANGED <<jobs, lastDone>>
      BY <2>3 DEF TypeInv, TypeOK
    <2> QED
      BY <2>1, <2>2, <2>3 DEF LeaseLost, Crash
  <1>5. \A k \in JobOrder : /\ jobs'[k].owner = jobs[k].owner
                            /\ \/ jobs'[k].state = jobs[k].state
                               \/ /\ jobs[k].state \in {"frozen", "completed"}
                                  /\ jobs'[k].state = "completed"
    <2>1. CASE Complete(p)
      BY <1>2, <2>1 DEF Complete, TypeInv, TypeOK, Job
    <2>2. CASE Retry(p)
      BY <1>2, <2>2 DEF Retry, TypeInv, TypeOK, Job
    <2>3. CASE UNCHANGED <<jobs, lastDone>>
      BY <2>3
    <2> QED
      BY <2>1, <2>2, <2>3 DEF LeaseLost, Crash
  <1>6. proc' \in [Processor -> Proc]
    BY <1>1, ModelBounds DEF EndProc, Idle, TypeInv, TypeOK, Proc, ProcPc
  <1>7. TypeOK'
    BY <1>1, <1>4, <1>6 DEF EndProc, TypeInv, TypeOK
  <1>8. TxEvidence'
    BY <1>1 DEF EndProc, TypeInv, TxEvidence
  <1>9. JobRows'
    BY <1>1, <1>5 DEF EndProc, TypeInv, JobRows
  <1>10. ProcJobs'
    <2>1. \A q \in Processor : proc'[q].pc # "idle" => proc'[q] = proc[q]
      BY <1>1 DEF EndProc, Idle, TypeInv, TypeOK
    <2> QED
      BY <2>1, <1>5 DEF TypeInv, ProcJobs
  <1> QED
    BY <1>7, <1>8, <1>9, <1>10 DEF TypeInv

LEMMA TimeTypeInv ==
    ASSUME TypeInv, TimeNext
    PROVE  TypeInv'
  <1>1. PICK j \in JobOrder :
          LeaseExpires(j) \/ RetryDelayElapses(j) \/ QuietPeriodElapses(j)
    BY DEF TimeNext
  <1> DEFINE same(job) == /\ job \in Job /\ job.owner = jobs[j].owner
                          /\ job.state = jobs[j].state
  <1>a. jobs[j] \in Job /\ jobs \in [JobOrder -> Job]
    BY DEF TypeInv, TypeOK
  <1>b. /\ same([jobs[j] EXCEPT !.leased = FALSE])
        /\ same([jobs[j] EXCEPT !.due = TRUE])
        /\ same([jobs[j] EXCEPT !.quiet = TRUE])
    BY <1>a DEF Job
  <1>c. PICK job : same(job) /\ Tick(j, job)
    BY <1>1, <1>b DEF LeaseExpires, RetryDelayElapses, QuietPeriodElapses
  <1>2. /\ jobs' \in [JobOrder -> Job]
        /\ \A k \in JobOrder : /\ jobs'[k].owner = jobs[k].owner
                               /\ jobs'[k].state = jobs[k].state
        /\ UNCHANGED <<nextOrder, lastDone, episodes, outcomes, tx, proc, receipts,
                       applied, intakes>>
    BY <1>a, <1>c DEF Tick
  <1>3. TypeOK'
    BY <1>2 DEF TypeInv, TypeOK
  <1>4. TxEvidence' /\ JobRows' /\ ProcJobs'
    BY <1>2 DEF TypeInv, TxEvidence, JobRows, ProcJobs
  <1> QED
    BY <1>3, <1>4 DEF TypeInv

LEMMA NextTypeInv == TypeInv /\ [Next]_vars => TypeInv'
  <1> SUFFICES ASSUME TypeInv, [Next]_vars PROVE TypeInv'
    OBVIOUS
  <1>1. CASE UNCHANGED vars
    BY <1>1 DEF vars, TypeInv, TypeOK, TxEvidence, JobRows, ProcJobs
  <1>2. CASE Next
    BY <1>2, IntakeTypeInv, LeaseTypeInv, EngineTypeInv, EndTypeInv, TimeTypeInv
       DEF Next, ProcessorNext, Lease
  <1> QED
    BY <1>1, <1>2

\* Every row, transaction, lease and receipt of the queue keeps its shape; in
\* particular a job_order read by a SELECT or carried by a lease is one the
\* table gave out.
THEOREM TypeCorrect == Spec => []TypeOK
  <1>1. Init => TypeInv
    BY InitTypeInv
  <1>2. TypeInv /\ [Next]_vars => TypeInv'
    BY NextTypeInv
  <1>3. TypeInv => TypeOK
    BY DEF TypeInv
  <1> QED
    BY <1>1, <1>2, <1>3, PTL DEF Spec

-----------------------------------------------------------------------------
(* How a step can change the rows *)

\* Three actions write windows; every other step leaves each row's owner and
\* window alone and at most completes Jobs that are frozen.
SteadyRows ==
    /\ nextOrder' = nextOrder
    /\ \A k \in JobOrder :
          /\ jobs'[k].owner = jobs[k].owner
          /\ jobs'[k].episodes = jobs[k].episodes
          /\ jobs'[k].outcomes = jobs[k].outcomes
          /\ \/ jobs'[k].state = jobs[k].state
             \/ /\ jobs[k].state \in {"frozen", "completed"}
                /\ jobs'[k].state = "completed"

LEMMA StepCases ==
    ASSUME TypeInv, [Next]_vars
    PROVE  \/ SteadyRows
           \/ \E i \in Intake : EnqueueInsert(i)
           \/ \E i \in Intake : EnqueueExtend(i)
           \/ \E p \in Processor, j \in JobOrder : LeaseCollecting(p, j)
  <1>1. ASSUME jobs' = jobs /\ nextOrder' = nextOrder
        PROVE  SteadyRows
    BY <1>1 DEF SteadyRows
  <1>2. ASSUME NEW i \in Intake, IntakeNext(i)
        PROVE  SteadyRows \/ EnqueueInsert(i) \/ EnqueueExtend(i)
    BY <1>1, <1>2 DEF IntakeNext, EnqueueStep, IntakeBegin, EnqueueSelect, EnqueueLock,
       EnqueueConflict, EnqueueReselect, EnqueueRelock, IntakeAbort, StepTx
  <1>3. ASSUME NEW p \in Processor, NEW j \in JobOrder, LeaseFrozen(p, j)
        PROVE  SteadyRows
    <2>1. jobs[j] \in Job /\ jobs \in [JobOrder -> Job]
      BY DEF TypeInv, TypeOK
    <2>2. \A k \in JobOrder : /\ jobs'[k].owner = jobs[k].owner
                              /\ jobs'[k].episodes = jobs[k].episodes
                              /\ jobs'[k].outcomes = jobs[k].outcomes
                              /\ jobs'[k].state = jobs[k].state
      BY <1>3, <2>1 DEF LeaseFrozen, Job
    <2> QED
      BY <1>3, <2>2 DEF LeaseFrozen, SteadyRows
  <1>4. ASSUME NEW p \in Processor, EngineStep(p)
        PROVE  SteadyRows
    BY <1>1, <1>4 DEF EngineStep, EngineSnapshot, WorkerAnswers, EngineReplay,
       EngineCommit, EngineFails, StepProc
  <1>5. ASSUME NEW p \in Processor, Complete(p) \/ Retry(p)
        PROVE  SteadyRows
    <2>1. /\ proc[p].job \in JobOrder /\ jobs[proc[p].job] \in Job
          /\ jobs[proc[p].job].state \in {"frozen", "completed"}
          /\ jobs \in [JobOrder -> Job]
      BY <1>5 DEF TypeInv, TypeOK, ProcJobs, Complete, Retry
    <2>2. CASE Complete(p)
      <3>1. \A k \in JobOrder : /\ jobs'[k].owner = jobs[k].owner
                                /\ jobs'[k].episodes = jobs[k].episodes
                                /\ jobs'[k].outcomes = jobs[k].outcomes
        BY <2>1, <2>2 DEF Complete, Job
      <3>2. \A k \in JobOrder : \/ jobs'[k].state = jobs[k].state
                                \/ /\ jobs[k].state \in {"frozen", "completed"}
                                   /\ jobs'[k].state = "completed"
        BY <2>1, <2>2 DEF Complete, Job
      <3> QED
        BY <2>2, <3>1, <3>2 DEF Complete, EndProc, SteadyRows
    <2>3. CASE Retry(p)
      <3>1. \A k \in JobOrder : /\ jobs'[k].owner = jobs[k].owner
                                /\ jobs'[k].episodes = jobs[k].episodes
                                /\ jobs'[k].outcomes = jobs[k].outcomes
                                /\ jobs'[k].state = jobs[k].state
        BY <2>1, <2>3 DEF Retry, Job
      <3> QED
        BY <2>3, <3>1 DEF Retry, EndProc, SteadyRows
    <2> QED
      BY <1>5, <2>2, <2>3
  <1>6. ASSUME NEW p \in Processor, LeaseLost(p) \/ Crash(p)
        PROVE  SteadyRows
    BY <1>1, <1>6 DEF LeaseLost, Crash, EndProc
  <1>7. ASSUME TimeNext
        PROVE  SteadyRows
    <2>1. PICK j \in JobOrder :
            LeaseExpires(j) \/ RetryDelayElapses(j) \/ QuietPeriodElapses(j)
      BY <1>7 DEF TimeNext
    <2> DEFINE same(job) == /\ job.owner = jobs[j].owner
                            /\ job.episodes = jobs[j].episodes
                            /\ job.outcomes = jobs[j].outcomes
                            /\ job.state = jobs[j].state
    <2>2. jobs[j] \in Job /\ jobs \in [JobOrder -> Job]
      BY DEF TypeInv, TypeOK
    <2>3. /\ same([jobs[j] EXCEPT !.leased = FALSE])
          /\ same([jobs[j] EXCEPT !.due = TRUE])
          /\ same([jobs[j] EXCEPT !.quiet = TRUE])
      BY <2>2 DEF Job
    <2>4. PICK job : same(job) /\ Tick(j, job)
      BY <2>1, <2>3 DEF LeaseExpires, RetryDelayElapses, QuietPeriodElapses
    <2> QED
      BY <2>2, <2>4 DEF Tick, SteadyRows
  <1>8. CASE UNCHANGED vars
    BY <1>1, <1>8 DEF vars
  <1>9. CASE Next
    BY <1>9, <1>2, <1>3, <1>4, <1>5, <1>6, <1>7 DEF Next, ProcessorNext, Lease
  <1> QED
    BY <1>8, <1>9

\* The rows after the three writing actions.
LEMMA InsertRows ==
    ASSUME TypeInv, NEW i \in Intake, EnqueueInsert(i)
    PROVE  /\ nextOrder \in JobOrder /\ nextOrder' = nextOrder + 1
           /\ CollectingJobs(TxOwner(i)) = {}
           /\ jobs[nextOrder].state = "none"
           /\ jobs'[nextOrder] = NewJob(TxOwner(i), <<tx[i].episode>>, EpisodeState(i))
           /\ \A k \in JobOrder : k # nextOrder => jobs'[k] = jobs[k]
  BY DEF EnqueueInsert, TypeInv, TypeOK, JobRows

LEMMA ExtendRows ==
    ASSUME TypeInv, NEW i \in Intake, EnqueueExtend(i)
    PROVE  /\ nextOrder' = nextOrder
           /\ \A k \in JobOrder :
                 /\ jobs'[k].state = jobs[k].state
                 /\ jobs'[k].owner = jobs[k].owner
                 /\ k # tx[i].seen => jobs'[k] = jobs[k]
                 /\ k = tx[i].seen =>
                       /\ jobs'[k].episodes =
                             AppendUnique(jobs[k].episodes, tx[i].episode)
                       /\ jobs'[k].outcomes = jobs[k].outcomes \cup EpisodeState(i)
  <1>1. ASSUME NEW job \in Job
        PROVE  /\ Extended(job, i).state = job.state
               /\ Extended(job, i).owner = job.owner
               /\ Extended(job, i).episodes = AppendUnique(job.episodes, tx[i].episode)
               /\ Extended(job, i).outcomes = job.outcomes \cup EpisodeState(i)
    BY DEF Extended, Job
  <1>2. jobs \in [JobOrder -> Job]
    BY DEF TypeInv, TypeOK
  <1> QED
    BY <1>1, <1>2 DEF EnqueueExtend

LEMMA LeaseRows ==
    ASSUME TypeInv, NEW p \in Processor, NEW j \in JobOrder, LeaseCollecting(p, j)
    PROVE  /\ jobs[j].owner \in Owner /\ j < nextOrder
           /\ jobs[j].state = "collecting" /\ Ready(j)
           /\ nextOrder \in JobOrder => jobs[nextOrder].state = "none"
           /\ \E window, rest \in Seq(Episode), inside, outside \in SUBSET Outcome :
                 /\ IsFreeze(p, j, window, inside, rest, outside)
                 /\ FreezeWrites(p, j, window, inside, rest, outside)
  <1>1. jobs[j].state = "collecting" /\ Freeze(p, j) /\ Ready(j)
    BY DEF LeaseCollecting, NextReady
  <1>2. /\ nextOrder # j /\ jobs[j].owner \in Owner
        /\ \E window, rest \in Seq(Episode), inside, outside \in SUBSET Outcome :
                 IsFreeze(p, j, window, inside, rest, outside)
    BY <1>1, FreezeEffect
  <1>3. PICK window \in Seq(Episode), rest \in Seq(Episode),
             inside \in SUBSET Outcome, outside \in SUBSET Outcome :
               IsFreeze(p, j, window, inside, rest, outside)
    BY <1>2
  <1>4. FreezeAs(p, j, window, inside, rest, outside)
    BY <1>3 DEF IsFreeze
  <1>5. FreezeWrites(p, j, window, inside, rest, outside)
    BY <1>1, <1>2, <1>4, FreezeRows
  <1>6. j < nextOrder /\ (nextOrder \in JobOrder => jobs[nextOrder].state = "none")
    BY <1>1 DEF TypeInv, TypeOK, JobRows
  <1> QED
    BY <1>1, <1>2, <1>3, <1>5, <1>6

-----------------------------------------------------------------------------
(* One collecting Job per owner *)

LEMMA NextQueueShape ==
    ASSUME TypeInv, QueueShape, [Next]_vars
    PROVE  QueueShape'
  <1> USE DEF Incomplete
  <1>1. CASE SteadyRows
    BY <1>1 DEF SteadyRows, QueueShape
  <1>2. ASSUME NEW i \in Intake, EnqueueInsert(i)
        PROVE  QueueShape'
    <2>1. /\ nextOrder \in JobOrder
          /\ CollectingJobs(TxOwner(i)) = {}
          /\ jobs'[nextOrder].state = "collecting"
          /\ jobs'[nextOrder].owner = TxOwner(i)
          /\ \A k \in JobOrder : k # nextOrder => jobs'[k] = jobs[k]
      <3>1. jobs'[nextOrder] = NewJob(TxOwner(i), <<tx[i].episode>>, EpisodeState(i))
        BY <1>2, InsertRows
      <3>2. /\ nextOrder \in JobOrder
            /\ CollectingJobs(TxOwner(i)) = {}
            /\ \A k \in JobOrder : k # nextOrder => jobs'[k] = jobs[k]
        BY <1>2, InsertRows
      <3> QED
        BY <3>1, <3>2 DEF NewJob
    <2>2. \A k \in JobOrder : Incomplete(k) => k < nextOrder
      BY DEF TypeInv, TypeOK, JobRows
    <2> QED
      BY <2>1, <2>2 DEF QueueShape, CollectingJobs
  <1>3. ASSUME NEW i \in Intake, EnqueueExtend(i)
        PROVE  QueueShape'
    <2>1. \A k \in JobOrder : /\ jobs'[k].state = jobs[k].state
                              /\ jobs'[k].owner = jobs[k].owner
      BY <1>3, ExtendRows
    <2> QED
      BY <2>1 DEF QueueShape
  <1>4. ASSUME NEW p \in Processor, NEW j \in JobOrder, LeaseCollecting(p, j)
        PROVE  QueueShape'
    <2>1. /\ jobs[j].state = "collecting" /\ Ready(j) /\ j < nextOrder
          /\ \E window, rest, inside, outside :
                 FreezeWrites(p, j, window, inside, rest, outside)
      BY <1>4, LeaseRows
    <2>2. PICK window, rest, inside, outside :
             FreezeWrites(p, j, window, inside, rest, outside)
      BY <2>1
    <2>3. /\ jobs'[j].state = "frozen" /\ jobs'[j].owner = jobs[j].owner
          /\ \A k \in JobOrder : k # j /\ k # nextOrder => jobs'[k] = jobs[k]
          /\ nextOrder \in JobOrder =>
                \/ jobs'[nextOrder] = jobs[nextOrder]
                \/ /\ jobs'[nextOrder].state = "collecting"
                   /\ jobs'[nextOrder].owner = jobs[j].owner
      BY <2>1, <2>2 DEF FreezeWrites, NewJob
    <2>4. \A k \in JobOrder : Incomplete(k) => k < nextOrder
      BY DEF TypeInv, TypeOK, JobRows
    <2>5. \A k \in JobOrder :
             jobs[k].owner = jobs[j].owner /\ k # j => ~Incomplete(k) \/ j < k
      BY <2>1 DEF Ready
    <2>6. \A k \in JobOrder :
             jobs[k].owner = jobs[j].owner /\ k # j => ~Incomplete(k)
      BY <2>1, <2>5 DEF QueueShape
    <2> QED
      BY <2>1, <2>3, <2>4, <2>6 DEF QueueShape
  <1> QED
    BY <1>1, <1>2, <1>3, <1>4, StepCases

\* However freezes, remainders and the INSERTs of concurrent intake transactions
\* interleave, an owner has at most one collecting Job, at most one frozen Job,
\* and the frozen one is first in the owner's queue: the partial unique index
\* one_collecting_job_per_owner together with the ordered lease are enough.
THEOREM QueueKeepsShape == Spec => []QueueInv
  <1>1. Init => QueueShape
    BY DEF Init, QueueShape, Incomplete, NoJob
  <1>2. TypeInv /\ QueueShape /\ [Next]_vars => QueueShape'
    BY NextQueueShape
  <1>3. TypeInv /\ QueueShape => QueueInv
    BY DEF TypeInv, QueueInv
  <1> QED
    BY <1>1, <1>2, <1>3, InitTypeInv, NextTypeInv, PTL DEF Spec

-----------------------------------------------------------------------------
(* Frozen windows *)

\* A row that an intake transaction has locked stays collecting: SKIP LOCKED
\* keeps the lease away from it.
LockedRows ==
    \A i \in Intake : tx[i].pc = "locked" =>
        /\ tx[i].seen \in JobOrder
        /\ jobs[tx[i].seen].state = "collecting"

LEMMA NextLockedRows ==
    ASSUME TypeInv, LockedRows, [Next]_vars
    PROVE  LockedRows'
  <1> DEFINE intact(k) == jobs[k].state = "collecting" => jobs'[k].state = "collecting"
  <1>1. ASSUME NEW k \in JobOrder
        PROVE  intact(k) \/ ~RowLocked(k)
    <2>1. CASE SteadyRows
      BY <2>1 DEF SteadyRows
    <2>2. ASSUME NEW i \in Intake, EnqueueInsert(i)
          PROVE  intact(k)
      BY <2>2, InsertRows
    <2>3. ASSUME NEW i \in Intake, EnqueueExtend(i)
          PROVE  intact(k)
      BY <2>3, ExtendRows
    <2>4. ASSUME NEW p \in Processor, NEW j \in JobOrder, LeaseCollecting(p, j)
          PROVE  intact(k) \/ ~RowLocked(k)
      <3>1. /\ Ready(j) /\ j < nextOrder
            /\ nextOrder \in JobOrder => jobs[nextOrder].state = "none"
            /\ \E window, rest, inside, outside :
                 FreezeWrites(p, j, window, inside, rest, outside)
        BY <2>4, LeaseRows
      <3> QED
        BY <3>1 DEF FreezeWrites, Ready
    <2> QED
      BY <2>1, <2>2, <2>3, <2>4, StepCases
  <1>2. ASSUME NEW i \in Intake, tx'[i].pc = "locked", tx'[i] = tx[i]
        PROVE  tx'[i].seen \in JobOrder /\ jobs'[tx'[i].seen].state = "collecting"
    BY <1>1, <1>2 DEF LockedRows, RowLocked
  <1>3. ASSUME NEW i \in Intake, tx'[i].pc = "locked", tx'[i] # tx[i]
        PROVE  tx'[i].seen \in JobOrder /\ jobs'[tx'[i].seen].state = "collecting"
    <2>1. ASSUME NEW q \in Intake, IntakeNext(q)
          PROVE  /\ tx'[i].seen \in CollectingJobs(TxOwner(i)) /\ jobs' = jobs
      <3>1. ASSUME NEW r \in Intake, r # q PROVE tx'[r] = tx[r]
        BY <2>1, <3>1 DEF IntakeNext, EnqueueStep, IntakeBegin, EnqueueSelect,
           EnqueueLock, EnqueueInsert, EnqueueExtend, EnqueueConflict,
           EnqueueReselect, EnqueueRelock, IntakeAbort, StepTx, CommitIntake,
           TypeInv, TypeOK
      <3>2. q = i
        BY <1>3, <3>1
      <3>3. tx[i] \in Tx /\ tx \in [Intake -> Tx]
        BY DEF TypeInv, TypeOK
      <3>4. ASSUME StepTx(i, "locked", tx[i].seen),
                   tx[i].seen \in CollectingJobs(TxOwner(i))
            PROVE  tx'[i].seen \in CollectingJobs(TxOwner(i)) /\ jobs' = jobs
        BY <3>3, <3>4 DEF StepTx, Tx
      <3>5. ASSUME NEW pc, NEW seen, StepTx(i, pc, seen), pc # "locked"
            PROVE  FALSE
        BY <1>3, <3>3, <3>5 DEF StepTx, Tx
      <3>6. ASSUME tx' = [tx EXCEPT ![i] = IdleTx]
            PROVE  FALSE
        BY <1>3, <3>3, <3>6 DEF IdleTx
      <3>7. ASSUME NEW e, NEW O, IntakeBegin(i, e, O)
            PROVE  FALSE
        BY <1>3, <3>3, <3>7 DEF IntakeBegin
      <3>8. EnqueueLock(i) \/ EnqueueRelock(i)
        BY <2>1, <3>2, <3>5, <3>6, <3>7 DEF IntakeNext, EnqueueStep, EnqueueSelect,
           EnqueueInsert, EnqueueExtend, EnqueueConflict, EnqueueReselect,
           IntakeAbort, CommitIntake
      <3> QED
        BY <3>4, <3>5, <3>6, <3>8 DEF EnqueueLock, EnqueueRelock
    <2>2. ASSUME tx' = tx PROVE FALSE
      BY <1>3, <2>2
    <2>3. ASSUME NEW p \in Processor, ProcessorNext(p)
          PROVE  tx' = tx
      BY <2>3 DEF ProcessorNext, Lease, LeaseCollecting, LeaseFrozen, EngineStep,
         EngineSnapshot, WorkerAnswers, EngineReplay, EngineCommit, EngineFails,
         StepProc, Complete, Retry, LeaseLost, Crash, EndProc
    <2>4. ASSUME TimeNext PROVE tx' = tx
      BY <2>4 DEF TimeNext, LeaseExpires, RetryDelayElapses, QuietPeriodElapses, Tick
    <2> QED
      BY <2>1, <2>2, <2>3, <2>4 DEF Next, vars, CollectingJobs
  <1> QED
    BY <1>2, <1>3 DEF LockedRows

LEMMA InitLockedRows == Init => LockedRows
  BY DEF Init, LockedRows, IdleTx

\* What a step may do to a row that is no longer collecting.
RowsFixed ==
    \A j \in JobOrder : jobs[j].state \in {"frozen", "completed"} =>
        /\ jobs'[j].owner = jobs[j].owner
        /\ jobs'[j].episodes = jobs[j].episodes
        /\ jobs'[j].outcomes = jobs[j].outcomes
        /\ jobs'[j].state \in {jobs[j].state, "completed"}

LEMMA NextRowsFixed ==
    ASSUME TypeInv, LockedRows, [Next]_vars
    PROVE  RowsFixed
  <1>1. CASE SteadyRows
    BY <1>1 DEF SteadyRows, RowsFixed
  <1>2. ASSUME NEW i \in Intake, EnqueueInsert(i)
        PROVE  RowsFixed
    BY <1>2, InsertRows DEF RowsFixed
  <1>3. ASSUME NEW i \in Intake, EnqueueExtend(i)
        PROVE  RowsFixed
    <2>1. jobs[tx[i].seen].state = "collecting"
      BY <1>3 DEF EnqueueExtend, LockedRows
    <2> QED
      BY <1>3, <2>1, ExtendRows DEF RowsFixed
  <1>4. ASSUME NEW p \in Processor, NEW j \in JobOrder, LeaseCollecting(p, j)
        PROVE  RowsFixed
    <2>1. /\ jobs[j].state = "collecting"
          /\ nextOrder \in JobOrder => jobs[nextOrder].state = "none"
          /\ \E window, rest, inside, outside :
                 FreezeWrites(p, j, window, inside, rest, outside)
      BY <1>4, LeaseRows
    <2>2. \A k \in JobOrder : k # j /\ k # nextOrder => jobs'[k] = jobs[k]
      BY <2>1 DEF FreezeWrites
    <2> QED
      BY <2>1, <2>2 DEF RowsFixed
  <1> QED
    BY <1>1, <1>2, <1>3, <1>4, StepCases

\* Evidence never enters a window once it is frozen, and no Job is reopened,
\* although intake works on the row it found before the lease froze it: the
\* second look that FOR UPDATE takes and SKIP LOCKED are enough.
THEOREM FrozenWindowsStayFixed == Spec => FrozenWindowsFixed
  <1>1. TypeInv /\ LockedRows /\ [Next]_vars => RowsFixed
    BY NextRowsFixed
  <1>2. RowsFixed =>
          [\A j \in JobOrder : jobs[j].state \in {"frozen", "completed"} =>
             /\ jobs'[j].episodes = jobs[j].episodes
             /\ jobs'[j].outcomes = jobs[j].outcomes
             /\ jobs'[j].state \in {jobs[j].state, "completed"}]_vars
    BY DEF RowsFixed
  <1>3. TypeInv /\ LockedRows /\ [Next]_vars => LockedRows'
    BY NextLockedRows
  <1> QED
    BY <1>1, <1>2, <1>3, InitTypeInv, InitLockedRows, NextTypeInv, PTL
       DEF Spec, FrozenWindowsFixed

-----------------------------------------------------------------------------
(* Effects: once, and in queue order *)

\* Everything older in the owner's queue is completed.
FirstInQueue(j) ==
    \A k \in JobOrder :
        k < j /\ jobs[k].owner = jobs[j].owner => jobs[k].state = "completed"

\* A processor works on exactly the frozen window of a Job that was first in
\* its owner's queue, however long ago it lost the lease, and reports success
\* only for a Job with a receipt.
ProcWindows ==
    \A p \in Processor : proc[p].pc # "idle" =>
        /\ proc[p].episodes = jobs[proc[p].job].episodes
        /\ proc[p].outcomes = jobs[proc[p].job].outcomes
        /\ FirstInQueue(proc[p].job)
        /\ proc[p].pc = "done" => receipts[proc[p].job].committed

\* Receipts and effects go together; a receipt is for the frozen window of a
\* Job that was first in its owner's queue; completed Jobs have one.
ReceiptRows ==
    \A j \in JobOrder :
        /\ applied[j] = IF receipts[j].committed THEN 1 ELSE 0
        /\ receipts[j].committed =>
              /\ jobs[j].state \in {"frozen", "completed"}
              /\ receipts[j].episodes = jobs[j].episodes
              /\ receipts[j].outcomes = jobs[j].outcomes
              /\ FirstInQueue(j)
        /\ jobs[j].state = "completed" => receipts[j].committed

EffectInv == ProcWindows /\ ReceiptRows

LEMMA EffectInvImplies == TypeInv /\ EffectInv => CommitsInOrder /\ EffectOnce
  BY DEF TypeInv, TypeOK, EffectInv, ReceiptRows, FirstInQueue, CommitsInOrder, EffectOnce

\* Rows keep their owner, and being first in the owner's queue is stable.
LEMMA OwnersFixed ==
    ASSUME TypeInv, [Next]_vars, NEW k \in JobOrder, jobs[k].state # "none"
    PROVE  jobs'[k].owner = jobs[k].owner
  <1>1. k # nextOrder
    BY DEF TypeInv, TypeOK, JobRows
  <1>2. CASE SteadyRows
    BY <1>2 DEF SteadyRows
  <1>3. ASSUME NEW i \in Intake, EnqueueInsert(i)
        PROVE  jobs'[k].owner = jobs[k].owner
    <2>1. \A m \in JobOrder : m # nextOrder => jobs'[m] = jobs[m]
      BY <1>3, InsertRows
    <2> QED
      BY <1>1, <2>1
  <1>4. ASSUME NEW i \in Intake, EnqueueExtend(i)
        PROVE  jobs'[k].owner = jobs[k].owner
    BY <1>4, ExtendRows
  <1>5. ASSUME NEW p \in Processor, NEW l \in JobOrder, LeaseCollecting(p, l)
        PROVE  jobs'[k].owner = jobs[k].owner
    <2>1. PICK window, rest, inside, outside :
             FreezeWrites(p, l, window, inside, rest, outside)
      BY <1>5, LeaseRows
    <2>2. /\ jobs'[l].owner = jobs[l].owner
          /\ \A m \in JobOrder : m # l /\ m # nextOrder => jobs'[m] = jobs[m]
      BY <2>1 DEF FreezeWrites
    <2> QED
      BY <1>1, <2>2
  <1> QED
    BY <1>2, <1>3, <1>4, <1>5, StepCases

LEMMA FirstStaysFirst ==
    ASSUME TypeInv, LockedRows, [Next]_vars, NEW j \in JobOrder,
           jobs[j].state # "none", FirstInQueue(j)
    PROVE  FirstInQueue(j)'
  <1>1. ASSUME NEW k \in JobOrder, k < j, jobs'[k].owner = jobs'[j].owner
        PROVE  jobs'[k].state = "completed"
    <2>1. RowsFixed
      BY NextRowsFixed
    <2>2. jobs[k].state # "none"
      BY <1>1 DEF TypeInv, TypeOK, JobRows
    <2>3. jobs'[k].owner = jobs[k].owner /\ jobs'[j].owner = jobs[j].owner
      BY <2>2, OwnersFixed
    <2>4. jobs[k].state = "completed"
      BY <1>1, <2>3 DEF FirstInQueue
    <2> QED
      BY <2>1, <2>4 DEF RowsFixed
  <1> QED
    BY <1>1 DEF FirstInQueue

\* The lease takes the first Job of an owner.
LEMMA ReadyIsFirst ==
    ASSUME TypeInv, NEW j \in JobOrder, Ready(j)
    PROVE  jobs[j].state # "none" /\ FirstInQueue(j)
  <1>1. jobs[j].state # "none" /\ j < nextOrder
    BY DEF Ready, Incomplete, TypeInv, TypeOK, JobRows
  <1>2. \A k \in JobOrder : k < j => jobs[k].state # "none" /\ jobs[k] \in Job
    BY <1>1 DEF TypeInv, TypeOK, JobRows
  <1>3. \A k \in JobOrder :
          k < j => jobs[k].state \in {"collecting", "frozen", "completed"}
    BY <1>2 DEF Job
  <1> QED
    BY <1>1, <1>3 DEF Ready, Incomplete, FirstInQueue

\* A processor keeps its copy of a window from the lease to the end of the call.
LEMMA ProcStep ==
    ASSUME TypeInv, [Next]_vars, NEW q \in Processor, proc'[q].pc # "idle"
    PROVE  \/ /\ proc[q].pc # "idle"
              /\ proc'[q].job = proc[q].job
              /\ proc'[q].episodes = proc[q].episodes
              /\ proc'[q].outcomes = proc[q].outcomes
              /\ proc'[q].pc = "done" => \/ proc[q].pc = "done"
                                         \/ receipts'[proc[q].job].committed
           \/ \E j \in JobOrder : /\ LeaseCollecting(q, j) \/ LeaseFrozen(q, j)
                                  /\ Ready(j)
                                  /\ proc'[q].pc # "done"
                                  /\ proc'[q].job = j
                                  /\ proc'[q].episodes = jobs'[j].episodes
                                  /\ proc'[q].outcomes = jobs'[j].outcomes
  <1>0. proc \in [Processor -> Proc] /\ proc[q] \in Proc
    BY DEF TypeInv, TypeOK
  <1>1. CASE proc'[q] = proc[q]
    BY <1>1
  <1>2. ASSUME NEW p \in Processor, EngineStep(p), p = q
        PROVE  /\ proc[q].pc # "idle"
               /\ proc'[q].job = proc[q].job
               /\ proc'[q].episodes = proc[q].episodes
               /\ proc'[q].outcomes = proc[q].outcomes
               /\ proc'[q].pc = "done" => \/ proc[q].pc = "done"
                                          \/ receipts'[proc[q].job].committed
    <2>1. PICK pc \in ProcPc : /\ StepProc(q, pc) /\ proc[q].pc # "idle"
                               /\ pc = "done" => receipts'[proc[q].job].committed
      <3>1. proc[q].pc # "idle" => proc[q].job \in JobOrder
        BY DEF TypeInv, ProcJobs
      <3>2. receipts \in [JobOrder -> Receipt]
        BY DEF TypeInv, TypeOK
      <3>3. ASSUME NEW reply \in {"done", "failed"}, EngineCommit(q, reply)
            PROVE  receipts'[proc[q].job].committed /\ reply \in ProcPc
        BY <3>1, <3>2, <3>3 DEF EngineCommit, ProcPc
      <3>4. Replayed(q) \in ProcPc /\ "inferring" \in ProcPc /\ "answered" \in ProcPc
            /\ "failed" \in ProcPc
        BY DEF Replayed, ProcPc
      <3> QED
        BY <1>2, <3>3, <3>4 DEF EngineStep, EngineSnapshot, WorkerAnswers,
           EngineReplay, EngineCommit, EngineFails
    <2>2. proc'[q] = [proc[q] EXCEPT !.pc = pc]
      BY <1>0, <2>1 DEF StepProc
    <2>3. /\ proc'[q].job = proc[q].job
          /\ proc'[q].episodes = proc[q].episodes
          /\ proc'[q].outcomes = proc[q].outcomes
          /\ proc'[q].pc = pc
      BY <1>0, <2>2 DEF Proc
    <2> QED
      BY <2>1, <2>3
  <1>3. ASSUME NEW p \in Processor, NEW j \in JobOrder, LeaseFrozen(p, j), p = q
        PROVE  /\ Ready(j)
               /\ proc'[q].pc # "done"
               /\ proc'[q].job = j
               /\ proc'[q].episodes = jobs'[j].episodes
               /\ proc'[q].outcomes = jobs'[j].outcomes
    <2>1. jobs[j] \in Job /\ jobs \in [JobOrder -> Job]
      BY DEF TypeInv, TypeOK
    <2>2. jobs'[j].episodes = jobs[j].episodes /\ jobs'[j].outcomes = jobs[j].outcomes
      BY <1>3, <2>1 DEF LeaseFrozen, Job
    <2>3. proc'[q] = [pc |-> "leased", job |-> j, episodes |-> jobs[j].episodes,
                      outcomes |-> jobs[j].outcomes]
      BY <1>0, <1>3 DEF LeaseFrozen
    <2> QED
      BY <1>3, <2>2, <2>3 DEF LeaseFrozen, NextReady
  <1>4. ASSUME NEW p \in Processor, NEW j \in JobOrder, LeaseCollecting(p, j), p = q
        PROVE  /\ Ready(j)
               /\ proc'[q].pc # "done"
               /\ proc'[q].job = j
               /\ proc'[q].episodes = jobs'[j].episodes
               /\ proc'[q].outcomes = jobs'[j].outcomes
    <2>1. PICK window, rest, inside, outside :
             FreezeWrites(q, j, window, inside, rest, outside)
      BY <1>4, LeaseRows
    <2>2. /\ jobs'[j].episodes = window /\ jobs'[j].outcomes = inside
          /\ proc'[q] = [pc |-> "leased", job |-> j, episodes |-> window,
                         outcomes |-> inside]
      BY <1>0, <2>1 DEF FreezeWrites
    <2> QED
      BY <1>4, <2>2 DEF LeaseCollecting, NextReady
  <1>5. ASSUME NEW p \in Processor, p # q, ProcessorNext(p)
        PROVE  proc'[q] = proc[q]
    <2>1. ASSUME NEW j \in JobOrder, LeaseCollecting(p, j)
          PROVE  proc'[q] = proc[q]
      <3>1. PICK window, rest, inside, outside :
               FreezeWrites(p, j, window, inside, rest, outside)
        BY <2>1, LeaseRows
      <3> QED
        BY <1>0, <1>5, <3>1 DEF FreezeWrites
    <2> QED
      BY <1>0, <1>5, <2>1 DEF ProcessorNext, Lease, LeaseFrozen, EngineStep,
         EngineSnapshot, WorkerAnswers, EngineReplay, EngineCommit, EngineFails,
         StepProc, Complete, Retry, LeaseLost, Crash, EndProc
  <1>6. ASSUME NEW p \in Processor, p = q,
               Complete(p) \/ Retry(p) \/ LeaseLost(p) \/ Crash(p)
        PROVE  FALSE
    BY <1>0, <1>6 DEF Complete, Retry, LeaseLost, Crash, EndProc, Idle
  <1>7. ASSUME NEW i \in Intake, IntakeNext(i)
        PROVE  proc' = proc
    BY <1>7 DEF IntakeNext, EnqueueStep, IntakeBegin, EnqueueSelect,
       EnqueueLock, EnqueueInsert, EnqueueExtend, EnqueueConflict,
       EnqueueReselect, EnqueueRelock, IntakeAbort, StepTx, CommitIntake
  <1>8. ASSUME TimeNext PROVE proc' = proc
    BY <1>8 DEF TimeNext, LeaseExpires, RetryDelayElapses, QuietPeriodElapses, Tick
  <1> QED
    BY <1>1, <1>2, <1>3, <1>4, <1>5, <1>6, <1>7, <1>8 DEF Next, vars, ProcessorNext, Lease

\* A receipt is written once, for the window of the processor that writes it.
LEMMA ReceiptStep ==
    ASSUME TypeInv, [Next]_vars
    PROVE  \/ UNCHANGED <<receipts, applied>>
           \/ \E p \in Processor :
                 /\ proc[p].pc # "idle"
                 /\ ~receipts[proc[p].job].committed
                 /\ receipts' = [receipts EXCEPT ![proc[p].job] =
                       [committed |-> TRUE, episodes |-> proc[p].episodes,
                        outcomes |-> proc[p].outcomes]]
                 /\ applied' = [applied EXCEPT ![proc[p].job] = @ + 1]
                 /\ jobs' = jobs
  <1>1. ASSUME NEW p \in Processor, ProcessorNext(p)
        PROVE  \/ UNCHANGED <<receipts, applied>>
               \/ \E reply \in {"done", "failed"} : EngineCommit(p, reply)
    BY <1>1 DEF ProcessorNext, Lease, LeaseCollecting, LeaseFrozen, EngineStep,
       EngineSnapshot, WorkerAnswers, EngineReplay, EngineFails,
       Complete, Retry, LeaseLost, Crash, EndProc
  <1>2. ASSUME NEW i \in Intake, IntakeNext(i)
        PROVE  UNCHANGED <<receipts, applied>>
    BY <1>2 DEF IntakeNext, EnqueueStep, IntakeBegin, EnqueueSelect,
       EnqueueLock, EnqueueInsert, EnqueueExtend, EnqueueConflict,
       EnqueueReselect, EnqueueRelock, IntakeAbort, StepTx, CommitIntake
  <1>3. ASSUME TimeNext PROVE UNCHANGED <<receipts, applied>>
    BY <1>3 DEF TimeNext, LeaseExpires, RetryDelayElapses, QuietPeriodElapses, Tick
  <1>4. ASSUME NEW p \in Processor, NEW reply \in {"done", "failed"},
               EngineCommit(p, reply)
        PROVE  /\ proc[p].pc # "idle"
               /\ ~receipts[proc[p].job].committed
               /\ receipts' = [receipts EXCEPT ![proc[p].job] =
                       [committed |-> TRUE, episodes |-> proc[p].episodes,
                        outcomes |-> proc[p].outcomes]]
               /\ applied' = [applied EXCEPT ![proc[p].job] = @ + 1]
               /\ jobs' = jobs
    BY <1>4 DEF EngineCommit, StepProc
  <1> QED
    BY <1>1, <1>2, <1>3, <1>4 DEF Next, vars

\* Only Complete completes a Job, and only after the engine reported success.
LEMMA CompletedHasReceipt ==
    ASSUME TypeInv, ProcWindows, [Next]_vars, NEW j \in JobOrder,
           jobs[j].state # "completed", jobs'[j].state = "completed"
    PROVE  receipts[j].committed /\ receipts' = receipts
  <1>1. ASSUME NEW p \in Processor, Complete(p)
        PROVE  receipts[j].committed /\ receipts' = receipts
    <2>1. proc[p].job \in JobOrder /\ jobs \in [JobOrder -> Job]
      BY <1>1 DEF Complete, TypeInv, TypeOK, ProcJobs
    <2>2. \A k \in JobOrder : k # proc[p].job => jobs'[k] = jobs[k]
      BY <1>1, <2>1 DEF Complete
    <2>3. j = proc[p].job
      BY <2>2
    <2> QED
      BY <1>1, <2>3 DEF Complete, EndProc, ProcWindows
  <1>2. ASSUME NEW p \in Processor, Retry(p)
        PROVE  FALSE
    <2>1. proc[p].job \in JobOrder /\ jobs \in [JobOrder -> Job]
      BY <1>2 DEF Retry, TypeInv, TypeOK, ProcJobs
    <2>2. jobs'[j].state = jobs[j].state
      BY <1>2, <2>1 DEF Retry, Job
    <2> QED
      BY <2>2
  <1>3. ASSUME NEW p \in Processor, NEW l \in JobOrder, LeaseFrozen(p, l)
        PROVE  FALSE
    <2>1. jobs \in [JobOrder -> Job]
      BY DEF TypeInv, TypeOK
    <2>2. jobs'[j].state = jobs[j].state
      BY <1>3, <2>1 DEF LeaseFrozen, Job
    <2> QED
      BY <2>2
  <1>4. ASSUME NEW p \in Processor, NEW l \in JobOrder, LeaseCollecting(p, l)
        PROVE  FALSE
    <2>1. PICK window, rest, inside, outside :
             FreezeWrites(p, l, window, inside, rest, outside)
      BY <1>4, LeaseRows
    <2>2. /\ jobs'[l].state = "frozen"
          /\ \A k \in JobOrder : k # l /\ k # nextOrder => jobs'[k] = jobs[k]
          /\ nextOrder \in JobOrder /\ nextOrder # l =>
                \/ jobs'[nextOrder] = jobs[nextOrder]
                \/ jobs'[nextOrder].state = "collecting"
      BY <2>1 DEF FreezeWrites, NewJob
    <2> QED
      BY <2>2
  <1>5. ASSUME NEW p \in Processor, EngineStep(p) \/ LeaseLost(p) \/ Crash(p)
        PROVE  FALSE
    BY <1>5 DEF EngineStep, EngineSnapshot, WorkerAnswers, EngineReplay, EngineCommit,
       EngineFails, StepProc, LeaseLost, Crash
  <1>6. ASSUME NEW i \in Intake, IntakeNext(i)
        PROVE  FALSE
    <2>1. ASSUME EnqueueInsert(i) PROVE FALSE
      <3>1. /\ jobs'[nextOrder] = NewJob(TxOwner(i), <<tx[i].episode>>, EpisodeState(i))
            /\ \A k \in JobOrder : k # nextOrder => jobs'[k] = jobs[k]
        BY <2>1, InsertRows
      <3>2. jobs'[nextOrder].state = "collecting"
        BY <3>1 DEF NewJob
      <3> QED
        BY <3>1, <3>2
    <2>2. ASSUME EnqueueExtend(i) PROVE FALSE
      BY <2>2, ExtendRows
    <2> QED
      BY <1>6, <2>1, <2>2 DEF IntakeNext, EnqueueStep, IntakeBegin, EnqueueSelect,
         EnqueueLock, EnqueueConflict, EnqueueReselect, EnqueueRelock, IntakeAbort, StepTx
  <1>7. ASSUME TimeNext PROVE FALSE
    <2>1. PICK l \in JobOrder :
            LeaseExpires(l) \/ RetryDelayElapses(l) \/ QuietPeriodElapses(l)
      BY <1>7 DEF TimeNext
    <2>2. jobs[l] \in Job /\ jobs \in [JobOrder -> Job]
      BY DEF TypeInv, TypeOK
    <2>3. /\ [jobs[l] EXCEPT !.leased = FALSE].state = jobs[l].state
          /\ [jobs[l] EXCEPT !.due = TRUE].state = jobs[l].state
          /\ [jobs[l] EXCEPT !.quiet = TRUE].state = jobs[l].state
      BY <2>2 DEF Job
    <2>4. PICK job : job.state = jobs[l].state /\ Tick(l, job)
      BY <2>1, <2>3 DEF LeaseExpires, RetryDelayElapses, QuietPeriodElapses
    <2> QED
      BY <2>2, <2>4 DEF Tick
  <1> QED
    BY <1>1, <1>2, <1>3, <1>4, <1>5, <1>6, <1>7 DEF Next, vars, ProcessorNext, Lease

LEMMA NextEffectInv ==
    ASSUME TypeInv, LockedRows, EffectInv, [Next]_vars
    PROVE  EffectInv'
  <1>1. RowsFixed /\ TypeInv'
    BY NextRowsFixed, NextTypeInv
  <1>2. \A j \in JobOrder : receipts[j].committed => receipts'[j] = receipts[j]
    <2>1. receipts \in [JobOrder -> Receipt]
      BY DEF TypeInv, TypeOK
    <2>2. ASSUME NEW p \in Processor, ~receipts[proc[p].job].committed,
                 receipts' = [receipts EXCEPT ![proc[p].job] =
                       [committed |-> TRUE, episodes |-> proc[p].episodes,
                        outcomes |-> proc[p].outcomes]],
                 NEW j \in JobOrder, receipts[j].committed
          PROVE  receipts'[j] = receipts[j]
      <3>1. j # proc[p].job
        BY <2>2
      <3> QED
        BY <2>1, <2>2, <3>1
    <2>3. CASE receipts' = receipts
      BY <2>3
    <2>4. CASE \E p \in Processor :
                 /\ ~receipts[proc[p].job].committed
                 /\ receipts' = [receipts EXCEPT ![proc[p].job] =
                       [committed |-> TRUE, episodes |-> proc[p].episodes,
                        outcomes |-> proc[p].outcomes]]
      BY <2>2, <2>4
    <2> QED
      BY <2>3, <2>4, ReceiptStep
  <1>3. ProcWindows'
    <2> SUFFICES ASSUME NEW q \in Processor, proc'[q].pc # "idle"
                 PROVE  /\ proc'[q].episodes = jobs'[proc'[q].job].episodes
                        /\ proc'[q].outcomes = jobs'[proc'[q].job].outcomes
                        /\ FirstInQueue(proc[q].job)'
                        /\ proc'[q].pc = "done" => receipts'[proc'[q].job].committed
      BY DEF ProcWindows
    <2>1. CASE /\ proc[q].pc # "idle"
               /\ proc'[q].job = proc[q].job
               /\ proc'[q].episodes = proc[q].episodes
               /\ proc'[q].outcomes = proc[q].outcomes
               /\ proc'[q].pc = "done" => \/ proc[q].pc = "done"
                                          \/ receipts'[proc[q].job].committed
      <3>1. /\ proc[q].job \in JobOrder
            /\ jobs[proc[q].job].state \in {"frozen", "completed"}
        BY <2>1 DEF TypeInv, ProcJobs
      <3>2. /\ proc[q].episodes = jobs[proc[q].job].episodes
            /\ proc[q].outcomes = jobs[proc[q].job].outcomes
            /\ FirstInQueue(proc[q].job)
            /\ proc[q].pc = "done" => receipts[proc[q].job].committed
        BY <2>1 DEF EffectInv, ProcWindows
      <3>3. /\ jobs'[proc[q].job].episodes = jobs[proc[q].job].episodes
            /\ jobs'[proc[q].job].outcomes = jobs[proc[q].job].outcomes
        BY <1>1, <3>1 DEF RowsFixed
      <3>4. PICK j \in JobOrder : j = proc[q].job
        BY <3>1
      <3>a. jobs[j].state # "none" /\ FirstInQueue(j)
        BY <3>1, <3>2, <3>4 DEF FirstInQueue
      <3>b. FirstInQueue(j)'
        BY <3>a, FirstStaysFirst
      <3>5. FirstInQueue(proc[q].job)'
        BY <2>1, <3>4, <3>b DEF FirstInQueue
      <3> QED
        BY <1>2, <2>1, <3>1, <3>2, <3>3, <3>5
    <2>2. ASSUME NEW j \in JobOrder, Ready(j), proc'[q].pc # "done",
                 proc'[q].job = j,
                 proc'[q].episodes = jobs'[j].episodes,
                 proc'[q].outcomes = jobs'[j].outcomes
          PROVE  /\ proc'[q].episodes = jobs'[proc'[q].job].episodes
                 /\ proc'[q].outcomes = jobs'[proc'[q].job].outcomes
                 /\ FirstInQueue(proc[q].job)'
                 /\ proc'[q].pc = "done" => receipts'[proc'[q].job].committed
      <3>a. jobs[j].state # "none" /\ FirstInQueue(j)
        BY <2>2, ReadyIsFirst
      <3>1. FirstInQueue(j)'
        BY <3>a, FirstStaysFirst
      <3>2. FirstInQueue(proc[q].job)'
        BY <2>2, <3>1 DEF FirstInQueue
      <3> QED
        BY <2>2, <3>2
    <2> QED
      BY <2>1, <2>2, ProcStep
  <1>4. ReceiptRows'
    <2> SUFFICES ASSUME NEW j \in JobOrder
                 PROVE  /\ applied'[j] = IF receipts'[j].committed THEN 1 ELSE 0
                        /\ receipts'[j].committed =>
                              /\ jobs'[j].state \in {"frozen", "completed"}
                              /\ receipts'[j].episodes = jobs'[j].episodes
                              /\ receipts'[j].outcomes = jobs'[j].outcomes
                              /\ FirstInQueue(j)'
                        /\ jobs'[j].state = "completed" => receipts'[j].committed
      BY DEF ReceiptRows
    <2>1. /\ applied[j] = IF receipts[j].committed THEN 1 ELSE 0
          /\ receipts[j].committed =>
                /\ jobs[j].state \in {"frozen", "completed"}
                /\ receipts[j].episodes = jobs[j].episodes
                /\ receipts[j].outcomes = jobs[j].outcomes
                /\ FirstInQueue(j)
          /\ jobs[j].state = "completed" => receipts[j].committed
      BY DEF EffectInv, ReceiptRows
    <2>2. jobs'[j].state = "completed" => receipts[j].committed
      BY <2>1, CompletedHasReceipt DEF EffectInv
    <2>3. receipts[j].committed =>
                /\ jobs'[j].state \in {"frozen", "completed"}
                /\ receipts[j].episodes = jobs'[j].episodes
                /\ receipts[j].outcomes = jobs'[j].outcomes
                /\ FirstInQueue(j)'
      BY <1>1, <2>1, FirstStaysFirst DEF RowsFixed
    <2>4. CASE UNCHANGED <<receipts, applied>>
      BY <2>1, <2>2, <2>3, <2>4
    <2>5. ASSUME NEW p \in Processor, proc[p].pc # "idle",
                 ~receipts[proc[p].job].committed,
                 receipts' = [receipts EXCEPT ![proc[p].job] =
                       [committed |-> TRUE, episodes |-> proc[p].episodes,
                        outcomes |-> proc[p].outcomes]],
                 applied' = [applied EXCEPT ![proc[p].job] = @ + 1],
                 jobs' = jobs, j = proc[p].job
          PROVE  /\ applied'[j] = 1
                 /\ receipts'[j].committed
                 /\ jobs'[j].state \in {"frozen", "completed"}
                 /\ receipts'[j].episodes = jobs'[j].episodes
                 /\ receipts'[j].outcomes = jobs'[j].outcomes
                 /\ FirstInQueue(j)'
      <3>1. jobs[j].state \in {"frozen", "completed"}
        BY <2>5 DEF TypeInv, ProcJobs
      <3>2. /\ proc[p].episodes = jobs[j].episodes
            /\ proc[p].outcomes = jobs[j].outcomes
            /\ FirstInQueue(j)
        BY <2>5 DEF EffectInv, ProcWindows
      <3>3. FirstInQueue(j)'
        BY <2>5, <3>2 DEF FirstInQueue
      <3>4. receipts'[j] = [committed |-> TRUE, episodes |-> proc[p].episodes,
                            outcomes |-> proc[p].outcomes]
        BY <2>5 DEF TypeInv, TypeOK
      <3>5. applied'[j] = 1
        BY <2>1, <2>5 DEF TypeInv, TypeOK
      <3> QED
        BY <2>5, <3>1, <3>2, <3>3, <3>4, <3>5
    <2>6. ASSUME NEW p \in Processor, proc[p].pc # "idle", j # proc[p].job,
                 receipts' = [receipts EXCEPT ![proc[p].job] =
                       [committed |-> TRUE, episodes |-> proc[p].episodes,
                        outcomes |-> proc[p].outcomes]],
                 applied' = [applied EXCEPT ![proc[p].job] = @ + 1]
          PROVE  receipts'[j] = receipts[j] /\ applied'[j] = applied[j]
      BY <2>6 DEF TypeInv, TypeOK
    <2> QED
      BY <2>1, <2>2, <2>3, <2>4, <2>5, <2>6, ReceiptStep
  <1> QED
    BY <1>3, <1>4 DEF EffectInv

LEMMA InitEffectInv == Init => EffectInv
  BY DEF Init, EffectInv, ProcWindows, ReceiptRows, Idle, NoReceipt, NoJob

\* The changes of an owner's windows are committed in queue order, whatever
\* leases expire, processors crash or late processors still do.
THEOREM CommitsStayInOrder == Spec => []CommitsInOrder
  <1>1. TypeInv /\ LockedRows /\ [Next]_vars => LockedRows'
    BY NextLockedRows
  <1>2. TypeInv /\ LockedRows /\ EffectInv /\ [Next]_vars => EffectInv'
    BY NextEffectInv
  <1> QED
    BY <1>1, <1>2, InitTypeInv, InitLockedRows, InitEffectInv, NextTypeInv,
       EffectInvImplies, PTL DEF Spec

\* The changes of a Job are committed at most once, for its frozen window, and
\* before the Job is completed: receipt and effect share a transaction, and the
\* receipt is looked for again under the Job lock.
THEOREM EffectsHappenOnce == Spec => []EffectOnce
  <1>1. TypeInv /\ LockedRows /\ [Next]_vars => LockedRows'
    BY NextLockedRows
  <1>2. TypeInv /\ LockedRows /\ EffectInv /\ [Next]_vars => EffectInv'
    BY NextEffectInv
  <1> QED
    BY <1>1, <1>2, InitTypeInv, InitLockedRows, InitEffectInv, NextTypeInv,
       EffectInvImplies, PTL DEF Spec

-----------------------------------------------------------------------------
(* Evidence *)

LEMMA AppendUniqueElements ==
    ASSUME NEW S, NEW s \in Seq(S), NEW e \in S
    PROVE  Elements(AppendUnique(s, e)) = Elements(s) \cup {e}
  <1>1. CASE e \in Elements(s)
    BY <1>1 DEF AppendUnique
  <1>2. CASE e \notin Elements(s)
    <2>1. Append(s, e) \in Seq(S) /\ Len(Append(s, e)) = Len(s) + 1
      OBVIOUS
    <2>2. /\ Append(s, e)[Len(s) + 1] = e
          /\ \A n \in 1..Len(s) : Append(s, e)[n] = s[n]
      OBVIOUS
    <2>3. /\ DOMAIN s = 1..Len(s) /\ Len(s) \in Nat
          /\ DOMAIN Append(s, e) = 1..(Len(s) + 1)
      BY <2>1
    <2>4. Elements(Append(s, e)) = Elements(s) \cup {e}
      BY <2>2, <2>3 DEF Elements
    <2> QED
      BY <1>2, <2>4 DEF AppendUnique
  <1> QED
    BY <1>1, <1>2

\* The whole overlap is in the window: it is shorter than a window.
LEMMA OverlapInWindow ==
    ASSUME NEW S, NEW prev \in Seq(S), NEW fresh \in Seq(S), NEW n \in Nat,
           Len(prev) <= n
    PROVE  Elements(prev) \subseteq Elements(FirstRefs(prev \o fresh, n))
  <1> DEFINE all == prev \o fresh
  <1>1. /\ all \in Seq(S) /\ Len(all) = Len(prev) + Len(fresh)
        /\ Len(prev) \in Nat /\ Len(fresh) \in Nat
        /\ DOMAIN prev = 1..Len(prev)
        /\ \A m \in 1..Len(prev) : all[m] = prev[m]
    OBVIOUS
  <1> HIDE DEF all
  <1>2. CASE Len(all) > n
    <2>1. /\ DOMAIN SubSeq(all, 1, n) = 1..n
          /\ \A m \in 1..n : SubSeq(all, 1, n)[m] = all[m]
      BY <1>1, <1>2
    <2>2. ASSUME NEW m \in DOMAIN prev
          PROVE  m \in DOMAIN SubSeq(all, 1, n) /\ SubSeq(all, 1, n)[m] = prev[m]
      BY <1>1, <2>1
    <2>3. Elements(prev) \subseteq Elements(SubSeq(all, 1, n))
      BY <2>2 DEF Elements
    <2> QED
      BY <1>2, <2>3 DEF FirstRefs, all
  <1>3. CASE ~(Len(all) > n)
    <2>1. DOMAIN all = 1..Len(all)
      BY <1>1
    <2>2. ASSUME NEW m \in DOMAIN prev
          PROVE  m \in DOMAIN all /\ all[m] = prev[m]
      BY <1>1, <2>1
    <2>3. Elements(prev) \subseteq Elements(all)
      BY <2>2 DEF Elements
    <2> QED
      BY <1>3, <2>3 DEF FirstRefs, all
  <1> QED
    BY <1>2, <1>3

LEMMA LastRefsLen ==
    ASSUME NEW S, NEW s \in Seq(S), NEW n \in Nat
    PROVE  Len(LastRefs(s, n)) <= n
  <1>1. CASE Len(s) > n
    <2>1. Len(SubSeq(s, Len(s) - n + 1, Len(s))) = n
      BY <1>1
    <2> QED
      BY <1>1, <2>1 DEF LastRefs
  <1>2. CASE ~(Len(s) > n)
    BY <1>2 DEF LastRefs
  <1> QED
    BY <1>1, <1>2

LEMMA PreviousLen ==
    ASSUME TypeOK, NEW w \in Owner
    PROVE  /\ Len(PreviousEpisodes(w)) <= OverlapLimit
           /\ Len(PreviousEpisodes(w)) <= MaxEpisodes
  <1>1. lastDone[w] # 0 => jobs[lastDone[w]].episodes \in Seq(Episode)
    BY ModelBounds DEF TypeOK, Job
  <1>2. lastDone[w] # 0 => Len(PreviousEpisodes(w)) <= OverlapLimit
    BY <1>1, LastRefsLen, OverlapLimitType DEF PreviousEpisodes
  <1>3. lastDone[w] = 0 => Len(PreviousEpisodes(w)) = 0
    BY DEF PreviousEpisodes
  <1>4. PreviousEpisodes(w) \in Seq(Episode)
    BY PreviousType
  <1> QED
    BY <1>2, <1>3, <1>4, OverlapLimitType, WindowBounds

\* Every Outcome in a Job is a committed one and has its Episode there with it.
SelfContained ==
    \A j \in JobOrder : PartitionOK(jobs[j].outcomes, Elements(jobs[j].episodes))

LEMMA SelfContainedImplies == TypeInv /\ SelfContained => LeaseNeverWedged
  <1> SUFFICES ASSUME TypeInv, SelfContained,
                      NEW j \in JobOrder, jobs[j].state = "collecting"
               PROVE  PartitionsOK(j)
    BY DEF LeaseNeverWedged
  <1> DEFINE w == jobs[j].owner
  <1>1. w \in Owner
    BY DEF TypeInv, TypeOK, JobRows
  <1>2. lastDone[w] # 0 => lastDone[w] \in JobOrder
    BY <1>1, ModelBounds DEF TypeInv, TypeOK
  <1>3. lastDone[w] # 0 => PartitionOK(PreviousOutcomes(w),
                                       Elements(jobs[lastDone[w]].episodes))
    BY <1>2 DEF SelfContained, PartitionOK, PreviousOutcomes
  <1>4. \A o \in PreviousOutcomes(w) : o \in outcomes
    BY <1>2 DEF SelfContained, PartitionOK, PreviousOutcomes
  <1>5. PartitionOK(CandidateOutcomes(j),
                    Elements(PreviousEpisodes(w)) \cup Elements(jobs[j].episodes))
    BY <1>4 DEF SelfContained, PartitionOK, CandidateOutcomes, OverlapOutcomes
  <1> QED
    BY <1>3, <1>5 DEF PartitionsOK

\* A freeze splits the collected evidence without loss: each Episode goes to the
\* window or to the remainder, and each Outcome goes with its Episode.
LEMMA FreezeSplits ==
    ASSUME TypeInv, SelfContained, NEW p \in Processor, NEW j \in JobOrder,
           jobs[j].owner \in Owner,
           NEW window \in Seq(Episode), NEW rest \in Seq(Episode),
           NEW inside, NEW outside,
           IsFreeze(p, j, window, inside, rest, outside)
    PROVE  /\ Elements(jobs[j].episodes) \subseteq Elements(window) \cup Elements(rest)
           /\ jobs[j].outcomes \subseteq inside \cup outside
           /\ \A o \in inside : o \in outcomes /\ EpisodeOf[o] \in Elements(window)
           /\ \A o \in outside : o \in outcomes /\ EpisodeOf[o] \in Elements(rest)
  <1> DEFINE w == jobs[j].owner
             prev == PreviousEpisodes(w)
  <1>1. PICK fresh \in Filtered(jobs[j].episodes, Episode \ Elements(prev)) :
          window = FirstRefs(prev \o fresh, MaxEpisodes)
    BY DEF IsFreeze
  <1>2. /\ Elements(rest) = Elements(jobs[j].episodes) \cap (Episode \ Elements(window))
        /\ inside = InWindow(CandidateOutcomes(j), window)
        /\ outside = CandidateOutcomes(j) \ inside
    BY DEF IsFreeze
  <1>3. jobs[j].episodes \in Seq(Episode)
    BY DEF TypeInv, TypeOK, Job
  <1>4. Elements(prev) \subseteq Elements(window)
    <2>1. fresh \in Seq(Episode)
      BY <1>3, FilteredType
    <2>2. prev \in Seq(Episode) /\ Len(prev) <= MaxEpisodes
      BY PreviousType, PreviousLen DEF TypeInv
    <2> HIDE DEF prev
    <2> QED
      BY <1>1, <2>1, <2>2, OverlapInWindow, WindowBounds
  <1>5. Elements(jobs[j].episodes) \subseteq Episode
    BY <1>3, ElementsType
  <1>6. \A o \in CandidateOutcomes(j) : o \in outcomes
    <2>1. lastDone[w] # 0 => lastDone[w] \in JobOrder
      BY ModelBounds DEF TypeInv, TypeOK
    <2>2. \A o \in PreviousOutcomes(w) : o \in outcomes
      BY <2>1 DEF SelfContained, PartitionOK, PreviousOutcomes
    <2> QED
      BY <2>2 DEF SelfContained, PartitionOK, CandidateOutcomes, OverlapOutcomes
  <1>7. \A o \in inside : o \in outcomes /\ EpisodeOf[o] \in Elements(window)
    BY <1>2, <1>6 DEF InWindow
  <1>8. ASSUME NEW o \in outside
        PROVE  o \in outcomes /\ EpisodeOf[o] \in Elements(rest)
    <2>1. o \in CandidateOutcomes(j) /\ EpisodeOf[o] \notin Elements(window)
      BY <1>2 DEF InWindow
    <2>2. o \in jobs[j].outcomes
      BY <1>4, <2>1 DEF CandidateOutcomes, OverlapOutcomes
    <2>3. EpisodeOf[o] \in Elements(jobs[j].episodes)
      BY <2>2 DEF SelfContained, PartitionOK
    <2> QED
      BY <1>2, <1>5, <1>6, <2>1, <2>3
  <1> QED
    BY <1>2, <1>5, <1>7, <1>8 DEF CandidateOutcomes

\* Evidence is committed together with the row that holds it.
LEMMA EvidenceStep ==
    ASSUME TypeInv, [Next]_vars
    PROVE  \/ \E i \in Intake : EnqueueInsert(i) \/ EnqueueExtend(i)
           \/ UNCHANGED <<episodes, outcomes>>
  <1>1. ASSUME NEW i \in Intake, IntakeNext(i)
        PROVE  \/ EnqueueInsert(i) \/ EnqueueExtend(i)
               \/ UNCHANGED <<episodes, outcomes>>
    BY <1>1 DEF IntakeNext, EnqueueStep, IntakeBegin, EnqueueSelect, EnqueueLock,
       EnqueueConflict, EnqueueReselect, EnqueueRelock, IntakeAbort, StepTx
  <1>2. ASSUME NEW p \in Processor, ProcessorNext(p)
        PROVE  UNCHANGED <<episodes, outcomes>>
    BY <1>2 DEF ProcessorNext, Lease, LeaseCollecting, LeaseFrozen, EngineStep,
       EngineSnapshot, WorkerAnswers, EngineReplay, EngineCommit, EngineFails,
       StepProc, Complete, Retry, LeaseLost, Crash, EndProc
  <1>3. ASSUME TimeNext PROVE UNCHANGED <<episodes, outcomes>>
    BY <1>3 DEF TimeNext, LeaseExpires, RetryDelayElapses, QuietPeriodElapses, Tick
  <1> QED
    BY <1>1, <1>2, <1>3 DEF Next, vars

BlankRows ==
    \A j \in JobOrder : jobs[j].state = "none" =>
        Elements(jobs[j].episodes) = {} /\ jobs[j].outcomes = {}

EvidenceInv == SelfContained /\ BlankRows /\ EvidenceNeverLost

LEMMA InitEvidenceInv == Init => EvidenceInv
  <1>1. Elements(<<>>) = {}
    BY DEF Elements
  <1> QED
    BY <1>1 DEF Init, EvidenceInv, SelfContained, PartitionOK, BlankRows,
       EvidenceNeverLost, NoJob

\* Evidence survives a step that moves the contents of each row to some row.
LEMMA NothingLost ==
    ASSUME EvidenceNeverLost, SelfContained',
           \A j \in JobOrder : \A e \in Elements(jobs[j].episodes) :
              \E k \in JobOrder : e \in Elements(jobs'[k].episodes),
           \A j \in JobOrder : \A o \in jobs[j].outcomes :
              \E k \in JobOrder : o \in jobs'[k].outcomes,
           \A e \in episodes' \ episodes :
              \E k \in JobOrder : e \in Elements(jobs'[k].episodes),
           \A o \in outcomes' \ outcomes :
              \E k \in JobOrder : o \in jobs'[k].outcomes
    PROVE  EvidenceNeverLost'
  <1>1. ASSUME NEW e \in episodes'
        PROVE  \E k \in JobOrder : e \in Elements(jobs'[k].episodes)
    BY DEF EvidenceNeverLost
  <1>2. ASSUME NEW o \in outcomes'
        PROVE  \E k \in JobOrder : o \in jobs'[k].outcomes
    BY DEF EvidenceNeverLost
  <1>3. ASSUME NEW k \in JobOrder, NEW o \in jobs'[k].outcomes
        PROVE  EpisodeOf[o] \in Elements(jobs'[k].episodes)
    BY DEF SelfContained, PartitionOK
  <1> QED
    BY <1>1, <1>2, <1>3 DEF EvidenceNeverLost

LEMMA NextEvidenceInv ==
    ASSUME TypeInv, LockedRows, EvidenceInv, [Next]_vars
    PROVE  EvidenceInv'
  <1> USE DEF PartitionOK
  <1>1. CASE SteadyRows /\ UNCHANGED <<episodes, outcomes>>
    BY <1>1 DEF SteadyRows, EvidenceInv, SelfContained, BlankRows, EvidenceNeverLost
  <1>2. ASSUME NEW i \in Intake, tx[i].pc # "idle", CommitIntake(i)
        PROVE  /\ episodes' = episodes \cup {tx[i].episode}
               /\ outcomes' = outcomes \cup tx[i].added
               /\ EpisodeState(i) \subseteq outcomes'
               /\ tx[i].added \subseteq EpisodeState(i)
               /\ \A o \in EpisodeState(i) : EpisodeOf[o] = tx[i].episode
    <2>1. /\ episodes' = episodes \cup {tx[i].episode}
          /\ outcomes' = outcomes \cup tx[i].added
          /\ tx[i].added \subseteq OutcomesOf(tx[i].episode)
      BY <1>2 DEF CommitIntake, TypeInv, TxEvidence
    <2> QED
      BY <2>1 DEF EpisodeState, OutcomesOf
  <1>3. ASSUME NEW i \in Intake, EnqueueInsert(i)
        PROVE  EvidenceInv'
    <2>1. jobs'[nextOrder] = NewJob(TxOwner(i), <<tx[i].episode>>, EpisodeState(i))
      BY <1>3, InsertRows
    <2>2. /\ nextOrder \in JobOrder /\ jobs[nextOrder].state = "none"
          /\ \A k \in JobOrder : k # nextOrder => jobs'[k] = jobs[k]
      BY <1>3, InsertRows
    <2>3. /\ jobs'[nextOrder].episodes = <<tx[i].episode>>
          /\ jobs'[nextOrder].outcomes = EpisodeState(i)
          /\ jobs'[nextOrder].state = "collecting"
      BY <2>1 DEF NewJob
    <2>4. Elements(<<tx[i].episode>>) = {tx[i].episode}
      BY DEF Elements
    <2>5. /\ episodes' = episodes \cup {tx[i].episode}
          /\ outcomes' = outcomes \cup tx[i].added
          /\ EpisodeState(i) \subseteq outcomes'
          /\ tx[i].added \subseteq EpisodeState(i)
          /\ \A o \in EpisodeState(i) : EpisodeOf[o] = tx[i].episode
      BY <1>2, <1>3 DEF EnqueueInsert
    <2>6. Elements(jobs'[nextOrder].episodes) = {tx[i].episode}
      BY <2>3, <2>4
    <2>7. SelfContained'
      BY <2>2, <2>3, <2>5, <2>6 DEF EvidenceInv, SelfContained
    <2>8. Elements(jobs[nextOrder].episodes) = {} /\ jobs[nextOrder].outcomes = {}
      BY <2>2 DEF EvidenceInv, BlankRows
    <2>9. EvidenceNeverLost'
      <3>1. EvidenceNeverLost
        BY DEF EvidenceInv
      <3>2. \A j \in JobOrder : \A e \in Elements(jobs[j].episodes) :
               \E k \in JobOrder : e \in Elements(jobs'[k].episodes)
        BY <2>2, <2>8
      <3>3. \A j \in JobOrder : \A o \in jobs[j].outcomes :
               \E k \in JobOrder : o \in jobs'[k].outcomes
        BY <2>2, <2>8
      <3>4. \A e \in episodes' \ episodes :
               \E k \in JobOrder : e \in Elements(jobs'[k].episodes)
        BY <2>2, <2>5, <2>6
      <3>5. \A o \in outcomes' \ outcomes : \E k \in JobOrder : o \in jobs'[k].outcomes
        BY <2>2, <2>3, <2>5
      <3> QED
        BY <2>7, <3>1, <3>2, <3>3, <3>4, <3>5, NothingLost
    <2>10. BlankRows'
      BY <2>2, <2>3 DEF EvidenceInv, BlankRows
    <2> QED
      BY <2>7, <2>9, <2>10 DEF EvidenceInv
  <1>4. ASSUME NEW i \in Intake, EnqueueExtend(i)
        PROVE  EvidenceInv'
    <2> DEFINE s == tx[i].seen
    <2>1. s \in JobOrder /\ jobs[s].state = "collecting" /\ jobs[s].episodes \in Seq(Episode)
      BY <1>4 DEF EnqueueExtend, LockedRows, TypeInv, TypeOK, Job
    <2>2. /\ \A k \in JobOrder : k # s => jobs'[k] = jobs[k]
          /\ jobs'[s].state = jobs[s].state
          /\ jobs'[s].episodes = AppendUnique(jobs[s].episodes, tx[i].episode)
          /\ jobs'[s].outcomes = jobs[s].outcomes \cup EpisodeState(i)
      BY <1>4, <2>1, ExtendRows
    <2>3. tx[i].episode \in Episode
      BY <1>4 DEF EnqueueExtend, TypeInv, TxEvidence
    <2>4. Elements(jobs'[s].episodes) = Elements(jobs[s].episodes) \cup {tx[i].episode}
      BY <2>1, <2>2, <2>3, AppendUniqueElements
    <2>5. /\ episodes' = episodes \cup {tx[i].episode}
          /\ outcomes' = outcomes \cup tx[i].added
          /\ EpisodeState(i) \subseteq outcomes'
          /\ tx[i].added \subseteq EpisodeState(i)
          /\ \A o \in EpisodeState(i) : EpisodeOf[o] = tx[i].episode
      BY <1>2, <1>4 DEF EnqueueExtend
    <2> HIDE DEF s
    <2>7. SelfContained'
      BY <2>1, <2>2, <2>4, <2>5 DEF EvidenceInv, SelfContained
    <2>9. EvidenceNeverLost'
      <3>1. EvidenceNeverLost
        BY DEF EvidenceInv
      <3>2. \A j \in JobOrder : \A e \in Elements(jobs[j].episodes) :
               \E k \in JobOrder : e \in Elements(jobs'[k].episodes)
        BY <2>1, <2>2, <2>4
      <3>3. \A j \in JobOrder : \A o \in jobs[j].outcomes :
               \E k \in JobOrder : o \in jobs'[k].outcomes
        BY <2>1, <2>2
      <3>4. \A e \in episodes' \ episodes :
               \E k \in JobOrder : e \in Elements(jobs'[k].episodes)
        BY <2>1, <2>4, <2>5
      <3>5. \A o \in outcomes' \ outcomes : \E k \in JobOrder : o \in jobs'[k].outcomes
        BY <2>1, <2>2, <2>5
      <3> QED
        BY <2>7, <3>1, <3>2, <3>3, <3>4, <3>5, NothingLost
    <2>10. BlankRows'
      BY <2>1, <2>2 DEF EvidenceInv, BlankRows
    <2> QED
      BY <2>7, <2>9, <2>10 DEF EvidenceInv
  <1>5. ASSUME NEW p \in Processor, NEW j \in JobOrder, LeaseCollecting(p, j)
        PROVE  EvidenceInv'
    <2>1. /\ jobs[j].owner \in Owner /\ jobs[j].state = "collecting" /\ j < nextOrder
          /\ nextOrder \in JobOrder => jobs[nextOrder].state = "none"
          /\ \E window, rest \in Seq(Episode), inside, outside \in SUBSET Outcome :
                 /\ IsFreeze(p, j, window, inside, rest, outside)
                 /\ FreezeWrites(p, j, window, inside, rest, outside)
      BY <1>5, LeaseRows
    <2>2. PICK window \in Seq(Episode), rest \in Seq(Episode),
               inside \in SUBSET Outcome, outside \in SUBSET Outcome :
                 /\ IsFreeze(p, j, window, inside, rest, outside)
                 /\ FreezeWrites(p, j, window, inside, rest, outside)
      BY <2>1
    <2>3. /\ Elements(jobs[j].episodes) \subseteq Elements(window) \cup Elements(rest)
          /\ jobs[j].outcomes \subseteq inside \cup outside
          /\ \A o \in inside : o \in outcomes /\ EpisodeOf[o] \in Elements(window)
          /\ \A o \in outside : o \in outcomes /\ EpisodeOf[o] \in Elements(rest)
      BY <2>1, <2>2, FreezeSplits DEF EvidenceInv
    <2>4. /\ jobs'[j].state = "frozen"
          /\ jobs'[j].episodes = window /\ jobs'[j].outcomes = inside
          /\ \A k \in JobOrder : k # j /\ k # nextOrder => jobs'[k] = jobs[k]
          /\ \/ /\ rest = <<>>
                /\ \A k \in JobOrder : k # j => jobs'[k] = jobs[k]
             \/ /\ nextOrder \in JobOrder
                /\ jobs'[nextOrder] = NewJob(jobs[j].owner, rest, outside)
      BY <2>2 DEF FreezeWrites
    <2>5. Elements(<<>>) = {}
      BY DEF Elements
    <2>6. j # nextOrder
      BY <2>1 DEF TypeInv, TypeOK
    <2>7. \/ /\ Elements(rest) = {} /\ outside = {}
             /\ \A k \in JobOrder : k # j => jobs'[k] = jobs[k]
          \/ /\ nextOrder \in JobOrder
             /\ jobs'[nextOrder].state = "collecting"
             /\ jobs'[nextOrder].episodes = rest
             /\ jobs'[nextOrder].outcomes = outside
      BY <2>3, <2>4, <2>5 DEF NewJob
    <2>8. episodes' = episodes /\ outcomes' = outcomes
      BY <1>5 DEF LeaseCollecting
    <2>9. nextOrder \in JobOrder =>
             Elements(jobs[nextOrder].episodes) = {} /\ jobs[nextOrder].outcomes = {}
      BY <2>1 DEF EvidenceInv, BlankRows
    <2>10. SelfContained'
      BY <2>3, <2>4, <2>6, <2>7, <2>8 DEF EvidenceInv, SelfContained
    <2>11. EvidenceNeverLost'
      <3>1. EvidenceNeverLost
        BY DEF EvidenceInv
      <3>2. \A k \in JobOrder : \A e \in Elements(jobs[k].episodes) :
               \E l \in JobOrder : e \in Elements(jobs'[l].episodes)
        BY <2>3, <2>4, <2>6, <2>7, <2>9
      <3>3. \A k \in JobOrder : \A o \in jobs[k].outcomes :
               \E l \in JobOrder : o \in jobs'[l].outcomes
        BY <2>3, <2>4, <2>6, <2>7, <2>9
      <3> QED
        BY <2>8, <2>10, <3>1, <3>2, <3>3, NothingLost
    <2>12. BlankRows'
      BY <2>4, <2>6, <2>7 DEF EvidenceInv, BlankRows
    <2> QED
      BY <2>10, <2>11, <2>12 DEF EvidenceInv
  <1> QED
    BY <1>1, <1>3, <1>4, <1>5, StepCases, EvidenceStep

\* No error of partitionConsolidationOutcomes can stop an owner's queue: every
\* collecting Job can be frozen, with whatever overlap it carries over.
THEOREM LeaseIsNeverWedged == Spec => []LeaseNeverWedged
  <1>1. TypeInv /\ LockedRows /\ [Next]_vars => LockedRows'
    BY NextLockedRows
  <1>2. TypeInv /\ LockedRows /\ EvidenceInv /\ [Next]_vars => EvidenceInv'
    BY NextEvidenceInv
  <1>3. TypeInv /\ EvidenceInv => LeaseNeverWedged
    BY SelfContainedImplies DEF EvidenceInv
  <1> QED
    BY <1>1, <1>2, <1>3, InitTypeInv, InitLockedRows, InitEvidenceInv, NextTypeInv,
       PTL DEF Spec

\* Committed evidence is in the queue for good, each Outcome with its Episode,
\* through every split of a window that is too large.
THEOREM EvidenceIsNeverLost == Spec => []EvidenceNeverLost
  <1>1. TypeInv /\ LockedRows /\ [Next]_vars => LockedRows'
    BY NextLockedRows
  <1>2. TypeInv /\ LockedRows /\ EvidenceInv /\ [Next]_vars => EvidenceInv'
    BY NextEvidenceInv
  <1>3. EvidenceInv => EvidenceNeverLost
    BY DEF EvidenceInv
  <1> QED
    BY <1>1, <1>2, <1>3, InitTypeInv, InitLockedRows, InitEvidenceInv, NextTypeInv,
       PTL DEF Spec

-----------------------------------------------------------------------------
(* Freezes make progress *)

Distinct(s) == \A m, n \in DOMAIN s : s[m] = s[n] => m = n

\* What is filtered from a list of distinct refs is one, and shorter if a ref is left out.
LEMMA FilteredDistinct ==
    ASSUME NEW S, NEW s \in Seq(S), Distinct(s), NEW keep, NEW t \in Filtered(s, keep)
    PROVE  /\ Distinct(t)
           /\ \A e \in Elements(s) : e \notin keep => Len(t) < Len(s)
  <1>1. PICK n \in 0..Len(s) : t \in [1..n -> Elements(s)]
    BY DEF Filtered
  <1>2. DOMAIN t = 1..n /\ DOMAIN s = 1..Len(s) /\ Len(s) \in Nat /\ n \in Nat
    BY <1>1
  <1>3. Distinct(t)
    <2>1. \A k, m \in DOMAIN t : k < m =>
             \E i, j \in DOMAIN s : i < j /\ s[i] = t[k] /\ s[j] = t[m]
      BY DEF Filtered
    <2>2. ASSUME NEW k \in DOMAIN t, NEW m \in DOMAIN t, k < m PROVE t[k] # t[m]
      <3>1. PICK i \in DOMAIN s, j \in DOMAIN s : i < j /\ s[i] = t[k] /\ s[j] = t[m]
        BY <2>1, <2>2
      <3>2. i # j
        BY <1>2, <3>1
      <3> QED BY <3>1, <3>2 DEF Distinct
    <2>3. \A k, m \in DOMAIN t : k # m => k < m \/ m < k
      BY <1>2
    <2> QED BY <2>2, <2>3 DEF Distinct
  <1>4. ASSUME NEW e \in Elements(s), e \notin keep PROVE Len(t) < Len(s)
    <2>1. PICK i \in DOMAIN s : s[i] = e
      BY DEF Elements
    <2>2. \A m \in 1..n : t[m] \in Elements(s) /\ t[m] # e
      <3>1. Elements(t) = Elements(s) \cap keep
        BY DEF Filtered
      <3>2. \A m \in 1..n : t[m] \in Elements(t)
        BY <1>2 DEF Elements
      <3> QED BY <1>4, <3>1, <3>2
    <2> DEFINE at == [m \in 1..n |-> CHOOSE k \in DOMAIN s : s[k] = t[m]]
               others == (1..Len(s)) \ {i}
    <2>3. \A m \in 1..n : at[m] \in DOMAIN s /\ s[at[m]] = t[m]
      BY <2>2 DEF Elements
    <2>4. at \in [1..n -> others]
      BY <1>2, <2>1, <2>2, <2>3
    <2>5. \A k, m \in 1..n : at[k] = at[m] => k = m
      BY <1>2, <1>3, <2>3 DEF Distinct
    <2> HIDE DEF at
    <2>6. at \in Injection(1..n, others)
      BY <2>4, <2>5 DEF Injection, IsInjective
    <2>7. IsFiniteSet(others) /\ Cardinality(others) = Len(s) - 1
      <3>1. PICK l \in Nat : l = Len(s)
        BY <1>2
      <3>2. IsFiniteSet(1..l) /\ Cardinality(1..l) = l
        BY FS_Interval
      <3>3. i \in 1..l
        BY <1>2, <3>1
      <3>4. IsFiniteSet((1..l) \ {i}) /\ Cardinality((1..l) \ {i}) = l - 1
        BY <3>2, <3>3, FS_RemoveElement, ZenonT(30)
      <3> QED BY <3>1, <3>4
    <2>8. Cardinality(1..n) = n
      BY <1>2, FS_Interval
    <2>9. n <= Len(s) - 1
      BY <2>6, <2>7, <2>8, FS_Injection
    <2>10. Len(t) = n
      BY <1>1, <1>2
    <2> QED BY <1>2, <2>9, <2>10
  <1> QED BY <1>3, <1>4

LEMMA AppendUniqueDistinct ==
    ASSUME NEW S, NEW s \in Seq(S), Distinct(s), NEW e \in S
    PROVE  Distinct(AppendUnique(s, e)) /\ AppendUnique(s, e) # <<>>
  <1>1. CASE e \in Elements(s)
    BY <1>1 DEF AppendUnique, Elements
  <1>2. CASE e \notin Elements(s)
    <2>1. Append(s, e) \in Seq(S) /\ Len(Append(s, e)) = Len(s) + 1
      OBVIOUS
    <2>2. /\ Append(s, e)[Len(s) + 1] = e
          /\ \A n \in 1..Len(s) : Append(s, e)[n] = s[n]
      OBVIOUS
    <2>3. /\ DOMAIN s = 1..Len(s) /\ Len(s) \in Nat
          /\ DOMAIN Append(s, e) = 1..(Len(s) + 1)
      BY <2>1
    <2>4. \A n \in 1..Len(s) : s[n] # e
      BY <1>2, <2>3 DEF Elements
    <2>5. \A n \in 1..(Len(s) + 1) : n \in 1..Len(s) \/ n = Len(s) + 1
      BY <2>3
    <2>6. Distinct(Append(s, e))
      BY <2>2, <2>3, <2>4, <2>5 DEF Distinct
    <2>7. Append(s, e) # <<>>
      BY <2>1, <2>3
    <2> QED BY <1>2, <2>6, <2>7 DEF AppendUnique
  <1> QED BY <1>1, <1>2

\* A collecting row holds Episodes, and none of them twice.
CollectingLists ==
    \A j \in JobOrder : jobs[j].state = "collecting" =>
        jobs[j].episodes # <<>> /\ Distinct(jobs[j].episodes)

\* A freeze takes at least one Episode out of the collecting list: the overlap is
\* shorter than the window, and an Episode of the overlap is not collected again.
LEMMA FreezeTakes ==
    ASSUME TypeInv, CollectingLists, NEW p \in Processor, NEW j \in JobOrder,
           jobs[j].state = "collecting", jobs[j].owner \in Owner,
           NEW window \in Seq(Episode), NEW rest \in Seq(Episode), NEW inside, NEW outside,
           IsFreeze(p, j, window, inside, rest, outside)
    PROVE  /\ Len(window) <= MaxEpisodes
           /\ Distinct(rest) /\ Len(rest) < Len(jobs[j].episodes)
  <1> DEFINE prev == PreviousEpisodes(jobs[j].owner)
  <1>1. PICK fresh \in Filtered(jobs[j].episodes, Episode \ Elements(prev)) :
          window = FirstRefs(prev \o fresh, MaxEpisodes)
    BY DEF IsFreeze
  <1>2. PICK eps : eps = jobs[j].episodes
    OBVIOUS
  <1>3. eps \in Seq(Episode) /\ eps # <<>> /\ Distinct(eps)
    BY <1>2 DEF TypeInv, TypeOK, Job, CollectingLists
  <1>4. fresh \in Seq(Episode) /\ Elements(fresh) = Elements(eps) \cap (Episode \ Elements(prev))
    BY <1>2, <1>3, FilteredType
  <1>5. prev \in Seq(Episode) /\ Len(prev) <= OverlapLimit
    BY PreviousType, PreviousLen DEF TypeInv
  <1>6. OverlapLimit \in Nat /\ MaxEpisodes \in Nat /\ OverlapLimit < MaxEpisodes
    BY OverlapLimitType, WindowBounds
  <1> HIDE DEF prev
  <1>7. Len(window) <= MaxEpisodes
    BY <1>1, <1>4, <1>5, <1>6 DEF FirstRefs
  <1>8. \E e \in Elements(eps) : e \in Elements(window)
    <2>1. CASE fresh = <<>>
      <3>1. Elements(fresh) = {}
        BY <2>1 DEF Elements
      <3>2. eps[1] \in Elements(eps) /\ eps[1] \in Episode
        BY <1>3 DEF Elements
      <3>3. eps[1] \in Elements(prev)
        BY <1>4, <3>1, <3>2
      <3>4. Elements(prev) \subseteq Elements(window)
        BY <1>1, <1>4, <1>5, <1>6, OverlapInWindow
      <3> QED BY <3>2, <3>3, <3>4
    <2>2. CASE fresh # <<>>
      <3> DEFINE all == prev \o fresh
                 k == Len(prev) + 1
      <3>1. /\ all \in Seq(Episode) /\ Len(all) = Len(prev) + Len(fresh)
            /\ Len(prev) \in Nat /\ Len(fresh) \in Nat
        BY <1>4, <1>5
      <3>2. Len(fresh) # 0 /\ 1 \in DOMAIN fresh
        BY <1>4, <2>2
      <3>3. k \in 1..Len(all) /\ k \in 1..MaxEpisodes
        BY <1>5, <1>6, <3>1, <3>2
      <3>4. all[k] = fresh[1]
        BY <1>4, <1>5, <3>1, <3>2
      <3>5. fresh[1] \in Elements(eps)
        BY <1>4, <3>2 DEF Elements
      <3> HIDE DEF all, k
      <3>6. k \in DOMAIN window /\ window[k] = all[k]
        <4>1. CASE Len(all) > MaxEpisodes
          <5>1. /\ DOMAIN SubSeq(all, 1, MaxEpisodes) = 1..MaxEpisodes
                /\ \A m \in 1..MaxEpisodes : SubSeq(all, 1, MaxEpisodes)[m] = all[m]
            BY <1>6, <3>1, <4>1
          <5> QED BY <1>1, <3>3, <4>1, <5>1 DEF FirstRefs, all
        <4>2. CASE ~(Len(all) > MaxEpisodes)
          <5>1. window = all
            BY <1>1, <4>2 DEF FirstRefs, all
          <5> QED BY <3>1, <3>3, <5>1
        <4> QED BY <4>1, <4>2
      <3>7. all[k] \in Elements(window)
        BY <3>6 DEF Elements
      <3> QED BY <3>4, <3>5, <3>7
    <2> QED BY <2>1, <2>2
  <1>9. rest \in Filtered(eps, Episode \ Elements(window))
    BY <1>2 DEF IsFreeze
  <1>10. Distinct(rest) /\ \A e \in Elements(eps) :
            e \notin Episode \ Elements(window) => Len(rest) < Len(eps)
    BY <1>3, <1>9, FilteredDistinct
  <1> QED BY <1>2, <1>7, <1>8, <1>10

LEMMA NextCollectingLists ==
    ASSUME TypeInv, LockedRows, CollectingLists, [Next]_vars
    PROVE  CollectingLists'
  <1>1. CASE SteadyRows
    BY <1>1 DEF SteadyRows, CollectingLists
  <1>2. ASSUME NEW i \in Intake, EnqueueInsert(i) PROVE CollectingLists'
    <2>1. /\ jobs'[nextOrder] = NewJob(TxOwner(i), <<tx[i].episode>>, EpisodeState(i))
          /\ \A k \in JobOrder : k # nextOrder => jobs'[k] = jobs[k]
      BY <1>2, InsertRows
    <2>2. jobs'[nextOrder].episodes = <<tx[i].episode>>
      BY <2>1 DEF NewJob
    <2>3. <<tx[i].episode>> # <<>> /\ Distinct(<<tx[i].episode>>)
      BY DEF Distinct
    <2> QED BY <2>1, <2>2, <2>3 DEF CollectingLists
  <1>3. ASSUME NEW i \in Intake, EnqueueExtend(i) PROVE CollectingLists'
    <2> DEFINE s == tx[i].seen
    <2>1. s \in JobOrder /\ jobs[s].state = "collecting" /\ jobs[s].episodes \in Seq(Episode)
      BY <1>3 DEF EnqueueExtend, LockedRows, TypeInv, TypeOK, Job
    <2>2. /\ \A k \in JobOrder : k # s => jobs'[k] = jobs[k]
          /\ jobs'[s].episodes = AppendUnique(jobs[s].episodes, tx[i].episode)
      BY <1>3, <2>1, ExtendRows
    <2>3. tx[i].episode \in Episode
      BY <1>3 DEF EnqueueExtend, TypeInv, TxEvidence
    <2> HIDE DEF s
    <2>4. Distinct(jobs[s].episodes)
      BY <2>1 DEF CollectingLists
    <2>5. jobs'[s].episodes # <<>> /\ Distinct(jobs'[s].episodes)
      BY <2>1, <2>2, <2>3, <2>4, AppendUniqueDistinct
    <2> QED BY <2>2, <2>5 DEF CollectingLists
  <1>4. ASSUME NEW p \in Processor, NEW j \in JobOrder, LeaseCollecting(p, j)
        PROVE  CollectingLists'
    <2>1. /\ jobs[j].owner \in Owner /\ jobs[j].state = "collecting"
          /\ \E window, rest \in Seq(Episode), inside, outside \in SUBSET Outcome :
                 /\ IsFreeze(p, j, window, inside, rest, outside)
                 /\ FreezeWrites(p, j, window, inside, rest, outside)
      BY <1>4, LeaseRows
    <2>2. PICK window \in Seq(Episode), rest \in Seq(Episode),
               inside \in SUBSET Outcome, outside \in SUBSET Outcome :
                 /\ IsFreeze(p, j, window, inside, rest, outside)
                 /\ FreezeWrites(p, j, window, inside, rest, outside)
      BY <2>1
    <2>3. Distinct(rest)
      BY <2>1, <2>2, FreezeTakes
    <2>4. /\ jobs'[j].state = "frozen"
          /\ \A k \in JobOrder : k # j /\ k # nextOrder => jobs'[k] = jobs[k]
          /\ \/ \A k \in JobOrder : k # j => jobs'[k] = jobs[k]
             \/ jobs'[nextOrder].episodes = rest /\ rest # <<>>
      BY <2>2 DEF FreezeWrites, NewJob
    <2> QED BY <2>3, <2>4 DEF CollectingLists
  <1> QED BY <1>1, <1>2, <1>3, <1>4, StepCases

\* What FreezeMakesProgress says of a step.
Progress ==
    \A j \in JobOrder :
        jobs[j].state = "collecting" /\ jobs'[j].state = "frozen" =>
        /\ Len(jobs'[j].episodes) <= MaxEpisodes
        /\ \A k \in JobOrder :
              jobs'[k].state = "collecting" /\ jobs'[k].owner = jobs[j].owner
              => Len(jobs'[k].episodes) < Len(jobs[j].episodes)

LEMMA NextProgress ==
    ASSUME TypeInv, QueueShape, CollectingLists, [Next]_vars
    PROVE  Progress
  <1>1. CASE SteadyRows
    BY <1>1 DEF SteadyRows, Progress
  <1>2. ASSUME NEW i \in Intake, EnqueueInsert(i) PROVE Progress
    <2>1. /\ jobs[nextOrder].state = "none"
          /\ \A k \in JobOrder : k # nextOrder => jobs'[k] = jobs[k]
      BY <1>2, InsertRows
    <2> QED BY <2>1 DEF Progress
  <1>3. ASSUME NEW i \in Intake, EnqueueExtend(i) PROVE Progress
    <2>1. \A k \in JobOrder : jobs'[k].state = jobs[k].state
      BY <1>3, ExtendRows
    <2> QED BY <2>1 DEF Progress
  <1>4. ASSUME NEW p \in Processor, NEW j \in JobOrder, LeaseCollecting(p, j)
        PROVE  Progress
    <2>1. /\ jobs[j].owner \in Owner /\ jobs[j].state = "collecting" /\ j < nextOrder
          /\ nextOrder \in JobOrder => jobs[nextOrder].state = "none"
          /\ \E window, rest \in Seq(Episode), inside, outside \in SUBSET Outcome :
                 /\ IsFreeze(p, j, window, inside, rest, outside)
                 /\ FreezeWrites(p, j, window, inside, rest, outside)
      BY <1>4, LeaseRows
    <2>2. PICK window \in Seq(Episode), rest \in Seq(Episode),
               inside \in SUBSET Outcome, outside \in SUBSET Outcome :
                 /\ IsFreeze(p, j, window, inside, rest, outside)
                 /\ FreezeWrites(p, j, window, inside, rest, outside)
      BY <2>1
    <2>3. Len(window) <= MaxEpisodes /\ Len(rest) < Len(jobs[j].episodes)
      BY <2>1, <2>2, FreezeTakes
    <2>4. /\ jobs'[j].state = "frozen" /\ jobs'[j].episodes = window
          /\ \A k \in JobOrder : k # j /\ k # nextOrder => jobs'[k] = jobs[k]
          /\ \/ \A k \in JobOrder : k # j => jobs'[k] = jobs[k]
             \/ jobs'[nextOrder].episodes = rest /\ jobs'[nextOrder].state = "collecting"
      BY <2>2 DEF FreezeWrites, NewJob
    <2>5. ASSUME NEW i \in JobOrder, jobs[i].state = "collecting", jobs'[i].state = "frozen"
          PROVE  i = j
      <3>1. i # nextOrder
        BY <2>1, <2>5
      <3> QED BY <2>4, <2>5, <3>1
    <2>6. ASSUME NEW k \in JobOrder, jobs'[k].state = "collecting",
                 jobs'[k].owner = jobs[j].owner
          PROVE  k = nextOrder /\ jobs'[k].episodes = rest
      <3>1. k # j
        BY <2>4, <2>6
      <3>2. jobs'[k] # jobs[k]
        BY <2>1, <2>6, <3>1 DEF QueueShape, Incomplete
      <3> QED BY <2>4, <3>1, <3>2
    <2> QED BY <2>3, <2>4, <2>5, <2>6 DEF Progress
  <1> QED BY <1>1, <1>2, <1>3, <1>4, StepCases

\* Each freeze fills at most one window and shortens what its owner still collects,
\* for every window size and every overlap that is configured: splitting comes to an
\* end (FreezeMakesProgress).
THEOREM FreezesMakeProgress == Spec => FreezeMakesProgress
  <1>1. TypeInv /\ LockedRows /\ [Next]_vars => LockedRows'
    BY NextLockedRows
  <1>2. TypeInv /\ QueueShape /\ [Next]_vars => QueueShape'
    BY NextQueueShape
  <1>3. TypeInv /\ LockedRows /\ CollectingLists /\ [Next]_vars => CollectingLists'
    BY NextCollectingLists
  <1>4. Init => QueueShape /\ CollectingLists
    BY DEF Init, QueueShape, Incomplete, NoJob, CollectingLists
  <1>5. TypeInv /\ QueueShape /\ CollectingLists /\ [Next]_vars => Progress
    BY NextProgress
  <1>6. Progress => [Progress]_vars
    OBVIOUS
  <1> QED
    BY <1>1, <1>2, <1>3, <1>4, <1>5, InitTypeInv, InitLockedRows, NextTypeInv, PTL
       DEF Spec, FreezeMakesProgress, Progress

-----------------------------------------------------------------------------
(***************************************************************************)
(* The Worker.  A text is taken apart into what its lanes wrote: Core      *)
(* reads a block for a new Seed only where one stands in the text, and     *)
(* nothing that opens with a block of its own can make one by standing     *)
(* behind another text.                                                    *)
(***************************************************************************)
(* Texts *)

\* What holds of the empty sequence and of every sequence one longer holds of all.
LEMMA SeqInduction ==
    ASSUME NEW X, NEW G, <<>> \in G, \A s \in G \cap Seq(X), x \in X : Append(s, x) \in G
    PROVE  Seq(X) \subseteq G
<1> SUFFICES ASSUME NEW t \in Seq(X) PROVE t \in G
  OBVIOUS
<1> DEFINE H == {n \in Nat : SubSeq(t, 1, n) \in G}
<1>1. 0 \in H
  <2>1. SubSeq(t, 1, 0) = <<>>
    OBVIOUS
  <2> QED BY <2>1
<1>2. ASSUME NEW n \in 0 .. Len(t) - 1, n \in H PROVE n + 1 \in H
  <2>1. SubSeq(t, 1, n) \in Seq(X) /\ t[n + 1] \in X
    OBVIOUS
  <2>2. SubSeq(t, 1, n + 1) = Append(SubSeq(t, 1, n), t[n + 1])
    OBVIOUS
  <2>3. SubSeq(t, 1, n) \in G
    BY <1>2
  <2>4. SubSeq(t, 1, n + 1) \in G
    BY <2>1, <2>2, <2>3
  <2> QED BY <2>4
<1>3. Len(t) \in H
  <2>1. Len(t) \in Nat
    OBVIOUS
  <2> HIDE DEF H
  <2>2. 0 .. Len(t) \subseteq H
    BY <1>1, <1>2, <2>1, UpTo
  <2> QED BY <2>1, <2>2
<1>4. SubSeq(t, 1, Len(t)) = t
  OBVIOUS
<1> QED BY <1>3, <1>4

\* What FlattenSeq has put together after n of the sequences.
Flattening(g, s, S) ==
    /\ g \in [0 .. Len(s) -> Seq(S)]
    /\ g[0] = <<>>
    /\ \A n \in 1 .. Len(s) : g[n] = g[n - 1] \o s[n]

LEMMA FlattenSteps ==
    ASSUME NEW S, NEW s \in Seq(Seq(S))
    PROVE  \E g : Flattening(g, s, S) /\ FlattenSeq(s) = g[Len(s)]
<1> DEFINE L == Len(s)
           Def(f) == [i \in 1 .. L |-> IF i = 1 THEN s[i] ELSE f[i - 1] \o s[i]]
<1>0. L \in Nat /\ \A n \in 1 .. L : s[n] \in Seq(S)
  OBVIOUS
<1>1. PICK step : step = [n \in 1 .. L |-> [v \in Seq(S) |-> v \o s[n]]]
  OBVIOUS
<1>2. step \in [1 .. L -> [Seq(S) -> Seq(S)]]
  BY <1>0, <1>1
<1>3. PICK g : Built(g, L, Seq(S), <<>>, step)
  <2>1. <<>> \in Seq(S)
    OBVIOUS
  <2> QED BY <1>0, <1>2, <2>1, Recursion
<1>4. \A n \in 1 .. L : n - 1 \in 0 .. L /\ n \in 0 .. L
  BY <1>0
<1>5. Flattening(g, s, S)
  <2>1. g \in [0 .. L -> Seq(S)] /\ g[0] = <<>>
    BY <1>3 DEF Built
  <2>2. ASSUME NEW n \in 1 .. L PROVE g[n] = g[n - 1] \o s[n]
    <3>1. g[n - 1] \in Seq(S)
      BY <1>4, <2>1
    <3>2. g[n] = step[n][g[n - 1]]
      BY <1>3 DEF Built
    <3> QED BY <1>1, <3>1, <3>2
  <2> QED BY <2>1, <2>2 DEF Flattening
<1>6. \E f : f = Def(f)
  <2>1. PICK f : f = [i \in 1 .. L |-> g[i]]
    OBVIOUS
  <2>2. ASSUME NEW i \in 1 .. L PROVE f[i] = IF i = 1 THEN s[i] ELSE f[i - 1] \o s[i]
    <3>1. CASE i = 1
      <4>0. 1 \in 1 .. L /\ 1 - 1 = 0
        BY <3>1
      <4>1. g[1] = <<>> \o s[1]
        BY <1>5, <4>0 DEF Flattening
      <4>2. <<>> \o s[1] = s[1]
        BY <1>0, <3>1
      <4> QED BY <2>1, <3>1, <4>1, <4>2
    <3>2. CASE i # 1
      <4>1. i - 1 \in 1 .. L
        BY <1>0, <3>2
      <4> QED BY <1>5, <2>1, <3>2, <4>1 DEF Flattening
    <3> QED BY <3>1, <3>2
  <2>3. f = Def(f)
    BY <2>1, <2>2
  <2> QED BY <2>3
<1>7. PICK f : f = (CHOOSE h : h = Def(h)) /\ f = Def(f)
  BY <1>6
<1>12. \A i \in 1 .. L : f[i] = IF i = 1 THEN s[i] ELSE f[i - 1] \o s[i]
  BY <1>7
<1>8. L \in {n \in 0 .. L : n = 0 \/ f[n] = g[n]}
  <2> DEFINE G == {n \in 0 .. L : n = 0 \/ f[n] = g[n]}
  <2>1. 0 \in G
    BY <1>0
  <2>2. ASSUME NEW n \in 0 .. L - 1, n \in G PROVE n + 1 \in G
    <3>1. n + 1 \in 1 .. L /\ (n + 1) - 1 = n
      BY <1>0
    <3>2. f[n + 1] = IF n + 1 = 1 THEN s[n + 1] ELSE f[n] \o s[n + 1]
      BY <1>12, <3>1
    <3>3. g[n + 1] = g[n] \o s[n + 1]
      BY <1>5, <3>1 DEF Flattening
    <3>4. n = 0 => g[n] \o s[n + 1] = s[n + 1]
      BY <1>0, <1>5, <3>1 DEF Flattening
    <3>5. f[n + 1] = g[n + 1]
      <4>1. CASE n = 0
        <5>1. f[n + 1] = s[n + 1]
          BY <3>2, <4>1
        <5>2. g[n + 1] = s[n + 1]
          BY <3>3, <3>4, <4>1
        <5> QED BY <5>1, <5>2
      <4>2. CASE n # 0
        <5>1. f[n] = g[n] /\ n + 1 # 1
          BY <2>2, <4>2
        <5> QED BY <3>2, <3>3, <5>1
      <4> QED BY <4>1, <4>2
    <3> QED BY <1>0, <3>1, <3>5
  <2> HIDE DEF G
  <2>3. 0 .. L \subseteq G
    BY <1>0, <2>1, <2>2, UpTo
  <2>4. L \in G
    BY <1>0, <2>3
  <2> QED BY <2>4 DEF G
<1>9. FlattenSeq(s) = IF L = 0 THEN s ELSE f[L]
  BY <1>7 DEF FlattenSeq
<1>10. L = 0 => s = <<>> /\ g[L] = <<>>
  BY <1>5 DEF Flattening
<1>11. FlattenSeq(s) = g[L]
  BY <1>8, <1>9, <1>10
<1> QED BY <1>5, <1>11

LEMMA FlattenAppend ==
    ASSUME NEW S, NEW s \in Seq(Seq(S)), NEW x \in Seq(S)
    PROVE  /\ FlattenSeq(s) \in Seq(S)
           /\ FlattenSeq(Append(s, x)) = FlattenSeq(s) \o x
<1> DEFINE L == Len(s)
           t == Append(s, x)
<1>0. L \in Nat /\ L = Len(s) /\ t \in Seq(Seq(S)) /\ Len(t) = L + 1 /\ t[L + 1] = x
  OBVIOUS
<1>1. \A n \in 1 .. L : t[n] = s[n]
  OBVIOUS
<1>2. PICK g : Flattening(g, s, S) /\ FlattenSeq(s) = g[L]
  BY FlattenSteps
<1>3. PICK h : Flattening(h, t, S) /\ FlattenSeq(t) = h[Len(t)]
  BY <1>0, FlattenSteps
<1> HIDE DEF t, L
<1>4. 0 .. L \subseteq {n \in 0 .. L : h[n] = g[n]}
  <2> DEFINE G == {n \in 0 .. L : h[n] = g[n]}
  <2>1. 0 \in G
    BY <1>0, <1>2, <1>3 DEF Flattening
  <2>2. ASSUME NEW n \in 0 .. L - 1, n \in G PROVE n + 1 \in G
    <3>1. n + 1 \in 1 .. L /\ n + 1 \in 1 .. Len(t) /\ (n + 1) - 1 = n
      BY <1>0
    <3>2. h[n + 1] = h[n] \o t[n + 1] /\ g[n + 1] = g[n] \o s[n + 1]
      BY <1>2, <1>3, <3>1 DEF Flattening, L
    <3>3. h[n] = g[n] /\ t[n + 1] = s[n + 1]
      BY <1>1, <2>2, <3>1
    <3>4. n + 1 \in 0 .. L /\ h[n + 1] = g[n + 1]
      BY <3>1, <3>2, <3>3
    <3> QED BY <3>4
  <2> HIDE DEF G
  <2>3. 0 .. L \subseteq G
    BY <1>0, <2>1, <2>2, UpTo
  <2> QED BY <2>3 DEF G
<1>5. h[L] = g[L]
  BY <1>0, <1>4
<1>6. L + 1 \in 1 .. Len(t) /\ (L + 1) - 1 = L
  BY <1>0
<1>7. h[L + 1] = h[L] \o x
  BY <1>0, <1>3, <1>6 DEF Flattening
<1>8. g[L] \in Seq(S)
  <2>1. L \in 0 .. L
    BY <1>0
  <2> QED BY <1>2, <2>1 DEF Flattening, L
<1> QED BY <1>0, <1>2, <1>3, <1>5, <1>7, <1>8 DEF t

LEMMA FlattenEmpty == FlattenSeq(<<>>) = <<>>
  BY DEF FlattenSeq

LEMMA ConcatAppend ==
    ASSUME NEW S, NEW a \in Seq(S), NEW b \in Seq(S), NEW x \in S
    PROVE  a \o Append(b, x) = Append(a \o b, x)
<1>1. Append(b, x) = b \o <<x>> /\ Append(a \o b, x) = (a \o b) \o <<x>>
  BY AppendIsConcat, ConcatProperties
<1>2. <<x>> \in Seq(S)
  OBVIOUS
<1> QED BY <1>1, <1>2, ConcatAssociative

\* A list is its first positions and one more.
LEMMA SublistAppend ==
    ASSUME NEW S, NEW s \in Seq(S), NEW x \in S, NEW P, NEW Q,
           \A i \in 1 .. Len(s) : i \in P <=> i \in Q
    PROVE  /\ Sublist(s, P) \in Seq(S)
           /\ Sublist(Append(s, x), Q) = IF Len(s) + 1 \in Q THEN Append(Sublist(s, P), x)
                                         ELSE Sublist(s, P)
<1> DEFINE t == Append(s, x)
           E(i) == IF i \in P THEN <<s[i]>> ELSE <<>>
           F(i) == IF i \in Q THEN <<t[i]>> ELSE <<>>
           e == [i \in DOMAIN s |-> E(i)]
           f == [i \in DOMAIN t |-> F(i)]
           n == Len(s) + 1
<1>0. DOMAIN s = 1 .. Len(s) /\ DOMAIN t = 1 .. Len(s) + 1 /\ Len(s) \in Nat
  OBVIOUS
<1>1. e \in Seq(Seq(S)) /\ Len(e) = Len(s)
  <2>1. \A i \in 1 .. Len(s) : E(i) \in Seq(S)
    OBVIOUS
  <2> HIDE DEF E
  <2> QED BY <1>0, <2>1
<1>2. F(n) \in Seq(S)
  <2>1. t[n] = x
    OBVIOUS
  <2> QED BY <2>1
<1>3. f = Append(e, F(n))
  <2>1. \A i \in 1 .. Len(s) : F(i) = E(i)
    <3>1. \A i \in 1 .. Len(s) : t[i] = s[i]
      OBVIOUS
    <3> QED BY <3>1
  <2> HIDE DEF E, F
  <2>2. Append(e, F(n)) = [i \in 1 .. Len(s) + 1 |-> IF i = n THEN F(n) ELSE e[i]]
    BY <1>1
  <2> QED BY <1>0, <2>1, <2>2
<1>4. FlattenSeq(e) \in Seq(S) /\ FlattenSeq(f) = FlattenSeq(e) \o F(n)
  <2> HIDE DEF e, f, F
  <2> QED BY <1>1, <1>2, <1>3, FlattenAppend
<1>5. Sublist(s, P) = FlattenSeq(e) /\ Sublist(t, Q) = FlattenSeq(f)
  BY DEF Sublist
<1>6. CASE n \in Q
  <2>1. F(n) = <<x>>
    BY <1>6
  <2>2. FlattenSeq(e) \o <<x>> = Append(FlattenSeq(e), x)
    <3> HIDE DEF e
    <3> QED BY <1>4, AppendIsConcat
  <2> QED BY <1>4, <1>5, <1>6, <2>1, <2>2
<1>7. CASE n \notin Q
  <2>1. F(n) = <<>>
    BY <1>7
  <2>2. FlattenSeq(e) \o <<>> = FlattenSeq(e)
    <3> HIDE DEF e
    <3> QED BY <1>4, ConcatEmptySeq
  <2> QED BY <1>4, <1>5, <1>7, <2>1, <2>2
<1> QED BY <1>6, <1>7

LEMMA SublistEmpty == ASSUME NEW P PROVE Sublist(<<>>, P) = <<>>
<1>1. [i \in DOMAIN <<>> |-> IF i \in P THEN <<<<>>[i]>> ELSE <<>>] = <<>>
  OBVIOUS
<1> QED BY <1>1, FlattenEmpty DEF Sublist

\* What a sublist holds is at one of the positions.
LEMMA SublistElements ==
    ASSUME NEW S, NEW s \in Seq(S), NEW P
    PROVE  /\ Sublist(s, P) \in Seq(S)
           /\ \A k \in 1 .. Len(Sublist(s, P)) :
                 \E i \in 1 .. Len(s) : i \in P /\ Sublist(s, P)[k] = s[i]
<1> DEFINE Good(t) == /\ Sublist(t, P) \in Seq(S)
                      /\ \A k \in 1 .. Len(Sublist(t, P)) :
                            \E i \in 1 .. Len(t) : i \in P /\ Sublist(t, P)[k] = t[i]
           G == {t \in Seq(S) : Good(t)}
<1>1. <<>> \in G
  <2>1. <<>> \in Seq(S) /\ Len(<<>>) = 0 /\ 1 .. 0 = {} /\ Sublist(<<>>, P) = <<>>
    BY SublistEmpty
  <2> QED BY <2>1
<1>2. ASSUME NEW t \in G, NEW x \in S PROVE Append(t, x) \in G
  <2> DEFINE n == Len(t) + 1
             u == Append(t, x)
  <2>0. t \in Seq(S) /\ Good(t)
    BY <1>2
  <2>1. u \in Seq(S) /\ Len(u) = n /\ n \in Nat /\ u[n] = x /\ \A i \in 1 .. Len(t) : u[i] = t[i] /\ i \in 1 .. n
    BY <2>0
  <2>2. Sublist(u, P) = IF n \in P THEN Append(Sublist(t, P), x) ELSE Sublist(t, P)
    BY <2>0, SublistAppend
  <2> DEFINE v == Sublist(t, P)
  <2>3. v \in Seq(S) /\ \A k \in 1 .. Len(v) : \E i \in 1 .. Len(t) : i \in P /\ v[k] = t[i]
    BY <2>0
  <2> HIDE DEF u, v
  <2>4. CASE n \in P
    <3>1. Append(v, x) \in Seq(S) /\ Len(Append(v, x)) = Len(v) + 1 /\ Append(v, x)[Len(v) + 1] = x
          /\ \A k \in 1 .. Len(v) : Append(v, x)[k] = v[k]
      BY <2>3
    <3>2. ASSUME NEW k \in 1 .. Len(v) + 1
          PROVE \E i \in 1 .. n : i \in P /\ Append(v, x)[k] = u[i]
      <4>1. CASE k \in 1 .. Len(v)
        BY <2>1, <2>3, <3>1, <4>1
      <4>2. CASE k = Len(v) + 1
        <5>1. n \in 1 .. n
          BY <2>1
        <5> QED BY <2>1, <2>4, <3>1, <4>2, <5>1
      <4>3. k \in 1 .. Len(v) \/ k = Len(v) + 1
        <5>1. Len(v) \in Nat
          BY <2>3
        <5> QED BY <5>1
      <4> QED BY <4>1, <4>2, <4>3
    <3>3. Good(u)
      BY <2>1, <2>2, <2>4, <3>1, <3>2 DEF v
    <3> QED BY <2>1, <3>3 DEF u
  <2>5. CASE n \notin P
    <3>1. Good(u)
      BY <2>1, <2>2, <2>3, <2>5 DEF v
    <3> QED BY <2>1, <3>1 DEF u
  <2> QED BY <2>4, <2>5
<1>3. Seq(S) \subseteq G
  <2> HIDE DEF G
  <2> QED BY <1>1, <1>2, SeqInduction
<1> QED BY <1>3

LEMMA PairAsSeq ==
    ASSUME NEW a, NEW b
    PROVE  /\ \A S : a \in S /\ b \in S => <<a, b>> \in Seq(S)
           /\ \A i \in 1 .. Len(<<a, b>>) : <<a, b>>[i] \in {a, b}
<1>1. ASSUME NEW S, a \in S, b \in S PROVE <<a, b>> \in Seq(S)
  BY <1>1
<1>2. \A i \in 1 .. Len(<<a, b>>) : i = 1 \/ i = 2
  OBVIOUS
<1> QED BY <1>1, <1>2

\* The words of the protocol and the bodies with a meaning of their own.
LEMMA WordsAreLines ==
    /\ {"TARGET", "APPLICATION", "CHANGE", "TEXT", "ADAPT", "KEEP", "REENACT", "INHIBIT", "BASIS",
        "NO_CHANGE", "NO_MEMORY", "SELF", "OTHER", "RELATION", "SITUATION", "NEW_RECOLLECTION",
        "NEW_DISPOSITION", "first half", "second half", Blank} \subseteq Line
  BY LineAssumption DEF Keywords, Scopes, NewTargets, Spaced, Bodies

\* The lines that are not blank, one line at a time.
LEMMA MeaningfulAppend ==
    ASSUME NEW t \in Seq(Line), NEW l \in Line
    PROVE  /\ Meaningful(t) \in Seq(Line)
           /\ Meaningful(Append(t, l)) = IF l = Blank THEN Meaningful(t)
                                         ELSE Append(Meaningful(t), l)
<1> DEFINE u == Append(t, l)
           P == {i \in DOMAIN t : t[i] # Blank}
           Q == {i \in DOMAIN u : u[i] # Blank}
           n == Len(t) + 1
<1>1. /\ DOMAIN t = 1 .. Len(t) /\ DOMAIN u = 1 .. n /\ n \in DOMAIN u /\ u[n] = l
      /\ \A i \in 1 .. Len(t) : u[i] = t[i] /\ i \in DOMAIN u
  OBVIOUS
<1>2. \A i \in 1 .. Len(t) : i \in P <=> i \in Q
  BY <1>1
<1>3. n \in Q <=> l # Blank
  BY <1>1
<1> HIDE DEF P, Q
<1>4. /\ Sublist(t, P) \in Seq(Line)
      /\ Sublist(u, Q) = IF n \in Q THEN Append(Sublist(t, P), l) ELSE Sublist(t, P)
  BY <1>2, SublistAppend
<1>5. Meaningful(t) = Sublist(t, P) /\ Meaningful(u) = Sublist(u, Q)
  BY DEF Meaningful, P, Q
<1> QED BY <1>3, <1>4, <1>5

LEMMA MeaningfulType ==
    ASSUME NEW t \in Seq(Line)
    PROVE  Meaningful(t) \in Seq(Line)
  BY SublistElements DEF Meaningful

LEMMA MeaningfulEmpty == Meaningful(<<>>) = <<>>
  BY SublistEmpty DEF Meaningful

LEMMA MeaningfulConcat ==
    ASSUME NEW a \in Seq(Line), NEW b \in Seq(Line)
    PROVE  Meaningful(a \o b) = Meaningful(a) \o Meaningful(b)
<1> DEFINE G == {t \in Seq(Line) : Meaningful(a \o t) = Meaningful(a) \o Meaningful(t)}
<1>0. Meaningful(a) \in Seq(Line)
  BY MeaningfulType
<1>1. <<>> \in G
  <2>1. a \o <<>> = a /\ Meaningful(a) \o <<>> = Meaningful(a) /\ <<>> \in Seq(Line)
    BY <1>0, ConcatEmptySeq
  <2> QED BY <2>1, MeaningfulEmpty
<1>2. ASSUME NEW t \in G, NEW l \in Line PROVE Append(t, l) \in G
  <2>1. t \in Seq(Line) /\ a \o t \in Seq(Line) /\ Append(t, l) \in Seq(Line)
    BY <1>2
  <2>2. a \o Append(t, l) = Append(a \o t, l)
    BY <2>1, ConcatAppend
  <2>3. Meaningful(t) \in Seq(Line)
    BY <2>1, MeaningfulType
  <2>4. Meaningful(a) \o Append(Meaningful(t), l) = Append(Meaningful(a) \o Meaningful(t), l)
    BY <1>0, <2>3, ConcatAppend
  <2>5. Meaningful(a \o t) = Meaningful(a) \o Meaningful(t)
    BY <1>2
  <2>6. Meaningful(Append(t, l)) = IF l = Blank THEN Meaningful(t) ELSE Append(Meaningful(t), l)
    BY <2>1, MeaningfulAppend
  <2>7. Meaningful(Append(a \o t, l)) =
            IF l = Blank THEN Meaningful(a \o t) ELSE Append(Meaningful(a \o t), l)
    BY <2>1, MeaningfulAppend
  <2>8. Meaningful(a \o Append(t, l)) = Meaningful(a) \o Meaningful(Append(t, l))
    BY <2>2, <2>4, <2>5, <2>6, <2>7
  <2> QED BY <2>1, <2>8
<1>3. Seq(Line) \subseteq G
  <2> HIDE DEF G
  <2> QED BY <1>1, <1>2, SeqInduction
<1> QED BY <1>3

\* No line of the result is blank, and each is a line of the text.
LEMMA MeaningfulLines ==
    ASSUME NEW t \in Seq(Line)
    PROVE  /\ Meaningful(t) \in Seq(Line)
           /\ \A k \in 1 .. Len(Meaningful(t)) :
                 /\ Meaningful(t)[k] # Blank
                 /\ \E i \in 1 .. Len(t) : Meaningful(t)[k] = t[i]
<1> DEFINE P == {i \in DOMAIN t : t[i] # Blank}
<1>2. Meaningful(t) = Sublist(t, P)
  BY DEF Meaningful
<1>3. \A i \in P : t[i] # Blank
  OBVIOUS
<1> HIDE DEF P
<1>1. /\ Sublist(t, P) \in Seq(Line)
      /\ \A k \in 1 .. Len(Sublist(t, P)) :
            \E i \in 1 .. Len(t) : i \in P /\ Sublist(t, P)[k] = t[i]
  BY SublistElements
<1> QED BY <1>1, <1>2, <1>3

LEMMA MeaningfulOfBlank ==
    ASSUME NEW t \in Seq(Line), \A i \in 1 .. Len(t) : t[i] = Blank
    PROVE  Meaningful(t) = <<>>
<1>1. Meaningful(t) \in Seq(Line) /\ \A k \in 1 .. Len(Meaningful(t)) : FALSE
  BY MeaningfulLines
<1>2. Len(Meaningful(t)) = 0
  <2> DEFINE m == Len(Meaningful(t))
  <2>1. m \in Nat /\ \A k \in 1 .. m : FALSE
    BY <1>1
  <2> HIDE DEF m
  <2>2. m = 0
    BY <2>1
  <2> QED BY <2>2 DEF m
<1> QED BY <1>1, <1>2, EmptySeq

LEMMA MeaningfulOfFull ==
    ASSUME NEW t \in Seq(Line), \A i \in 1 .. Len(t) : t[i] # Blank
    PROVE  Meaningful(t) = t
<1> DEFINE G == {u \in Seq(Line) : (\A i \in 1 .. Len(u) : u[i] # Blank) => Meaningful(u) = u}
<1>1. <<>> \in G
  BY MeaningfulEmpty
<1>2. ASSUME NEW u \in G, NEW l \in Line PROVE Append(u, l) \in G
  <2>1. u \in Seq(Line) /\ Append(u, l) \in Seq(Line)
    BY <1>2
  <2>2. ASSUME \A i \in 1 .. Len(Append(u, l)) : Append(u, l)[i] # Blank
        PROVE  Meaningful(Append(u, l)) = Append(u, l)
    <3>1. \A i \in 1 .. Len(u) : u[i] # Blank
      <4>1. \A i \in 1 .. Len(u) : Append(u, l)[i] = u[i] /\ i \in 1 .. Len(Append(u, l))
        BY <2>1
      <4> QED BY <2>2, <4>1
    <3>2. l # Blank
      <4>1. Append(u, l)[Len(u) + 1] = l /\ Len(u) + 1 \in 1 .. Len(Append(u, l))
        BY <2>1
      <4> QED BY <2>2, <4>1
    <3>3. Meaningful(u) = u
      BY <1>2, <3>1
    <3> QED BY <2>1, <3>2, <3>3, MeaningfulAppend
  <2> QED BY <2>1, <2>2
<1>3. Seq(Line) \subseteq G
  <2> HIDE DEF G
  <2> QED BY <1>1, <1>2, SeqInduction
<1> QED BY <1>3

-----------------------------------------------------------------------------
(* Python's lines *)

LEMMA SplitLineType ==
    ASSUME NEW l \in Line
    PROVE  /\ SplitLine(l) \in Seq(Line)
           /\ l \notin DOMAIN Separated => SplitLine(l) = <<l>>
           /\ l \in DOMAIN Separated => SplitLine(l) = <<"first half", "second half">>
<1>1. {"first half", "second half"} \subseteq Line
  BY WordsAreLines
<1>2. l \notin DOMAIN Separated => SplitLine(l) = <<l>>
  BY DEF SplitLine
<1>3. l \in DOMAIN Separated => SplitLine(l) = <<"first half", "second half">>
  BY DEF SplitLine, Separated
<1>4. <<"first half", "second half">> \in Seq(Line)
  <2>1. "first half" \in Line /\ "second half" \in Line
    BY <1>1
  <2> QED BY <2>1, PairAsSeq
<1>5. <<l>> \in Seq(Line)
  OBVIOUS
<1> QED BY <1>2, <1>3, <1>4, <1>5

LEMMA SplitAppend ==
    ASSUME NEW t \in Seq(Line), NEW l \in Line
    PROVE  /\ SplitLines(t) \in Seq(Line)
           /\ SplitLines(Append(t, l)) = SplitLines(t) \o SplitLine(l)
<1> DEFINE u == Append(t, l)
           e == [i \in DOMAIN t |-> SplitLine(t[i])]
           f == [i \in DOMAIN u |-> SplitLine(u[i])]
           n == Len(t) + 1
<1>1. /\ DOMAIN t = 1 .. Len(t) /\ DOMAIN u = 1 .. n /\ u[n] = l /\ Len(t) \in Nat
      /\ \A i \in 1 .. Len(t) : u[i] = t[i]
  OBVIOUS
<1>2. e \in Seq(Seq(Line)) /\ Len(e) = Len(t)
  <2>1. \A i \in 1 .. Len(t) : t[i] \in Line
    BY <1>1
  <2>2. \A i \in 1 .. Len(t) : SplitLine(t[i]) \in Seq(Line)
    BY <2>1, SplitLineType
  <2> QED BY <1>1, <2>2
<1>3. SplitLine(l) \in Seq(Line)
  BY SplitLineType
<1>4. f = Append(e, SplitLine(l))
  <2>1. Append(e, SplitLine(l)) = [i \in 1 .. n |-> IF i = n THEN SplitLine(l) ELSE e[i]]
    BY <1>2
  <2> HIDE DEF u
  <2> QED BY <1>1, <2>1
<1>5. FlattenSeq(e) \in Seq(Line) /\ FlattenSeq(f) = FlattenSeq(e) \o SplitLine(l)
  <2> HIDE DEF e, f
  <2> QED BY <1>2, <1>3, <1>4, FlattenAppend
<1> QED BY <1>5 DEF SplitLines

LEMMA SplitType ==
    ASSUME NEW t \in Seq(Line)
    PROVE  SplitLines(t) \in Seq(Line)
<1>1. Blank \in Line
  BY WordsAreLines
<1> QED BY <1>1, SplitAppend

LEMMA SplitEmpty == SplitLines(<<>>) = <<>>
<1>1. [i \in DOMAIN <<>> |-> SplitLine(<<>>[i])] = <<>>
  OBVIOUS
<1> QED BY <1>1, FlattenEmpty DEF SplitLines

LEMMA SplitConcat ==
    ASSUME NEW a \in Seq(Line), NEW b \in Seq(Line)
    PROVE  SplitLines(a \o b) = SplitLines(a) \o SplitLines(b)
<1> DEFINE G == {t \in Seq(Line) : SplitLines(a \o t) = SplitLines(a) \o SplitLines(t)}
<1>0. SplitLines(a) \in Seq(Line)
  BY SplitType
<1>1. <<>> \in G
  <2>1. a \o <<>> = a /\ SplitLines(a) \o <<>> = SplitLines(a) /\ <<>> \in Seq(Line)
    BY <1>0, ConcatEmptySeq
  <2> QED BY <2>1, SplitEmpty
<1>2. ASSUME NEW t \in G, NEW l \in Line PROVE Append(t, l) \in G
  <2>1. t \in Seq(Line) /\ a \o t \in Seq(Line) /\ Append(t, l) \in Seq(Line)
    BY <1>2
  <2>2. a \o Append(t, l) = Append(a \o t, l)
    BY <2>1, ConcatAppend
  <2>3. SplitLines(t) \in Seq(Line) /\ SplitLine(l) \in Seq(Line)
    BY <2>1, SplitType, SplitLineType
  <2>4. (SplitLines(a) \o SplitLines(t)) \o SplitLine(l) = SplitLines(a) \o (SplitLines(t) \o SplitLine(l))
    BY <1>0, <2>3, ConcatAssociative, SMTT(30)
  <2>5. SplitLines(a \o t) = SplitLines(a) \o SplitLines(t)
    BY <1>2
  <2>6. SplitLines(Append(t, l)) = SplitLines(t) \o SplitLine(l)
    BY <2>1, SplitAppend
  <2>7. SplitLines(Append(a \o t, l)) = SplitLines(a \o t) \o SplitLine(l)
    BY <2>1, SplitAppend
  <2>8. SplitLines(a \o Append(t, l)) = SplitLines(a) \o SplitLines(Append(t, l))
    BY <2>2, <2>4, <2>5, <2>6, <2>7
  <2> QED BY <2>1, <2>8
<1>3. Seq(Line) \subseteq G
  <2> HIDE DEF G
  <2> QED BY <1>1, <1>2, SeqInduction
<1> QED BY <1>3

\* A text without separators is left as it is.
LEMMA SplitOfWhole ==
    ASSUME NEW t \in Seq(Line), \A i \in 1 .. Len(t) : t[i] \notin DOMAIN Separated
    PROVE  SplitLines(t) = t
<1> DEFINE G == {u \in Seq(Line) :
                    (\A i \in 1 .. Len(u) : u[i] \notin DOMAIN Separated) => SplitLines(u) = u}
<1>1. <<>> \in G
  BY SplitEmpty
<1>2. ASSUME NEW u \in G, NEW l \in Line PROVE Append(u, l) \in G
  <2>1. u \in Seq(Line) /\ Append(u, l) \in Seq(Line)
    BY <1>2
  <2>2. ASSUME \A i \in 1 .. Len(Append(u, l)) : Append(u, l)[i] \notin DOMAIN Separated
        PROVE  SplitLines(Append(u, l)) = Append(u, l)
    <3>1. \A i \in 1 .. Len(u) : u[i] \notin DOMAIN Separated
      <4>1. \A i \in 1 .. Len(u) : Append(u, l)[i] = u[i] /\ i \in 1 .. Len(Append(u, l))
        BY <2>1
      <4> QED BY <2>2, <4>1
    <3>2. l \notin DOMAIN Separated
      <4>1. Append(u, l)[Len(u) + 1] = l /\ Len(u) + 1 \in 1 .. Len(Append(u, l))
        BY <2>1
      <4> QED BY <2>2, <4>1
    <3>3. SplitLines(u) = u
      BY <1>2, <3>1
    <3>4. SplitLine(l) = <<l>>
      BY <3>2, SplitLineType
    <3>5. SplitLines(Append(u, l)) = u \o <<l>>
      BY <2>1, <3>3, <3>4, SplitAppend
    <3> QED BY <2>1, <3>5, AppendIsConcat
  <2> QED BY <2>1, <2>2
<1>3. Seq(Line) \subseteq G
  <2> HIDE DEF G
  <2> QED BY <1>1, <1>2, SeqInduction
<1> QED BY <1>3

\* Splitting lines makes none of them blank.
LEMMA MeaningfulSplit ==
    ASSUME NEW t \in Seq(Line)
    PROVE  Meaningful(SplitLines(t)) = SplitLines(Meaningful(t))
<1> DEFINE G == {u \in Seq(Line) : Meaningful(SplitLines(u)) = SplitLines(Meaningful(u))}
<1>1. <<>> \in G
  <2>1. <<>> \in Seq(Line)
    OBVIOUS
  <2> QED BY <2>1, SplitEmpty, MeaningfulEmpty
<1>2. ASSUME NEW u \in G, NEW l \in Line PROVE Append(u, l) \in G
  <2>1. /\ u \in Seq(Line) /\ Append(u, l) \in Seq(Line)
        /\ Meaningful(SplitLines(u)) = SplitLines(Meaningful(u))
    BY <1>2
  <2>2. SplitLine(l) \in Seq(Line) /\ SplitLines(u) \in Seq(Line) /\ Meaningful(u) \in Seq(Line)
    BY <2>1, SplitLineType, SplitType, MeaningfulType
  <2>3. Meaningful(SplitLines(Append(u, l))) = Meaningful(SplitLines(u)) \o Meaningful(SplitLine(l))
    BY <2>1, <2>2, SplitAppend, MeaningfulConcat
  <2>4. CASE l = Blank
    <3>1. SplitLine(l) = <<l>>
      BY <2>4, SplitLineType DEF Blank, Separated
    <3>2. Meaningful(SplitLine(l)) = <<>>
      <4>1. \A i \in 1 .. Len(SplitLine(l)) : SplitLine(l)[i] = Blank
        BY <2>4, <3>1
      <4> QED BY <2>2, <4>1, MeaningfulOfBlank
    <3>3. Meaningful(SplitLines(u)) \in Seq(Line)
      BY <2>2, MeaningfulType
    <3>4. Meaningful(Append(u, l)) = Meaningful(u)
      BY <2>1, <2>4, MeaningfulAppend
    <3> QED BY <2>1, <2>3, <3>2, <3>3, <3>4, ConcatEmptySeq
  <2>5. CASE l # Blank
    <3>1. Meaningful(SplitLine(l)) = SplitLine(l)
      <4>1. \A i \in 1 .. Len(SplitLine(l)) : SplitLine(l)[i] # Blank
        <5>1. CASE l \in DOMAIN Separated
          <6>1. SplitLine(l) = <<"first half", "second half">>
            BY <5>1, SplitLineType
          <6>2. \A i \in 1 .. Len(SplitLine(l)) : SplitLine(l)[i] \in {"first half", "second half"}
            BY <6>1, PairAsSeq
          <6> QED BY <6>2 DEF Blank
        <5>2. CASE l \notin DOMAIN Separated
          <6>1. SplitLine(l) = <<l>>
            BY <5>2, SplitLineType
          <6> QED BY <2>5, <6>1
        <5> QED BY <5>1, <5>2
      <4> QED BY <2>2, <4>1, MeaningfulOfFull
    <3>2. Meaningful(Append(u, l)) = Append(Meaningful(u), l)
      BY <2>1, <2>5, MeaningfulAppend
    <3>3. SplitLines(Append(Meaningful(u), l)) = SplitLines(Meaningful(u)) \o SplitLine(l)
      BY <2>2, SplitAppend
    <3> QED BY <2>1, <2>3, <3>1, <3>2, <3>3
  <2> QED BY <2>1, <2>4, <2>5
<1>3. Seq(Line) \subseteq G
  <2> HIDE DEF G
  <2> QED BY <1>1, <1>2, SeqInduction
<1> QED BY <1>3

-----------------------------------------------------------------------------
(* Positions *)

LEMMA LeastIs ==
    ASSUME NEW T, T \subseteq Nat, T # {}
    PROVE  Min(T) \in T /\ \A y \in T : Min(T) <= y
<1>1. \E x \in T : \A y \in T : x <= y
  BY LeastNat
<1> QED BY <1>1 DEF Min

LEMMA GreatestIs ==
    ASSUME NEW n \in Nat, NEW T, T \subseteq 0 .. n, T # {}
    PROVE  Max(T) \in T /\ \A y \in T : y <= Max(T)
<1> DEFINE U == {m \in 0 .. n : n - m \in T}
<1>1. U \subseteq Nat /\ U # {}
  <2>1. PICK x \in T : TRUE
    OBVIOUS
  <2>2. x \in 0 .. n /\ n - x \in 0 .. n /\ n - (n - x) = x
    BY <2>1
  <2>3. n - x \in U
    BY <2>2
  <2>4. U \subseteq Nat
    OBVIOUS
  <2> QED BY <2>3, <2>4
<1>2. PICK u \in U : \A v \in U : u <= v
  BY <1>1, LeastNat
<1>3. n - u \in T
  OBVIOUS
<1>4. ASSUME NEW y \in T PROVE y <= n - u
  <2>1. y \in 0 .. n /\ n - y \in 0 .. n /\ n - (n - y) = y
    OBVIOUS
  <2>2. n - y \in U
    BY <2>1
  <2>3. u <= n - y /\ u \in Nat
    BY <1>2, <2>2
  <2> QED BY <2>1, <2>3
<1>5. \E x \in T : \A y \in T : x >= y
  <2>1. \A y \in T : n - u >= y
    <3>1. \A y \in T : y \in Nat /\ y <= n - u
      BY <1>4
    <3> QED BY <3>1
  <2> QED BY <1>3, <2>1
<1>6. Max(T) \in T /\ \A y \in T : Max(T) >= y
  BY <1>5 DEF Max
<1> QED BY <1>6

\* Where the next block opens.
LEMMA NextTargetIs ==
    ASSUME NEW lines \in Seq(Line), NEW k \in 1 .. Len(lines) + 1
    PROVE  /\ NextTarget(lines, k) \in k .. Len(lines) + 1
           /\ NextTarget(lines, k) # Len(lines) + 1 => lines[NextTarget(lines, k)] = "TARGET"
           /\ \A j \in k .. NextTarget(lines, k) - 1 : lines[j] # "TARGET"
<1> DEFINE n == Len(lines)
           T == {n + 1} \cup {j \in k .. n : lines[j] = "TARGET"}
           e == NextTarget(lines, k)
<1>1. n \in Nat /\ T \subseteq k .. n + 1 /\ n + 1 \in T
  OBVIOUS
<1>2. T \subseteq Nat /\ T # {}
  BY <1>1
<1>3. e = Min(T)
  BY DEF NextTarget
<1> HIDE DEF T, e
<1>4. e \in T /\ \A y \in T : e <= y
  BY <1>2, <1>3, LeastIs
<1>5. e \in k .. n + 1
  BY <1>1, <1>4
<1>6. e # n + 1 => lines[e] = "TARGET"
  BY <1>4 DEF T
<1>7. ASSUME NEW j \in k .. e - 1 PROVE lines[j] # "TARGET"
  <2>1. j \in k .. n /\ ~(e <= j)
    BY <1>1, <1>5
  <2> QED BY <1>4, <2>1 DEF T
<1> QED BY <1>5, <1>6, <1>7 DEF e

LEMMA SubSeqIs ==
    ASSUME NEW S, NEW s \in Seq(S), NEW m \in 1 .. Len(s) + 1, NEW n \in m - 1 .. Len(s)
    PROVE  /\ SubSeq(s, m, n) \in Seq(S)
           /\ Len(SubSeq(s, m, n)) = n - m + 1
           /\ \A i \in 1 .. n - m + 1 : SubSeq(s, m, n)[i] = s[m + i - 1]
  OBVIOUS

\* What stripping cuts off is blank.
LEMMA RStripIs ==
    ASSUME NEW t \in Seq(Line)
    PROVE  /\ RStrip(t) \in Seq(Line)
           /\ Meaningful(RStrip(t)) = Meaningful(t)
<1> DEFINE n == Len(t)
           T == {0} \cup {i \in DOMAIN t : t[i] # Blank}
           m == Max(T)
           a == SubSeq(t, 1, m)
           b == SubSeq(t, m + 1, n)
<1>1. n \in Nat /\ DOMAIN t = 1 .. n
  OBVIOUS
<1>2. T \subseteq 0 .. n /\ T # {}
  BY <1>1
<1>3. m \in T /\ \A y \in T : y <= m
  <2> HIDE DEF T
  <2> QED BY <1>1, <1>2, GreatestIs
<1>4. m \in 0 .. n
  BY <1>2, <1>3
<1> HIDE DEF m
<1>5. a \in Seq(Line)
  BY <1>1, <1>4, SubSeqIs
<1>6. b \in Seq(Line) /\ Len(b) = n - m /\ \A i \in 1 .. n - m : b[i] = t[m + i]
  <2>1. m + 1 \in 1 .. n + 1 /\ n \in (m + 1) - 1 .. n /\ n - (m + 1) + 1 = n - m
    BY <1>1, <1>4
  <2>2. b \in Seq(Line) /\ Len(b) = n - m /\ \A i \in 1 .. n - m : b[i] = t[(m + 1) + i - 1]
    BY <2>1, SubSeqIs
  <2>3. \A i \in 1 .. n - m : (m + 1) + i - 1 = m + i
    BY <1>1, <1>4
  <2> QED BY <2>2, <2>3
<1>7. \A i \in 1 .. Len(b) : b[i] = Blank
  <2>1. ASSUME NEW i \in 1 .. n - m PROVE t[m + i] = Blank
    <3>1. m + i \in 1 .. n /\ ~(m + i <= m)
      BY <1>1, <1>4
    <3> QED BY <1>1, <1>3, <3>1
  <2> QED BY <1>6, <2>1
<1>8. a \o b = t
  <2>1. 1 \in 1 .. n + 1 /\ m \in 1 - 1 .. n /\ n \in m .. n
    BY <1>1, <1>4
  <2>2. a \o b = SubSeq(t, 1, n)
    BY <2>1, ConcatAdjacentSubSeq
  <2> QED BY <2>2, SubSeqFull
<1>9. Meaningful(t) = Meaningful(a) \o Meaningful(b)
  <2> HIDE DEF a, b
  <2> QED BY <1>5, <1>6, <1>8, MeaningfulConcat
<1>10. Meaningful(b) = <<>>
  <2> HIDE DEF b
  <2> QED BY <1>6, <1>7, MeaningfulOfBlank
<1>11. RStrip(t) = a
  BY DEF RStrip, m
<1> HIDE DEF a, b
<1>12. Meaningful(a) \in Seq(Line)
  BY <1>5, MeaningfulType
<1> QED BY <1>5, <1>9, <1>10, <1>11, <1>12, ConcatEmptySeq

LEMMA StripIs ==
    ASSUME NEW t \in Seq(Line)
    PROVE  /\ Strip(t) \in Seq(Line)
           /\ Meaningful(Strip(t)) = Meaningful(t)
<1> DEFINE n == Len(t)
           T == {n + 1} \cup {i \in DOMAIN t : t[i] # Blank}
           m == Min(T)
           a == SubSeq(t, 1, m - 1)
           b == SubSeq(t, m, n)
<1>1. n \in Nat /\ DOMAIN t = 1 .. n
  OBVIOUS
<1>2. T \subseteq 1 .. n + 1 /\ T \subseteq Nat /\ T # {}
  BY <1>1
<1>3. m \in T /\ \A y \in T : m <= y
  <2> HIDE DEF T
  <2> QED BY <1>1, <1>2, LeastIs
<1>4. m \in 1 .. n + 1
  BY <1>2, <1>3
<1> HIDE DEF m
<1>5. a \in Seq(Line) /\ Len(a) = m - 1 /\ \A i \in 1 .. m - 1 : a[i] = t[i]
  <2>1. 1 \in 1 .. n + 1 /\ m - 1 \in 1 - 1 .. n /\ (m - 1) - 1 + 1 = m - 1
    BY <1>1, <1>4
  <2>2. a \in Seq(Line) /\ Len(a) = m - 1 /\ \A i \in 1 .. m - 1 : a[i] = t[1 + i - 1]
    BY <2>1, SubSeqIs
  <2>3. \A i \in 1 .. m - 1 : 1 + i - 1 = i
    BY <1>1, <1>4
  <2> QED BY <2>2, <2>3
<1>6. b \in Seq(Line)
  <2>1. n \in m - 1 .. n
    BY <1>1, <1>4
  <2> QED BY <1>4, <2>1, SubSeqIs
<1>7. \A i \in 1 .. Len(a) : a[i] = Blank
  <2>1. ASSUME NEW i \in 1 .. m - 1 PROVE t[i] = Blank
    <3>1. i \in 1 .. n /\ ~(m <= i)
      BY <1>1, <1>4
    <3> QED BY <1>1, <1>3, <3>1
  <2> QED BY <1>5, <2>1
<1>8. a \o b = t
  <2>1. 1 \in 1 .. n + 1 /\ m - 1 \in 1 - 1 .. n /\ n \in m - 1 .. n /\ (m - 1) + 1 = m
    BY <1>1, <1>4
  <2>2. SubSeq(t, 1, m - 1) \o SubSeq(t, (m - 1) + 1, n) = SubSeq(t, 1, n)
    BY <2>1, ConcatAdjacentSubSeq
  <2> QED BY <2>1, <2>2, SubSeqFull
<1>9. Meaningful(t) = Meaningful(a) \o Meaningful(b)
  <2> HIDE DEF a, b
  <2> QED BY <1>5, <1>6, <1>8, MeaningfulConcat
<1>10. Meaningful(a) = <<>>
  <2> HIDE DEF a
  <2> QED BY <1>5, <1>7, MeaningfulOfBlank
<1>11. Strip(t) = RStrip(b)
  BY DEF Strip, m
<1> HIDE DEF a, b
<1>12. Meaningful(b) \in Seq(Line)
  BY <1>6, MeaningfulType
<1>13. Meaningful(t) = Meaningful(b)
  BY <1>9, <1>10, <1>12, ConcatEmptySeq
<1> QED BY <1>6, <1>11, <1>13, RStripIs

-----------------------------------------------------------------------------
(* Blocks of a new Disposition *)

SeedOps == {"TEXT", "ADAPT"}

\* At line k starts a block that, if it is read at all, makes or adapts a new
\* Disposition by one of the operations.
SeedAt(lines, k, ops) ==
    /\ k \in 1 .. Len(lines) - 5
    /\ HasHeader(lines, k)
    /\ lines[k + 1] = "NEW_DISPOSITION"
    /\ lines[k + 3] \in Scopes
    /\ OperationOf(lines[k + 5]) \in ops

Seedless(lines, ops) == \A k \in 1 .. Len(lines) : ~SeedAt(lines, k, ops)

\* What opens with a block, if it is there at all.
Opens(lines) == lines = <<>> \/ lines[1] = "TARGET"

LEMMA SeedLines ==
    ASSUME NEW lines, NEW k, NEW ops \in SUBSET SeedOps, SeedAt(lines, k, ops)
    PROVE  /\ \A i \in 1 .. 5 : lines[k + i] # "TARGET"
           /\ \A i \in 0 .. 5 : lines[k + i] \notin DOMAIN Separated
<1>0. /\ k \in Int /\ k + 0 = k
  BY DEF SeedAt
<1>1. /\ lines[k] = "TARGET" /\ lines[k + 1] = "NEW_DISPOSITION" /\ lines[k + 2] = "APPLICATION"
      /\ lines[k + 3] \in Scopes /\ lines[k + 4] = "CHANGE"
  BY DEF SeedAt, HasHeader
<1>2. lines[k + 5] \in SeedOps \cup DOMAIN InlineChange
  BY DEF SeedAt, OperationOf
<1>3. lines[k + 3] # "TARGET" /\ lines[k + 3] \notin DOMAIN Separated
  BY <1>1 DEF Scopes, Separated
<1>4. lines[k + 5] # "TARGET" /\ lines[k + 5] \notin DOMAIN Separated
  BY <1>2 DEF SeedOps, InlineChange, Separated
<1>5. "TARGET" \notin DOMAIN Separated /\ "NEW_DISPOSITION" \notin DOMAIN Separated
      /\ "APPLICATION" \notin DOMAIN Separated /\ "CHANGE" \notin DOMAIN Separated
  BY DEF Separated
<1>6. \A i \in 1 .. 5 : i = 1 \/ i = 2 \/ i = 3 \/ i = 4 \/ i = 5
  OBVIOUS
<1>7. \A i \in 1 .. 5 : lines[k + i] # "TARGET" /\ lines[k + i] \notin DOMAIN Separated
  BY <1>1, <1>3, <1>4, <1>5, <1>6
<1>8. \A i \in 0 .. 5 : i = 0 \/ i \in 1 .. 5
  OBVIOUS
<1> QED BY <1>0, <1>1, <1>5, <1>7, <1>8

LEMMA AddZero == ASSUME NEW x \in Int PROVE x + 0 = x
  OBVIOUS

LEMMA FiveBefore ==
    ASSUME NEW x \in Int, NEW n \in Int, x \in 1 .. n, x + 5 \in 1 .. n
    PROVE  x \in 1 .. n - 5
  OBVIOUS

\* A block is one block wherever it stands.
LEMMA SeedMoved ==
    ASSUME NEW a \in Seq(Line), NEW b \in Seq(Line), NEW ops,
           NEW k \in 1 .. Len(a), NEW j \in 1 .. Len(b),
           \A i \in 0 .. 5 : k + i \in 1 .. Len(a) /\ j + i \in 1 .. Len(b) /\ b[j + i] = a[k + i]
    PROVE  SeedAt(a, k, ops) <=> SeedAt(b, j, ops)
<1>1. /\ b[j] = a[k] /\ b[j + 1] = a[k + 1] /\ b[j + 2] = a[k + 2] /\ b[j + 3] = a[k + 3]
      /\ b[j + 4] = a[k + 4] /\ b[j + 5] = a[k + 5]
  <2>1. 0 \in 0 .. 5 /\ 1 \in 0 .. 5 /\ 2 \in 0 .. 5 /\ 3 \in 0 .. 5 /\ 4 \in 0 .. 5 /\ 5 \in 0 .. 5
    OBVIOUS
  <2>2. k \in Int /\ j \in Int
    OBVIOUS
  <2>3. j + 0 = j /\ k + 0 = k
    BY <2>2, AddZero, Zenon
  <2> QED BY <2>1, <2>3
<1>2. k \in 1 .. Len(a) - 5 /\ j \in 1 .. Len(b) - 5
  <2>1. 5 \in 0 .. 5
    OBVIOUS
  <2>2. k + 5 \in 1 .. Len(a) /\ j + 5 \in 1 .. Len(b)
    BY <2>1, Zenon
  <2>3. Len(a) \in Int /\ Len(b) \in Int /\ k \in Int /\ j \in Int
    <3>1. Len(a) \in Int /\ Len(b) \in Int
      OBVIOUS
    <3>2. \A n \in Int : \A x \in 1 .. n : x \in Int
      OBVIOUS
    <3> QED BY <3>1, <3>2, Zenon
  <2> QED BY <2>2, <2>3, FiveBefore, Zenon
<1> QED BY <1>1, <1>2 DEF SeedAt, HasHeader

LEMMA SeedOfLeft ==
    ASSUME NEW a \in Seq(Line), NEW b \in Seq(Line), NEW ops, NEW k, SeedAt(a, k, ops)
    PROVE  SeedAt(a \o b, k, ops)
<1>1. k \in 1 .. Len(a) - 5 /\ Len(a) \in Nat /\ Len(b) \in Nat
  BY DEF SeedAt
<1>2. a \o b \in Seq(Line) /\ Len(a \o b) = Len(a) + Len(b)
      /\ \A i \in 1 .. Len(a) : (a \o b)[i] = a[i]
  OBVIOUS
<1>3. \A i \in 0 .. 5 : k + i \in 1 .. Len(a) /\ k + i \in 1 .. Len(a) + Len(b)
  BY <1>1
<1>4. k \in 1 .. Len(a) /\ k \in 1 .. Len(a \o b)
  BY <1>1, <1>2
<1>5. \A i \in 0 .. 5 : k + i \in 1 .. Len(a) /\ k + i \in 1 .. Len(a \o b) /\ (a \o b)[k + i] = a[k + i]
  BY <1>2, <1>3
<1> QED BY <1>2, <1>4, <1>5, SeedMoved

LEMMA SeedOfRight ==
    ASSUME NEW a \in Seq(Line), NEW b \in Seq(Line), NEW ops, NEW k, SeedAt(b, k, ops)
    PROVE  SeedAt(a \o b, Len(a) + k, ops)
<1>1. k \in 1 .. Len(b) - 5 /\ Len(a) \in Nat /\ Len(b) \in Nat
  BY DEF SeedAt
<1>2. a \o b \in Seq(Line) /\ Len(a \o b) = Len(a) + Len(b)
      /\ \A i \in 1 .. Len(b) : (a \o b)[Len(a) + i] = b[i]
  OBVIOUS
<1>3. \A i \in 0 .. 5 : /\ k + i \in 1 .. Len(b) /\ (Len(a) + k) + i \in 1 .. Len(a) + Len(b)
                        /\ (Len(a) + k) + i = Len(a) + (k + i)
  BY <1>1
<1>4. k \in 1 .. Len(b) /\ Len(a) + k \in 1 .. Len(a \o b)
  BY <1>1, <1>2
<1>5. \A i \in 0 .. 5 : /\ k + i \in 1 .. Len(b) /\ (Len(a) + k) + i \in 1 .. Len(a \o b)
                        /\ (a \o b)[(Len(a) + k) + i] = b[k + i]
  BY <1>2, <1>3
<1> QED BY <1>2, <1>4, <1>5, SeedMoved

\* No block is made by putting something that opens a block of its own behind.
LEMMA SeedOfJoined ==
    ASSUME NEW a \in Seq(Line), NEW b \in Seq(Line), Opens(b),
           NEW ops \in SUBSET SeedOps, NEW k, SeedAt(a \o b, k, ops)
    PROVE  SeedAt(a, k, ops) \/ (k - Len(a) \in 1 .. Len(b) /\ SeedAt(b, k - Len(a), ops))
<1> DEFINE c == a \o b
           n == Len(a)
<1>1. /\ c \in Seq(Line) /\ Len(c) = n + Len(b) /\ n \in Nat /\ Len(b) \in Nat
      /\ \A i \in 1 .. n : c[i] = a[i]
      /\ \A i \in 1 .. Len(b) : c[n + i] = b[i]
  OBVIOUS
<1>2. k \in 1 .. Len(c) - 5
  BY DEF SeedAt
<1> HIDE DEF c, n
<1>3. \A i \in 0 .. 5 : k + i \in 1 .. Len(c)
  BY <1>1, <1>2
<1>4. CASE k + 5 <= n
  <2>1. \A i \in 0 .. 5 : k + i \in 1 .. n /\ a[k + i] = c[k + i]
    BY <1>1, <1>2, <1>4
  <2>2. k \in 1 .. n /\ k \in 1 .. Len(c) /\ n = Len(a)
    BY <1>1, <1>2, <1>4 DEF n
  <2>3. SeedAt(a, k, ops)
    BY <1>1, <1>3, <2>1, <2>2, SeedMoved DEF c
  <2> QED BY <2>3
<1>5. CASE k > n
  <2>1. \A i \in 0 .. 5 : /\ (k - n) + i \in 1 .. Len(b) /\ n + ((k - n) + i) = k + i
                          /\ b[(k - n) + i] = c[k + i]
    <3>1. ASSUME NEW i \in 0 .. 5
          PROVE /\ (k - n) + i \in 1 .. Len(b) /\ n + ((k - n) + i) = k + i
      BY <1>1, <1>2, <1>5
    <3> QED BY <1>1, <3>1
  <2>2. k - n \in 1 .. Len(b) /\ k \in 1 .. Len(c)
    BY <1>1, <1>2, <1>5
  <2>3. SeedAt(b, k - n, ops)
    BY <1>1, <1>3, <2>1, <2>2, SeedMoved DEF c
  <2> QED BY <2>2, <2>3 DEF n
<1>6. CASE k <= n /\ ~(k + 5 <= n)
  <2> DEFINE i == n + 1 - k
  <2>1. i \in 1 .. 5 /\ k + i = n + 1 /\ Len(b) # 0
    BY <1>1, <1>2, <1>6
  <2>2. b # <<>>
    BY <2>1
  <2>3. b[1] = "TARGET" /\ c[n + 1] = b[1]
    BY <1>1, <2>1, <2>2 DEF Opens
  <2>4. c[k + i] = "TARGET"
    BY <2>1, <2>3
  <2>5. \A m \in 1 .. 5 : c[k + m] # "TARGET"
    BY SeedLines DEF c
  <2> QED BY <2>1, <2>4, <2>5
<1> QED BY <1>1, <1>2, <1>4, <1>5, <1>6

LEMMA SeedlessJoined ==
    ASSUME NEW a \in Seq(Line), NEW b \in Seq(Line), Opens(b), NEW ops \in SUBSET SeedOps,
           Seedless(a, ops), Seedless(b, ops)
    PROVE  Seedless(a \o b, ops)
<1>1. ASSUME NEW k, SeedAt(a \o b, k, ops) PROVE FALSE
  <2>1. SeedAt(a, k, ops) => k \in 1 .. Len(a)
    <3>1. Len(a) \in Nat
      OBVIOUS
    <3> QED BY <3>1 DEF SeedAt
  <2> QED BY <1>1, <2>1, SeedOfJoined DEF Seedless
<1> QED BY <1>1 DEF Seedless

LEMMA SeedlessPart ==
    ASSUME NEW a \in Seq(Line), NEW b \in Seq(Line), NEW c \in Seq(Line), NEW ops,
           Seedless(a \o (b \o c), ops)
    PROVE  Seedless(b, ops)
<1>1. ASSUME NEW k, SeedAt(b, k, ops) PROVE FALSE
  <2>1. b \o c \in Seq(Line) /\ a \o (b \o c) \in Seq(Line)
    OBVIOUS
  <2>2. SeedAt(b \o c, k, ops)
    BY <1>1, SeedOfLeft
  <2>3. SeedAt(a \o (b \o c), Len(a) + k, ops)
    BY <2>1, <2>2, SeedOfRight
  <2>4. Len(a) + k \in 1 .. Len(a \o (b \o c))
    <3>1. Len(a \o (b \o c)) \in Nat
      BY <2>1
    <3> QED BY <2>3, <3>1 DEF SeedAt
  <2> QED BY <2>3, <2>4 DEF Seedless
<1> QED BY <1>1 DEF Seedless

\* What Core could read as such a block, the Worker sees as well.
LEMMA SeedSplit ==
    ASSUME NEW t \in Seq(Line), NEW ops \in SUBSET SeedOps, NEW k, SeedAt(t, k, ops)
    PROVE  ~Seedless(SplitLines(t), ops)
<1> DEFINE n == Len(t)
           a == SubSeq(t, 1, k - 1)
           h == SubSeq(t, k, k + 5)
           b == SubSeq(t, k + 6, n)
<1>1. n \in Nat /\ k \in 1 .. n - 5
  BY DEF SeedAt
<1>2. a \in Seq(Line) /\ b \in Seq(Line)
  <2>1. 1 \in 1 .. n + 1 /\ k - 1 \in 1 - 1 .. n /\ k + 6 \in 1 .. n + 1 /\ n \in (k + 6) - 1 .. n
    BY <1>1
  <2> QED BY <2>1, SubSeqIs
<1>3. h \in Seq(Line) /\ Len(h) = 6 /\ \A i \in 1 .. 6 : h[i] = t[k + i - 1]
  <2>1. k \in 1 .. n + 1 /\ k + 5 \in k - 1 .. n /\ (k + 5) - k + 1 = 6
    BY <1>1
  <2> QED BY <2>1, SubSeqIs
<1>4. t = a \o (h \o b)
  <2>1. k \in 1 .. n + 1 /\ k + 5 \in k - 1 .. n /\ n \in k + 5 .. n /\ (k + 5) + 1 = k + 6
    BY <1>1
  <2>2. SubSeq(t, k, k + 5) \o SubSeq(t, (k + 5) + 1, n) = SubSeq(t, k, n)
    BY <2>1, ConcatAdjacentSubSeq
  <2>3. 1 \in 1 .. n + 1 /\ k - 1 \in 1 - 1 .. n /\ n \in k - 1 .. n /\ (k - 1) + 1 = k
    BY <1>1
  <2>4. SubSeq(t, 1, k - 1) \o SubSeq(t, (k - 1) + 1, n) = SubSeq(t, 1, n)
    BY <2>3, ConcatAdjacentSubSeq
  <2> QED BY <2>1, <2>2, <2>3, <2>4, SubSeqFull
<1>5. \A i \in 1 .. 6 : h[i] \notin DOMAIN Separated
  <2>1. \A i \in 0 .. 5 : t[k + i] \notin DOMAIN Separated
    BY SeedLines
  <2>2. \A i \in 1 .. 6 : i - 1 \in 0 .. 5 /\ k + i - 1 = k + (i - 1)
    BY <1>1
  <2>3. ASSUME NEW i \in 1 .. 6 PROVE h[i] \notin DOMAIN Separated
    <3>1. h[i] = t[k + (i - 1)]
      BY <1>3, <2>2
    <3> QED BY <2>1, <2>2, <3>1
  <2> QED BY <2>3
<1> HIDE DEF a, h, b
<1>6. SplitLines(h) = h
  BY <1>3, <1>5, SplitOfWhole
<1>7. SeedAt(h, 1, ops)
  <2>1. 1 \in 1 .. Len(h) /\ k \in 1 .. Len(t)
    BY <1>1, <1>3
  <2>2. \A i \in 0 .. 5 : 1 + i \in 1 .. Len(h) /\ k + i \in 1 .. Len(t) /\ k + (1 + i) - 1 = k + i
    BY <1>1, <1>3
  <2>3. \A i \in 0 .. 5 : k + i \in 1 .. Len(t) /\ 1 + i \in 1 .. Len(h) /\ h[1 + i] = t[k + i]
    BY <1>3, <2>2
  <2> QED BY <1>3, <2>1, <2>3, SeedMoved
<1>8. SplitLines(t) = SplitLines(a) \o (h \o SplitLines(b))
  <2>1. h \o b \in Seq(Line)
    BY <1>2, <1>3
  <2>2. SplitLines(h \o b) = h \o SplitLines(b)
    BY <1>2, <1>3, <1>6, SplitConcat, ZenonT(30)
  <2>3. SplitLines(a \o (h \o b)) = SplitLines(a) \o SplitLines(h \o b)
    BY <1>2, <2>1, SplitConcat
  <2> QED BY <1>4, <2>2, <2>3
<1>9. SplitLines(a) \in Seq(Line) /\ SplitLines(b) \in Seq(Line)
  BY <1>2, SplitType
<1>10. ~Seedless(h, ops)
  <2>1. 1 \in 1 .. Len(h)
    BY <1>3
  <2> QED BY <1>7, <2>1 DEF Seedless
<1> QED BY <1>3, <1>8, <1>9, <1>10, SeedlessPart

\* A text in which the Worker sees no such block: neither does Core.
Clean(t, ops) == Seedless(Meaningful(SplitLines(t)), ops)

LEMMA CleanForCore ==
    ASSUME NEW t \in Seq(Line), NEW ops \in SUBSET SeedOps, Clean(t, ops)
    PROVE  Seedless(Meaningful(t), ops)
<1>1. Meaningful(t) \in Seq(Line) /\ Meaningful(SplitLines(t)) = SplitLines(Meaningful(t))
  BY MeaningfulType, MeaningfulSplit
<1>2. Seedless(SplitLines(Meaningful(t)), ops)
  BY <1>1 DEF Clean
<1>3. \A k : ~SeedAt(Meaningful(t), k, ops)
  BY <1>1, <1>2, SeedSplit
<1> QED BY <1>3 DEF Seedless

LEMMA SplitWhole ==
    ASSUME NEW t \in Seq(Line)
    PROVE  \A i \in 1 .. Len(SplitLines(t)) : SplitLines(t)[i] \notin DOMAIN Separated
<1> DEFINE Whole(u) == \A i \in 1 .. Len(u) : u[i] \notin DOMAIN Separated
           G == {u \in Seq(Line) : Whole(SplitLines(u))}
<1>1. <<>> \in G
  BY SplitEmpty
<1>2. ASSUME NEW u \in G, NEW l \in Line PROVE Append(u, l) \in G
  <2> DEFINE a == SplitLines(u)
             b == SplitLine(l)
  <2>1. u \in Seq(Line) /\ Append(u, l) \in Seq(Line) /\ Whole(a)
    BY <1>2
  <2>2. SplitLines(Append(u, l)) = a \o b /\ a \in Seq(Line) /\ b \in Seq(Line)
    BY <2>1, SplitAppend, SplitLineType
  <2>3. Whole(b)
    <3>1. CASE l \in DOMAIN Separated
      <4>1. \A i \in 1 .. Len(b) : b[i] \in {"first half", "second half"}
        BY <3>1, SplitLineType, PairAsSeq
      <4> QED BY <4>1 DEF Separated
    <3>2. CASE l \notin DOMAIN Separated
      <4>1. b = <<l>>
        BY <3>2, SplitLineType
      <4> QED BY <3>2, <4>1
    <3> QED BY <3>1, <3>2
  <2> HIDE DEF a, b
  <2>4. ASSUME NEW i \in 1 .. Len(a \o b) PROVE (a \o b)[i] \notin DOMAIN Separated
    <3>1. /\ Len(a) \in Nat /\ Len(b) \in Nat /\ Len(a \o b) = Len(a) + Len(b)
          /\ (a \o b)[i] = IF i <= Len(a) THEN a[i] ELSE b[i - Len(a)]
      BY <2>2, ConcatProperties
    <3>2. i <= Len(a) => i \in 1 .. Len(a)
      BY <3>1
    <3>3. ~(i <= Len(a)) => i - Len(a) \in 1 .. Len(b)
      BY <3>1
    <3> QED BY <2>1, <2>3, <3>1, <3>2, <3>3
  <2> QED BY <2>1, <2>2, <2>4
<1>3. Seq(Line) \subseteq G
  <2> HIDE DEF G
  <2> QED BY <1>1, <1>2, SeqInduction
<1> QED BY <1>3

\* Pieces that open with a block each, put together.
LEMMA FlattenSeedless ==
    ASSUME NEW e \in Seq(Seq(Line)), NEW ops \in SUBSET SeedOps,
           \A i \in 1 .. Len(e) : /\ SplitLines(e[i]) = e[i]
                                  /\ Opens(Meaningful(e[i]))
                                  /\ Seedless(Meaningful(e[i]), ops)
    PROVE  FlattenSeq(e) \in Seq(Line) /\ Clean(FlattenSeq(e), ops)
<1> DEFINE Piece(p) == SplitLines(p) = p /\ Opens(Meaningful(p)) /\ Seedless(Meaningful(p), ops)
           Good(t) == SplitLines(t) = t /\ Seedless(Meaningful(t), ops)
           G == {s \in Seq(Seq(Line)) : (\A i \in 1 .. Len(s) : Piece(s[i])) => Good(FlattenSeq(s))}
<1>0. ASSUME NEW s \in Seq(Seq(Line)) PROVE FlattenSeq(s) \in Seq(Line)
  <2>1. <<>> \in Seq(Line)
    OBVIOUS
  <2> QED BY <2>1, FlattenAppend
<1>1. <<>> \in G
  <2>1. Good(<<>>)
    BY SplitEmpty, MeaningfulEmpty DEF Seedless
  <2> QED BY <2>1, FlattenEmpty
<1>2. ASSUME NEW s \in G, NEW p \in Seq(Line) PROVE Append(s, p) \in G
  <2>1. s \in Seq(Seq(Line)) /\ Append(s, p) \in Seq(Seq(Line))
    BY <1>2
  <2>2. ASSUME \A i \in 1 .. Len(Append(s, p)) : Piece(Append(s, p)[i])
        PROVE  Good(FlattenSeq(Append(s, p)))
    <3> DEFINE f == FlattenSeq(s)
    <3>1. \A i \in 1 .. Len(s) : Piece(s[i])
      <4>1. \A i \in 1 .. Len(s) : Append(s, p)[i] = s[i] /\ i \in 1 .. Len(Append(s, p))
        BY <2>1
      <4> QED BY <2>2, <4>1
    <3>2. Piece(p)
      <4>1. Append(s, p)[Len(s) + 1] = p /\ Len(s) + 1 \in 1 .. Len(Append(s, p))
        BY <2>1
      <4> QED BY <2>2, <4>1
    <3>3. Good(f) /\ f \in Seq(Line)
      BY <1>0, <1>2, <2>1, <3>1
    <3>4. FlattenSeq(Append(s, p)) = f \o p
      BY <2>1, FlattenAppend
    <3> HIDE DEF f
    <3>5. SplitLines(f \o p) = f \o p
      BY <3>2, <3>3, SplitConcat
    <3>6. Meaningful(f) \in Seq(Line) /\ Meaningful(p) \in Seq(Line)
      BY <3>3, MeaningfulType
    <3>7. Seedless(Meaningful(f) \o Meaningful(p), ops)
      BY <3>2, <3>3, <3>6, SeedlessJoined
    <3> QED BY <3>3, <3>4, <3>5, <3>7, MeaningfulConcat
  <2> QED BY <2>1, <2>2
<1>3. Seq(Seq(Line)) \subseteq G
  <2> HIDE DEF G
  <2> QED BY <1>1, <1>2, SeqInduction
<1>4. Good(FlattenSeq(e))
  BY <1>3
<1> QED BY <1>0, <1>4 DEF Clean

\* The block that opens at line i, up to the next one.
BlockAt(lines, i) == SubSeq(lines, i, NextTarget(lines, i + 1) - 1)

LEMMA BlockIs ==
    ASSUME NEW lines \in Seq(Line), NEW i \in 1 .. Len(lines), lines[i] = "TARGET"
    PROVE  /\ BlockAt(lines, i) \in Seq(Line)
           /\ Opens(Meaningful(BlockAt(lines, i)))
           /\ \A k \in 2 .. Len(Meaningful(BlockAt(lines, i))) :
                 Meaningful(BlockAt(lines, i))[k] # "TARGET"
           /\ \A k \in 1 .. Len(BlockAt(lines, i)) :
                 \E j \in 1 .. Len(lines) : BlockAt(lines, i)[k] = lines[j]
           /\ \E a \in Seq(Line), c \in Seq(Line) : lines = a \o (BlockAt(lines, i) \o c)
<1> DEFINE n == Len(lines)
           e == NextTarget(lines, i + 1)
           b == BlockAt(lines, i)
           rest == SubSeq(lines, i + 1, e - 1)
           a == SubSeq(lines, 1, i - 1)
           c == SubSeq(lines, e, n)
<1>1. n \in Nat /\ i + 1 \in 1 .. n + 1
  OBVIOUS
<1>2. e \in i + 1 .. n + 1 /\ \A j \in i + 1 .. e - 1 : lines[j] # "TARGET"
  BY <1>1, NextTargetIs
<1> HIDE DEF e
<1>3. b = SubSeq(lines, i, e - 1)
  BY DEF BlockAt, e
<1>4. b \in Seq(Line) /\ Len(b) = e - i /\ \A k \in 1 .. e - i : b[k] = lines[i + k - 1]
  <2>1. i \in 1 .. n + 1 /\ e - 1 \in i - 1 .. n /\ (e - 1) - i + 1 = e - i
    BY <1>1, <1>2
  <2> QED BY <1>3, <2>1, SubSeqIs
<1>5. rest \in Seq(Line) /\ \A k \in 1 .. Len(rest) : rest[k] # "TARGET"
  <2>1. e - 1 \in (i + 1) - 1 .. n /\ (e - 1) - (i + 1) + 1 = e - i - 1
    BY <1>1, <1>2
  <2>2. rest \in Seq(Line) /\ Len(rest) = e - i - 1 /\ \A k \in 1 .. e - i - 1 : rest[k] = lines[(i + 1) + k - 1]
    BY <1>1, <2>1, SubSeqIs
  <2>3. \A k \in 1 .. e - i - 1 : (i + 1) + k - 1 \in i + 1 .. e - 1
    BY <1>1, <1>2
  <2> QED BY <1>2, <2>2, <2>3
<1>6. b = <<"TARGET">> \o rest
  <2>1. SubSeq(lines, i, i) = <<"TARGET">>
    <3>1. i \in 1 .. n + 1 /\ i \in i - 1 .. n /\ i - i + 1 = 1 /\ i + 1 - 1 = i
      BY <1>1
    <3>2. SubSeq(lines, i, i) \in Seq(Line) /\ Len(SubSeq(lines, i, i)) = 1 /\ SubSeq(lines, i, i)[1] = lines[i]
      BY <3>1, SubSeqIs
    <3> DEFINE s == SubSeq(lines, i, i)
    <3>3. s \in Seq(Line) /\ Len(s) = 1 /\ s[1] = "TARGET"
      BY <3>2
    <3> HIDE DEF s
    <3>4. s = <<s[1]>>
      BY <3>3
    <3> QED BY <3>3, <3>4 DEF s
  <2>2. i \in 1 .. n + 1 /\ i \in i - 1 .. n /\ e - 1 \in i .. n
    BY <1>1, <1>2
  <2> QED BY <1>3, <2>1, <2>2, ConcatAdjacentSubSeq
<1>7. "TARGET" \in Line /\ "TARGET" # Blank
  BY WordsAreLines DEF Blank
<1>8. Meaningful(<<"TARGET">>) = <<"TARGET">> /\ <<"TARGET">> \in Seq(Line)
  <2>1. <<"TARGET">> \in Seq(Line) /\ \A j \in 1 .. Len(<<"TARGET">>) : <<"TARGET">>[j] # Blank
    BY <1>7
  <2> QED BY <2>1, MeaningfulOfFull
<1> HIDE DEF b, rest
<1> DEFINE m == Meaningful(rest)
<1>9. m \in Seq(Line) /\ \A k \in 1 .. Len(m) : m[k] # "TARGET"
  BY <1>5, MeaningfulLines
<1>10. Meaningful(b) = <<"TARGET">> \o m
  BY <1>5, <1>6, <1>8, MeaningfulConcat
<1> HIDE DEF m
<1>11. Opens(Meaningful(b)) /\ \A k \in 2 .. Len(Meaningful(b)) : Meaningful(b)[k] # "TARGET"
  <2>1. Len(<<"TARGET">> \o m) = 1 + Len(m) /\ Len(m) \in Nat /\ (<<"TARGET">> \o m)[1] = "TARGET"
        /\ \A k \in 1 .. Len(m) : (<<"TARGET">> \o m)[1 + k] = m[k]
    BY <1>8, <1>9
  <2>2. \A k \in 2 .. 1 + Len(m) : k - 1 \in 1 .. Len(m) /\ 1 + (k - 1) = k
    BY <2>1
  <2>3. \A k \in 2 .. 1 + Len(m) : (<<"TARGET">> \o m)[k] # "TARGET"
    BY <1>9, <2>1, <2>2
  <2> QED BY <1>10, <2>1, <2>3 DEF Opens
<1>12. \A k \in 1 .. Len(b) : \E j \in 1 .. n : b[k] = lines[j]
  <2>1. \A k \in 1 .. e - i : i + k - 1 \in 1 .. n
    BY <1>1, <1>2
  <2> QED BY <1>4, <2>1
<1>13. a \in Seq(Line) /\ c \in Seq(Line) /\ lines = a \o (b \o c)
  <2>1. 1 \in 1 .. n + 1 /\ i - 1 \in 1 - 1 .. n /\ e \in 1 .. n + 1 /\ n \in e - 1 .. n
    BY <1>1, <1>2
  <2>2. a \in Seq(Line) /\ c \in Seq(Line)
    BY <2>1, SubSeqIs
  <2>3. i \in 1 .. n + 1 /\ e - 1 \in i - 1 .. n /\ n \in e - 1 .. n /\ (e - 1) + 1 = e
    BY <1>1, <1>2
  <2>4. SubSeq(lines, i, e - 1) \o SubSeq(lines, (e - 1) + 1, n) = SubSeq(lines, i, n)
    BY <2>3, ConcatAdjacentSubSeq
  <2>5. n \in i - 1 .. n /\ (i - 1) + 1 = i
    BY <1>1
  <2>6. SubSeq(lines, 1, i - 1) \o SubSeq(lines, (i - 1) + 1, n) = SubSeq(lines, 1, n)
    BY <2>1, <2>5, ConcatAdjacentSubSeq
  <2> QED BY <1>3, <2>2, <2>3, <2>4, <2>5, <2>6, SubSeqFull
<1> QED BY <1>4, <1>11, <1>12, <1>13 DEF b

LEMMA OwnedBySeed ==
    ASSUME NEW lines, NEW k, NEW ops, SeedAt(lines, k, ops), Len(lines) \in Nat
    PROVE  OwnedBlockAt(lines, k, ops)
<1>1. k + 5 <= Len(lines)
  BY DEF SeedAt
<1> QED BY <1>1 DEF SeedAt, OwnedBlockAt

\* What a lane may not say is gone from the text, and nothing of another kind
\* has come in.
LEMMA Removal ==
    ASSUME NEW text_ \in Seq(Line), NEW ops \in SUBSET SeedOps
    PROVE  LET r == RemoveNewDispositionChanges(text_, ops)
           IN  /\ r \in Seq(Line)
               /\ Clean(r, ops)
               /\ \A other \in SUBSET SeedOps : Clean(text_, other) => Clean(r, other)
<1> DEFINE r == RemoveNewDispositionChanges(text_, ops)
           lines == SplitLines(text_)
           values == Meaningful(lines)
           starts == {i \in DOMAIN lines : lines[i] = "TARGET"}
           Kept(i) == i \in starts /\ ~OwnedBlockAt(Meaningful(BlockAt(lines, i)), 1, ops)
           e == [i \in DOMAIN lines |-> IF Kept(i) THEN BlockAt(lines, i) ELSE <<>>]
<1>1. lines \in Seq(Line) /\ values \in Seq(Line)
  BY SplitType, MeaningfulType
<1>2. \/ r = text_ /\ \A k \in DOMAIN values : ~OwnedBlockAt(values, k, ops)
      \/ r = <<>>
      \/ r = Strip(FlattenSeq(e))
  BY DEF RemoveNewDispositionChanges, BlockAt
<1>3. CASE r = text_ /\ \A k \in DOMAIN values : ~OwnedBlockAt(values, k, ops)
  <2>1. DOMAIN values = 1 .. Len(values) /\ Len(values) \in Nat
    BY <1>1
  <2>2. \A k \in 1 .. Len(values) : ~SeedAt(values, k, ops)
    <3> HIDE DEF values
    <3> QED BY <1>3, <2>1, OwnedBySeed
  <2>3. Clean(text_, ops)
    BY <2>2 DEF Clean, Seedless
  <2> QED BY <1>3, <2>3
<1>4. CASE r = <<>>
  <2>1. Len(Meaningful(SplitLines(<<>>))) = 0
    BY SplitEmpty, MeaningfulEmpty
  <2>2. \A other : Clean(<<>>, other)
    BY <2>1 DEF Clean, Seedless
  <2>3. <<>> \in Seq(Line)
    OBVIOUS
  <2> QED BY <1>4, <2>2, <2>3
<1>5. CASE r = Strip(FlattenSeq(e))
  <2> DEFINE f == FlattenSeq(e)
  <2>1. DOMAIN lines = 1 .. Len(lines) /\ Len(lines) \in Nat
    BY <1>1
  <2>2. ASSUME NEW i \in 1 .. Len(lines)
        PROVE  /\ e[i] \in Seq(Line)
               /\ SplitLines(e[i]) = e[i]
               /\ Opens(Meaningful(e[i]))
               /\ Seedless(Meaningful(e[i]), ops)
               /\ \A other \in SUBSET SeedOps :
                     Clean(text_, other) => Seedless(Meaningful(e[i]), other)
    <3>1. e[i] = IF Kept(i) THEN BlockAt(lines, i) ELSE <<>>
      BY <2>1
    <3>2. CASE ~Kept(i)
      <4>1. e[i] = <<>>
        BY <3>1, <3>2
      <4>2. Meaningful(<<>>) = <<>> /\ SplitLines(<<>>) = <<>> /\ <<>> \in Seq(Line) /\ Len(<<>>) = 0
        BY SplitEmpty, MeaningfulEmpty
      <4> HIDE DEF e
      <4> QED BY <4>1, <4>2 DEF Opens, Seedless
    <3>3. CASE Kept(i)
      <4> DEFINE b == BlockAt(lines, i)
                 m == Meaningful(b)
      <4>1. e[i] = b /\ lines[i] = "TARGET" /\ ~OwnedBlockAt(m, 1, ops)
        BY <2>1, <3>1, <3>3
      <4> HIDE DEF e
      <4>2. /\ b \in Seq(Line) /\ Opens(m) /\ \A k \in 2 .. Len(m) : m[k] # "TARGET"
            /\ \A k \in 1 .. Len(b) : \E j \in 1 .. Len(lines) : b[k] = lines[j]
        BY <1>1, <4>1, BlockIs
      <4>3. PICK a \in Seq(Line), c \in Seq(Line) : lines = a \o (b \o c)
        BY <1>1, <4>1, BlockIs
      <4>4. m \in Seq(Line) /\ Len(m) \in Nat
        BY <4>2, MeaningfulType
      <4>5. SplitLines(b) = b
        <5>1. \A j \in 1 .. Len(lines) : lines[j] \notin DOMAIN Separated
          BY SplitWhole
        <5>2. \A k \in 1 .. Len(b) : b[k] \notin DOMAIN Separated
          BY <4>2, <5>1
        <5> QED BY <4>2, <5>2, SplitOfWhole
      <4> HIDE DEF m
      <4>6. Seedless(m, ops)
        <5>1. ASSUME NEW k \in 1 .. Len(m), SeedAt(m, k, ops) PROVE FALSE
          <6>1. m[k] = "TARGET"
            BY <5>1 DEF SeedAt, HasHeader
          <6>2. k = 1
            BY <4>2, <4>4, <6>1
          <6> QED BY <4>1, <4>4, <5>1, <6>2, OwnedBySeed
        <5> QED BY <5>1 DEF Seedless
      <4>7. ASSUME NEW other \in SUBSET SeedOps, Clean(text_, other)
            PROVE  Seedless(m, other)
        <5>1. Meaningful(a) \in Seq(Line) /\ Meaningful(c) \in Seq(Line) /\ b \o c \in Seq(Line)
          BY <4>2, <4>3, MeaningfulType
        <5>2. Meaningful(b \o c) = m \o Meaningful(c)
          BY <4>2, <4>3, MeaningfulConcat DEF m
        <5>3. values = Meaningful(a) \o Meaningful(b \o c)
          BY <4>2, <4>3, <5>1, MeaningfulConcat
        <5>4. Seedless(Meaningful(a) \o (m \o Meaningful(c)), other)
          BY <4>7, <5>2, <5>3 DEF Clean
        <5> QED BY <4>4, <5>1, <5>4, SeedlessPart
      <4> QED BY <4>1, <4>2, <4>5, <4>6, <4>7 DEF m
    <3> QED BY <3>2, <3>3
  <2>3. e \in Seq(Seq(Line)) /\ Len(e) = Len(lines)
    <3>1. \A i \in 1 .. Len(lines) : e[i] \in Seq(Line)
      BY <2>2
    <3>2. DOMAIN e = 1 .. Len(lines) /\ e = [i \in 1 .. Len(lines) |-> e[i]]
      BY <2>1
    <3> HIDE DEF e
    <3> QED BY <2>1, <3>1, <3>2
  <2> HIDE DEF e
  <2>4. f \in Seq(Line) /\ Clean(f, ops)
    BY <2>2, <2>3, FlattenSeedless
  <2>5. ASSUME NEW other \in SUBSET SeedOps, Clean(text_, other) PROVE Clean(f, other)
    BY <2>2, <2>3, <2>5, FlattenSeedless
  <2> HIDE DEF f
  <2>6. r \in Seq(Line) /\ Meaningful(r) = Meaningful(f)
    BY <1>5, <2>4, StripIs DEF f
  <2>7. Meaningful(SplitLines(r)) = Meaningful(SplitLines(f))
    BY <2>4, <2>6, MeaningfulSplit
  <2> HIDE DEF r
  <2>8. \A other : Clean(f, other) => Clean(r, other)
    BY <2>7 DEF Clean
  <2>9. r \in Seq(Line) /\ Clean(r, ops) /\ \A other \in SUBSET SeedOps : Clean(text_, other) => Clean(r, other)
    BY <2>4, <2>5, <2>6, <2>8
  <2> QED BY <2>9 DEF r
<1> QED BY <1>2, <1>3, <1>4, <1>5

-----------------------------------------------------------------------------
(* The repairs give texts *)

LEMMA MeaningfulAtIs ==
    ASSUME NEW t \in Seq(Line)
    PROVE  /\ MeaningfulAt(t) \in Seq(1 .. Len(t))
<1> DEFINE N == 1 .. Len(t)
           s == [i \in DOMAIN t |-> i]
           P == {i \in DOMAIN t : t[i] # Blank}
<1>1. s \in Seq(N)
  <2>1. DOMAIN t = 1 .. Len(t) /\ Len(t) \in Nat
    OBVIOUS
  <2> QED BY <2>1
<1>2. Sublist(s, P) \in Seq(N)
  <2> HIDE DEF s, P, N
  <2> QED BY <1>1, SublistElements
<1> QED BY <1>2 DEF MeaningfulAt

LEMMA SplitCopiedType ==
    ASSUME NEW t \in Seq(Line), NEW allowed
    PROVE  SplitCopiedInlineApplication(t, allowed) \in Seq(Line)
<1> DEFINE r == SplitCopiedInlineApplication(t, allowed)
           at == MeaningfulAt(t)
           n == Len(t)
<1>1. at \in Seq(1 .. n) /\ n \in Nat
  BY MeaningfulAtIs
<1>2. \/ r = t
      \/ \E m \in DOMAIN at : /\ t[at[m]] \in DOMAIN InlineApplication
                              /\ r = SubSeq(t, 1, at[m] - 1)
                                     \o <<"APPLICATION", InlineApplication[t[at[m]]]>>
                                     \o SubSeq(t, at[m] + 1, n)
  <2> DEFINE hits == {m \in DOMAIN at : /\ t[at[m]] \in DOMAIN InlineApplication
                                        /\ m > 1 /\ m < Len(at)
                                        /\ t[at[m - 1]] \in allowed
                                        /\ t[at[m + 1]] = "CHANGE"}
             hit == at[Min(hits)]
  <2>1. r = IF hits = {} THEN t
            ELSE SubSeq(t, 1, hit - 1) \o <<"APPLICATION", InlineApplication[t[hit]]>>
                 \o SubSeq(t, hit + 1, n)
    BY DEF SplitCopiedInlineApplication
  <2>2. hits \subseteq Nat
    <3> HIDE DEF at
    <3> QED BY <1>1
  <2>3. hits # {} => Min(hits) \in hits
    <3> HIDE DEF hits
    <3> QED BY <2>2, LeastIs
  <2>4. Min(hits) \in hits => Min(hits) \in DOMAIN at /\ t[hit] \in DOMAIN InlineApplication
    OBVIOUS
  <2> HIDE DEF hits
  <2> QED BY <2>1, <2>3, <2>4
<1> HIDE DEF at, r
<1>3. CASE r = t
  BY <1>3 DEF r
<1>4. CASE r # t
  <2>1. PICK m \in DOMAIN at : /\ t[at[m]] \in DOMAIN InlineApplication
                               /\ r = SubSeq(t, 1, at[m] - 1)
                                      \o <<"APPLICATION", InlineApplication[t[at[m]]]>>
                                      \o SubSeq(t, at[m] + 1, n)
    BY <1>2, <1>4
  <2>2. PICK h : h = at[m]
    OBVIOUS
  <2>3. h \in 1 .. n
    BY <1>1, <2>2
  <2>4. SubSeq(t, 1, h - 1) \in Seq(Line) /\ SubSeq(t, h + 1, n) \in Seq(Line)
    <3>1. 1 \in 1 .. n + 1 /\ h - 1 \in 1 - 1 .. n /\ h + 1 \in 1 .. n + 1 /\ n \in (h + 1) - 1 .. n
      BY <1>1, <2>3
    <3> QED BY <3>1, SubSeqIs
  <2>5. InlineApplication[t[h]] \in {"SELF", "RELATION"}
    BY <2>1, <2>2 DEF InlineApplication
  <2>6. PICK v : v = InlineApplication[t[h]]
    OBVIOUS
  <2>7. v \in Line /\ "APPLICATION" \in Line
    BY <2>5, <2>6, WordsAreLines
  <2>8. <<"APPLICATION", v>> \in Seq(Line)
    BY <2>7, PairAsSeq
  <2>9. PICK a, b, c : a = SubSeq(t, 1, h - 1) /\ b = <<"APPLICATION", v>> /\ c = SubSeq(t, h + 1, n)
    OBVIOUS
  <2>10. r = a \o b \o c /\ a \in Seq(Line) /\ b \in Seq(Line) /\ c \in Seq(Line)
    BY <2>1, <2>2, <2>4, <2>6, <2>8, <2>9
  <2>11. a \o b \o c \in Seq(Line)
    BY <2>10
  <2> QED BY <2>10, <2>11 DEF r
<1> QED BY <1>3, <1>4 DEF r

LEMMA RestoreType ==
    ASSUME NEW t \in Seq(Line), NEW allowed
    PROVE  RestoreInitialNewTarget(t, allowed) \in Seq(Line)
<1> DEFINE at == MeaningfulAt(t)
           n == Len(t)
           r == RestoreInitialNewTarget(t, allowed)
<1>1. at \in Seq(1 .. n) /\ n \in Nat
  BY MeaningfulAtIs
<1>2. r = t \/ (Len(at) >= 2 /\ r = InsertAt(t, at[1], "TARGET"))
  BY DEF RestoreInitialNewTarget
<1> HIDE DEF at, r
<1>3. CASE Len(at) >= 2 /\ r = InsertAt(t, at[1], "TARGET")
  <2>1. PICK h : h = at[1]
    OBVIOUS
  <2>2. h \in 1 .. n
    BY <1>1, <1>3, <2>1
  <2>3. SubSeq(t, 1, h - 1) \in Seq(Line) /\ SubSeq(t, h, n) \in Seq(Line)
    <3>1. 1 \in 1 .. n + 1 /\ h - 1 \in 1 - 1 .. n /\ h \in 1 .. n + 1 /\ n \in h - 1 .. n
      BY <1>1, <2>2
    <3> QED BY <3>1, SubSeqIs
  <2>4. <<"TARGET">> \in Seq(Line)
    <3>1. "TARGET" \in Line
      BY WordsAreLines
    <3> QED BY <3>1
  <2>5. PICK a, b, c : a = SubSeq(t, 1, h - 1) /\ b = <<"TARGET">> /\ c = SubSeq(t, h, n)
    OBVIOUS
  <2>6. r = a \o b \o c
    BY <1>3, <2>1, <2>5 DEF InsertAt
  <2>7. a \in Seq(Line) /\ b \in Seq(Line) /\ c \in Seq(Line)
    BY <2>3, <2>4, <2>5
  <2>8. a \o b \o c \in Seq(Line)
    BY <2>7
  <2> QED BY <2>6, <2>8 DEF r
<1> QED BY <1>2, <1>3 DEF r

\* What reading the lines one after the other builds.
ReadState == [on : BOOLEAN, seen : SUBSET Line, lines : Seq(Line)]
ReadStep(t, allowed, i, acc) ==
    LET line == t[i]
        Keep(on, refs) == [on |-> on, seen |-> refs, lines |-> Append(acc.lines, line)]
    IN  CASE line = "TARGET" -> Keep(FALSE, {})
          [] line = "BASIS" ->
               IF /\ acc.seen # {}
                  /\ CompleteBasisTail(SubSeq(t, i + 1, Len(t)), allowed)
               THEN acc ELSE Keep(TRUE, {})
          [] acc.on /\ line \in allowed ->
               IF line \in acc.seen THEN acc ELSE Keep(TRUE, acc.seen \cup {line})
          [] line = Blank -> Keep(acc.on, acc.seen)
          [] OTHER -> Keep(FALSE, {})

LEMMA ReadStepType ==
    ASSUME NEW t \in Seq(Line), NEW allowed, NEW i \in 1 .. Len(t), NEW acc \in ReadState
    PROVE  ReadStep(t, allowed, i, acc) \in ReadState
<1> DEFINE line == t[i]
           Keep(on, refs) == [on |-> on, seen |-> refs, lines |-> Append(acc.lines, line)]
<1>1. line \in Line /\ acc.lines \in Seq(Line) /\ acc.on \in BOOLEAN /\ acc.seen \in SUBSET Line
  BY DEF ReadState
<1>2. ASSUME NEW on \in BOOLEAN, NEW refs \in SUBSET Line PROVE Keep(on, refs) \in ReadState
  <2>1. Append(acc.lines, line) \in Seq(Line)
    BY <1>1
  <2> HIDE DEF line
  <2> QED BY <2>1 DEF ReadState
<1>3. {} \in SUBSET Line /\ acc.seen \cup {line} \in SUBSET Line
  BY <1>1
<1>4. \/ ReadStep(t, allowed, i, acc) = acc
      \/ \E on \in BOOLEAN, refs \in SUBSET Line : ReadStep(t, allowed, i, acc) = Keep(on, refs)
  <2>1. PICK s : s = ReadStep(t, allowed, i, acc)
    OBVIOUS
  <2>2. \/ s = acc \/ s = Keep(FALSE, {}) \/ s = Keep(TRUE, {})
        \/ s = Keep(TRUE, acc.seen \cup {line}) \/ s = Keep(acc.on, acc.seen)
    BY <2>1 DEF ReadStep
  <2> HIDE DEF line, Keep
  <2> QED BY <1>1, <1>3, <2>1, <2>2
<1> HIDE DEF Keep, line
<1> QED BY <1>2, <1>4

LEMMA DeduplicateType ==
    ASSUME NEW t \in Seq(Line), NEW allowed
    PROVE  DeduplicateBasis(t, allowed) \in Seq(Line)
<1> DEFINE n == Len(t)
           init == [on |-> FALSE, seen |-> {}, lines |-> <<>>]
           Def(f) == [i \in 0 .. n |-> IF i = 0 THEN init ELSE ReadStep(t, allowed, i, f[i - 1])]
<1>0. n \in Nat
  OBVIOUS
<1>1. init \in ReadState
  <2>1. <<>> \in Seq(Line)
    OBVIOUS
  <2> QED BY <2>1 DEF ReadState
<1>2. PICK step : step = [i \in 1 .. n |-> [acc \in ReadState |-> ReadStep(t, allowed, i, acc)]]
  OBVIOUS
<1>3. step \in [1 .. n -> [ReadState -> ReadState]]
  BY <1>2, ReadStepType
<1>4. PICK g : Built(g, n, ReadState, init, step)
  <2> HIDE DEF init
  <2> QED BY <1>0, <1>1, <1>3, Recursion
<1>5. \E f : f = Def(f)
  <2>1. \A i \in 0 .. n : g[i] \in ReadState
    BY <1>4 DEF Built
  <2>2. ASSUME NEW i \in 1 .. n PROVE g[i] = ReadStep(t, allowed, i, g[i - 1])
    <3>1. i - 1 \in 0 .. n
      BY <1>0
    <3>2. g[i] = step[i][g[i - 1]]
      BY <1>4 DEF Built
    <3> QED BY <1>2, <2>1, <3>1, <3>2
  <2>3. g = [i \in 0 .. n |-> g[i]] /\ g[0] = init
    BY <1>4 DEF Built
  <2>4. \A i \in 0 .. n : i # 0 => i \in 1 .. n
    BY <1>0
  <2>5. \A i \in 0 .. n : g[i] = IF i = 0 THEN init ELSE ReadStep(t, allowed, i, g[i - 1])
    BY <2>2, <2>3, <2>4
  <2>6. g = Def(g)
    BY <2>3, <2>5
  <2> QED BY <2>6
<1>6. PICK f : f = (CHOOSE h : h = Def(h)) /\ f = Def(f)
  BY <1>5
<1>7. f[0] = init /\ \A i \in 1 .. n : f[i] = ReadStep(t, allowed, i, f[i - 1])
  <2>1. 0 \in 0 .. n /\ \A i \in 1 .. n : i \in 0 .. n /\ i # 0
    BY <1>0
  <2> QED BY <1>6, <2>1
<1>8. DeduplicateBasis(t, allowed) = f[n].lines
  BY <1>6 DEF DeduplicateBasis, ReadStep
<1>9. f[n] \in ReadState
  <2> DEFINE G == {i \in 0 .. n : f[i] \in ReadState}
  <2>1. 0 \in G
    BY <1>0, <1>1, <1>7
  <2>2. ASSUME NEW i \in 0 .. n - 1, i \in G PROVE i + 1 \in G
    <3>1. i + 1 \in 1 .. n /\ (i + 1) - 1 = i /\ i + 1 \in 0 .. n
      BY <1>0
    <3>2. f[i + 1] = ReadStep(t, allowed, i + 1, f[i])
      BY <1>7, <3>1
    <3>3. f[i] \in ReadState
      BY <2>2
    <3> QED BY <3>1, <3>2, <3>3, ReadStepType
  <2> HIDE DEF G
  <2>3. 0 .. n \subseteq G
    BY <1>0, <2>1, <2>2, UpTo
  <2>4. n \in G
    BY <1>0, <2>3
  <2> QED BY <2>4 DEF G
<1> QED BY <1>8, <1>9 DEF ReadState

\* The primary answer after its repairs: a text without a Seed that a single
\* Episode would make.
LEMMA RepairIs ==
    ASSUME NEW r, NEW answer \in Seq(Line)
    PROVE  RepairPrimary(r, answer) \in Seq(Line) /\ Clean(RepairPrimary(r, answer), {"ADAPT"})
<1>1. PICK token, whole, bounded, unique :
        /\ token = IF Strip(answer) = <<"NO_CHANGE">> THEN <<>> ELSE answer
        /\ whole = RestoreInitialNewTarget(SplitCopiedInlineApplication(token, Targets(r)),
                                           Targets(r))
        /\ bounded = IF Len(whole) > MaxTaggedLines THEN <<>> ELSE whole
        /\ unique = DeduplicateBasis(bounded, Basis(r))
  OBVIOUS
<1>2. RepairPrimary(r, answer) = RemoveNewDispositionChanges(unique, {"ADAPT"})
  BY <1>1 DEF RepairPrimary
<1>3. <<>> \in Seq(Line)
  OBVIOUS
<1>4. token \in Seq(Line)
  BY <1>1, <1>3
<1>5. whole \in Seq(Line)
  BY <1>1, <1>4, SplitCopiedType, RestoreType
<1>6. bounded \in Seq(Line)
  BY <1>1, <1>3, <1>5
<1>7. unique \in Seq(Line)
  BY <1>1, <1>6, DeduplicateType
<1>8. {"ADAPT"} \in SUBSET SeedOps
  BY DEF SeedOps
<1> QED BY <1>2, <1>7, <1>8, Removal

LEMMA LeftIs ==
    ASSUME NEW r, NEW t \in Seq(Line), Clean(t, {"ADAPT"})
    PROVE  /\ LeaveToFormation(r, t) \in Seq(Line)
           /\ Clean(LeaveToFormation(r, t), {"ADAPT"})
           /\ HasDispositionFormationAnchor(r) => Clean(LeaveToFormation(r, t), {"TEXT"})
<1>1. {"ADAPT"} \in SUBSET SeedOps /\ {"TEXT"} \in SUBSET SeedOps
  BY DEF SeedOps
<1>2. CASE HasDispositionFormationAnchor(r)
  <2>1. LeaveToFormation(r, t) = RemoveNewDispositionChanges(t, {"TEXT"})
    BY <1>2 DEF LeaveToFormation
  <2> QED BY <1>1, <2>1, Removal
<1>3. CASE ~HasDispositionFormationAnchor(r)
  BY <1>3 DEF LeaveToFormation
<1> QED BY <1>2, <1>3

-----------------------------------------------------------------------------
(* What the other lanes add *)

\* No block of the text is for a new Disposition.
Headless(s) == \A k \in 1 .. Len(s) - 1 : ~(s[k] = "TARGET" /\ s[k + 1] = "NEW_DISPOSITION")

\* Text without blank lines.
Full(s) == s \in Seq(Line) /\ \A i \in 1 .. Len(s) : s[i] # Blank

Addition(s) == Full(s) /\ Opens(s) /\ Headless(s)

LEMMA HeadlessIsSeedless ==
    ASSUME NEW s \in Seq(Line), Headless(s), NEW ops
    PROVE  Seedless(s, ops)
<1>1. ASSUME NEW k, SeedAt(s, k, ops) PROVE FALSE
  <2>1. k \in 1 .. Len(s) - 5 /\ Len(s) \in Nat /\ s[k] = "TARGET" /\ s[k + 1] = "NEW_DISPOSITION"
    BY <1>1 DEF SeedAt, HasHeader
  <2>2. k \in 1 .. Len(s) - 1
    BY <2>1
  <2> QED BY <2>1, <2>2 DEF Headless
<1> QED BY <1>1 DEF Seedless

LEMMA OpensJoined ==
    ASSUME NEW a \in Seq(Line), NEW b \in Seq(Line), Opens(a), Opens(b)
    PROVE  Opens(a \o b)
<1>1. CASE a = <<>>
  <2>1. <<>> \o b = b
    OBVIOUS
  <2> QED BY <1>1, <2>1
<1>2. CASE a # <<>>
  <2>1. Len(a) \in Nat /\ Len(a) # 0
    BY <1>2
  <2>2. 1 \in 1 .. Len(a)
    BY <2>1
  <2>3. (a \o b)[1] = a[1]
    BY <2>2
  <2> QED BY <1>2, <2>3 DEF Opens
<1> QED BY <1>1, <1>2

LEMMA HeadlessJoined ==
    ASSUME NEW a \in Seq(Line), NEW b \in Seq(Line), Headless(a), Headless(b), Opens(b)
    PROVE  Headless(a \o b)
<1> DEFINE n == Len(a)
           c == a \o b
<1>1. /\ n \in Nat /\ Len(b) \in Nat /\ Len(c) = n + Len(b) /\ n = Len(a)
      /\ \A i \in 1 .. n : c[i] = a[i]
      /\ \A i \in 1 .. Len(b) : c[n + i] = b[i]
  OBVIOUS
<1> HIDE DEF c, n
<1>2. ASSUME NEW k \in 1 .. Len(c) - 1, c[k] = "TARGET", c[k + 1] = "NEW_DISPOSITION" PROVE FALSE
  <2>1. CASE k + 1 <= n
    <3>1. k \in 1 .. n - 1 /\ k \in 1 .. n /\ k + 1 \in 1 .. n
      BY <1>1, <2>1
    <3>2. a[k] = "TARGET" /\ a[k + 1] = "NEW_DISPOSITION"
      BY <1>1, <1>2, <3>1
    <3> QED BY <1>1, <3>1, <3>2 DEF Headless
  <2>2. CASE k > n
    <3>1. k - n \in 1 .. Len(b) - 1 /\ k - n \in 1 .. Len(b) /\ (k - n) + 1 \in 1 .. Len(b)
          /\ n + (k - n) = k /\ n + ((k - n) + 1) = k + 1
      BY <1>1, <2>2
    <3>2. b[k - n] = "TARGET" /\ b[(k - n) + 1] = "NEW_DISPOSITION"
      BY <1>1, <1>2, <3>1
    <3> QED BY <3>1, <3>2 DEF Headless
  <2>3. CASE k = n
    <3>1. 1 \in 1 .. Len(b) /\ Len(b) # 0
      BY <1>1, <2>3
    <3>2. b # <<>>
      BY <3>1
    <3>3. c[k + 1] = "TARGET"
      BY <1>1, <2>3, <3>1, <3>2 DEF Opens
    <3> QED BY <1>2, <3>3
  <2> QED BY <1>1, <2>1, <2>2, <2>3
<1> QED BY <1>2 DEF Headless, c

LEMMA FullJoined ==
    ASSUME NEW a, NEW b, Full(a), Full(b)
    PROVE  Full(a \o b)
<1>1. a \in Seq(Line) /\ b \in Seq(Line)
  BY DEF Full
<1>2. a \o b \in Seq(Line) /\ Len(a) \in Nat /\ Len(b) \in Nat /\ Len(a \o b) = Len(a) + Len(b)
      /\ \A i \in 1 .. Len(a \o b) : (a \o b)[i] = IF i <= Len(a) THEN a[i] ELSE b[i - Len(a)]
  BY <1>1, ConcatProperties
<1>3. ASSUME NEW i \in 1 .. Len(a \o b) PROVE (a \o b)[i] # Blank
  <2>1. i <= Len(a) => i \in 1 .. Len(a)
    BY <1>2
  <2>2. ~(i <= Len(a)) => i - Len(a) \in 1 .. Len(b)
    BY <1>2
  <2> QED BY <1>2, <2>1, <2>2 DEF Full
<1> QED BY <1>2, <1>3 DEF Full

LEMMA AdditionJoined ==
    ASSUME NEW a, NEW b, Addition(a), Addition(b)
    PROVE  Addition(a \o b)
<1>1. a \in Seq(Line) /\ b \in Seq(Line)
  BY DEF Addition, Full
<1> QED BY <1>1, OpensJoined, HeadlessJoined, FullJoined DEF Addition

LEMMA NoAddition == Addition(<<>>)
<1>1. <<>> \in Seq(Line) /\ Len(<<>>) = 0
  OBVIOUS
<1> QED BY <1>1 DEF Addition, Full, Opens, Headless

\* A full text is added behind the other or not at all.
LEMMA AppendedIs ==
    ASSUME NEW t \in Seq(Line), NEW x, Full(x), NEW r, r = AppendTaggedText(t, x)
    PROVE  /\ r \in Seq(Line)
           /\ \/ r = t
              \/ x # <<>> /\ Len(x) <= MaxTaggedLines /\ Meaningful(r) = Meaningful(t) \o x
<1>1. x \in Seq(Line) /\ Meaningful(x) = x
  BY MeaningfulOfFull DEF Full
<1>2. PICK a : a = RStrip(t)
  OBVIOUS
<1>3. a \in Seq(Line) /\ Meaningful(a) = Meaningful(t)
  BY <1>2, RStripIs
<1>4. r = IF x = <<>> \/ Len(a \o x) > MaxTaggedLines THEN t ELSE a \o x
  BY <1>2 DEF AppendTaggedText
<1>5. CASE x = <<>> \/ Len(a \o x) > MaxTaggedLines
  <2>1. r = t
    BY <1>4, <1>5
  <2> QED BY <2>1
<1>6. CASE ~(x = <<>> \/ Len(a \o x) > MaxTaggedLines)
  <2>1. r = a \o x /\ x # <<>> /\ ~(Len(a \o x) > MaxTaggedLines)
    BY <1>4, <1>6
  <2>2. Len(a \o x) = Len(a) + Len(x) /\ Len(a) \in Nat /\ Len(x) \in Nat
    BY <1>1, <1>3
  <2>3. Len(x) <= MaxTaggedLines
    BY <2>1, <2>2, MaxTaggedLinesAssumption
  <2>4. Meaningful(r) = Meaningful(t) \o x
    BY <1>1, <1>3, <2>1, MeaningfulConcat
  <2>5. r \in Seq(Line)
    BY <1>1, <1>3, <2>1
  <2> QED BY <2>1, <2>3, <2>4, <2>5
<1> QED BY <1>5, <1>6

LEMMA FlattenAdditions ==
    ASSUME NEW e \in Seq(Seq(Line)), \A i \in 1 .. Len(e) : Addition(e[i])
    PROVE  Addition(FlattenSeq(e))
<1> DEFINE G == {s \in Seq(Seq(Line)) :
                    (\A i \in 1 .. Len(s) : Addition(s[i])) => Addition(FlattenSeq(s))}
<1>1. <<>> \in G
  <2>1. <<>> \in Seq(Seq(Line))
    OBVIOUS
  <2> QED BY <2>1, FlattenEmpty, NoAddition
<1>2. ASSUME NEW s \in G, NEW p \in Seq(Line) PROVE Append(s, p) \in G
  <2>1. s \in Seq(Seq(Line)) /\ Append(s, p) \in Seq(Seq(Line))
    BY <1>2
  <2>2. ASSUME \A i \in 1 .. Len(Append(s, p)) : Addition(Append(s, p)[i])
        PROVE  Addition(FlattenSeq(Append(s, p)))
    <3>1. \A i \in 1 .. Len(s) : Addition(s[i])
      <4>1. \A i \in 1 .. Len(s) : Append(s, p)[i] = s[i] /\ i \in 1 .. Len(Append(s, p))
        BY <2>1
      <4> QED BY <2>2, <4>1
    <3>2. Addition(p)
      <4>1. Append(s, p)[Len(s) + 1] = p /\ Len(s) + 1 \in 1 .. Len(Append(s, p))
        BY <2>1
      <4> QED BY <2>2, <4>1
    <3>3. Addition(FlattenSeq(s))
      BY <1>2, <3>1
    <3>4. FlattenSeq(Append(s, p)) = FlattenSeq(s) \o p
      BY <2>1, FlattenAppend
    <3> QED BY <3>2, <3>3, <3>4, AdditionJoined
  <2> QED BY <2>1, <2>2
<1>3. Seq(Seq(Line)) \subseteq G
  <2> HIDE DEF G
  <2> QED BY <1>1, <1>2, SeqInduction
<1> QED BY <1>3

LEMMA ConcatIs ==
    ASSUME NEW S, NEW a \in Seq(S), NEW b \in Seq(S)
    PROVE  /\ Len(a \o b) = Len(a) + Len(b) /\ Len(a) \in Nat /\ Len(b) \in Nat /\ a \o b \in Seq(S)
           /\ \A i \in 1 .. Len(a) : (a \o b)[i] = a[i]
           /\ \A i \in 1 .. Len(b) : (a \o b)[Len(a) + i] = b[i]
  OBVIOUS

LEMMA EightAsSeq ==
    ASSUME NEW S, NEW a \in S, NEW b \in S, NEW c \in S, NEW d \in S, NEW e \in S, NEW f \in S,
           NEW g \in S, NEW h \in S
    PROVE  <<a, b, c, d, e, f, g, h>> \in Seq(S)
  OBVIOUS

\* A line that may stand in a block.
Plain(l) == l \in Line /\ l # Blank /\ l # "TARGET"

\* The block with one body and its Basis.
IsBlock(b, target, application, body, basis) ==
    /\ Full(b)
    /\ Len(b) = 8 + Len(basis)
    /\ /\ b[1] = "TARGET" /\ b[2] = target /\ b[3] = "APPLICATION" /\ b[4] = application
       /\ b[5] = "CHANGE" /\ b[6] = "TEXT" /\ b[7] = body /\ b[8] = "BASIS"
    /\ \A i \in 2 .. Len(b) : b[i] # "TARGET"
    /\ SubSeq(b, 9, Len(b)) = basis

LEMMA NewBlockIs ==
    ASSUME NEW target, NEW application, NEW body, NEW basis \in Seq(Line),
           Plain(target), Plain(application), Plain(body),
           \A i \in 1 .. Len(basis) : Plain(basis[i])
    PROVE  IsBlock(NewBlock(target, application, body, basis), target, application, body, basis)
<1> DEFINE h == <<"TARGET", target, "APPLICATION", application, "CHANGE", "TEXT", body, "BASIS">>
           b == NewBlock(target, application, body, basis)
           n == Len(basis)
<1>1. {"TARGET", "APPLICATION", "CHANGE", "TEXT", "BASIS"} \subseteq Line
  BY WordsAreLines
<1>2. {target, application, body} \subseteq Line
  BY DEF Plain
<1>3. h \in Seq(Line) /\ Len(h) = 8
  <2>1. "TARGET" \in Line /\ "APPLICATION" \in Line /\ "CHANGE" \in Line /\ "TEXT" \in Line /\ "BASIS" \in Line
    BY <1>1
  <2>2. target \in Line /\ application \in Line /\ body \in Line
    BY <1>2
  <2>3. h \in Seq(Line)
    BY <2>1, <2>2, EightAsSeq
  <2>4. Len(h) = 8
    OBVIOUS
  <2> QED BY <2>3, <2>4
<1>4. /\ h[1] = "TARGET" /\ h[2] = target /\ h[3] = "APPLICATION" /\ h[4] = application
      /\ h[5] = "CHANGE" /\ h[6] = "TEXT" /\ h[7] = body /\ h[8] = "BASIS"
  OBVIOUS
<1>5. b = h \o basis
  BY DEF NewBlock
<1> HIDE DEF h, b
<1>6. /\ b \in Seq(Line) /\ Len(b) = 8 + n /\ n \in Nat
      /\ \A i \in 1 .. 8 : b[i] = h[i]
      /\ \A i \in 1 .. n : b[8 + i] = basis[i]
  <2>0. h \in Seq(Line)
    BY <1>3
  <2>1. /\ Len(h \o basis) = Len(h) + n /\ Len(h) \in Nat /\ n \in Nat /\ h \o basis \in Seq(Line)
        /\ \A i \in 1 .. Len(h) : (h \o basis)[i] = h[i]
        /\ \A i \in 1 .. n : (h \o basis)[Len(h) + i] = basis[i]
    BY <2>0, ConcatIs
  <2>2. PICK L : L = Len(h)
    OBVIOUS
  <2>3. /\ Len(b) = L + n /\ n \in Nat /\ b \in Seq(Line)
        /\ \A i \in 1 .. L : b[i] = h[i]
        /\ \A i \in 1 .. n : b[L + i] = basis[i]
    BY <1>5, <2>1, <2>2, Zenon
  <2>4. L = 8
    BY <1>3, <2>2
  <2> QED BY <2>3, <2>4
<1>7. \A i \in 1 .. 8 : h[i] # Blank /\ (i # 1 => h[i] # "TARGET")
  <2>1. \A i \in 1 .. 8 : i = 1 \/ i = 2 \/ i = 3 \/ i = 4 \/ i = 5 \/ i = 6 \/ i = 7 \/ i = 8
    OBVIOUS
  <2>2. target # Blank /\ application # Blank /\ body # Blank
        /\ target # "TARGET" /\ application # "TARGET" /\ body # "TARGET"
    BY DEF Plain
  <2>3. "TARGET" # Blank /\ "APPLICATION" # Blank /\ "CHANGE" # Blank /\ "TEXT" # Blank /\ "BASIS" # Blank
    BY DEF Blank
  <2> QED BY <1>4, <2>1, <2>2, <2>3
<1>8. \A i \in 1 .. 8 + n : b[i] # Blank /\ (i # 1 => b[i] # "TARGET")
  <2>1. ASSUME NEW i \in 1 .. 8 + n PROVE b[i] # Blank /\ (i # 1 => b[i] # "TARGET")
    <3>1. CASE i <= 8
      <4>1. i \in 1 .. 8
        BY <3>1
      <4> QED BY <1>6, <1>7, <4>1
    <3>2. CASE i > 8
      <4>1. i - 8 \in 1 .. n /\ 8 + (i - 8) = i
        BY <1>6, <3>2
      <4>2. b[i] = basis[i - 8] /\ Plain(basis[i - 8])
        BY <1>6, <4>1
      <4> QED BY <4>2 DEF Plain
    <3> QED BY <3>1, <3>2
  <2> QED BY <2>1
<1>9. SubSeq(b, 9, Len(b)) = basis
  <2>1. 9 \in 1 .. Len(b) + 1 /\ Len(b) \in 9 - 1 .. Len(b) /\ Len(b) - 9 + 1 = n
    BY <1>6
  <2>2. SubSeq(b, 9, Len(b)) \in Seq(Line) /\ Len(SubSeq(b, 9, Len(b))) = n
        /\ \A i \in 1 .. n : SubSeq(b, 9, Len(b))[i] = b[9 + i - 1]
    BY <1>6, <2>1, SubSeqIs
  <2>3. \A i \in 1 .. n : 9 + i - 1 = 8 + i
    BY <1>6
  <2>4. \A i \in 1 .. n : SubSeq(b, 9, Len(b))[i] = basis[i]
    BY <1>6, <2>2, <2>3
  <2>5. PICK u : u = SubSeq(b, 9, Len(b))
    OBVIOUS
  <2>6. u \in Seq(Line) /\ Len(u) = Len(basis) /\ \A i \in 1 .. Len(basis) : u[i] = basis[i]
    BY <2>2, <2>4, <2>5
  <2>7. u = basis
    BY <2>6
  <2> QED BY <2>5, <2>7
<1>10. Full(b)
  BY <1>6, <1>8 DEF Full
<1>11. \A i \in 1 .. 8 : b[i] = h[i]
  BY <1>6
<1>12. /\ b[1] = "TARGET" /\ b[2] = target /\ b[3] = "APPLICATION" /\ b[4] = application
       /\ b[5] = "CHANGE" /\ b[6] = "TEXT" /\ b[7] = body /\ b[8] = "BASIS"
  <2>1. 1 \in 1 .. 8 /\ 2 \in 1 .. 8 /\ 3 \in 1 .. 8 /\ 4 \in 1 .. 8 /\ 5 \in 1 .. 8 /\ 6 \in 1 .. 8
        /\ 7 \in 1 .. 8 /\ 8 \in 1 .. 8
    OBVIOUS
  <2> QED BY <1>4, <1>11, <2>1
<1>13. \A i \in 2 .. Len(b) : b[i] # "TARGET"
  <2>1. \A i \in 2 .. Len(b) : i \in 1 .. 8 + n /\ i # 1
    BY <1>6
  <2> QED BY <1>8, <2>1
<1>14. IsBlock(b, target, application, body, basis)
  BY <1>6, <1>9, <1>10, <1>12, <1>13 DEF IsBlock
<1> QED BY <1>14 DEF b

LEMMA BlockIsAddition ==
    ASSUME NEW b, NEW target, NEW application, NEW body, NEW basis,
           IsBlock(b, target, application, body, basis), target # "NEW_DISPOSITION"
    PROVE  Addition(b)
<1>1. Full(b) /\ b[1] = "TARGET" /\ b[2] = target /\ \A i \in 2 .. Len(b) : b[i] # "TARGET"
  BY DEF IsBlock
<1>2. Len(b) \in Nat
  BY <1>1 DEF Full
<1>3. ASSUME NEW k \in 1 .. Len(b) - 1, b[k] = "TARGET", b[k + 1] = "NEW_DISPOSITION" PROVE FALSE
  <2>1. k = 1 \/ k \in 2 .. Len(b)
    BY <1>2
  <2>2. k = 1
    BY <1>1, <1>3, <2>1
  <2>3. b[2] = "NEW_DISPOSITION"
    BY <1>3, <2>2
  <2> QED BY <1>1, <2>3
<1> QED BY <1>1, <1>3 DEF Addition, Opens, Headless

-----------------------------------------------------------------------------
(* What the Worker writes itself *)

LEMMA PlainRefs ==
    ASSUME NEW r \in Requests
    PROVE  /\ \A ref \in Basis(r) : Plain(ref)
           /\ \A ref \in ToSet(r.eligible) : Plain(ref) /\ ref # "NEW_DISPOSITION"
           /\ \A ref \in FeedbackEpisodes(r) : Plain(ref)
<1>1. ASSUME NEW ref \in ToSet(r.basis) \cup ToSet(r.eligible) \cup ToSet(r.feedbackEpisodes)
      PROVE  Plain(ref) /\ ref # "NEW_DISPOSITION"
  <2>1. ref \in Line /\ ref \notin Keywords /\ ref \notin NewTargets /\ ref \notin Spaced
    BY <1>1, RequestAssumption
  <2> QED BY <2>1 DEF Plain, Keywords, NewTargets, Spaced
<1> QED BY <1>1 DEF Basis, FeedbackEpisodes

LEMMA PlainWords ==
    /\ Plain("NEW_DISPOSITION") /\ Plain("NEW_RECOLLECTION")
    /\ Plain("SELF") /\ Plain("OTHER") /\ Plain("RELATION")
  BY WordsAreLines DEF Plain, Blank

LEMMA ShapeOfRequest ==
    ASSUME NEW r \in Requests
    PROVE  /\ r.window \in Nat /\ r.targets \in Seq(Line) /\ r.basis \in Seq(Line)
           /\ r.recollections \in Seq(Line) /\ r.episodes \in Seq(EvidenceEpisode)
           /\ r.eligible \in Seq(Line) /\ r.feedbackEpisodes \in Seq(Line)
           /\ r.outcomes \in Seq(EvidenceOutcome) /\ r.feedbackOutcomes \in Seq(Line \X Line)
           /\ r.newApplications \in Seq({"SELF", "RELATION"})
<1>1. r \in WindowRequest
  BY RequestAssumption
<1> QED BY <1>1 DEF WindowRequest

\* What is left of a text that is not all blank starts with a line that is not.
LEMMA StripFirst ==
    ASSUME NEW t \in Seq(Line), Strip(t) # <<>>
    PROVE  1 \in 1 .. Len(Strip(t)) /\ Strip(t)[1] \in Line /\ Strip(t)[1] # Blank
<1> DEFINE n == Len(t)
           T == {n + 1} \cup {i \in DOMAIN t : t[i] # Blank}
           m == Min(T)
           b == SubSeq(t, m, n)
           U == {0} \cup {i \in DOMAIN b : b[i] # Blank}
           k == Max(U)
           s == Strip(t)
<1>1. n \in Nat /\ DOMAIN t = 1 .. n
  OBVIOUS
<1>2. T \subseteq 1 .. n + 1 /\ T \subseteq Nat /\ T # {}
  BY <1>1
<1>3. m \in T
  <2> HIDE DEF T
  <2> QED BY <1>2, LeastIs
<1>4. m \in 1 .. n + 1 /\ (m # n + 1 => t[m] # Blank)
  BY <1>2, <1>3
<1> HIDE DEF m, T
<1>5. b \in Seq(Line) /\ Len(b) = n - m + 1 /\ \A i \in 1 .. n - m + 1 : b[i] = t[m + i - 1]
  <2>1. n \in m - 1 .. n
    BY <1>1, <1>4
  <2> QED BY <1>4, <2>1, SubSeqIs
<1>6. s = SubSeq(b, 1, k)
  BY DEF Strip, RStrip, m, T
<1> HIDE DEF b
<1>7. U \subseteq 0 .. Len(b) /\ U # {} /\ Len(b) \in Nat
  BY <1>5
<1>8. k \in 0 .. Len(b)
  <2> HIDE DEF U
  <2>1. k \in U
    BY <1>7, GreatestIs
  <2> QED BY <1>7, <2>1
<1> HIDE DEF k, s
<1>9. s \in Seq(Line) /\ Len(s) = k /\ \A i \in 1 .. k : s[i] = b[i]
  <2>1. 1 \in 1 .. Len(b) + 1 /\ k \in 1 - 1 .. Len(b) /\ k - 1 + 1 = k
    BY <1>7, <1>8
  <2>2. s \in Seq(Line) /\ Len(s) = k /\ \A i \in 1 .. k : s[i] = b[1 + i - 1]
    BY <1>5, <1>6, <2>1, SubSeqIs
  <2>3. \A i \in 1 .. k : 1 + i - 1 = i
    BY <1>8
  <2> QED BY <2>2, <2>3
<1>10. s # <<>>
  BY DEF s
<1>11. k # 0
  BY <1>9, <1>10
<1>12. 1 \in 1 .. k /\ 1 \in 1 .. n - m + 1 /\ m # n + 1 /\ m + 1 - 1 = m
  BY <1>1, <1>4, <1>5, <1>8, <1>11
<1>13. s[1] = t[m]
  BY <1>5, <1>9, <1>12
<1>14. s[1] \in Line
  BY <1>9, <1>12
<1> QED BY <1>4, <1>9, <1>12, <1>13, <1>14 DEF s

PlainLines == {l \in Line : Plain(l)}

LEMMA EpisodesAre ==
    ASSUME NEW r \in Requests, NEW role
    PROVE  EpisodesOfRole(r, role) \in Seq(EvidenceEpisode)
<1>1. r.episodes \in Seq(EvidenceEpisode)
  BY ShapeOfRequest
<1> QED BY <1>1, SublistElements DEF EpisodesOfRole

\* What the material of a formation job holds.
LEMMA MaterialIs ==
    ASSUME NEW r \in Requests, DispositionFormationMaterial(r).ok
    PROVE  /\ DispositionFormationMaterial(r).application \in {"SELF", "RELATION"}
           /\ DispositionFormationMaterial(r).basis \in Seq(PlainLines)
<1> DEFINE material == DispositionFormationMaterial(r)
           relevant == EpisodesOfRole(r, "anchor") \o EpisodesOfRole(r, "candidate")
           OutcomeOf(e) == Sublist(r.outcomes, {i \in DOMAIN r.outcomes :
                                                   r.outcomes[i].episode \in {e.ref}})
           pairs == [i \in DOMAIN relevant |-> <<relevant[i].ref, OutcomeOf(relevant[i])[1].ref>>]
<1>1. /\ material.application = r.newApplications[1]
      /\ material.basis = FlattenSeq(pairs)
      /\ Len(r.newApplications) = 1
      /\ \A i \in DOMAIN relevant : relevant[i].ref \in Basis(r)
                                    /\ OutcomeOf(relevant[i])[1].ref \in Basis(r)
  BY DEF DispositionFormationMaterial
<1>2. relevant \in Seq(EvidenceEpisode)
  <2>1. EpisodesOfRole(r, "anchor") \in Seq(EvidenceEpisode) /\ EpisodesOfRole(r, "candidate") \in Seq(EvidenceEpisode)
    BY EpisodesAre
  <2> QED BY <2>1, ConcatIs
<1> HIDE DEF relevant, OutcomeOf, material
<1>3. pairs \in Seq(Seq(PlainLines))
  <2>1. \A ref \in Basis(r) : ref \in PlainLines
    BY PlainRefs DEF PlainLines, Plain
  <2>2. ASSUME NEW i \in DOMAIN relevant PROVE pairs[i] \in Seq(PlainLines)
    <3>1. PICK a, b : a = relevant[i].ref /\ b = OutcomeOf(relevant[i])[1].ref
      OBVIOUS
    <3>2. a \in PlainLines /\ b \in PlainLines
      BY <1>1, <2>1, <3>1
    <3>3. pairs[i] = <<a, b>>
      BY <3>1
    <3> HIDE DEF pairs
    <3> QED BY <3>2, <3>3, PairAsSeq
  <2>3. DOMAIN relevant = 1 .. Len(relevant) /\ Len(relevant) \in Nat
    BY <1>2
  <2>4. DOMAIN pairs = 1 .. Len(relevant) /\ pairs = [i \in 1 .. Len(relevant) |-> pairs[i]]
    BY <2>3
  <2> HIDE DEF pairs
  <2> QED BY <2>2, <2>3, <2>4
<1>4. FlattenSeq(pairs) \in Seq(PlainLines)
  <2>1. <<>> \in Seq(PlainLines)
    OBVIOUS
  <2> HIDE DEF pairs
  <2> QED BY <1>3, <2>1, FlattenAppend
<1>5. r.newApplications[1] \in {"SELF", "RELATION"}
  <2>1. r.newApplications \in Seq({"SELF", "RELATION"})
    BY ShapeOfRequest
  <2> QED BY <1>1, <2>1
<1>6. material.application \in {"SELF", "RELATION"} /\ material.basis \in Seq(PlainLines)
  BY <1>1, <1>4, <1>5
<1> QED BY <1>6 DEF material

\* The block of the formation lane.
IsFormed(f) == \E application \in {"SELF", "RELATION"}, body \in Line, basis \in Seq(Line) :
                   IsBlock(f, "NEW_DISPOSITION", application, body, basis)

LEMMA BoundDisposition ==
    ASSUME NEW r \in Requests, DispositionFormationMaterial(r).ok, NEW body \in Seq(Line),
           Strip(body) = <<"NO_CHANGE">> \/ PlainBody(body),
           NEW f, f = BindDisposition(DispositionFormationMaterial(r), body)
    PROVE  f = <<>> \/ IsFormed(f)
<1> SUFFICES ASSUME Strip(body) # <<"NO_CHANGE">> PROVE IsFormed(f)
  BY DEF BindDisposition
<1>1. PICK application, basis : /\ application = DispositionFormationMaterial(r).application
                                /\ basis = DispositionFormationMaterial(r).basis
  OBVIOUS
<1>2. PICK s : s = Strip(body)
  OBVIOUS
<1>3. f = NewBlock("NEW_DISPOSITION", application, s[1], basis)
  BY <1>1, <1>2 DEF BindDisposition
<1>4. Len(SplitLines(s)) = 1 /\ s[1] \notin ReservedOutput
  BY <1>2 DEF PlainBody
<1>5. s # <<>>
  BY <1>4, SplitEmpty
<1>6. Plain(s[1])
  <2>1. s[1] \in Line /\ s[1] # Blank
    BY <1>2, <1>5, StripFirst
  <2> QED BY <1>4, <2>1 DEF Plain, ReservedOutput
<1>7. application \in {"SELF", "RELATION"} /\ basis \in Seq(PlainLines)
  BY <1>1, MaterialIs
<1>8. Plain(application) /\ Plain("NEW_DISPOSITION")
  BY <1>7, PlainWords
<1>9. basis \in Seq(Line) /\ \A i \in 1 .. Len(basis) : Plain(basis[i])
  BY <1>7 DEF PlainLines
<1>10. IsBlock(f, "NEW_DISPOSITION", application, s[1], basis)
  BY <1>3, <1>6, <1>8, <1>9, NewBlockIs
<1>11. s[1] \in Line
  BY <1>6 DEF Plain
<1> QED BY <1>7, <1>9, <1>10, <1>11 DEF IsFormed

\* Every element of u is one of s.
Among(u, s) == \A i \in 1 .. Len(u) : \E j \in 1 .. Len(s) : u[i] = s[j]

\* The first lines of a list.
LEMMA FirstLines ==
    ASSUME NEW s \in Seq(Line), NEW u, u = SubSeq(s, 1, Min({Len(s), MaxPlainRecollections}))
    PROVE  u \in Seq(Line) /\ Among(u, s)
<1> DEFINE n == MaxPlainRecollections
           m == Min({Len(s), n})
<1>0. n \in Nat
  BY WorkerAssumption
<1>1. {Len(s), n} \subseteq Nat /\ Len(s) \in Nat
  BY <1>0
<1>2. m \in {Len(s), n} /\ m <= Len(s)
  BY <1>1, LeastIs
<1> HIDE DEF m
<1>3. m \in 0 .. Len(s)
  BY <1>1, <1>2
<1>4. 1 \in 1 .. Len(s) + 1 /\ m \in 1 - 1 .. Len(s) /\ m - 1 + 1 = m
  BY <1>1, <1>3
<1>5. u = SubSeq(s, 1, m)
  BY DEF m
<1>6. u \in Seq(Line) /\ Len(u) = m /\ \A i \in 1 .. m : u[i] = s[1 + i - 1]
  <2>1. PICK v : v = SubSeq(s, 1, m)
    OBVIOUS
  <2>2. v \in Seq(Line) /\ Len(v) = m - 1 + 1 /\ \A i \in 1 .. m - 1 + 1 : v[i] = s[1 + i - 1]
    BY <1>4, <2>1, SubSeqIs
  <2> QED BY <1>4, <1>5, <2>1, <2>2
<1>7. \A i \in 1 .. m : i \in 1 .. Len(s) /\ 1 + i - 1 = i
  BY <1>1, <1>3
<1>8. ASSUME NEW i \in 1 .. m PROVE \E j \in 1 .. Len(s) : u[i] = s[j]
  <2>1. u[i] = s[i] /\ i \in 1 .. Len(s)
    BY <1>6, <1>7
  <2> QED BY <2>1
<1> QED BY <1>6, <1>8 DEF Among

LEMMA PlainListIs ==
    ASSUME NEW body \in Seq(Line), PlainListOK(body)
    PROVE  PlainList(body) \in Seq(PlainLines)
<1> DEFINE m == Meaningful(SplitLines(body))
           lines == OrderedUnique(m)
           u == PlainList(body)
<1>1. m \in Seq(Line) /\ \A k \in 1 .. Len(m) : m[k] # Blank
  <2>1. SplitLines(body) \in Seq(Line)
    BY SplitType
  <2> QED BY <2>1, MeaningfulLines
<1> HIDE DEF m
<1>2. lines \in Seq(Line) /\ \A k \in 1 .. Len(lines) : \E i \in 1 .. Len(m) : lines[k] = m[i]
  <2>1. PICK P : P = {i \in DOMAIN m : \A j \in 1 .. i - 1 : m[j] # m[i]}
    OBVIOUS
  <2>2. lines = Sublist(m, P)
    BY <2>1 DEF OrderedUnique
  <2> HIDE DEF lines
  <2> QED BY <1>1, <2>2, SublistElements
<1>3. u = SubSeq(lines, 1, Min({Len(lines), MaxPlainRecollections}))
  BY DEF PlainList, m
<1> HIDE DEF lines, u
<1>4. u \in Seq(Line) /\ \A i \in 1 .. Len(u) : \E j \in 1 .. Len(lines) : u[i] = lines[j]
  <2>1. lines \in Seq(Line)
    BY <1>2
  <2>2. PICK v, w : v = u /\ w = lines
    OBVIOUS
  <2>3. w \in Seq(Line) /\ v = SubSeq(w, 1, Min({Len(w), MaxPlainRecollections}))
    BY <1>3, <2>1, <2>2
  <2>4. v \in Seq(Line)
    BY <2>3, FirstLines
  <2>5. Among(v, w)
    BY <2>3, FirstLines
  <2> QED BY <2>2, <2>4, <2>5 DEF Among
<1>5. \A i \in DOMAIN u : u[i] \notin ReservedProtocol
  BY DEF PlainListOK, u
<1>6. ASSUME NEW i \in 1 .. Len(u) PROVE u[i] \in PlainLines
  <2>1. DOMAIN u = 1 .. Len(u) /\ u[i] \in Line
    BY <1>4
  <2>2. u[i] # "TARGET"
    BY <1>5, <2>1 DEF ReservedProtocol, ReservedOutput
  <2>3. PICK j \in 1 .. Len(lines) : u[i] = lines[j]
    BY <1>4
  <2>4. PICK k \in 1 .. Len(m) : lines[j] = m[k]
    BY <1>2
  <2>5. u[i] # Blank
    BY <1>1, <2>3, <2>4
  <2> QED BY <2>1, <2>2, <2>5 DEF PlainLines, Plain
<1>7. u \in Seq(PlainLines)
  <2>1. u = [i \in 1 .. Len(u) |-> u[i]] /\ Len(u) \in Nat
    BY <1>4
  <2> QED BY <1>6, <2>1
<1> QED BY <1>7 DEF u

LEMMA RecollectionBasisIs ==
    ASSUME NEW r \in Requests, EvidenceValid(r)
    PROVE  RecollectionBasis(r) \in Seq(PlainLines)
<1> DEFINE e == CurrentEpisodes(r)
           P == {i \in DOMAIN r.episodes : r.episodes[i].origin = "current"}
<1>1. r.episodes \in Seq(EvidenceEpisode)
  BY ShapeOfRequest
<1>2. e \in Seq(EvidenceEpisode) /\ \A k \in 1 .. Len(e) : \E i \in 1 .. Len(r.episodes) : e[k] = r.episodes[i]
  <2>1. e = Sublist(r.episodes, P)
    BY DEF CurrentEpisodes
  <2> HIDE DEF e, P
  <2> QED BY <1>1, <2>1, SublistElements
<1>3. \A i \in DOMAIN r.episodes : r.episodes[i].ref \in Basis(r)
  BY DEF EvidenceValid
<1>4. RecollectionBasis(r) = [i \in DOMAIN e |-> e[i].ref]
  BY DEF RecollectionBasis
<1> HIDE DEF e
<1>5. ASSUME NEW k \in 1 .. Len(e) PROVE e[k].ref \in PlainLines
  <2>1. PICK i \in 1 .. Len(r.episodes) : e[k] = r.episodes[i]
    BY <1>2
  <2>2. i \in DOMAIN r.episodes
    BY <1>1
  <2>3. e[k].ref \in Basis(r)
    BY <1>3, <2>1, <2>2
  <2> QED BY <2>3, PlainRefs DEF PlainLines, Plain
<1>6. DOMAIN e = 1 .. Len(e) /\ Len(e) \in Nat
  BY <1>2
<1> QED BY <1>4, <1>5, <1>6

LEMMA RecollectionsAre ==
    ASSUME NEW r \in Requests, EvidenceValid(r), NEW body \in Seq(Line)
    PROVE  Addition(BindPlainRecollections(r, body))
<1> DEFINE u == PlainList(body)
           basis == RecollectionBasis(r)
           e == [i \in DOMAIN u |-> NewBlock("NEW_RECOLLECTION", "OTHER", u[i], basis)]
<1>1. CASE ~PlainListOK(body)
  BY <1>1, NoAddition DEF BindPlainRecollections
<1>2. CASE PlainListOK(body)
  <2>1. BindPlainRecollections(r, body) = FlattenSeq(e)
    BY <1>2 DEF BindPlainRecollections
  <2>2. u \in Seq(PlainLines) /\ basis \in Seq(PlainLines)
    BY <1>2, PlainListIs, RecollectionBasisIs
  <2> HIDE DEF u, basis
  <2>3. basis \in Seq(Line) /\ \A i \in 1 .. Len(basis) : Plain(basis[i])
    BY <2>2 DEF PlainLines
  <2>4. DOMAIN u = 1 .. Len(u) /\ Len(u) \in Nat /\ \A i \in 1 .. Len(u) : Plain(u[i])
    BY <2>2 DEF PlainLines
  <2>5. ASSUME NEW i \in 1 .. Len(u) PROVE Addition(e[i]) /\ e[i] \in Seq(Line)
    <3>1. e[i] = NewBlock("NEW_RECOLLECTION", "OTHER", u[i], basis)
      BY <2>4
    <3>2. IsBlock(e[i], "NEW_RECOLLECTION", "OTHER", u[i], basis)
      <4>1. Plain("NEW_RECOLLECTION") /\ Plain("OTHER") /\ Plain(u[i])
        BY <2>4, PlainWords
      <4> HIDE DEF e
      <4> QED BY <2>3, <3>1, <4>1, NewBlockIs
    <3> HIDE DEF e
    <3>3. Addition(e[i])
      BY <3>2, BlockIsAddition
    <3> QED BY <3>3 DEF Addition, Full
  <2>6. e \in Seq(Seq(Line)) /\ Len(e) = Len(u)
    <3>1. e = [i \in 1 .. Len(u) |-> e[i]]
      BY <2>4
    <3> HIDE DEF e
    <3> QED BY <2>4, <2>5, <3>1
  <2> HIDE DEF e
  <2> QED BY <2>1, <2>5, <2>6, FlattenAdditions
<1> QED BY <1>1, <1>2

-----------------------------------------------------------------------------
(* Feedback bound to the window's pairs *)

LEMMA UniqueType ==
    ASSUME NEW S, NEW s \in Seq(S)
    PROVE  OrderedUnique(s) \in Seq(S)
<1>1. PICK P : P = {i \in DOMAIN s : \A j \in 1 .. i - 1 : s[j] # s[i]}
  OBVIOUS
<1>2. OrderedUnique(s) = Sublist(s, P)
  BY <1>1 DEF OrderedUnique
<1> QED BY <1>2, SublistElements

\* What follows a label of the same block opens no block.
LEMMA HeadlessTail ==
    ASSUME NEW a \in Seq(Line), NEW b \in Seq(PlainLines), Headless(a), a # <<>>,
           a[Len(a)] # "TARGET"
    PROVE  Headless(a \o b)
<1> DEFINE n == Len(a)
           c == a \o b
<1>0. b \in Seq(Line) /\ \A i \in 1 .. Len(b) : b[i] # "TARGET"
  BY DEF PlainLines, Plain
<1>1. /\ Len(c) = n + Len(b) /\ n \in Nat /\ Len(b) \in Nat /\ n = Len(a)
      /\ \A i \in 1 .. n : c[i] = a[i]
      /\ \A i \in 1 .. Len(b) : c[n + i] = b[i]
  <2>1. a \in Seq(Line) /\ b \in Seq(Line)
    BY <1>0
  <2> QED BY <2>1, ConcatIs
<1> HIDE DEF c, n
<1>2. ASSUME NEW k \in 1 .. Len(c) - 1, c[k] = "TARGET", c[k + 1] = "NEW_DISPOSITION" PROVE FALSE
  <2>1. CASE k + 1 <= n
    <3>1. k \in 1 .. n - 1 /\ k \in 1 .. n /\ k + 1 \in 1 .. n
      BY <1>1, <2>1
    <3>2. a[k] = "TARGET" /\ a[k + 1] = "NEW_DISPOSITION"
      BY <1>1, <1>2, <3>1
    <3> QED BY <1>1, <3>1, <3>2 DEF Headless
  <2>2. CASE k > n
    <3>1. k - n \in 1 .. Len(b) /\ n + (k - n) = k
      BY <1>1, <2>2
    <3>2. b[k - n] = "TARGET"
      BY <1>1, <1>2, <3>1
    <3> QED BY <1>0, <3>1, <3>2
  <2>3. CASE k = n
    <3>1. n \in 1 .. n
      BY <1>1, <2>3
    <3> QED BY <1>1, <1>2, <2>3, <3>1
  <2> QED BY <1>1, <2>1, <2>2, <2>3
<1> QED BY <1>2 DEF Headless, c

\* Where the block's Basis starts.
MarkerOf(lines, k) == IF lines[k + 5] = "TEXT" THEN k + 7 ELSE k + 6

LEMMA BoundBlockIs ==
    ASSUME NEW lines, Full(lines), NEW k \in 1 .. Len(lines) - 7,
           NEW targets, NEW episodeRefs, NEW pairs,
           \A ref \in targets : ref # "NEW_DISPOSITION",
           \A ref \in episodeRefs : Plain(ref),
           NEW bound, bound = BoundBlock(lines, k, targets, episodeRefs, pairs)
    PROVE  /\ bound.end \in k + 1 .. Len(lines) + 1
           /\ bound.ok => Addition(bound.block)
<1> DEFINE n == Len(lines)
           operation == lines[k + 5]
           marker == MarkerOf(lines, k)
           end == NextTarget(lines, marker + 1)
           given == SubSeq(lines, marker + 1, end - 1)
           ChosenOf(refs) == OrderedUnique(Sublist(given, {i \in DOMAIN given : given[i] \in refs}))
           chosen == ChosenOf(DOMAIN pairs)
           both == [i \in DOMAIN chosen |-> <<pairs[chosen[i]], chosen[i]>>]
           basis == IF operation = "REENACT" THEN ChosenOf(episodeRefs)
                    ELSE OrderedUnique(FlattenSeq(both))
           head == SubSeq(lines, k, marker)
<1>1. lines \in Seq(Line) /\ n \in Nat /\ \A i \in 1 .. n : lines[i] # Blank
  BY DEF Full
<1>2. marker \in {k + 6, k + 7} /\ marker + 1 \in 1 .. n + 1 /\ marker \in 1 .. n
  BY <1>1 DEF MarkerOf
<1>3. /\ bound.end = end
      /\ bound.block = head \o basis
      /\ bound.ok => /\ HasHeader(lines, k)
                     /\ lines[k + 1] \in targets
                     /\ operation \in {"TEXT", "REENACT", "INHIBIT"}
                     /\ lines[marker] = "BASIS"
                     /\ operation # "REENACT" => \A i \in DOMAIN chosen : pairs[chosen[i]] \in episodeRefs
  BY DEF BoundBlock, MarkerOf
<1>4. end \in marker + 1 .. n + 1 /\ \A j \in marker + 1 .. end - 1 : lines[j] # "TARGET"
  <2> HIDE DEF marker
  <2> QED BY <1>1, <1>2, NextTargetIs
<1>5. end \in k + 1 .. n + 1
  BY <1>2, <1>4
<1> HIDE DEF end, marker
<1>6. given \in Seq(PlainLines)
  <2>1. end - 1 \in (marker + 1) - 1 .. n
    BY <1>1, <1>2, <1>4
  <2>2. given \in Seq(Line) /\ Len(given) = (end - 1) - (marker + 1) + 1
        /\ \A i \in 1 .. (end - 1) - (marker + 1) + 1 : given[i] = lines[(marker + 1) + i - 1]
    BY <1>1, <1>2, <2>1, SubSeqIs
  <2>3. \A i \in 1 .. Len(given) : (marker + 1) + i - 1 \in marker + 1 .. end - 1 /\ (marker + 1) + i - 1 \in 1 .. n
    BY <1>1, <1>2, <1>4, <2>2
  <2> HIDE DEF given
  <2>4. \A i \in 1 .. Len(given) : given[i] # Blank /\ given[i] # "TARGET"
    BY <1>1, <1>4, <2>2, <2>3
  <2>5. \A i \in 1 .. Len(given) : given[i] \in Line
    BY <2>2
  <2>6. \A i \in 1 .. Len(given) : given[i] \in PlainLines
    BY <2>4, <2>5 DEF PlainLines, Plain
  <2>7. given = [i \in 1 .. Len(given) |-> given[i]] /\ Len(given) \in Nat
    BY <2>2
  <2> QED BY <2>6, <2>7
<1>7. ASSUME NEW refs PROVE ChosenOf(refs) \in Seq(PlainLines)
  <2>1. PICK P : P = {i \in DOMAIN given : given[i] \in refs}
    OBVIOUS
  <2>2. ChosenOf(refs) = OrderedUnique(Sublist(given, P))
    BY <2>1
  <2> HIDE DEF given, ChosenOf
  <2>3. Sublist(given, P) \in Seq(PlainLines)
    BY <1>6, SublistElements
  <2> QED BY <2>2, <2>3, UniqueType
<1> HIDE DEF ChosenOf
<1>8. chosen \in Seq(PlainLines)
  BY <1>7
<1> HIDE DEF chosen
<1> SUFFICES ASSUME bound.ok PROVE Addition(head \o basis)
  BY <1>3, <1>5
<1>9. basis \in Seq(PlainLines)
  <2>1. CASE operation = "REENACT"
    BY <1>7, <2>1
  <2>2. CASE operation # "REENACT"
    <3>1. \A i \in DOMAIN chosen : pairs[chosen[i]] \in PlainLines
      BY <1>3, <2>2 DEF PlainLines, Plain
    <3>2. DOMAIN chosen = 1 .. Len(chosen) /\ Len(chosen) \in Nat
      BY <1>8
    <3>3. ASSUME NEW i \in 1 .. Len(chosen) PROVE both[i] \in Seq(PlainLines)
      <4>1. PICK a, b : a = pairs[chosen[i]] /\ b = chosen[i]
        OBVIOUS
      <4>2. a \in PlainLines /\ b \in PlainLines
        BY <1>8, <3>1, <3>2, <4>1
      <4>3. both[i] = <<a, b>>
        BY <3>2, <4>1
      <4> HIDE DEF both
      <4> QED BY <4>2, <4>3, PairAsSeq
    <3>4. both \in Seq(Seq(PlainLines))
      <4>1. both = [i \in 1 .. Len(chosen) |-> both[i]]
        BY <3>2
      <4> HIDE DEF both
      <4> QED BY <3>2, <3>3, <4>1
    <3>5. FlattenSeq(both) \in Seq(PlainLines)
      <4>1. <<>> \in Seq(PlainLines)
        OBVIOUS
      <4> HIDE DEF both
      <4> QED BY <3>4, <4>1, FlattenAppend
    <3> HIDE DEF both
    <3>6. OrderedUnique(FlattenSeq(both)) \in Seq(PlainLines)
      BY <3>5, UniqueType
    <3> QED BY <2>2, <3>6
  <2> QED BY <2>1, <2>2
<1> HIDE DEF basis
<1>10. /\ head \in Seq(Line) /\ Len(head) = marker - k + 1
       /\ \A i \in 1 .. marker - k + 1 : head[i] = lines[k + i - 1]
  <2>1. k \in 1 .. n + 1 /\ marker \in k - 1 .. n
    BY <1>1, <1>2
  <2> QED BY <1>1, <2>1, SubSeqIs
<1> HIDE DEF head
<1>11. /\ lines[k] = "TARGET" /\ lines[k + 1] \in targets /\ lines[k + 2] = "APPLICATION"
       /\ lines[k + 4] = "CHANGE" /\ lines[k + 5] \in {"TEXT", "REENACT", "INHIBIT"}
       /\ lines[marker] = "BASIS"
       /\ marker = IF lines[k + 5] = "TEXT" THEN k + 7 ELSE k + 6
  BY <1>3 DEF HasHeader, marker, MarkerOf
<1>12. Full(head) /\ Opens(head) /\ head # <<>> /\ head[Len(head)] # "TARGET"
  <2>1. \A i \in 1 .. marker - k + 1 : k + i - 1 \in 1 .. n
    BY <1>1, <1>2
  <2>2. \A i \in 1 .. Len(head) : head[i] # Blank
    BY <1>1, <1>10, <2>1
  <2>3. Len(head) \in Nat /\ Len(head) # 0 /\ 1 \in 1 .. Len(head) /\ Len(head) \in 1 .. Len(head)
        /\ k + 1 - 1 = k /\ k + Len(head) - 1 = marker
    BY <1>2, <1>10
  <2>4. head[1] = "TARGET" /\ head[Len(head)] = "BASIS" /\ head # <<>>
    BY <1>10, <1>11, <2>3
  <2> QED BY <1>10, <2>2, <2>4 DEF Full, Opens
<1>13. Headless(head)
  <2>1. ASSUME NEW j \in 1 .. Len(head) - 1, head[j] = "TARGET", head[j + 1] = "NEW_DISPOSITION"
        PROVE FALSE
    <3>1. j \in 1 .. 7 /\ j \in 1 .. marker - k + 1 /\ j + 1 \in 1 .. marker - k + 1
          /\ k + (j + 1) - 1 = k + j
      <4>1. PICK m, size : m = marker /\ size = Len(head)
        OBVIOUS
      <4>2. k \in Nat /\ m \in {k + 6, k + 7} /\ size = m - k + 1 /\ j \in 1 .. size - 1
        BY <1>1, <1>2, <1>10, <4>1
      <4>3. j \in 1 .. 7 /\ j \in 1 .. m - k + 1 /\ j + 1 \in 1 .. m - k + 1
            /\ k + (j + 1) - 1 = k + j
        BY <4>2
      <4> QED BY <4>1, <4>3
    <3>2. lines[k + j - 1] = "TARGET" /\ lines[k + j] = "NEW_DISPOSITION"
      BY <1>10, <2>1, <3>1
    <3>3. j = 1 \/ j = 2 \/ j = 3 \/ j = 4 \/ j = 5 \/ j = 6 \/ j = 7
      BY <3>1
    <3>4. CASE j = 1
      BY <1>11, <3>2, <3>4
    <3>5. CASE j = 2
      BY <1>11, <3>2, <3>5
    <3>6. CASE j = 3
      <4>1. k + j - 1 = k + 2
        BY <3>6
      <4> QED BY <1>11, <3>2, <4>1
    <3>7. CASE j = 4
      BY <1>11, <3>2, <3>7
    <3>8. CASE j = 5
      <4>1. k + j - 1 = k + 4
        BY <3>8
      <4> QED BY <1>11, <3>2, <4>1
    <3>9. CASE j = 6
      <4>1. k + j - 1 = k + 5
        BY <3>9
      <4> QED BY <1>11, <3>2, <4>1
    <3>10. CASE j = 7
      <4>1. marker = k + 7
        BY <1>2, <3>1, <3>10
      <4>2. lines[k + 7] = "NEW_DISPOSITION"
        BY <3>2, <3>10
      <4> QED BY <1>11, <4>1, <4>2
    <3> QED BY <3>3, <3>4, <3>5, <3>6, <3>7, <3>8, <3>9, <3>10
  <2> QED BY <2>1 DEF Headless
<1>14. Full(basis)
  <2>1. basis \in Seq(Line) /\ \A i \in 1 .. Len(basis) : basis[i] # Blank
    BY <1>9 DEF PlainLines, Plain
  <2> QED BY <2>1 DEF Full
<1>15. Headless(head \o basis)
  BY <1>9, <1>10, <1>12, <1>13, HeadlessTail
<1>16. Full(head \o basis)
  BY <1>12, <1>14, FullJoined
<1>17. Opens(head \o basis)
  <2>1. 1 \in 1 .. Len(head) /\ basis \in Seq(Line)
    BY <1>2, <1>10, <1>14 DEF Full
  <2>2. (head \o basis)[1] = head[1]
    BY <1>10, <2>1, ConcatIs
  <2> QED BY <1>12, <2>2 DEF Opens
<1> QED BY <1>15, <1>16, <1>17 DEF Addition

\* What the text from line k on is bound to, given what every later line is.
BoundFrom(f, lines, k, targets, episodeRefs, pairs) ==
    IF k = Len(lines) + 1 THEN [ok |-> TRUE, text |-> <<>>]
    ELSE IF Len(lines) - k < 7 THEN [ok |-> FALSE, text |-> <<>>]
    ELSE LET bound == BoundBlock(lines, k, targets, episodeRefs, pairs)
             rest == f[bound.end]
         IN  IF bound.ok /\ rest.ok
             THEN [ok |-> TRUE, text |-> bound.block \o rest.text]
             ELSE [ok |-> FALSE, text |-> <<>>]

LEMMA NormalizeIs ==
    ASSUME NEW t \in Seq(Line), NEW targets, NEW episodeRefs, NEW pairs,
           \A ref \in targets : ref # "NEW_DISPOSITION",
           \A ref \in episodeRefs : Plain(ref)
    PROVE  Addition(NormalizeFeedbackOutput(t, targets, episodeRefs, pairs))
<1> DEFINE lines == Meaningful(SplitLines(t))
           n == Len(lines)
           Bound(k) == BoundBlock(lines, k, targets, episodeRefs, pairs)
           From(f, k) == BoundFrom(f, lines, k, targets, episodeRefs, pairs)
           Def(f) == [k \in 1 .. n + 1 |-> From(f, k)]
<1>1. Full(lines) /\ lines \in Seq(Line) /\ n \in Nat
  <2>1. SplitLines(t) \in Seq(Line)
    BY SplitType
  <2> QED BY <2>1, MeaningfulLines DEF Full
<1> HIDE DEF lines
<1>2. ASSUME NEW k \in 1 .. n - 7
      PROVE  Bound(k).end \in k + 1 .. n + 1 /\ (Bound(k).ok => Addition(Bound(k).block))
  BY <1>1, BoundBlockIs
<1>3. ASSUME NEW f, NEW g, NEW k \in 1 .. n + 1, \A j \in k + 1 .. n + 1 : f[j] = g[j]
      PROVE  From(f, k) = From(g, k)
  <2>1. CASE k = n + 1
    BY <2>1 DEF BoundFrom
  <2>2. CASE k # n + 1 /\ n - k < 7
    BY <2>2 DEF BoundFrom
  <2>3. CASE k # n + 1 /\ ~(n - k < 7)
    <3>1. k \in 1 .. n - 7
      BY <1>1, <2>3
    <3>2. f[Bound(k).end] = g[Bound(k).end]
      BY <1>2, <1>3, <3>1
    <3> QED BY <2>3, <3>2 DEF BoundFrom
  <2> QED BY <2>1, <2>2, <2>3
<1> HIDE DEF From
<1>4. n \in {m \in 0 .. n : \E f : \A k \in n + 1 - m .. n + 1 : f[k] = From(f, k)}
  <2> DEFINE G == {m \in 0 .. n : \E f : \A k \in n + 1 - m .. n + 1 : f[k] = From(f, k)}
  <2>1. 0 \in G
    <3>1. PICK f : f = [k \in 1 .. n + 1 |-> From(<<>>, n + 1)]
      OBVIOUS
    <3>2. \A k \in n + 1 - 0 .. n + 1 : k = n + 1 /\ k \in 1 .. n + 1
      BY <1>1
    <3>3. \A j \in (n + 1) + 1 .. n + 1 : f[j] = <<>>[j]
      BY <1>1
    <3>4. n + 1 \in 1 .. n + 1
      BY <1>1
    <3>5. From(f, n + 1) = From(<<>>, n + 1)
      BY <1>3, <3>3, <3>4
    <3>6. \A k \in n + 1 - 0 .. n + 1 : f[k] = From(f, k)
      BY <3>1, <3>2, <3>4, <3>5
    <3> QED BY <1>1, <3>6
  <2>2. ASSUME NEW m \in 0 .. n - 1, m \in G PROVE m + 1 \in G
    <3>1. PICK f : \A k \in n + 1 - m .. n + 1 : f[k] = From(f, k)
      BY <2>2
    <3>2. PICK c : c = n - m
      OBVIOUS
    <3>3. c \in 1 .. n /\ n + 1 - m = c + 1 /\ n + 1 - (m + 1) = c /\ c \in Int
      BY <1>1, <3>2
    <3>4. PICK g : g = [k \in 1 .. n + 1 |-> IF k = c THEN From(f, c) ELSE f[k]]
      OBVIOUS
    <3>5. \A k \in c + 1 .. n + 1 : g[k] = f[k] /\ k \in 1 .. n + 1 /\ k # c
      BY <3>3, <3>4
    <3>6. ASSUME NEW k \in c .. n + 1 PROVE g[k] = From(g, k)
      <4>1. k \in 1 .. n + 1 /\ \A j \in k + 1 .. n + 1 : j \in c + 1 .. n + 1
        BY <1>1, <3>3
      <4>2. From(g, k) = From(f, k)
        <5>1. \A j \in k + 1 .. n + 1 : f[j] = g[j]
          BY <3>5, <4>1
        <5> QED BY <1>3, <4>1, <5>1
      <4>3. CASE k = c
        BY <3>4, <4>1, <4>2, <4>3
      <4>4. CASE k # c
        <5>1. k \in c + 1 .. n + 1
          BY <3>3, <4>4
        <5> QED BY <3>1, <3>3, <3>5, <4>2, <5>1
      <4> QED BY <4>3, <4>4
    <3>7. m + 1 \in 0 .. n
      BY <1>1
    <3> QED BY <3>3, <3>6, <3>7
  <2> HIDE DEF G
  <2>3. 0 .. n \subseteq G
    BY <1>1, <2>1, <2>2, UpTo
  <2>4. n \in G
    BY <1>1, <2>3
  <2> QED BY <2>4 DEF G
<1>5. \E h : h = Def(h)
  <2>1. PICK f : \A k \in n + 1 - n .. n + 1 : f[k] = From(f, k)
    BY <1>4
  <2>2. n + 1 - n = 1
    BY <1>1
  <2>3. PICK h : h = [k \in 1 .. n + 1 |-> f[k]]
    OBVIOUS
  <2>4. ASSUME NEW k \in 1 .. n + 1 PROVE h[k] = From(h, k)
    <3>1. \A j \in k + 1 .. n + 1 : j \in 1 .. n + 1
      BY <1>1
    <3>2. \A j \in k + 1 .. n + 1 : f[j] = h[j]
      BY <2>3, <3>1
    <3>3. From(f, k) = From(h, k)
      BY <1>3, <3>2
    <3> QED BY <2>1, <2>2, <2>3, <3>3
  <2>5. h = Def(h)
    BY <2>3, <2>4
  <2> QED BY <2>5
<1>6. PICK h : h = (CHOOSE f : f = Def(f)) /\ h = Def(h)
  BY <1>5
<1>7. \A k \in 1 .. n + 1 : h[k] = From(h, k)
  BY <1>6
<1>8. NormalizeFeedbackOutput(t, targets, episodeRefs, pairs) = h[1].text
  BY <1>6 DEF NormalizeFeedbackOutput, From, BoundFrom, lines
<1>9. n \in {m \in 0 .. n : \A k \in n + 1 - m .. n + 1 : Addition(h[k].text)}
  <2> DEFINE G == {m \in 0 .. n : \A k \in n + 1 - m .. n + 1 : Addition(h[k].text)}
  <2>1. ASSUME NEW k \in 1 .. n + 1, \A j \in k + 1 .. n + 1 : Addition(h[j].text)
        PROVE  Addition(h[k].text)
    <3>1. h[k] = BoundFrom(h, lines, k, targets, episodeRefs, pairs)
      BY <1>7 DEF From
    <3>2. CASE k \in 1 .. n - 7 /\ Bound(k).ok /\ h[Bound(k).end].ok
      <4>1. k # n + 1 /\ ~(n - k < 7)
        BY <1>1, <3>2
      <4>2. h[k].text = Bound(k).block \o h[Bound(k).end].text
        <5>1. PICK b : b = Bound(k)
          OBVIOUS
        <5>2. BoundFrom(h, lines, k, targets, episodeRefs, pairs) =
                  IF b.ok /\ h[b.end].ok THEN [ok |-> TRUE, text |-> b.block \o h[b.end].text]
                  ELSE [ok |-> FALSE, text |-> <<>>]
          BY <4>1, <5>1 DEF BoundFrom
        <5>3. b.ok /\ h[b.end].ok
          BY <3>2, <5>1
        <5>4. h[k] = [ok |-> TRUE, text |-> b.block \o h[b.end].text]
          BY <3>1, <5>2, <5>3
        <5>5. h[k].text = b.block \o h[b.end].text
          <6>1. PICK v : v = b.block \o h[b.end].text
            OBVIOUS
          <6>2. h[k] = [ok |-> TRUE, text |-> v]
            BY <5>4, <6>1
          <6>3. h[k].text = v
            BY <6>2
          <6> QED BY <6>1, <6>3
        <5> QED BY <5>1, <5>5
      <4>3. Addition(Bound(k).block) /\ Addition(h[Bound(k).end].text)
        BY <1>2, <2>1, <3>2
      <4> QED BY <4>2, <4>3, AdditionJoined
    <3>3. CASE ~(k \in 1 .. n - 7 /\ Bound(k).ok /\ h[Bound(k).end].ok)
      <4>1. k = n + 1 \/ n - k < 7 \/ k \in 1 .. n - 7
        BY <1>1
      <4>2. h[k].text = <<>>
        <5>1. CASE k = n + 1 \/ n - k < 7
          <6>1. \/ h[k] = [ok |-> TRUE, text |-> <<>>]
                \/ h[k] = [ok |-> FALSE, text |-> <<>>]
            BY <3>1, <5>1 DEF BoundFrom
          <6> QED BY <6>1
        <5>2. CASE k \in 1 .. n - 7
          <6>1. ~(Bound(k).ok /\ h[Bound(k).end].ok)
            BY <3>3, <5>2
          <6> QED BY <3>1, <6>1 DEF BoundFrom
        <5> QED BY <4>1, <5>1, <5>2
      <4> QED BY <4>2, NoAddition
    <3> QED BY <3>2, <3>3
  <2>2. 0 \in G
    <3>1. \A k \in n + 1 - 0 .. n + 1 : k \in 1 .. n + 1 /\ \A j \in k + 1 .. n + 1 : FALSE
      BY <1>1
    <3>2. \A k \in n + 1 - 0 .. n + 1 : Addition(h[k].text)
      BY <2>1, <3>1
    <3> QED BY <1>1, <3>2
  <2>3. ASSUME NEW m \in 0 .. n - 1, m \in G PROVE m + 1 \in G
    <3>1. \A k \in n + 1 - m .. n + 1 : Addition(h[k].text)
      BY <2>3
    <3>2. ASSUME NEW k \in n + 1 - (m + 1) .. n + 1 PROVE Addition(h[k].text)
      <4>1. k \in 1 .. n + 1 /\ \A j \in k + 1 .. n + 1 : j \in n + 1 - m .. n + 1
        BY <1>1
      <4> QED BY <2>1, <3>1, <4>1
    <3>3. m + 1 \in 0 .. n
      BY <1>1
    <3> QED BY <3>2, <3>3
  <2> HIDE DEF G
  <2>4. 0 .. n \subseteq G
    BY <1>1, <2>2, <2>3, UpTo
  <2>5. n \in G
    BY <1>1, <2>4
  <2> QED BY <2>5 DEF G
<1>10. 1 \in n + 1 - n .. n + 1
  BY <1>1
<1> QED BY <1>8, <1>9, <1>10

-----------------------------------------------------------------------------
(* What Core reads *)

\* What is read from line k on, given what is read from every later line.
ReadFrom(f, lines, k) ==
    IF k = Len(lines) + 1 THEN [ok |-> TRUE, changes |-> <<>>]
    ELSE IF Len(lines) - k < 7 THEN Rejected
    ELSE LET block == ParseBlock(lines, k)
             rest == f[block.end]
         IN  IF /\ block.ok
                /\ rest.ok
                /\ \/ block.change.target \in NewTargets
                   \/ \A i \in DOMAIN rest.changes :
                          rest.changes[i].target # block.change.target
             THEN [ok |-> TRUE, changes |-> <<block.change>> \o rest.changes]
             ELSE Rejected

LEMMA BlockEnds ==
    ASSUME NEW lines \in Seq(Line), NEW k \in 1 .. Len(lines) - 7
    PROVE  ParseBlock(lines, k).end \in k + 1 .. Len(lines) + 1
<1> DEFINE n == Len(lines)
           marker == IF lines[k + 5] \in {"TEXT", "ADAPT"} THEN k + 7 ELSE k + 6
           e == ParseBlock(lines, k).end
<1>1. e = NextTarget(lines, marker + 1)
  BY DEF ParseBlock
<1>2. n \in Nat /\ marker \in {k + 6, k + 7} /\ marker + 1 \in 1 .. n + 1
  OBVIOUS
<1> HIDE DEF e
<1>3. e \in marker + 1 .. n + 1
  <2> HIDE DEF marker
  <2> QED BY <1>1, <1>2, NextTargetIs
<1>4. e \in k + 1 .. n + 1
  BY <1>2, <1>3
<1> QED BY <1>4 DEF e

LEMMA ParseSteps ==
    ASSUME NEW lines \in Seq(Line)
    PROVE  \E h : /\ ParseLines(lines) = h[1]
                  /\ \A k \in 1 .. Len(lines) + 1 : h[k] = ReadFrom(h, lines, k)
<1> DEFINE n == Len(lines)
           From(f, k) == ReadFrom(f, lines, k)
           Def(f) == [k \in 1 .. n + 1 |-> From(f, k)]
<1>1. n \in Nat
  OBVIOUS
<1>2. ASSUME NEW f, NEW g, NEW k \in 1 .. n + 1, \A j \in k + 1 .. n + 1 : f[j] = g[j]
      PROVE  From(f, k) = From(g, k)
  <2>1. CASE k = n + 1
    BY <2>1 DEF ReadFrom
  <2>2. CASE k # n + 1 /\ n - k < 7
    BY <2>2 DEF ReadFrom
  <2>3. CASE k # n + 1 /\ ~(n - k < 7)
    <3>1. k \in 1 .. n - 7
      BY <1>1, <2>3
    <3>2. f[ParseBlock(lines, k).end] = g[ParseBlock(lines, k).end]
      BY <1>2, <3>1, BlockEnds
    <3> QED BY <2>3, <3>2 DEF ReadFrom
  <2> QED BY <2>1, <2>2, <2>3
<1> HIDE DEF From
<1>3. n \in {m \in 0 .. n : \E f : \A k \in n + 1 - m .. n + 1 : f[k] = From(f, k)}
  <2> DEFINE G == {m \in 0 .. n : \E f : \A k \in n + 1 - m .. n + 1 : f[k] = From(f, k)}
  <2>1. 0 \in G
    <3>1. PICK f : f = [k \in 1 .. n + 1 |-> From(<<>>, n + 1)]
      OBVIOUS
    <3>2. \A k \in n + 1 - 0 .. n + 1 : k = n + 1 /\ k \in 1 .. n + 1
      BY <1>1
    <3>3. \A j \in (n + 1) + 1 .. n + 1 : f[j] = <<>>[j]
      BY <1>1
    <3>4. n + 1 \in 1 .. n + 1
      BY <1>1
    <3>5. From(f, n + 1) = From(<<>>, n + 1)
      BY <1>2, <3>3, <3>4
    <3>6. \A k \in n + 1 - 0 .. n + 1 : f[k] = From(f, k)
      BY <3>1, <3>2, <3>4, <3>5
    <3> QED BY <1>1, <3>6
  <2>2. ASSUME NEW m \in 0 .. n - 1, m \in G PROVE m + 1 \in G
    <3>1. PICK f : \A k \in n + 1 - m .. n + 1 : f[k] = From(f, k)
      BY <2>2
    <3>2. PICK c : c = n - m
      OBVIOUS
    <3>3. c \in 1 .. n /\ n + 1 - m = c + 1 /\ n + 1 - (m + 1) = c /\ c \in Int
      BY <1>1, <3>2
    <3>4. PICK g : g = [k \in 1 .. n + 1 |-> IF k = c THEN From(f, c) ELSE f[k]]
      OBVIOUS
    <3>5. \A k \in c + 1 .. n + 1 : g[k] = f[k] /\ k \in 1 .. n + 1 /\ k # c
      BY <3>3, <3>4
    <3>6. ASSUME NEW k \in c .. n + 1 PROVE g[k] = From(g, k)
      <4>1. k \in 1 .. n + 1 /\ \A j \in k + 1 .. n + 1 : j \in c + 1 .. n + 1
        BY <1>1, <3>3
      <4>2. From(g, k) = From(f, k)
        <5>1. \A j \in k + 1 .. n + 1 : f[j] = g[j]
          BY <3>5, <4>1
        <5> QED BY <1>2, <4>1, <5>1
      <4>3. CASE k = c
        BY <3>4, <4>1, <4>2, <4>3
      <4>4. CASE k # c
        <5>1. k \in c + 1 .. n + 1
          BY <3>3, <4>4
        <5> QED BY <3>1, <3>3, <3>5, <4>2, <5>1
      <4> QED BY <4>3, <4>4
    <3>7. m + 1 \in 0 .. n
      BY <1>1
    <3> QED BY <3>3, <3>6, <3>7
  <2> HIDE DEF G
  <2>3. 0 .. n \subseteq G
    BY <1>1, <2>1, <2>2, UpTo
  <2>4. n \in G
    BY <1>1, <2>3
  <2> QED BY <2>4 DEF G
<1>4. \E h : h = Def(h)
  <2>1. PICK f : \A k \in n + 1 - n .. n + 1 : f[k] = From(f, k)
    BY <1>3
  <2>2. n + 1 - n = 1
    BY <1>1
  <2>3. PICK h : h = [k \in 1 .. n + 1 |-> f[k]]
    OBVIOUS
  <2>4. ASSUME NEW k \in 1 .. n + 1 PROVE h[k] = From(h, k)
    <3>1. \A j \in k + 1 .. n + 1 : j \in 1 .. n + 1
      BY <1>1
    <3>2. \A j \in k + 1 .. n + 1 : f[j] = h[j]
      BY <2>3, <3>1
    <3>3. From(f, k) = From(h, k)
      BY <1>2, <3>2
    <3> QED BY <2>1, <2>2, <2>3, <3>3
  <2>5. h = Def(h)
    BY <2>3, <2>4
  <2> QED BY <2>5
<1>5. PICK h : h = (CHOOSE f : f = Def(f)) /\ h = Def(h)
  BY <1>4
<1>6. \A k \in 1 .. n + 1 : h[k] = From(h, k)
  BY <1>5
<1>7. ParseLines(lines) = h[1]
  BY <1>5 DEF ParseLines, From, ReadFrom
<1> QED BY <1>6, <1>7 DEF From

\* Every change that is read is that of a block.
LEMMA ReadIs ==
    ASSUME NEW lines \in Seq(Line), NEW c \in ToSet(ParseLines(lines).changes)
    PROVE  \E k \in 1 .. Len(lines) - 7 : /\ ParseBlock(lines, k).ok
                                          /\ c = ParseBlock(lines, k).change
<1> DEFINE n == Len(lines)
           Blocks == {k \in 1 .. n - 7 : ParseBlock(lines, k).ok}
           C == {ParseBlock(lines, k).change : k \in Blocks}
<1>1. n \in Nat
  OBVIOUS
<1>2. PICK h : /\ ParseLines(lines) = h[1]
               /\ \A k \in 1 .. n + 1 : h[k] = ReadFrom(h, lines, k)
  BY ParseSteps
<1>3. ASSUME NEW k \in 1 .. n + 1, \A j \in k + 1 .. n + 1 : h[j].changes \in Seq(C)
      PROVE  h[k].changes \in Seq(C)
  <2>1. h[k] = ReadFrom(h, lines, k)
    BY <1>2
  <2>2. CASE k = n + 1 \/ n - k < 7
    <3>1. h[k] = [ok |-> TRUE, changes |-> <<>>] \/ h[k] = [ok |-> FALSE, changes |-> <<>>]
      BY <2>1, <2>2 DEF ReadFrom, Rejected
    <3>2. h[k].changes = <<>>
      BY <3>1
    <3> HIDE DEF C
    <3> QED BY <3>2
  <2>3. CASE ~(k = n + 1 \/ n - k < 7)
    <3>1. PICK b : b = ParseBlock(lines, k)
      OBVIOUS
    <3>2. PICK rest : rest = h[b.end]
      OBVIOUS
    <3>3. k \in 1 .. n - 7
      BY <1>1, <2>3
    <3>4. rest.changes \in Seq(C)
      <4>1. b.end \in k + 1 .. n + 1
        BY <3>1, <3>3, BlockEnds
      <4> HIDE DEF C
      <4> QED BY <1>3, <3>2, <4>1
    <3>5. \/ h[k] = [ok |-> FALSE, changes |-> <<>>]
          \/ b.ok /\ h[k] = [ok |-> TRUE, changes |-> <<b.change>> \o rest.changes]
      BY <2>1, <2>3, <3>1, <3>2 DEF ReadFrom, Rejected
    <3>6. b.ok => b.change \in C
      BY <3>1, <3>3
    <3> HIDE DEF C
    <3>7. CASE h[k] = [ok |-> FALSE, changes |-> <<>>]
      <4>1. h[k].changes = <<>>
        BY <3>7
      <4> QED BY <4>1
    <3>8. CASE b.ok /\ h[k] = [ok |-> TRUE, changes |-> <<b.change>> \o rest.changes]
      <4>1. PICK v : v = <<b.change>> \o rest.changes
        OBVIOUS
      <4>2. h[k] = [ok |-> TRUE, changes |-> v]
        BY <3>8, <4>1
      <4>3. h[k].changes = v
        BY <4>2
      <4>4. <<b.change>> \in Seq(C)
        BY <3>6, <3>8
      <4>5. v \in Seq(C)
        BY <3>4, <4>1, <4>4, ConcatIs
      <4> QED BY <4>3, <4>5
    <3> QED BY <3>5, <3>7, <3>8
  <2> QED BY <2>2, <2>3
<1> HIDE DEF C
<1>4. n \in {m \in 0 .. n : \A k \in n + 1 - m .. n + 1 : h[k].changes \in Seq(C)}
  <2> DEFINE G == {m \in 0 .. n : \A k \in n + 1 - m .. n + 1 : h[k].changes \in Seq(C)}
  <2>2. 0 \in G
    <3>1. \A k \in n + 1 - 0 .. n + 1 : k \in 1 .. n + 1 /\ \A j \in k + 1 .. n + 1 : FALSE
      BY <1>1
    <3>2. \A k \in n + 1 - 0 .. n + 1 : h[k].changes \in Seq(C)
      BY <1>3, <3>1
    <3> QED BY <1>1, <3>2
  <2>3. ASSUME NEW m \in 0 .. n - 1, m \in G PROVE m + 1 \in G
    <3>1. \A k \in n + 1 - m .. n + 1 : h[k].changes \in Seq(C)
      BY <2>3
    <3>2. ASSUME NEW k \in n + 1 - (m + 1) .. n + 1 PROVE h[k].changes \in Seq(C)
      <4>1. k \in 1 .. n + 1 /\ \A j \in k + 1 .. n + 1 : j \in n + 1 - m .. n + 1
        BY <1>1
      <4> QED BY <1>3, <3>1, <4>1
    <3>3. m + 1 \in 0 .. n
      BY <1>1
    <3> QED BY <3>2, <3>3
  <2> HIDE DEF G
  <2>4. 0 .. n \subseteq G
    BY <1>1, <2>2, <2>3, UpTo
  <2>5. n \in G
    BY <1>1, <2>4
  <2> QED BY <2>5 DEF G
<1>5. h[1].changes \in Seq(C)
  <2>1. 1 \in n + 1 - n .. n + 1
    BY <1>1
  <2> QED BY <1>4, <2>1
<1>6. c \in C
  <2>1. PICK s : s = ParseLines(lines).changes
    OBVIOUS
  <2>2. s \in Seq(C) /\ c \in ToSet(s)
    BY <1>2, <1>5, <2>1
  <2> QED BY <2>2 DEF ToSet
<1> QED BY <1>6 DEF C

LEMMA ReadSeed ==
    ASSUME NEW lines \in Seq(Line), NEW k \in 1 .. Len(lines) - 7, ParseBlock(lines, k).ok,
           ParseBlock(lines, k).change.target = "NEW_DISPOSITION",
           NEW op \in SeedOps, ParseBlock(lines, k).change.operation = op
    PROVE  SeedAt(lines, k, {op})
<1>1. /\ HasHeader(lines, k) /\ lines[k + 1] = "NEW_DISPOSITION" /\ lines[k + 3] \in Scopes
      /\ op = IF lines[k + 5] \in DOMAIN InlineChange THEN InlineChange[lines[k + 5]]
              ELSE lines[k + 5]
  BY DEF ParseBlock
<1>2. OperationOf(lines[k + 5]) = op
  BY <1>1 DEF OperationOf
<1>3. k \in 1 .. Len(lines) - 5
  <2>1. Len(lines) \in Nat
    OBVIOUS
  <2> QED BY <2>1
<1> QED BY <1>1, <1>2, <1>3 DEF SeedAt

\* A Basis list that Core accepts behind an applicable scope.
ReadOK(application, basis) ==
    /\ application \in Scopes
    /\ basis # <<>>
    /\ \A i \in DOMAIN basis : StableBasisRef(basis[i])
    /\ IsInjective(basis)

\* A block for a new Disposition with a body on a line of its own.
Stands(lines, k, application, body, basis, e) ==
    /\ lines[k] = "TARGET" /\ lines[k + 1] = "NEW_DISPOSITION"
    /\ lines[k + 2] = "APPLICATION" /\ lines[k + 3] = application
    /\ lines[k + 4] = "CHANGE" /\ lines[k + 5] = "TEXT"
    /\ lines[k + 6] = body /\ lines[k + 7] = "BASIS"
    /\ e = NextTarget(lines, k + 8) /\ basis = SubSeq(lines, k + 8, e - 1)

LEMMA HeaderRead ==
    ASSUME NEW lines, NEW k \in Int, NEW application, NEW body, NEW basis, NEW e,
           Stands(lines, k, application, body, basis, e)
    PROVE  /\ ParseBlock(lines, k).end = e
           /\ ParseBlock(lines, k).ok <=> ReadOK(application, basis)
           /\ ParseBlock(lines, k).change =
                 [target |-> "NEW_DISPOSITION", application |-> application,
                  operation |-> "TEXT", text |-> body, basis |-> basis]
<1>0. /\ lines[k] = "TARGET" /\ lines[k + 1] = "NEW_DISPOSITION"
      /\ lines[k + 2] = "APPLICATION" /\ lines[k + 3] = application
      /\ lines[k + 4] = "CHANGE" /\ lines[k + 5] = "TEXT"
      /\ lines[k + 6] = body /\ lines[k + 7] = "BASIS"
      /\ e = NextTarget(lines, k + 8) /\ basis = SubSeq(lines, k + 8, e - 1)
  BY DEF Stands
<1>1. (k + 7) + 1 = k + 8
  OBVIOUS
<1>2. "TEXT" \notin DOMAIN InlineChange /\ "TEXT" \in {"TEXT", "ADAPT"}
  BY DEF InlineChange
<1>3. "NEW_DISPOSITION" \in NewTargets
  BY DEF NewTargets
<1>4. ParseBlock(lines, k).end = e
  BY <1>0, <1>1, <1>2 DEF ParseBlock
<1>5. ParseBlock(lines, k).change =
                 [target |-> "NEW_DISPOSITION", application |-> application,
                  operation |-> "TEXT", text |-> body, basis |-> basis]
  BY <1>0, <1>1, <1>2 DEF ParseBlock
<1>6. ParseBlock(lines, k).ok <=> ReadOK(application, basis)
  BY <1>0, <1>1, <1>2, <1>3 DEF ParseBlock, ReadOK, HasHeader
<1> QED BY <1>4, <1>5, <1>6

\* The text has the block between two parts, from line k on.
Between(t, k, a, f, b) == t = a \o (f \o b) /\ k = Len(a) + 1

LEMMA LinesOn ==
    ASSUME NEW n \in Nat
    PROVE  /\ n + 2 = (n + 1) + 1 /\ n + 3 = (n + 1) + 2 /\ n + 4 = (n + 1) + 3
           /\ n + 5 = (n + 1) + 4 /\ n + 6 = (n + 1) + 5 /\ n + 7 = (n + 1) + 6
           /\ n + 8 = (n + 1) + 7
  OBVIOUS

\* Core reads a block between two parts of a text as it reads the block alone.
LEMMA BlockMoved ==
    ASSUME NEW f, NEW application, NEW body, NEW basis \in Seq(Line),
           IsBlock(f, "NEW_DISPOSITION", application, body, basis),
           NEW a \in Seq(Line), NEW b \in Seq(Line), Opens(b),
           NEW t, NEW k, Between(t, k, a, f, b)
    PROVE  /\ ParseBlock(t, k).end = k + Len(f)
           /\ ParseBlock(t, k).ok <=> ReadOK(application, basis)
           /\ ParseBlock(t, k).change =
                 [target |-> "NEW_DISPOSITION", application |-> application,
                  operation |-> "TEXT", text |-> body, basis |-> basis]
<1>1. PICK n, m : n = Len(a) /\ m = Len(f)
  OBVIOUS
<1>2. /\ f \in Seq(Line) /\ m = 8 + Len(basis)
      /\ \A i \in 2 .. m : f[i] # "TARGET"
      /\ SubSeq(f, 9, m) = basis
  BY <1>1 DEF IsBlock, Full
<1>3. /\ f[1] = "TARGET" /\ f[2] = "NEW_DISPOSITION" /\ f[3] = "APPLICATION"
      /\ f[4] = application /\ f[5] = "CHANGE" /\ f[6] = "TEXT" /\ f[7] = body /\ f[8] = "BASIS"
  BY DEF IsBlock
<1>4. PICK c : c = f \o b
  OBVIOUS
<1>5. /\ c \in Seq(Line) /\ Len(c) = m + Len(b) /\ m \in Nat /\ Len(b) \in Nat
      /\ \A i \in 1 .. m : c[i] = f[i]
      /\ \A i \in 1 .. Len(b) : c[m + i] = b[i]
  <2>1. /\ Len(f \o b) = Len(f) + Len(b) /\ Len(f) \in Nat /\ Len(b) \in Nat /\ f \o b \in Seq(Line)
        /\ \A i \in 1 .. Len(f) : (f \o b)[i] = f[i]
        /\ \A i \in 1 .. Len(b) : (f \o b)[Len(f) + i] = b[i]
    BY <1>2, ConcatIs
  <2> QED BY <1>1, <1>4, <2>1, Zenon
<1>6. t = a \o c
  BY <1>4 DEF Between
<1>7. /\ t \in Seq(Line) /\ Len(t) = n + Len(c) /\ n \in Nat
      /\ \A i \in 1 .. Len(c) : t[n + i] = c[i]
  <2>0. c \in Seq(Line)
    BY <1>5
  <2>1. /\ Len(a \o c) = Len(a) + Len(c) /\ Len(a) \in Nat /\ a \o c \in Seq(Line)
        /\ \A i \in 1 .. Len(c) : (a \o c)[Len(a) + i] = c[i]
    BY <2>0, ConcatIs
  <2> QED BY <1>1, <1>6, <2>1, Zenon
<1>8. m >= 8
  <2>1. Len(basis) \in Nat
    OBVIOUS
  <2> QED BY <1>2, <2>1
<1>9. \A i \in 1 .. m : t[n + i] = f[i]
  BY <1>5, <1>7
<1>10. k = n + 1 /\ k \in Int
  BY <1>1, <1>7 DEF Between
<1>11. /\ t[k] = f[1] /\ t[k + 1] = f[2] /\ t[k + 2] = f[3] /\ t[k + 3] = f[4]
       /\ t[k + 4] = f[5] /\ t[k + 5] = f[6] /\ t[k + 6] = f[7] /\ t[k + 7] = f[8]
  <2>1. \A i \in 1 .. 8 : i \in 1 .. m
    BY <1>5, <1>8
  <2>2. \A i \in 1 .. 8 : t[n + i] = f[i]
    BY <1>9, <2>1
  <2>3. t[n + 1] = f[1] /\ t[n + 2] = f[2] /\ t[n + 3] = f[3] /\ t[n + 4] = f[4]
        /\ t[n + 5] = f[5] /\ t[n + 6] = f[6] /\ t[n + 7] = f[7] /\ t[n + 8] = f[8]
    BY <2>2
  <2>4. n + 1 = k /\ n + 2 = k + 1 /\ n + 3 = k + 2 /\ n + 4 = k + 3 /\ n + 5 = k + 4
        /\ n + 6 = k + 5 /\ n + 7 = k + 6 /\ n + 8 = k + 7
    <3>1. n \in Nat
      BY <1>7
    <3> QED BY <1>10, <3>1, LinesOn, Zenon
  <2> QED BY <2>3, <2>4
<1>12. PICK e : e = NextTarget(t, k + 8)
  OBVIOUS
<1>13. e = k + m
  <2>1. k + 8 \in 1 .. Len(t) + 1
    BY <1>5, <1>7, <1>8, <1>10
  <2>2. /\ e \in k + 8 .. Len(t) + 1
        /\ e # Len(t) + 1 => t[e] = "TARGET"
        /\ \A j \in k + 8 .. e - 1 : t[j] # "TARGET"
    BY <1>7, <1>12, <2>1, NextTargetIs
  <2>3. e >= k + m
    <3> SUFFICES ASSUME ~(e >= k + m) PROVE FALSE
      OBVIOUS
    <3>1. e # Len(t) + 1 /\ e - n \in 2 .. m /\ e - n \in 1 .. m /\ n + (e - n) = e
      BY <1>5, <1>7, <1>10, <2>2
    <3>2. t[e] = f[e - n]
      BY <1>9, <3>1
    <3> QED BY <1>2, <2>2, <3>1, <3>2
  <2>4. e <= k + m
    <3> SUFFICES ASSUME ~(e <= k + m) PROVE FALSE
      OBVIOUS
    <3>1. k + m \in k + 8 .. e - 1 /\ Len(b) # 0 /\ 1 \in 1 .. Len(b) /\ m + 1 \in 1 .. Len(c)
          /\ n + (m + 1) = k + m
      BY <1>5, <1>7, <1>8, <1>10, <2>2
    <3>2. b # <<>>
      BY <3>1
    <3>3. b[1] = "TARGET"
      BY <3>2 DEF Opens
    <3>4. t[k + m] = c[m + 1] /\ c[m + 1] = b[1]
      BY <1>5, <1>7, <3>1
    <3> QED BY <2>2, <3>1, <3>3, <3>4
  <2>5. e \in Int
    BY <2>2
  <2>6. k + m \in Int
    BY <1>5, <1>10
  <2> QED BY <2>3, <2>4, <2>5, <2>6
<1>14. SubSeq(t, k + 8, e - 1) = basis
  <2>1. k + 8 \in 1 .. Len(t) + 1 /\ e - 1 \in (k + 8) - 1 .. Len(t) /\ (e - 1) - (k + 8) + 1 = m - 8
    BY <1>5, <1>7, <1>8, <1>10, <1>13
  <2>2. PICK u : u = SubSeq(t, k + 8, e - 1)
    OBVIOUS
  <2>3. u \in Seq(Line) /\ Len(u) = m - 8 /\ \A i \in 1 .. m - 8 : u[i] = t[(k + 8) + i - 1]
    <3>1. t \in Seq(Line)
      BY <1>7
    <3>2. PICK x, y : x = k + 8 /\ y = e - 1
      OBVIOUS
    <3>3. x \in 1 .. Len(t) + 1 /\ y \in x - 1 .. Len(t) /\ y - x + 1 = m - 8
      BY <2>1, <3>2
    <3>4. /\ SubSeq(t, x, y) \in Seq(Line)
          /\ Len(SubSeq(t, x, y)) = y - x + 1
          /\ \A i \in 1 .. y - x + 1 : SubSeq(t, x, y)[i] = t[x + i - 1]
      BY <3>1, <3>3, SubSeqIs
    <3> QED BY <2>2, <3>2, <3>3, <3>4, Zenon
  <2>4. 9 \in 1 .. m + 1 /\ m \in 9 - 1 .. m /\ m - 9 + 1 = m - 8
    BY <1>5, <1>8
  <2>5. basis \in Seq(Line) /\ Len(basis) = m - 8 /\ \A i \in 1 .. m - 8 : basis[i] = f[9 + i - 1]
    <3>1. f \in Seq(Line)
      BY <1>2
    <3>2. 9 \in 1 .. Len(f) + 1 /\ m \in 9 - 1 .. Len(f)
      BY <1>1, <2>4
    <3>3. /\ SubSeq(f, 9, m) \in Seq(Line)
          /\ Len(SubSeq(f, 9, m)) = m - 9 + 1
          /\ \A i \in 1 .. m - 9 + 1 : SubSeq(f, 9, m)[i] = f[9 + i - 1]
      BY <3>1, <3>2, SubSeqIs
    <3> QED BY <1>2, <2>4, <3>3, Zenon
  <2>6. ASSUME NEW i \in 1 .. m - 8 PROVE u[i] = basis[i]
    <3>1. (k + 8) + i - 1 = n + (8 + i) /\ 9 + i - 1 = 8 + i /\ 8 + i \in 1 .. m
      BY <1>5, <1>7, <1>10
    <3> QED BY <1>9, <2>3, <2>5, <3>1, ZenonT(30)
  <2>7. u = basis
    BY <2>3, <2>5, <2>6
  <2> QED BY <2>2, <2>7
<1>15. e = NextTarget(t, k + 8) /\ basis = SubSeq(t, k + 8, e - 1)
  BY <1>12, <1>14
<1>16. /\ t[k] = "TARGET" /\ t[k + 1] = "NEW_DISPOSITION" /\ t[k + 2] = "APPLICATION"
       /\ t[k + 3] = application /\ t[k + 4] = "CHANGE" /\ t[k + 5] = "TEXT"
       /\ t[k + 6] = body /\ t[k + 7] = "BASIS"
  BY <1>3, <1>11
<1>17. /\ ParseBlock(t, k).end = e
       /\ ParseBlock(t, k).ok <=> ReadOK(application, basis)
       /\ ParseBlock(t, k).change =
                 [target |-> "NEW_DISPOSITION", application |-> application,
                  operation |-> "TEXT", text |-> body, basis |-> basis]
  <2>1. k \in Int
    BY <1>10
  <2>2. Stands(t, k, application, body, basis, e)
    BY <1>15, <1>16 DEF Stands
  <2> QED BY <2>1, <2>2, HeaderRead
<1> QED BY <1>1, <1>13, <1>17

LEMMA FormedRead ==
    ASSUME NEW f, NEW application, NEW body, NEW basis \in Seq(Line),
           IsBlock(f, "NEW_DISPOSITION", application, body, basis),
           ReadOK(application, basis), Len(f) <= MaxTaggedLines
    PROVE  [target |-> "NEW_DISPOSITION", application |-> application,
            operation |-> "TEXT", text |-> body, basis |-> basis] \in Changes(f)
<1>1. PICK n, c : /\ n = Len(f)
                  /\ c = [target |-> "NEW_DISPOSITION", application |-> application,
                          operation |-> "TEXT", text |-> body, basis |-> basis]
  OBVIOUS
<1>2. f \in Seq(Line) /\ n = 8 + Len(basis) /\ Full(f)
  BY <1>1 DEF IsBlock, Full
<1>3. n \in Nat /\ n >= 8
  <2>1. Len(basis) \in Nat
    OBVIOUS
  <2> QED BY <1>2, <2>1
<1>4. Between(f, 1, <<>>, f, <<>>)
  <2>1. f = <<>> \o (f \o <<>>) /\ Len(<<>>) + 1 = 1
    BY <1>2, ConcatEmptySeq
  <2> QED BY <2>1 DEF Between
<1>5. PICK b : b = ParseBlock(f, 1)
  OBVIOUS
<1>6. b.end = n + 1 /\ b.ok /\ b.change = c
  <2>0. PICK none : none = <<>>
    OBVIOUS
  <2>1. none \in Seq(Line) /\ Opens(none) /\ Between(f, 1, none, f, none)
    BY <1>4, <2>0 DEF Opens
  <2>2. /\ ParseBlock(f, 1).end = 1 + Len(f)
        /\ ParseBlock(f, 1).ok <=> ReadOK(application, basis)
        /\ ParseBlock(f, 1).change =
              [target |-> "NEW_DISPOSITION", application |-> application,
               operation |-> "TEXT", text |-> body, basis |-> basis]
    BY <2>1, BlockMoved
  <2>3. 1 + n = n + 1
    BY <1>3
  <2> QED BY <1>1, <1>5, <2>2, <2>3, Zenon
<1>7. PICK h : /\ ParseLines(f) = h[1]
               /\ \A k \in 1 .. n + 1 : h[k] = ReadFrom(h, f, k)
  BY <1>1, <1>2, ParseSteps, ZenonT(30)
<1>8. h[n + 1] = [ok |-> TRUE, changes |-> <<>>]
  <2>1. n + 1 \in 1 .. n + 1
    BY <1>3
  <2> QED BY <1>1, <1>7, <2>1 DEF ReadFrom
<1>9. c.target \in NewTargets
  BY <1>1 DEF NewTargets
<1>10. PICK v : v = <<c>> \o <<>>
  OBVIOUS
<1>11. h[1] = [ok |-> TRUE, changes |-> v]
  <2>1. 1 \in 1 .. n + 1 /\ ~(1 = n + 1) /\ ~(n - 1 < 7)
    BY <1>3
  <2>2. h[1] = ReadFrom(h, f, 1)
    BY <1>7, <2>1
  <2>3. PICK rest : rest = h[b.end]
    OBVIOUS
  <2>4. rest.ok /\ rest.changes = <<>>
    BY <1>6, <1>8, <2>3
  <2>5. ReadFrom(h, f, 1) = [ok |-> TRUE, changes |-> <<b.change>> \o rest.changes]
    BY <1>1, <1>5, <1>6, <1>9, <2>1, <2>3, <2>4 DEF ReadFrom
  <2>6. <<b.change>> \o rest.changes = v
    BY <1>6, <1>10, <2>4, Zenon
  <2> QED BY <2>2, <2>5, <2>6, Zenon
<1>12. v = <<c>>
  BY <1>10
<1>13. ParseTaggedText(f) = ParseLines(f)
  <2>1. Meaningful(f) = f
    BY <1>2, MeaningfulOfFull DEF Full
  <2>2. ~(Len(f) > MaxTaggedLines)
    BY <1>1, <1>3, MaxTaggedLinesAssumption
  <2> QED BY <2>1, <2>2 DEF ParseTaggedText
<1>14. ParseTaggedText(f).changes = <<c>>
  BY <1>7, <1>11, <1>12, <1>13
<1>15. c \in ToSet(<<c>>)
  BY DEF ToSet
<1> QED BY <1>1, <1>14, <1>15, Zenon DEF Changes

LEMMA FormedSeeds ==
    ASSUME NEW f, IsFormed(f), NEW op \in SeedOps, NEW j, SeedAt(f, j, {op})
    PROVE  j = 1 /\ op = "TEXT"
<1>1. /\ Full(f) /\ f[6] = "TEXT" /\ \A i \in 2 .. Len(f) : f[i] # "TARGET"
  BY DEF IsFormed, IsBlock
<1>2. j \in 1 .. Len(f) - 5 /\ f[j] = "TARGET" /\ OperationOf(f[j + 5]) = op
  BY DEF SeedAt, HasHeader
<1>3. Len(f) \in Nat
  BY <1>1 DEF Full
<1>4. j = 1
  BY <1>1, <1>2, <1>3
<1>5. OperationOf("TEXT") = "TEXT"
  BY DEF OperationOf, InlineChange
<1>6. f[1 + 5] = f[6]
  OBVIOUS
<1> QED BY <1>1, <1>2, <1>4, <1>5, <1>6

-----------------------------------------------------------------------------
(* The lanes *)

\* What the primary lane says, the block of the formation lane and what the
\* other lanes add.
Lanes(lines, f, anchored) ==
    \E a, b \in Seq(Line) :
        /\ Opens(b) /\ Headless(b)
        /\ Seedless(a, {"ADAPT"})
        /\ anchored => Seedless(a, {"TEXT"})
        /\ \/ lines = a \o b
           \/ IsFormed(f) /\ Len(f) <= MaxTaggedLines /\ lines = a \o (f \o b)

LEMMA LanesRead ==
    ASSUME NEW lines \in Seq(Line), NEW f, NEW anchored \in BOOLEAN, Lanes(lines, f, anchored),
           NEW c \in ToSet(ParseLines(lines).changes), c.target = "NEW_DISPOSITION",
           c.operation = "ADAPT" \/ (anchored /\ c.operation = "TEXT")
    PROVE  c.operation = "TEXT" /\ c \in Changes(f)
<1>1. PICK k \in 1 .. Len(lines) - 7 : /\ ParseBlock(lines, k).ok
                                       /\ c = ParseBlock(lines, k).change
  BY ReadIs
<1>2. PICK op : op = c.operation
  OBVIOUS
<1>3. op \in SeedOps /\ {op} \in SUBSET SeedOps
  BY <1>2 DEF SeedOps
<1>4. SeedAt(lines, k, {op})
  BY <1>1, <1>2, <1>3, ReadSeed
<1>5. PICK a, b \in Seq(Line) :
        /\ Opens(b) /\ Headless(b)
        /\ Seedless(a, {"ADAPT"})
        /\ anchored => Seedless(a, {"TEXT"})
        /\ \/ lines = a \o b
           \/ IsFormed(f) /\ Len(f) <= MaxTaggedLines /\ lines = a \o (f \o b)
  BY DEF Lanes
<1>6. Seedless(a, {op}) /\ Seedless(b, {op})
  <2>1. op = "ADAPT" \/ (anchored /\ op = "TEXT")
    BY <1>2
  <2> QED BY <1>5, <2>1, HeadlessIsSeedless
<1>7. \A s \in Seq(Line) : \A i : SeedAt(s, i, {op}) => i \in 1 .. Len(s)
  <2> TAKE s \in Seq(Line)
  <2> TAKE i
  <2>1. Len(s) \in Nat
    OBVIOUS
  <2> QED BY <2>1 DEF SeedAt
<1>8. lines # a \o b
  <2> SUFFICES ASSUME lines = a \o b PROVE FALSE
    OBVIOUS
  <2>1. Seedless(lines, {op})
    BY <1>3, <1>5, <1>6, SeedlessJoined
  <2> QED BY <1>4, <1>7, <2>1 DEF Seedless
<1>9. IsFormed(f) /\ Len(f) <= MaxTaggedLines /\ lines = a \o (f \o b)
  BY <1>5, <1>8
<1>10. PICK application \in {"SELF", "RELATION"}, body \in Line, basis \in Seq(Line) :
          IsBlock(f, "NEW_DISPOSITION", application, body, basis)
  BY <1>9 DEF IsFormed
<1>11. f \in Seq(Line) /\ f[1] = "TARGET"
  BY <1>10 DEF IsBlock, Full
<1>12. PICK g : g = f \o b
  OBVIOUS
<1>13. g \in Seq(Line) /\ Opens(g)
  <2>1. Opens(f)
    BY <1>11 DEF Opens
  <2> QED BY <1>5, <1>11, <1>12, <2>1, OpensJoined, ConcatIs
<1>14. PICK n : n = Len(a)
  OBVIOUS
<1>15. SeedAt(g, k - n, {op})
  <2>1. lines = a \o g
    BY <1>9, <1>12
  <2>2. SeedAt(a, k, {op}) \/ SeedAt(g, k - n, {op})
    BY <1>3, <1>4, <1>13, <1>14, <2>1, SeedOfJoined
  <2> QED BY <1>6, <1>7, <2>2 DEF Seedless
<1>16. SeedAt(f, k - n, {op})
  <2>1. SeedAt(f, k - n, {op}) \/ SeedAt(b, (k - n) - Len(f), {op})
    BY <1>3, <1>5, <1>11, <1>12, <1>15, SeedOfJoined
  <2> QED BY <1>6, <1>7, <2>1 DEF Seedless
<1>17. k - n = 1 /\ op = "TEXT"
  BY <1>3, <1>9, <1>16, FormedSeeds
<1>18. k = n + 1
  <2>1. n \in Nat /\ k \in Int
    BY <1>14
  <2> QED BY <1>17, <2>1
<1>19. Between(lines, k, a, f, b)
  BY <1>9, <1>14, <1>18 DEF Between
<1>20. PICK d : d = [target |-> "NEW_DISPOSITION", application |-> application,
                     operation |-> "TEXT", text |-> body, basis |-> basis]
  OBVIOUS
<1>21. c = d /\ ReadOK(application, basis)
  BY <1>1, <1>5, <1>10, <1>19, <1>20, BlockMoved
<1>22. d \in Changes(f)
  BY <1>9, <1>10, <1>20, <1>21, FormedRead
<1> QED BY <1>2, <1>17, <1>21, <1>22

LEMMA LanesStart ==
    ASSUME NEW t \in Seq(Line), NEW f, NEW anchored, Clean(t, {"ADAPT"}),
           anchored => Clean(t, {"TEXT"})
    PROVE  Lanes(Meaningful(t), f, anchored)
<1>1. PICK a, b : a = Meaningful(t) /\ b = <<>>
  OBVIOUS
<1>2. a \in Seq(Line) /\ b \in Seq(Line) /\ Opens(b) /\ Headless(b)
  <2>1. a \in Seq(Line)
    BY <1>1, MeaningfulType
  <2>2. Addition(b)
    BY <1>1, NoAddition
  <2> QED BY <2>1, <2>2 DEF Addition, Full
<1>3. Seedless(a, {"ADAPT"}) /\ (anchored => Seedless(a, {"TEXT"}))
  <2>1. {"ADAPT"} \in SUBSET SeedOps /\ {"TEXT"} \in SUBSET SeedOps
    BY DEF SeedOps
  <2> QED BY <1>1, <2>1, CleanForCore
<1>4. a = a \o b
  BY <1>1, <1>2, ConcatEmptySeq
<1> QED BY <1>1, <1>2, <1>3, <1>4 DEF Lanes

LEMMA LanesOfAddition ==
    ASSUME NEW x, Addition(x), NEW f, NEW anchored
    PROVE  x \in Seq(Line) /\ Lanes(Meaningful(x), f, anchored)
<1>1. x \in Seq(Line) /\ Opens(x) /\ Headless(x)
  BY DEF Addition, Full
<1>2. Meaningful(x) = x
  BY MeaningfulOfFull DEF Addition, Full
<1>3. PICK a : a = <<>>
  OBVIOUS
<1>4. a \in Seq(Line) /\ \A ops : Seedless(a, ops)
  <2>1. a \in Seq(Line) /\ Headless(a)
    BY <1>3, NoAddition DEF Addition, Full
  <2> QED BY <2>1, HeadlessIsSeedless
<1>5. x = a \o x
  BY <1>1, <1>3, ConcatEmptySeq
<1>6. Lanes(x, f, anchored)
  BY <1>1, <1>4, <1>5 DEF Lanes
<1> QED BY <1>1, <1>2, <1>6

\* The feedback and the fallback lanes write no block for a new Disposition.
LEMMA LanesWithAddition ==
    ASSUME NEW t \in Seq(Line), NEW x, Addition(x), NEW f, NEW anchored,
           Lanes(Meaningful(t), f, anchored), NEW r, r = AppendTaggedText(t, x)
    PROVE  r \in Seq(Line) /\ Lanes(Meaningful(r), f, anchored)
<1>1. Full(x) /\ x \in Seq(Line) /\ Opens(x) /\ Headless(x)
  BY DEF Addition, Full
<1>2. r \in Seq(Line) /\ (r = t \/ Meaningful(r) = Meaningful(t) \o x)
  BY <1>1, AppendedIs
<1>3. PICK m : m = Meaningful(t)
  OBVIOUS
<1>4. Lanes(m \o x, f, anchored)
  <2>1. PICK a, b \in Seq(Line) :
          /\ Opens(b) /\ Headless(b)
          /\ Seedless(a, {"ADAPT"})
          /\ anchored => Seedless(a, {"TEXT"})
          /\ \/ m = a \o b
             \/ IsFormed(f) /\ Len(f) <= MaxTaggedLines /\ m = a \o (f \o b)
    BY <1>3 DEF Lanes
  <2>2. PICK d : d = b \o x
    OBVIOUS
  <2>3. d \in Seq(Line) /\ Opens(d) /\ Headless(d)
    <3>1. d \in Seq(Line)
      BY <1>1, <2>2, ConcatIs
    <3>2. Opens(d) /\ Headless(d)
      BY <1>1, <2>1, <2>2, OpensJoined, HeadlessJoined
    <3> QED BY <3>1, <3>2
  <2>4. CASE m = a \o b
    <3>1. m \o x = a \o d
      BY <1>1, <2>2, <2>4, ConcatAssociative, SMTT(30)
    <3> QED BY <2>1, <2>3, <3>1 DEF Lanes
  <2>5. CASE IsFormed(f) /\ Len(f) <= MaxTaggedLines /\ m = a \o (f \o b)
    <3>1. f \in Seq(Line)
      BY <2>5 DEF IsFormed, IsBlock, Full
    <3>2. PICK g : g = f \o b
      OBVIOUS
    <3>3. g \in Seq(Line) /\ g \o x = f \o d
      <4>1. g \in Seq(Line)
        BY <3>1, <3>2, ConcatIs
      <4>2. g \o x = f \o d
        BY <1>1, <2>2, <3>1, <3>2, ConcatAssociative, SMTT(30)
      <4> QED BY <4>1, <4>2
    <3>4. (a \o g) \o x = a \o (g \o x)
      <4>1. x \in Seq(Line)
        BY <1>1
      <4>2. g \in Seq(Line)
        BY <3>3
      <4> QED BY <4>1, <4>2, ConcatAssociative, SMTT(30)
    <3>5. m \o x = a \o (f \o d)
      BY <2>5, <3>2, <3>3, <3>4, Zenon
    <3> QED BY <2>1, <2>3, <2>5, <3>5 DEF Lanes
  <2> QED BY <2>1, <2>4, <2>5
<1> QED BY <1>2, <1>3, <1>4

\* The formation lane adds its block once, to a text without one.
LEMMA LanesWithFormed ==
    ASSUME NEW t \in Seq(Line), NEW f, f = <<>> \/ IsFormed(f), NEW anchored,
           Lanes(Meaningful(t), <<>>, anchored), NEW r, r = AppendTaggedText(t, f)
    PROVE  r \in Seq(Line) /\ Lanes(Meaningful(r), f, anchored)
<1>1. Full(f) /\ f \in Seq(Line)
  BY NoAddition DEF IsFormed, IsBlock, Addition, Full
<1>2. /\ r \in Seq(Line)
      /\ \/ r = t
         \/ f # <<>> /\ Len(f) <= MaxTaggedLines /\ Meaningful(r) = Meaningful(t) \o f
  BY <1>1, AppendedIs
<1>3. PICK m : m = Meaningful(t)
  OBVIOUS
<1>4. PICK a, b \in Seq(Line) :
        /\ Opens(b) /\ Headless(b)
        /\ Seedless(a, {"ADAPT"})
        /\ anchored => Seedless(a, {"TEXT"})
        /\ m = a \o b
  <2>1. ~IsFormed(<<>>)
    <3> SUFFICES ASSUME IsFormed(<<>>) PROVE FALSE
      OBVIOUS
    <3>1. PICK basis \in Seq(Line) : Len(<<>>) = 8 + Len(basis)
      BY DEF IsFormed, IsBlock
    <3>2. Len(<<>>) = 0 /\ Len(basis) \in Nat
      OBVIOUS
    <3> QED BY <3>1, <3>2
  <2> QED BY <1>3, <2>1 DEF Lanes
<1>5. Lanes(m, f, anchored)
  BY <1>4 DEF Lanes
<1>6. CASE r = t
  BY <1>2, <1>3, <1>5, <1>6
<1>7. CASE f # <<>> /\ Len(f) <= MaxTaggedLines /\ Meaningful(r) = Meaningful(t) \o f
  <2>1. PICK d, none : d = a \o b /\ none = <<>>
    OBVIOUS
  <2>2. d \in Seq(Line) /\ Seedless(d, {"ADAPT"}) /\ (anchored => Seedless(d, {"TEXT"}))
    <3>1. {"ADAPT"} \in SUBSET SeedOps /\ {"TEXT"} \in SUBSET SeedOps
      BY DEF SeedOps
    <3>2. Seedless(b, {"ADAPT"}) /\ Seedless(b, {"TEXT"})
      BY <1>4, HeadlessIsSeedless
    <3>3. d \in Seq(Line)
      BY <2>1, ConcatIs
    <3> QED BY <1>4, <2>1, <3>1, <3>2, <3>3, SeedlessJoined
  <2>3. none \in Seq(Line) /\ Opens(none) /\ Headless(none)
    BY <2>1, NoAddition DEF Addition, Full
  <2>4. f \o none = f
    BY <1>1, <2>1, ConcatEmptySeq
  <2>5. m \o f = d \o (f \o none)
    BY <1>4, <2>1, <2>4, Zenon
  <2>6. IsFormed(f)
    BY <1>7
  <2>7. Lanes(m \o f, f, anchored)
    BY <1>7, <2>2, <2>3, <2>5, <2>6 DEF Lanes
  <2> QED BY <1>2, <1>3, <1>7, <2>7
<1> QED BY <1>2, <1>6, <1>7

LEMMA LanesNormalized ==
    ASSUME NEW r \in Requests, NEW t \in Seq(Line), NEW f, NEW anchored,
           Lanes(Meaningful(t), f, anchored), NEW n, n = NormalizePrimaryFeedback(r, t)
    PROVE  n \in Seq(Line) /\ Lanes(Meaningful(n), f, anchored)
<1>1. \/ n = t
      \/ n = NormalizeFeedbackOutput(t, EligibleFeedbackTargets(r), FeedbackEpisodes(r),
                                     FeedbackOutcomes(r))
  BY DEF NormalizePrimaryFeedback
<1>2. /\ \A ref \in EligibleFeedbackTargets(r) : ref # "NEW_DISPOSITION"
      /\ \A ref \in FeedbackEpisodes(r) : Plain(ref)
  BY PlainRefs DEF EligibleFeedbackTargets
<1>3. Addition(NormalizeFeedbackOutput(t, EligibleFeedbackTargets(r), FeedbackEpisodes(r),
                                       FeedbackOutcomes(r)))
  BY <1>2, NormalizeIs
<1> QED BY <1>1, <1>3, LanesOfAddition

-----------------------------------------------------------------------------
(* Sizes *)

\* A list has at least as many entries as there are different ones.
LEMMA AtMostLen ==
    ASSUME NEW S, NEW s \in Seq(S), NEW T, T \subseteq ToSet(s)
    PROVE  Cardinality(T) \in Nat /\ Cardinality(T) <= Len(s)
<1>1. PICK n, R : n = Len(s) /\ R = ToSet(s)
  OBVIOUS
<1>2. n \in Nat /\ DOMAIN s = 1 .. n
  BY <1>1
<1>3. IsFiniteSet(1 .. n) /\ Cardinality(1 .. n) = n
  <2>1. IsFiniteSet(1 .. n) /\ Cardinality(1 .. n) = IF 1 > n THEN 0 ELSE n - 1 + 1
    BY <1>2, FS_Interval
  <2> QED BY <1>2, <2>1
<1>4. s \in Surjection(1 .. n, R)
  <2>1. s \in [1 .. n -> R]
    BY <1>1, <1>2 DEF ToSet
  <2>2. \A t \in R : \E i \in 1 .. n : s[i] = t
    BY <1>1, <1>2 DEF ToSet
  <2> QED BY <2>1, <2>2 DEF Surjection
<1>5. IsFiniteSet(R) /\ Cardinality(R) <= n
  BY <1>3, <1>4, FS_Surjection
<1>6. T \in SUBSET R
  BY <1>1
<1>7. IsFiniteSet(T) /\ Cardinality(T) <= Cardinality(R)
  BY <1>5, <1>6, FS_Subset
<1>8. Cardinality(T) \in Nat /\ Cardinality(R) \in Nat
  BY <1>5, <1>7, FS_CardinalityType
<1> QED BY <1>1, <1>2, <1>5, <1>7, <1>8

\* The recovery prompt is no larger than the primary one.
LEMMA FeedbackFits ==
    ASSUME NEW r \in Requests
    PROVE  /\ BuildModelInput(r) \in Nat /\ BuildFeedbackInput(r) \in Nat
           /\ BuildFeedbackInput(r) <= BuildModelInput(r)
<1>1. PICK w, x, y, t, b : /\ w = r.window /\ x = Len(r.targets) /\ y = Len(r.basis)
                           /\ t = Cardinality(EligibleFeedbackTargets(r))
                           /\ b = Cardinality(EligibleFeedbackBasisRefs(r))
  OBVIOUS
<1>2. r.window \in Nat /\ r.targets \in Seq(Line) /\ r.basis \in Seq(Line)
  BY ShapeOfRequest
<1>3. EligibleFeedbackTargets(r) \subseteq ToSet(r.targets)
  BY DEF EligibleFeedbackTargets, Targets
<1>4. EligibleFeedbackBasisRefs(r) \subseteq ToSet(r.basis)
  BY DEF EligibleFeedbackBasisRefs, Basis
<1>5. t \in Nat /\ t <= x
  BY <1>1, <1>2, <1>3, AtMostLen
<1>6. b \in Nat /\ b <= y
  BY <1>1, <1>2, <1>4, AtMostLen
<1>7. w \in Nat /\ x \in Nat /\ y \in Nat
  BY <1>1, <1>2
<1>8. BuildModelInput(r) = RulesSize + w + x + y
  BY <1>1 DEF BuildModelInput
<1>9. BuildFeedbackInput(r) = FeedbackSize + w + t + b
  BY <1>1 DEF BuildFeedbackInput
<1>10. RulesSize \in Nat /\ FeedbackSize \in Nat /\ FeedbackSize <= RulesSize
  BY WorkerAssumption
<1> QED BY <1>5, <1>6, <1>7, <1>8, <1>9, <1>10

LEMMA FormationSized ==
    ASSUME NEW r \in Requests, DispositionFormationMaterial(r).ok
    PROVE  BuildFormationInput(r) \in Nat
<1>1. PICK n : n = Len(DispositionFormationMaterial(r).basis)
  OBVIOUS
<1>2. DispositionFormationMaterial(r).basis \in Seq(PlainLines)
  BY MaterialIs
<1>3. n \in Nat
  BY <1>1, <1>2
<1>4. BuildFormationInput(r) = FormationSize + n
  BY <1>1 DEF BuildFormationInput
<1>5. FormationSize \in Nat
  BY WorkerAssumption
<1> QED BY <1>3, <1>4, <1>5

LEMMA RecollectionSized ==
    ASSUME NEW r \in Requests
    PROVE  BuildRecollectionInput(r) \in Nat
<1> DEFINE e == CurrentEpisodes(r)
           Said(sources) == Sublist(sources, {j \in DOMAIN sources : /\ sources[j].role = "situation"
                                                                     /\ sources[j].actor = "user"})
           said == [i \in DOMAIN e |-> Said(e[i].sources)]
<1>1. e \in Seq(EvidenceEpisode)
  <2>1. r.episodes \in Seq(EvidenceEpisode)
    BY ShapeOfRequest
  <2> QED BY <2>1, SublistElements DEF CurrentEpisodes
<1>2. RecollectionMaterials(r) = FlattenSeq(said)
  BY DEF RecollectionMaterials
<1> HIDE DEF e
<1>3. said \in Seq(Seq(EvidenceSource))
  <2>1. ASSUME NEW i \in 1 .. Len(e) PROVE said[i] \in Seq(EvidenceSource)
    <3>1. e[i] \in EvidenceEpisode
      BY <1>1
    <3>2. PICK sources : sources = e[i].sources
      OBVIOUS
    <3>3. sources \in Seq(EvidenceSource)
      BY <3>1, <3>2 DEF EvidenceEpisode
    <3>4. Said(sources) \in Seq(EvidenceSource)
      BY <3>3, SublistElements
    <3>5. said[i] = Said(sources)
      <4>1. i \in DOMAIN e
        BY <1>1
      <4> HIDE DEF Said
      <4> QED BY <3>2, <4>1
    <3> QED BY <3>4, <3>5
  <2>2. said = [i \in 1 .. Len(e) |-> said[i]] /\ Len(e) \in Nat
    BY <1>1
  <2> HIDE DEF said
  <2> QED BY <2>1, <2>2
<1> HIDE DEF said
<1>4. RecollectionMaterials(r) \in Seq(EvidenceSource)
  <2>1. <<>> \in Seq(EvidenceSource)
    OBVIOUS
  <2> QED BY <1>2, <1>3, <2>1, FlattenAppend
<1>5. PICK n, m : n = Len(RecollectionMaterials(r)) /\ m = Len(r.recollections)
  OBVIOUS
<1>6. n \in Nat /\ m \in Nat
  <2>1. r.recollections \in Seq(Line)
    BY ShapeOfRequest
  <2> QED BY <1>4, <1>5, <2>1
<1>7. BuildRecollectionInput(r) = RecollectionSize + n + m
  BY <1>5 DEF BuildRecollectionInput
<1>8. RecollectionSize \in Nat
  BY WorkerAssumption
<1> QED BY <1>6, <1>7, <1>8

\* The sizes of at most so many calls, all within the bound.
SizesOK(s, calls) ==
    s \in Seq(Nat) /\ Len(s) <= calls /\ \A i \in DOMAIN s : s[i] <= MaxModelInput

LEMMA OneMoreCall ==
    ASSUME NEW s, NEW calls \in Nat, SizesOK(s, calls), NEW size \in Nat, size <= MaxModelInput
    PROVE  SizesOK(Append(s, size), calls + 1)
<1>1. s \in Seq(Nat) /\ Len(s) <= calls /\ \A i \in DOMAIN s : s[i] <= MaxModelInput
  BY DEF SizesOK
<1>2. PICK n, u : n = Len(s) /\ u = Append(s, size)
  OBVIOUS
<1>3. /\ n \in Nat /\ u \in Seq(Nat) /\ Len(u) = n + 1 /\ u[n + 1] = size
      /\ \A i \in 1 .. n : u[i] = s[i] /\ i \in DOMAIN s
  BY <1>1, <1>2
<1>4. DOMAIN u = 1 .. n + 1
  BY <1>3
<1>5. ASSUME NEW i \in DOMAIN u PROVE u[i] <= MaxModelInput
  <2>1. i = n + 1 \/ i \in 1 .. n
    BY <1>3, <1>4
  <2> QED BY <1>1, <1>3, <2>1
<1>6. Len(u) <= calls + 1
  BY <1>1, <1>2, <1>3
<1> QED BY <1>2, <1>3, <1>5, <1>6 DEF SizesOK

LEMMA FewerCalls ==
    ASSUME NEW s, NEW few \in Nat, NEW many \in Nat, few <= many, SizesOK(s, few)
    PROVE  SizesOK(s, many)
<1>1. s \in Seq(Nat) /\ Len(s) <= few /\ Len(s) \in Nat
  BY DEF SizesOK
<1>2. Len(s) <= many
  BY <1>1
<1> QED BY <1>2 DEF SizesOK

-----------------------------------------------------------------------------
(* The invariant *)

\* What the reply is made of, and what each awaited call rests on.
WorkerInv ==
    /\ WorkerTypeOK
    /\ Lanes(Meaningful(text), formed, HasDispositionFormationAnchor(request))
    /\ stage \in {"idle", "primary", "formation"} => formed = <<>>
    /\ stage = "formation" => DispositionFormationMaterial(request).ok
    /\ stage = "recollection" => EvidenceValid(request)
    /\ stage \in Awaiting \cup {"failed"} => BuildModelInput(request) <= MaxModelInput
    /\ SizesOK(sizes, 4)
    /\ stage = "idle" => SizesOK(sizes, 0)
    /\ stage = "primary" => SizesOK(sizes, 1)
    /\ stage = "formation" => SizesOK(sizes, 2)
    /\ stage = "feedback" => SizesOK(sizes, 3)

\* The end of the handler with the text t.
LEMMA Finished ==
    ASSUME request \in Requests, NEW t, FinishWith(t), SizesOK(sizes, 3)
    PROVE  /\ text' = t
           /\ stage' \in {"recollection", "replied"}
           /\ stage' = "recollection" => EvidenceValid(request)
           /\ SizesOK(sizes', 4)
<1>1. text' = t
  BY DEF FinishWith
<1>2. CASE FallsBack(request, t)
  <2>1. stage' = "recollection" /\ sizes' = Append(sizes, BuildRecollectionInput(request))
    BY <1>2 DEF FinishWith, Await
  <2>2. EvidenceValid(request) /\ BuildRecollectionInput(request) <= MaxModelInput
    BY <1>2 DEF FallsBack
  <2>3. BuildRecollectionInput(request) \in Nat
    BY RecollectionSized
  <2>4. SizesOK(Append(sizes, BuildRecollectionInput(request)), 3 + 1)
    BY <2>2, <2>3, OneMoreCall
  <2> QED BY <1>1, <2>1, <2>2, <2>4
<1>3. CASE ~FallsBack(request, t)
  <2>1. stage' = "replied" /\ sizes' = sizes
    BY <1>3 DEF FinishWith, Reply
  <2>2. SizesOK(sizes, 4)
    BY FewerCalls
  <2> QED BY <1>1, <2>1, <2>2
<1> QED BY <1>2, <1>3

\* The handler after the formation lane, with the text t.
LEMMA Continued ==
    ASSUME request \in Requests, NEW t, ContinueWith(t), SizesOK(sizes, 2),
           BuildModelInput(request) <= MaxModelInput
    PROVE  /\ text' = NormalizePrimaryFeedback(request, t)
           /\ stage' \in {"feedback", "recollection", "replied"}
           /\ stage' = "recollection" => EvidenceValid(request)
           /\ stage' = "feedback" => SizesOK(sizes', 3)
           /\ SizesOK(sizes', 4)
<1>1. PICK n : n = NormalizePrimaryFeedback(request, t)
  OBVIOUS
<1>2. CASE RecoversFeedback(request, n)
  <2>1. text' = n /\ stage' = "feedback" /\ sizes' = Append(sizes, BuildFeedbackInput(request))
    BY <1>1, <1>2 DEF ContinueWith, Await
  <2>2. BuildFeedbackInput(request) \in Nat /\ BuildFeedbackInput(request) <= MaxModelInput
    <3>1. /\ BuildModelInput(request) \in Nat /\ BuildFeedbackInput(request) \in Nat
          /\ BuildFeedbackInput(request) <= BuildModelInput(request)
      BY FeedbackFits
    <3> QED BY <3>1, WorkerAssumption
  <2>3. SizesOK(Append(sizes, BuildFeedbackInput(request)), 2 + 1)
    BY <2>2, OneMoreCall
  <2>4. SizesOK(sizes', 3)
    BY <2>1, <2>3
  <2>5. SizesOK(sizes', 4)
    BY <2>4, FewerCalls
  <2> QED BY <1>1, <2>1, <2>4, <2>5
<1>3. CASE ~RecoversFeedback(request, n)
  <2>1. FinishWith(n)
    BY <1>1, <1>3 DEF ContinueWith
  <2>2. SizesOK(sizes, 3)
    BY FewerCalls
  <2>3. /\ text' = n
        /\ stage' \in {"recollection", "replied"}
        /\ stage' = "recollection" => EvidenceValid(request)
        /\ SizesOK(sizes', 4)
    BY <2>1, <2>2, Finished
  <2> QED BY <1>1, <2>3
<1> QED BY <1>2, <1>3

LEMMA InvInit == WorkerInit => WorkerInv
<1> SUFFICES ASSUME WorkerInit PROVE WorkerInv
  OBVIOUS
<1>1. /\ request \in Requests /\ stage = "idle" /\ text = <<>> /\ raw = <<>> /\ formed = <<>>
      /\ recovered = <<>> /\ attempt = 1 /\ sizes = <<>> /\ broken = FALSE
  BY DEF WorkerInit
<1>2. SizesOK(sizes, 0) /\ SizesOK(sizes, 4)
  <2>1. sizes \in Seq(Nat) /\ Len(sizes) = 0 /\ DOMAIN sizes = {}
    BY <1>1
  <2> QED BY <2>1 DEF SizesOK
<1>3. Lanes(Meaningful(text), formed, HasDispositionFormationAnchor(request))
  <2>1. Addition(text)
    BY <1>1, NoAddition
  <2> QED BY <2>1, LanesOfAddition
<1>4. attempt \in 1 .. MaxAttempts
  BY <1>1, WorkerAssumption
<1>5. {text, raw, formed, recovered} \subseteq Seq(Line)
  <2>1. <<>> \in Seq(Line)
    OBVIOUS
  <2> QED BY <1>1, <2>1
<1>6. WorkerTypeOK
  BY <1>1, <1>2, <1>4, <1>5 DEF WorkerTypeOK, SizesOK
<1> QED BY <1>1, <1>2, <1>3, <1>6 DEF WorkerInv, Awaiting

LEMMA InvCall ==
    ASSUME WorkerInv, Call(request)
    PROVE  WorkerInv'
<1>1. /\ stage = "idle" /\ request' = request
      /\ text' = text /\ attempt' = attempt /\ raw' = raw /\ formed' = formed
      /\ recovered' = recovered /\ broken' = broken
  BY DEF Call
<1>2. PICK b : b = BuildModelInput(request)
  OBVIOUS
<1>3. /\ WorkerTypeOK /\ SizesOK(sizes, 0) /\ SizesOK(sizes, 4) /\ formed = <<>>
      /\ Lanes(Meaningful(text), formed, HasDispositionFormationAnchor(request))
  BY <1>1 DEF WorkerInv
<1>4. request \in Requests
  BY <1>3 DEF WorkerTypeOK
<1>5. b \in Nat /\ MaxModelInput \in Nat
  BY <1>2, <1>4, FeedbackFits, WorkerAssumption
<1>6. \/ stage' = "replied" /\ sizes' = sizes
      \/ stage' = "primary" /\ sizes' = Append(sizes, b) /\ b <= MaxModelInput
  BY <1>2, <1>5 DEF Call, Reply, Await
<1>7. CASE stage' = "replied" /\ sizes' = sizes
  <2>1. WorkerTypeOK'
    BY <1>1, <1>3, <1>7 DEF WorkerTypeOK
  <2> QED BY <1>1, <1>3, <1>7, <2>1 DEF WorkerInv, Awaiting
<1>8. CASE stage' = "primary" /\ sizes' = Append(sizes, b) /\ b <= MaxModelInput
  <2>1. SizesOK(sizes', 1)
    <3>1. SizesOK(Append(sizes, b), 0 + 1)
      BY <1>3, <1>5, <1>8, OneMoreCall
    <3> QED BY <1>8, <3>1
  <2>2. SizesOK(sizes', 4)
    BY <2>1, FewerCalls
  <2>3. WorkerTypeOK'
    BY <1>1, <1>3, <1>8, <2>2 DEF WorkerTypeOK, SizesOK, Awaiting
  <2> QED BY <1>1, <1>2, <1>3, <1>8, <2>1, <2>2, <2>3 DEF WorkerInv
<1> QED BY <1>6, <1>7, <1>8

LEMMA InvPrimary ==
    ASSUME WorkerInv, NEW answer \in PrimaryAnswers, PrimaryAnswer(answer)
    PROVE  WorkerInv'
<1>1. /\ stage = "primary" /\ raw' = answer /\ request' = request /\ attempt' = attempt
      /\ formed' = formed /\ recovered' = recovered /\ broken' = broken
  BY DEF PrimaryAnswer
<1>2. /\ WorkerTypeOK /\ SizesOK(sizes, 1) /\ formed = <<>>
      /\ BuildModelInput(request) <= MaxModelInput
  BY <1>1 DEF WorkerInv, Awaiting
<1>3. request \in Requests /\ answer \in Seq(Line)
  BY <1>2, AnswerAssumption DEF WorkerTypeOK
<1>4. PICK p, t, anchored : /\ p = RepairPrimary(request, answer)
                            /\ t = LeaveToFormation(request, p)
                            /\ anchored = HasDispositionFormationAnchor(request)
  OBVIOUS
<1>5. p \in Seq(Line) /\ Clean(p, {"ADAPT"})
  BY <1>3, <1>4, RepairIs
<1>6. t \in Seq(Line) /\ Clean(t, {"ADAPT"}) /\ (anchored => Clean(t, {"TEXT"}))
  BY <1>4, <1>5, LeftIs
<1>7. Lanes(Meaningful(t), formed, anchored)
  BY <1>6, LanesStart
<1>8. CASE FormsDisposition(request)
  <2>1. /\ text' = t /\ stage' = "formation"
        /\ sizes' = Append(sizes, BuildFormationInput(request))
    BY <1>4, <1>8 DEF PrimaryAnswer, Await
  <2>2. DispositionFormationMaterial(request).ok /\ BuildFormationInput(request) <= MaxModelInput
    BY <1>8 DEF FormsDisposition
  <2>3. SizesOK(sizes', 2)
    <3>1. BuildFormationInput(request) \in Nat
      BY <1>3, <2>2, FormationSized
    <3>2. SizesOK(Append(sizes, BuildFormationInput(request)), 1 + 1)
      BY <1>2, <2>2, <3>1, OneMoreCall
    <3> QED BY <2>1, <3>2
  <2>4. SizesOK(sizes', 4)
    BY <2>3, FewerCalls
  <2>5. WorkerTypeOK'
    BY <1>1, <1>2, <1>3, <1>6, <2>1, <2>4 DEF WorkerTypeOK, SizesOK, Awaiting
  <2>6. Lanes(Meaningful(text), formed, HasDispositionFormationAnchor(request))'
    BY <1>1, <1>4, <1>7, <2>1
  <2> QED BY <1>1, <1>2, <2>1, <2>2, <2>3, <2>4, <2>5, <2>6 DEF WorkerInv
<1>9. CASE ~FormsDisposition(request)
  <2>1. ContinueWith(t)
    BY <1>4, <1>9 DEF PrimaryAnswer
  <2>2. SizesOK(sizes, 2)
    BY <1>2, FewerCalls
  <2>3. /\ text' = NormalizePrimaryFeedback(request, t)
        /\ stage' \in {"feedback", "recollection", "replied"}
        /\ stage' = "recollection" => EvidenceValid(request)
        /\ stage' = "feedback" => SizesOK(sizes', 3)
        /\ SizesOK(sizes', 4)
    BY <1>2, <1>3, <2>1, <2>2, Continued
  <2>4. text' \in Seq(Line) /\ Lanes(Meaningful(text'), formed, anchored)
    BY <1>3, <1>6, <1>7, <2>3, LanesNormalized
  <2>5. WorkerTypeOK'
    BY <1>1, <1>2, <1>3, <2>3, <2>4 DEF WorkerTypeOK, SizesOK, Awaiting
  <2>6. Lanes(Meaningful(text), formed, HasDispositionFormationAnchor(request))'
    BY <1>1, <1>4, <2>4
  <2> QED BY <1>1, <1>2, <2>3, <2>5, <2>6 DEF WorkerInv
<1> QED BY <1>8, <1>9

LEMMA InvFormation ==
    ASSUME WorkerInv, NEW body \in FormationBodies, FormationAnswer(body)
    PROVE  WorkerInv'
<1>1. /\ stage = "formation" /\ request' = request /\ attempt' = attempt
      /\ raw' = raw /\ recovered' = recovered /\ broken' = broken
  BY DEF FormationAnswer
<1>2. /\ WorkerTypeOK /\ SizesOK(sizes, 2) /\ SizesOK(sizes, 4) /\ formed = <<>>
      /\ DispositionFormationMaterial(request).ok
      /\ BuildModelInput(request) <= MaxModelInput
      /\ Lanes(Meaningful(text), formed, HasDispositionFormationAnchor(request))
  BY <1>1 DEF WorkerInv, Awaiting
<1>3. request \in Requests /\ body \in Seq(Line) /\ text \in Seq(Line)
  BY <1>2, AnswerAssumption DEF WorkerTypeOK
<1>4. CASE ~(Strip(body) = <<"NO_CHANGE">> \/ PlainBody(body))
  <2>1. stage' = "failed" /\ text' = text /\ sizes' = sizes /\ formed' = formed
    BY <1>4 DEF FormationAnswer
  <2>2. WorkerTypeOK'
    BY <1>1, <1>2, <2>1 DEF WorkerTypeOK
  <2>3. Lanes(Meaningful(text), formed, HasDispositionFormationAnchor(request))'
    BY <1>1, <1>2, <2>1
  <2> QED BY <1>1, <1>2, <2>1, <2>2, <2>3 DEF WorkerInv
<1>5. CASE Strip(body) = <<"NO_CHANGE">> \/ PlainBody(body)
  <2>1. PICK f, t, anchored :
          /\ f = BindDisposition(DispositionFormationMaterial(request), body)
          /\ t = AppendTaggedText(text, f)
          /\ anchored = HasDispositionFormationAnchor(request)
    OBVIOUS
  <2>2. formed' = f /\ ContinueWith(t)
    BY <1>5, <2>1 DEF FormationAnswer
  <2>3. f = <<>> \/ IsFormed(f)
    BY <1>2, <1>3, <1>5, <2>1, BoundDisposition
  <2>4. t \in Seq(Line) /\ Lanes(Meaningful(t), f, anchored)
    BY <1>2, <1>3, <2>1, <2>3, LanesWithFormed
  <2>5. /\ text' = NormalizePrimaryFeedback(request, t)
        /\ stage' \in {"feedback", "recollection", "replied"}
        /\ stage' = "recollection" => EvidenceValid(request)
        /\ stage' = "feedback" => SizesOK(sizes', 3)
        /\ SizesOK(sizes', 4)
    BY <1>2, <1>3, <2>2, Continued
  <2>6. text' \in Seq(Line) /\ Lanes(Meaningful(text'), f, anchored)
    BY <1>3, <2>4, <2>5, LanesNormalized
  <2>7. f \in Seq(Line)
    <3>1. <<>> \in Seq(Line)
      OBVIOUS
    <3>2. IsFormed(f) => f \in Seq(Line)
      BY DEF IsFormed, IsBlock, Full
    <3> QED BY <2>3, <3>1, <3>2
  <2>8. WorkerTypeOK'
    BY <1>1, <1>2, <2>2, <2>5, <2>6, <2>7 DEF WorkerTypeOK, SizesOK, Awaiting
  <2>9. Lanes(Meaningful(text), formed, HasDispositionFormationAnchor(request))'
    BY <1>1, <2>1, <2>2, <2>6
  <2> QED BY <1>1, <1>2, <2>5, <2>8, <2>9 DEF WorkerInv
<1> QED BY <1>4, <1>5

LEMMA InvFeedback ==
    ASSUME WorkerInv, NEW answer \in FeedbackAnswers, FeedbackAnswer(answer)
    PROVE  WorkerInv'
<1>1. /\ stage = "feedback" /\ request' = request /\ attempt' = attempt
      /\ raw' = raw /\ formed' = formed /\ broken' = broken
  BY DEF FeedbackAnswer
<1>2. /\ WorkerTypeOK /\ SizesOK(sizes, 3)
      /\ BuildModelInput(request) <= MaxModelInput
      /\ Lanes(Meaningful(text), formed, HasDispositionFormationAnchor(request))
  BY <1>1 DEF WorkerInv, Awaiting
<1>3. request \in Requests /\ answer \in Seq(Line) /\ text \in Seq(Line)
  BY <1>2, AnswerAssumption DEF WorkerTypeOK
<1>4. PICK x, t, anchored :
        /\ x = IF Strip(answer) = <<"NO_CHANGE">> THEN <<>>
               ELSE NormalizeFeedbackOutput(answer, EligibleFeedbackTargets(request),
                                            FeedbackEpisodes(request), FeedbackOutcomes(request))
        /\ t = AppendTaggedText(text, x)
        /\ anchored = HasDispositionFormationAnchor(request)
  OBVIOUS
<1>5. recovered' = x /\ FinishWith(t)
  BY <1>4 DEF FeedbackAnswer
<1>6. Addition(x)
  <2>1. /\ \A ref \in EligibleFeedbackTargets(request) : ref # "NEW_DISPOSITION"
        /\ \A ref \in FeedbackEpisodes(request) : Plain(ref)
    BY <1>3, PlainRefs DEF EligibleFeedbackTargets
  <2> QED BY <1>3, <1>4, <2>1, NormalizeIs, NoAddition
<1>7. x \in Seq(Line) /\ t \in Seq(Line) /\ Lanes(Meaningful(t), formed, anchored)
  BY <1>2, <1>3, <1>4, <1>6, LanesWithAddition DEF Addition, Full
<1>8. /\ text' = t
      /\ stage' \in {"recollection", "replied"}
      /\ stage' = "recollection" => EvidenceValid(request)
      /\ SizesOK(sizes', 4)
  BY <1>2, <1>3, <1>5, Finished
<1>9. WorkerTypeOK'
  BY <1>1, <1>2, <1>5, <1>7, <1>8 DEF WorkerTypeOK, SizesOK, Awaiting
<1>10. Lanes(Meaningful(text), formed, HasDispositionFormationAnchor(request))'
  BY <1>1, <1>4, <1>7, <1>8
<1> QED BY <1>1, <1>2, <1>8, <1>9, <1>10 DEF WorkerInv

LEMMA InvRecollection ==
    ASSUME WorkerInv, NEW body \in RecollectionBodies, RecollectionAnswer(body)
    PROVE  WorkerInv'
<1>1. /\ stage = "recollection" /\ request' = request /\ attempt' = attempt
      /\ raw' = raw /\ formed' = formed /\ recovered' = recovered /\ broken' = broken
      /\ text' = AppendTaggedText(text, BindPlainRecollections(request, body))
      /\ stage' = "replied" /\ sizes' = sizes
  BY DEF RecollectionAnswer, Reply
<1>2. /\ WorkerTypeOK /\ SizesOK(sizes, 4) /\ EvidenceValid(request)
      /\ Lanes(Meaningful(text), formed, HasDispositionFormationAnchor(request))
  BY <1>1 DEF WorkerInv
<1>3. request \in Requests /\ body \in Seq(Line) /\ text \in Seq(Line)
  BY <1>2, AnswerAssumption DEF WorkerTypeOK
<1>4. PICK x, anchored : /\ x = BindPlainRecollections(request, body)
                         /\ anchored = HasDispositionFormationAnchor(request)
  OBVIOUS
<1>5. Addition(x)
  BY <1>2, <1>3, <1>4, RecollectionsAre
<1>6. text' \in Seq(Line) /\ Lanes(Meaningful(text'), formed, anchored)
  BY <1>1, <1>2, <1>3, <1>4, <1>5, LanesWithAddition
<1>7. WorkerTypeOK'
  BY <1>1, <1>2, <1>6 DEF WorkerTypeOK
<1>8. Lanes(Meaningful(text), formed, HasDispositionFormationAnchor(request))'
  BY <1>1, <1>4, <1>6
<1> QED BY <1>1, <1>2, <1>7, <1>8 DEF WorkerInv, Awaiting

LEMMA InvFails ==
    ASSUME WorkerInv, ModelFails
    PROVE  WorkerInv'
<1>1. /\ stage \in Awaiting /\ stage' = "failed" /\ broken' = TRUE /\ request' = request
      /\ text' = text /\ attempt' = attempt /\ sizes' = sizes /\ raw' = raw /\ formed' = formed
      /\ recovered' = recovered
  BY DEF ModelFails
<1>2. /\ WorkerTypeOK /\ SizesOK(sizes, 4) /\ BuildModelInput(request) <= MaxModelInput
      /\ Lanes(Meaningful(text), formed, HasDispositionFormationAnchor(request))
  BY <1>1 DEF WorkerInv
<1>3. WorkerTypeOK'
  BY <1>1, <1>2 DEF WorkerTypeOK
<1>4. Lanes(Meaningful(text), formed, HasDispositionFormationAnchor(request))'
  BY <1>1, <1>2
<1> QED BY <1>1, <1>2, <1>3, <1>4 DEF WorkerInv

LEMMA InvAgain ==
    ASSUME WorkerInv, CallAgain
    PROVE  WorkerInv'
<1>1. PICK b : b = BuildModelInput(request)
  OBVIOUS
<1>2. /\ stage = "failed" /\ attempt < MaxAttempts /\ attempt' = attempt + 1
      /\ stage' = "primary" /\ sizes' = <<b>> /\ text' = <<>> /\ raw' = <<>> /\ formed' = <<>>
      /\ recovered' = <<>> /\ broken' = FALSE /\ request' = request
  BY <1>1 DEF CallAgain
<1>3. WorkerTypeOK /\ b <= MaxModelInput /\ request \in Requests
  BY <1>1, <1>2 DEF WorkerInv, WorkerTypeOK
<1>4. SizesOK(sizes', 1) /\ SizesOK(sizes', 4)
  <2>1. b \in Nat
    BY <1>1, <1>3, FeedbackFits
  <2>2. SizesOK(<<>>, 0)
    <3>1. <<>> \in Seq(Nat) /\ Len(<<>>) = 0 /\ DOMAIN <<>> = {}
      OBVIOUS
    <3> QED BY <3>1 DEF SizesOK
  <2>3. SizesOK(Append(<<>>, b), 0 + 1)
    BY <1>3, <2>1, <2>2, OneMoreCall
  <2>4. Append(<<>>, b) = <<b>>
    OBVIOUS
  <2>5. SizesOK(sizes', 1)
    BY <1>2, <2>3, <2>4
  <2> QED BY <2>5, FewerCalls
<1>5. attempt' \in 1 .. MaxAttempts
  <2>1. attempt \in 1 .. MaxAttempts /\ MaxAttempts \in Nat
    BY <1>3, WorkerAssumption DEF WorkerTypeOK
  <2> QED BY <1>2, <2>1
<1>6. {text', raw', formed', recovered'} \subseteq Seq(Line)
  <2>1. <<>> \in Seq(Line)
    OBVIOUS
  <2> QED BY <1>2, <2>1
<1>7. WorkerTypeOK'
  BY <1>2, <1>3, <1>4, <1>5, <1>6 DEF WorkerTypeOK, SizesOK, Awaiting
<1>8. Lanes(Meaningful(text), formed, HasDispositionFormationAnchor(request))'
  <2>1. Addition(text')
    BY <1>2, NoAddition
  <2> QED BY <2>1, LanesOfAddition
<1> QED BY <1>1, <1>2, <1>3, <1>4, <1>7, <1>8 DEF WorkerInv, Awaiting

LEMMA InvStep == WorkerInv /\ [WorkerNext]_workerVars => WorkerInv'
<1> SUFFICES ASSUME WorkerInv, [WorkerNext]_workerVars PROVE WorkerInv'
  OBVIOUS
<1>1. CASE UNCHANGED workerVars
  <2>1. /\ request' = request /\ stage' = stage /\ text' = text /\ attempt' = attempt
        /\ sizes' = sizes /\ raw' = raw /\ formed' = formed /\ recovered' = recovered
        /\ broken' = broken
    BY <1>1 DEF workerVars
  <2>2. WorkerTypeOK'
    BY <2>1 DEF WorkerInv, WorkerTypeOK
  <2> QED BY <2>1, <2>2 DEF WorkerInv
<1>2. CASE WorkerNext
  BY <1>2, InvCall, InvPrimary, InvFormation, InvFeedback, InvRecollection, InvFails, InvAgain
     DEF WorkerNext, Answered
<1> QED BY <1>1, <1>2

\* What Core reads in the reply.
LEMMA InvOwns == WorkerInv => LanesOwnSeeds
<1> SUFFICES ASSUME WorkerInv, NEW c \in Changes(text), c.target = "NEW_DISPOSITION",
                    \/ c.operation = "ADAPT"
                    \/ HasDispositionFormationAnchor(request) /\ c.operation = "TEXT"
             PROVE  c.operation = "TEXT" /\ c \in Changes(formed)
  BY DEF LanesOwnSeeds
<1>1. PICK m, anchored : m = Meaningful(text) /\ anchored = HasDispositionFormationAnchor(request)
  OBVIOUS
<1>2. anchored \in BOOLEAN
  BY <1>1 DEF HasDispositionFormationAnchor
<1>3. text \in Seq(Line) /\ Lanes(m, formed, anchored)
  BY <1>1 DEF WorkerInv, WorkerTypeOK
<1>4. m \in Seq(Line)
  BY <1>1, <1>3, MeaningfulType
<1>5. c \in ToSet(ParseLines(m).changes)
  <2>1. CASE Len(text) > MaxTaggedLines
    <3>1. c \in ToSet(Rejected.changes)
      BY <2>1 DEF Changes, ParseTaggedText
    <3>2. ToSet(Rejected.changes) = {}
      BY DEF Rejected, ToSet
    <3> QED BY <3>1, <3>2
  <2>2. CASE ~(Len(text) > MaxTaggedLines)
    BY <1>1, <2>2 DEF Changes, ParseTaggedText
  <2> QED BY <2>1, <2>2
<1>6. c.operation = "ADAPT" \/ (anchored /\ c.operation = "TEXT")
  BY <1>1
<1> QED BY <1>2, <1>3, <1>4, <1>5, <1>6, LanesRead

-----------------------------------------------------------------------------
\* New Seeds come from one lane only, whatever the model answers to whichever
\* prompt (RemoveNewDispositionChanges, bind_disposition, append_tagged_text).
THEOREM SeedsAreOwned == WorkerSpec => []LanesOwnSeeds
BY InvInit, InvStep, InvOwns, PTL DEF WorkerSpec

\* A ProcessConsolidationWindow call asks the model at most four times and never
\* with more than the configured input, the unmeasured recovery prompt included;
\* every text it works on is a sequence of lines.
THEOREM PromptsFit == WorkerSpec => []PromptsJustified
<1>1. WorkerInv => PromptsJustified
  BY DEF WorkerInv, SizesOK, InputBound, PromptsJustified
<1> QED BY <1>1, InvInit, InvStep, PTL DEF WorkerSpec

=============================================================================
