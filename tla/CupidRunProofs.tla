--------------------------- MODULE CupidRunProofs ----------------------------
(***************************************************************************)
(* Proofs about CupidRun, for every cohort, every reply of the models, any *)
(* number of tasks at once, of processes and of changes of the code.       *)
(***************************************************************************)
EXTENDS CupidRun, RenderingProofs

-----------------------------------------------------------------------------
(* The inductive invariant *)

Asking(i) == task[i].at \in {"asking", "judging"}

Shape ==
    /\ DOMAIN task = Instances
    /\ \A i \in Instances : /\ DOMAIN task[i] = {"at", "contexts", "arms"}
                            /\ task[i].at \in {"none", "done"} \cup AtWork
    /\ DOMAIN results = Instances /\ DOMAIN madeUnder = Instances
    /\ DOMAIN selected = Instances /\ DOMAIN memory = Instances
    /\ \A i \in Instances : selected[i] # None => selected[i] \in Contexts[i]
    /\ config \in {0, 1} /\ starts \in Nat

\* The process: tasks live in the group of the split at work and of those before it,
\* behind the gate and under the configuration the manifest binds.
ProcessInv ==
    /\ pc # "instances" => split = 1 /\ \A i \in Instances : task[i].at = "none"
    /\ pc \in {"lifecycle", "suite"} => Formal
    /\ pc \in {"lifecycle", "suite", "instances"} => manifest = config
    /\ pc = "manifest" => manifest \in {None, config}
    /\ pc = "suite" => lifecycle = "partial"
    /\ pc = "instances" /\ Formal => lifecycle = "passed"
    /\ \A i \in Instances : task[i].at # "none" => \E k \in 1 .. split : Split[i] = Splits[k]

\* Nothing is done twice: a task at work has no result yet, a task that is done has
\* one, and a split is left when all of its instances have one.
FrozenInv ==
    /\ \A i \in Instances : /\ task[i].at \in AtWork => ~Frozen(i)
                            /\ task[i].at = "done" => Frozen(i)
    /\ \A i \in Instances, k \in 1 .. 2 : k < split /\ Split[i] = Splits[k] => Frozen(i)
    /\ summary # None => summary = Reasons(results) /\ \A i \in Instances : Frozen(i)

\* The lock of a request: one task at a time asks for it, and only while there is no reply.
LocksInv ==
    /\ \A i \in Instances : Asking(i) => RequestOf(i) \notin DOMAIN cache
    /\ \A i, j \in Instances : Asking(i) /\ Asking(j) /\ i # j => RequestOf(i) # RequestOf(j)

\* A process has paid for a request only if it asks for it now or has its reply.
CallsInv ==
  /\ pc # "down" => 1 <= starts
  /\ \A r \in DOMAIN calls :
        /\ calls[r] \in Nat /\ calls[r] <= starts
        /\ \/ pc = "down" \/ r \in DOMAIN cache
           \/ \E i \in Instances : Asking(i) /\ RequestOf(i) = r
           \/ calls[r] < starts

\* The reply on disk for a request.
Paid(table, request, reply) == request \in DOMAIN table /\ table[request] = reply

\* What an arm says is the reply on disk for the text it was shown.
ArmOf(table, i, contexts, mode, arm) ==
    /\ arm \in [context : {contexts[mode]}, output : Replies, verdict : Verdicts \cup {"none"}]
    /\ Paid(table, <<"answer", Request[i], arm.context.text>>, arm.output)
    /\ arm.verdict # "none" =>
          /\ arm.verdict \in Verdicts /\ Parses(arm.verdict)
          /\ Paid(table, <<"judge", Request[i], Label[i], arm.output>>, arm.verdict)

ArmsOf(table, i, contexts, arms) ==
    /\ arms = [mode \in DOMAIN arms |-> arms[mode]]
    /\ \A mode \in DOMAIN arms : ArmOf(table, i, contexts, mode, arms[mode])

Complete(arms) ==
    DOMAIN arms = ToSet(Modes) /\ \A mode \in DOMAIN arms : arms[mode].verdict # "none"

CacheInv ==
    \A r \in DOMAIN cache : /\ r[1] = "answer" => cache[r] \in Replies
                            /\ r[1] = "judge" => cache[r] \in Verdicts

\* The arms of a task t, and of a result, under the context Core has frozen for instance i.
TaskArms(table, i, context, t) ==
    /\ t.at \in {"none", "prepare"} => t.arms = <<>>
    /\ t.at \in AtWork \ {"prepare"} =>
          /\ context \in Contexts[i]
          /\ t.contexts = BuildSeedContexts(context.selected)
          /\ ArmsOf(table, i, t.contexts, t.arms)
    /\ t.at \in {"judge", "judging"} => DOMAIN t.arms = ToSet(Modes)
    /\ t.at \in {"memory", "freeze"} => Complete(t.arms)

ResultArms(table, i, context, result) ==
    result # None =>
        /\ context \in Contexts[i]
        /\ ArmsOf(table, i, BuildSeedContexts(context.selected), result.arms)
        /\ Complete(result.arms)
        /\ result.active = context.active

ArmsInv ==
    \A i \in Instances : /\ TaskArms(cache, i, selected[i], task[i])
                         /\ ResultArms(cache, i, selected[i], results[i])

IInv == /\ TypeOK /\ Shape /\ ProcessInv /\ GateFirst /\ HoldoutInOrder /\ ResultsOfOneConfig
        /\ FrozenInv /\ LocksInv /\ CallsInv /\ CacheInv /\ ArmsInv

\* The conjuncts of TypeOK but the bound on the tasks at work.
Types ==
    /\ pc \in {"down", "manifest", "lifecycle", "suite", "instances"}
    /\ split \in 1 .. Len(Splits)
    /\ manifest \in {None, 0, 1} /\ lifecycle \in {None, "partial", "passed", "failed"}

-----------------------------------------------------------------------------
(* Results are there once they are written *)

LEMMA ResultIsThere ==
    ASSUME IInv, NEW i \in Instances, task[i].at = "freeze"
    PROVE  [arms |-> task[i].arms, active |-> selected[i].active] # None
<1> DEFINE Shown == UNION {{BuildSeedContexts(c.selected)[mode] : mode \in ToSet(Modes)} :
                           c \in UNION {Contexts[j] : j \in Instances}}
           Arm == [context : Shown, output : Replies, verdict : Verdicts]
<1>1. /\ selected[i] \in Contexts[i]
      /\ task[i].contexts = BuildSeedContexts(selected[i].selected)
      /\ ArmsOf(cache, i, task[i].contexts, task[i].arms)
      /\ Complete(task[i].arms)
  BY DEF IInv, ArmsInv, TaskArms, AtWork
<1>2. \A mode \in ToSet(Modes) : task[i].contexts[mode] \in Shown
  BY <1>1
<1> HIDE DEF Shown
<1>3. ASSUME NEW mode \in ToSet(Modes) PROVE task[i].arms[mode] \in Arm
  <2>1. ArmOf(cache, i, task[i].contexts, mode, task[i].arms[mode])
    BY <1>1 DEF ArmsOf, Complete
  <2>2. task[i].arms[mode].verdict # "none"
    BY <1>1 DEF Complete
  <2> QED BY <1>2, <2>1, <2>2 DEF ArmOf
<1>4. task[i].arms \in [ToSet(Modes) -> Arm]
  BY <1>1, <1>3 DEF ArmsOf, Complete
<1>5. selected[i].active \in Nat
  BY <1>1, CupidAssumption
<1>6. [arms |-> task[i].arms, active |-> selected[i].active] \in [arms : [ToSet(Modes) -> Arm], active : Nat]
  BY <1>4, <1>5
<1> QED BY <1>6, NoneIsFresh DEF Results, Shown

-----------------------------------------------------------------------------
(* The process and its splits *)

LEMMA SplitsKnown == /\ Len(Splits) = IF Formal THEN 2 ELSE 1
                     /\ Formal => Splits[1] = "H1" /\ Splits[2] = "H2"
BY DEF Splits

\* Using a reply changes one task, and leaves it at work.
LEMMA UseShape ==
    ASSUME Shape, NEW i \in Instances, NEW reply, Use(i, reply)
    PROVE  \E t : /\ task' = [task EXCEPT ![i] = t]
                  /\ DOMAIN t = {"at", "contexts", "arms"} /\ t.at \in {"answer", "judge"}
<1>1. CASE task[i].at \in {"answer", "asking"}
  <2> DEFINE t == [task[i] EXCEPT !.at = "answer", !.arms = With(task[i].arms, AnswerMode(i),
                       [context |-> task[i].contexts[AnswerMode(i)], output |-> reply,
                        verdict |-> "none"])]
  <2>1. task' = [task EXCEPT ![i] = t]
    BY <1>1 DEF Use
  <2>2. DOMAIN t = {"at", "contexts", "arms"} /\ t.at = "answer"
    BY DEF Shape
  <2> QED BY <2>1, <2>2
<1>2. CASE task[i].at \notin {"answer", "asking"}
  <2> DEFINE t == [task[i] EXCEPT !.at = "judge", !.arms[JudgeMode(i)].verdict = reply]
  <2>1. task' = [task EXCEPT ![i] = t]
    BY <1>2 DEF Use
  <2>2. DOMAIN t = {"at", "contexts", "arms"} /\ t.at = "judge"
    BY DEF Shape
  <2> QED BY <2>1, <2>2
<1> QED BY <1>1, <1>2

LEMMA ControlNext ==
    ASSUME IInv, [Next]_vars
    PROVE  Types' /\ Shape' /\ ProcessInv' /\ GateFirst' /\ HoldoutInOrder' /\ ResultsOfOneConfig'
           /\ FrozenInv'
<1>0. Types /\ Shape /\ ProcessInv /\ GateFirst /\ HoldoutInOrder /\ ResultsOfOneConfig /\ FrozenInv
  BY DEF IInv, TypeOK, Types
<1> USE <1>0, SplitsKnown, NoneIsFresh, CohortAssumption
<1> USE DEF Types, Shape, ProcessInv, GateFirst, HoldoutInOrder, ResultsOfOneConfig, FrozenInv,
            Frozen, Group, files, env, AtWork, Raise, NoTask, Goto
<1>1. CASE UNCHANGED vars
  BY <1>1 DEF vars
<1>2. CASE Start
  BY <1>2 DEF Start, ManifestAgrees
<1>3. CASE FreezeManifest
  BY <1>3 DEF FreezeManifest
<1>4. CASE BeginSuite
  BY <1>4 DEF BeginSuite
<1>5. CASE LoadLifecycle
  BY <1>5 DEF LoadLifecycle
<1>6. CASE EndSuite
  BY <1>6 DEF EndSuite
<1>7. CASE NextSplit
  BY <1>7 DEF NextSplit, GroupDone, GroupAtWork
<1>8. CASE VerifiedSummary
  BY <1>8 DEF VerifiedSummary
<1>9. ASSUME NEW i \in Instances, InstanceStep(i)
      PROVE  Types' /\ Shape' /\ ProcessInv' /\ GateFirst' /\ HoldoutInOrder'
             /\ ResultsOfOneConfig' /\ FrozenInv'
  <2>1. CASE Acquire(i)
    BY <2>1 DEF Acquire, GroupAtWork
  <2>2. CASE Prepare(i)
    BY <2>2 DEF Prepare
  <2>3. CASE UseCached(i)
    <3>1. CASE Raise
      BY <2>3, <3>1 DEF UseCached
    <3>2. CASE Use(i, cache[RequestOf(i)]) /\ UNCHANGED <<pc, split>>
      BY <2>3, <3>2, UseShape DEF UseCached
    <3> QED BY <2>3, <3>1, <3>2 DEF UseCached
  <2>4. CASE CallProvider(i)
    BY <2>4 DEF CallProvider
  <2>5. CASE Reply(i)
    <3>1. CASE Raise
      BY <2>5, <3>1 DEF Reply
    <3>2. ASSUME NEW reply, Use(i, reply) /\ UNCHANGED <<pc, split>>
          PROVE  Types' /\ Shape' /\ ProcessInv' /\ GateFirst' /\ HoldoutInOrder'
                 /\ ResultsOfOneConfig' /\ FrozenInv'
      BY <2>5, <3>2, UseShape DEF Reply
    <3> QED BY <2>5, <3>1, <3>2 DEF Reply
  <2>6. CASE Proceed(i)
    BY <2>6 DEF Proceed
  <2>7. CASE FreezeMemory(i)
    BY <2>7 DEF FreezeMemory
  <2>8. CASE FreezeResult(i)
    BY <2>8, ResultIsThere DEF FreezeResult
  <2> QED BY <1>9, <2>1, <2>2, <2>3, <2>4, <2>5, <2>6, <2>7, <2>8 DEF InstanceStep
<1>10. CASE Stop
  BY <1>10 DEF Stop
<1>11. CASE Drift
  BY <1>11 DEF Drift
<1> QED BY <1>1, <1>2, <1>3, <1>4, <1>5, <1>6, <1>7, <1>8, <1>9, <1>10, <1>11 DEF Next, Main

-----------------------------------------------------------------------------
(* The semaphore *)

\* Only Acquire lets a task in; Raise ends them all.
LEMMA RunningSteps ==
    ASSUME IInv, [Next]_vars
    PROVE  \/ Running' \subseteq Running
           \/ /\ Cardinality(Running) < Limit
              /\ \E i \in Instances : Running' \subseteq Running \cup {i}
<1>0. Shape
  BY DEF IInv
<1> USE <1>0
<1> USE DEF Running, AtWork, Raise, NoTask, Shape, Goto
<1>1. CASE UNCHANGED vars
  BY <1>1 DEF vars
<1>2. CASE Main
  BY <1>2 DEF Main, Start, FreezeManifest, BeginSuite, LoadLifecycle, EndSuite, NextSplit,
              VerifiedSummary
<1>3. ASSUME NEW i \in Instances, InstanceStep(i)
      PROVE  \/ Running' \subseteq Running
             \/ Cardinality(Running) < Limit /\ Running' \subseteq Running \cup {i}
  <2>1. CASE Acquire(i)
    BY <2>1 DEF Acquire
  <2>2. CASE Prepare(i)
    BY <2>2 DEF Prepare
  <2>3. CASE UseCached(i)
    BY <2>3, UseShape DEF UseCached
  <2>4. CASE CallProvider(i)
    BY <2>4 DEF CallProvider
  <2>5. CASE Reply(i)
    BY <2>5, UseShape DEF Reply
  <2>6. CASE Proceed(i)
    BY <2>6 DEF Proceed
  <2>7. CASE FreezeMemory(i) \/ FreezeResult(i)
    BY <2>7 DEF FreezeMemory, FreezeResult
  <2> QED BY <1>3, <2>1, <2>2, <2>3, <2>4, <2>5, <2>6, <2>7 DEF InstanceStep
<1>4. CASE Stop \/ Drift
  BY <1>4 DEF Stop, Drift
<1> QED BY <1>1, <1>2, <1>3, <1>4 DEF Next

\* The tasks at work are never more than the semaphore lets in.
LEMMA LimitKept ==
    ASSUME IInv, [Next]_vars
    PROVE  Cardinality(Running') <= Limit
<1>1. IsFiniteSet(Running) /\ IsFiniteSet(Instances)
  BY CohortAssumption, FS_Subset DEF Running
<1>2. Cardinality(Running) \in Nat /\ Limit \in Nat /\ Cardinality(Running) <= Limit
  BY <1>1, FS_CardinalityType, CupidAssumption DEF IInv, TypeOK
<1>3. CASE Running' \subseteq Running
  <2>1. Cardinality(Running') \in Nat /\ Cardinality(Running') <= Cardinality(Running)
    BY <1>1, <1>3, FS_Subset, FS_CardinalityType
  <2> QED BY <1>2, <2>1
<1>4. ASSUME NEW i \in Instances, Cardinality(Running) < Limit, Running' \subseteq Running \cup {i}
      PROVE  Cardinality(Running') <= Limit
  <2>a. /\ IsFiniteSet(Running \cup {i})
        /\ Cardinality(Running \cup {i})
             = IF i \in Running THEN Cardinality(Running) ELSE Cardinality(Running) + 1
    BY <1>1, FS_AddElement
  <2>1. /\ IsFiniteSet(Running \cup {i}) /\ Cardinality(Running \cup {i}) \in Nat
        /\ Cardinality(Running \cup {i}) <= Cardinality(Running) + 1
    BY <1>2, <2>a
  <2>2. Cardinality(Running') \in Nat /\ Cardinality(Running') <= Cardinality(Running \cup {i})
    BY <1>4, <2>1, FS_Subset, FS_CardinalityType
  <2> QED BY <1>2, <1>4, <2>1, <2>2
<1> QED BY <1>3, <1>4, RunningSteps

-----------------------------------------------------------------------------
(* Locks, the cache and what was paid *)

\* A request depends on the task alone.
LEMMA SameRequest ==
    ASSUME NEW i \in Instances, task'[i] = task[i]
    PROVE  RequestOf(i)' = RequestOf(i)
BY DEF RequestOf, AnswerMode, JudgeMode, Answered, Judged

\* Taking the lock does not change what is asked for.
LEMMA RequestKept ==
    ASSUME Shape, NEW i \in Instances, CallProvider(i)
    PROVE  RequestOf(i)' = RequestOf(i) /\ Asking(i)'
<1>1. /\ task'[i].contexts = task[i].contexts /\ task'[i].arms = task[i].arms
      /\ task'[i].at = IF task[i].at = "answer" THEN "asking" ELSE "judging"
      /\ task[i].at \in {"answer", "judge"}
  BY DEF CallProvider, Goto, Shape
<1>2. Answered(i)' = Answered(i) /\ Judged(i)' = Judged(i)
  BY <1>1 DEF Answered, Judged
<1>3. AnswerMode(i)' = AnswerMode(i) /\ JudgeMode(i)' = JudgeMode(i)
  BY <1>2 DEF AnswerMode, JudgeMode
<1> QED BY <1>1, <1>3 DEF RequestOf, Asking

\* Most steps neither take a lock nor give one back, and touch neither cache nor calls;
\* an exception gives all of them back.
Silent ==
    /\ cache' = cache /\ calls' = calls /\ starts' = starts
    /\ \/ pc' = "down" /\ \A i \in Instances : ~Asking(i)'
       \/ pc # "down" /\ \A i \in Instances : Asking(i) \/ Asking(i)' => task'[i] = task[i]

LEMMA SilentKeeps ==
    ASSUME LocksInv, CallsInv, Silent
    PROVE  LocksInv' /\ CallsInv'
<1>1. CASE pc' = "down" /\ \A i \in Instances : ~Asking(i)'
  BY <1>1 DEF Silent, LocksInv, CallsInv
<1>2. CASE pc # "down" /\ \A i \in Instances : Asking(i) \/ Asking(i)' => task'[i] = task[i]
  <2>1. \A i \in Instances : (Asking(i)' <=> Asking(i)) /\ (Asking(i) => RequestOf(i)' = RequestOf(i))
    <3> SUFFICES ASSUME NEW i \in Instances, Asking(i) \/ Asking(i)'
                 PROVE  Asking(i)' /\ Asking(i) /\ RequestOf(i)' = RequestOf(i)
      OBVIOUS
    <3>1. task'[i] = task[i]
      BY <1>2
    <3> QED BY <3>1, SameRequest DEF Asking
  <2> QED BY <1>2, <2>1 DEF Silent, LocksInv, CallsInv
<1> QED BY <1>1, <1>2 DEF Silent

LEMMA SilentSteps ==
    ASSUME IInv, [Next]_vars
    PROVE  Silent \/ Start \/ \E i \in Instances : CallProvider(i) \/ Reply(i)
<1>0. Shape /\ ProcessInv
  BY DEF IInv
<1> USE <1>0
<1> USE DEF Silent, Asking, ProcessInv, Raise, NoTask, Shape, Goto, files, env
<1>1. CASE UNCHANGED vars
  BY <1>1 DEF vars
<1>2. CASE FreezeManifest \/ BeginSuite \/ LoadLifecycle \/ EndSuite \/ NextSplit \/ VerifiedSummary
  BY <1>2 DEF FreezeManifest, BeginSuite, LoadLifecycle, EndSuite, NextSplit, VerifiedSummary
<1>3. ASSUME NEW i \in Instances, InstanceStep(i)
      PROVE  Silent \/ CallProvider(i) \/ Reply(i)
  <2>1. CASE Acquire(i)
    BY <2>1 DEF Acquire
  <2>2. CASE Prepare(i)
    BY <2>2 DEF Prepare
  <2>3. CASE UseCached(i)
    BY <2>3, UseShape DEF UseCached
  <2>4. CASE Proceed(i)
    BY <2>4 DEF Proceed
  <2>5. CASE FreezeMemory(i) \/ FreezeResult(i)
    BY <2>5 DEF FreezeMemory, FreezeResult
  <2> QED BY <1>3, <2>1, <2>2, <2>3, <2>4, <2>5 DEF InstanceStep
<1>4. CASE Stop \/ Drift
  BY <1>4 DEF Stop, Drift
<1> QED BY <1>1, <1>2, <1>3, <1>4 DEF Next, Main

LEMMA LocksNext ==
    ASSUME IInv, [Next]_vars
    PROVE  LocksInv' /\ CallsInv'
<1>0. Shape /\ LocksInv /\ CallsInv /\ ProcessInv /\ Types
  BY DEF IInv, TypeOK, Types
<1>1. ASSUME NEW i \in Instances, CallProvider(i) PROVE LocksInv' /\ CallsInv'
  <2> DEFINE r == RequestOf(i)
  <2>1. /\ r \notin DOMAIN cache /\ cache' = cache /\ starts' = starts /\ pc' = pc
        /\ calls' = CountCall(calls, r)
        /\ \A j \in Instances : Asking(j) => RequestOf(j) # r
    BY <1>1 DEF CallProvider, files, env, LockFree, Asking
  <2>2. RequestOf(i)' = r /\ Asking(i)'
    BY <1>0, <1>1, RequestKept
  <2>3. \A j \in Instances : j # i =>
          /\ task'[j] = task[j] /\ RequestOf(j)' = RequestOf(j) /\ (Asking(j)' <=> Asking(j))
    <3> SUFFICES ASSUME NEW j \in Instances, j # i
                 PROVE  task'[j] = task[j] /\ RequestOf(j)' = RequestOf(j) /\ (Asking(j)' <=> Asking(j))
      OBVIOUS
    <3>1. task'[j] = task[j]
      BY <1>0, <1>1 DEF CallProvider, Goto, Shape
    <3> QED BY <3>1, SameRequest DEF Asking
  <2> HIDE DEF r
  <2>4. LocksInv'
    BY <1>0, <2>1, <2>2, <2>3 DEF LocksInv
  <2>5. pc # "down" /\ ~Asking(i)
    BY <1>0, <1>1 DEF CallProvider, ProcessInv, Asking
  <2>6. starts \in Nat
    BY <1>0 DEF Shape
  <2>7. r \in DOMAIN calls => calls[r] \in Nat /\ calls[r] < starts
    BY <1>0, <2>1, <2>5 DEF CallsInv
  <2>8. calls'[r] \in Nat /\ calls'[r] <= starts
    <3>1. 1 <= starts
      BY <1>0, <2>5 DEF CallsInv
    <3> QED BY <2>1, <2>6, <2>7, <3>1 DEF CountCall, With
  <2>9. CallsInv'
    <3> SUFFICES ASSUME NEW s \in DOMAIN calls', s # r
                 PROVE  /\ calls'[s] \in Nat /\ calls'[s] <= starts
                        /\ \/ pc = "down" \/ s \in DOMAIN cache
                           \/ \E j \in Instances : Asking(j)' /\ RequestOf(j)' = s
                           \/ calls'[s] < starts
      BY <1>0, <2>1, <2>2, <2>8 DEF CallsInv
    <3>1. s \in DOMAIN calls /\ calls'[s] = calls[s]
      BY <2>1 DEF CountCall, With
    <3>2. (\E j \in Instances : Asking(j) /\ RequestOf(j) = s)
            => \E j \in Instances : Asking(j)' /\ RequestOf(j)' = s
      BY <2>3, <2>5
    <3> QED BY <1>0, <3>1, <3>2 DEF CallsInv
  <2> QED BY <2>4, <2>9
<1>2. ASSUME NEW i \in Instances, Reply(i) PROVE LocksInv' /\ CallsInv'
  <2> DEFINE r == RequestOf(i)
  <2>1. /\ Asking(i) /\ calls' = calls /\ starts' = starts
        /\ DOMAIN cache' = DOMAIN cache \cup {r}
    BY <1>2 DEF Reply, Asking, env, With
  <2>2. CASE Raise
    <3>1. pc' = "down" /\ \A j \in Instances : ~Asking(j)'
      BY <2>2 DEF Raise, NoTask, Asking
    <3> QED BY <1>0, <2>1, <3>1 DEF LocksInv, CallsInv
  <2>3. CASE ~Raise
    <3>1. pc' = pc /\ ~Asking(i)' /\ \A j \in Instances : j # i => task'[j] = task[j]
      BY <1>0, <1>2, <2>3, UseShape DEF Reply, Shape, Asking
    <3>2. \A j \in Instances : j # i =>
            task'[j] = task[j] /\ RequestOf(j)' = RequestOf(j) /\ (Asking(j)' <=> Asking(j))
      <4> SUFFICES ASSUME NEW j \in Instances, j # i
                   PROVE  task'[j] = task[j] /\ RequestOf(j)' = RequestOf(j) /\ (Asking(j)' <=> Asking(j))
        OBVIOUS
      <4>1. task'[j] = task[j]
        BY <3>1
      <4> QED BY <4>1, SameRequest DEF Asking
    <3> HIDE DEF r
    <3>3. \A j \in Instances : Asking(j) /\ j # i => RequestOf(j) # r
      BY <1>0, <2>1 DEF LocksInv, r
    <3>4. \A s : s # r => ((\E j \in Instances : Asking(j) /\ RequestOf(j) = s)
                             => \E j \in Instances : Asking(j)' /\ RequestOf(j)' = s)
      BY <3>2 DEF r
    <3> QED BY <1>0, <2>1, <3>1, <3>2, <3>3, <3>4 DEF LocksInv, CallsInv
  <2> QED BY <2>2, <2>3
<1>3. CASE Start
  <2>1. /\ cache' = cache /\ calls' = calls /\ starts' = starts + 1 /\ starts \in Nat
        /\ \A i \in Instances : ~Asking(i)'
    BY <1>0, <1>3 DEF Start, files, ProcessInv, Asking, Shape
  <2> QED BY <1>0, <2>1 DEF LocksInv, CallsInv
<1> QED BY <1>0, <1>1, <1>2, <1>3, SilentSteps, SilentKeeps

\* The kinds of requests.
LEMMA RequestKinds ==
    ASSUME NEW i \in Instances
    PROVE  RequestOf(i)[1] = IF task[i].at \in {"answer", "asking"} THEN "answer" ELSE "judge"
BY DEF RequestOf

LEMMA CacheNext == IInv /\ [Next]_vars => CacheInv'
<1> SUFFICES ASSUME IInv, [Next]_vars PROVE CacheInv'
  OBVIOUS
<1>0. CacheInv
  BY DEF IInv
<1>1. ASSUME NEW i \in Instances, Reply(i) PROVE CacheInv'
  BY <1>0, <1>1, RequestKinds DEF Reply, CacheInv, With
<1>2. CASE ~\E i \in Instances : Reply(i)
  <2>1. cache' = cache
    BY <1>2, SilentSteps DEF Silent, Start, CallProvider, files
  <2> QED BY <1>0, <2>1 DEF CacheInv
<1> QED BY <1>1, <1>2

-----------------------------------------------------------------------------
(* Arms *)

\* What was paid for stays when the cache gets another entry.
LEMMA PaidIsKept ==
    ASSUME NEW table, NEW key, NEW value, key \notin DOMAIN table,
           NEW request, NEW reply, Paid(table, request, reply)
    PROVE  Paid(With(table, key, value), request, reply)
BY DEF Paid, With

LEMMA ArmsOfKept ==
    ASSUME NEW table, NEW key, NEW value, key \notin DOMAIN table,
           NEW i, NEW contexts, NEW arms, ArmsOf(table, i, contexts, arms)
    PROVE  ArmsOf(With(table, key, value), i, contexts, arms)
<1> DEFINE next == With(table, key, value)
<1>1. \A request, reply : Paid(table, request, reply) => Paid(next, request, reply)
  BY PaidIsKept
<1> HIDE DEF next
<1>2. \A mode \in DOMAIN arms : ArmOf(next, i, contexts, mode, arms[mode])
  BY <1>1 DEF ArmsOf, ArmOf
<1> QED BY <1>2 DEF ArmsOf, next

LEMMA ArmsAreKept ==
    ASSUME NEW table, NEW key, NEW value, key \notin DOMAIN table, NEW i, NEW context
    PROVE  /\ \A t : TaskArms(table, i, context, t) => TaskArms(With(table, key, value), i, context, t)
           /\ \A r : ResultArms(table, i, context, r) => ResultArms(With(table, key, value), i, context, r)
BY ArmsOfKept DEF TaskArms, ResultArms

\* A task that uses a reply on disk keeps its arms in order.
LEMMA UseKeepsArms ==
    ASSUME Shape, NEW i \in Instances, task[i].at \in {"answer", "asking", "judge", "judging"},
           NEW table, NEW context, TaskArms(table, i, context, task[i]),
           NEW reply, Use(i, reply), Paid(table, RequestOf(i), reply),
           task[i].at \in {"answer", "asking"} => reply \in Replies,
           task[i].at \in {"judge", "judging"} => reply \in Verdicts /\ Parses(reply)
    PROVE  /\ TaskArms(table, i, context, task'[i])
           /\ \A j \in Instances : j # i => task'[j] = task[j]
<1> DEFINE t == task[i]
<1>0. \A j \in Instances : j # i => task'[j] = task[j]
  BY UseShape DEF Shape
<1>1. /\ context \in Contexts[i] /\ t.contexts = BuildSeedContexts(context.selected)
      /\ ArmsOf(table, i, t.contexts, t.arms)
  BY DEF TaskArms, AtWork
<1>2. CASE t.at \in {"answer", "asking"}
  <2> DEFINE m == AnswerMode(i)
             arm == [context |-> t.contexts[m], output |-> reply, verdict |-> "none"]
             arms == With(t.arms, m, arm)
  <2>1. /\ task'[i].at = "answer" /\ task'[i].contexts = t.contexts /\ task'[i].arms = arms
    BY <1>2 DEF Use, Shape
  <2>2. ArmOf(table, i, t.contexts, m, arm)
    BY <1>2 DEF ArmOf, RequestOf
  <2> HIDE DEF arm, m
  <2>3. ArmsOf(table, i, t.contexts, arms)
    BY <1>1, <2>2 DEF ArmsOf, With
  <2> QED BY <1>0, <1>1, <2>1, <2>3 DEF TaskArms
<1>3. CASE t.at \in {"judge", "judging"}
  <2> DEFINE m == JudgeMode(i)
             arms == [t.arms EXCEPT ![m].verdict = reply]
  <2>1. task'[i].at = "judge" /\ task'[i].contexts = t.contexts /\ task'[i].arms = arms
    BY <1>3 DEF Use, Shape
  <2>2. Paid(table, <<"judge", Request[i], Label[i], t.arms[m].output>>, reply)
    BY <1>3 DEF RequestOf
  <2>3. DOMAIN t.arms = ToSet(Modes)
    BY <1>3 DEF TaskArms
  <2> HIDE DEF m
  <2>4. DOMAIN arms = DOMAIN t.arms /\ arms = [mode \in DOMAIN arms |-> arms[mode]]
    OBVIOUS
  <2>5. ASSUME NEW mode \in DOMAIN arms PROVE ArmOf(table, i, t.contexts, mode, arms[mode])
    <3>1. ArmOf(table, i, t.contexts, mode, t.arms[mode])
      BY <1>1, <2>4, <2>5 DEF ArmsOf
    <3>2. CASE mode # m
      BY <2>4, <3>1, <3>2
    <3>3. CASE mode = m
      <4>1. arms[mode] = [t.arms[mode] EXCEPT !.verdict = reply]
        BY <2>4, <3>3
      <4> HIDE DEF arms
      <4> QED BY <1>3, <2>2, <3>1, <3>3, <4>1 DEF ArmOf
    <3> QED BY <3>2, <3>3
  <2> HIDE DEF arms
  <2>6. ArmsOf(table, i, t.contexts, arms)
    BY <2>4, <2>5 DEF ArmsOf
  <2> QED BY <1>0, <1>1, <2>1, <2>3, <2>4, <2>6 DEF TaskArms
<1> QED BY <1>2, <1>3

LEMMA ArmsNext == IInv /\ [Next]_vars => ArmsInv'
<1> SUFFICES ASSUME IInv, [Next]_vars PROVE ArmsInv'
  OBVIOUS
<1>0. Shape /\ ProcessInv /\ ArmsInv /\ CacheInv /\ LocksInv /\ FrozenInv
  BY DEF IInv
<1> USE <1>0
\* Tasks that are dropped have no arms.
<1>1. ASSUME Raise, cache' = cache, selected' = selected, results' = results PROVE ArmsInv'
  BY <1>1 DEF Raise, NoTask, ArmsInv, TaskArms, AtWork
<1>2. ASSUME task' = task, cache' = cache, selected' = selected, results' = results
      PROVE  ArmsInv'
  BY <1>2 DEF ArmsInv
<1>3. ASSUME NEW i \in Instances, InstanceStep(i) PROVE ArmsInv'
  <2> USE DEF Shape, Goto, files, env
  <2>1. CASE Acquire(i)
    BY <2>1 DEF Acquire, ArmsInv, TaskArms, AtWork
  <2>2. CASE Prepare(i)
    <3>1. PICK c \in Contexts[i] :
            /\ selected' = [selected EXCEPT ![i] = c]
            /\ task' = [task EXCEPT ![i] = [@ EXCEPT !.at = "answer",
                                                     !.contexts = BuildSeedContexts(c.selected)]]
      BY <2>2 DEF Prepare
    <3>2. /\ task[i].at = "prepare" /\ cache' = cache /\ results' = results
          /\ selected'[i] = c /\ results[i] = None
      BY <2>2, <3>1 DEF Prepare, FrozenInv, Frozen, AtWork
    <3>3. \A j \in Instances : j # i => task'[j] = task[j] /\ selected'[j] = selected[j]
      BY <3>1
    <3>4. /\ task'[i].at = "answer" /\ task'[i].arms = <<>>
          /\ task'[i].contexts = BuildSeedContexts(c.selected)
      BY <3>1, <3>2 DEF ArmsInv, TaskArms
    <3>5. ArmsOf(cache, i, BuildSeedContexts(c.selected), <<>>)
      BY DEF ArmsOf
    <3>6. TaskArms(cache, i, c, task'[i])
      BY <3>4, <3>5 DEF TaskArms
    <3>7. ResultArms(cache, i, c, results[i])
      BY <3>2 DEF ResultArms
    <3> QED BY <3>2, <3>3, <3>6, <3>7 DEF ArmsInv
  <2>3. CASE UseCached(i)
    <3>1. CASE Raise
      BY <1>1, <2>3, <3>1 DEF UseCached
    <3>2. CASE ~Raise
      <4>1. /\ Use(i, cache[RequestOf(i)]) /\ Acceptable(i, cache[RequestOf(i)])
            /\ RequestOf(i) \in DOMAIN cache /\ task[i].at \in {"answer", "judge"}
            /\ cache' = cache /\ selected' = selected /\ results' = results
        BY <2>3, <3>2 DEF UseCached
      <4>2. TaskArms(cache, i, selected[i], task'[i]) /\ \A j \in Instances : j # i => task'[j] = task[j]
        BY <4>1, UseKeepsArms, RequestKinds DEF CacheInv, ArmsInv, Paid, Acceptable
      <4> QED BY <4>1, <4>2 DEF ArmsInv
    <3> QED BY <3>1, <3>2
  <2>4. CASE CallProvider(i)
    BY <2>4 DEF CallProvider, ArmsInv, TaskArms, AtWork
  <2>5. CASE Reply(i)
    <3> DEFINE r == RequestOf(i)
    <3>1. PICK reply :
            /\ reply \in (IF task[i].at = "asking" THEN Replies ELSE Verdicts)
            /\ cache' = With(cache, r, reply)
            /\ IF Acceptable(i, reply) THEN Use(i, reply) ELSE Raise
      BY <2>5 DEF Reply
    <3>2. /\ r \notin DOMAIN cache /\ selected' = selected /\ results' = results
          /\ task[i].at \in {"asking", "judging"}
      BY <2>5 DEF Reply, LocksInv, Asking
    <3>3. \A j \in Instances : /\ TaskArms(cache', j, selected[j], task[j])
                               /\ ResultArms(cache', j, selected[j], results[j])
      BY <3>1, <3>2, ArmsAreKept DEF ArmsInv
    <3>4. CASE Raise
      BY <3>2, <3>3, <3>4 DEF Raise, NoTask, ArmsInv, TaskArms, AtWork
    <3>5. CASE Use(i, reply) /\ Acceptable(i, reply)
      <4>1. Paid(cache', r, reply)
        BY <3>1 DEF Paid, With
      <4>2. TaskArms(cache', i, selected[i], task'[i]) /\ \A j \in Instances : j # i => task'[j] = task[j]
        BY <3>1, <3>2, <3>3, <3>5, <4>1, UseKeepsArms DEF Acceptable
      <4> QED BY <3>2, <3>3, <4>2 DEF ArmsInv
    <3> QED BY <3>1, <3>4, <3>5
  <2>6. CASE Proceed(i)
    BY <2>6 DEF Proceed, Asks, Answered, Judged, Complete, ArmsInv, TaskArms, AtWork
  <2>7. CASE FreezeMemory(i)
    BY <1>1, <2>7 DEF FreezeMemory, ArmsInv, TaskArms, AtWork
  <2>8. CASE FreezeResult(i)
    BY <2>8 DEF FreezeResult, NoTask, ArmsInv, TaskArms, ResultArms, AtWork
  <2> QED BY <1>3, <2>1, <2>2, <2>3, <2>4, <2>5, <2>6, <2>7, <2>8 DEF InstanceStep
<1>4. CASE UNCHANGED vars
  BY <1>2, <1>4 DEF vars, files
<1>5. CASE Main
  BY <1>1, <1>2, <1>5
     DEF Main, Start, FreezeManifest, BeginSuite, LoadLifecycle, EndSuite, NextSplit,
         VerifiedSummary, files
<1>6. CASE Stop \/ Drift
  BY <1>1, <1>2, <1>6 DEF Stop, Drift, files
<1> QED BY <1>3, <1>4, <1>5, <1>6 DEF Next

-----------------------------------------------------------------------------
(* The invariant *)

LEMMA CupidInit == Init => IInv
<1> SUFFICES ASSUME Init PROVE IInv
  OBVIOUS
<1>1. Running = {} /\ Cardinality({}) = 0
  BY FS_EmptySet DEF Init, Running, NoTask, AtWork
<1>2. TypeOK
  BY <1>1, CupidAssumption, SplitsKnown, CohortAssumption DEF Init, TypeOK, NoTask, AtWork
<1>3. Shape /\ ProcessInv
  BY DEF Init, Shape, ProcessInv, NoTask
<1>4. FrozenInv /\ LocksInv /\ CallsInv /\ CacheInv
  BY DEF Init, FrozenInv, LocksInv, CallsInv, CacheInv, NoTask, Asking, Frozen, AtWork
<1>5. GateFirst /\ HoldoutInOrder /\ ResultsOfOneConfig
  BY DEF Init, GateFirst, HoldoutInOrder, ResultsOfOneConfig, Group
<1>6. ArmsInv
  BY DEF Init, ArmsInv, TaskArms, ResultArms, NoTask, AtWork
<1> QED BY <1>2, <1>3, <1>4, <1>5, <1>6 DEF IInv

LEMMA CupidNext == IInv /\ [Next]_vars => IInv'
<1> SUFFICES ASSUME IInv, [Next]_vars PROVE IInv'
  OBVIOUS
<1>1. /\ Types' /\ Shape' /\ ProcessInv' /\ GateFirst' /\ HoldoutInOrder' /\ ResultsOfOneConfig'
      /\ FrozenInv'
  BY ControlNext
<1>2. Cardinality(Running)' <= Limit
  BY LimitKept
<1>3. LocksInv' /\ CallsInv' /\ CacheInv' /\ ArmsInv'
  BY LocksNext, CacheNext, ArmsNext
<1>4. TypeOK'
  BY <1>1, <1>2, <1>3 DEF TypeOK, Types, Shape, CacheInv
<1> QED BY <1>1, <1>3, <1>4 DEF IInv

\* The invariant holds in every reachable state.
LEMMA CupidInvariant == Spec => []IInv
BY CupidInit, CupidNext, PTL DEF Spec

-----------------------------------------------------------------------------
(* The arms of one Select *)

\* What build_seed_contexts makes of a Select is a paired comparison, and a Disposition
\* that is not shown leaves the two memory arms with the same text.
LEMMA ArmsArePaired ==
    ASSUME NEW chosen, Selectable(chosen),
           NEW contexts, contexts = BuildSeedContexts(chosen)
    PROVE  /\ ValidatedArms([mode \in ToSet(Modes) |-> [context |-> contexts[mode]]])
           /\ contexts[Seed].dispositions = {} => contexts[Seed].text = contexts[Base].text
           /\ contexts[Seed].dispositions # {} => chosen.dispositions # <<>>
<1> DEFINE a == chosen.recollections
           b == chosen.dispositions
           S == ToSet(a) \cup ToSet(b)
           shown == [mode \in ToSet(Modes) |-> [context |-> contexts[mode]]]
<1>1. ToSet(Modes) = {"none", Base, Seed} /\ "none" # Base /\ "none" # Seed /\ Base # Seed
  BY DEF ToSet, Modes, Base, Seed
<1>2. a \in Seq(S) /\ b \in Seq(S) /\ Renderable(a \o b)
  BY DEF Selectable
<1>3. /\ ArmItems(chosen, "none") = <<>> /\ ArmItems(chosen, Base) = a
      /\ ArmItems(chosen, Seed) = a \o b
  BY DEF ArmItems, Base, Seed
<1> DEFINE none == Refs(Render(<<>>))
           few == Refs(Render(a))
           all == Refs(Render(a \o b))
           given == <<VisibleRefs(a), VisibleRefs(b)>>
<1>4. /\ contexts["none"] = [text |-> none, selected |-> given,
                             recollections |-> VisibleRefs(a) \cap ToSet(none),
                             dispositions |-> VisibleRefs(b) \cap ToSet(none)]
      /\ contexts[Base] = [text |-> few, selected |-> given,
                           recollections |-> VisibleRefs(a) \cap ToSet(few),
                           dispositions |-> VisibleRefs(b) \cap ToSet(few)]
      /\ contexts[Seed] = [text |-> all, selected |-> given,
                           recollections |-> VisibleRefs(a) \cap ToSet(all),
                           dispositions |-> VisibleRefs(b) \cap ToSet(all)]
  BY <1>1, <1>3 DEF BuildSeedContexts, Among
<1>5. /\ ToSet(few) \subseteq VisibleRefs(a) /\ VisibleRefs(a) \cap VisibleRefs(b) = {}
      /\ VisibleRefs(a) \cap ToSet(all) = ToSet(few)
      /\ VisibleRefs(b) \cap ToSet(all) = {} => all = few
      /\ none = <<>>
  <2> HIDE DEF S
  <2> QED BY <1>2, ShownTogether, ShownOfNothing
<1>6. b = <<>> => VisibleRefs(b) = {}
  BY DEF VisibleRefs, VisibleAt
<1>7. /\ DOMAIN shown = ToSet(Modes)
      /\ \A mode \in ToSet(Modes) : shown[mode].context = contexts[mode]
  OBVIOUS
<1> HIDE DEF none, few, all, given, shown, a, b
<1>8. ValidatedArms(shown)
  <2>1. given[1] = VisibleRefs(a) /\ given[2] = VisibleRefs(b)
    BY DEF given
  <2>2. \A mode \in ToSet(Modes) : shown[mode].context.selected = given
    BY <1>1, <1>4, <1>7
  <2>3. /\ shown["none"].context.text = <<>>
        /\ shown[Base].context.dispositions = {}
        /\ shown[Seed].context.recollections = shown[Base].context.recollections
        /\ shown[Base].context.recollections \subseteq VisibleRefs(a)
        /\ shown[Seed].context.dispositions \subseteq VisibleRefs(b)
    <3>1. /\ shown["none"].context.text = none
          /\ shown[Base].context.dispositions = VisibleRefs(b) \cap ToSet(few)
          /\ shown[Seed].context.dispositions = VisibleRefs(b) \cap ToSet(all)
          /\ shown[Base].context.recollections = VisibleRefs(a) \cap ToSet(few)
          /\ shown[Seed].context.recollections = VisibleRefs(a) \cap ToSet(all)
      BY <1>1, <1>4, <1>7
    <3> QED BY <1>5, <3>1
  <2> QED BY <1>1, <1>7, <2>1, <2>2, <2>3 DEF ValidatedArms
<1> QED BY <1>4, <1>5, <1>6, <1>8 DEF shown, b

-----------------------------------------------------------------------------
(* Theorems *)

\* run_instances_bounded, the request locks of CachedTextModel and freeze_manifest keep
\* the protocol of a cohort through concurrency, cancellation and restarts: never more
\* tasks than the semaphore allows, the second holdout untouched until the first is on
\* disk, no holdout before the gate, one call per request and process, one configuration.
THEOREM ProtocolKept == Spec => []ProtocolInv
<1>1. IInv => ProtocolInv
  BY DEF IInv, ProtocolInv, CallsInv, RepliesBoughtOnce
<1> QED BY CupidInvariant, <1>1, PTL

\* The summary is the one of the complete cohort on disk.
SummaryOfCohort == summary # None => summary = Reasons(results) /\ \A i \in Instances : Frozen(i)

\* verified_summary leaves the verdict of the complete cohort, and no later process changes
\* a result under it.
THEOREM VerdictOfCohort == Spec => []SummaryOfCohort
<1>1. IInv => SummaryOfCohort
  BY DEF IInv, FrozenInv, SummaryOfCohort
<1> QED BY CupidInvariant, <1>1, PTL

\* Arms that were shown the same text say the same and score the same, also across
\* instances that ask the same.
AlikeArmsAgree ==
    \A i, j \in Instances : Frozen(i) /\ Frozen(j) /\ Request[i] = Request[j] =>
        \A m, n \in ToSet(Modes) :
            results[i].arms[m].context.text = results[j].arms[n].context.text =>
                /\ results[i].arms[m].output = results[j].arms[n].output
                /\ Label[i] = Label[j] =>
                      results[i].arms[m].verdict = results[j].arms[n].verdict

\* However many tasks ask CachedTextModel at once, and whatever was cancelled in between,
\* one request has one reply: results differ only where what was shown differs.
THEOREM AlikeArms == Spec => []AlikeArmsAgree
<1>1. IInv => AlikeArmsAgree
  <2> SUFFICES ASSUME IInv,
                      NEW i \in Instances, NEW j \in Instances, Frozen(i), Frozen(j),
                      Request[i] = Request[j],
                      NEW m \in ToSet(Modes), NEW n \in ToSet(Modes),
                      results[i].arms[m].context.text = results[j].arms[n].context.text
               PROVE  /\ results[i].arms[m].output = results[j].arms[n].output
                      /\ Label[i] = Label[j] =>
                            results[i].arms[m].verdict = results[j].arms[n].verdict
    BY DEF AlikeArmsAgree
  <2>1. /\ ArmOf(cache, i, BuildSeedContexts(selected[i].selected), m, results[i].arms[m])
        /\ ArmOf(cache, j, BuildSeedContexts(selected[j].selected), n, results[j].arms[n])
        /\ results[i].arms[m].verdict # "none" /\ results[j].arms[n].verdict # "none"
    BY DEF IInv, ArmsInv, ResultArms, Complete, ArmsOf, Frozen
  <2>2. results[i].arms[m].output = results[j].arms[n].output
    BY <2>1 DEF ArmOf, Paid
  <2> QED BY <2>1, <2>2 DEF ArmOf, Paid
<1> QED BY CupidInvariant, <1>1, PTL

\* So the Seed gets credit or blame only where build_seed_contexts rendered it.
THEOREM CreditIsRendered == Spec => []CreditNeedsRendering
<1>1. IInv /\ AlikeArmsAgree => CreditNeedsRendering
  <2> SUFFICES ASSUME IInv, AlikeArmsAgree, NEW i \in Instances, Frozen(i),
                      results[i].arms[Seed].context.dispositions = {}
               PROVE  /\ results[i].arms[Seed].output = results[i].arms[Base].output
                      /\ Delta(results[i]) = 0
    BY DEF CreditNeedsRendering
  <2> DEFINE arms == results[i].arms
             contexts == BuildSeedContexts(selected[i].selected)
  <2>1. Seed \in ToSet(Modes) /\ Base \in ToSet(Modes)
    BY DEF Seed, Base, Modes, ToSet
  <2>2. /\ selected[i] \in Contexts[i]
        /\ ArmOf(cache, i, contexts, Seed, arms[Seed]) /\ ArmOf(cache, i, contexts, Base, arms[Base])
        /\ arms[Seed].verdict # "none"
    BY <2>1 DEF IInv, ArmsInv, ResultArms, Complete, ArmsOf, Frozen
  <2>3. arms[Seed].context = contexts[Seed] /\ arms[Base].context = contexts[Base]
        /\ Parses(arms[Seed].verdict)
    BY <2>2 DEF ArmOf
  <2>4. contexts[Seed].text = contexts[Base].text
    <3>1. Selectable(selected[i].selected)
      BY <2>2, CupidAssumption
    <3> HIDE DEF contexts
    <3>2. contexts[Seed].dispositions = {}
      BY <2>3
    <3> QED BY <3>1, <3>2, ArmsArePaired DEF contexts
  <2>5. arms[Seed].output = arms[Base].output /\ arms[Seed].verdict = arms[Base].verdict
    BY <2>1, <2>3, <2>4 DEF AlikeArmsAgree
  <2>6. ParseJudgeScore(arms[Seed].verdict) \in Int
    BY <2>3 DEF Parses, ParseJudgeScore, ScoreTokens, ToSet
  <2> QED BY <2>5, <2>6 DEF Delta, Score
<1>2. Spec => []AlikeArmsAgree
  BY AlikeArms
<1> QED BY CupidInvariant, <1>1, <1>2, PTL

-----------------------------------------------------------------------------
(* The verdict as a whole *)

\* The scores of results on disk are scores of the contract.
LEMMA GainType ==
    ASSUME IInv, \A i \in Instances : Frozen(i), NEW s
    PROVE  /\ \A i \in Group(s) : Delta(results[i]) \in Int
           /\ IsFiniteSet(Group(s)) /\ Group(s) \subseteq Instances
           /\ SplitGain(results, s) \in Int
<1> DEFINE S == Group(s)
           gains == [i \in S |-> Delta(results[i])]
<1>1. Seed \in ToSet(Modes) /\ Base \in ToSet(Modes)
  BY DEF Seed, Base, Modes, ToSet
<1>2. \A i \in Instances : ResultArms(cache, i, selected[i], results[i]) /\ results[i] # None
  BY DEF IInv, ArmsInv, Frozen
<1>3. ASSUME NEW i \in Instances, NEW mode \in ToSet(Modes)
      PROVE  Parses(results[i].arms[mode].verdict)
  <2> DEFINE contexts == BuildSeedContexts(selected[i].selected)
  <2>1. /\ ArmsOf(cache, i, contexts, results[i].arms) /\ mode \in DOMAIN results[i].arms
        /\ results[i].arms[mode].verdict # "none"
    BY <1>2 DEF ResultArms, Complete
  <2> HIDE DEF contexts
  <2>2. ArmOf(cache, i, contexts, mode, results[i].arms[mode])
    BY <2>1 DEF ArmsOf
  <2> QED BY <2>1, <2>2 DEF ArmOf
<1>4. \A x : Parses(x) => ParseJudgeScore(x) \in Int
  BY DEF Parses, ParseJudgeScore, ScoreTokens, ToSet
<1>5. S \subseteq Instances /\ IsFiniteSet(S)
  BY CohortAssumption, FS_Subset DEF Group
<1>6. \A i \in S : Delta(results[i]) \in Int
  BY <1>1, <1>3, <1>4, <1>5 DEF Delta, Score
<1>7. \A i \in S : gains[i] \in Int
  BY <1>6
<1>8. SumFunctionOnSet(gains, S) \in Int
  <2> HIDE DEF S, gains
  <2> QED BY <1>5, <1>7, SumIs
<1> QED BY <1>5, <1>6, <1>8 DEF SplitGain, GainOf

\* A holdout that gained has an instance whose score was raised by a Disposition it was
\* shown: a score differs only where the Seed was shown, and what is shown had been formed.
LEMMA GainWasShown ==
    ASSUME IInv, CreditNeedsRendering, \A i \in Instances : Frozen(i),
           NEW s \in ToSet(Splits), SplitGain(results, s) > 0
    PROVE  \E i \in Group(s) : /\ Delta(results[i]) > 0
                               /\ Reached(results[i], "rendered") /\ Reached(results[i], "formed")
<1> DEFINE S == Group(s)
           gains == [i \in S |-> Delta(results[i])]
<1>1. Seed \in ToSet(Modes)
  BY DEF Seed, Modes, ToSet
<1>2. \A i \in Instances : ResultArms(cache, i, selected[i], results[i]) /\ results[i] # None
  BY DEF IInv, ArmsInv, Frozen
<1>3. S \subseteq Instances /\ IsFiniteSet(S) /\ \A i \in S : gains[i] \in Int
  BY GainType
<1>4. PICK i \in S : gains[i] > 0
  <2>1. SumFunctionOnSet(gains, S) > 0
    BY DEF SplitGain, GainOf
  <2> HIDE DEF S, gains
  <2> QED BY <1>3, <2>1, SumIs
<1>5. i \in Instances /\ Delta(results[i]) > 0
  BY <1>3, <1>4
<1> DEFINE shown == results[i].arms[Seed].context
           contexts == BuildSeedContexts(selected[i].selected)
<1>6. shown.dispositions # {}
  BY <1>5 DEF CreditNeedsRendering
<1>7. /\ selected[i] \in Contexts[i] /\ results[i].active = selected[i].active
      /\ shown = contexts[Seed]
  <2>1. /\ selected[i] \in Contexts[i] /\ results[i].active = selected[i].active
        /\ ArmsOf(cache, i, contexts, results[i].arms) /\ Seed \in DOMAIN results[i].arms
    BY <1>1, <1>2, <1>5 DEF ResultArms, Complete
  <2> HIDE DEF contexts
  <2>2. ArmOf(cache, i, contexts, Seed, results[i].arms[Seed])
    BY <2>1 DEF ArmsOf
  <2> QED BY <2>1, <2>2 DEF ArmOf
<1>8. /\ Selectable(selected[i].selected) /\ selected[i].active \in Nat
      /\ selected[i].selected.dispositions # <<>> => selected[i].active > 0
  BY <1>5, <1>7, CupidAssumption
<1>9. selected[i].selected.dispositions # <<>>
  <2>1. contexts = BuildSeedContexts(selected[i].selected)
    OBVIOUS
  <2> HIDE DEF contexts
  <2>2. contexts[Seed].dispositions # {} => selected[i].selected.dispositions # <<>>
    BY <1>8, <2>1, ArmsArePaired
  <2> QED BY <1>6, <1>7, <2>2
<1>10. Reached(results[i], "rendered")
  BY <1>6 DEF Reached
<1>11. selected[i].active > 0
  BY <1>8, <1>9
<1>12. Reached(results[i], "formed")
  BY <1>7, <1>11 DEF Reached
<1> QED BY <1>4, <1>5, <1>10, <1>12

\* summarize_cupid_effect finds no reason against a formal cohort only if the Seed helped in
\* each of its holdouts, and it could help only where it was shown.
THEOREM PassIsEarned == Spec => []PassMeansRenderedGain
<1>1. IInv /\ CreditNeedsRendering /\ SummaryOfCohort => PassMeansRenderedGain
  <2> SUFFICES ASSUME IInv, CreditNeedsRendering, SummaryOfCohort, summary # None
               PROVE  PassMeansRenderedGain
    BY DEF PassMeansRenderedGain
  <2>1. summary = Reasons(results) /\ \A i \in Instances : Frozen(i)
    BY DEF SummaryOfCohort
  <2>2. ASSUME Formal, summary = {}, NEW s \in ToSet(Splits)
        PROVE  SplitGain(results, s) > 0
    <3>1. ~(SplitGain(results, s) <= 0)
      BY <2>1, <2>2 DEF Reasons
    <3>2. SplitGain(results, s) \in Int
      BY <2>1, GainType
    <3> QED BY <3>1, <3>2
  <2> QED BY <2>1, <2>2, GainWasShown DEF PassMeansRenderedGain
<1>2. Spec => []CreditNeedsRendering /\ []SummaryOfCohort
  BY CreditIsRendered, VerdictOfCohort
<1> QED BY CupidInvariant, <1>1, <1>2, PTL

\* The verdict of a CUPID evaluation is justified by the results on disk: credit is for what
\* was shown, and a cohort that passes was helped in each of its holdouts.
THEOREM VerdictIsJustified == Spec => []VerdictJustified
<1>1. CreditNeedsRendering /\ PassMeansRenderedGain => VerdictJustified
  BY DEF VerdictJustified
<1> QED BY CreditIsRendered, PassIsEarned, <1>1, PTL

===============================================================================
