--------------------------- MODULE AnchorRunProofs ---------------------------
(***************************************************************************)
(* Proofs about AnchorRun, for every cohort, every reply of the models and *)
(* any number of crashes and of changes of the repository.                 *)
(***************************************************************************)
EXTENDS AnchorRun, RenderingProofs

-----------------------------------------------------------------------------
(* The inductive invariant *)

Phases == {"down", "manifest", "lifecycle", "suite", "next", "replay", "select", "answer", "judge"}

\* A temporary file of that kind is about to replace its target.
Writing(file) == pc = "writing" /\ part.file = file

\* The instance at work; the steps of it that ask a model.
AtInstance == pc \in {"replay", "select", "answer", "judge"} \/ Writing("cache")
Asking == pc \in {"answer", "judge"} \/ Writing("cache")

\* A Harness that is past its start has the manifest of the present inputs.
Bound == pc \notin {"down", "manifest"} /\ ~Writing("manifest")

\* What a temporary file may hold, and where the Harness goes on after it.
PartOK ==
    /\ Writing("manifest") => part.then = "lifecycle"
    /\ Writing("case") => part.then = "suite"
    /\ Writing("lifecycle") \/ Writing("result") => part.then = "next"
    /\ Writing("summary") => part.then = "down"
    /\ Writing("cache") => part.then \in {"answer", "judge"}
    /\ Writing("case") => part.key \in 0 .. NumCases
    /\ Writing("lifecycle") => part.value \in {"passed", "failed"}
    /\ Writing("result") =>
          /\ part.key \in Instances /\ results[part.key] = None
          /\ part.value.error \in {"none", Harness, Judge} /\ part.value.active \in Nat

\* The manifest comes before everything else, and the Harness that goes on from it
\* works under the configuration it binds.
BoundInv ==
    /\ config \in {0, 1} /\ crashes \in Nat
    /\ pc = "manifest" => manifest \in {None, config}
    /\ Writing("manifest") => manifest = None /\ part.value = config
    /\ Bound => manifest = config

\* The gate is decided once, and before the first instance.
GateFirst ==
    /\ pc = "suite" \/ Writing("case") \/ Writing("lifecycle") => lifecycle = None
    /\ pc \in {"next"} \/ AtInstance \/ Writing("result") \/ Writing("summary") => lifecycle # None

\* The instance at work is open, and Core has frozen a context it may select.
InstanceInv ==
    /\ DOMAIN results = Instances
    /\ DOMAIN madeUnder = Instances
    /\ \A i \in Instances : selected[i] = None \/ selected[i] \in Contexts[i]
    /\ DOMAIN selected = Instances
    /\ AtInstance => /\ DOMAIN cur = {"inst", "contexts", "arms"}
                     /\ cur.inst \in Instances /\ results[cur.inst] = None
    /\ Asking => selected[cur.inst] \in Contexts[cur.inst]

\* Every call but those lost in a crash has its reply on disk or about to be.
CallsCounted ==
    \A r \in DOMAIN calls :
        /\ calls[r] \in Nat
        /\ calls[r] <= crashes + (IF r \in DOMAIN cache \/ (Writing("cache") /\ part.key = r)
                                  THEN 1 ELSE 0)

\* The verdict is written when the cohort is complete, and changes nothing more.
VerdictInv ==
    /\ SummaryOfResults
    /\ summary # None => lifecycle # None
    /\ Writing("summary") => /\ Pending(Instances) = {}
                             /\ part.value = Decision(lifecycle, results)

IInv == /\ TypeOK /\ PartOK /\ BoundInv /\ GateFirst /\ InstanceInv
        /\ ResumableOnceLearned /\ ResultsOfOneConfig /\ CallsCounted /\ VerdictInv

-----------------------------------------------------------------------------
(* Every action keeps it *)

LEMMA AnchorInit == Init => IInv
<1> SUFFICES ASSUME Init PROVE IInv
  OBVIOUS
<1>1. TypeOK
  BY RunAssumption DEF Init, TypeOK
<1>2. CallsCounted
  BY DEF Init, CallsCounted
<1>3. PartOK /\ BoundInv /\ GateFirst
  BY DEF Init, PartOK, BoundInv, GateFirst, Writing, AtInstance, Bound
<1>4. InstanceInv /\ ResumableOnceLearned /\ ResultsOfOneConfig /\ VerdictInv
  BY DEF Init, InstanceInv, ResumableOnceLearned, ResultsOfOneConfig, VerdictInv, AtInstance,
         Asking, Writing, SummaryOfResults
<1> QED BY <1>1, <1>2, <1>3, <1>4 DEF IInv

LEMMA AnchorNext == IInv /\ [Next]_vars => IInv'
<1> SUFFICES ASSUME IInv, [Next]_vars PROVE IInv'
  OBVIOUS
<1> USE RunAssumption, NoneIsFresh
<1> USE DEF IInv, TypeOK, PartOK, BoundInv, GateFirst, InstanceInv, ResumableOnceLearned,
            ResultsOfOneConfig, CallsCounted, VerdictInv, SummaryOfResults,
            Writing, AtInstance, Asking, Bound, files, world
<1>1. CASE UNCHANGED vars
  BY <1>1 DEF vars, Pending
<1>2. CASE Start
  BY <1>2 DEF Start, NoPartialFiles, Isolated, BuildRunManifest, Pending
<1>3. CASE FreezeManifest
  BY <1>3 DEF FreezeManifest, Write, BuildRunManifest, Pending
<1>4. CASE LoadLifecycle
  BY <1>4 DEF LoadLifecycle, Write, Pending
<1>5. CASE SuiteCase
  BY <1>5 DEF SuiteCase, Write, Pending
<1>6. CASE SuiteFails
  BY <1>6 DEF SuiteFails, Write, Pending
<1>7. CASE SuitePasses
  BY <1>7 DEF SuitePasses, Write, Pending
<1>8. CASE NextInstance
  BY <1>8 DEF NextInstance, Write, Pending, Instances, Failure
<1>9. CASE ReplayHistory
  BY <1>9 DEF ReplayHistory, Pending
<1>10. CASE SelectOnce
  BY <1>10 DEF SelectOnce, Pending
<1>11. CASE InstanceFails
  BY <1>11 DEF InstanceFails, FreezeFailure, Failure, Write, Pending
<1>12. CASE AnswerArm
  <2> DEFINE mode == FirstArm(cur.inst, ToSet(Modes) \ DOMAIN cur.arms)
             request == AnswerRequest(mode)
  <2>1. CASE Cached(request) /\ UseAnswer(mode, cache[request]) /\ UNCHANGED <<files, world>>
    BY <1>12, <2>1 DEF AnswerArm, UseAnswer, FreezeFailure, Failure, Write, Pending
  <2>2. CASE Buy(request, Replies[cur.inst])
    <3> HIDE DEF request
    <3> QED BY <1>12, <2>2 DEF AnswerArm, Buy, Write, Pending, CountCall, With, Cached
  <2> QED BY <1>12, <2>1, <2>2 DEF AnswerArm
<1>13. CASE JudgeArm
  BY <1>13 DEF JudgeArm, UseVerdict, FreezeFailure, Failure, Write, Pending, Buy, CountCall, With, Cached
<1>14. CASE BeginJudging
  BY <1>14 DEF BeginJudging, Pending
<1>15. CASE FreezeResult
  BY <1>15 DEF FreezeResult, Write, Pending
<1>16. CASE VerifiedSummary
  BY <1>16 DEF VerifiedSummary, InputsUnchanged, BuildRunManifest, Write, Pending
<1>17. CASE Replace
  <2> USE DEF Replace, Pending
  <2>1. CASE part.file = "manifest"
    BY <1>17, <2>1
  <2>2. CASE part.file = "case"
    BY <1>17, <2>2
  <2>3. CASE part.file = "lifecycle"
    BY <1>17, <2>3
  <2>4. CASE part.file = "result"
    BY <1>17, <2>4
  <2>5. CASE part.file = "summary"
    BY <1>17, <2>5
  <2>6. CASE part.file = "cache"
    BY <1>17, <2>6 DEF With
  <2> QED BY <1>17, <2>1, <2>2, <2>3, <2>4, <2>5, <2>6
<1>18. CASE RemovePartial
  BY <1>18 DEF RemovePartial, Pending
<1>19. CASE Crash
  BY <1>19 DEF Crash, Pending
<1>20. CASE Drift
  BY <1>20 DEF Drift, Pending
<1> QED BY <1>1, <1>2, <1>3, <1>4, <1>5, <1>6, <1>7, <1>8, <1>9, <1>10, <1>11, <1>12, <1>13,
           <1>14, <1>15, <1>16, <1>17, <1>18, <1>19, <1>20 DEF Next, Step

\* The invariant holds in every reachable state.
LEMMA AnchorInvariant == Spec => []IInv
BY AnchorInit, AnchorNext, PTL DEF Spec

-----------------------------------------------------------------------------
(* Theorems *)

\* An output directory can be resumed wherever the Harness is killed: run_live freezes
\* the manifest before Core learns anything, execute_dev adds results under the bound
\* configuration only, and CachedTextModel pays again only for a reply lost in a crash.
THEOREM DirectoryCorrect == Spec => []DirectoryInv
<1>1. IInv => DirectoryInv
  <2> SUFFICES ASSUME IInv PROVE RepliesBoughtOnce
    BY DEF IInv, DirectoryInv
  <2> QED BY DEF IInv, BoundInv, CallsCounted, RepliesBoughtOnce
<1> QED BY AnchorInvariant, <1>1, PTL

\* The verdict verified_summary leaves on disk is the decision of the complete cohort
\* that is on disk, whichever command wrote it and whatever crashed before.
THEOREM VerdictOfCohort == Spec => []SummaryOfResults
<1>1. IInv => SummaryOfResults
  BY DEF IInv, VerdictInv
<1> QED BY AnchorInvariant, <1>1, PTL

-----------------------------------------------------------------------------
(* The arms of one Select *)

\* What build_seed_contexts makes of a Select is a paired comparison, and a Disposition
\* that is not shown leaves the two memory arms with the same text.
LEMMA ArmsArePaired ==
    ASSUME NEW chosen, Selectable(chosen),
           NEW contexts, contexts = BuildSeedContexts(chosen)
    PROVE  /\ ValidatedArms([mode \in ToSet(Modes) |-> [context |-> contexts[mode]]])
           /\ contexts[Seed].dispositions = {} => contexts[Seed].text = contexts[Base].text
           /\ contexts[Seed].dispositions # {} => chosen.dispositions # <<>>
<1> DEFINE a == chosen.recollections
           b == chosen.dispositions
           S == ToSet(a) \cup ToSet(b)
           shown == [mode \in ToSet(Modes) |-> [context |-> contexts[mode]]]
<1>1. ToSet(Modes) = {"none", Base, Seed} /\ "none" # Base /\ "none" # Seed /\ Base # Seed
  BY DEF ToSet, Modes, Base, Seed
<1>2. a \in Seq(S) /\ b \in Seq(S) /\ Renderable(a \o b)
  BY DEF Selectable
<1>3. /\ ArmItems(chosen, "none") = <<>> /\ ArmItems(chosen, Base) = a
      /\ ArmItems(chosen, Seed) = a \o b
  BY DEF ArmItems, Base, Seed
<1> DEFINE none == Refs(Render(<<>>))
           few == Refs(Render(a))
           all == Refs(Render(a \o b))
           given == <<VisibleRefs(a), VisibleRefs(b)>>
<1>4. /\ contexts["none"] = [text |-> none, selected |-> given,
                             recollections |-> VisibleRefs(a) \cap ToSet(none),
                             dispositions |-> VisibleRefs(b) \cap ToSet(none)]
      /\ contexts[Base] = [text |-> few, selected |-> given,
                           recollections |-> VisibleRefs(a) \cap ToSet(few),
                           dispositions |-> VisibleRefs(b) \cap ToSet(few)]
      /\ contexts[Seed] = [text |-> all, selected |-> given,
                           recollections |-> VisibleRefs(a) \cap ToSet(all),
                           dispositions |-> VisibleRefs(b) \cap ToSet(all)]
  BY <1>1, <1>3 DEF BuildSeedContexts, Among
<1>5. /\ ToSet(few) \subseteq VisibleRefs(a) /\ VisibleRefs(a) \cap VisibleRefs(b) = {}
      /\ VisibleRefs(a) \cap ToSet(all) = ToSet(few)
      /\ VisibleRefs(b) \cap ToSet(all) = {} => all = few
      /\ none = <<>>
  <2> HIDE DEF S
  <2> QED BY <1>2, ShownTogether, ShownOfNothing
<1>6. b = <<>> => VisibleRefs(b) = {}
  BY DEF VisibleRefs, VisibleAt
<1>7. /\ DOMAIN shown = ToSet(Modes)
      /\ \A mode \in ToSet(Modes) : shown[mode].context = contexts[mode]
  OBVIOUS
<1> HIDE DEF none, few, all, given, shown, a, b
<1>8. ValidatedArms(shown)
  <2>1. given[1] = VisibleRefs(a) /\ given[2] = VisibleRefs(b)
    BY DEF given
  <2>2. \A mode \in ToSet(Modes) : shown[mode].context.selected = given
    BY <1>1, <1>4, <1>7
  <2>3. /\ shown["none"].context.text = <<>>
        /\ shown[Base].context.dispositions = {}
        /\ shown[Seed].context.recollections = shown[Base].context.recollections
        /\ shown[Base].context.recollections \subseteq VisibleRefs(a)
        /\ shown[Seed].context.dispositions \subseteq VisibleRefs(b)
    <3>1. /\ shown["none"].context.text = none
          /\ shown[Base].context.dispositions = VisibleRefs(b) \cap ToSet(few)
          /\ shown[Seed].context.dispositions = VisibleRefs(b) \cap ToSet(all)
          /\ shown[Base].context.recollections = VisibleRefs(a) \cap ToSet(few)
          /\ shown[Seed].context.recollections = VisibleRefs(a) \cap ToSet(all)
      BY <1>1, <1>4, <1>7
    <3> QED BY <1>5, <3>1
  <2> QED BY <1>1, <1>7, <2>1, <2>2, <2>3 DEF ValidatedArms
<1> QED BY <1>4, <1>5, <1>6, <1>8 DEF shown, b

-----------------------------------------------------------------------------
(***************************************************************************)
(* The arms of a result.  What an arm says is what the cache holds for the *)
(* text it was shown, and entries of the cache never change: arms that     *)
(* were shown the same text cannot differ.                                 *)
(***************************************************************************)
\* The reply on disk for a request.
Paid(table, request, reply) == request \in DOMAIN table /\ table[request] = reply

Answer(table, i, arm) == Paid(table, <<"answer", i, arm.context.text>>, arm.output)
Verdict(table, i, arm) == arm.score \in Scores /\ Paid(table, <<"judge", i, arm.output>>, arm.score)

\* The arms of instance i under the context Core has frozen for it.
ArmsOf(table, context, i, arms) ==
    \A mode \in DOMAIN arms :
        /\ DOMAIN arms[mode] = {"context", "output", "score"}
        /\ arms[mode].context = BuildSeedContexts(context.selected)[mode]
        /\ Answer(table, i, arms[mode])
        /\ i \in Trajectory => arms[mode].output \in Options

NotJudged(arms) == \A mode \in DOMAIN arms : arms[mode].score = "none"
Judgements(table, i, arms) == \A mode \in DOMAIN arms : Verdict(table, i, arms[mode])

ResultOf(table, context, i, result) ==
    result.error = "none" =>
        /\ context \in Contexts[i]
        /\ DOMAIN result.arms = ToSet(Modes)
        /\ ArmsOf(table, context, i, result.arms)
        /\ result.active = context.active
        /\ \/ i \in Trajectory /\ NotJudged(result.arms)
           \/ i \in Behavior /\ Judgements(table, i, result.arms)

ArmsInv ==
    /\ Writing("cache") => part.key \notin DOMAIN cache
    /\ pc \in {"replay", "select"} => DOMAIN cur.arms = {}
    /\ Asking => /\ cur.contexts = BuildSeedContexts(selected[cur.inst].selected)
                 /\ ArmsOf(cache, selected[cur.inst], cur.inst, cur.arms)
                 /\ \A mode \in DOMAIN cur.arms :
                       cur.arms[mode].score = "none" \/ Verdict(cache, cur.inst, cur.arms[mode])
    /\ pc = "answer" \/ (Writing("cache") /\ part.then = "answer") => NotJudged(cur.arms)
    /\ pc = "judge" \/ (Writing("cache") /\ part.then = "judge") =>
          DOMAIN cur.arms = ToSet(Modes) /\ cur.inst \in Behavior
    /\ Writing("result") => ResultOf(cache, selected[part.key], part.key, part.value)
    /\ \A i \in Instances : results[i] # None => ResultOf(cache, selected[i], i, results[i])

LEMMA ArmsInit == Init => ArmsInv
BY DEF Init, ArmsInv, Writing, Asking, Instances

\* What was paid for stays when the cache gets another entry.
LEMMA PaidIsKept ==
    ASSUME NEW table, NEW key, NEW value, key \notin DOMAIN table,
           NEW request, NEW reply, Paid(table, request, reply)
    PROVE  Paid(With(table, key, value), request, reply)
BY DEF Paid, With

\* So the arms of an instance whose selection does not change stay what they are.
LEMMA ArmsOfKept ==
    ASSUME NEW table, NEW key, NEW value, key \notin DOMAIN table,
           NEW context, NEW i, NEW arms, ArmsOf(table, context, i, arms)
    PROVE  ArmsOf(With(table, key, value), context, i, arms)
BY PaidIsKept DEF ArmsOf, Answer

LEMMA ResultOfKept ==
    ASSUME NEW table, NEW key, NEW value, key \notin DOMAIN table,
           NEW context, NEW i, NEW result, ResultOf(table, context, i, result)
    PROVE  ResultOf(With(table, key, value), context, i, result)
BY PaidIsKept, ArmsOfKept DEF ResultOf, Judgements, Verdict

LEMMA ArmsNext == IInv /\ ArmsInv /\ [Next]_vars => ArmsInv'
<1> SUFFICES ASSUME IInv, ArmsInv, [Next]_vars PROVE ArmsInv'
  OBVIOUS
<1> USE DEF ArmsInv, Writing, Asking, AtInstance, files, world
<1>0. InstanceInv
  BY DEF IInv
<1>1. CASE UNCHANGED vars
  BY <1>1 DEF vars
<1>2. CASE Start \/ FreezeManifest \/ LoadLifecycle \/ SuiteCase \/ SuiteFails \/ SuitePasses
  BY <1>2 DEF Start, FreezeManifest, LoadLifecycle, SuiteCase, SuiteFails, SuitePasses, Write
<1>3. CASE NextInstance
  BY <1>3 DEF NextInstance, Write, ResultOf, Failure, Harness
<1>4. CASE ReplayHistory
  BY <1>4 DEF ReplayHistory
<1>5. CASE SelectOnce
  BY <1>0, <1>5 DEF SelectOnce, InstanceInv, ArmsOf, NotJudged
<1>6. CASE InstanceFails
  BY <1>6 DEF InstanceFails, FreezeFailure, Write, ResultOf, Failure, Harness
<1>7. CASE AnswerArm
  <2> DEFINE mode == FirstArm(cur.inst, ToSet(Modes) \ DOMAIN cur.arms)
             request == AnswerRequest(mode)
  <2>1. CASE Cached(request) /\ UseAnswer(mode, cache[request]) /\ UNCHANGED <<files, world>>
    <3>1. CASE cur.inst \in Trajectory /\ cache[request] \notin Options
      BY <1>7, <2>1, <3>1
         DEF AnswerArm, UseAnswer, FreezeFailure, Failure, Harness, Write, ResultOf
    <3>2. CASE ~(cur.inst \in Trajectory /\ cache[request] \notin Options)
      <4> DEFINE arm == [context |-> cur.contexts[mode], output |-> cache[request], score |-> "none"]
      <4>1. /\ cur' = [cur EXCEPT !.arms = With(cur.arms, mode, arm)]
            /\ pc' = pc /\ part' = part /\ cache' = cache /\ selected' = selected
            /\ results' = results /\ pc = "answer"
        BY <1>7, <2>1, <3>2 DEF AnswerArm, UseAnswer
      <4>2. /\ cur'.inst = cur.inst /\ cur'.contexts = cur.contexts
            /\ cur'.arms = With(cur.arms, mode, arm)
        BY <1>0, <4>1 DEF InstanceInv
      <4>3. Answer(cache, cur.inst, arm)
        BY <2>1 DEF Answer, Paid, Cached, AnswerRequest
      <4>4. cur.contexts[mode] = BuildSeedContexts(selected[cur.inst].selected)[mode]
        BY <4>1
      <4> HIDE DEF mode, request
      <4>5. /\ ArmsOf(cache, selected[cur.inst], cur.inst, With(cur.arms, mode, arm))
            /\ NotJudged(With(cur.arms, mode, arm))
        BY <3>2, <4>1, <4>3, <4>4 DEF ArmsOf, NotJudged, With
      <4> QED BY <4>1, <4>2, <4>5 DEF NotJudged
    <3> QED BY <3>1, <3>2
  <2>2. CASE Buy(request, Replies[cur.inst])
    BY <1>7, <2>2 DEF AnswerArm, Buy, Write, Cached
  <2> QED BY <1>7, <2>1, <2>2 DEF AnswerArm
<1>8. CASE JudgeArm
  <2> DEFINE mode == FirstArm(cur.inst, {m \in ToSet(Modes) : cur.arms[m].score = "none"})
             request == JudgeRequest(mode)
  <2>1. CASE Cached(request) /\ UseVerdict(mode, cache[request]) /\ UNCHANGED <<files, world>>
    <3>1. CASE cache[request] \notin Scores
      BY <1>8, <2>1, <3>1
         DEF JudgeArm, UseVerdict, FreezeFailure, Failure, Judge, Write, ResultOf
    <3>2. CASE cache[request] \in Scores
      <4> DEFINE arms == [cur.arms EXCEPT ![mode].score = cache[request]]
      <4>1. /\ cur' = [cur EXCEPT !.arms[mode].score = cache[request]]
            /\ pc' = pc /\ part' = part /\ cache' = cache /\ selected' = selected
            /\ results' = results /\ pc = "judge"
        BY <1>8, <2>1, <3>2 DEF JudgeArm, UseVerdict
      <4>2. cur'.inst = cur.inst /\ cur'.contexts = cur.contexts /\ cur'.arms = arms
        BY <1>0, <4>1 DEF InstanceInv
      <4>3. mode \in DOMAIN cur.arms =>
              Paid(cache, <<"judge", cur.inst, cur.arms[mode].output>>, cache[request])
        BY <2>1 DEF Paid, Cached, JudgeRequest
      <4> HIDE DEF mode, request
      <4>4. /\ DOMAIN arms = DOMAIN cur.arms
            /\ \A m \in DOMAIN arms :
                  /\ DOMAIN arms[m] = DOMAIN cur.arms[m]
                  /\ arms[m].context = cur.arms[m].context /\ arms[m].output = cur.arms[m].output
                  /\ arms[m].score = IF m = mode THEN cache[request] ELSE cur.arms[m].score
        BY <4>1 DEF ArmsOf
      <4> HIDE DEF arms
      <4>5. /\ ArmsOf(cache, selected[cur.inst], cur.inst, arms)
            /\ \A m \in DOMAIN arms : arms[m].score = "none" \/ Verdict(cache, cur.inst, arms[m])
        BY <3>2, <4>1, <4>3, <4>4 DEF ArmsOf, Verdict, Answer
      <4> QED BY <4>1, <4>2, <4>4, <4>5
    <3> QED BY <3>1, <3>2
  <2>2. CASE Buy(request, Verdicts)
    BY <1>8, <2>2 DEF JudgeArm, Buy, Write, Cached
  <2> QED BY <1>8, <2>1, <2>2 DEF JudgeArm
<1>9. CASE BeginJudging
  BY <1>9 DEF BeginJudging, Answered
<1>10. CASE FreezeResult
  BY <1>0, <1>10 DEF FreezeResult, Write, Answered, Judged, ResultOf, InstanceInv, Judgements
<1>11. CASE VerifiedSummary
  BY <1>11 DEF VerifiedSummary, Write
<1>12. CASE Replace
  <2>1. CASE part.file = "cache"
    <3>1. /\ cache' = With(cache, part.key, part.value) /\ part.key \notin DOMAIN cache
          /\ results' = results /\ selected' = selected /\ cur' = cur
          /\ pc' = part.then /\ pc' \in {"answer", "judge"}
      BY <1>12, <2>1 DEF Replace, IInv, PartOK
    <3>2. /\ ArmsOf(cache', selected[cur.inst], cur.inst, cur.arms)
          /\ \A i \in Instances : results[i] # None => ResultOf(cache', selected[i], i, results[i])
      BY <1>12, <2>1, <3>1, ArmsOfKept, ResultOfKept DEF Replace
    <3>3. \A mode \in DOMAIN cur.arms :
            cur.arms[mode].score = "none" \/ Verdict(cache', cur.inst, cur.arms[mode])
      BY <1>12, <2>1, <3>1, PaidIsKept DEF Replace, Verdict
    <3> QED BY <1>12, <2>1, <3>1, <3>2, <3>3 DEF Replace
  <2>2. CASE part.file = "result"
    BY <1>0, <1>12, <2>2 DEF Replace, InstanceInv, IInv, PartOK
  <2>3. CASE part.file \notin {"cache", "result"}
    BY <1>12, <2>3 DEF Replace, IInv, PartOK, TypeOK
  <2> QED BY <2>1, <2>2, <2>3
<1>13. CASE RemovePartial \/ Crash \/ Drift
  BY <1>13 DEF RemovePartial, Crash, Drift
<1> QED BY <1>1, <1>2, <1>3, <1>4, <1>5, <1>6, <1>7, <1>8, <1>9, <1>10, <1>11, <1>12, <1>13
        DEF Next, Step

LEMMA ArmsInvariant == Spec => []ArmsInv
BY AnchorInvariant, ArmsInit, ArmsNext, PTL DEF Spec

\* Arms that were shown the same text say the same and are judged alike.
AlikeArmsAgree ==
    \A i \in Instances : results[i] # None /\ results[i].error = "none" =>
        LET arms == results[i].arms IN
        \A m, n \in ToSet(Modes) :
            arms[m].context.text = arms[n].context.text =>
                arms[m].output = arms[n].output /\ arms[m].score = arms[n].score

\* CachedTextModel gives identical arms one reply, before and after a restart: no result
\* has a difference between two arms that were shown the same text.
THEOREM AlikeArms == Spec => []AlikeArmsAgree
<1>1. ArmsInv => AlikeArmsAgree
  <2> SUFFICES ASSUME ArmsInv,
                      NEW i \in Instances, results[i] # None, results[i].error = "none",
                      NEW m \in ToSet(Modes), NEW n \in ToSet(Modes),
                      results[i].arms[m].context.text = results[i].arms[n].context.text
               PROVE  /\ results[i].arms[m].output = results[i].arms[n].output
                      /\ results[i].arms[m].score = results[i].arms[n].score
    BY DEF AlikeArmsAgree
  <2>1. m \in DOMAIN results[i].arms /\ n \in DOMAIN results[i].arms
    BY DEF ArmsInv, ResultOf
  <2>2. ArmsOf(cache, selected[i], i, results[i].arms)
    BY DEF ArmsInv, ResultOf
  <2>3. results[i].arms[m].output = results[i].arms[n].output
    BY <2>1, <2>2 DEF ArmsOf, Answer, Paid
  <2>4. NotJudged(results[i].arms) \/ Judgements(cache, i, results[i].arms)
    BY DEF ArmsInv, ResultOf
  <2> QED BY <2>1, <2>3, <2>4 DEF NotJudged, Judgements, Verdict, Paid
<1> QED BY ArmsInvariant, <1>1, PTL

\* So the Seed gets credit or blame only where build_seed_contexts rendered it.
THEOREM CreditIsRendered == Spec => []CreditNeedsRendering
<1>1. ArmsInv /\ AlikeArmsAgree => CreditNeedsRendering
  <2> SUFFICES ASSUME ArmsInv, AlikeArmsAgree,
                      NEW i \in Instances, results[i] # None, results[i].error = "none",
                      results[i].arms[Seed].context.dispositions = {}
               PROVE  /\ results[i].arms[Seed].output = results[i].arms[Base].output
                      /\ results[i].arms[Seed].score = results[i].arms[Base].score
    BY DEF CreditNeedsRendering
  <2> DEFINE arms == results[i].arms
             contexts == BuildSeedContexts(selected[i].selected)
  <2>1. Seed \in ToSet(Modes) /\ Base \in ToSet(Modes)
    BY DEF Seed, Base, Modes, ToSet
  <2>2. /\ arms[Seed].context = contexts[Seed] /\ arms[Base].context = contexts[Base]
        /\ Selectable(selected[i].selected)
    BY <2>1, RunAssumption DEF ArmsInv, ResultOf, ArmsOf
  <2>3. contexts[Seed].text = contexts[Base].text
    <3> HIDE DEF contexts
    <3>1. contexts[Seed].dispositions = {}
      BY <2>2
    <3> QED BY <2>2, <3>1, ArmsArePaired DEF contexts
  <2> QED BY <2>1, <2>2, <2>3 DEF AlikeArmsAgree
<1>2. Spec => []AlikeArmsAgree
  BY AlikeArms
<1> QED BY ArmsInvariant, <1>1, <1>2, PTL

\* What the Harness generates passes _validated_arms of the summary.
THEOREM GeneratedArms == Spec => []GeneratedArmsValidate
<1>1. ArmsInv => GeneratedArmsValidate
  <2> SUFFICES ASSUME ArmsInv,
                      NEW i \in Instances, results[i] # None, results[i].error = "none"
               PROVE  ValidatedArms(results[i].arms)
    BY DEF GeneratedArmsValidate
  <2> DEFINE arms == results[i].arms
             contexts == BuildSeedContexts(selected[i].selected)
             shown == [mode \in ToSet(Modes) |-> [context |-> contexts[mode]]]
  <2>1. Seed \in ToSet(Modes) /\ Base \in ToSet(Modes) /\ "none" \in ToSet(Modes)
    BY DEF Seed, Base, Modes, ToSet
  <2>2. DOMAIN arms = ToSet(Modes) /\ \A mode \in ToSet(Modes) : arms[mode].context = contexts[mode]
    BY DEF ArmsInv, ResultOf, ArmsOf
  <2>3. ValidatedArms(shown)
    <3>1. Selectable(selected[i].selected)
      BY RunAssumption DEF ArmsInv, ResultOf
    <3> QED BY <3>1, ArmsArePaired
  <2>4. \A mode \in ToSet(Modes) : shown[mode].context = contexts[mode]
    OBVIOUS
  <2> HIDE DEF arms, contexts, shown
  <2>5. \A mode \in ToSet(Modes) : arms[mode].context = shown[mode].context
    BY <2>2, <2>4
  <2>6. DOMAIN shown = ToSet(Modes)
    BY DEF shown
  <2>7. ValidatedArms(arms)
    BY <2>1, <2>2, <2>3, <2>5, <2>6 DEF ValidatedArms
  <2> QED BY <2>7 DEF arms
<1> QED BY ArmsInvariant, <1>1, PTL

-----------------------------------------------------------------------------
(* The bottleneck *)

\* A stage no instance of some dimension reaches.
Missing(rs, stage) ==
    \E d \in Dimensions : \A b \in Behavior : Dimension[b] = d => ~Reached(rs[b], stage)

LEMMA FirstMissing ==
    ASSUME NEW rs, NEW i \in 1 .. 4, Missing(rs, Stages[i])
    PROVE  \E k \in 1 .. 4 : Missing(rs, Stages[k]) /\ \A j \in 1 .. k - 1 : ~Missing(rs, Stages[j])
<1>1. CASE Missing(rs, Stages[1])
  BY <1>1
<1>2. CASE ~Missing(rs, Stages[1]) /\ Missing(rs, Stages[2])
  BY <1>2
<1>3. CASE ~Missing(rs, Stages[1]) /\ ~Missing(rs, Stages[2]) /\ Missing(rs, Stages[3])
  BY <1>3
<1>4. CASE ~Missing(rs, Stages[1]) /\ ~Missing(rs, Stages[2]) /\ ~Missing(rs, Stages[3])
           /\ Missing(rs, Stages[4])
  BY <1>4
<1> QED BY <1>1, <1>2, <1>3, <1>4

\* _causal_decision names a stage that is missed and none before it, or none is missed.
LEMMA CausalCases ==
    ASSUME NEW rs
    PROVE  \/ \E k \in 1 .. 4 : /\ CausalDecision(rs) = Bottleneck(Stages[k])
                                /\ Missing(rs, Stages[k])
                                /\ \A j \in 1 .. k - 1 : ~Missing(rs, Stages[j])
           \/ /\ CausalDecision(rs) =
                    IF (\A d \in Dimensions : SeedDelta(rs, d) > 0) /\ TrajectoryImproved(rs)
                    THEN HoldoutReady ELSE Bottleneck("score_improved")
              /\ \A k \in 1 .. 4 : ~Missing(rs, Stages[k])
<1>1. DOMAIN Stages = 1 .. 4
  BY DEF Stages
<1> DEFINE first == CHOOSE i \in DOMAIN Stages :
                       Missing(rs, Stages[i]) /\ \A j \in 1 .. i - 1 : ~Missing(rs, Stages[j])
<1>2. CausalDecision(rs) =
        IF \E i \in DOMAIN Stages : Missing(rs, Stages[i]) THEN Bottleneck(Stages[first])
        ELSE IF (\A d \in Dimensions : SeedDelta(rs, d) > 0) /\ TrajectoryImproved(rs)
        THEN HoldoutReady
        ELSE Bottleneck("score_improved")
  BY DEF CausalDecision, Missing
<1>3. CASE \E i \in 1 .. 4 : Missing(rs, Stages[i])
  BY <1>1, <1>2, <1>3, FirstMissing
<1>4. CASE ~\E i \in 1 .. 4 : Missing(rs, Stages[i])
  BY <1>1, <1>2, <1>4
<1> QED BY <1>3, <1>4

\* _causal_decision names the earliest stage that some dimension never reaches.
THEOREM EarliestBottleneck == Spec => []BottleneckIsEarliest
<1>1. SummaryOfResults => BottleneckIsEarliest
  <2> SUFFICES ASSUME SummaryOfResults, summary # None
               PROVE  BottleneckIsEarliest
    BY DEF BottleneckIsEarliest
  <2>1. summary \in {Bottleneck(Harness), Bottleneck(Judge), CausalDecision(results)}
    BY DEF SummaryOfResults, Decision
  <2>2. /\ Stages[1] = "formed" /\ Stages[2] = "selected"
        /\ Stages[3] = "rendered" /\ Stages[4] = "behavior_changed"
    BY DEF Stages
  <2>3. CASE summary \in {Bottleneck(Harness), Bottleneck(Judge), HoldoutReady}
    BY <2>3 DEF Bottleneck, HoldoutReady, Harness, Judge, BottleneckIsEarliest
  <2>4. ASSUME NEW k \in 1 .. 4, summary = Bottleneck(Stages[k]), Missing(results, Stages[k]),
               \A j \in 1 .. k - 1 : ~Missing(results, Stages[j])
        PROVE  BottleneckIsEarliest
    BY <2>2, <2>4 DEF Bottleneck, Missing, BottleneckIsEarliest
  <2>5. CASE summary = Bottleneck("score_improved") /\ ~Missing(results, Stages[4])
    BY <2>2, <2>5 DEF Bottleneck, Missing, BottleneckIsEarliest
  <2> QED BY <2>1, <2>3, <2>4, <2>5, CausalCases
<1> QED BY VerdictOfCohort, <1>1, PTL

\* A cohort is called ready for holdout only if its gate passed, no instance failed, the
\* Seed raised the score of every dimension and set at least one option right.
ReadyIsEarned ==
    summary # None /\ summary = HoldoutReady =>
        /\ lifecycle = "passed" /\ Failures(results) = {}
        /\ \A d \in Dimensions : SeedDelta(results, d) > 0
        /\ TrajectoryImproved(results)

\* summarize_anchor_v0 and _causal_decision let a cohort pass for nothing less.
THEOREM HoldoutIsEarned == Spec => []ReadyIsEarned
<1>1. IInv => ReadyIsEarned
  <2> SUFFICES ASSUME IInv, summary # None, summary = HoldoutReady
               PROVE  ReadyIsEarned
    BY DEF ReadyIsEarned
  <2>1. Pending(Instances) = {} /\ HoldoutReady = Decision(lifecycle, results)
    BY DEF IInv, VerdictInv, SummaryOfResults
  <2>2. \A stage : HoldoutReady # Bottleneck(stage)
    BY DEF HoldoutReady, Bottleneck
  <2>3. /\ lifecycle = "passed" /\ Harness \notin Failures(results)
        /\ Judge \notin Failures(results) /\ CausalDecision(results) = HoldoutReady
    BY <2>1, <2>2 DEF Decision
  <2>4. Failures(results) = {}
    BY <2>1, <2>3 DEF Failures, Pending, IInv, TypeOK
  <2>5. (\A d \in Dimensions : SeedDelta(results, d) > 0) /\ TrajectoryImproved(results)
    BY <2>2, <2>3 DEF CausalDecision
  <2> QED BY <2>3, <2>4, <2>5 DEF ReadyIsEarned
<1> QED BY AnchorInvariant, <1>1, PTL

-----------------------------------------------------------------------------
(* The verdict as a whole *)

\* A dimension that gained has an instance that got past every stage: a score differs only
\* where the Seed was shown, and what is shown was selected and had been formed.
LEMMA GainWasShown ==
    ASSUME ArmsInv, CreditNeedsRendering, Pending(Instances) = {}, Failures(results) = {},
           NEW d \in Dimensions, SeedDelta(results, d) > 0
    PROVE  \E b \in Behavior : /\ Dimension[b] = d
                               /\ \A k \in 1 .. 4 : Reached(results[b], Stages[k])
<1> DEFINE S == {b \in Behavior : Dimension[b] = d}
           points == [b \in Behavior |-> Points(results, b)]
<1>1. \A b \in Behavior : /\ results[b] # None /\ results[b].error = "none"
                          /\ ResultOf(cache, selected[b], b, results[b])
                          /\ \A mode \in ToSet(Modes) : results[b].arms[mode].score \in Scores
  <2> SUFFICES ASSUME NEW b \in Behavior
               PROVE  /\ results[b] # None /\ results[b].error = "none"
                      /\ ResultOf(cache, selected[b], b, results[b])
                      /\ \A mode \in ToSet(Modes) : results[b].arms[mode].score \in Scores
    OBVIOUS
  <2>1. b \in Instances /\ b \notin Trajectory
    BY CohortAssumption DEF Instances
  <2>2. results[b] # None /\ results[b].error = "none" /\ ResultOf(cache, selected[b], b, results[b])
    BY <2>1 DEF Pending, Failures, ArmsInv
  <2> QED BY <2>1, <2>2 DEF ResultOf, Judgements, Verdict
<1>2. Seed \in ToSet(Modes) /\ Base \in ToSet(Modes)
  BY DEF Seed, Base, Modes, ToSet
<1>3. \A x \in Scores : ScoreOf[x] \in Int
  BY DEF Scores, ScoreOf
<1>4. \A b \in S : points[b] \in Int
  BY <1>1, <1>2, <1>3 DEF Points
<1>5. PICK b \in S : points[b] > 0
  <2>1. IsFiniteSet(S)
    BY CohortAssumption, FS_Subset
  <2>2. SumFunctionOnSet(points, S) > 0
    BY DEF SeedDelta
  <2> HIDE DEF S, points
  <2> QED BY <1>4, <2>1, <2>2, SumIs
<1>6. results[b].arms[Seed].score # results[b].arms[Base].score
  BY <1>1, <1>2, <1>3, <1>5 DEF Points
<1> DEFINE shown == results[b].arms[Seed].context
           contexts == BuildSeedContexts(selected[b].selected)
<1>7. shown.dispositions # {}
  BY <1>1, <1>6 DEF CreditNeedsRendering, Instances
<1>8. /\ selected[b] \in Contexts[b] /\ results[b].active = selected[b].active
      /\ shown = contexts[Seed]
  BY <1>1, <1>2 DEF ResultOf, ArmsOf
<1>9. /\ Selectable(selected[b].selected) /\ selected[b].active \in Nat
      /\ selected[b].selected.dispositions # <<>> => selected[b].active > 0
  BY <1>8, RunAssumption DEF Instances
<1>10. /\ shown.selected[2] # {} /\ selected[b].selected.dispositions # <<>>
  <2> HIDE DEF contexts
  <2>1. /\ ValidatedArms([mode \in ToSet(Modes) |-> [context |-> contexts[mode]]])
        /\ contexts[Seed].dispositions # {} => selected[b].selected.dispositions # <<>>
    BY <1>9, ArmsArePaired DEF contexts
  <2>2. /\ contexts[Seed].selected = contexts["none"].selected
        /\ contexts[Seed].dispositions \subseteq contexts["none"].selected[2]
    BY <1>2, <2>1 DEF ValidatedArms, Modes, ToSet
  <2> QED BY <1>7, <1>8, <2>1, <2>2
<1>11. \A stage \in {"formed", "selected", "rendered", "behavior_changed"} : Reached(results[b], stage)
  BY <1>6, <1>7, <1>8, <1>9, <1>10 DEF Reached
<1> QED BY <1>11 DEF Stages

\* So nothing keeps a cohort that improved from being ready.
LEMMA ImprovementIsReady ==
    ASSUME ArmsInv, CreditNeedsRendering, GeneratedArmsValidate, Pending(Instances) = {},
           lifecycle = "passed", Failures(results) = {},
           \A d \in Dimensions : SeedDelta(results, d) > 0, TrajectoryImproved(results)
    PROVE  Decision(lifecycle, results) = HoldoutReady
<1>1. \A i \in Instances : /\ results[i] # None /\ results[i].error = "none"
                           /\ ResultOf(cache, selected[i], i, results[i])
  BY DEF Pending, Failures, ArmsInv
<1>2. \A i \in Instances : ValidatedArms(results[i].arms)
  BY <1>1 DEF GeneratedArmsValidate
<1>3. \A t \in Trajectory, mode \in ToSet(Modes) : results[t].arms[mode].output \in Options
  BY <1>1 DEF ResultOf, ArmsOf, Instances
<1>4. \A b \in Behavior, mode \in ToSet(Modes) : results[b].arms[mode].score \in Scores
  BY <1>1, CohortAssumption DEF ResultOf, Judgements, Verdict, Instances
<1>5. Decision(lifecycle, results) = CausalDecision(results)
  BY <1>2, <1>3, <1>4 DEF Decision
<1>6. \A k \in 1 .. 4 : ~Missing(results, Stages[k])
  BY GainWasShown DEF Missing
<1> QED BY <1>5, <1>6, CausalCases

\* summarize_anchor_v0 calls a cohort ready exactly if the Seed improved it: no stage of the
\* funnel stands in the way of a cohort whose scores went up.
THEOREM ReadyExactly == Spec => []ReadyIsImprovement
<1>1. ArmsInv /\ CreditNeedsRendering /\ GeneratedArmsValidate /\ SummaryOfResults /\ ReadyIsEarned
        => ReadyIsImprovement
  BY ImprovementIsReady DEF ReadyIsImprovement, ReadyIsEarned, SummaryOfResults
<1>2. Spec => []CreditNeedsRendering /\ []GeneratedArmsValidate
  BY CreditIsRendered, GeneratedArms
<1>3. Spec => []SummaryOfResults /\ []ReadyIsEarned
  BY VerdictOfCohort, HoldoutIsEarned
<1> QED BY ArmsInvariant, <1>1, <1>2, <1>3, PTL

\* The verdict of an ANCHOR evaluation is justified by the results on disk: they are paired
\* comparisons that credit only what was shown, it is the decision of the complete cohort,
\* ready exactly if the Seed improved it, and otherwise names the earliest bottleneck.
THEOREM VerdictIsJustified == Spec => []VerdictJustified
<1>1. CreditNeedsRendering /\ GeneratedArmsValidate /\ SummaryOfResults /\ ReadyIsImprovement
        /\ BottleneckIsEarliest => VerdictJustified
  BY DEF VerdictJustified
<1>2. Spec => []CreditNeedsRendering /\ []GeneratedArmsValidate
  BY CreditIsRendered, GeneratedArms
<1>3. Spec => []SummaryOfResults /\ []ReadyIsImprovement /\ []BottleneckIsEarliest
  BY VerdictOfCohort, ReadyExactly, EarliestBottleneck
<1> QED BY <1>1, <1>2, <1>3, PTL

===============================================================================
