---------------------------- MODULE AnchorEffect ----------------------------
(***************************************************************************)
(* summarize_anchor_v0: the one decision a complete ANCHOR cohort leads to *)
(* (eval/python: anchor_effect.py).  A result is a failure of a stage, or  *)
(* the three arms of its instance; a behavior arm also has the judge's     *)
(* score.                                                                  *)
(***************************************************************************)
EXTENDS SeedArms

CONSTANTS
    Trajectory,     \* instances with an option to choose
    Behavior,       \* instances with a response to judge
    Dimension,      \* [Behavior -> dimension]
    Correct         \* [Trajectory -> the correct option]

ASSUME CohortAssumption == IsFiniteSet(Behavior) /\ Trajectory \cap Behavior = {}

Instances == Trajectory \cup Behavior
Dimensions == {Dimension[b] : b \in Behavior}
Options == {"A", "B", "C", "D"}
Scores == {"0", "1", "2"}
ScoreOf == [t \in Scores |-> CASE t = "0" -> 0 [] t = "1" -> 1 [] t = "2" -> 2]

Harness == "data_isolation_or_harness"
Judge == "judge_contract"
Stages == <<"formed", "selected", "rendered", "behavior_changed">>

Bottleneck(stage) == [status |-> "bottleneck", bottleneck |-> stage]
HoldoutReady == [status |-> "holdout_ready", bottleneck |-> "none"]

\* The causal funnel of one behavior result: a stage counts only after the one before.
Reached(result, stage) ==
    LET seed == result.arms[Seed].context
        formed == result.active > 0
        selected == formed /\ seed.selected[2] # {}
        rendered == selected /\ seed.dispositions # {}
    IN  CASE stage = "formed" -> formed
          [] stage = "selected" -> selected
          [] stage = "rendered" -> rendered
          [] stage = "behavior_changed" ->
                rendered /\ result.arms[Seed].score # result.arms[Base].score

Points(results, b) ==
    ScoreOf[results[b].arms[Seed].score] - ScoreOf[results[b].arms[Base].score]

\* seed_delta of a dimension times its number of instances.
SeedDelta(results, d) ==
    SumFunctionOnSet([b \in Behavior |-> Points(results, b)],
                     {b \in Behavior : Dimension[b] = d})

Right(results, mode) == {t \in Trajectory : results[t].arms[mode].output = Correct[t]}

\* _trajectory_summary: not less accurate, and at least one answer set right.
TrajectoryImproved(results) ==
    /\ Cardinality(Right(results, Seed)) >= Cardinality(Right(results, Base))
    /\ Right(results, Seed) \ Right(results, Base) # {}

\* Variant: behaviors that got past every stage are enough.
CausalDecisionOfBehaviors(results) ==
    LET Missing(stage) ==
            \E d \in Dimensions :
                \A b \in Behavior : Dimension[b] = d => ~Reached(results[b], stage)
    IN  IF \E i \in DOMAIN Stages : Missing(Stages[i])
        THEN Bottleneck(Stages[CHOOSE i \in DOMAIN Stages :
                                   Missing(Stages[i]) /\ \A j \in 1 .. i - 1 : ~Missing(Stages[j])])
        ELSE HoldoutReady

\* _causal_decision: the first stage that some dimension never reaches.
CausalDecision(results) ==
    LET Missing(stage) ==
            \E d \in Dimensions :
                \A b \in Behavior : Dimension[b] = d => ~Reached(results[b], stage)
    IN  IF \E i \in DOMAIN Stages : Missing(Stages[i])
        THEN Bottleneck(Stages[CHOOSE i \in DOMAIN Stages :
                                   Missing(Stages[i]) /\ \A j \in 1 .. i - 1 : ~Missing(Stages[j])])
        ELSE IF (\A d \in Dimensions : SeedDelta(results, d) > 0) /\ TrajectoryImproved(results)
        THEN HoldoutReady
        ELSE Bottleneck("score_improved")

Failures(results) == {results[i].error : i \in Instances} \ {"none"}

\* summarize_anchor_v0: a failure of the Harness hides everything, then the
\* arms are validated, then a judge that broke its contract hides the scores.
Decision(lifecycle, results) ==
    LET sound == {i \in Instances : results[i].error = "none"} IN
    IF lifecycle # "passed" \/ Harness \in Failures(results)
       \/ \E i \in sound : ~ValidatedArms(results[i].arms)
       \/ \E t \in Trajectory \cap sound : \E mode \in ToSet(Modes) :
              results[t].arms[mode].output \notin Options
    THEN Bottleneck(Harness)
    ELSE IF \/ Judge \in Failures(results)
            \/ \E b \in Behavior : \E mode \in ToSet(Modes) :
                   results[b].arms[mode].score \notin Scores
    THEN Bottleneck(Judge)
    ELSE CausalDecision(results)

=============================================================================
