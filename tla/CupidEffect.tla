----------------------------- MODULE CupidEffect -----------------------------
(***************************************************************************)
(* CUPID: the score contract of its judge and the verdict on a cohort      *)
(* (eval/python: cupid_effect.py).                                         *)
(***************************************************************************)
EXTENDS SeedArms

CONSTANTS
    Instances,
    Split,          \* [Instances -> the split of its persona]
    Persona,        \* [Instances -> persona_id]
    Formal,         \* the cohort is H1 and H2, else dev
    Draws           \* what random.Random(0) draws: [1 .. samples -> sequence of personas]

Splits == IF Formal THEN <<"H1", "H2">> ELSE <<"dev">>

ASSUME CohortAssumption ==
    /\ Formal \in BOOLEAN /\ IsFiniteSet(Instances)
    /\ \A i \in Instances : Split[i] \in ToSet(Splits)
    /\ \A i, j \in Instances : Persona[i] = Persona[j] => Split[i] = Split[j]

\* parse_judge_score: the token under the one header.
ScoreTokens == <<"1", "2", "3", "4", "5", "6", "7", "8", "9", "10">>

Parses(reply) == reply \in ToSet(ScoreTokens)
ParseJudgeScore(reply) == CHOOSE n \in DOMAIN ScoreTokens : ScoreTokens[n] = reply

-----------------------------------------------------------------------------
Score(result, mode) == ParseJudgeScore(result.arms[mode].verdict)

Delta(result) == Score(result, Seed) - Score(result, Base)

GainOf(results, S) == SumFunctionOnSet([i \in S |-> Delta(results[i])], S)

Group(split) == {i \in Instances : Split[i] = split}

\* _group_summary: the sign of the mean is the sign of the sum.
SplitGain(results, split) == GainOf(results, Group(split))

Reached(result, stage) ==
    CASE stage = "formed"   -> result.active > 0
      [] stage = "selected" -> result.arms[Seed].context.selected[2] # {}
      [] stage = "rendered" -> result.arms[Seed].context.dispositions # {}

\* A bootstrap sample: whole personas, with all their instances.
SampleGain(results, draw) ==
    FoldLeft(LAMBDA n, p : n + GainOf(results, {i \in Instances : Persona[i] = p}),
             0, draw)

\* int(samples * 0.025) samples lie below the lower bound of the interval.
LowerIndex == (Len(Draws) * 25) \div 1000

\* _clustered_difference: the sample at that place of the sorted samples is positive.
LowerBoundPositive(results) ==
    Cardinality({k \in DOMAIN Draws : SampleGain(results, Draws[k]) <= 0}) <= LowerIndex

\* Variant: the gain of both splits together counts.
ReasonsPooled(results) ==
    IF ~Formal \/ GainOf(results, Instances) > 0 THEN {} ELSE {<<"pooled", "CI">>}

\* summarize_cupid_effect: what keeps a formal cohort from passing.
Reasons(results) ==
    IF ~Formal THEN {}
    ELSE {<<s, "did not improve">> : s \in {t \in ToSet(Splits) : SplitGain(results, t) <= 0}}
         \cup {e \in ToSet(Splits) \X {"formed", "selected", "rendered"} :
                  \A i \in Group(e[1]) : ~Reached(results[i], e[2])}
         \cup (IF LowerBoundPositive(results) THEN {} ELSE {<<"pooled", "CI">>})

=============================================================================
