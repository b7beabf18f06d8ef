-------------------------- MODULE DelayedSeedEffect --------------------------
(***************************************************************************)
(* The delayed Seed evaluation: four arms derived from one Select, a judge *)
(* that sees every pair of answers in both orders, and the diagnosis of a  *)
(* cohort (eval/python: delayed_seed_effect.py).                           *)
(***************************************************************************)
EXTENDS Rendering, RequestCache

CONSTANTS
    Instances,
    DominanceWins       \* dominance_wins: clear wins that decide a comparison

ASSUME DominanceAssumption ==
    /\ IsFiniteSet(Instances)
    /\ DominanceWins \in 1 .. Cardinality(Instances)

Rag == "rag"
Learned == "learned_seed"
Oracle == "oracle_seed"
Anti == "anti_seed"
Modes == {Rag, Learned, Oracle, Anti}

\* PAIRWISE_COMPARISONS: left and right arm of every comparison.
Pairs == {<<Oracle, Rag>>, <<Learned, Rag>>, <<Oracle, Learned>>, <<Oracle, Anti>>}

\* The reply contract of the judge.
Tokens == {"A", "B", "TIE"}

\* Oracle wins at or below which no advantage of the architecture is seen.
NoAdvantageWins == 2

-----------------------------------------------------------------------------
(***************************************************************************)
(* Contexts.                                                               *)
(***************************************************************************)
\* The Disposition a counterfactual arm is given in place of the learned ones.
Counterfactual(mode, size) ==
    <<[section |-> "DISPOSITIONS", ref |-> mode, scope |-> "RELATION", size |-> size, blank |-> FALSE]>>

\* The Dispositions an arm is given.
Given(memory, mode, size) ==
    CASE mode = Rag -> <<>>
      [] mode = Learned -> memory.dispositions
      [] OTHER -> Counterfactual(mode, size)

\* build_delayed_contexts: the text of an arm is the sequence of refs rendered.
BuildDelayedContexts(memory, size) ==
    LET Arm(mode) ==
            LET text == Refs(Render(memory.recollections \o Given(memory, mode, size))) IN
            [text          |-> text,
             recollections |-> VisibleRefs(memory.recollections) \cap ToSet(text),
             dispositions  |-> VisibleRefs(Given(memory, mode, size)) \cap ToSet(text),
             selected      |-> VisibleRefs(memory.dispositions)]
    IN  [rag |-> Arm(Rag), learned_seed |-> Arm(Learned), oracle_seed |-> Arm(Oracle), anti_seed |-> Arm(Anti)]

\* The counterfactual arms must fit the shared budget.
CounterfactualsFit(contexts) ==
    \A mode \in {Oracle, Anti} : contexts[mode].dispositions # {}

-----------------------------------------------------------------------------
(***************************************************************************)
(* The judge and the diagnosis.  A result has its funnel stages and, for   *)
(* every pair, the tokens of both orders of the two answers.               *)
(***************************************************************************)
\* _logical_winner: the arm behind a token.
LogicalWinner(token, a, b) == CASE token = "TIE" -> "tie" [] token = "A" -> a [] token = "B" -> b

\* Variant: the forward order alone decides.
PairConsensusForward(forward, reverse, left, right) == LogicalWinner(forward, left, right)

\* pair_consensus: a winner in both orders.
PairConsensus(forward, reverse, left, right) ==
    IF LogicalWinner(forward, left, right) = LogicalWinner(reverse, right, left)
    THEN LogicalWinner(forward, left, right)
    ELSE "inconsistent"

Consensus(result, pair) ==
    PairConsensus(result.pairwise[<<pair, "forward">>], result.pairwise[<<pair, "reverse">>],
                  pair[1], pair[2])

\* comparison_counts
Wins(results, pair, who) == Cardinality({i \in DOMAIN results : Consensus(results[i], pair) = who})

Reached(results, stage) ==
    Cardinality({i \in DOMAIN results :
                    CASE stage = "formed"   -> results[i].active > 0
                      [] stage = "selected" -> results[i].selected # {}
                      [] stage = "rendered" -> results[i].rendered # {}})

Funnel == <<"formed", "selected", "rendered">>

Dominates(results, pair) ==
    Wins(results, pair, pair[1]) >= DominanceWins /\ Wins(results, pair, pair[2]) = 0

Diagnosis(status, bottleneck) == [status |-> status, bottleneck |-> bottleneck]

\* The first stage too few instances reached, else the effect itself.
FirstShortStage(results) ==
    LET short == {k \in DOMAIN Funnel : Reached(results, Funnel[k]) < DominanceWins}
    IN  IF short = {} THEN "learned_effect" ELSE Funnel[Min(short)]

\* summarize_delayed_seed: one diagnosis of a complete cohort.
Summarize(results) ==
    CASE ~Dominates(results, <<Oracle, Anti>>) ->
           Diagnosis("manipulation_check_failed", "oracle_vs_anti")
      [] Dominates(results, <<Oracle, Anti>>)
         /\ Dominates(results, <<Learned, Rag>>)
         /\ \A stage \in ToSet(Funnel) : Reached(results, stage) >= DominanceWins ->
           Diagnosis("preliminary_learned_advantage", "none")
      [] OTHER ->
           IF Dominates(results, <<Oracle, Rag>>)
           THEN Diagnosis("learning_or_selection_bottleneck", FirstShortStage(results))
           ELSE Diagnosis(IF \/ Wins(results, <<Oracle, Rag>>, Oracle) <= NoAdvantageWins
                             \/ Wins(results, <<Oracle, Rag>>, Rag) > 0
                          THEN "no_detectable_architecture_advantage" ELSE "inconclusive",
                          "oracle_vs_rag")

=============================================================================
