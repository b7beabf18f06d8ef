---------------------------- MODULE PersonaEffect ----------------------------
(***************************************************************************)
(* PersonaMem: the six contexts of a question, the funnel its evidence     *)
(* goes through, and the stage that is blamed for what is lost             *)
(* (eval/python: personamem_effect.py, personamem_diagnostics.py,          *)
(* personamem_effect_runner.py), and what Core takes for Episode evidence  *)
(* (internal: postgres/episode_evidence.go, selection/episode_evidence.go).*)
(***************************************************************************)
EXTENDS Rendering

CONSTANTS
    Questions,
    Persona,        \* [Questions -> persona]
    PersonaOrder,   \* the personas, sorted
    Gold,           \* [Questions -> Episodes its evidence was aligned with; none: source unavailable]
    OracleText,     \* [Questions -> texts of the evidence itself]
    HistoryText,    \* [persona -> texts of its history]
    Draws,          \* [number of personas -> what random.Random(0) draws of them]
    TopN,           \* 40: Episodes of the semantic arm, and candidates of a search of Core
    Loadable,       \* [Questions -> refs of Episodes that can be evidence for it: a valid window
                    \*   of the right owner that does not hold the question itself]
    Bytes,          \* [ref of an Episode -> bytes of its text]
    EvidenceBytes,  \* episode_evidence_max_bytes
    MaxEvidence     \* entries of Episode evidence in a MemoryContext

ASSUME EffectAssumption ==
    /\ IsFiniteSet(Questions) /\ TopN \in Nat \ {0} /\ MaxEvidence \in Nat /\ EvidenceBytes \in Nat
    /\ \A q \in Questions : /\ Persona[q] \in ToSet(PersonaOrder)
                            /\ \A ref \in Loadable[q] : Bytes[ref] \in Nat

Modes == {"none", "full_history", "oracle_episode", "semantic_top40", "current_core", "learned_core"}

IsEpisode(item) == item.section = "EPISODES"

First(n, items) == SubSeq(items, 1, IF n < Len(items) THEN n ELSE Len(items))

-----------------------------------------------------------------------------
\* The Episodes of an order of documents.
WithDocument(kept, document) == IF IsEpisode(document) THEN Append(kept, document) ELSE kept

Episodes(order) ==
    LET kept[n \in 0 .. Len(order)] ==
            IF n = 0 THEN <<>> ELSE WithDocument(kept[n - 1], order[n])
    IN  kept[Len(order)]

\* Variant: fewer Episodes than Core may choose from.
SearchEpisodesFew(order) == First(1, Episodes(order))

\* search_episodes: the first Episodes of the complete order of the owner.
SearchEpisodes(order) == First(TopN, Episodes(order))

-----------------------------------------------------------------------------
(***************************************************************************)
(* What Core takes for Episode evidence of an order of candidates of any   *)
(* kind: Episodes, each of them once, ...                                  *)
(***************************************************************************)
WithCandidate(q, kept, document) ==
    IF IsEpisode(document) /\ document.ref \in Loadable[q] \ ToSet(Refs(kept))
    THEN Append(kept, document) ELSE kept

\* loadEpisodeEvidence
EvidenceCandidates(q, order) ==
    LET kept[n \in 0 .. Len(order)] ==
            IF n = 0 THEN <<>> ELSE WithCandidate(q, kept[n - 1], order[n])
    IN  kept[Len(order)]

\* ... and of these the first few that fit: one that exceeds what is left of the
\* bytes is skipped, and later ones are still tried.
BytesOf(items) == FoldLeft(LAMBDA n, item : n + Bytes[item.ref], 0, items)

WithEntry(kept, item) ==
    IF Len(kept) = MaxEvidence \/ Bytes[item.ref] > EvidenceBytes - BytesOf(kept)
    THEN kept ELSE Append(kept, item)

BoundEpisodeEvidence(items) ==
    LET kept[n \in 0 .. Len(items)] == IF n = 0 THEN <<>> ELSE WithEntry(kept[n - 1], items[n])
    IN  kept[Len(items)]

\* The index is asked for TopN candidates.
CoreEvidence(q, order) ==
    IF EvidenceBytes = 0 THEN <<>> ELSE BoundEpisodeEvidence(EvidenceCandidates(q, First(TopN, order)))

-----------------------------------------------------------------------------
\* The learned items and, in one mode, the Episode evidence behind them.
CoreItems(selected, mode) ==
    IF mode = "learned_core" THEN selected.learned ELSE selected.learned \o selected.evidence

CoreModes == {"current_core", "learned_core"}

\* What is rendered of a MemoryContext in the two modes that show one.
CoreTexts(selected) ==
    LET Text(mode) == Refs(Render(CoreItems(selected, mode))) IN
    [current_core |-> Text("current_core"), learned_core |-> Text("learned_core")]

\* build_effect_context.  A text is the texts it is made of, under its heading.
BuildEffectContext(q, found, core, mode) ==
    CASE mode = "none"           -> <<"none">>
      [] mode = "full_history"   -> <<"history", HistoryText[Persona[q]]>>
      [] mode = "oracle_episode" -> <<"memory", OracleText[q]>>
      [] mode = "semantic_top40" -> <<"memory", Refs(found)>>
      [] OTHER                   -> IF core[mode] = <<>> THEN <<"none">> ELSE <<"memory", core[mode]>>

Contexts(q, found, core) == [mode \in Modes |-> BuildEffectContext(q, found, core, mode)]

\* build_funnel_record of current_core.
Funnel(q, found, selected, core) ==
    LET evidence == ToSet(Refs(selected.evidence)) IN
    [source_available |-> Gold[q] # {},
     indexed          |-> Gold[q] \cap ToSet(Refs(found)) # {},
     selected         |-> Gold[q] \cap evidence # {},
     delivered        |-> Gold[q] \cap evidence \cap ToSet(core["current_core"]) # {}]

\* What summarize_funnel accepts of a row.
FunnelInOrder(f) ==
    /\ f.delivered => f.selected
    /\ f.selected => f.indexed
    /\ ~f.source_available => ~f.indexed /\ ~f.selected /\ ~f.delivered

-----------------------------------------------------------------------------
(***************************************************************************)
(* summarize_effect_results.                                               *)
(***************************************************************************)
Gain(result, left, right) ==
    (IF result.correct[left] THEN 1 ELSE 0) - (IF result.correct[right] THEN 1 ELSE 0)

GainOf(results, qs, left, right) == SumFunctionOnSet([q \in qs |-> Gain(results[q], left, right)], qs)

\* _clustered_difference: the lower bound is positive if few enough samples are not.
LowerBoundPositive(results, qs, left, right) ==
    LET present == SelectSeq(PersonaOrder, LAMBDA p : \E q \in qs : Persona[q] = p)
        draws   == Draws[Len(present)]
        SampleGain(draw) ==
            FoldLeft(LAMBDA n, k : n + GainOf(results, {q \in qs : Persona[q] = present[k]}, left, right),
                     0, draw)
    IN  Cardinality({d \in DOMAIN draws : SampleGain(draws[d]) <= 0}) <= (Len(draws) * 25) \div 1000

\* Variant: every question counts, whether its evidence got this far or not.
ConditionedDifferenceOfAll(results, left, right, condition) ==
    [n |-> Cardinality(Questions), gain |-> GainOf(results, Questions, left, right),
     reliable |-> GainOf(results, Questions, left, right) > 0
                      /\ LowerBoundPositive(results, Questions, left, right)]

\* _conditioned_difference and _effect_is_reliably_positive.
ConditionedDifference(results, left, right, condition) ==
    LET qs   == {q \in Questions : results[q].funnel[condition]}
        gain == GainOf(results, qs, left, right)
    IN  [n |-> Cardinality(qs), gain |-> gain,
         reliable |-> qs # {} /\ gain > 0 /\ LowerBoundPositive(results, qs, left, right)]

Candidates == <<"retrieval", "selection_assembly", "consolidation">>

StageEffect(results, stage) ==
    CASE stage = "answer_model" ->
            ConditionedDifference(results, "oracle_episode", "none", "source_available")
      [] stage = "retrieval" ->
            ConditionedDifference(results, "oracle_episode", "semantic_top40", "source_available")
      [] stage = "selection_assembly" ->
            ConditionedDifference(results, "semantic_top40", "current_core", "indexed")
      [] stage = "consolidation" ->
            ConditionedDifference(results, "current_core", "learned_core", "delivered")

\* A mean difference is larger; the first of equal ones is taken.
Larger(e, f) == e.gain * f.n > f.gain * e.n

Worse(results, best, s) ==
    /\ StageEffect(results, s).reliable
    /\ best = "none" \/ Larger(StageEffect(results, s), StageEffect(results, best))

MaxStage(results) ==
    LET Pick(best, k) == IF Worse(results, best, Candidates[k]) THEN Candidates[k] ELSE best
    IN  Pick(Pick(Pick("none", 1), 2), 3)

\* _decide_conditioned_bottleneck
Decide(results) ==
    LET answer == StageEffect(results, "answer_model")
        worst  == MaxStage(results)
    IN  IF answer.n = 0 THEN "evaluation_source_coverage"
        ELSE IF ~answer.reliable THEN "answer_model"
        ELSE IF worst # "none" THEN worst
        ELSE IF \E s \in ToSet(Candidates) : StageEffect(results, s).n > 0
             THEN "no_measured_core_bottleneck" ELSE "evaluation_source_coverage"

=============================================================================
