------------------------------ MODULE SeedArms ------------------------------
(***************************************************************************)
(* The three arms of a Seed evaluation: one Select, rendered without       *)
(* memory, with Recollections only and with Recollections and              *)
(* Dispositions (eval/python: perma_seed_effect.py), and the check that    *)
(* the recorded arms of a question really are a paired comparison          *)
(* (anchor_effect.py).                                                     *)
(***************************************************************************)
EXTENDS Rendering

Modes == <<"none", "recollection_only", "seed_enabled">>

\* The two modes whose answers every gate compares.
Base == "recollection_only"
Seed == "seed_enabled"

\* What the filtered MemoryContext of an arm holds, in the renderer's order.
ArmItems(selected, mode) ==
    CASE mode = "none" -> <<>>
      [] mode = Base   -> selected.recollections
      [] mode = Seed   -> selected.recollections \o selected.dispositions

Among(refs, text) == refs \cap ToSet(text)

\* build_seed_contexts.  The text of an arm is the sequence of refs rendered; the other
\* lists of refs are in the order of the selection, and given as sets.
BuildSeedContexts(selected) ==
    LET recollections == VisibleRefs(selected.recollections)
        dispositions == VisibleRefs(selected.dispositions)
        Text(mode) == Refs(Render(ArmItems(selected, mode)))
    IN  [mode \in ToSet(Modes) |->
            [text         |-> Text(mode),
             recollections |-> Among(recollections, Text(mode)),
             dispositions  |-> Among(dispositions, Text(mode)),
             selected      |-> <<recollections, dispositions>>]]

\* _validated_arms: one Select, an empty control, the same Recollections in
\* both memory arms, Dispositions in one arm only, nothing that was not selected.
ValidatedArms(arms) ==
    /\ DOMAIN arms = ToSet(Modes)
    /\ \A mode \in DOMAIN arms : arms[mode].context.selected = arms["none"].context.selected
    /\ arms["none"].context.text = <<>>
    /\ arms[Base].context.dispositions = {}
    /\ arms[Seed].context.recollections = arms[Base].context.recollections
    /\ arms[Base].context.recollections \subseteq arms["none"].context.selected[1]
    /\ arms[Seed].context.dispositions \subseteq arms["none"].context.selected[2]

=============================================================================
