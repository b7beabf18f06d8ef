----------------------------- MODULE MCCupidRun -----------------------------
(***************************************************************************)
(* A formal cohort of four instances, three of which ask the same thing.   *)
(***************************************************************************)
EXTENDS CupidRun

CONSTANTS a1, a2, a3, b1, p1, p2, m1, s1, q1, q2

Item(section, ref, size) ==
    [section |-> section, ref |-> ref, scope |-> "RELATION", size |-> size, blank |-> FALSE]

Context(recollections, dispositions, active) ==
    [selected |-> [recollections |-> recollections, dispositions |-> dispositions],
     active |-> active]

Nothing == Context(<<>>, <<>>, 0)
Shown == Context(<<>>, <<Item("DISPOSITIONS", s1, 1)>>, 1)
TooLong == Context(<<>>, <<Item("DISPOSITIONS", s1, 9)>>, 1)

\* a1, a2 and a3 are one persona with one request, b1 is the other holdout.
SplitOf == [i \in Instances |-> IF i = b1 THEN "H2" ELSE "H1"]
PersonaOf == [i \in Instances |-> IF i = b1 THEN p2 ELSE p1]
RequestFor == [i \in Instances |-> IF i = b1 THEN q2 ELSE q1]
SameLabel == [i \in Instances |-> "label"]
HoldoutContexts == [i \in Instances |-> IF i \in {a1, a3} THEN {TooLong} ELSE {Nothing, Shown}]
Orders == [i \in Instances |-> IF i = a1 THEN <<Seed, "none", Base>> ELSE Modes]
FourTasks == <<a1, a2, a3, b1>>
SomeDraws == <<<<p1, p2>>, <<p2, p1>>, <<p1, p1>>, <<p2, p2>>>>

=============================================================================
