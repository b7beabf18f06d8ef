--------------------------- MODULE MCTurnLifecycle ---------------------------
(***************************************************************************)
(* Small instances of TurnLifecycle.                                       *)
(***************************************************************************)
EXTENDS TurnLifecycle

CONSTANTS c1, m1, m2, m3, x1, x2

Item(section, ref, scope, size) ==
    [section |-> section, ref |-> ref, scope |-> scope, size |-> size, blank |-> FALSE]

Soul == Item("CONSTITUTION", c1, None, 1)
Fact == Item("RECOLLECTIONS", m1, "OTHER", 2)
Long == Item("RECOLLECTIONS", m2, "OTHER", 4)
Seed == Item("DISPOSITIONS", m3, "SELF", 1)

\* Everything fits; an item in the middle does not; nothing is visible; one
\* context repeats a ref and one has no scope.
SomeMemories ==
    {<<Soul, Fact, Seed>>, <<Soul, Fact, Long, Seed>>, <<[Soul EXCEPT !.blank = TRUE]>>,
     <<Fact, Fact>>, <<[Seed EXCEPT !.scope = None]>>}

=============================================================================
