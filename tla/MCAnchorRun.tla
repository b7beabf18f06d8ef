---------------------------- MODULE MCAnchorRun ----------------------------
(***************************************************************************)
(* A cohort of one trajectory and one behavior.                              *)
(***************************************************************************)
EXTENDS AnchorRun

CONSTANTS t1, b1, m1, m2, s1

Item(section, ref, size) ==
    [section |-> section, ref |-> ref, scope |-> "RELATION", size |-> size, blank |-> FALSE]

Fact == Item("RECOLLECTIONS", m1, 2)
Long == Item("RECOLLECTIONS", m2, 4)
Tendency == Item("DISPOSITIONS", s1, 1)

Context(recollections, dispositions, active) ==
    [selected |-> [recollections |-> recollections, dispositions |-> dispositions],
     active |-> active]

\* A Seed alone; one beside a Recollection; one that does not fit beside it; none selected.
SomeContexts ==
    [i \in Instances |-> IF i \in Trajectory THEN {Context(<<>>, <<Tendency>>, 1)}
                         ELSE {Context(<<Fact>>, <<Tendency>>, 1), Context(<<Long>>, <<Tendency>>, 1),
                               Context(<<Fact>>, <<>>, 0)}]

SomeReplies == [i \in Instances |-> IF i \in Trajectory THEN {"A", "B"} ELSE {"good", "bad"}]
Friendship == [b \in Behavior |-> "relationship_repair"]
\* The Seed arm first or last.
Orders ==
    [i \in Instances |-> IF i \in Trajectory THEN Modes ELSE <<"seed_enabled", "none", "recollection_only">>]
AlwaysA == [t \in Trajectory |-> "A"]

=============================================================================
