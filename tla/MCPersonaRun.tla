---------------------------- MODULE MCPersonaRun ----------------------------
(***************************************************************************)
(* Two personas; what Core learns pushes Episodes down in the index.       *)
(***************************************************************************)
EXTENDS PersonaRun

CONSTANTS p1, p2, q1, q2, q3, e1, e2, e3, m1, m2

Item(section, ref) ==
    [section |-> section, ref |-> ref, scope |-> "RELATION", size |-> 1, blank |-> FALSE]

E(ref) == Item("EPISODES", ref)
M(ref) == Item("RECOLLECTIONS", ref)

PersonaOf == [q \in Questions |-> IF q = q3 THEN p2 ELSE p1]
BothPersonas == <<p1, p2>>
CasesOf == (p1 :> SelectSeq(<<q1, q2>>, LAMBDA q : q \in Questions)) @@ (p2 :> <<q3>>)

\* q1 asks for e2, q2 for e1, q3 for e3.
GoldOf == [q \in Questions |-> CASE q = q1 -> {e2} [] q = q2 -> {e1} [] q = q3 -> {e3}]
OracleOf == [q \in Questions |-> CASE q = q1 -> <<e2>> [] q = q2 -> <<e1>> [] q = q3 -> <<e3, e1>>]
Histories == [p \in {p1, p2} |-> <<e1, e2, e3>>]

OrderOf ==
    [q \in Questions |-> [v \in 0 .. 2 |->
        CASE q = q1 -> IF v = 0 THEN <<E(e1), M(m1), E(e2), E(e3)>>
                       ELSE <<M(m1), M(m2), E(e1), E(e2), E(e3)>>
          [] q = q2 -> IF v = 0 THEN <<E(e1), E(e2), M(m1), E(e3)>>
                       ELSE <<M(m2), E(e3), E(e1), E(e2), M(m1)>>
          [] q = q3 -> IF v = 0 THEN <<E(e3), E(e2), E(e1), M(m1)>>
                       ELSE <<E(e1), M(m1), M(m2), E(e3), E(e2)>>]]

\* What Core has learned about m2 it only remembers if its search works.
LearnedOf ==
    [q \in Questions |-> [v \in 0 .. 2 |-> [x \in (0 .. 2) \cup {None} |->
        IF v > 0 THEN (IF x = None THEN <<M(m1)>> ELSE <<M(m1), M(m2)>>)
        ELSE IF q = q2 THEN <<>> ELSE <<M(m1)>>]]]

\* e2 cannot be evidence for q2; after e3 it exceeds the bytes that are left, and e1 does not.
LoadableFor == [q \in Questions |-> IF q = q2 THEN {e1, e3} ELSE {e1, e2, e3}]
BytesPer == [e \in {e1, e2, e3} |-> IF e = e1 THEN 1 ELSE 2]

\* q1 is answered right from the history or from its evidence, wrong without memory, and either way
\* from what was retrieved or remembered; the other questions are wrong without memory only.
RepliesTo(q, text) ==
    IF text = <<"none">> THEN {FALSE}
    ELSE IF q = q1 /\ text[1] = "memory" /\ text # <<"memory", OracleOf[q1]>> THEN BOOLEAN ELSE {TRUE}

\* Core goes on learning about one of the personas.
LearnsOne == (p1 :> 1) @@ (p2 :> 0)

SomeDraws == [n \in 1 .. 2 |-> IF n = 1 THEN <<<<1>>>> ELSE <<<<1, 2>>, <<2, 1>>, <<1, 1>>, <<1, 2>>>>]

=============================================================================
