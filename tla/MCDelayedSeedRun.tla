-------------------------- MODULE MCDelayedSeedRun --------------------------
(***************************************************************************)
(* Cohorts of two instances: one with all the answers and verdicts, one    *)
(* with a single answer.                                                   *)
(***************************************************************************)
EXTENDS DelayedSeedRun

CONSTANTS i1, i2, m1, m2, s1

Item(section, ref, size) ==
    [section |-> section, ref |-> ref, scope |-> "RELATION", size |-> size, blank |-> FALSE]

Selected(size, dispositions) ==
    [recollections |-> <<Item("RECOLLECTIONS", m1, size)>>, dispositions |-> dispositions]

Tendency == <<Item("DISPOSITIONS", s1, 2)>>

\* One instance may form a Disposition after any session, the first one included, and lose
\* it again; the other forms none.
SomeActives == (i1 :> {0, 1}) @@ (i2 :> {0})

\* A learned Disposition that fits; one that does not while a shorter counterfactual does;
\* none; Recollections that leave no room for a counterfactual.
SomeContexts ==
    (i1 :> {Selected(1, Tendency), Selected(2, Tendency), Selected(1, <<>>), Selected(4, <<>>)})
        @@ (i2 :> {Selected(1, <<>>)})
SomeSizes == [i \in Instances |-> 1]
SomeReplies == (i1 :> {"x", "y"}) @@ (i2 :> {"x"})
Order == <<i1, i2>>
Answers == <<Learned, Anti, Rag, Oracle>>
Judgements ==
    LET oa == <<Oracle, Anti>> lr == <<Learned, Rag>> or == <<Oracle, Rag>> ol == <<Oracle, Learned>>
    IN  << <<lr, "reverse">>, <<oa, "forward">>, <<ol, "forward">>, <<or, "reverse">>,
           <<lr, "forward">>, <<or, "forward">>, <<oa, "reverse">>, <<ol, "reverse">> >>

=============================================================================
