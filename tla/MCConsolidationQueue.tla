------------------------- MODULE MCConsolidationQueue -------------------------
(***************************************************************************)
(* Small instances of ConsolidationQueue for TLC.                          *)
(***************************************************************************)
EXTENDS ConsolidationQueue, TLC

CONSTANTS w1, e1, e2, e3, o1, o2, p1, p2, i1, i2

\* All evidence belongs to one owner: windows of two Episodes have to split,
\* overlap and pass on what does not fit.
OneOwner == [e \in Episode |-> w1]

OutcomeOwners == [o \in Outcome |-> IF o = o1 THEN e1 ELSE e2]

\* Processors and intake transactions are interchangeable, and the Episodes that no
\* Outcome belongs to.
Actors == Permutations(Processor) \cup Permutations(Intake) \cup Permutations({e2, e3})

=============================================================================
