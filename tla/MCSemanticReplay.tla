-------------------------- MODULE MCSemanticReplay --------------------------
(***************************************************************************)
(* Windows of two Episodes with an Outcome, or of one with memories and    *)
(* lines that name them.                                                   *)
(***************************************************************************)
EXTENDS SemanticReplay

CONSTANTS c1, c2, e1, e2, e3, s1, s2, q1, q2, q3, u1, u2, o1, o2, m1, m2, stray

\* Core keeps the source of an Episode apart from that of any other.
SourceOf == (e1 :> q1) @@ (e2 :> q2) @@ (e3 :> q3)

Block(e, s, body, u) ==
    [ref |-> e, session |-> s, body |-> body, sources |-> <<[kind |-> "user", actor |-> u, ref |-> SourceOf[e]]>>]

\* Two Episodes that say the same or not, under names n of the Episodes and sessions and of two actors.
Pairs(names, actors) ==
    {<<Block(n[1], n[2], "walk", u[1]), Block(n[3], n[4], body, u[2])>> : n \in names, u \in actors, body \in {"walk", "tea"}}

\* Of one session or of two, each under two namings.
Together == {<<e1, s1, e2, s1>>, <<e3, s2, e1, s2>>}
Apart    == {<<e1, s1, e2, s2>>, <<e3, s2, e1, s1>>}

Outcome(o, e, u) == [ref |-> o, episode |-> e, kind |-> "user", actor |-> u, text |-> "helped"]

Mem(m, text) == [ref |-> m, text |-> text]

Target(ref) == [tag |-> "ALLOWED_TARGET", of |-> "-", ref |-> ref]
Basis(ref) == [tag |-> "ALLOWED_BASIS", of |-> "-", ref |-> ref]
Anchor(m, e) == [tag |-> "REVISION_ANCHOR", of |-> m, ref |-> e]

Window(lines, mems, eps, related, outs) == [lines |-> lines, mems |-> mems, eps |-> eps, related |-> related, outs |-> outs]

\* Two Episodes of one actor, with an Outcome of another one.
Sessions ==
    {Window(<<>>, <<>>, p, <<>>, outs) : p \in Pairs(Together \cup Apart, {<<u1, u1>>}),
                                         outs \in {<<Outcome(o1, e1, u2)>>, <<Outcome(o2, e2, u2)>>}}

\* Two Episodes of two actors, with an Outcome of one of them.
Actors ==
    {Window(<<>>, <<>>, p, <<>>, <<Outcome(o1, e1, u1)>>) :
        p \in Pairs({<<e1, s1, e2, s1>>}, {<<u1, u2>>, <<u2, u1>>})}

\* Two related Episodes in any order, allowed as basis in one order.
Related ==
    UNION {{Window(<<Basis(p[1].ref), Basis(p[2].ref)>>, <<>>, <<>>, related, <<>>) : related \in {p, Reverse(p)}} :
              p \in Pairs(Apart, {<<u1, u1>>})}

MemoryLists ==
    {<<Mem(m1, "p")>>, <<Mem(m2, "p")>>, <<Mem(m1, "p"), Mem(m2, "q")>>, <<Mem(m2, "q"), Mem(m1, "p")>>,
     <<Mem(m2, "p"), Mem(m1, "q")>>, <<Mem(m1, "p"), Mem(m2, "p")>>}

\* Memories that are listed, said something about, or both; one has an Episode of
\* the window and one that is not in it as anchors.
Memories ==
    {Window(<<Target(m1), Target(m2)>>, mems, <<Block(e1, s1, "walk", u1)>>, <<>>, <<>>) : mems \in MemoryLists}
    \cup {Window(lines, <<>>, <<Block(e1, s1, "walk", u1)>>, <<>>, <<>>) :
            lines \in {<<Target(m1), Target("NEW_DISPOSITION")>>, <<Target("NEW_DISPOSITION"), Target(m2)>>}}
    \cup {Window(lines, <<Mem(m1, "p")>>, <<Block(e1, s1, "walk", u1)>>, <<>>, <<>>) :
            lines \in {<<Anchor(m1, e1), Anchor(m1, e2)>>, <<Anchor(m1, e2), Anchor(m1, e1)>>}}
    \cup {Window(<<Anchor(m2, e3), Anchor(m2, e2)>>, <<Mem(m2, "p")>>, <<Block(e3, s2, "walk", u1)>>, <<>>, <<>>)}

Windows == Sessions \cup Actors \cup Related \cup Memories

\* Every ref of the window in some order, no change, or a ref that is not in it.
SomeOutputs(input) ==
    LET refs == SetToSeq(Refs(input)) IN
    {[n \in DOMAIN refs |-> <<"ref", refs[n]>>], <<<<"word", "NO_CHANGES">>>>}
        \cup {<<<<"ref", ref>>>> : ref \in IF input \in Memories THEN {stray} ELSE {}}

\* The callers are alike.
CallersAlike == Permutations(Callers)

=============================================================================
