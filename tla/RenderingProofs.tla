--------------------------- MODULE RenderingProofs ---------------------------
(***************************************************************************)
(* Facts about the renderer and about sums, for every budget and every     *)
(* list of items: what the proofs about a turn and about the evaluations   *)
(* share.                                                                  *)
(***************************************************************************)
EXTENDS Rendering, FiniteSetTheorems, SequenceTheorems, WellFoundedInduction, TLAPS

-----------------------------------------------------------------------------
(* Sequences that are built entry by entry *)

\* Every set of numbers that is not empty has a least one.
LEMMA LeastNat ==
    ASSUME NEW T, T \subseteq Nat, T # {}
    PROVE  \E x \in T : \A y \in T : x <= y
<1>1. PICK R : R = OpToRel(<, Nat)
  OBVIOUS
<1>2. IsWellFoundedOn(R, Nat)
  BY <1>1, NatLessThanWellFounded
<1>3. PICK x \in T : \A y \in T : ~(<<y, x>> \in R)
  BY <1>2, WFMin
<1>4. \A y \in T : <<y, x>> \in R <=> y < x
  BY <1>1 DEF OpToRel
<1>5. \A y \in T : ~(y < x)
  BY <1>3, <1>4
<1>6. \A y \in T : x <= y
  BY <1>5
<1> QED BY <1>6

\* What holds at 0 and passes on from n to n + 1 holds up to L.
LEMMA UpTo ==
    ASSUME NEW G, NEW L \in Nat, 0 \in G, \A n \in 0 .. L - 1 : n \in G => n + 1 \in G
    PROVE  0 .. L \subseteq G
<1> SUFFICES ASSUME (0 .. L) \ G # {} PROVE FALSE
  OBVIOUS
<1>0. (0 .. L) \ G \subseteq Nat
  OBVIOUS
<1>1. PICK x \in (0 .. L) \ G : \A y \in (0 .. L) \ G : x <= y
  BY <1>0, LeastNat
<1>2. x # 0 /\ x - 1 \in 0 .. L - 1 /\ (x - 1) + 1 = x
  BY <1>1
<1>3. x - 1 \in G
  BY <1>1, <1>2
<1> QED
  BY <1>1, <1>2, <1>3

\* The function that starts with init and goes from n - 1 to n by step[n].
Built(f, L, V, init, step) ==
    f \in [0 .. L -> V] /\ f[0] = init /\ \A n \in 1 .. L : f[n] = step[n][f[n - 1]]

LEMMA Recursion ==
    ASSUME NEW L \in Nat, NEW V, NEW init \in V, NEW step \in [1 .. L -> [V -> V]]
    PROVE  \E f : Built(f, L, V, init, step)
<1> DEFINE Until(m, f) == \A n \in 1 .. m : f[n] = step[n][f[n - 1]]
           G == {m \in 0 .. L : \E f \in [0 .. m -> V] : f[0] = init /\ Until(m, f)}
<1>1. 0 \in G
  <2>1. PICK f : f = [n \in 0 .. 0 |-> init]
    OBVIOUS
  <2>2. f \in [0 .. 0 -> V] /\ f[0] = init /\ Until(0, f)
    BY <2>1
  <2> QED BY <2>2
<1>2. ASSUME NEW m \in 0 .. L - 1, m \in G PROVE m + 1 \in G
  <2>1. PICK f \in [0 .. m -> V] : f[0] = init /\ Until(m, f)
    BY <1>2
  <2>2. PICK g : g = [n \in 0 .. m + 1 |-> IF n = m + 1 THEN step[m + 1][f[m]] ELSE f[n]]
    OBVIOUS
  <2>3. f[m] \in V /\ m + 1 \in 1 .. L
    BY <1>2, <2>1
  <2>4. g \in [0 .. m + 1 -> V]
    BY <1>2, <2>1, <2>2, <2>3
  <2>5. g[0] = init
    BY <1>2, <2>1, <2>2
  <2>6. ASSUME NEW n \in 1 .. m + 1 PROVE g[n] = step[n][g[n - 1]]
    <3>1. CASE n = m + 1
      <4>1. g[n] = step[n][f[m]] /\ g[m] = f[m] /\ n - 1 = m
        BY <1>2, <2>2, <3>1
      <4> QED BY <4>1
    <3>2. CASE n \in 1 .. m
      <4>1. g[n] = f[n] /\ g[n - 1] = f[n - 1]
        BY <1>2, <2>2, <3>2
      <4> QED BY <2>1, <3>2, <4>1
    <3> QED BY <1>2, <3>1, <3>2
  <2>7. m + 1 \in 0 .. L
    BY <1>2
  <2>8. Until(m + 1, g)
    BY <2>6
  <2> HIDE DEF Until
  <2> QED BY <2>4, <2>5, <2>7, <2>8
<1>3. L \in G
  <2> HIDE DEF G
  <2>1. 0 .. L \subseteq G
    BY <1>1, <1>2, UpTo
  <2> QED BY <2>1
<1>4. PICK f \in [0 .. L -> V] : f[0] = init /\ Until(L, f)
  BY <1>3
<1> QED BY <1>4 DEF Built

-----------------------------------------------------------------------------
(* What the renderer takes of a context *)

LEMMA EmptyFits == Fits(<<>>)
<1> DEFINE Sum(f) == [n \in 0 .. 0 |-> IF n = 0 THEN 0 ELSE f[n - 1] + <<>>[n].size]
<1>1. \E f : f = Sum(f)
  <2>1. PICK f : f = [n \in 0 .. 0 |-> 0]
    OBVIOUS
  <2>2. f = Sum(f)
    BY <2>1
  <2> QED BY <2>2
<1>2. PICK f : f = (CHOOSE g : g = Sum(g)) /\ f = Sum(f)
  BY <1>1
<1>3. f[0] = 0
  BY <1>2
<1>4. {<<>>[n].section : n \in DOMAIN <<>>} = {}
  OBVIOUS
<1>5. Cardinality({}) = 0
  BY FS_EmptySet
<1>6. Len(<<>>) = 0
  OBVIOUS
<1>7. TokenCount(<<>>) = f[0] + 0
  BY <1>2, <1>4, <1>5, <1>6 DEF TokenCount
<1> QED BY <1>3, <1>7, BudgetAssumption DEF Fits

-----------------------------------------------------------------------------
\* One item after another: what has been taken of the first n.
Taking(items, f) ==
    [n \in 0 .. Len(items) |-> IF n = 0 THEN <<>> ELSE WithItem(f[n - 1], items[n])]

IsContext(items) == Len(items) \in Nat /\ DOMAIN items = 1 .. Len(items)

\* The renderer gets through every context.
LEMMA TakingExists ==
    ASSUME NEW items, IsContext(items)
    PROVE  \E f : f = Taking(items, f)
<1> DEFINE Until(m, f) == [n \in 0 .. m |-> IF n = 0 THEN <<>> ELSE WithItem(f[n - 1], items[n])]
           G == {m \in 0 .. Len(items) : \E f : f = Until(m, f)}
<1> USE DEF IsContext
<1>1. 0 \in G
  <2>1. PICK f : f = [n \in 0 .. 0 |-> <<>>]
    OBVIOUS
  <2>2. f = Until(0, f)
    BY <2>1
  <2> QED BY <2>2
<1>2. ASSUME NEW m \in 0 .. Len(items) - 1, m \in G PROVE m + 1 \in G
  <2>1. PICK f : f = Until(m, f)
    BY <1>2
  <2>2. PICK g : g = [n \in 0 .. m + 1 |-> IF n = m + 1 THEN WithItem(f[m], items[m + 1]) ELSE f[n]]
    OBVIOUS
  <2>3. ASSUME NEW n \in 0 .. m + 1 PROVE g[n] = (IF n = 0 THEN <<>> ELSE WithItem(g[n - 1], items[n]))
    <3>1. CASE n = m + 1
      <4>1. (m + 1) - 1 = m /\ m + 1 # 0 /\ m # m + 1 /\ m \in 0 .. m + 1
        OBVIOUS
      <4>2. g[n] = WithItem(f[m], items[m + 1]) /\ g[m] = f[m]
        BY <2>2, <3>1, <4>1
      <4> QED BY <3>1, <4>1, <4>2
    <3>2. CASE n \in 1 .. m
      <4>1. n \in 0 .. m /\ n - 1 \in 0 .. m + 1 /\ n - 1 # m + 1 /\ n # m + 1 /\ n # 0
        BY <3>2
      <4>2. g[n] = f[n] /\ g[n - 1] = f[n - 1]
        BY <2>2, <4>1
      <4>3. f[n] = WithItem(f[n - 1], items[n])
        BY <2>1, <4>1
      <4> QED BY <4>1, <4>2, <4>3
    <3>3. CASE n = 0
      <4>1. 0 # m + 1 /\ 0 \in 0 .. m
        OBVIOUS
      <4> QED BY <2>1, <2>2, <3>3, <4>1
    <3> QED BY <3>1, <3>2, <3>3
  <2>4. g = Until(m + 1, g)
    BY <2>2, <2>3
  <2> QED BY <1>2, <2>4
<1>3. Len(items) \in G
  <2> HIDE DEF G
  <2>1. 0 .. Len(items) \subseteq G
    BY <1>1, <1>2, UpTo
  <2> QED BY <2>1
<1>4. PICK f : f = Until(Len(items), f)
  BY <1>3
<1>5. f = Taking(items, f)
  BY <1>4 DEF Taking
<1> QED BY <1>5

LEMMA RenderIsTaking ==
    ASSUME NEW items, IsContext(items)
    PROVE  \E f : f = Taking(items, f) /\ Render(items) = f[Len(items)]
<1>1. PICK f : f = (CHOOSE g : g = Taking(items, g)) /\ f = Taking(items, f)
  BY TakingExists
<1>2. Render(items) = (CHOOSE g : g = Taking(items, g))[Len(items)]
  BY DEF Render, Taking
<1> QED BY <1>1, <1>2

-----------------------------------------------------------------------------
\* What has been taken of the first n items: they stand at the positions `at`, in order,
\* they fit together, and every other visible one did not fit where it came.
Chosen(items, n, s, at) ==
    /\ Len(s) \in Nat /\ at \in [1 .. Len(s) -> 1 .. n]
    /\ s = [i \in 1 .. Len(s) |-> items[at[i]]]
    /\ \A i \in 1 .. Len(s) : ~items[at[i]].blank
    /\ \A i, j \in 1 .. Len(s) : i < j => at[i] < at[j]
    /\ Fits(s)
    /\ \A m \in 1 .. n : ~items[m].blank /\ (\A i \in 1 .. Len(s) : at[i] # m) =>
          \E k \in 0 .. Len(s) :
             /\ \A i \in 1 .. Len(s) : at[i] < m <=> i <= k
             /\ ~Fits(Append([i \in 1 .. k |-> items[at[i]]], items[m]))

LEMMA AppendIs ==
    ASSUME NEW s, NEW x, Len(s) \in Nat, s = [i \in 1 .. Len(s) |-> s[i]]
    PROVE  /\ Len(Append(s, x)) = Len(s) + 1
           /\ Append(s, x) = [i \in 1 .. Len(s) + 1 |-> IF i <= Len(s) THEN s[i] ELSE x]
<1>1. PICK S : S = {s[i] : i \in 1 .. Len(s)} \cup {x}
  OBVIOUS
<1>2. s \in [1 .. Len(s) -> S] /\ x \in S
  BY <1>1
<1>3. s \in Seq(S)
  BY <1>2
<1>4. Append(s, x) \in Seq(S) /\ Len(Append(s, x)) = Len(s) + 1
  BY <1>2, <1>3
<1>5. DOMAIN Append(s, x) = 1 .. Len(s) + 1
  BY <1>4
<1>6. \A i \in 1 .. Len(s) + 1 : Append(s, x)[i] = IF i <= Len(s) THEN s[i] ELSE x
  BY <1>2, <1>3
<1>7. Append(s, x) = [i \in 1 .. Len(s) + 1 |-> Append(s, x)[i]]
  <2>1. PICK t : t = Append(s, x)
    OBVIOUS
  <2>2. t \in [1 .. Len(s) + 1 -> S]
    BY <1>4, <2>1, LenProperties
  <2>3. t = [i \in 1 .. Len(s) + 1 |-> t[i]]
    BY <2>2
  <2> QED BY <2>1, <2>3
<1> QED BY <1>4, <1>6, <1>7

LEMMA KeptTaken ==
    ASSUME NEW items, IsContext(items), NEW n \in 0 .. Len(items) - 1, NEW s, NEW at,
           Chosen(items, n, s, at), ~items[n + 1].blank, Fits(Append(s, items[n + 1]))
    PROVE  \E b : Chosen(items, n + 1, Append(s, items[n + 1]), b)
<1> USE DEF IsContext
<1> DEFINE t == Append(s, items[n + 1])
<1> PICK L : L = Len(s)
  OBVIOUS
<1>0. /\ L \in Nat /\ at \in [1 .. L -> 1 .. n] /\ s = [i \in 1 .. L |-> items[at[i]]]
      /\ n \in Nat /\ \A i \in 1 .. L + 1 : i = L + 1 \/ i \in 1 .. L
  BY DEF Chosen
<1>1. PICK b : b = [i \in 1 .. L + 1 |-> IF i <= L THEN at[i] ELSE n + 1]
  OBVIOUS
<1>2. Len(t) = L + 1 /\ t = [i \in 1 .. L + 1 |-> IF i <= L THEN s[i] ELSE items[n + 1]]
  BY <1>0, AppendIs
<1>3. b \in [1 .. L + 1 -> 1 .. n + 1]
  BY <1>0, <1>1
<1>4. t = [i \in 1 .. L + 1 |-> items[b[i]]]
  BY <1>0, <1>1, <1>2
<1>5. \A i \in 1 .. L + 1 : ~items[b[i]].blank
  <2>1. \A i \in 1 .. L : ~items[at[i]].blank
    BY DEF Chosen
  <2> QED BY <1>0, <1>1, <2>1
<1>6. \A i, j \in 1 .. L + 1 : i < j => b[i] < b[j]
  <2>1. \A i, j \in 1 .. L : i < j => at[i] < at[j]
    BY DEF Chosen
  <2>2. b[L + 1] = n + 1 /\ \A i \in 1 .. L : b[i] = at[i] /\ at[i] \in Nat /\ at[i] < n + 1
    <3>1. b[L + 1] = n + 1
      BY <1>0, <1>1
    <3>2. ASSUME NEW i \in 1 .. L PROVE b[i] = at[i] /\ at[i] \in Nat /\ at[i] < n + 1
      <4>1. at[i] \in 1 .. n
        BY <1>0
      <4>2. b[i] = at[i]
        BY <1>0, <1>1
      <4> QED BY <1>0, <4>1, <4>2
    <3> QED BY <3>1, <3>2
  <2>3. \A i \in 1 .. L : ~(L + 1 < i)
    BY <1>0
  <2> QED BY <1>0, <2>1, <2>2, <2>3
<1>7. ASSUME NEW m \in 1 .. n + 1, ~items[m].blank, \A i \in 1 .. L + 1 : b[i] # m
      PROVE  \E k \in 0 .. L + 1 :
                /\ \A i \in 1 .. L + 1 : b[i] < m <=> i <= k
                /\ ~Fits(Append([i \in 1 .. k |-> items[b[i]]], items[m]))
  <2>1. b[L + 1] = n + 1 /\ \A i \in 1 .. L : b[i] = at[i]
    BY <1>0, <1>1
  <2>2. m \in 1 .. n /\ \A i \in 1 .. L : at[i] # m
    BY <1>0, <1>7, <2>1
  <2>3. PICK k \in 0 .. L : /\ \A i \in 1 .. L : at[i] < m <=> i <= k
                            /\ ~Fits(Append([i \in 1 .. k |-> items[at[i]]], items[m]))
    BY <1>7, <2>2 DEF Chosen
  <2>4. [i \in 1 .. k |-> items[at[i]]] = [i \in 1 .. k |-> items[b[i]]]
    BY <1>0, <2>1
  <2>5. k \in 0 .. L + 1
    BY <1>0
  <2>6. \A i \in 1 .. L + 1 : b[i] < m <=> i <= k
    <3>1. ~(b[L + 1] < m) /\ ~(L + 1 <= k)
      BY <1>0, <2>1, <2>2
    <3> QED BY <1>0, <2>1, <2>3, <3>1
  <2> QED BY <2>3, <2>4, <2>5, <2>6
<1> HIDE DEF t
<1>8. Chosen(items, n + 1, t, b)
  <2>1. Len(t) \in Nat
    BY <1>0, <1>2
  <2> QED BY <1>2, <1>3, <1>4, <1>5, <1>6, <1>7, <2>1 DEF Chosen, t
<1> QED BY <1>8 DEF t

LEMMA KeptSkipped ==
    ASSUME NEW items, IsContext(items), NEW n \in 0 .. Len(items) - 1, NEW s, NEW at,
           Chosen(items, n, s, at), items[n + 1].blank \/ ~Fits(Append(s, items[n + 1]))
    PROVE  Chosen(items, n + 1, s, at)
<1> PICK L : L = Len(s)
  OBVIOUS
<1>0. L \in Nat /\ at \in [1 .. L -> 1 .. n] /\ s = [i \in 1 .. L |-> items[at[i]]] /\ n \in Nat
  BY DEF Chosen, IsContext
<1>1. at \in [1 .. L -> 1 .. n + 1]
  BY <1>0
<1>2. ASSUME NEW m \in 1 .. n + 1, ~items[m].blank, \A i \in 1 .. L : at[i] # m
      PROVE  \E k \in 0 .. L :
                /\ \A i \in 1 .. L : at[i] < m <=> i <= k
                /\ ~Fits(Append([i \in 1 .. k |-> items[at[i]]], items[m]))
  <2>1. CASE m \in 1 .. n
    BY <1>2, <2>1 DEF Chosen
  <2>2. CASE m = n + 1
    <3>1. \A i \in 1 .. L : at[i] < m <=> i <= L
      BY <1>0, <2>2
    <3>2. L \in 0 .. L
      BY <1>0
    <3>3. ~items[n + 1].blank /\ ~Fits(Append(s, items[n + 1]))
      BY <1>2, <2>2
    <3>4. s = [i \in 1 .. L |-> items[at[i]]]
      BY <1>0
    <3>5. ~Fits(Append([i \in 1 .. L |-> items[at[i]]], items[n + 1]))
      BY <3>3, <3>4
    <3> QED BY <2>2, <3>1, <3>2, <3>5
  <2>3. m \in 1 .. n \/ m = n + 1
    BY <1>0
  <2> QED BY <2>1, <2>2, <2>3
<1> QED BY <1>0, <1>1, <1>2 DEF Chosen

\* render_memory_context: what it takes of a context.
LEMMA RenderKeeps ==
    ASSUME NEW items, IsContext(items)
    PROVE  \E at : Chosen(items, Len(items), Render(items), at)
<1>1. PICK f : f = Taking(items, f) /\ Render(items) = f[Len(items)]
  BY RenderIsTaking
<1> DEFINE G == {n \in 0 .. Len(items) : \E at : Chosen(items, n, f[n], at)}
<1>2. 0 \in G
  <2>1. f[0] = <<>>
    BY <1>1 DEF Taking, IsContext
  <2>2. PICK at : at = [i \in 1 .. 0 |-> 1]
    OBVIOUS
  <2>3. Len(<<>>) = 0 /\ 1 .. 0 = {}
    OBVIOUS
  <2>4. <<>> = [i \in 1 .. Len(<<>>) |-> items[at[i]]]
    BY <2>3
  <2>5. Chosen(items, 0, <<>>, at)
    BY <2>2, <2>3, <2>4, EmptyFits DEF Chosen
  <2> QED BY <2>1, <2>5 DEF IsContext
<1>3. ASSUME NEW n \in 0 .. Len(items) - 1, n \in G PROVE n + 1 \in G
  <2>1. PICK at : Chosen(items, n, f[n], at)
    BY <1>3
  <2>2. n + 1 \in 0 .. Len(items) /\ n + 1 # 0 /\ (n + 1) - 1 = n
    BY DEF IsContext
  <2>3. f[n + 1] = IF ~items[n + 1].blank /\ Fits(Append(f[n], items[n + 1]))
                   THEN Append(f[n], items[n + 1]) ELSE f[n]
    BY <1>1, <2>2 DEF Taking, WithItem
  <2>4. CASE ~items[n + 1].blank /\ Fits(Append(f[n], items[n + 1]))
    BY <2>1, <2>2, <2>3, <2>4, KeptTaken
  <2>5. CASE items[n + 1].blank \/ ~Fits(Append(f[n], items[n + 1]))
    BY <2>1, <2>2, <2>3, <2>5, KeptSkipped
  <2> QED BY <2>4, <2>5
<1> HIDE DEF G
<1>4. Len(items) \in Nat
  BY DEF IsContext
<1>5. 0 .. Len(items) \subseteq G
  BY <1>2, <1>3, <1>4, UpTo
<1>6. Len(items) \in G
  BY <1>4, <1>5
<1> USE DEF G
<1> QED BY <1>1, <1>6

\* What the renderer has taken of the items up to each position.
Taken(f, S, s) ==
    /\ f \in [0 .. Len(s) -> Seq(S)] /\ f[0] = <<>>
    /\ \A n \in 1 .. Len(s) : f[n] = WithItem(f[n - 1], s[n])

LEMMA RenderIsTaken ==
    ASSUME NEW S, NEW s \in Seq(S)
    PROVE  \E f : Taken(f, S, s) /\ Render(s) = f[Len(s)]
<1> PICK L \in Nat : L = Len(s)
  OBVIOUS
<1>1. IsContext(s) /\ \A n \in 1 .. L : s[n] \in S
  BY DEF IsContext
<1>2. PICK f : f = Taking(s, f) /\ Render(s) = f[L]
  BY <1>1, RenderIsTaking
<1>3. f[0] = <<>> /\ \A n \in 1 .. L : f[n] = WithItem(f[n - 1], s[n])
  BY <1>2 DEF Taking
<1>4. PICK G : G = {n \in 0 .. L : f[n] \in Seq(S)}
  OBVIOUS
<1>5. 0 \in G
  <2>1. 0 \in 0 .. L /\ <<>> \in Seq(S)
    OBVIOUS
  <2> QED BY <1>3, <1>4, <2>1
<1>6. ASSUME NEW n \in 0 .. L - 1, n \in G PROVE n + 1 \in G
  <2>1. n + 1 \in 1 .. L /\ (n + 1) - 1 = n /\ f[n] \in Seq(S)
    BY <1>4, <1>6
  <2>2. f[n + 1] = WithItem(f[n], s[n + 1]) /\ s[n + 1] \in S
    BY <1>1, <1>3, <2>1
  <2>3. f[n + 1] \in Seq(S)
    BY <2>1, <2>2 DEF WithItem
  <2> QED BY <1>4, <2>1, <2>3
<1>7. 0 .. L \subseteq G
  BY <1>5, <1>6, UpTo
<1>8. f \in [0 .. L -> Seq(S)]
  <2>1. f = [n \in 0 .. L |-> f[n]]
    BY <1>2 DEF Taking
  <2> QED BY <1>4, <1>7, <2>1
<1> QED BY <1>2, <1>3, <1>8 DEF Taken

-----------------------------------------------------------------------------
(* A sequence that picks entries of another one, in order *)

Picks(f, S, s) ==
    /\ f \in [0 .. Len(s) -> Seq(S)] /\ f[0] = <<>>
    /\ \A n \in 1 .. Len(s) : f[n] = f[n - 1] \/ f[n] = Append(f[n - 1], s[n])

\* One that is longer continues the other with some of the entries in between.
Continues(f, s, m, n) ==
    /\ Len(f[m]) <= Len(f[n]) /\ Len(f[n]) <= Len(f[m]) + (n - m)
    /\ \A k \in 1 .. Len(f[m]) : f[n][k] = f[m][k]
    /\ \A k \in 1 .. Len(f[n]) : k \in 1 .. Len(f[m]) \/ \E j \in m + 1 .. n : f[n][k] = s[j]

LEMMA PicksContinue ==
    ASSUME NEW S, NEW s \in Seq(S), NEW f, Picks(f, S, s), NEW m \in 0 .. Len(s), NEW n \in m .. Len(s)
    PROVE  Continues(f, s, m, n)
<1>1. PICK L \in Nat : L = Len(s)
  OBVIOUS
<1>2. /\ f \in [0 .. L -> Seq(S)] /\ m \in 0 .. L /\ n \in m .. L /\ L - m \in Nat
      /\ \A k \in 1 .. L : s[k] \in S /\ (f[k] = f[k - 1] \/ f[k] = Append(f[k - 1], s[k]))
  BY <1>1 DEF Picks
<1>3. PICK G : G = {d \in 0 .. L - m : Continues(f, s, m, m + d)}
  OBVIOUS
<1>4. 0 \in G
  <2>1. f[m] \in Seq(S) /\ m + 0 = m /\ m - m = 0
    BY <1>2
  <2>2. Continues(f, s, m, m)
    BY <2>1 DEF Continues
  <2> QED BY <1>2, <1>3, <2>1, <2>2
<1>5. ASSUME NEW d \in 0 .. (L - m) - 1, d \in G PROVE d + 1 \in G
  <2>1. PICK e : e = m + d
    OBVIOUS
  <2>2. e \in m .. L - 1 /\ e + 1 = m + (d + 1) /\ e \in 0 .. L /\ e + 1 \in 1 .. L /\ (e + 1) - 1 = e
    BY <1>2, <2>1
  <2>3. Continues(f, s, m, e)
    BY <1>3, <1>5, <2>1
  <2>4. f[m] \in Seq(S) /\ f[e] \in Seq(S) /\ s[e + 1] \in S
    BY <1>2, <2>2
  <2>5. f[e + 1] = f[e] \/ f[e + 1] = Append(f[e], s[e + 1])
    BY <1>2, <2>2
  <2>6. CASE f[e + 1] = f[e]
    <3>1. Continues(f, s, m, e + 1)
      BY <1>2, <2>2, <2>3, <2>4, <2>6 DEF Continues
    <3> QED BY <1>3, <1>5, <2>2, <3>1
  <2>7. CASE f[e + 1] = Append(f[e], s[e + 1])
    <3>1. /\ Len(f[e + 1]) = Len(f[e]) + 1 /\ f[e + 1][Len(f[e]) + 1] = s[e + 1]
          /\ \A k \in 1 .. Len(f[e]) : f[e + 1][k] = f[e][k]
      BY <2>4, <2>7
    <3>2. Len(f[m]) <= Len(f[e + 1]) /\ Len(f[e + 1]) <= Len(f[m]) + ((e + 1) - m)
      <4>1. Len(f[m]) \in Nat /\ Len(f[e]) \in Nat /\ m \in Nat /\ e \in Nat
        BY <1>2, <2>2, <2>4
      <4>2. Len(f[m]) <= Len(f[e]) /\ Len(f[e]) <= Len(f[m]) + (e - m)
        BY <2>3 DEF Continues
      <4>3. PICK few \in Nat, more \in Nat : few = Len(f[m]) /\ more = Len(f[e])
        BY <4>1
      <4>4. few <= more /\ more <= few + (e - m) /\ Len(f[e + 1]) = more + 1
        BY <3>1, <4>2, <4>3
      <4>5. few <= more + 1 /\ more + 1 <= few + ((e + 1) - m)
        BY <4>1, <4>4
      <4> QED BY <4>3, <4>4, <4>5
    <3>3. \A k \in 1 .. Len(f[m]) : f[e + 1][k] = f[m][k]
      BY <2>3, <2>4, <3>1 DEF Continues
    <3>4. ASSUME NEW k \in 1 .. Len(f[e + 1]), k \notin 1 .. Len(f[m])
          PROVE  \E j \in m + 1 .. e + 1 : f[e + 1][k] = s[j]
      <4>1. CASE k = Len(f[e]) + 1
        <5>1. e + 1 \in m + 1 .. e + 1
          BY <1>2, <2>2
        <5> QED BY <3>1, <4>1, <5>1
      <4>2. CASE k \in 1 .. Len(f[e])
        <5>1. PICK j \in m + 1 .. e : f[e][k] = s[j]
          BY <2>3, <3>4, <4>2 DEF Continues
        <5>2. j \in m + 1 .. e + 1
          BY <1>2, <2>2, <5>1
        <5> QED BY <3>1, <4>2, <5>1, <5>2
      <4> QED BY <2>4, <3>1, <4>1, <4>2
    <3>5. Continues(f, s, m, e + 1)
      BY <3>2, <3>3, <3>4 DEF Continues
    <3> QED BY <1>3, <1>5, <2>2, <3>5
  <2> QED BY <2>5, <2>6, <2>7
<1>6. 0 .. L - m \subseteq G
  BY <1>2, <1>4, <1>5, UpTo
<1>7. n - m \in 0 .. L - m /\ m + (n - m) = n
  BY <1>2
<1> QED BY <1>3, <1>6, <1>7

LEMMA RefsAre ==
    ASSUME NEW S, NEW items \in Seq(S)
    PROVE  /\ DOMAIN Refs(items) = 1 .. Len(items)
           /\ \A k \in 1 .. Len(items) : Refs(items)[k] = items[k].ref
           /\ ToSet(Refs(items)) = {items[k].ref : k \in 1 .. Len(items)}
  BY DEF Refs, ToSet

-----------------------------------------------------------------------------
(* A text that has more to show continues the one that has less *)

\* The sequence all begins with few and goes on with entries of b.
GoesOn(few, all, b) ==
    /\ Len(few) <= Len(all) /\ \A k \in 1 .. Len(few) : all[k] = few[k]
    /\ \A k \in 1 .. Len(all) : k \in 1 .. Len(few) \/ \E j \in 1 .. Len(b) : all[k] = b[j]

\* What the renderer takes of a and b is what it takes of a, and then some of b.
LEMMA RenderContinues ==
    ASSUME NEW S, NEW a \in Seq(S), NEW b \in Seq(S)
    PROVE  Render(a) \in Seq(S) /\ Render(a \o b) \in Seq(S) /\ GoesOn(Render(a), Render(a \o b), b)
<1>1. PICK both, L, M, N : both = a \o b /\ L = Len(a) /\ M = Len(b) /\ N = Len(both)
  OBVIOUS
<1>2. /\ both \in Seq(S) /\ L \in Nat /\ M \in Nat /\ N = L + M
      /\ \A k \in 1 .. L : both[k] = a[k]
      /\ \A k \in L + 1 .. N : k - L \in 1 .. M /\ both[k] = b[k - L]
  BY <1>1, ConcatProperties
<1>3. PICK f : Taken(f, S, both) /\ Render(both) = f[N]
  <2>1. both \in Seq(S) /\ N = Len(both)
    BY <1>1, <1>2
  <2> QED BY <2>1, RenderIsTaken
<1>4. PICK g : Taken(g, S, a) /\ Render(a) = g[L]
  BY <1>1, RenderIsTaken
<1>5. Picks(f, S, both)
  BY <1>3 DEF Taken, Picks, WithItem
<1>6. f \in [0 .. N -> Seq(S)] /\ g \in [0 .. L -> Seq(S)]
  BY <1>1, <1>3, <1>4 DEF Taken
<1>7. PICK G : G = {k \in 0 .. L : g[k] = f[k]}
  OBVIOUS
<1>8. 0 \in G
  BY <1>2, <1>3, <1>4, <1>7 DEF Taken
<1>9. ASSUME NEW k \in 0 .. L - 1, k \in G PROVE k + 1 \in G
  <2>1. k + 1 \in 1 .. L /\ k + 1 \in 1 .. N /\ (k + 1) - 1 = k
    BY <1>2
  <2>2. f[k + 1] = WithItem(f[(k + 1) - 1], both[k + 1]) /\ g[k + 1] = WithItem(g[(k + 1) - 1], a[k + 1])
    BY <1>1, <1>3, <1>4, <2>1 DEF Taken
  <2>3. both[k + 1] = a[k + 1] /\ f[k] = g[k]
    BY <1>2, <1>7, <1>9, <2>1
  <2>4. g[k + 1] = f[k + 1]
    BY <2>1, <2>2, <2>3
  <2> QED BY <1>2, <1>7, <2>1, <2>4
<1>10. 0 .. L \subseteq G
  BY <1>2, <1>8, <1>9, UpTo
<1>11. g[L] = f[L]
  BY <1>2, <1>7, <1>10
<1>12. Continues(f, both, L, N)
  <2>1. both \in Seq(S) /\ L \in 0 .. Len(both) /\ N \in L .. Len(both)
    BY <1>1, <1>2
  <2> QED BY <1>5, <2>1, PicksContinue
<1>13. ASSUME NEW k \in 1 .. Len(f[N]), k \notin 1 .. Len(f[L])
       PROVE  \E j \in 1 .. M : f[N][k] = b[j]
  <2>1. PICK j \in L + 1 .. N : f[N][k] = both[j]
    BY <1>12, <1>13 DEF Continues
  <2> QED BY <1>2, <2>1
<1>14. Len(f[L]) <= Len(f[N]) /\ \A k \in 1 .. Len(f[L]) : f[N][k] = f[L][k]
  BY <1>12 DEF Continues
<1>15. f[L] \in Seq(S) /\ f[N] \in Seq(S)
  BY <1>2, <1>6
<1>16. Render(a) = f[L] /\ Render(a \o b) = f[N]
  BY <1>1, <1>3, <1>4, <1>11
<1>17. GoesOn(f[L], f[N], b)
  BY <1>1, <1>13, <1>14 DEF GoesOn
<1> QED BY <1>15, <1>16, <1>17

\* What is shown is visible.
LEMMA ShownIsVisible ==
    ASSUME NEW S, NEW s \in Seq(S)
    PROVE  /\ Render(s) \in Seq(S)
           /\ \A k \in 1 .. Len(Render(s)) : \E n \in VisibleAt(s) : Render(s)[k] = s[n]
<1>1. Render(s) \in Seq(S)
  <2>1. PICK f : Taken(f, S, s) /\ Render(s) = f[Len(s)]
    BY RenderIsTaken
  <2> QED BY <2>1 DEF Taken
<1>2. IsContext(s)
  BY DEF IsContext
<1>3. PICK at : Chosen(s, Len(s), Render(s), at)
  BY <1>2, RenderKeeps
<1>4. PICK t : t = Render(s)
  OBVIOUS
<1>5. ASSUME NEW k \in 1 .. Len(t) PROVE \E n \in VisibleAt(s) : t[k] = s[n]
  <2>1. at[k] \in 1 .. Len(s) /\ ~s[at[k]].blank
    BY <1>3, <1>4 DEF Chosen
  <2>2. t = [i \in 1 .. Len(t) |-> s[at[i]]]
    BY <1>3, <1>4 DEF Chosen
  <2> QED BY <2>1, <2>2 DEF VisibleAt
<1> QED BY <1>1, <1>4, <1>5

\* Items of two lists that may be rendered together: the first list is shown as if it were
\* alone, and what the text has beyond that is of the second.
LEMMA ShownTogether ==
    ASSUME NEW S, NEW a \in Seq(S), NEW b \in Seq(S), Renderable(a \o b)
    PROVE  /\ ToSet(Refs(Render(a))) \subseteq VisibleRefs(a)
           /\ VisibleRefs(a) \cap VisibleRefs(b) = {}
           /\ VisibleRefs(a) \cap ToSet(Refs(Render(a \o b))) = ToSet(Refs(Render(a)))
           /\ VisibleRefs(b) \cap ToSet(Refs(Render(a \o b))) = {} =>
                 Refs(Render(a \o b)) = Refs(Render(a))
<1>1. PICK few, all, L, M, N : /\ few = Render(a) /\ all = Render(a \o b)
                               /\ L = Len(few) /\ M = Len(all) /\ N = Len(a)
  OBVIOUS
<1>2. /\ few \in Seq(S) /\ all \in Seq(S) /\ L \in Nat /\ M \in Nat /\ L <= M
      /\ \A k \in 1 .. L : all[k] = few[k]
      /\ \A k \in 1 .. M : k \in 1 .. L \/ \E j \in 1 .. Len(b) : all[k] = b[j]
  BY <1>1, RenderContinues DEF GoesOn
<1>3. /\ ToSet(Refs(few)) = {few[k].ref : k \in 1 .. L}
      /\ ToSet(Refs(all)) = {all[k].ref : k \in 1 .. M}
      /\ Refs(few) = [k \in 1 .. L |-> few[k].ref]
      /\ Refs(all) = [k \in 1 .. M |-> all[k].ref]
  <2>1. DOMAIN few = 1 .. L /\ DOMAIN all = 1 .. M
    BY <1>1, <1>2
  <2>2. Refs(few) = [k \in 1 .. L |-> few[k].ref] /\ Refs(all) = [k \in 1 .. M |-> all[k].ref]
    BY <2>1 DEF Refs
  <2>3. /\ ToSet(Refs(few)) = {few[k].ref : k \in 1 .. Len(few)}
        /\ ToSet(Refs(all)) = {all[k].ref : k \in 1 .. Len(all)}
    BY <1>2, RefsAre
  <2> QED BY <1>1, <2>2, <2>3
<1>4. \A k \in 1 .. L : \E n \in VisibleAt(a) : few[k] = a[n]
  BY <1>1, ShownIsVisible
<1>5. ToSet(Refs(few)) \subseteq VisibleRefs(a)
  BY <1>3, <1>4 DEF VisibleRefs
<1>6. /\ a \o b \in Seq(S) /\ Len(a \o b) = N + Len(b) /\ N \in Nat /\ Len(b) \in Nat
      /\ \A n \in 1 .. N : (a \o b)[n] = a[n]
      /\ \A n \in 1 .. Len(b) : (a \o b)[N + n] = b[n]
  <2>1. /\ \A n \in 1 .. N : (a \o b)[n] = a[n]
        /\ \A n \in N + 1 .. N + Len(b) : (a \o b)[n] = b[n - N]
        /\ a \o b \in Seq(S) /\ Len(a \o b) = N + Len(b) /\ N \in Nat /\ Len(b) \in Nat
    BY <1>1, ConcatProperties
  <2>2. ASSUME NEW n \in 1 .. Len(b) PROVE (a \o b)[N + n] = b[n]
    <3>1. N + n \in N + 1 .. N + Len(b) /\ (N + n) - N = n
      BY <2>1
    <3> QED BY <2>1, <3>1
  <2> QED BY <2>1, <2>2
<1>7. \A n \in VisibleAt(a) : n \in 1 .. N /\ n \in VisibleAt(a \o b) /\ (a \o b)[n] = a[n]
  BY <1>1, <1>6 DEF VisibleAt
<1>8. \A n \in VisibleAt(b) : N + n \in VisibleAt(a \o b) /\ (a \o b)[N + n] = b[n] /\ n \in 1 .. Len(b)
  BY <1>1, <1>6 DEF VisibleAt
<1>9. VisibleRefs(a) \cap VisibleRefs(b) = {}
  <2>1. ASSUME NEW m \in VisibleAt(a), NEW n \in VisibleAt(b), a[m].ref = b[n].ref PROVE FALSE
    <3>1. m = N + n
      <4>1. PICK both : both = a \o b
        OBVIOUS
      <4>2. m \in VisibleAt(both) /\ N + n \in VisibleAt(both) /\ both[m].ref = both[N + n].ref
        BY <1>7, <1>8, <2>1, <4>1
      <4>3. Renderable(both)
        BY <4>1
      <4> QED BY <4>2, <4>3 DEF Renderable
    <3>2. m \in 1 .. N /\ n \in 1 .. Len(b)
      BY <1>7, <1>8
    <3> QED BY <1>6, <3>1, <3>2
  <2> QED BY <2>1 DEF VisibleRefs
<1>10. ASSUME NEW k \in 1 .. M, k \notin 1 .. L PROVE all[k].ref \in VisibleRefs(b)
  <2>1. PICK j \in 1 .. Len(b) : all[k] = b[j]
    BY <1>2, <1>10
  <2>2. PICK n \in VisibleAt(a \o b) : all[k] = (a \o b)[n]
    <3>1. PICK both \in Seq(S) : both = a \o b
      BY <1>6
    <3>2. all = Render(both) /\ k \in 1 .. Len(Render(both))
      BY <1>1, <3>1
    <3>3. \E n \in VisibleAt(both) : Render(both)[k] = both[n]
      BY <3>2, ShownIsVisible
    <3> QED BY <3>1, <3>2, <3>3
  <2>3. ~b[j].blank /\ j \in DOMAIN b
    BY <2>1, <2>2 DEF VisibleAt
  <2> QED BY <2>1, <2>3 DEF VisibleRefs, VisibleAt
<1>11. VisibleRefs(a) \cap ToSet(Refs(all)) = ToSet(Refs(few))
  <2>1. ToSet(Refs(few)) \subseteq ToSet(Refs(all))
    <3>1. \A k \in 1 .. L : k \in 1 .. M /\ few[k].ref = all[k].ref
      BY <1>2
    <3> QED BY <1>3, <3>1
  <2>2. ASSUME NEW k \in 1 .. M, all[k].ref \in VisibleRefs(a) PROVE all[k].ref \in ToSet(Refs(few))
    <3>1. k \in 1 .. L
      BY <1>9, <1>10, <2>2
    <3>2. all[k].ref = few[k].ref
      BY <1>2, <3>1
    <3> QED BY <1>3, <3>1, <3>2
  <2> QED BY <1>3, <1>5, <2>1, <2>2
<1>12. ASSUME VisibleRefs(b) \cap ToSet(Refs(all)) = {} PROVE Refs(all) = Refs(few)
  <2>1. \A k \in 1 .. M : k \in 1 .. L
    BY <1>3, <1>10, <1>12
  <2>2. M = L
    BY <1>2, <2>1
  <2> QED BY <1>2, <1>3, <2>2
<1> QED BY <1>1, <1>5, <1>9, <1>11, <1>12

\* Nothing is rendered of nothing.
LEMMA ShownOfNothing == Refs(Render(<<>>)) = <<>>
<1>1. IsContext(<<>>)
  BY DEF IsContext
<1>2. PICK f : f = Taking(<<>>, f) /\ Render(<<>>) = f[Len(<<>>)]
  BY <1>1, RenderIsTaking
<1>3. Render(<<>>) = <<>>
  BY <1>2 DEF Taking
<1> QED BY <1>3 DEF Refs

-----------------------------------------------------------------------------
(* Sums over a finite set *)

\* The equation of SumFunctionOnSet: one element after another is taken out.
AddsUp(f, fun, S, pick) ==
    f = [s \in SUBSET S |-> IF s = {} THEN 0 ELSE fun[pick[s]] + f[s \ {pick[s]}]]

LEMMA SmallerSet ==
    ASSUME NEW S, IsFiniteSet(S), NEW x \in S
    PROVE  /\ IsFiniteSet(S \ {x}) /\ Cardinality(S) \in Nat /\ Cardinality(S) # 0
           /\ Cardinality(S \ {x}) = Cardinality(S) - 1
BY FS_RemoveElement, FS_CardinalityType, FS_EmptySet

LEMMA SumExists ==
    ASSUME NEW S, IsFiniteSet(S), NEW fun \in [S -> Int],
           NEW pick, \A s \in SUBSET S : s # {} => pick[s] \in s
    PROVE  \E f : f \in [SUBSET S -> Int] /\ AddsUp(f, fun, S, pick)
<1> PICK N \in Nat : N = Cardinality(S)
  BY FS_CardinalityType
<1> DEFINE Once(g) == [s \in SUBSET S |-> IF s = {} THEN 0 ELSE fun[pick[s]] + g[s \ {pick[s]}]]
<1>1. PICK V, init : V = [SUBSET S -> Int] /\ init = [s \in SUBSET S |-> 0]
  OBVIOUS
<1>2. ASSUME NEW g \in V PROVE Once(g) \in V
  <2>1. ASSUME NEW s \in SUBSET S, s # {} PROVE fun[pick[s]] + g[s \ {pick[s]}] \in Int
    <3>1. pick[s] \in S /\ s \ {pick[s]} \in SUBSET S
      BY <2>1
    <3> QED BY <1>1, <1>2, <3>1
  <2> QED BY <1>1, <2>1
<1>3. PICK step : step = [n \in 1 .. N + 1 |-> [g \in V |-> Once(g)]]
  OBVIOUS
<1>4. PICK F : Built(F, N + 1, V, init, step)
  <2>1. init \in V /\ step \in [1 .. N + 1 -> [V -> V]] /\ N + 1 \in Nat
    BY <1>1, <1>2, <1>3
  <2> QED BY <2>1, Recursion
<1>5. /\ \A n \in 0 .. N + 1 : F[n] \in V
      /\ \A n \in 0 .. N : F[n + 1] = Once(F[n])
  <2>1. \A n \in 0 .. N + 1 : F[n] \in V
    BY <1>4 DEF Built
  <2>2. ASSUME NEW n \in 0 .. N PROVE F[n + 1] = Once(F[n])
    <3>1. n + 1 \in 1 .. N + 1 /\ (n + 1) - 1 = n /\ n \in 0 .. N + 1
      OBVIOUS
    <3>2. F[n + 1] = step[n + 1][F[n]]
      BY <1>4, <3>1 DEF Built
    <3> HIDE DEF Once
    <3> QED BY <1>3, <2>1, <3>1, <3>2
  <2> QED BY <2>1, <2>2
<1>6. PICK G : G = {n \in 0 .. N : \A s \in SUBSET S : Cardinality(s) <= n => F[n + 1][s] = F[n][s]}
  OBVIOUS
<1>7. 0 \in G
  <2>1. ASSUME NEW s \in SUBSET S, Cardinality(s) <= 0 PROVE F[0 + 1][s] = F[0][s]
    <3>1. s = {}
      BY <2>1, FS_Subset, FS_CardinalityType, FS_EmptySet
    <3>2. 0 \in 0 .. N /\ F[0] = init
      BY <1>4 DEF Built
    <3>3. F[0 + 1] = Once(F[0])
      BY <1>5, <3>2
    <3> QED BY <1>1, <3>1, <3>2, <3>3
  <2> QED BY <1>6, <2>1
<1>8. ASSUME NEW n \in 0 .. N - 1, n \in G PROVE n + 1 \in G
  <2>1. n + 1 \in 0 .. N /\ n \in 0 .. N
    OBVIOUS
  <2>2. F[n + 1] = Once(F[n]) /\ F[(n + 1) + 1] = Once(F[n + 1])
    BY <1>5, <2>1
  <2>3. ASSUME NEW s \in SUBSET S, Cardinality(s) <= n + 1 PROVE F[(n + 1) + 1][s] = F[n + 1][s]
    <3>1. CASE s = {}
      BY <2>2, <3>1
    <3>2. CASE s # {}
      <4>1. PICK x \in s : x = pick[s]
        BY <3>2
      <4>2. s \ {x} \in SUBSET S /\ Cardinality(s \ {x}) <= n
        <5>1. IsFiniteSet(s)
          BY FS_Subset
        <5>2. Cardinality(s) \in Nat /\ Cardinality(s \ {x}) = Cardinality(s) - 1
          BY <5>1, SmallerSet
        <5> QED BY <2>3, <5>2
      <4>3. F[n + 1][s \ {x}] = F[n][s \ {x}]
        BY <1>6, <1>8, <4>2
      <4> QED BY <2>2, <3>2, <4>1, <4>3
    <3> QED BY <3>1, <3>2
  <2> QED BY <1>6, <2>1, <2>3
<1>9. N \in G
  <2>1. 0 .. N \subseteq G
    BY <1>7, <1>8, UpTo
  <2> QED BY <2>1
<1>10. \A s \in SUBSET S : F[N + 1][s] = F[N][s]
  <2>1. \A s \in SUBSET S : Cardinality(s) <= N
    BY FS_Subset
  <2> QED BY <1>6, <1>9, <2>1
<1>11. F[N + 1] = F[N]
  <2>1. F[N] \in [SUBSET S -> Int] /\ F[N + 1] \in [SUBSET S -> Int]
    BY <1>1, <1>5
  <2> QED BY <1>10, <2>1
<1>12. PICK f \in [SUBSET S -> Int] : f = F[N] /\ f = Once(f)
  <2>1. N \in 0 .. N /\ N \in 0 .. N + 1
    OBVIOUS
  <2>2. F[N] \in [SUBSET S -> Int]
    BY <1>1, <1>5, <2>1
  <2>3. F[N + 1] = Once(F[N])
    BY <1>5, <2>1
  <2> QED BY <1>11, <2>2, <2>3
<1>13. AddsUp(f, fun, S, pick)
  BY <1>12 DEF AddsUp
<1> QED BY <1>13

\* A sum is a number, and one that is positive has a summand that is.
LEMMA SumIs ==
    ASSUME NEW S, IsFiniteSet(S), NEW fun, \A x \in S : fun[x] \in Int
    PROVE  /\ SumFunctionOnSet(fun, S) \in Int
           /\ SumFunctionOnSet(fun, S) > 0 => \E x \in S : fun[x] > 0
<1> PICK N \in Nat : N = Cardinality(S)
  BY FS_CardinalityType
<1>1. PICK pick : pick = [s \in SUBSET S |-> CHOOSE x \in s : TRUE]
  OBVIOUS
<1>2. \A s \in SUBSET S : s # {} => pick[s] \in s
  BY <1>1
<1> DEFINE Is(f) == f = [s \in SUBSET S |->
                            IF s = {} THEN 0
                            ELSE fun[CHOOSE x \in s : TRUE] + f[s \ {CHOOSE x \in s : TRUE}]]
<1>3. SumFunctionOnSet(fun, S) = (CHOOSE f : Is(f))[S]
  BY DEF SumFunctionOnSet, FoldFunctionOnSet, MapThenFoldSet
<1>4. \E f : Is(f)
  <2>1. PICK few : few = [x \in S |-> fun[x]]
    OBVIOUS
  <2>2. few \in [S -> Int]
    BY <2>1
  <2>3. PICK f \in [SUBSET S -> Int] : AddsUp(f, few, S, pick)
    BY <1>2, <2>2, SumExists
  <2>4. ASSUME NEW s \in SUBSET S, s # {}
        PROVE  f[s] = fun[CHOOSE x \in s : TRUE] + f[s \ {CHOOSE x \in s : TRUE}]
    BY <1>1, <1>2, <2>1, <2>3, <2>4 DEF AddsUp
  <2>5. f[{}] = 0 /\ f = [s \in SUBSET S |-> f[s]]
    BY <2>3 DEF AddsUp
  <2>6. Is(f)
    BY <2>4, <2>5
  <2> QED BY <2>6
<1>5. PICK f : f = (CHOOSE g : Is(g)) /\ Is(f)
  <2> HIDE DEF Is
  <2> QED BY <1>4
<1>6. f[{}] = 0 /\ \A s \in SUBSET S : s # {} => f[s] = fun[pick[s]] + f[s \ {pick[s]}]
  BY <1>1, <1>5
<1> DEFINE Fine(s) == f[s] \in Int /\ (f[s] > 0 => \E x \in s : fun[x] > 0)
           G == {n \in 0 .. N : \A s \in SUBSET S : Cardinality(s) <= n => Fine(s)}
<1>7. 0 \in G
  <2>1. ASSUME NEW s \in SUBSET S, Cardinality(s) <= 0 PROVE s = {}
    BY <2>1, FS_Subset, FS_CardinalityType, FS_EmptySet
  <2> QED BY <1>6, <2>1
<1>8. ASSUME NEW n \in 0 .. N - 1, n \in G PROVE n + 1 \in G
  <2>1. ASSUME NEW s \in SUBSET S, Cardinality(s) <= n + 1, s # {} PROVE Fine(s)
    <3>1. PICK x \in s : x = pick[s]
      BY <1>2, <2>1
    <3>2. s \ {x} \in SUBSET S /\ Cardinality(s \ {x}) <= n
      <4>1. IsFiniteSet(s)
        BY FS_Subset
      <4>2. Cardinality(s) \in Nat /\ Cardinality(s \ {x}) = Cardinality(s) - 1
        BY <4>1, SmallerSet
      <4> QED BY <2>1, <4>2
    <3>3. Fine(s \ {x})
      BY <1>8, <3>2
    <3>4. f[s] = fun[x] + f[s \ {x}] /\ fun[x] \in Int
      BY <1>6, <2>1, <3>1
    <3> QED BY <3>3, <3>4
  <2>2. Fine({})
    BY <1>6
  <2>3. n + 1 \in 0 .. N
    OBVIOUS
  <2> HIDE DEF Fine
  <2>4. \A s \in SUBSET S : Cardinality(s) <= n + 1 => Fine(s)
    BY <2>1, <2>2
  <2> QED BY <2>3, <2>4
<1>9. N \in G
  <2> HIDE DEF G
  <2>1. 0 .. N \subseteq G
    BY <1>7, <1>8, UpTo
  <2> QED BY <2>1
<1>10. Fine(S)
  <2>1. S \in SUBSET S /\ Cardinality(S) <= N
    OBVIOUS
  <2> HIDE DEF Fine
  <2> QED BY <1>9, <2>1
<1> HIDE DEF Is
<1> QED BY <1>3, <1>5, <1>10

===============================================================================
