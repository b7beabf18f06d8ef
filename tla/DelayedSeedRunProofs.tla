------------------------ MODULE DelayedSeedRunProofs ------------------------
(***************************************************************************)
(* Proofs about DelayedSeedRun, for every cohort, every context Core may   *)
(* select, every reply of the models and any number of crashes and of      *)
(* changes of what the manifest binds.                                     *)
(***************************************************************************)
EXTENDS DelayedSeedRun, RenderingProofs

-----------------------------------------------------------------------------
(* The four arms of one Select *)

\* What the arms of build_delayed_contexts have in common: the same Recollections are
\* shown in each, and a Disposition that is not shown leaves the learned arm with the
\* text of the RAG arm.
Paired(contexts) ==
    /\ \A mode \in Modes : contexts[mode].recollections = contexts[Rag].recollections
    /\ contexts[Learned].dispositions = {} => contexts[Learned].text = contexts[Rag].text

LEMMA ModesDiffer ==
    /\ Modes = {Rag, Learned, Oracle, Anti}
    /\ Rag # Learned /\ Rag # Oracle /\ Rag # Anti
    /\ Learned # Oracle /\ Learned # Anti /\ Oracle # Anti
BY DEF Modes, Rag, Learned, Oracle, Anti

\* The arms, one by one.
LEMMA ArmsAre ==
    ASSUME NEW memory, NEW size, NEW mode \in Modes
    PROVE  LET contexts == BuildDelayedContexts(memory, size)
               text == Refs(Render(memory.recollections \o Given(memory, mode, size)))
           IN  /\ contexts[mode].text = text
               /\ contexts[mode].recollections = VisibleRefs(memory.recollections) \cap ToSet(text)
               /\ contexts[mode].dispositions = VisibleRefs(Given(memory, mode, size)) \cap ToSet(text)
               /\ contexts[mode].selected = VisibleRefs(memory.dispositions)
BY DEF BuildDelayedContexts, Modes, Rag, Learned, Oracle, Anti

\* A counterfactual Disposition has one visible item, and it may be shown beside the
\* Recollections of a memory of Core.
LEMMA CounterfactualIsRenderable ==
    ASSUME NEW S, NEW a \in Seq(S), NEW b, Renderable(a \o b), b \in Seq(S),
           NEW mode \in {Oracle, Anti}, mode \notin VisibleRefs(a), NEW size
    PROVE  /\ Counterfactual(mode, size) \in Seq({Counterfactual(mode, size)[1]})
           /\ VisibleRefs(Counterfactual(mode, size)) = {mode}
           /\ Renderable(a \o Counterfactual(mode, size))
<1> DEFINE item == [section |-> "DISPOSITIONS", ref |-> mode, scope |-> "RELATION", size |-> size,
                    blank |-> FALSE]
           c == <<item>>
           N == Len(a)
<1>1. Counterfactual(mode, size) = c /\ Len(c) = 1 /\ c[1] = item
  BY DEF Counterfactual
<1>2. item.ref = mode /\ item.scope = "RELATION" /\ ~item.blank
  OBVIOUS
<1> HIDE DEF item
<1>3. c \in Seq({item}) /\ N \in Nat /\ DOMAIN c = {1}
  OBVIOUS
<1>4. VisibleAt(c) = {1} /\ VisibleRefs(c) = {mode}
  BY <1>1, <1>2, <1>3 DEF VisibleAt, VisibleRefs
<1>5. /\ DOMAIN (a \o b) = 1 .. N + Len(b) /\ Len(b) \in Nat
      /\ \A k \in 1 .. N : (a \o b)[k] = a[k]
  OBVIOUS
<1>6. PICK T : a \in Seq(T) /\ c \in Seq(T)
  <2>1. a \in Seq(S \cup {item}) /\ c \in Seq(S \cup {item})
    BY <1>3
  <2> QED BY <2>1
<1>7. /\ DOMAIN (a \o c) = 1 .. N + 1
      /\ \A k \in 1 .. N : (a \o c)[k] = a[k]
      /\ (a \o c)[N + 1] = item
  <2> HIDE DEF c
  <2>1. Len(a \o c) = N + 1 /\ a \o c \in Seq(T)
    <3>1. Len(a \o c) = Len(a) + Len(c) /\ a \o c \in Seq(T)
      BY <1>6, ConcatProperties
    <3> QED BY <1>1, <3>1
  <2>2. DOMAIN (a \o c) = 1 .. N + 1
    BY <2>1
  <2>3. (a \o c)[N + 1] = c[(N + 1) - N]
    BY <1>1, <1>3, <1>6, ConcatProperties
  <2>4. \A k \in 1 .. N : (a \o c)[k] = a[k]
    BY <1>6, ConcatProperties
  <2>5. (N + 1) - N = 1
    BY <1>3
  <2> QED BY <1>1, <2>2, <2>3, <2>4, <2>5
<1> HIDE DEF c
<1>8. DOMAIN a = 1 .. N
  OBVIOUS
<1>9. /\ VisibleAt(a \o c) = VisibleAt(a) \cup {N + 1}
      /\ VisibleAt(a) \subseteq 1 .. N /\ VisibleAt(a) \subseteq VisibleAt(a \o b)
  BY <1>2, <1>3, <1>5, <1>7, <1>8 DEF VisibleAt
<1>10. \A n \in VisibleAt(a) : a[n].ref \in VisibleRefs(a)
  BY DEF VisibleRefs
<1>11. mode # None /\ "RELATION" # None
  BY NoneIsFresh
<1>12. ASSUME NEW m \in VisibleAt(a \o c), NEW n \in VisibleAt(a \o c),
              (a \o c)[m].ref = (a \o c)[n].ref
       PROVE  m = n
  <2>1. CASE m \in VisibleAt(a) /\ n \in VisibleAt(a)
    BY <1>5, <1>7, <1>9, <1>12, <2>1 DEF Renderable
  <2>2. CASE m = N + 1 /\ n \in VisibleAt(a)
    BY <1>2, <1>7, <1>9, <1>10, <1>12, <2>2
  <2>3. CASE n = N + 1 /\ m \in VisibleAt(a)
    BY <1>2, <1>7, <1>9, <1>10, <1>12, <2>3
  <2> QED BY <1>9, <2>1, <2>2, <2>3
<1>13. ASSUME NEW n \in VisibleAt(a \o c)
       PROVE  /\ (a \o c)[n].ref # None
              /\ (a \o c)[n].section \in Scoped => (a \o c)[n].scope # None
  BY <1>2, <1>5, <1>7, <1>9, <1>11 DEF Renderable
<1> QED BY <1>1, <1>3, <1>4, <1>12, <1>13 DEF Renderable

\* The rendered texts of a memory of Core, with a counterfactual in place of its
\* Dispositions.
LEMMA CounterfactualShown ==
    ASSUME NEW memory, Selectable(memory), NEW size,
           NEW mode \in {Oracle, Anti}, mode \notin VisibleRefs(memory.recollections)
    PROVE  LET a == memory.recollections
               few == ToSet(Refs(Render(a)))
               all == ToSet(Refs(Render(a \o Counterfactual(mode, size))))
           IN  VisibleRefs(a) \cap all = few /\ all \subseteq VisibleRefs(a) \cup {mode}
<1> DEFINE a == memory.recollections
           c == Counterfactual(mode, size)
           S == ToSet(a) \cup ToSet(memory.dispositions)
           T == S \cup {c[1]}
           all == Refs(Render(a \o c))
<1>1. PICK b : a \in Seq(S) /\ b \in Seq(S) /\ Renderable(a \o b) /\ mode \notin VisibleRefs(a)
  BY DEF Selectable
<1> HIDE DEF a, S
<1>2. c \in Seq({c[1]}) /\ VisibleRefs(c) = {mode} /\ Renderable(a \o c)
  BY <1>1, CounterfactualIsRenderable
<1> HIDE DEF c
<1>3. a \in Seq(T) /\ c \in Seq(T)
  BY <1>1, <1>2
<1> HIDE DEF T
<1>4. VisibleRefs(a) \cap ToSet(all) = ToSet(Refs(Render(a)))
  BY <1>2, <1>3, ShownTogether
<1>5. /\ a \o c \in Seq(T) /\ Len(a \o c) = Len(a) + Len(c) /\ Len(a) \in Nat /\ Len(c) \in Nat
      /\ \A k \in 1 .. Len(a) : (a \o c)[k] = a[k]
      /\ \A k \in Len(a) + 1 .. Len(a) + Len(c) : (a \o c)[k] = c[k - Len(a)]
  BY <1>3, ConcatProperties
<1>6. Render(a \o c) \in Seq(T)
  BY <1>5, ShownIsVisible
<1>7. ASSUME NEW k \in 1 .. Len(Render(a \o c)) PROVE Render(a \o c)[k].ref \in VisibleRefs(a) \cup {mode}
  <2>1. PICK n \in VisibleAt(a \o c) : Render(a \o c)[k] = (a \o c)[n]
    BY <1>5, ShownIsVisible
  <2>2. n \in 1 .. Len(a) + Len(c) /\ ~(a \o c)[n].blank
    BY <1>5 DEF VisibleAt
  <2>3. CASE n \in 1 .. Len(a)
    <3>1. n \in VisibleAt(a)
      BY <1>3, <1>5, <2>2, <2>3 DEF VisibleAt
    <3> QED BY <1>5, <2>1, <2>3, <3>1 DEF VisibleRefs
  <2>4. CASE n \in Len(a) + 1 .. Len(a) + Len(c)
    <3>1. n - Len(a) \in VisibleAt(c)
      BY <1>3, <1>5, <2>2, <2>4 DEF VisibleAt
    <3> QED BY <1>2, <1>5, <2>1, <2>4, <3>1 DEF VisibleRefs
  <2> QED BY <1>5, <2>2, <2>3, <2>4
<1>8. ToSet(all) \subseteq VisibleRefs(a) \cup {mode}
  BY <1>6, <1>7, RefsAre
<1> QED BY <1>4, <1>8 DEF a, c

LEMMA ArmsArePaired ==
    ASSUME NEW memory, Selectable(memory), {Oracle, Anti} \cap VisibleRefs(memory.recollections) = {},
           NEW size
    PROVE  Paired(BuildDelayedContexts(memory, size))
<1> DEFINE a == memory.recollections
           b == memory.dispositions
           S == ToSet(a) \cup ToSet(b)
           few == Refs(Render(a))
           contexts == BuildDelayedContexts(memory, size)
<1>1. a \in Seq(S) /\ b \in Seq(S) /\ Renderable(a \o b)
  BY DEF Selectable
<1>2. /\ Given(memory, Rag, size) = <<>> /\ Given(memory, Learned, size) = b
      /\ \A mode \in {Oracle, Anti} : Given(memory, mode, size) = Counterfactual(mode, size)
  BY DEF Given, Rag, Learned, Oracle, Anti
<1> HIDE DEF S
<1>3. a \o <<>> = a
  BY <1>1
<1>4. /\ VisibleRefs(a) \cap ToSet(Refs(Render(a \o b))) = ToSet(few)
      /\ ToSet(few) \subseteq VisibleRefs(a)
      /\ VisibleRefs(b) \cap ToSet(Refs(Render(a \o b))) = {} => Refs(Render(a \o b)) = few
  BY <1>1, ShownTogether
<1> DEFINE Text(mode) == Refs(Render(a \o Given(memory, mode, size)))
<1>5. \A mode \in Modes :
        /\ contexts[mode].text = Text(mode)
        /\ contexts[mode].recollections = VisibleRefs(a) \cap ToSet(Text(mode))
        /\ contexts[mode].dispositions = VisibleRefs(Given(memory, mode, size)) \cap ToSet(Text(mode))
  BY ArmsAre
<1>6. \A mode \in {Oracle, Anti} : VisibleRefs(a) \cap ToSet(Text(mode)) = ToSet(few)
  <2> TAKE mode \in {Oracle, Anti}
  <2>1. mode \notin VisibleRefs(a)
    OBVIOUS
  <2>2. VisibleRefs(a) \cap ToSet(Refs(Render(a \o Counterfactual(mode, size)))) = ToSet(few)
    BY <2>1, CounterfactualShown
  <2> QED BY <1>2, <2>2
<1>7. /\ Text(Rag) = few
      /\ VisibleRefs(a) \cap ToSet(Text(Learned)) = ToSet(few)
      /\ VisibleRefs(Given(memory, Learned, size)) \cap ToSet(Text(Learned)) = {} => Text(Learned) = few
  BY <1>2, <1>3, <1>4
<1>8. VisibleRefs(a) \cap ToSet(few) = ToSet(few)
  BY <1>4
<1> HIDE DEF contexts, few, Text
<1>9. Paired(contexts)
  BY <1>5, <1>6, <1>7, <1>8, ModesDiffer DEF Paired
<1> QED BY <1>9 DEF contexts

-----------------------------------------------------------------------------
(* The inductive invariant *)

\* A temporary file of that kind is about to replace its target.
Writing(file) == pc = "writing" /\ part.file = file

\* The instance at work; the steps of it that ask a model.
Asking == pc \in {"answer", "judge"} \/ Writing("cache")
AtInstance == pc = "session" \/ Asking

\* A Harness that is past its start has the manifest of the present inputs.
Bound == pc \notin {"down", "manifest"} /\ ~Writing("manifest")

\* What a temporary file may hold, and where the Harness goes on after it.
PartOK ==
    /\ Writing("manifest") \/ Writing("result") => part.then = "next"
    /\ Writing("cache") => part.then \in {"answer", "judge"} /\ live /\ part.key \notin DOMAIN cache
    /\ Writing("summary") => part.then \in {"end", "down"}
    /\ Writing("result") =>
          part.key \in Pending /\ (part.value # None => DOMAIN part.value.pairwise = Jobs)

\* The manifest comes before everything else, and the Harness that goes on from it
\* works under the configuration it binds.
BoundInv ==
    /\ pc = "manifest" => manifest \in {None, config}
    /\ Writing("manifest") => manifest = None /\ part.value = config
    /\ Bound => manifest = config

\* The context of an instance: the one Core has frozen for it, or that of the smoke.
Memory(i) == IF live THEN selected[i] ELSE SmokeSelected

\* What Core has frozen is a context it may select, after all sessions.
Frozen(i) ==
    /\ selected[i] \in Contexts[i] /\ Len(learned[i]) = NumSessions
    /\ selected[i].dispositions # <<>> => Last(learned[i]) > 0

\* The instance at work is open, and Core has learned all of it before it selects.
InstanceInv ==
    /\ live \in BOOLEAN
    /\ DOMAIN learned = Instances /\ DOMAIN selected = Instances
    /\ DOMAIN results = Instances /\ DOMAIN madeUnder = Instances
    /\ AtInstance =>
          /\ DOMAIN cur = {"inst", "settled", "contexts", "answers", "tokens"}
          /\ cur.inst \in Pending
          /\ cur.settled \in Seq({0, 1}) /\ Len(cur.settled) <= NumSessions
          /\ ~live /\ cur.settled # <<>> => Last(cur.settled) = 1
          /\ live => /\ Len(cur.settled) <= Len(learned[cur.inst])
                     /\ cur.settled # <<>> /\ Len(cur.settled) = Len(learned[cur.inst]) =>
                           Last(cur.settled) = Last(learned[cur.inst])
    /\ \A i \in Instances : selected[i] # None => Frozen(i)
    /\ Asking => Len(cur.settled) = NumSessions /\ (live => Frozen(cur.inst))

\* The diagnosis is of a complete cohort, and changes nothing more.
SummaryInv ==
    /\ summary # None \/ pc = "end" \/ outcome = "returned" =>
          Pending = {} /\ summary = Summarize(results)
    /\ Writing("summary") => Pending = {} /\ part.value = Summarize(results)

IInv == /\ TypeOK /\ PartOK /\ BoundInv /\ InstanceInv
        /\ ResumableOnceLearned /\ ResultsOfOneConfig /\ SummaryInv

\* Where replies come from: the cache or, in a smoke, its models.
Models == [live |-> live, cache |-> cache]

\* The models, and another reply on disk.
Grown(models, key, value) == [live |-> models.live, cache |-> With(models.cache, key, value)]

Known(models, request) == models.live => request \in DOMAIN models.cache
ReplyOf(models, request, smokeReply) == IF models.live THEN models.cache[request] ELSE smokeReply

AnswerOf(models, i, text) == ReplyOf(models, <<"answer", i, text>>, SmokeAnswer(text))
TokenOf(models, i, a, b) == ReplyOf(models, <<"judge", i, a, b>>, SmokeVerdict(a, b))

\* An answer is the reply to the text of its arm, and a token the one to two answers.
Said(models, i, text, answer) ==
    Known(models, <<"answer", i, text>>) /\ answer = AnswerOf(models, i, text)
Judged(models, i, a, b, token) ==
    token \in Tokens /\ Known(models, <<"judge", i, a, b>>) /\ token = TokenOf(models, i, a, b)

SaidAll(models, i, contexts, answers) ==
    \A mode \in DOMAIN answers : Said(models, i, contexts[mode].text, answers[mode])

JudgedAll(models, i, answers, tokens) ==
    \A job \in DOMAIN tokens :
        Judged(models, i, answers[Shown(job)[1]], answers[Shown(job)[2]], tokens[job])

\* A result holds what the arms of the frozen context have shown, and the verdicts on
\* what was said to them.
ResultOf(models, memory, i, result) ==
    LET contexts == BuildDelayedContexts(memory, Sizes[i])
        answers == [mode \in Modes |-> AnswerOf(models, i, contexts[mode].text)]
    IN  /\ memory \in IF models.live THEN Contexts[i] ELSE {SmokeSelected}
        /\ CounterfactualsFit(contexts)
        /\ result.selected = contexts[Learned].selected
        /\ result.rendered = contexts[Learned].dispositions
        /\ \A mode \in Modes : result.recollections[mode] = contexts[mode].recollections
        /\ DOMAIN result.pairwise = Jobs
        /\ result.active \in {0, 1}
        /\ memory.dispositions # <<>> => result.active > 0
        /\ SaidAll(models, i, contexts, answers)
        /\ JudgedAll(models, i, answers, result.pairwise)

ArmsInv ==
    /\ pc = "session" => cur.answers = <<>> /\ cur.tokens = <<>>
    /\ Asking => /\ cur.contexts = BuildDelayedContexts(Memory(cur.inst), Sizes[cur.inst])
                 /\ CounterfactualsFit(cur.contexts)
                 /\ SaidAll(Models, cur.inst, cur.contexts, cur.answers)
                 /\ JudgedAll(Models, cur.inst, cur.answers, cur.tokens)
    /\ pc = "answer" \/ (Writing("cache") /\ part.then = "answer") => cur.tokens = <<>>
    /\ pc = "judge" \/ (Writing("cache") /\ part.then = "judge") => DOMAIN cur.answers = Modes
    /\ Writing("result") => ResultOf(Models, Memory(part.key), part.key, part.value)
    /\ \A i \in Instances : results[i] # None => ResultOf(Models, Memory(i), i, results[i])

-----------------------------------------------------------------------------
(* Every action keeps it *)

LEMMA DelayedInit == Init => IInv
<1> SUFFICES ASSUME Init PROVE IInv
  OBVIOUS
<1> USE NoneIsFresh DEF Init
<1>1. TypeOK
  BY DEF TypeOK, NumSessions
<1>2. PartOK /\ BoundInv
  BY DEF PartOK, BoundInv, Writing, Bound
<1>3. InstanceInv
  BY DEF InstanceInv, AtInstance, Asking, Writing
<1>4. ResumableOnceLearned /\ ResultsOfOneConfig /\ SummaryInv
  BY DEF ResumableOnceLearned, ResultsOfOneConfig, SummaryInv, Writing
<1> QED BY <1>1, <1>2, <1>3, <1>4 DEF IInv

\* Another session is observed: the settled states stay those of what Core has learned.
LEMMA SessionsKept == IInv /\ ObserveSession => IInv'
<1> SUFFICES ASSUME IInv, ObserveSession PROVE IInv'
  OBVIOUS
<1> DEFINE i == cur.inst
           k == Len(cur.settled) + 1
<1>0. TypeOK /\ InstanceInv
  BY DEF IInv
<1>1. /\ pc = "session" /\ i \in Instances /\ i \in Pending /\ cur.settled \in Seq({0, 1})
      /\ Len(cur.settled) < NumSessions /\ Len(cur.settled) \in Nat /\ k \in Nat /\ k <= NumSessions
      /\ learned[i] \in Seq({0, 1}) /\ Len(learned[i]) \in Nat /\ Len(learned[i]) <= NumSessions
  BY <1>0 DEF ObserveSession, TypeOK, InstanceInv, AtInstance, Pending, NumSessions
<1>2. PICK active \in 0 .. 1 :
        /\ IF live THEN LearnSession(i, k, active) ELSE SmokeSettles(active)
        /\ cur' = [cur EXCEPT !.settled = Append(@, active)]
  BY DEF ObserveSession
<1>3. UNCHANGED <<pc, part, manifest, results, summary, cache, madeUnder, selected, completions,
                  outcome, live, config, stops, drifts>>
  BY DEF ObserveSession, files, env
<1>4. /\ DOMAIN cur' = DOMAIN cur /\ cur'.inst = i /\ cur'.settled = Append(cur.settled, active)
      /\ active \in {0, 1}
  BY <1>0, <1>1, <1>2 DEF InstanceInv, AtInstance
<1>5. /\ cur'.settled \in Seq({0, 1}) /\ Len(cur'.settled) = k /\ Last(cur'.settled) = active
      /\ cur'.settled # <<>>
  BY <1>1, <1>4 DEF Last
<1>6. /\ DOMAIN learned' = Instances
      /\ \A j \in Instances : learned'[j] \in Seq({0, 1}) /\ Len(learned'[j]) <= NumSessions
      /\ \A j \in Instances : Len(learned[j]) = NumSessions => learned'[j] = learned[j]
      /\ live => Len(learned'[i]) >= k /\ (Len(learned'[i]) = k => Last(learned'[i]) = active)
      /\ ~live => active = 1 /\ learned' = learned
  <2>1. CASE ~live
    BY <1>0, <1>2, <2>1 DEF SmokeSettles, TypeOK, InstanceInv
  <2>2. CASE live /\ k <= Len(learned[i])
    BY <1>0, <1>2, <2>2 DEF LearnSession, TypeOK, InstanceInv
  <2>3. CASE live /\ ~(k <= Len(learned[i]))
    <3>1. learned' = [learned EXCEPT ![i] = Append(@, active)]
      BY <1>2, <2>3 DEF LearnSession
    <3>2. Len(learned[i]) + 1 = k
      BY <1>0, <1>1, <2>3 DEF InstanceInv, AtInstance
    <3>3. /\ learned'[i] = Append(learned[i], active)
          /\ \A j \in Instances : j # i => learned'[j] = learned[j]
          /\ DOMAIN learned' = Instances
      BY <1>0, <1>1, <3>1 DEF InstanceInv
    <3>4. /\ learned'[i] \in Seq({0, 1}) /\ Len(learned'[i]) = k /\ Last(learned'[i]) = active
      BY <1>1, <1>4, <3>2, <3>3 DEF Last
    <3>5. Len(learned[i]) # NumSessions
      BY <1>1, <3>2
    <3>6. \A j \in Instances : j # i =>
            learned'[j] = learned[j] /\ learned'[j] \in Seq({0, 1}) /\ Len(learned'[j]) <= NumSessions
      BY <1>0, <3>3 DEF TypeOK
    <3>7. \A j \in Instances :
            /\ learned'[j] \in Seq({0, 1}) /\ Len(learned'[j]) <= NumSessions
            /\ Len(learned[j]) = NumSessions => learned'[j] = learned[j]
      BY <1>1, <3>4, <3>5, <3>6
    <3>8. Len(learned'[i]) >= k
      BY <1>1, <3>4
    <3> QED BY <2>3, <3>3, <3>4, <3>7, <3>8
  <2> QED BY <1>0, <2>1, <2>2, <2>3 DEF InstanceInv
<1> HIDE DEF k
<1>7. TypeOK'
  BY <1>0, <1>1, <1>3, <1>4, <1>6 DEF TypeOK, Pending
<1>8. InstanceInv'
  <2>1. AtInstance' /\ ~Asking /\ Asking' = FALSE /\ Pending' = Pending
    BY <1>1, <1>3 DEF AtInstance, Asking, Writing, Pending
  <2>2. /\ ~live /\ cur'.settled # <<>> => Last(cur'.settled) = 1
        /\ live => /\ Len(cur'.settled) <= Len(learned'[i])
                   /\ Len(cur'.settled) = Len(learned'[i]) => Last(cur'.settled) = Last(learned'[i])
    BY <1>1, <1>5, <1>6
  <2>3. \A j \in Instances : selected[j] # None => Frozen(j)'
    BY <1>0, <1>3, <1>6 DEF InstanceInv, Frozen
  <2> QED BY <1>0, <1>1, <1>3, <1>4, <1>5, <1>6, <2>1, <2>2, <2>3 DEF InstanceInv, AtInstance
<1>9. PartOK' /\ BoundInv'
  BY <1>1, <1>3 DEF IInv, PartOK, BoundInv, Writing, Bound
<1>10. ResumableOnceLearned' /\ ResultsOfOneConfig' /\ SummaryInv'
  BY <1>0, <1>1, <1>3, NoneIsFresh
     DEF IInv, ResumableOnceLearned, ResultsOfOneConfig, SummaryInv, Writing, BoundInv, Bound, Pending, TypeOK
<1> QED BY <1>7, <1>8, <1>9, <1>10 DEF IInv

LEMMA DelayedNext == IInv /\ [Next]_vars => IInv'
<1> SUFFICES ASSUME IInv, [Next]_vars PROVE IInv'
  OBVIOUS
<1> USE NoneIsFresh
<1>0. UNCHANGED <<selected, learned>> => \A i \in Instances : Frozen(i)' <=> Frozen(i)
  BY DEF Frozen
<1> USE <1>0
<1> USE DEF IInv, TypeOK, PartOK, BoundInv, InstanceInv, ResumableOnceLearned, ResultsOfOneConfig,
            SummaryInv, Writing, AtInstance, Asking, Bound, Pending, files, core, env
<1>1. CASE UNCHANGED vars
  BY <1>1 DEF vars
<1>2. CASE Start
  BY <1>2 DEF Start, NoPartialFiles, ManifestAgrees, BuildRunManifest
<1>3. CASE FreezeManifest
  BY <1>3 DEF FreezeManifest, Write, BuildRunManifest
<1>4. CASE NextInstance
  BY <1>4 DEF NextInstance, NumSessions
<1>5. CASE ObserveSession
  BY <1>5, SessionsKept
<1>6. CASE SelectOnce
  <2>1. PICK c \in SelectMemory(cur.inst) :
          /\ selected' = IF live THEN [selected EXCEPT ![cur.inst] = c] ELSE selected
          /\ \/ Raise
             \/ /\ cur' = [cur EXCEPT !.contexts = Rendered[cur.inst][c]]
                /\ pc' = "answer" /\ UNCHANGED <<completions, outcome>>
    BY <1>6 DEF SelectOnce
  <2>2. /\ pc = "session" /\ Len(cur.settled) = NumSessions /\ UNCHANGED <<part, files, learned, env>>
        /\ cur.inst \in Instances
    BY <1>6 DEF SelectOnce
  <2>3. live => /\ c \in Contexts[cur.inst]
                /\ c.dispositions # <<>> => Last(learned[cur.inst]) > 0
                /\ Len(learned[cur.inst]) = NumSessions
    <3>1. live => Len(learned[cur.inst]) = NumSessions
      BY <2>2 DEF NumSessions
    <3>2. CASE selected[cur.inst] # None
      BY <2>1, <2>2, <3>2 DEF SelectMemory, Frozen
    <3>3. CASE selected[cur.inst] = None
      BY <2>1, <2>2, <3>1, <3>3 DEF SelectMemory
    <3> QED BY <3>2, <3>3
  <2>4. /\ DOMAIN selected' = Instances
        /\ \A i \in Instances : selected'[i] # None \/ (live /\ i = cur.inst) => Frozen(i)'
    <3>1. CASE live
      <4>1. selected' = [selected EXCEPT ![cur.inst] = c]
        BY <2>1, <3>1
      <4>2. ASSUME NEW i \in Instances, selected'[i] # None \/ i = cur.inst
            PROVE  Frozen(i)'
        <5>1. learned' = learned
          BY <2>2
        <5>2. CASE i = cur.inst
          <6>1. selected'[i] = c
            BY <2>2, <4>1, <5>2
          <6> QED BY <2>3, <3>1, <5>1, <5>2, <6>1 DEF Frozen
        <5>3. CASE i # cur.inst
          <6>1. selected'[i] = selected[i] /\ Frozen(i)
            BY <4>1, <4>2, <5>3
          <6> QED BY <5>1, <6>1 DEF Frozen
        <5> QED BY <5>2, <5>3
      <4> QED BY <2>2, <4>1, <4>2
    <3>2. CASE ~live
      BY <2>1, <2>2, <3>2 DEF Frozen
    <3> QED BY <3>1, <3>2
  <2>5. CASE Raise
    BY <2>2, <2>4, <2>5 DEF Raise
  <2>6. CASE /\ cur' = [cur EXCEPT !.contexts = Rendered[cur.inst][c]]
             /\ pc' = "answer" /\ UNCHANGED <<completions, outcome>>
    BY <2>2, <2>4, <2>6
  <2> QED BY <2>1, <2>5, <2>6
<1>7. CASE AnswerArm
  <2>1. PICK mode, request :
          \/ AtOnce(request) /\ UseAnswer(mode, Reply(request, SmokeAnswer(cur.contexts[mode].text)))
          \/ Buy(request, Replies[cur.inst])
    BY <1>7 DEF AnswerArm
  <2>2. pc = "answer" /\ UNCHANGED <<files, core, outcome, env>>
    BY <1>7 DEF AnswerArm
  <2>3. CASE \E reply : UseAnswer(mode, reply)
    BY <2>2, <2>3 DEF UseAnswer
  <2>4. CASE Buy(request, Replies[cur.inst])
    BY <2>2, <2>4 DEF Buy, Write
  <2> QED BY <2>1, <2>3, <2>4
<1>8. CASE BeginJudging
  BY <1>8 DEF BeginJudging
<1>9. CASE JudgePair
  <2>1. pc = "judge" /\ UNCHANGED <<files, core, outcome, env>>
    BY <1>9 DEF JudgePair
  <2>2. PICK job, request :
          \/ \E reply : UseVerdict(job, reply)
          \/ Buy(request, Verdicts)
    BY <1>9 DEF JudgePair
  <2>3. CASE \E reply : UseVerdict(job, reply)
    BY <2>1, <2>3 DEF UseVerdict
  <2>4. CASE Buy(request, Verdicts)
    BY <2>1, <2>4 DEF Buy, Write
  <2> QED BY <2>2, <2>3, <2>4
<1>10. CASE RejectVerdict
  BY <1>10 DEF RejectVerdict, Raise
<1>11. CASE FreezeResult
  BY <1>11 DEF FreezeResult, Write
<1>12. CASE VerifiedSummary
  BY <1>12 DEF VerifiedSummary, Write, InputsUnchanged, BuildRunManifest
<1>13. CASE End
  BY <1>13 DEF End, Raise
<1>14. CASE Replace
  <2> USE DEF Replace
  <2>1. CASE part.file = "manifest"
    BY <1>14, <2>1
  <2>2. CASE part.file = "result"
    BY <1>14, <2>2
  <2>3. CASE part.file = "summary"
    BY <1>14, <2>3
  <2>4. CASE part.file = "cache"
    BY <1>14, <2>4
  <2> QED BY <1>14, <2>1, <2>2, <2>3, <2>4
<1>15. CASE RemovePartial
  BY <1>15 DEF RemovePartial
<1>16. CASE Stop
  BY <1>16 DEF Stop, Raise
<1>17. CASE Drift
  BY <1>17 DEF Drift
<1> QED BY <1>1, <1>2, <1>3, <1>4, <1>5, <1>6, <1>7, <1>8, <1>9, <1>10, <1>11, <1>12, <1>13,
           <1>14, <1>15, <1>16, <1>17 DEF Next, Step

LEMMA DelayedInvariant == Spec => []IInv
BY DelayedInit, DelayedNext, PTL DEF Spec

-----------------------------------------------------------------------------
(* What was shown, said and judged stays what it is *)

\* A reply that is known stays when the cache gets another entry.
LEMMA ReplyIsKept ==
    ASSUME NEW models, NEW key, NEW value, key \notin DOMAIN models.cache,
           NEW request, NEW smokeReply, Known(models, request)
    PROVE  /\ Known(Grown(models, key, value), request)
           /\ ReplyOf(Grown(models, key, value), request, smokeReply)
                = ReplyOf(models, request, smokeReply)
BY DEF Known, ReplyOf, With, Grown

LEMMA SaidIsKept ==
    ASSUME NEW models, NEW key, NEW value, key \notin DOMAIN models.cache,
           NEW i, NEW contexts, NEW answers, SaidAll(models, i, contexts, answers)
    PROVE  SaidAll(Grown(models, key, value), i, contexts, answers)
BY ReplyIsKept DEF SaidAll, Said, AnswerOf

LEMMA JudgedIsKept ==
    ASSUME NEW models, NEW key, NEW value, key \notin DOMAIN models.cache,
           NEW i, NEW answers, NEW tokens, JudgedAll(models, i, answers, tokens)
    PROVE  JudgedAll(Grown(models, key, value), i, answers, tokens)
BY ReplyIsKept DEF JudgedAll, Judged, TokenOf

LEMMA ResultIsKept ==
    ASSUME NEW models, NEW key, NEW value, key \notin DOMAIN models.cache,
           NEW memory, NEW i, NEW result, ResultOf(models, memory, i, result)
    PROVE  ResultOf(Grown(models, key, value), memory, i, result)
<1> DEFINE contexts == BuildDelayedContexts(memory, Sizes[i])
           more == Grown(models, key, value)
           answers == [mode \in Modes |-> AnswerOf(models, i, contexts[mode].text)]
           later == [mode \in Modes |-> AnswerOf(more, i, contexts[mode].text)]
<1>1. SaidAll(models, i, contexts, answers) /\ JudgedAll(models, i, answers, result.pairwise)
  BY DEF ResultOf
<1>2. \A mode \in Modes : Known(models, <<"answer", i, contexts[mode].text>>)
  BY <1>1 DEF SaidAll, Said
<1>3. \A mode \in Modes : AnswerOf(more, i, contexts[mode].text) = AnswerOf(models, i, contexts[mode].text)
  BY <1>2, ReplyIsKept DEF AnswerOf
<1> HIDE DEF contexts
<1>4. later = answers
  BY <1>3
<1>5. SaidAll(more, i, contexts, answers) /\ JudgedAll(more, i, answers, result.pairwise)
  BY <1>1, SaidIsKept, JudgedIsKept
<1>6. more.live = models.live
  BY DEF Grown
<1> QED BY <1>4, <1>5, <1>6 DEF ResultOf, contexts

\* The arms of a request are some of the Modes.
LEMMA ShownAreModes == \A job \in Jobs : Shown(job)[1] \in Modes /\ Shown(job)[2] \in Modes
BY DEF Jobs, Pairs, Shown, Modes

LEMMA ArmsInit == Init => ArmsInv
BY NoneIsFresh DEF Init, ArmsInv, Asking, Writing

\* Steps that leave the replies, the selections and the results alone.
Quiet == UNCHANGED <<live, cache, selected, results>>

LEMMA ArmsNext == IInv /\ ArmsInv /\ [Next]_vars => ArmsInv'
<1> SUFFICES ASSUME IInv, ArmsInv, [Next]_vars PROVE ArmsInv'
  OBVIOUS
<1> USE DEF ArmsInv, Writing, Asking, files, core, env
<1>0. InstanceInv /\ PartOK /\ TypeOK
  BY DEF IInv
<1>1. Quiet => /\ Models' = Models
               /\ \A i : Memory(i)' = Memory(i)
  BY DEF Quiet, Models, Memory
<1> USE <1>1 DEF Quiet
<1>2. CASE UNCHANGED vars
  BY <1>2 DEF vars
<1>3. CASE Start \/ FreezeManifest \/ VerifiedSummary \/ End \/ RemovePartial \/ Stop \/ Drift
  BY <1>3 DEF Start, FreezeManifest, VerifiedSummary, End, RemovePartial, Stop, Drift, Write, Raise
<1>4. CASE NextInstance
  BY <1>4 DEF NextInstance
<1>5. CASE ObserveSession
  BY <1>0, <1>5 DEF ObserveSession, InstanceInv, AtInstance
<1>6. CASE SelectOnce
  <2> DEFINE i == cur.inst
  <2>1. PICK c \in SelectMemory(i) :
          /\ selected' = IF live THEN [selected EXCEPT ![i] = c] ELSE selected
          /\ \/ Raise
             \/ /\ CounterfactualsFit(Rendered[i][c])
                /\ cur' = [cur EXCEPT !.contexts = Rendered[i][c]]
                /\ pc' = "answer"
    BY <1>6 DEF SelectOnce
  <2>2. /\ pc = "session" /\ UNCHANGED <<part, files, learned, env>>
        /\ i \in Instances /\ results[i] = None /\ DOMAIN selected = Instances
        /\ DOMAIN cur = {"inst", "settled", "contexts", "answers", "tokens"}
        /\ cur.answers = <<>> /\ cur.tokens = <<>>
    BY <1>0, <1>6 DEF SelectOnce, InstanceInv, AtInstance, Pending
  <2>3. c \in IF live THEN Contexts[i] ELSE {SmokeSelected}
    BY <1>0, <2>1, <2>2 DEF SelectMemory, InstanceInv, Frozen
  <2>4. Rendered[i][c] = BuildDelayedContexts(c, Sizes[i])
    BY <2>2, <2>3 DEF Rendered
  <2>5. /\ \A j \in Instances : results[j] # None => Memory(j)' = Memory(j)
        /\ Models' = Models /\ live' = live /\ results' = results
        /\ IF live THEN selected'[i] = c ELSE SmokeSelected = c
    BY <2>1, <2>2, <2>3 DEF Memory, Models
  <2>6. \A j \in Instances : results'[j] # None => ResultOf(Models, Memory(j), j, results[j])'
    BY <2>5
  <2>7. CASE Raise
    BY <2>2, <2>6, <2>7 DEF Raise
  <2>8. CASE /\ CounterfactualsFit(Rendered[i][c])
             /\ cur' = [cur EXCEPT !.contexts = Rendered[i][c]]
             /\ pc' = "answer"
    <3>1. /\ cur'.inst = i /\ cur'.contexts = BuildDelayedContexts(c, Sizes[i])
          /\ cur'.answers = <<>> /\ cur'.tokens = <<>>
      BY <2>2, <2>4, <2>8
    <3>2. Memory(cur.inst)' = c
      BY <2>2, <2>5, <3>1 DEF Memory
    <3>3. SaidAll(Models, cur.inst, cur.contexts, cur.answers)' /\ JudgedAll(Models, cur.inst, cur.answers, cur.tokens)'
      BY <3>1 DEF SaidAll, JudgedAll
    <3> QED BY <2>2, <2>4, <2>6, <2>8, <3>1, <3>2, <3>3
  <2> QED BY <2>1, <2>7, <2>8
<1>7. CASE AnswerArm
  <2> DEFINE mode == FirstOf(AnswerOrder, Modes \ DOMAIN cur.answers)
             request == AnswerRequest(mode)
             smoke == SmokeAnswer(cur.contexts[mode].text)
             answer == Reply(request, smoke)
  <2>1. \/ AtOnce(request) /\ UseAnswer(mode, answer)
        \/ Buy(request, Replies[cur.inst])
    BY <1>7 DEF AnswerArm
  <2>2. pc = "answer" /\ UNCHANGED <<files, core, outcome, env>> /\ cur.tokens = <<>>
    BY <1>7 DEF AnswerArm
  <2>3. CASE AtOnce(request) /\ UseAnswer(mode, answer)
    <3>1. request = <<"answer", cur.inst, cur.contexts[mode].text>>
      BY DEF AnswerRequest
    <3>2. Said(Models, cur.inst, cur.contexts[mode].text, answer)
      BY <2>3, <3>1 DEF AtOnce, Said, Known, Models, AnswerOf, ReplyOf, Reply
    <3> HIDE DEF mode, request, smoke, answer
    <3>3. /\ cur' = [cur EXCEPT !.answers = With(cur.answers, mode, answer)]
          /\ pc' = pc /\ part' = part
      BY <2>3 DEF UseAnswer
    <3>4. /\ cur'.inst = cur.inst /\ cur'.contexts = cur.contexts /\ cur'.tokens = <<>>
          /\ cur'.answers = With(cur.answers, mode, answer)
      BY <1>0, <2>2, <3>3 DEF InstanceInv, AtInstance
    <3>5. SaidAll(Models, cur.inst, cur.contexts, With(cur.answers, mode, answer))
      BY <2>2, <3>2 DEF SaidAll, With
    <3>6. JudgedAll(Models, cur.inst, cur.answers, cur.tokens)'
      BY <3>4 DEF JudgedAll
    <3> QED BY <2>2, <3>3, <3>4, <3>5, <3>6
  <2>4. CASE Buy(request, Replies[cur.inst])
    <3> HIDE DEF request
    <3> QED BY <2>2, <2>4 DEF Buy, Write
  <2> QED BY <2>1, <2>3, <2>4
<1>8. CASE BeginJudging
  BY <1>8 DEF BeginJudging
<1>9. CASE JudgePair
  <2> DEFINE job == NextJob
             request == JudgeRequest(job)
             a == cur.answers[Shown(job)[1]]
             b == cur.answers[Shown(job)[2]]
             token == Reply(request, SmokeVerdict(a, b))
  <2>1. \/ AtOnce(request) /\ UseVerdict(job, token)
        \/ Buy(request, Verdicts)
    BY <1>9 DEF JudgePair
  <2>2. pc = "judge" /\ UNCHANGED <<files, core, outcome, env>>
    BY <1>9 DEF JudgePair
  <2>3. CASE AtOnce(request) /\ UseVerdict(job, token)
    <3>1. request = <<"judge", cur.inst, a, b>>
      BY DEF JudgeRequest
    <3>2. Judged(Models, cur.inst, a, b, token)
      BY <2>3, <3>1 DEF AtOnce, UseVerdict, Judged, Known, Models, TokenOf, ReplyOf, Reply
    <3> HIDE DEF job, request, token
    <3>3. /\ cur' = [cur EXCEPT !.tokens = With(cur.tokens, job, token)]
          /\ pc' = pc /\ part' = part
      BY <2>3 DEF UseVerdict
    <3>4. /\ cur'.inst = cur.inst /\ cur'.contexts = cur.contexts /\ cur'.answers = cur.answers
          /\ cur'.tokens = With(cur.tokens, job, token)
      BY <1>0, <2>2, <3>3 DEF InstanceInv, AtInstance
    <3>5. JudgedAll(Models, cur.inst, cur.answers, With(cur.tokens, job, token))
      BY <2>2, <3>2 DEF JudgedAll, With
    <3> QED BY <2>2, <3>3, <3>4, <3>5
  <2>4. CASE Buy(request, Verdicts)
    <3> HIDE DEF request
    <3> QED BY <2>2, <2>4 DEF Buy, Write
  <2> QED BY <2>1, <2>3, <2>4
<1>10. CASE RejectVerdict
  BY <1>10 DEF RejectVerdict, Raise
<1>11. CASE FreezeResult
  <2> DEFINE i == cur.inst
             memory == Memory(i)
             contexts == BuildDelayedContexts(memory, Sizes[i])
             answers == [mode \in Modes |-> AnswerOf(Models, i, contexts[mode].text)]
             result == [active   |-> Last(cur.settled), settled |-> cur.settled,
                        selected |-> cur.contexts[Learned].selected,
                        rendered |-> cur.contexts[Learned].dispositions,
                        recollections |-> [mode \in Modes |-> cur.contexts[mode].recollections],
                        pairwise |-> cur.tokens]
  <2>1. /\ pc = "judge" /\ DOMAIN cur.tokens = Jobs /\ DOMAIN cur.answers = Modes
        /\ pc' = "writing" /\ part' = [file |-> "result", key |-> i, value |-> result, then |-> "next"]
        /\ UNCHANGED <<files, core, cur, completions, outcome, env>>
    BY <1>11 DEF FreezeResult, Write
  <2>2. /\ cur.contexts = contexts /\ CounterfactualsFit(contexts)
        /\ SaidAll(Models, i, contexts, cur.answers)
        /\ JudgedAll(Models, i, cur.answers, cur.tokens)
    BY <2>1
  <2>3. /\ i \in Instances /\ cur.settled \in Seq({0, 1}) /\ Len(cur.settled) = NumSessions
        /\ live => Frozen(i)
    BY <1>0, <2>1 DEF InstanceInv, AtInstance, Pending
  <2>4. /\ Last(cur.settled) \in {0, 1}
        /\ live => Last(cur.settled) = Last(learned[i])
        /\ ~live => Last(cur.settled) = 1
    <3>1. Last(cur.settled) \in {0, 1}
      BY <2>3 DEF Last, NumSessions
    <3>2. cur.settled # <<>>
      BY <2>3 DEF NumSessions
    <3>3. live => Len(cur.settled) = Len(learned[i])
      BY <2>3 DEF Frozen
    <3> QED BY <1>0, <2>1, <3>1, <3>2, <3>3 DEF InstanceInv, AtInstance
  <2>5. /\ memory \in IF live THEN Contexts[i] ELSE {SmokeSelected}
        /\ memory.dispositions # <<>> => Last(cur.settled) > 0
    BY <2>3, <2>4 DEF Memory, Frozen
  <2>6. \A mode \in Modes : cur.answers[mode] = answers[mode]
    BY <2>1, <2>2 DEF SaidAll, Said
  <2>7. SaidAll(Models, i, contexts, answers)
    BY <2>1, <2>2, <2>6 DEF SaidAll
  <2>8. JudgedAll(Models, i, answers, cur.tokens)
    BY <2>1, <2>2, <2>6, ShownAreModes DEF JudgedAll
  <2>9. ResultOf(Models, memory, i, result)
    <3>1. Models.live = live
      BY DEF Models
    <3>2. /\ result.selected = contexts[Learned].selected
          /\ result.rendered = contexts[Learned].dispositions
          /\ \A mode \in Modes : result.recollections[mode] = contexts[mode].recollections
          /\ result.pairwise = cur.tokens /\ result.active = Last(cur.settled)
      BY <2>2
    <3> HIDE DEF result, memory
    <3> QED BY <2>1, <2>2, <2>4, <2>5, <2>7, <2>8, <3>1, <3>2 DEF ResultOf
  <2> HIDE DEF result
  <2>10. part'.file = "result" /\ part'.key = i /\ part'.value = result
    BY <2>1
  <2> QED BY <2>1, <2>9, <2>10
<1>12. CASE Replace
  <2>1. pc = "writing" /\ pc' = part.then /\ part' = None /\ UNCHANGED <<core, cur, env>>
    BY <1>12 DEF Replace
  <2>2. \A i : Memory(i)' = Memory(i)
    BY <2>1 DEF Memory
  <2>3. CASE part.file = "manifest" \/ part.file = "summary"
    BY <1>0, <1>12, <2>1, <2>3 DEF Replace, PartOK
  <2>4. CASE part.file = "result"
    <3>1. /\ results' = [results EXCEPT ![part.key] = part.value] /\ cache' = cache
          /\ part.then = "next" /\ Models' = Models
      BY <1>0, <1>12, <2>1, <2>4 DEF Replace, PartOK, Models
    <3>2. ASSUME NEW i \in Instances, results'[i] # None
          PROVE  ResultOf(Models, Memory(i), i, results'[i])
      BY <1>0, <2>1, <2>4, <3>1, <3>2 DEF InstanceInv
    <3> QED BY <2>1, <2>2, <3>1, <3>2
  <2>5. CASE part.file = "cache"
    <3> DEFINE more == Grown(Models, part.key, part.value)
    <3>1. /\ cache' = With(cache, part.key, part.value) /\ results' = results
          /\ part.key \notin DOMAIN Models.cache /\ part.then \in {"answer", "judge"}
      BY <1>0, <1>12, <2>1, <2>5 DEF Replace, PartOK, Models
    <3>2. Models' = more
      BY <2>1, <3>1 DEF Models, Grown
    <3>3. \A i \in Instances : results[i] # None => ResultOf(more, Memory(i), i, results[i])
      BY <3>1, ResultIsKept
    <3>4. /\ SaidAll(more, cur.inst, cur.contexts, cur.answers)
          /\ JudgedAll(more, cur.inst, cur.answers, cur.tokens)
      BY <2>1, <2>5, <3>1, SaidIsKept, JudgedIsKept
    <3> HIDE DEF more
    <3> QED BY <2>1, <2>2, <2>5, <3>1, <3>2, <3>3, <3>4
  <2> QED BY <1>0, <2>1, <2>3, <2>4, <2>5 DEF TypeOK
<1> QED BY <1>2, <1>3, <1>4, <1>5, <1>6, <1>7, <1>8, <1>9, <1>10, <1>11, <1>12 DEF Next, Step

\* The invariants hold in every reachable state.
LEMMA ArmsInvariant == Spec => [](IInv /\ ArmsInv)
<1>1. IInv /\ ArmsInv /\ [Next]_vars => (IInv /\ ArmsInv)'
  BY DelayedNext, ArmsNext
<1> QED BY DelayedInit, ArmsInit, <1>1, PTL DEF Spec

-----------------------------------------------------------------------------
(* What the results of an evaluation say *)

\* The memory of the smoke is one Core might select, and both its parts are visible.
LEMMA SmokeMemory ==
    /\ Selectable(SmokeSelected)
    /\ VisibleRefs(SmokeSelected.recollections) = {"recollection_smoke"}
    /\ VisibleRefs(SmokeSelected.dispositions) = {"seed_smoke"}
<1> DEFINE x == [section |-> "RECOLLECTIONS", ref |-> "recollection_smoke", scope |-> "RELATION",
                 size |-> 1, blank |-> FALSE]
           y == [section |-> "DISPOSITIONS", ref |-> "seed_smoke", scope |-> "RELATION",
                 size |-> 1, blank |-> FALSE]
<1>1. SmokeSelected.recollections = <<x>> /\ SmokeSelected.dispositions = <<y>>
  BY DEF SmokeSelected
<1> DEFINE z == <<x>> \o <<y>>
<1>2. /\ <<x>> \in Seq(ToSet(<<x>>)) /\ <<y>> \in Seq(ToSet(<<y>>))
      /\ DOMAIN z = {1, 2} /\ z[1] = x /\ z[2] = y
  <2> HIDE DEF x, y
  <2>1. ASSUME NEW item PROVE <<item>> \in Seq(ToSet(<<item>>))
    <3>1. <<item>>[1] \in ToSet(<<item>>)
      BY DEF ToSet
    <3>2. <<item>>[1] = item
      OBVIOUS
    <3> QED BY <3>1, <3>2
  <2>2. <<x>> \in Seq({x, y}) /\ <<y>> \in Seq({x, y}) /\ Len(<<x>>) = 1 /\ Len(<<y>>) = 1
    OBVIOUS
  <2>3. z \in Seq({x, y}) /\ Len(z) = 2
    BY <2>2, ConcatProperties
  <2>4. z[1] = <<x>>[1] /\ z[2] = <<y>>[2 - 1]
    BY <2>2, ConcatProperties
  <2>5. DOMAIN z = {1, 2}
    BY <2>3
  <2> QED BY <2>1, <2>4, <2>5
<1> HIDE DEF z
<1>3. VisibleAt(<<x>>) = {1} /\ VisibleAt(<<y>>) = {1} /\ VisibleAt(z) = {1, 2}
  BY <1>2 DEF VisibleAt
<1>4. Renderable(z)
  <2>1. z[1] = x /\ z[2] = y /\ x.ref # y.ref
    BY <1>2
  <2>2. x.ref # None /\ x.scope # None /\ y.ref # None /\ y.scope # None
    BY NoneIsFresh
  <2> HIDE DEF x, y
  <2> QED BY <1>3, <2>1, <2>2 DEF Renderable
<1>5. Selectable(SmokeSelected)
  BY <1>1, <1>2, <1>4 DEF Selectable, z
<1>6. VisibleRefs(<<x>>) = {x.ref} /\ VisibleRefs(<<y>>) = {y.ref}
  BY <1>3 DEF VisibleRefs
<1> QED BY <1>1, <1>5, <1>6

\* Every memory a result may be of is one Core might select.
LEMMA MemoryIsSelectable ==
    ASSUME NEW i \in Instances, NEW memory, memory \in Contexts[i] \/ memory = SmokeSelected
    PROVE  Selectable(memory) /\ {Oracle, Anti} \cap VisibleRefs(memory.recollections) = {}
BY RunAssumption, SmokeMemory DEF Oracle, Anti

\* A result: its arms are paired, a Disposition was shown only if one was given, and the
\* tokens are the replies to what was said.
LEMMA ResultIsPaired ==
    ASSUME NEW models, NEW i \in Instances, NEW memory, NEW result, ResultOf(models, memory, i, result)
    PROVE  LET contexts == BuildDelayedContexts(memory, Sizes[i]) IN
           /\ Paired(contexts)
           /\ result.rendered = contexts[Learned].dispositions
           /\ result.rendered # {} => result.active > 0
<1> DEFINE contexts == BuildDelayedContexts(memory, Sizes[i])
<1>1. memory \in Contexts[i] \/ memory = SmokeSelected
  BY DEF ResultOf
<1>2. Paired(contexts)
  BY <1>1, MemoryIsSelectable, ArmsArePaired
<1>3. contexts[Learned].dispositions \subseteq VisibleRefs(memory.dispositions)
  BY ArmsAre, ModesDiffer DEF Given
<1>4. memory.dispositions = <<>> => VisibleRefs(memory.dispositions) = {}
  BY DEF VisibleRefs, VisibleAt
<1> HIDE DEF contexts
<1> QED BY <1>2, <1>3, <1>4 DEF ResultOf, contexts

LEMMA LearnedVsRag ==
    LET pair == <<Learned, Rag>> IN
    /\ pair \in Pairs /\ <<pair, "forward">> \in Jobs /\ <<pair, "reverse">> \in Jobs
    /\ Shown(<<pair, "forward">>) = <<Learned, Rag>> /\ Shown(<<pair, "reverse">>) = <<Rag, Learned>>
BY DEF Pairs, Jobs, Shown

\* Two arms that said the same are judged by one reply in both orders: no clear win.
LEMMA SameSaidIsNoWin ==
    ASSUME NEW models, NEW i, NEW answers, NEW result, DOMAIN result.pairwise = Jobs,
           JudgedAll(models, i, answers, result.pairwise), answers[Learned] = answers[Rag]
    PROVE  Consensus(result, <<Learned, Rag>>) \in {"tie", "inconsistent"}
<1> DEFINE forward == result.pairwise[<< <<Learned, Rag>>, "forward">>]
           reverse == result.pairwise[<< <<Learned, Rag>>, "reverse">>]
           a == answers[Rag]
<1>1. Judged(models, i, a, a, forward) /\ Judged(models, i, a, a, reverse)
  BY LearnedVsRag DEF JudgedAll
<1>2. forward = reverse /\ forward \in {"A", "B", "TIE"}
  BY <1>1 DEF Judged, Tokens
<1>3. Consensus(result, <<Learned, Rag>>) = PairConsensus(forward, forward, Learned, Rag)
  BY <1>2 DEF Consensus
<1> HIDE DEF forward
<1> QED BY <1>2, <1>3 DEF PairConsensus, LogicalWinner, Learned, Rag

LEMMA CreditOfResult ==
    ASSUME NEW models, NEW i \in Instances, NEW memory, NEW result, ResultOf(models, memory, i, result)
    PROVE  /\ result.rendered = {} =>
                Consensus(result, <<Learned, Rag>>) \in {"tie", "inconsistent"}
           /\ Consensus(result, <<Learned, Rag>>) = Learned => result.rendered # {} /\ result.active > 0
           /\ \A mode \in Modes : result.recollections[mode] = result.recollections[Rag]
<1> DEFINE contexts == BuildDelayedContexts(memory, Sizes[i])
           answers == [mode \in Modes |-> AnswerOf(models, i, contexts[mode].text)]
<1>1. /\ Paired(contexts) /\ result.rendered = contexts[Learned].dispositions
      /\ result.rendered # {} => result.active > 0
  BY ResultIsPaired
<1>2. /\ JudgedAll(models, i, answers, result.pairwise) /\ DOMAIN result.pairwise = Jobs
      /\ \A mode \in Modes : result.recollections[mode] = contexts[mode].recollections
  BY DEF ResultOf
<1>3. /\ answers[Learned] = AnswerOf(models, i, contexts[Learned].text)
      /\ answers[Rag] = AnswerOf(models, i, contexts[Rag].text)
  BY ModesDiffer
<1> HIDE DEF contexts, answers
<1>4. result.rendered = {} => Consensus(result, <<Learned, Rag>>) \in {"tie", "inconsistent"}
  BY <1>1, <1>2, <1>3, SameSaidIsNoWin DEF Paired
<1>5. Learned \notin {"tie", "inconsistent"}
  BY DEF Learned
<1>6. \A mode \in Modes : result.recollections[mode] = result.recollections[Rag]
  BY <1>1, <1>2, ModesDiffer DEF Paired
<1> QED BY <1>1, <1>4, <1>5, <1>6

-----------------------------------------------------------------------------
(* The smoke *)

\* In the smoke every arm is told apart: _SmokeAnswerModel finds in the text of each
\* what the budget has left room for.
LEMMA SmokeIsTold ==
    ASSUME NEW size, CounterfactualsFit(BuildDelayedContexts(SmokeSelected, size))
    PROVE  LET contexts == BuildDelayedContexts(SmokeSelected, size) IN
           /\ SmokeAnswer(contexts[Learned].text) = "SMOKE_LEARNED"
           /\ SmokeAnswer(contexts[Oracle].text) = "SMOKE_ORACLE"
           /\ SmokeAnswer(contexts[Anti].text) = "SMOKE_ANTI"
           /\ SmokeAnswer(contexts[Rag].text) = "SMOKE_RAG"
           /\ contexts[Learned].dispositions # {} /\ contexts[Learned].selected # {}
<1> DEFINE a == SmokeSelected.recollections
           b == SmokeSelected.dispositions
           S == ToSet(a) \cup ToSet(b)
           few == ToSet(Refs(Render(a)))
           contexts == BuildDelayedContexts(SmokeSelected, size)
           Text(mode) == Refs(Render(a \o Given(SmokeSelected, mode, size)))
<1>1. a \in Seq(S) /\ b \in Seq(S) /\ Renderable(a \o b) /\ a \o <<>> = a
  BY SmokeMemory DEF Selectable
<1>2. /\ VisibleRefs(a) = {"recollection_smoke"} /\ VisibleRefs(b) = {"seed_smoke"}
      /\ ToSet(Refs(Render(a \o b))) = {"recollection_smoke", "seed_smoke"}
  BY SmokeMemory, SmokeAssumption
<1>3. /\ Given(SmokeSelected, Rag, size) = <<>> /\ Given(SmokeSelected, Learned, size) = b
      /\ \A mode \in {Oracle, Anti} : Given(SmokeSelected, mode, size) = Counterfactual(mode, size)
  BY DEF Given, Rag, Learned, Oracle, Anti
<1>4. \A mode \in Modes :
        /\ contexts[mode].text = Text(mode)
        /\ contexts[mode].dispositions = VisibleRefs(Given(SmokeSelected, mode, size)) \cap ToSet(Text(mode))
        /\ contexts[mode].selected = VisibleRefs(b)
  BY ArmsAre
<1>5. few = {"recollection_smoke"}
  <2> HIDE DEF S
  <2>1. VisibleRefs(a) \cap ToSet(Refs(Render(a \o b))) = few
    BY <1>1, ShownTogether
  <2> QED BY <1>2, <2>1
<1>6. \A mode \in {Oracle, Anti} : mode \in ToSet(Text(mode)) /\ ToSet(Text(mode)) \subseteq {"recollection_smoke", mode}
  <2> TAKE mode \in {Oracle, Anti}
  <2>1. mode \notin VisibleRefs(a)
    BY <1>2 DEF Oracle, Anti
  <2>2. ToSet(Text(mode)) \subseteq {"recollection_smoke", mode}
    BY <1>2, <1>3, <2>1, CounterfactualShown, SmokeMemory
  <2>3. \E ref \in ToSet(Text(mode)) : ref \in VisibleRefs(Counterfactual(mode, size))
    BY <1>3, <1>4, ModesDiffer DEF CounterfactualsFit
  <2>4. VisibleRefs(Counterfactual(mode, size)) = {mode}
    <3>1. VisibleAt(Counterfactual(mode, size)) = {1} /\ Counterfactual(mode, size)[1].ref = mode
      BY DEF VisibleAt, Counterfactual
    <3> QED BY <3>1 DEF VisibleRefs
  <2> QED BY <2>2, <2>3, <2>4
<1>7. ToSet(Text(Rag)) = {"recollection_smoke"} /\ ToSet(Text(Learned)) = {"recollection_smoke", "seed_smoke"}
  BY <1>1, <1>2, <1>3, <1>5
<1>8. contexts[Learned].dispositions = {"seed_smoke"} /\ contexts[Learned].selected = {"seed_smoke"}
  <2> HIDE DEF contexts, Text
  <2> QED BY <1>2, <1>3, <1>4, <1>7, ModesDiffer
<1> HIDE DEF contexts, Text
<1>9. \A mode \in Modes : SmokeAnswer(contexts[mode].text) =
        IF "seed_smoke" \in ToSet(Text(mode)) THEN "SMOKE_LEARNED"
        ELSE IF Oracle \in ToSet(Text(mode)) THEN "SMOKE_ORACLE"
        ELSE IF Anti \in ToSet(Text(mode)) THEN "SMOKE_ANTI" ELSE "SMOKE_RAG"
  BY <1>4 DEF SmokeAnswer
<1>10. Oracle \notin {"recollection_smoke", "seed_smoke", Anti} /\ Anti \notin {"recollection_smoke", "seed_smoke"}
  BY DEF Oracle, Anti
<1>11. /\ SmokeAnswer(contexts[Learned].text) = "SMOKE_LEARNED"
       /\ SmokeAnswer(contexts[Rag].text) = "SMOKE_RAG"
  BY <1>7, <1>9, <1>10, ModesDiffer
<1>12. /\ SmokeAnswer(contexts[Oracle].text) = "SMOKE_ORACLE"
       /\ SmokeAnswer(contexts[Anti].text) = "SMOKE_ANTI"
  BY <1>6, <1>9, <1>10, ModesDiffer
<1> QED BY <1>8, <1>11, <1>12 DEF contexts

\* What the smoke is meant to answer.
SmokeSays(answers) ==
    /\ answers[Learned] = "SMOKE_LEARNED" /\ answers[Oracle] = "SMOKE_ORACLE"
    /\ answers[Anti] = "SMOKE_ANTI" /\ answers[Rag] = "SMOKE_RAG"

\* So _SmokeJudgeModel prefers the left arm of every pair in both orders.
LEMMA SmokePrefersLeft ==
    ASSUME NEW answers, SmokeSays(answers), NEW pair \in Pairs
    PROVE  /\ SmokeVerdict(answers[pair[1]], answers[pair[2]]) = "A"
           /\ SmokeVerdict(answers[pair[2]], answers[pair[1]]) = "B"
<1>1. CASE pair = <<Oracle, Rag>>
  BY <1>1 DEF SmokeSays, SmokeVerdict
<1>2. CASE pair = <<Learned, Rag>>
  BY <1>2 DEF SmokeSays, SmokeVerdict
<1>3. CASE pair = <<Oracle, Learned>>
  BY <1>3 DEF SmokeSays, SmokeVerdict
<1>4. CASE pair = <<Oracle, Anti>>
  BY <1>4 DEF SmokeSays, SmokeVerdict
<1> QED BY <1>1, <1>2, <1>3, <1>4 DEF Pairs

LEMMA SmokeResult ==
    ASSUME NEW models, ~models.live, NEW i \in Instances, NEW memory, NEW result,
           ResultOf(models, memory, i, result)
    PROVE  /\ \A pair \in Pairs : Consensus(result, pair) = pair[1]
           /\ result.active > 0 /\ result.selected # {} /\ result.rendered # {}
<1> DEFINE contexts == BuildDelayedContexts(memory, Sizes[i])
           answers == [mode \in Modes |-> AnswerOf(models, i, contexts[mode].text)]
<1>1. /\ memory = SmokeSelected /\ CounterfactualsFit(contexts)
      /\ result.selected = contexts[Learned].selected /\ result.rendered = contexts[Learned].dispositions
      /\ memory.dispositions # <<>> => result.active > 0
      /\ JudgedAll(models, i, answers, result.pairwise) /\ DOMAIN result.pairwise = Jobs
  BY DEF ResultOf
<1>2. memory.dispositions # <<>>
  BY <1>1 DEF SmokeSelected
<1>3. \A mode \in Modes : answers[mode] = SmokeAnswer(contexts[mode].text)
  BY DEF AnswerOf, ReplyOf
<1>4. SmokeSays(answers) /\ contexts[Learned].dispositions # {} /\ contexts[Learned].selected # {}
  BY <1>1, <1>3, SmokeIsTold, ModesDiffer DEF SmokeSays
<1> HIDE DEF contexts, answers
<1>5. ASSUME NEW pair \in Pairs PROVE Consensus(result, pair) = pair[1]
  <2> DEFINE forward == result.pairwise[<<pair, "forward">>]
             reverse == result.pairwise[<<pair, "reverse">>]
  <2>1. /\ <<pair, "forward">> \in Jobs /\ <<pair, "reverse">> \in Jobs
        /\ Shown(<<pair, "forward">>) = pair /\ Shown(<<pair, "reverse">>) = <<pair[2], pair[1]>>
    BY DEF Jobs, Shown
  <2>2. /\ forward = SmokeVerdict(answers[pair[1]], answers[pair[2]])
        /\ reverse = SmokeVerdict(answers[pair[2]], answers[pair[1]])
    <3>1. \A job \in Jobs : result.pairwise[job]
            = TokenOf(models, i, answers[Shown(job)[1]], answers[Shown(job)[2]])
      BY <1>1 DEF JudgedAll, Judged
    <3>2. \A x, y : TokenOf(models, i, x, y) = SmokeVerdict(x, y)
      BY DEF TokenOf, ReplyOf
    <3> QED BY <2>1, <3>1, <3>2
  <2>3. forward = "A" /\ reverse = "B"
    BY <1>4, <2>2, SmokePrefersLeft
  <2>4. Consensus(result, pair) = PairConsensus(forward, reverse, pair[1], pair[2])
    BY DEF Consensus
  <2> QED BY <2>3, <2>4 DEF PairConsensus, LogicalWinner
<1> QED BY <1>1, <1>2, <1>4, <1>5

-----------------------------------------------------------------------------
(* The diagnosis *)

LEMMA CohortIsFinite ==
    /\ IsFiniteSet(Instances) /\ Cardinality(Instances) \in Nat /\ DominanceWins \in Nat
    /\ DominanceWins <= Cardinality(Instances) /\ DominanceWins > 0
BY DominanceAssumption, FS_CardinalityType

\* The stage summarize_delayed_seed names is the first one too few instances reached.
LEMMA FirstShortIsEarliest ==
    ASSUME NEW rs
    PROVE  LET Enough(stage) == Reached(rs, stage) >= DominanceWins
               first == FirstShortStage(rs)
               Few(stage) == Reached(rs, stage) < DominanceWins
           IN  \/ first = "formed" /\ Few("formed")
               \/ first = "selected" /\ ~Few("formed") /\ Few("selected")
               \/ first = "rendered" /\ ~Few("selected") /\ Few("rendered")
               \/ first = "learned_effect" /\ ~Few("formed") /\ ~Few("selected") /\ ~Few("rendered")
<1> DEFINE Few(k) == Reached(rs, Funnel[k]) < DominanceWins
           short == {k \in DOMAIN Funnel : Few(k)}
<1>1. DOMAIN Funnel = {1, 2, 3} /\ Funnel[1] = "formed" /\ Funnel[2] = "selected" /\ Funnel[3] = "rendered"
  BY DEF Funnel
<1>2. FirstShortStage(rs) = IF short = {} THEN "learned_effect" ELSE Funnel[Min(short)]
  BY DEF FirstShortStage
<1> HIDE DEF Few
<1>3. short # {} => Min(short) \in short /\ \A k \in short : Min(short) <= k
  <2> SUFFICES ASSUME short # {} PROVE Min(short) \in short /\ \A k \in short : Min(short) <= k
    OBVIOUS
  <2>1. short \subseteq Nat
    BY <1>1
  <2>2. \E x \in short : \A y \in short : x <= y
    BY <2>1, LeastNat
  <2> HIDE DEF short
  <2> QED BY <2>2 DEF Min
<1>4. short = {k \in {1, 2, 3} : Few(k)}
  BY <1>1
<1>5. \/ short = {} /\ ~Few(1) /\ ~Few(2) /\ ~Few(3)
      \/ Min(short) = 1 /\ Few(1)
      \/ Min(short) = 2 /\ ~Few(1) /\ Few(2)
      \/ Min(short) = 3 /\ ~Few(1) /\ ~Few(2) /\ Few(3)
  BY <1>3, <1>4
<1> HIDE DEF short
<1>6. short = {} \/ short # {}
  OBVIOUS
<1> QED BY <1>1, <1>2, <1>3, <1>5 DEF Few, short

\* A diagnosis, by its status.
LEMMA SummaryIs ==
    ASSUME NEW rs
    PROVE  /\ Summarize(rs).status = "preliminary_learned_advantage" => Dominates(rs, <<Learned, Rag>>)
           /\ Summarize(rs).status = "learning_or_selection_bottleneck" =>
                 /\ Summarize(rs).bottleneck = FirstShortStage(rs)
                 /\ \/ ~Dominates(rs, <<Learned, Rag>>)
                    \/ \E stage \in ToSet(Funnel) : ~(Reached(rs, stage) >= DominanceWins)
           /\ /\ Dominates(rs, <<Oracle, Anti>>) /\ Dominates(rs, <<Learned, Rag>>)
              /\ \A stage \in ToSet(Funnel) : Reached(rs, stage) >= DominanceWins
              => Summarize(rs).status = "preliminary_learned_advantage"
<1> DEFINE manipulated == Dominates(rs, <<Oracle, Anti>>)
           won == Dominates(rs, <<Learned, Rag>>)
           enough == \A stage \in ToSet(Funnel) : Reached(rs, stage) >= DominanceWins
<1>1. CASE ~manipulated
  <2>1. Summarize(rs).status = "manipulation_check_failed"
    BY <1>1 DEF Summarize, Diagnosis
  <2> QED BY <1>1, <2>1
<1>2. CASE manipulated /\ won /\ enough
  <2>1. Summarize(rs).status = "preliminary_learned_advantage"
    BY <1>2 DEF Summarize, Diagnosis
  <2> QED BY <1>2, <2>1
<1>3. CASE manipulated /\ ~(won /\ enough)
  <2>1. \/ Summarize(rs) = Diagnosis("learning_or_selection_bottleneck", FirstShortStage(rs))
        \/ \E status \in {"no_detectable_architecture_advantage", "inconclusive"} :
              Summarize(rs) = Diagnosis(status, "oracle_vs_rag")
    BY <1>3 DEF Summarize
  <2> HIDE DEF won, enough, manipulated
  <2>2. \/ Summarize(rs).status \in {"no_detectable_architecture_advantage", "inconclusive"}
        \/ /\ Summarize(rs).status = "learning_or_selection_bottleneck"
           /\ Summarize(rs).bottleneck = FirstShortStage(rs)
    BY <2>1 DEF Diagnosis
  <2> QED BY <1>3, <2>2 DEF won, enough, manipulated
<1> QED BY <1>1, <1>2, <1>3

\* The stage a diagnosis blames is the earliest one.
LEMMA BlameIsEarliest == IInv /\ SummaryOfResults => BottleneckIsEarliest
<1> SUFFICES ASSUME IInv, SummaryOfResults, summary # None,
                    summary.status = "learning_or_selection_bottleneck"
             PROVE  BottleneckIsEarliest
  BY DEF BottleneckIsEarliest
<1> DEFINE Enough(stage) == Reached(results, stage) >= DominanceWins
           first == FirstShortStage(results)
<1>1. /\ summary.bottleneck = first
      /\ \/ ~Dominates(results, <<Learned, Rag>>)
         \/ \E stage \in ToSet(Funnel) : ~Enough(stage)
  BY SummaryIs DEF SummaryOfResults
<1>2. ToSet(Funnel) = {"formed", "selected", "rendered"}
  BY DEF ToSet, Funnel
<1>3. \A stage \in ToSet(Funnel) : Reached(results, stage) < DominanceWins <=> ~Enough(stage)
  <2> TAKE stage \in ToSet(Funnel)
  <2>1. Reached(results, stage) \in Nat
    <3>1. DOMAIN results = Instances
      BY DEF IInv, InstanceInv
    <3>2. \A S \in SUBSET Instances : Cardinality(S) \in Nat
      BY CohortIsFinite, FS_Subset, FS_CardinalityType
    <3> QED BY <3>1, <3>2 DEF Reached
  <2> QED BY <2>1, CohortIsFinite
<1> HIDE DEF Enough
<1>4. \/ first = "formed" /\ ~Enough("formed")
      \/ first = "selected" /\ Enough("formed") /\ ~Enough("selected")
      \/ first = "rendered" /\ Enough("selected") /\ ~Enough("rendered")
      \/ first = "learned_effect" /\ Enough("formed") /\ Enough("selected") /\ Enough("rendered")
  BY <1>2, <1>3, FirstShortIsEarliest
<1> HIDE DEF first
<1> QED BY <1>1, <1>2, <1>4 DEF BottleneckIsEarliest, Enough

-----------------------------------------------------------------------------
(* Theorems *)

\* An output directory can be resumed wherever the Harness is killed: run_live freezes
\* the manifest before Core learns anything, and results are added under the bound
\* configuration only.
THEOREM DelayedDirectory == Spec => []DirectoryInv
<1>1. IInv => DirectoryInv
  BY DEF IInv, DirectoryInv
<1> QED BY DelayedInvariant, <1>1, PTL

\* What the results on disk say of their arms.
LEMMA ResultsAreCredible == IInv /\ ArmsInv => CreditNeedsRendering /\ ArmsShareRecollections
<1> SUFFICES ASSUME ArmsInv PROVE CreditNeedsRendering /\ ArmsShareRecollections
  OBVIOUS
<1>1. \A i \in Instances : results[i] # None => ResultOf(Models, Memory(i), i, results[i])
  BY DEF ArmsInv
<1> QED BY <1>1, CreditOfResult DEF CreditNeedsRendering, ArmsShareRecollections

\* An advantage is one of Dispositions that were shown.
LEMMA SummaryIsOfResults == IInv /\ ArmsInv => SummaryOfResults
<1> SUFFICES ASSUME IInv, ArmsInv, summary # None PROVE SummaryOfResults
  BY DEF SummaryOfResults
<1> DEFINE won == {i \in Instances : Consensus(results[i], <<Learned, Rag>>) = Learned}
           shown == {i \in Instances : /\ results[i].rendered # {} /\ results[i].active > 0
                                       /\ Consensus(results[i], <<Learned, Rag>>) = Learned}
<1>1. Pending = {} /\ summary = Summarize(results) /\ DOMAIN results = Instances
  BY DEF IInv, SummaryInv, InstanceInv
<1>2. \A i \in Instances : ResultOf(Models, Memory(i), i, results[i])
  BY <1>1 DEF ArmsInv, Pending
<1>3. won = shown
  BY <1>2, CreditOfResult
<1>4. Wins(results, <<Learned, Rag>>, Learned) = Cardinality(won)
  BY <1>1 DEF Wins
<1>5. summary.status = "preliminary_learned_advantage" => Cardinality(won) >= DominanceWins
  BY <1>1, <1>4, SummaryIs DEF Dominates
<1>6. Cardinality(won) \in Nat
  BY CohortIsFinite, FS_Subset, FS_CardinalityType
<1> HIDE DEF won
<1>7. summary.status = "preliminary_learned_advantage" => DominanceWins <= Cardinality(shown)
  BY <1>3, <1>5, <1>6, CohortIsFinite
<1> QED BY <1>1, <1>7 DEF SummaryOfResults

\* A smoke that returns has seen every arm told apart.
LEMMA SmokeIsComplete == IInv /\ ArmsInv => SmokeShowsAdvantage
<1> SUFFICES ASSUME IInv, ArmsInv, ~live, outcome = "returned" PROVE SmokeShowsAdvantage
  BY DEF SmokeShowsAdvantage
<1>1. Pending = {} /\ summary = Summarize(results) /\ DOMAIN results = Instances
  BY DEF IInv, SummaryInv, InstanceInv
<1>2. \A i \in Instances :
        /\ \A pair \in Pairs : Consensus(results[i], pair) = pair[1]
        /\ results[i].active > 0 /\ results[i].selected # {} /\ results[i].rendered # {}
  <2>1. ~Models.live
    BY DEF Models
  <2>2. \A i \in Instances : ResultOf(Models, Memory(i), i, results[i])
    BY <1>1 DEF ArmsInv, Pending
  <2> QED BY <2>1, <2>2, SmokeResult
<1>3. \A pair \in Pairs : Dominates(results, pair)
  <2> TAKE pair \in Pairs
  <2>1. pair[1] # pair[2]
    BY ModesDiffer DEF Pairs
  <2>2. /\ {i \in DOMAIN results : Consensus(results[i], pair) = pair[1]} = Instances
        /\ {i \in DOMAIN results : Consensus(results[i], pair) = pair[2]} = {}
    BY <1>1, <1>2, <2>1
  <2>3. Wins(results, pair, pair[1]) = Cardinality(Instances) /\ Wins(results, pair, pair[2]) = 0
    BY <2>2, FS_EmptySet DEF Wins
  <2> QED BY <2>3, CohortIsFinite DEF Dominates
<1>4. \A stage \in ToSet(Funnel) : Reached(results, stage) >= DominanceWins
  <2> TAKE stage \in ToSet(Funnel)
  <2>1. stage \in {"formed", "selected", "rendered"}
    BY DEF ToSet, Funnel
  <2>2. Reached(results, stage) = Cardinality(Instances)
    <3>1. CASE stage = "formed"
      <4>1. {i \in DOMAIN results : results[i].active > 0} = Instances
        BY <1>1, <1>2
      <4> QED BY <3>1, <4>1 DEF Reached
    <3>2. CASE stage = "selected"
      <4>1. {i \in DOMAIN results : results[i].selected # {}} = Instances
        BY <1>1, <1>2
      <4> QED BY <3>2, <4>1 DEF Reached
    <3>3. CASE stage = "rendered"
      <4>1. {i \in DOMAIN results : results[i].rendered # {}} = Instances
        BY <1>1, <1>2
      <4> QED BY <3>3, <4>1 DEF Reached
    <3> QED BY <2>1, <3>1, <3>2, <3>3
  <2> QED BY <2>2, CohortIsFinite
<1>5. <<Oracle, Anti>> \in Pairs /\ <<Learned, Rag>> \in Pairs
  BY DEF Pairs
<1>6. summary.status = "preliminary_learned_advantage"
  BY <1>1, <1>3, <1>4, <1>5, SummaryIs
<1> QED BY <1>2, <1>6 DEF SmokeShowsAdvantage

\* Whatever Core selects, the models reply and crashes: the diagnosis verified_summary
\* leaves on disk is that of the complete cohort, an advantage was shown by Dispositions
\* in the text, the stage it blames is the earliest, the arms of every result differ in
\* their Dispositions only, and a smoke that returns has told all of them apart.
THEOREM DiagnosisIsJustified == Spec => []VerdictJustified
<1>1. IInv /\ ArmsInv => VerdictJustified
  BY ResultsAreCredible, SummaryIsOfResults, SmokeIsComplete, BlameIsEarliest DEF VerdictJustified
<1> QED BY ArmsInvariant, <1>1, PTL

=============================================================================
