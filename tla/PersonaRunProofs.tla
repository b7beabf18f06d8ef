-------------------------- MODULE PersonaRunProofs ---------------------------
(***************************************************************************)
(* Proofs about PersonaRun, for any number of personas and questions, for  *)
(* whatever Core learns and ranks, and for any interleaving of the         *)
(* personas with Core.                                                     *)
(***************************************************************************)
EXTENDS PersonaRun, RenderingProofs

-----------------------------------------------------------------------------
(* The inductive invariant *)

Places == {"none", "done", "ingest", "snapshot", "verify", "projection", "question", "search",
           "select", "load", "answer", "verifyAnswer", "projectionAnswer", "freeze", "verifyEnd",
           "projectionEnd", "proof"}

\* Before the snapshot; at a question; with its search behind it, with its result in hand;
\* past the last one.
Unfrozen == {"ingest", "snapshot"}
AtQuestion == {"search", "select", "load", "answer", "verifyAnswer", "projectionAnswer", "freeze"}
HasFound == {"select", "load", "answer"}
InHand == {"verifyAnswer", "projectionAnswer", "freeze"}
AtEnd == {"verifyEnd", "projectionEnd", "proof"}

\* A task: questions are asked one after the other, and the end comes after the last one.
TaskShape(p, t) ==
    /\ DOMAIN t = {"at", "q", "found", "searched", "looked", "result"}
    /\ t.at \in Places
    /\ t.q \in 1 .. Len(Cases[p]) + 1
    /\ t.at \in AtQuestion => t.q \in 1 .. Len(Cases[p])
    /\ t.at \in AtEnd => t.q = Len(Cases[p]) + 1

MemoryShape(p, b, v, x) ==
    v \in 0 .. MaxLearn[p] /\ x \in 0 .. v /\ b \in {None} \cup 0 .. v

Shape ==
    /\ DOMAIN task = Personas /\ DOMAIN before = Personas /\ DOMAIN proof = Personas
    /\ DOMAIN version = Personas /\ DOMAIN indexed = Personas
    /\ DOMAIN results = Questions /\ DOMAIN contexts = Questions
    /\ \A p \in Personas : TaskShape(p, task[p]) /\ (~up => task[p] = Idle)
    /\ \A p \in Personas : MemoryShape(p, before[p], version[p], indexed[p])

\* A context that Core has frozen is not older than the snapshot b, with memory at
\* version v and its index at version x; a search of the index may have failed.
ContextOf(b, v, x, context) ==
    /\ b # None
    /\ context.version \in b .. v /\ context.indexed \in (b .. x) \cup {None}
    /\ context.selected \in Selections /\ context # None

\* Neither is what is in hand, and once memory was seen unchanged after the answer it
\* can only be the snapshot itself.
ResultOf(b, v, x, result, checked) ==
    /\ result \in Results
    /\ result.version \in b .. v
    /\ \E m \in b .. x, n \in (b .. x) \cup {None} : result.indexed = {m, n} \ {None}
    /\ checked => result.version = b /\ result.indexed = {b}

\* The task t of a persona: the snapshot is taken once, before anything is asked; from the
\* check of the projection on the index has all of it; the questions before the one at work
\* have their results.
TaskOK(p, t, b, v, x, frozen, done) ==
    /\ t.at \in Unfrozen => b = None
    /\ t.at \notin Unfrozen \cup {"none", "done"} => b # None
    /\ t.at \in AtQuestion \cup {"question"} => b <= x
    /\ t.at = "load" => t.looked \in (b .. x) \cup {None} /\ frozen[Cases[p][t.q]] = None
    /\ t.at = "answer" => ContextOf(b, v, x, frozen[Cases[p][t.q]])
    /\ t.at \in HasFound => t.searched \in b .. x /\ t.found \in Founds
    /\ t.at \in InHand => ResultOf(b, v, x, t.result, t.at # "verifyAnswer")
    /\ \A k \in 1 .. Len(Cases[p]) : k < t.q => done[Cases[p][k]] # None

\* What Core and the output directory hold of a question, and of a persona.
QuestionOK(b, v, x, context, result) ==
    /\ context # None => ContextOf(b, v, x, context)
    /\ result # None => b # None /\ result.version = b /\ result.indexed = {b}

ProofOK(p, b, stated, done) ==
    stated # None => stated = b /\ \A q \in ToSet(Cases[p]) : done[q] # None

TasksInv ==
    \A p \in Personas : TaskOK(p, task[p], before[p], version[p], indexed[p], contexts, results)
QuestionsInv ==
    \A q \in Questions : LET p == Persona[q] IN
        QuestionOK(before[p], version[p], indexed[p], contexts[q], results[q])
ProofsInv == \A p \in Personas : ProofOK(p, before[p], proof[p], results)
CacheInv == \A key \in DOMAIN cache : cache[key] \in BOOLEAN

IInv == /\ Shape /\ Cardinality(Working) <= Limit
        /\ TasksInv /\ QuestionsInv /\ ProofsInv /\ CacheInv

-----------------------------------------------------------------------------
(* Questions and personas *)

LEMMA CaseTypes ==
    /\ \A p \in Personas : Len(Cases[p]) \in Nat /\ MaxLearn[p] \in Nat
    /\ \A p \in Personas : \A k \in 1 .. Len(Cases[p]) :
          Cases[p][k] \in Questions /\ Persona[Cases[p][k]] = p
    /\ \A p \in Personas : \A q \in ToSet(Cases[p]) : \E k \in 1 .. Len(Cases[p]) : q = Cases[p][k]
    /\ \A q \in Questions : Persona[q] \in Personas
<1>1. \A p \in Personas : Cases[p] \in Seq(Questions) /\ MaxLearn[p] \in Nat
  BY RunAssumption
<1>2. \A p \in Personas : ToSet(Cases[p]) = {Cases[p][k] : k \in 1 .. Len(Cases[p])}
  BY <1>1 DEF ToSet
<1>3. \A p \in Personas : ToSet(Cases[p]) = {q \in Questions : Persona[q] = p}
  BY RunAssumption
<1>4. \A q \in Questions : Persona[q] \in Personas
  BY EffectAssumption DEF Personas
<1>5. \A p \in Personas : Len(Cases[p]) \in Nat
  BY <1>1
<1>6. \A p \in Personas : \A k \in 1 .. Len(Cases[p]) : Cases[p][k] \in ToSet(Cases[p])
  BY <1>2
<1>7. \A p \in Personas : \A k \in 1 .. Len(Cases[p]) :
          Cases[p][k] \in Questions /\ Persona[Cases[p][k]] = p
  BY <1>3, <1>6
<1>8. \A p \in Personas : \A q \in ToSet(Cases[p]) : \E k \in 1 .. Len(Cases[p]) : q = Cases[p][k]
  BY <1>2
<1>9. \A p \in Personas : MaxLearn[p] \in Nat
  BY <1>1
<1> QED BY <1>4, <1>5, <1>7, <1>8, <1>9

\* The question a persona is at is one of its own.
LEMMA OwnQuestion ==
    ASSUME Shape, NEW p \in Personas, task[p].at \in AtQuestion
    PROVE  Question(p) \in Questions /\ Persona[Question(p)] = p
BY CaseTypes DEF Shape, TaskShape, Question

-----------------------------------------------------------------------------
(* Frames: Core learns and projects, other personas go on *)

LEMMA TaskKept ==
    ASSUME NEW p \in Personas, NEW t, NEW b, NEW v \in Nat, NEW x \in Nat, NEW frozen, NEW done,
           TaskOK(p, t, b, v, x, frozen, done), b \in {None} \cup Nat,
           NEW w \in Nat, NEW y \in Nat, v <= w, x <= y, NEW frozen2, NEW done2,
           t.at \in {"load", "answer"} => frozen2[Cases[p][t.q]] = frozen[Cases[p][t.q]],
           \A q \in Questions : done[q] # None => done2[q] # None
    PROVE  TaskOK(p, t, b, w, y, frozen2, done2)
<1>1. b \in Nat => b .. v \subseteq b .. w /\ b .. x \subseteq b .. y
  OBVIOUS
<1>2. t.at \notin Unfrozen \cup {"none", "done"} => b \in Nat
  BY DEF TaskOK
<1>3. t.at \in AtQuestion \cup {"question"} => b <= y
  BY <1>2 DEF TaskOK, AtQuestion, Unfrozen
<1>4. t.at = "answer" => ContextOf(b, w, y, frozen2[Cases[p][t.q]])
  <2> SUFFICES ASSUME t.at = "answer" PROVE ContextOf(b, w, y, frozen[Cases[p][t.q]])
    OBVIOUS
  <2>1. ContextOf(b, v, x, frozen[Cases[p][t.q]]) /\ b \in Nat
    BY <1>2 DEF TaskOK, Unfrozen
  <2> QED BY <2>1 DEF ContextOf
<1>5. t.at \in HasFound => t.searched \in b .. y /\ t.found \in Founds
  BY <1>1, <1>2 DEF TaskOK, Unfrozen, HasFound
<1>7. t.at = "load" => t.looked \in (b .. y) \cup {None} /\ frozen2[Cases[p][t.q]] = None
  BY <1>1, <1>2 DEF TaskOK, Unfrozen
<1>6. t.at \in InHand => ResultOf(b, w, y, t.result, t.at # "verifyAnswer")
  BY <1>1, <1>2 DEF TaskOK, Unfrozen, InHand, ResultOf
<1>8. \A k \in 1 .. Len(Cases[p]) : k < t.q => done2[Cases[p][k]] # None
  BY CaseTypes DEF TaskOK
<1> QED BY <1>3, <1>4, <1>5, <1>6, <1>7, <1>8 DEF TaskOK

LEMMA QuestionKept ==
    ASSUME NEW b \in {None} \cup Nat, NEW v \in Nat, NEW x \in Nat, NEW context, NEW result,
           QuestionOK(b, v, x, context, result),
           NEW w \in Nat, NEW y \in Nat, v <= w, x <= y
    PROVE  QuestionOK(b, w, y, context, result)
BY DEF QuestionOK, ContextOf

LEMMA IdleOK ==
    ASSUME NEW p \in Personas, NEW b, NEW v, NEW x, NEW frozen, NEW done
    PROVE  TaskOK(p, Idle, b, v, x, frozen, done)
BY CaseTypes DEF TaskOK, Idle, Unfrozen, AtQuestion, HasFound, InHand

LEMMA IdleShape == \A p \in Personas : TaskShape(p, Idle)
BY CaseTypes DEF TaskShape, Idle, Places, AtQuestion, AtEnd

-----------------------------------------------------------------------------
(* Going on *)

\* Whatever is needed at a place, with the task t.
LEMMA Arrive ==
    ASSUME NEW p \in Personas, NEW t, NEW b, NEW v, NEW x, NEW frozen, NEW done,
           TaskShape(p, t), TaskOK(p, t, b, v, x, frozen, done),
           NEW at \in Places,
           at \in AtQuestion => t.q \in 1 .. Len(Cases[p]),
           at \in AtEnd => t.q = Len(Cases[p]) + 1,
           at \in Unfrozen => b = None,
           at \notin Unfrozen \cup {"none", "done"} => b # None,
           at \in AtQuestion \cup {"question"} => b <= x,
           at = "load" => t.looked \in (b .. x) \cup {None} /\ frozen[Cases[p][t.q]] = None,
           at = "answer" => ContextOf(b, v, x, frozen[Cases[p][t.q]]),
           at \in HasFound => t.searched \in b .. x /\ t.found \in Founds,
           at \in InHand => ResultOf(b, v, x, t.result, at # "verifyAnswer")
    PROVE  TaskShape(p, [t EXCEPT !.at = at]) /\ TaskOK(p, [t EXCEPT !.at = at], b, v, x, frozen, done)
<1> DEFINE s == [t EXCEPT !.at = at]
<1>1. /\ DOMAIN s = DOMAIN t /\ s.at = at /\ s.q = t.q /\ s.found = t.found
      /\ s.searched = t.searched /\ s.looked = t.looked /\ s.result = t.result
  BY DEF TaskShape
<1>2. TaskShape(p, s)
  BY <1>1 DEF TaskShape
<1>3. TaskOK(p, s, b, v, x, frozen, done)
  <2> HIDE DEF s
  <2> QED BY <1>1 DEF TaskOK
<1> QED BY <1>2, <1>3

\* A step of a persona that neither Core nor the output directory notices.
Moves(p) ==
    \/ Raise
    \/ up' = up /\ \E t : /\ task' = [task EXCEPT ![p] = t] /\ TaskShape(p, t)
                          /\ TaskOK(p, t, before[p], version[p], indexed[p], contexts, results)

LEMMA GoingOn ==
    ASSUME Shape, NEW p \in Personas, NEW at \in Places, Goto(p, at),
           LET t == task[p]  b == before[p]  v == version[p]  x == indexed[p] IN
           /\ TaskOK(p, t, b, v, x, contexts, results)
           /\ at \in AtQuestion => t.q \in 1 .. Len(Cases[p])
           /\ at \in AtEnd => t.q = Len(Cases[p]) + 1
           /\ at \in Unfrozen => b = None
           /\ at \notin Unfrozen \cup {"none", "done"} => b # None
           /\ at \in AtQuestion \cup {"question"} => b <= x
           /\ at = "load" => t.looked \in (b .. x) \cup {None} /\ contexts[Cases[p][t.q]] = None
           /\ at = "answer" => ContextOf(b, v, x, contexts[Cases[p][t.q]])
           /\ at \in HasFound => t.searched \in b .. x /\ t.found \in Founds
           /\ at \in InHand => ResultOf(b, v, x, t.result, at # "verifyAnswer")
    PROVE  Moves(p)
<1> DEFINE s == [task[p] EXCEPT !.at = at]
<1>1. TaskShape(p, task[p])
  BY DEF Shape
<1>2. TaskShape(p, s) /\ TaskOK(p, s, before[p], version[p], indexed[p], contexts, results)
  <2> HIDE DEF s
  <2> QED BY <1>1, Arrive DEF s
<1>3. up' = up /\ task' = [task EXCEPT ![p] = s]
  BY DEF Goto, Shape
<1> QED BY <1>2, <1>3 DEF Moves

\* What is known of a persona at work.
LEMMA AtWork ==
    ASSUME IInv, NEW p \in Personas
    PROVE  /\ Shape /\ TaskShape(p, task[p])
           /\ TaskOK(p, task[p], before[p], version[p], indexed[p], contexts, results)
           /\ version[p] \in Nat /\ indexed[p] \in Nat /\ indexed[p] <= version[p]
           /\ version[p] <= MaxLearn[p] /\ MaxLearn[p] \in Nat
           /\ before[p] # None => before[p] \in Nat /\ before[p] <= version[p]
           /\ Len(Cases[p]) \in Nat /\ task[p].q \in Nat
<1>1. Shape /\ TaskShape(p, task[p]) /\ MemoryShape(p, before[p], version[p], indexed[p])
  BY DEF IInv, Shape
<1>2. TaskOK(p, task[p], before[p], version[p], indexed[p], contexts, results)
  BY DEF IInv, TasksInv
<1>3. Len(Cases[p]) \in Nat /\ MaxLearn[p] \in Nat
  BY CaseTypes
<1>4. task[p].q \in Nat
  BY <1>1, <1>3 DEF TaskShape
<1>5. /\ version[p] \in Nat /\ indexed[p] \in Nat /\ indexed[p] <= version[p] /\ version[p] <= MaxLearn[p]
      /\ before[p] # None => before[p] \in Nat /\ before[p] <= version[p]
  BY <1>1, <1>3 DEF MemoryShape
<1> QED BY <1>1, <1>2, <1>3, <1>4, <1>5

LEMMA AcquireMoves ==
    ASSUME IInv, NEW p \in Personas, Acquire(p)
    PROVE  Moves(p)
<1>1. CASE Raise
  BY <1>1 DEF Moves
<1>2. CASE before[p] # None /\ Goto(p, "verify")
  BY <1>2, AtWork, GoingOn DEF Places, AtQuestion, HasFound, AtEnd, Unfrozen, InHand
<1>3. CASE before[p] = None /\ Goto(p, "ingest")
  BY <1>3, AtWork, GoingOn DEF Places, AtQuestion, HasFound, AtEnd, Unfrozen, InHand
<1> QED BY <1>1, <1>2, <1>3 DEF Acquire

LEMMA IngestMoves ==
    ASSUME IInv, NEW p \in Personas, Ingest(p)
    PROVE  Moves(p)
<1>1. before[p] = None
  BY AtWork DEF Ingest, TaskOK, Unfrozen
<1> QED BY <1>1, AtWork, GoingOn DEF Ingest, Places, AtQuestion, HasFound, AtEnd, Unfrozen, InHand

LEMMA VerifyMemoryMoves ==
    ASSUME IInv, NEW p \in Personas, VerifyMemory(p)
    PROVE  Moves(p)
<1>1. CASE Raise
  BY <1>1 DEF Moves
<1> SUFFICES ASSUME ~Raise PROVE Moves(p)
  BY <1>1
<1>2. before[p] # None /\ before[p] = version[p]
  BY AtWork DEF VerifyMemory, MemoryUnchanged, TaskOK, Unfrozen
<1>3. CASE task[p].at = "verify" /\ Goto(p, "projection")
  BY <1>2, <1>3, AtWork, GoingOn DEF Places, AtQuestion, HasFound, AtEnd, Unfrozen, InHand
<1>4. CASE task[p].at = "verifyAnswer" /\ Goto(p, "projectionAnswer")
  <2>1. before[p] <= indexed[p] /\ task[p].q \in 1 .. Len(Cases[p])
    BY <1>4, AtWork DEF TaskOK, TaskShape, AtQuestion
  <2>2. ResultOf(before[p], version[p], indexed[p], task[p].result, FALSE)
    BY <1>4, AtWork DEF TaskOK, InHand
  <2>3. ResultOf(before[p], version[p], indexed[p], task[p].result, TRUE)
    BY <1>2, <2>1, <2>2, AtWork DEF ResultOf
  <2> QED BY <1>2, <1>4, <2>1, <2>3, AtWork, GoingOn DEF Places, AtQuestion, HasFound, AtEnd, Unfrozen, InHand
<1>5. CASE task[p].at = "verifyEnd" /\ Goto(p, "projectionEnd")
  <2>1. task[p].q = Len(Cases[p]) + 1
    BY <1>5, AtWork DEF TaskShape, AtEnd
  <2> QED BY <1>2, <1>5, <2>1, AtWork, GoingOn DEF Places, AtQuestion, HasFound, AtEnd, Unfrozen, InHand
<1> QED BY <1>3, <1>4, <1>5 DEF VerifyMemory

LEMMA VerifyProjectionMoves ==
    ASSUME IInv, NEW p \in Personas, VerifyProjection(p)
    PROVE  Moves(p)
<1>1. CASE Raise
  BY <1>1 DEF Moves
<1> SUFFICES ASSUME ~Raise PROVE Moves(p)
  BY <1>1
<1>2. before[p] # None /\ indexed[p] = version[p]
  BY AtWork DEF VerifyProjection, ProjectionDone, TaskOK, Unfrozen
<1>3. CASE task[p].at = "projection" /\ Goto(p, "question")
  BY <1>2, <1>3, AtWork, GoingOn DEF Places, AtQuestion, HasFound, AtEnd, Unfrozen, InHand
<1>4. CASE task[p].at = "projectionAnswer" /\ Goto(p, "freeze")
  <2>1. before[p] <= indexed[p] /\ task[p].q \in 1 .. Len(Cases[p])
    BY <1>4, AtWork DEF TaskOK, TaskShape, AtQuestion
  <2>2. ResultOf(before[p], version[p], indexed[p], task[p].result, TRUE)
    BY <1>4, AtWork DEF TaskOK, InHand
  <2> QED BY <1>2, <1>4, <2>1, <2>2, AtWork, GoingOn DEF Places, AtQuestion, HasFound, AtEnd, Unfrozen, InHand
<1>5. CASE task[p].at = "projectionEnd" /\ Goto(p, "proof")
  <2>1. task[p].q = Len(Cases[p]) + 1
    BY <1>5, AtWork DEF TaskShape, AtEnd
  <2> QED BY <1>2, <1>5, <2>1, AtWork, GoingOn DEF Places, AtQuestion, HasFound, AtEnd, Unfrozen, InHand
<1> QED BY <1>3, <1>4, <1>5 DEF VerifyProjection

LEMMA NextQuestionMoves ==
    ASSUME IInv, NEW p \in Personas, NextQuestion(p)
    PROVE  Moves(p)
<1>1. CASE Raise
  BY <1>1 DEF Moves
<1> SUFFICES ASSUME ~Raise PROVE Moves(p)
  BY <1>1
<1>2. task[p].at = "question" /\ before[p] # None /\ before[p] <= indexed[p]
  BY AtWork DEF NextQuestion, TaskOK, Unfrozen
<1>3. CASE task[p].q > Len(Cases[p]) /\ Goto(p, "verifyEnd")
  <2>1. task[p].q = Len(Cases[p]) + 1
    BY <1>3, AtWork DEF TaskShape
  <2> QED BY <1>2, <1>3, <2>1, AtWork, GoingOn DEF Places, AtQuestion, HasFound, AtEnd, Unfrozen, InHand
<1>4. CASE ~(task[p].q > Len(Cases[p])) /\ Goto(p, "search")
  <2>1. task[p].q \in 1 .. Len(Cases[p])
    BY <1>4, AtWork DEF TaskShape
  <2> QED BY <1>2, <1>4, <2>1, AtWork, GoingOn DEF Places, AtQuestion, HasFound, AtEnd, Unfrozen, InHand
<1>5. CASE /\ ~(task[p].q > Len(Cases[p])) /\ results[Question(p)] # None
           /\ task' = [task EXCEPT ![p].q = @ + 1] /\ UNCHANGED up
  <2> DEFINE s == [task[p] EXCEPT !.q = task[p].q + 1]
  <2>0. task[p].q \in 1 .. Len(Cases[p])
    BY <1>5, AtWork DEF TaskShape
  <2>1. task' = [task EXCEPT ![p] = s]
    BY <1>5
  <2>2. DOMAIN s = DOMAIN task[p] /\ s.at = "question" /\ s.q = task[p].q + 1
    BY <1>2, AtWork DEF TaskShape
  <2> HIDE DEF s
  <2>3. TaskShape(p, s)
    BY <2>0, <2>2, AtWork DEF TaskShape, Places, AtQuestion, AtEnd
  <2>4. \A k \in 1 .. Len(Cases[p]) : k < s.q => results[Cases[p][k]] # None
    BY <1>5, <2>0, <2>2, AtWork DEF TaskOK, Question
  <2>5. TaskOK(p, s, before[p], version[p], indexed[p], contexts, results)
    BY <1>2, <2>2, <2>4 DEF TaskOK, AtQuestion, HasFound, Unfrozen, InHand
  <2> QED BY <1>5, <2>1, <2>3, <2>5 DEF Moves
<1> QED BY <1>3, <1>4, <1>5 DEF NextQuestion

LEMMA SearchMoves ==
    ASSUME IInv, NEW p \in Personas, Search(p)
    PROVE  Moves(p)
<1>1. CASE Raise
  BY <1>1 DEF Moves
<1> SUFFICES ASSUME ~Raise PROVE Moves(p)
  BY <1>1
<1> DEFINE found == Found[Question(p)][before[p]][indexed[p]]
<1>2. task[p].at = "search" /\ before[p] # None /\ before[p] <= indexed[p] /\ task[p].q \in 1 .. Len(Cases[p])
  BY AtWork DEF Search, TaskOK, TaskShape, AtQuestion, Unfrozen
<1>3. Question(p) \in Questions /\ Persona[Question(p)] = p
  BY <1>2, OwnQuestion, AtWork DEF AtQuestion
<1>4. found \in Founds
  <2>1. before[p] \in Versions(Question(p)) /\ indexed[p] \in Versions(Question(p))
    BY <1>2, <1>3, AtWork DEF Versions
  <2> QED BY <1>3, <2>1 DEF Founds
<1> DEFINE s == [[[task[p] EXCEPT !.at = "select"] EXCEPT !.found = found] EXCEPT !.searched = indexed[p]]
<1>5. up' = up /\ task' = [task EXCEPT ![p].at = "select", ![p].found = found, ![p].searched = indexed[p]]
  BY DEF Search
<1> HIDE DEF found
<1>6. task' = [task EXCEPT ![p] = s]
  BY <1>5, AtWork DEF Shape, TaskShape
<1>7. DOMAIN s = DOMAIN task[p] /\ s.at = "select" /\ s.q = task[p].q /\ s.found = found /\ s.searched = indexed[p]
  BY AtWork DEF TaskShape
<1> HIDE DEF s
<1>8. TaskShape(p, s)
  BY <1>2, <1>7, AtWork DEF TaskShape, Places, AtQuestion, AtEnd
<1>9. indexed[p] \in before[p] .. indexed[p]
  BY <1>2, AtWork
<1>10. TaskOK(p, s, before[p], version[p], indexed[p], contexts, results)
  BY <1>2, <1>4, <1>7, <1>9, AtWork DEF TaskOK, AtQuestion, HasFound, Unfrozen, InHand
<1> QED BY <1>5, <1>6, <1>8, <1>10 DEF Moves

LEMMA SelectMoves ==
    ASSUME IInv, NEW p \in Personas, Select(p)
    PROVE  Moves(p)
<1>1. /\ task[p].at = "select" /\ before[p] # None /\ before[p] <= indexed[p]
      /\ task[p].q \in 1 .. Len(Cases[p])
      /\ task[p].searched \in before[p] .. indexed[p] /\ task[p].found \in Founds
  BY AtWork DEF Select, TaskOK, TaskShape, AtQuestion, HasFound, Unfrozen
<1>2. Question(p) \in Questions /\ Persona[Question(p)] = p
  BY <1>1, OwnQuestion, AtWork DEF AtQuestion
<1>3. CASE contexts[Question(p)] # None /\ Goto(p, "answer")
  <2>1. ContextOf(before[p], version[p], indexed[p], contexts[Cases[p][task[p].q]])
    BY <1>2, <1>3 DEF IInv, QuestionsInv, QuestionOK, Question
  <2> QED BY <1>1, <1>3, <2>1, AtWork, GoingOn DEF Places, AtQuestion, HasFound, AtEnd, Unfrozen, InHand
<1>4. ASSUME NEW index \in {indexed[p], None}, contexts[Question(p)] = None,
             task' = [task EXCEPT ![p].at = "load", ![p].looked = index], up' = up
      PROVE  Moves(p)
  <2> DEFINE s == [[task[p] EXCEPT !.at = "load"] EXCEPT !.looked = index]
  <2>1. task' = [task EXCEPT ![p] = s]
    BY <1>4, AtWork DEF Shape, TaskShape
  <2>2. /\ DOMAIN s = DOMAIN task[p] /\ s.at = "load" /\ s.q = task[p].q
        /\ s.found = task[p].found /\ s.searched = task[p].searched /\ s.looked = index
    BY AtWork DEF TaskShape
  <2> HIDE DEF s
  <2>3. TaskShape(p, s)
    BY <1>1, <2>2, AtWork DEF TaskShape, Places, AtQuestion, AtEnd
  <2>4. index \in (before[p] .. indexed[p]) \cup {None}
    BY <1>1, AtWork
  <2>5. TaskOK(p, s, before[p], version[p], indexed[p], contexts, results)
    BY <1>1, <1>4, <2>2, <2>4, AtWork DEF TaskOK, AtQuestion, HasFound, Unfrozen, InHand, Question
  <2> QED BY <1>4, <2>1, <2>3, <2>5 DEF Moves
<1> QED BY <1>3, <1>4 DEF Select

Going(p) ==
    \/ Acquire(p) \/ Ingest(p) \/ VerifyMemory(p) \/ VerifyProjection(p) \/ NextQuestion(p)
    \/ Search(p) \/ Select(p)

LEMMA GoingMoves ==
    ASSUME IInv, NEW p \in Personas, Going(p)
    PROVE  /\ Moves(p)
           /\ before' = before /\ contexts' = contexts /\ results' = results /\ version' = version
           /\ indexed' = indexed /\ proof' = proof /\ cache' = cache
BY AcquireMoves, IngestMoves, VerifyMemoryMoves, VerifyProjectionMoves, NextQuestionMoves, SearchMoves,
   SelectMoves
   DEF Going, Acquire, Ingest, VerifyMemory, VerifyProjection, NextQuestion, Search, Select, files, core

-----------------------------------------------------------------------------
(* Shape *)

\* A process runs while a persona is at work.
LEMMA UpAtWork ==
    ASSUME Shape, NEW p \in Personas, task[p].at # "none"
    PROVE  up
BY DEF Shape, Idle

\* Steps of one persona, with the task it goes on with.
LEMMA ShapeOfStep ==
    ASSUME Shape, NEW p \in Personas, NEW t, up, up' = up, task' = [task EXCEPT ![p] = t], TaskShape(p, t),
           version' = version, indexed' = indexed, DOMAIN proof' = Personas,
           DOMAIN results' = Questions, DOMAIN contexts' = Questions, DOMAIN before' = Personas,
           \A o \in Personas : before'[o] \in {before[o], version[o]}
    PROVE  Shape'
<1>1. DOMAIN task' = Personas /\ \A o \in Personas : task'[o] = IF o = p THEN t ELSE task[o]
  BY DEF Shape
<1>2. \A o \in Personas : TaskShape(o, task'[o])
  BY <1>1 DEF Shape
<1>3. \A o \in Personas : MemoryShape(o, before'[o], version'[o], indexed'[o])
  BY CaseTypes DEF Shape, MemoryShape
<1> QED BY <1>1, <1>2, <1>3 DEF Shape

LEMMA ShapeRaise ==
    ASSUME Shape, Raise, UNCHANGED <<before, proof, version, indexed, results, contexts>>
    PROVE  Shape'
BY IdleShape DEF Shape, Raise

LEMMA ShapeInit == Init => Shape
BY CaseTypes, IdleShape DEF Init, Shape, MemoryShape

LEMMA ShapeNext == IInv /\ [Next]_vars => Shape'
<1> SUFFICES ASSUME IInv, [Next]_vars PROVE Shape'
  OBVIOUS
<1>0. Shape
  BY DEF IInv
<1>1. CASE UNCHANGED vars
  BY <1>0, <1>1 DEF vars, files, core, Shape
<1>2. CASE Start
  BY <1>0, <1>2 DEF Start, files, core, Shape
<1>3. CASE VerifiedSummary \/ Stop
  BY <1>0, <1>3, ShapeRaise DEF VerifiedSummary, Stop, files, core
<1>4. ASSUME NEW p \in Personas, PersonaStep(p) PROVE Shape'
  <2> USE <1>0
  <2>1. CASE Going(p)
    <3>1. up \/ Raise
      BY <2>1, UpAtWork DEF Going, Acquire, Ingest, VerifyMemory, VerifyProjection, NextQuestion, Search,
                            Select
    <3>2. Moves(p) /\ UNCHANGED <<before, proof, version, indexed, results, contexts>>
      BY <2>1, GoingMoves
    <3>3. CASE Raise
      BY <3>2, <3>3, ShapeRaise
    <3>4. CASE ~Raise
      <4>1. PICK t : up' = up /\ task' = [task EXCEPT ![p] = t] /\ TaskShape(p, t)
        BY <3>2, <3>4 DEF Moves
      <4> QED BY <3>1, <3>2, <3>4, <4>1, ShapeOfStep DEF Shape
    <3> QED BY <3>3, <3>4
  <2>2. CASE Snapshot(p)
    <3> DEFINE s == [task[p] EXCEPT !.at = "verify"]
    <3>1. up /\ up' = up /\ task' = [task EXCEPT ![p] = s]
      BY <2>2, UpAtWork DEF Snapshot, Goto, Shape
    <3>2. TaskShape(p, s)
      BY DEF Shape, TaskShape, Places, AtQuestion, AtEnd
    <3> HIDE DEF s
    <3> QED BY <2>2, <3>1, <3>2, ShapeOfStep DEF Snapshot, core, Shape
  <2>3. CASE Load(p)
    <3> DEFINE s == [task[p] EXCEPT !.at = "answer"]
    <3>1. up /\ up' = up /\ task' = [task EXCEPT ![p] = s] /\ task[p].at = "load"
      BY <2>3, UpAtWork DEF Load, Goto, Shape
    <3>2. TaskShape(p, s)
      BY <3>1 DEF Shape, TaskShape, Places, AtQuestion, AtEnd
    <3> HIDE DEF s
    <3> QED BY <2>3, <3>1, <3>2, ShapeOfStep DEF Load, files, Shape
  <2>4. CASE Answer(p)
    <3>1. PICK r : task' = [task EXCEPT ![p].at = "verifyAnswer", ![p].result = r]
      BY <2>4 DEF Answer
    <3> DEFINE s == [[task[p] EXCEPT !.at = "verifyAnswer"] EXCEPT !.result = r]
    <3>2. up /\ up' = up /\ task' = [task EXCEPT ![p] = s] /\ task[p].at = "answer"
      BY <2>4, <3>1, UpAtWork DEF Answer, Shape, TaskShape
    <3>3. TaskShape(p, s)
      BY <3>2 DEF Shape, TaskShape, Places, AtQuestion, AtEnd
    <3> HIDE DEF s
    <3> QED BY <2>4, <3>2, <3>3, ShapeOfStep DEF Answer, Shape
  <2>5. CASE FreezeQuestion(p)
    <3> DEFINE s == [Idle EXCEPT !.at = "question", !.q = task[p].q + 1]
    <3>1. up /\ up' = up /\ task' = [task EXCEPT ![p] = s] /\ task[p].at = "freeze"
      BY <2>5, UpAtWork DEF FreezeQuestion
    <3>2. TaskShape(p, s)
      BY <3>1, CaseTypes DEF Shape, TaskShape, Places, AtQuestion, AtEnd, Idle
    <3> HIDE DEF s
    <3> QED BY <2>5, <3>1, <3>2, ShapeOfStep DEF FreezeQuestion, core, Shape
  <2>6. CASE FreezeProof(p)
    <3> DEFINE s == [Idle EXCEPT !.at = "done"]
    <3>1. up /\ up' = up /\ task' = [task EXCEPT ![p] = s]
      BY <2>6, UpAtWork DEF FreezeProof
    <3>2. TaskShape(p, s)
      BY CaseTypes DEF TaskShape, Places, AtQuestion, AtEnd, Idle
    <3> HIDE DEF s
    <3> QED BY <2>6, <3>1, <3>2, ShapeOfStep DEF FreezeProof, core, Shape
  <2> QED BY <1>4, <2>1, <2>2, <2>3, <2>4, <2>5, <2>6 DEF PersonaStep, Going
<1>5. ASSUME NEW p \in Personas, Learn(p) \/ Project(p) PROVE Shape'
  <2>0. \A o \in Personas : MaxLearn[o] \in Nat /\ MemoryShape(o, before[o], version[o], indexed[o])
    BY <1>0, CaseTypes DEF Shape
  <2>a. before' = before /\ DOMAIN version = Personas /\ DOMAIN indexed = Personas
    BY <1>0, <1>5 DEF Learn, Project, files, Shape
  <2>b. \A o \in Personas :
          \/ version'[o] = version[o] /\ indexed'[o] = indexed[o]
          \/ version[o] < MaxLearn[o] /\ version'[o] = version[o] + 1 /\ indexed'[o] = indexed[o]
          \/ indexed[o] < version[o] /\ version'[o] = version[o] /\ indexed'[o] = indexed[o] + 1
    BY <1>5, <2>a DEF Learn, Project
  <2>1. \A o \in Personas : MemoryShape(o, before'[o], version'[o], indexed'[o])
    BY <2>0, <2>a, <2>b DEF MemoryShape
  <2> QED BY <1>0, <1>5, <2>1 DEF Learn, Project, files, Shape
<1> QED BY <1>1, <1>2, <1>3, <1>4, <1>5 DEF Next

-----------------------------------------------------------------------------
(* Everything else *)

Rest == TasksInv /\ QuestionsInv /\ ProofsInv /\ CacheInv

LEMMA RestInit == Init => Rest
BY IdleOK DEF Init, Rest, TasksInv, QuestionsInv, QuestionOK, ProofsInv, ProofOK, CacheInv

LEMMA ProcessStep ==
    ASSUME IInv, Start \/ VerifiedSummary \/ Stop \/ UNCHANGED vars
    PROVE  Rest'
BY IdleOK DEF IInv, Rest, TasksInv, QuestionsInv, ProofsInv, CacheInv, Start, VerifiedSummary, Stop,
              Raise, files, core, vars

LEMMA CoreStep ==
    ASSUME IInv, NEW p \in Personas, Learn(p) \/ Project(p)
    PROVE  Rest'
<1>1. /\ task' = task /\ before' = before /\ contexts' = contexts /\ results' = results
      /\ proof' = proof /\ cache' = cache
  BY DEF Learn, Project, files
<1>2. \A o \in Personas :
          \/ version'[o] = version[o] /\ indexed'[o] = indexed[o]
          \/ version'[o] = version[o] + 1 /\ indexed'[o] = indexed[o]
          \/ version'[o] = version[o] /\ indexed'[o] = indexed[o] + 1
  BY DEF Learn, Project, IInv, Shape
<1>3. \A o \in Personas : /\ version[o] \in Nat /\ indexed[o] \in Nat
                          /\ before[o] \in {None} \cup Nat
  BY AtWork
<1>4. \A o \in Personas : /\ version'[o] \in Nat /\ version[o] <= version'[o]
                          /\ indexed'[o] \in Nat /\ indexed[o] <= indexed'[o]
  BY <1>2, <1>3
<1>5. TasksInv'
  BY <1>1, <1>3, <1>4, TaskKept DEF IInv, TasksInv
<1>6. QuestionsInv'
  BY <1>1, <1>3, <1>4, QuestionKept, CaseTypes DEF IInv, QuestionsInv
<1> QED BY <1>1, <1>5, <1>6 DEF IInv, Rest, ProofsInv, CacheInv

\* A step of one persona: the tasks of the others do not notice.
LEMMA TasksOfStep ==
    ASSUME IInv, NEW p \in Personas, NEW t, task' = [task EXCEPT ![p] = t],
           version' = version, indexed' = indexed, \A o \in Personas : o # p => before'[o] = before[o],
           \A q \in Questions : Persona[q] # p => contexts'[q] = contexts[q],
           \A q \in Questions : results[q] # None => results'[q] # None,
           TaskOK(p, t, before'[p], version[p], indexed[p], contexts', results')
    PROVE  TasksInv'
<1>1. task'[p] = t /\ \A o \in Personas : o # p => task'[o] = task[o]
  BY DEF IInv, Shape
<1>2. ASSUME NEW o \in Personas, o # p
      PROVE  TaskOK(o, task[o], before[o], version[o], indexed[o], contexts', results')
  <2>1. /\ version[o] \in Nat /\ indexed[o] \in Nat /\ before[o] \in {None} \cup Nat
        /\ TaskOK(o, task[o], before[o], version[o], indexed[o], contexts, results)
    BY AtWork
  <2>2. task[o].at \in {"load", "answer"} =>
            contexts'[Cases[o][task[o].q]] = contexts[Cases[o][task[o].q]]
    BY <1>2, OwnQuestion DEF Question, AtQuestion, IInv
  <2>3. \A k \in 1 .. Len(Cases[o]) : k < task[o].q => results'[Cases[o][k]] # None
    BY <2>1, CaseTypes DEF TaskOK
  <2> QED BY <2>1, <2>2, <2>3 DEF TaskOK
<1> QED BY <1>1, <1>2 DEF TasksInv

LEMMA GoingStep ==
    ASSUME IInv, NEW p \in Personas, Going(p)
    PROVE  Rest'
<1>1. /\ before' = before /\ contexts' = contexts /\ results' = results /\ version' = version
      /\ indexed' = indexed /\ proof' = proof /\ cache' = cache
  BY GoingMoves
<1>2. TasksInv'
  <2>1. CASE Raise
    BY <1>1, <2>1, IdleOK DEF Raise, TasksInv
  <2>2. CASE ~Raise
    <3>1. PICK t : /\ task' = [task EXCEPT ![p] = t]
                   /\ TaskOK(p, t, before[p], version[p], indexed[p], contexts, results)
      BY <2>2, GoingMoves DEF Moves
    <3> QED BY <1>1, <3>1, TasksOfStep
  <2> QED BY <2>1, <2>2
<1> QED BY <1>1, <1>2 DEF IInv, Rest, QuestionsInv, ProofsInv, CacheInv

LEMMA SnapshotStep ==
    ASSUME IInv, NEW p \in Personas, Snapshot(p)
    PROVE  Rest'
<1>1. /\ results' = results /\ proof' = proof /\ cache' = cache /\ contexts' = contexts
      /\ version' = version /\ indexed' = indexed /\ task[p].at = "snapshot"
      /\ before'[p] = version[p] /\ \A o \in Personas : o # p => before'[o] = before[o]
  BY DEF Snapshot, core, IInv, Shape
<1>2. before[p] = None /\ version[p] \in Nat
  BY <1>1, AtWork DEF TaskOK, Unfrozen
<1> DEFINE s == [task[p] EXCEPT !.at = "verify"]
<1>3. task' = [task EXCEPT ![p] = s] /\ s.at = "verify" /\ s.q = task[p].q
  BY AtWork DEF Snapshot, Goto, Shape, TaskShape
<1> HIDE DEF s
<1>4. TaskOK(p, s, before'[p], version[p], indexed[p], contexts', results')
  BY <1>1, <1>2, <1>3, AtWork, NoneIsFresh DEF TaskOK, Unfrozen, AtQuestion, HasFound, InHand
<1>5. TasksInv'
  BY <1>1, <1>3, <1>4, TasksOfStep
<1>6. QuestionsInv'
  <2>1. \A q \in Questions : Persona[q] = p => contexts[q] = None /\ results[q] = None
    BY <1>2 DEF IInv, QuestionsInv, QuestionOK, ContextOf
  <2> QED BY <1>1, <2>1, CaseTypes DEF IInv, QuestionsInv, QuestionOK
<1>7. ProofsInv'
  <2>1. proof[p] = None
    BY <1>2 DEF IInv, ProofsInv, ProofOK
  <2> QED BY <1>1, <2>1 DEF IInv, ProofsInv, ProofOK
<1> QED BY <1>1, <1>5, <1>6, <1>7 DEF IInv, Rest, CacheInv

LEMMA LoadStep ==
    ASSUME IInv, NEW p \in Personas, Load(p)
    PROVE  Rest'
<1> DEFINE q == Question(p)
           looked == task[p].looked
           fresh == [selected |-> Selection(q, version[p], looked), version |-> version[p], indexed |-> looked]
<1>1. /\ results' = results /\ proof' = proof /\ cache' = cache /\ before' = before
      /\ version' = version /\ indexed' = indexed /\ task[p].at = "load"
  BY DEF Load, files
<1>2. q \in Questions /\ Persona[q] = p
  BY <1>1, OwnQuestion DEF AtQuestion, IInv
<1>3. contexts'[q] = fresh /\ \A o \in Questions : o # q => contexts'[o] = contexts[o]
  BY <1>2 DEF Load, IInv, Shape
<1>4. /\ before[p] # None /\ before[p] <= indexed[p]
      /\ looked \in (before[p] .. indexed[p]) \cup {None}
  BY <1>1, AtWork DEF TaskOK, AtQuestion, Unfrozen
<1>5. ContextOf(before[p], version[p], indexed[p], contexts'[q])
  <2>1. version[p] \in Versions(q) /\ looked \in Indexes(q)
    BY <1>2, <1>4, AtWork DEF Versions, Indexes
  <2>2. fresh.selected \in Selections
    BY <1>2, <2>1 DEF Selections
  <2>3. version[p] \in before[p] .. version[p] /\ looked \in Nat \cup {None}
    BY <1>4, AtWork
  <2>4. fresh \in FrozenContexts
    BY <2>2, <2>3, AtWork DEF FrozenContexts
  <2>5. fresh # None
    BY <2>4, NoneIsFresh
  <2> QED BY <1>3, <1>4, <2>2, <2>3, <2>5 DEF ContextOf
<1> DEFINE s == [task[p] EXCEPT !.at = "answer"]
<1>6. /\ task' = [task EXCEPT ![p] = s] /\ s.at = "answer" /\ s.q = task[p].q
      /\ s.found = task[p].found /\ s.searched = task[p].searched
  BY AtWork DEF Load, Goto, Shape, TaskShape
<1> HIDE DEF s
<1>7. TaskOK(p, s, before'[p], version[p], indexed[p], contexts', results')
  BY <1>1, <1>4, <1>5, <1>6, AtWork DEF TaskOK, Unfrozen, AtQuestion, HasFound, InHand, Question
<1>8. TasksInv'
  BY <1>1, <1>2, <1>3, <1>6, <1>7, TasksOfStep
<1>9. QuestionsInv'
  BY <1>1, <1>2, <1>3, <1>5 DEF IInv, QuestionsInv, QuestionOK
<1> QED BY <1>1, <1>8, <1>9 DEF IInv, Rest, ProofsInv, CacheInv

\* What the arms answered is a result.
LEMMA AnswerIsResult ==
    ASSUME CacheInv, NEW q \in Questions, NEW found \in Founds, NEW selected \in Selections,
           NEW texts, texts = Contexts(q, found, Rendered[selected]),
           NEW fresh \in [{<<q, texts[mode]>> : mode \in Modes} \ DOMAIN cache -> BOOLEAN],
           cache' = Extended(cache, fresh), NEW v \in Nat, NEW m \in Nat,
           NEW n \in Nat \cup {None}
    PROVE  /\ CacheInv'
           /\ [correct |-> [mode \in Modes |-> cache'[<<q, texts[mode]>>]],
               texts   |-> texts,
               funnel  |-> Funnel(q, found, selected, Rendered[selected]),
               version |-> v, indexed |-> {m, n} \ {None}] \in Results
<1>1. DOMAIN cache' = DOMAIN cache \cup DOMAIN fresh
  BY DEF Extended
<1>2. \A key \in DOMAIN cache' : cache'[key] = IF key \in DOMAIN cache THEN cache[key] ELSE fresh[key]
  BY DEF Extended
<1>3. CacheInv'
  BY <1>1, <1>2 DEF CacheInv
<1>4. \A mode \in Modes : <<q, texts[mode]>> \in DOMAIN cache'
  BY <1>1
<1> DEFINE correct == [mode \in Modes |-> cache'[<<q, texts[mode]>>]]
<1>5. correct \in [Modes -> BOOLEAN]
  BY <1>3, <1>4 DEF CacheInv
<1> DEFINE funnel == Funnel(q, found, selected, Rendered[selected])
<1>6. funnel \in [source_available : BOOLEAN, indexed : BOOLEAN, selected : BOOLEAN, delivered : BOOLEAN]
  BY DEF Funnel
<1>7. texts \in {Contexts(r, f, Rendered[s]) : r \in Questions, f \in Founds, s \in Selections}
  OBVIOUS
<1> HIDE DEF correct, funnel
<1>8. {m, n} \ {None} \in SUBSET Nat
  OBVIOUS
<1>9. [correct |-> correct, texts |-> texts, funnel |-> funnel, version |-> v,
       indexed |-> {m, n} \ {None}] \in Results
  BY <1>5, <1>6, <1>7, <1>8 DEF Results
<1> QED BY <1>3, <1>9 DEF correct, funnel

LEMMA AnswerStep ==
    ASSUME IInv, NEW p \in Personas, Answer(p)
    PROVE  Rest'
<1> DEFINE q == Question(p)
           c == contexts[q]
           texts == Contexts(q, task[p].found, Rendered[c.selected])
<1>1. /\ results' = results /\ proof' = proof /\ before' = before /\ contexts' = contexts
      /\ version' = version /\ indexed' = indexed /\ task[p].at = "answer"
  BY DEF Answer
<1>2. q \in Questions /\ Persona[q] = p
  BY <1>1, OwnQuestion DEF AtQuestion, IInv
<1>3. /\ ContextOf(before[p], version[p], indexed[p], c)
      /\ task[p].found \in Founds /\ task[p].searched \in before[p] .. indexed[p]
      /\ before[p] # None /\ before[p] <= indexed[p]
  BY <1>1, AtWork DEF TaskOK, AtQuestion, HasFound, Unfrozen, Question
<1>4. /\ before[p] \in Nat /\ c.version \in Nat /\ task[p].searched \in Nat
      /\ c.indexed \in Nat \cup {None}
  BY <1>3, AtWork DEF ContextOf
<1> DEFINE result == [correct |-> [mode \in Modes |-> cache'[<<q, texts[mode]>>]],
                      texts   |-> texts,
                      funnel  |-> Funnel(q, task[p].found, c.selected, Rendered[c.selected]),
                      version |-> c.version, indexed |-> {task[p].searched, c.indexed} \ {None}]
<1>5. PICK fresh \in [{<<q, texts[mode]>> : mode \in Modes} \ DOMAIN cache -> BOOLEAN] :
          /\ cache' = Extended(cache, fresh)
          /\ task' = [task EXCEPT ![p].at = "verifyAnswer", ![p].result = result]
  BY DEF Answer
<1>6. CacheInv' /\ result \in Results
  BY <1>2, <1>3, <1>4, <1>5, AnswerIsResult DEF IInv, ContextOf
<1>7. result.version = c.version /\ result.indexed = {task[p].searched, c.indexed} \ {None}
  OBVIOUS
<1> HIDE DEF result
<1>8. ResultOf(before[p], version[p], indexed[p], result, FALSE)
  BY <1>3, <1>6, <1>7 DEF ResultOf, ContextOf
<1> DEFINE s == [[task[p] EXCEPT !.at = "verifyAnswer"] EXCEPT !.result = result]
<1>9. /\ task' = [task EXCEPT ![p] = s] /\ s.at = "verifyAnswer" /\ s.q = task[p].q /\ s.result = result
  BY <1>5, AtWork DEF Shape, TaskShape
<1> HIDE DEF s
<1>10. TaskOK(p, s, before'[p], version[p], indexed[p], contexts', results')
  BY <1>1, <1>3, <1>8, <1>9, AtWork DEF TaskOK, Unfrozen, AtQuestion, HasFound, InHand
<1>11. TasksInv'
  BY <1>1, <1>9, <1>10, TasksOfStep
<1> QED BY <1>1, <1>6, <1>11 DEF IInv, Rest, QuestionsInv, ProofsInv

LEMMA FreezeQuestionStep ==
    ASSUME IInv, NEW p \in Personas, FreezeQuestion(p)
    PROVE  Rest'
<1> DEFINE q == Question(p)
<1>1. /\ proof' = proof /\ before' = before /\ contexts' = contexts /\ cache' = cache
      /\ version' = version /\ indexed' = indexed /\ task[p].at = "freeze"
  BY DEF FreezeQuestion, core
<1>2. q \in Questions /\ Persona[q] = p
  BY <1>1, OwnQuestion DEF AtQuestion, IInv
<1>3. /\ results'[q] = task[p].result
      /\ \A o \in Questions : o # q => results'[o] = results[o]
  BY <1>2 DEF FreezeQuestion, IInv, Shape
<1>4. /\ task[p].result \in Results /\ task[p].result.version = before[p]
      /\ task[p].result.indexed = {before[p]} /\ before[p] # None /\ before[p] <= indexed[p]
  BY <1>1, AtWork DEF TaskOK, AtQuestion, Unfrozen, InHand, ResultOf
<1>5. results'[q] # None
  BY <1>3, <1>4, NoneIsFresh
<1> DEFINE s == [Idle EXCEPT !.at = "question", !.q = task[p].q + 1]
<1>6. task' = [task EXCEPT ![p] = s] /\ s.at = "question" /\ s.q = task[p].q + 1
  BY DEF FreezeQuestion, Idle
<1> HIDE DEF s
<1>7. \A k \in 1 .. Len(Cases[p]) : k < s.q => results'[Cases[p][k]] # None
  <2> SUFFICES ASSUME NEW k \in 1 .. Len(Cases[p]), k < s.q PROVE results'[Cases[p][k]] # None
    OBVIOUS
  <2>1. k = task[p].q \/ k < task[p].q
    BY <1>6, AtWork
  <2>2. Cases[p][k] \in Questions
    BY CaseTypes
  <2> QED BY <1>3, <1>5, <2>1, <2>2, AtWork DEF TaskOK, Question
<1>8. TaskOK(p, s, before'[p], version[p], indexed[p], contexts', results')
  BY <1>1, <1>4, <1>6, <1>7 DEF TaskOK, Unfrozen, AtQuestion, HasFound, InHand
<1>9. TasksInv'
  BY <1>1, <1>3, <1>5, <1>6, <1>8, TasksOfStep
<1>10. QuestionsInv'
  BY <1>1, <1>2, <1>3, <1>4 DEF IInv, QuestionsInv, QuestionOK
<1>11. ProofsInv'
  BY <1>1, <1>3, <1>5, CaseTypes DEF IInv, ProofsInv, ProofOK
<1> QED BY <1>1, <1>9, <1>10, <1>11 DEF IInv, Rest, CacheInv

LEMMA FreezeProofStep ==
    ASSUME IInv, NEW p \in Personas, FreezeProof(p)
    PROVE  Rest'
<1>1. /\ results' = results /\ before' = before /\ contexts' = contexts /\ cache' = cache
      /\ version' = version /\ indexed' = indexed /\ task[p].at = "proof"
      /\ proof'[p] = before[p] /\ \A o \in Personas : o # p => proof'[o] = proof[o]
  BY DEF FreezeProof, core, IInv, Shape
<1>2. \A k \in 1 .. Len(Cases[p]) : results[Cases[p][k]] # None
  BY <1>1, AtWork DEF TaskOK, TaskShape, AtEnd
<1>3. ASSUME NEW q \in ToSet(Cases[p]) PROVE results[q] # None
  <2>1. PICK k \in 1 .. Len(Cases[p]) : q = Cases[p][k]
    BY CaseTypes
  <2> QED BY <1>2, <2>1
<1> DEFINE s == [Idle EXCEPT !.at = "done"]
<1>4. task' = [task EXCEPT ![p] = s] /\ s.at = "done" /\ s.q = 1
  BY DEF FreezeProof, Idle
<1> HIDE DEF s
<1>5. TaskOK(p, s, before'[p], version[p], indexed[p], contexts', results')
  BY <1>4, CaseTypes DEF TaskOK, Unfrozen, AtQuestion, HasFound, InHand
<1>6. TasksInv'
  BY <1>1, <1>4, <1>5, TasksOfStep
<1>7. ProofsInv'
  BY <1>1, <1>3 DEF IInv, ProofsInv, ProofOK
<1> QED BY <1>1, <1>6, <1>7 DEF IInv, Rest, QuestionsInv, CacheInv

LEMMA RestNext == IInv /\ [Next]_vars => Rest'
BY ProcessStep, CoreStep, GoingStep, SnapshotStep, LoadStep, AnswerStep, FreezeQuestionStep,
   FreezeProofStep DEF Next, PersonaStep, Going

-----------------------------------------------------------------------------
(* The places *)

\* Only Acquire gives a persona a place; an exception takes all of them.
LEMMA WorkingSteps ==
    ASSUME IInv, [Next]_vars
    PROVE  \/ Working' \subseteq Working
           \/ /\ Cardinality(Working) < Limit
              /\ \E p \in Personas : Working' \subseteq Working \cup {p}
<1>0. Shape
  BY DEF IInv
<1>1. ASSUME Raise PROVE Working' \subseteq Working
  BY <1>1 DEF Raise, Working, Idle
<1>2. ASSUME task' = task PROVE Working' \subseteq Working
  BY <1>2 DEF Working
<1>3. ASSUME NEW p \in Personas, NEW t, task' = [task EXCEPT ![p] = t]
      PROVE  Working' \subseteq Working \cup {p}
  BY <1>0, <1>3 DEF Shape, Working
<1>4. ASSUME NEW p \in Personas, task[p].at \notin {"none", "done"}, Working' \subseteq Working \cup {p}
      PROVE  Working' \subseteq Working
  BY <1>4 DEF Working
<1>5. CASE UNCHANGED vars \/ Start \/ \E p \in Personas : Learn(p) \/ Project(p)
  BY <1>2, <1>5 DEF vars, Start, Learn, Project
<1>6. CASE VerifiedSummary \/ Stop
  BY <1>1, <1>6 DEF VerifiedSummary, Stop
<1>7. ASSUME NEW p \in Personas, PersonaStep(p)
      PROVE  \/ Working' \subseteq Working
             \/ Cardinality(Working) < Limit /\ Working' \subseteq Working \cup {p}
  <2>1. Raise \/ \E t : task' = [task EXCEPT ![p] = t]
    <3>1. CASE Going(p)
      BY <3>1, GoingMoves DEF Moves
    <3>2. CASE Snapshot(p)
      BY <3>2, <1>0 DEF Snapshot, Goto, Shape
    <3>3. CASE Load(p)
      BY <3>3, <1>0 DEF Load, Goto, Shape
    <3>4. CASE Answer(p)
      <4>1. PICK r : task' = [task EXCEPT ![p].at = "verifyAnswer", ![p].result = r]
        BY <3>4 DEF Answer
      <4>2. task' = [task EXCEPT ![p] = [[task[p] EXCEPT !.at = "verifyAnswer"] EXCEPT !.result = r]]
        BY <4>1, <1>0 DEF Shape, TaskShape
      <4> QED BY <4>2
    <3>5. CASE FreezeQuestion(p)
      BY <3>5 DEF FreezeQuestion
    <3>6. CASE FreezeProof(p)
      BY <3>6 DEF FreezeProof
    <3> QED BY <1>7, <3>1, <3>2, <3>3, <3>4, <3>5, <3>6 DEF PersonaStep, Going
  <2>2. CASE Acquire(p)
    BY <2>1, <2>2, <1>1, <1>3 DEF Acquire
  <2>3. CASE ~Acquire(p)
    <3>1. task[p].at \notin {"none", "done"}
      BY <1>7, <2>3 DEF PersonaStep, Ingest, Snapshot, VerifyMemory, VerifyProjection,
                        NextQuestion, Search, Select, Load, Answer, FreezeQuestion, FreezeProof
    <3> QED BY <2>1, <3>1, <1>1, <1>3, <1>4
  <2> QED BY <2>2, <2>3
<1> QED BY <1>5, <1>6, <1>7 DEF Next

\* The personas at work are never more than persona_workers.
LEMMA LimitKept ==
    ASSUME IInv, [Next]_vars
    PROVE  Cardinality(Working') <= Limit
<1>1. IsFiniteSet(Working) /\ IsFiniteSet(Personas)
  BY RunAssumption, FS_Subset DEF Working
<1>2. Cardinality(Working) \in Nat /\ Limit \in Nat /\ Cardinality(Working) <= Limit
  BY <1>1, FS_CardinalityType, RunAssumption DEF IInv
<1>3. CASE Working' \subseteq Working
  <2>1. Cardinality(Working') \in Nat /\ Cardinality(Working') <= Cardinality(Working)
    BY <1>1, <1>3, FS_Subset, FS_CardinalityType
  <2> QED BY <1>2, <2>1
<1>4. ASSUME NEW p \in Personas, Cardinality(Working) < Limit, Working' \subseteq Working \cup {p}
      PROVE  Cardinality(Working') <= Limit
  <2>1. /\ IsFiniteSet(Working \cup {p})
        /\ Cardinality(Working \cup {p})
             = IF p \in Working THEN Cardinality(Working) ELSE Cardinality(Working) + 1
    BY <1>1, FS_AddElement
  <2>2. /\ IsFiniteSet(Working \cup {p}) /\ Cardinality(Working \cup {p}) \in Nat
        /\ Cardinality(Working \cup {p}) <= Cardinality(Working) + 1
    BY <1>2, <2>1
  <2>3. Cardinality(Working') \in Nat /\ Cardinality(Working') <= Cardinality(Working \cup {p})
    BY <1>4, <2>2, FS_Subset, FS_CardinalityType
  <2> QED BY <1>2, <1>4, <2>2, <2>3
<1> QED BY <1>3, <1>4, WorkingSteps

-----------------------------------------------------------------------------
(* The theorem *)

THEOREM PersonaInvariant == Spec => []IInv
<1>1. Init => IInv
  <2> SUFFICES ASSUME Init PROVE IInv
    OBVIOUS
  <2>1. Working = {}
    BY DEF Init, Working, Idle
  <2>2. Cardinality(Working) = 0
    BY <2>1, FS_EmptySet
  <2>3. Cardinality(Working) <= Limit
    BY <2>2, RunAssumption
  <2> QED BY <2>3, ShapeInit, RestInit DEF IInv, Rest
<1>2. IInv /\ [Next]_vars => IInv'
  <2> SUFFICES ASSUME IInv, [Next]_vars PROVE IInv'
    OBVIOUS
  <2>1. Shape' /\ Rest'
    BY ShapeNext, RestNext
  <2>2. Cardinality(Working)' <= Limit
    BY LimitKept
  <2> QED BY <2>1, <2>2 DEF IInv, Rest
<1> QED BY <1>1, <1>2, PTL DEF Spec

\* Whatever Core learns while the questions are asked, for any number of personas at
\* work and however often the run starts again: every result on disk comes from the
\* memory in the snapshot, selected and retrieved with an index that had all of it, and
\* the proof of a persona is about all its results (verify_frozen and
\* freeze_question_result of personamem_effect_cli.py).
THEOREM MemoryIsFrozen == Spec => []MemoryFrozen
<1>1. IInv => TypeOK
  <2> SUFFICES ASSUME IInv PROVE TypeOK
    OBVIOUS
  <2>1. up \/ Working = {}
    BY DEF IInv, Shape, Working, Idle
  <2>2. ASSUME NEW p \in Personas
        PROVE  /\ indexed[p] \in 0 .. version[p] /\ version[p] \in 0 .. MaxLearn[p]
               /\ before[p] \in {None} \cup 0 .. MaxLearn[p]
               /\ task[p].q \in 1 .. Len(Cases[p]) + 1
    BY AtWork DEF TaskShape
  <2> QED BY <2>1, <2>2 DEF TypeOK, IInv
<1>2. IInv => ResultsOfFrozenMemory
  BY DEF IInv, QuestionsInv, QuestionOK, ResultsOfFrozenMemory
<1>3. IInv => ProofCoversResults
  <2> SUFFICES ASSUME IInv, NEW p \in Personas, proof[p] # None, NEW q \in ToSet(Cases[p])
               PROVE  results[q] # None /\ results[q].version = proof[p]
    BY DEF ProofCoversResults
  <2>1. q \in Questions /\ Persona[q] = p
    BY CaseTypes
  <2>2. proof[p] = before[p] /\ results[q] # None
    BY DEF IInv, ProofsInv, ProofOK
  <2> QED BY <2>1, <2>2 DEF IInv, QuestionsInv, QuestionOK
<1>4. IInv => MemoryFrozen
  BY <1>1, <1>2, <1>3 DEF MemoryFrozen
<1> QED BY PersonaInvariant, <1>4, PTL

-----------------------------------------------------------------------------
(* What Core has delivered *)

\* A Delivery is what the frozen context of its question renders to.
DeliveriesInv ==
    \A d \in deliveries : \E q \in Questions, m \in CoreModes :
        /\ contexts[q] # None
        /\ d = [question |-> q, mode |-> m, refs |-> Delivered(q, m)]

LEMMA DeliveriesNext == IInv /\ DeliveriesInv /\ [Next]_vars => DeliveriesInv'
<1> SUFFICES ASSUME IInv, DeliveriesInv, [Next]_vars PROVE DeliveriesInv'
  OBVIOUS
<1>1. ASSUME NEW p \in Personas, Load(p)
      PROVE  \A q \in Questions : contexts[q] # None => contexts'[q] = contexts[q]
  <2>1. contexts[Question(p)] = None
    BY <1>1, AtWork DEF Load, TaskOK, Question
  <2> QED BY <1>1, <2>1 DEF Load, IInv, Shape
<1>2. ASSUME ~ \E p \in Personas : Load(p)
      PROVE  contexts' = contexts
  BY <1>2 DEF Next, PersonaStep, Start, VerifiedSummary, Stop, Acquire, Ingest, Snapshot, VerifyMemory,
              VerifyProjection, NextQuestion, Search, Select, Answer, FreezeQuestion, FreezeProof, Learn,
              Project, files, core, vars
<1>3. \A q \in Questions : contexts[q] # None => contexts'[q] = contexts[q]
  BY <1>1, <1>2
<1>4. ASSUME NEW p \in Personas, Answer(p)
      PROVE  DeliveriesInv'
  <2> DEFINE q == Question(p)
  <2>1. /\ contexts' = contexts /\ task[p].at = "answer"
        /\ deliveries' = deliveries \cup
               {[question |-> q, mode |-> mode, refs |-> Delivered(q, mode)] :
                   mode \in {m \in CoreModes : Delivered(q, m) # <<>>}}
    BY <1>4 DEF Answer
  <2>2. q \in Questions
    BY <2>1, OwnQuestion DEF AtQuestion, IInv
  <2>3. contexts[q] # None
    BY <2>1, AtWork DEF TaskOK, ContextOf, Question
  <2> HIDE DEF q
  <2> SUFFICES ASSUME NEW d \in deliveries'
               PROVE  \E r \in Questions, m \in CoreModes :
                          /\ contexts'[r] # None
                          /\ d = [question |-> r, mode |-> m, refs |-> Delivered(r, m)']
    BY DEF DeliveriesInv
  <2>4. \A r, m : Delivered(r, m)' = Delivered(r, m)
    BY <2>1 DEF Delivered
  <2> QED BY <2>1, <2>2, <2>3, <2>4 DEF DeliveriesInv
<1>5. ASSUME ~ \E p \in Personas : Answer(p)
      PROVE  DeliveriesInv'
  <2>1. deliveries' = deliveries
    BY <1>5 DEF Next, PersonaStep, Start, VerifiedSummary, Stop, Acquire, Ingest, Snapshot, VerifyMemory,
                VerifyProjection, NextQuestion, Search, Select, Load, FreezeQuestion, FreezeProof, Learn,
                Project, files, core, vars
  <2> QED BY <2>1, <1>3 DEF DeliveriesInv, Delivered
<1> QED BY <1>4, <1>5

\* A question that is asked again, by this process or a later one, delivers what it has
\* delivered before: Core froze its MemoryContext under the run of the question, and what
\* Core has learned since does not reach it (the two arms of Core, evaluate_question of
\* personamem_effect_runner.py).
OneDelivery ==
    \A d, e \in deliveries : d.question = e.question /\ d.mode = e.mode => d = e

THEOREM DeliveryIsRepeated == Spec => []OneDelivery
<1>1. Init => DeliveriesInv
  BY DEF Init, DeliveriesInv
<1>2. DeliveriesInv => OneDelivery
  BY DEF DeliveriesInv, OneDelivery
<1> QED BY PersonaInvariant, DeliveriesNext, <1>1, <1>2, PTL DEF Spec

-----------------------------------------------------------------------------
(* The Episodes of an order of documents *)

\* The Episodes of an order of documents, up to each position.
Kept(f, S, s) ==
    /\ f \in [0 .. Len(s) -> Seq(S)] /\ f[0] = <<>>
    /\ \A n \in 1 .. Len(s) : f[n] = WithDocument(f[n - 1], s[n])

LEMMA EpisodesAre ==
    ASSUME NEW S, NEW s \in Seq(S)
    PROVE  \E f : Kept(f, S, s) /\ Episodes(s) = f[Len(s)]
<1> PICK L \in Nat : L = Len(s)
  OBVIOUS
<1>1. \A n \in 1 .. L, t \in Seq(S) : WithDocument(t, s[n]) \in Seq(S)
  <2> SUFFICES ASSUME NEW n \in 1 .. L, NEW t \in Seq(S)
               PROVE  WithDocument(t, s[n]) \in Seq(S)
    OBVIOUS
  <2>1. s[n] \in S
    OBVIOUS
  <2> QED BY <2>1 DEF WithDocument
<1>2. PICK step : step = [n \in 1 .. L |-> [t \in Seq(S) |-> WithDocument(t, s[n])]]
  OBVIOUS
<1> DEFINE Is(g) == g = [n \in 0 .. L |-> IF n = 0 THEN <<>> ELSE WithDocument(g[n - 1], s[n])]
<1>3. \E g : Is(g)
  <2>1. PICK V, init : V = Seq(S) /\ init = <<>>
    OBVIOUS
  <2>2. L \in Nat /\ init \in V /\ step \in [1 .. L -> [V -> V]]
    BY <1>1, <1>2, <2>1
  <2>3. PICK f : Built(f, L, V, init, step)
    BY <2>2, Recursion
  <2>4. ASSUME NEW n \in 0 .. L, n # 0 PROVE f[n] = WithDocument(f[n - 1], s[n])
    <3>1. n \in 1 .. L /\ n - 1 \in 0 .. L
      BY <2>4
    <3>2. f[n] = step[n][f[n - 1]] /\ f[n - 1] \in Seq(S)
      BY <2>1, <2>3, <3>1 DEF Built
    <3> QED BY <1>2, <3>1, <3>2
  <2>5. Is(f)
    BY <2>1, <2>3, <2>4 DEF Built
  <2> QED BY <2>5
<1>4. Episodes(s) = (CHOOSE g : Is(g))[L]
  BY DEF Episodes
<1>5. PICK g : g = (CHOOSE h : Is(h)) /\ Is(g)
  <2> HIDE DEF Is
  <2> QED BY <1>3
<1>6. g[0] = <<>> /\ \A n \in 1 .. L : g[n] = WithDocument(g[n - 1], s[n])
  BY <1>5
<1>7. PICK G : G = {n \in 0 .. L : g[n] \in Seq(S)}
  OBVIOUS
<1>8. 0 \in G
  <2>1. 0 \in 0 .. L /\ <<>> \in Seq(S)
    OBVIOUS
  <2> QED BY <1>6, <1>7, <2>1
<1>9. ASSUME NEW n \in 0 .. L - 1, n \in G PROVE n + 1 \in G
  <2>1. n + 1 \in 1 .. L /\ (n + 1) - 1 = n /\ g[n] \in Seq(S)
    BY <1>7, <1>9
  <2>2. g[n + 1] = WithDocument(g[(n + 1) - 1], s[n + 1])
    BY <1>6, <2>1
  <2>3. g[n + 1] \in Seq(S)
    BY <1>1, <2>1, <2>2
  <2> QED BY <1>7, <2>1, <2>3
<1>10. 0 .. L \subseteq G
  BY <1>8, <1>9, UpTo
<1>11. g \in [0 .. L -> Seq(S)]
  BY <1>5, <1>7, <1>10
<1> HIDE DEF Is
<1> QED BY <1>4, <1>5, <1>6, <1>11 DEF Kept

-----------------------------------------------------------------------------
(* The evidence of Core is found by the search of Episodes *)

LEMMA FirstIs ==
    ASSUME NEW S, NEW items \in Seq(S), NEW n \in Nat
    PROVE  /\ First(n, items) \in Seq(S)
           /\ Len(First(n, items)) = IF n < Len(items) THEN n ELSE Len(items)
           /\ \A k \in 1 .. Len(First(n, items)) : First(n, items)[k] = items[k]
  BY SubSeqProperties DEF First

\* The Episodes of the first n documents are those the order begins with.
LEMMA EpisodesOfFirst ==
    ASSUME NEW S, NEW order \in Seq(S), NEW n \in Nat
    PROVE  /\ Episodes(First(n, order)) \in Seq(S) /\ Episodes(order) \in Seq(S)
           /\ Len(Episodes(First(n, order))) <= n
           /\ Len(Episodes(First(n, order))) <= Len(Episodes(order))
           /\ \A k \in 1 .. Len(Episodes(First(n, order))) : Episodes(First(n, order))[k] = Episodes(order)[k]
<1>1. PICK few, L, M : few = First(n, order) /\ L = Len(order) /\ M = Len(few)
  OBVIOUS
<1>2. /\ few \in Seq(S) /\ L \in Nat /\ M \in 0 .. L /\ M <= n
      /\ \A k \in 1 .. M : few[k] = order[k]
  BY <1>1, FirstIs
<1>3. PICK f : Kept(f, S, order) /\ Episodes(order) = f[L]
  BY <1>1, EpisodesAre
<1>4. PICK g : Kept(g, S, few) /\ Episodes(few) = g[M]
  BY <1>1, <1>2, EpisodesAre
<1>5. Picks(f, S, order)
  BY <1>3 DEF Kept, Picks, WithDocument
<1>6. f \in [0 .. L -> Seq(S)] /\ g \in [0 .. M -> Seq(S)]
  BY <1>1, <1>3, <1>4 DEF Kept
<1>7. PICK G : G = {k \in 0 .. M : g[k] = f[k]}
  OBVIOUS
<1>8. 0 \in G
  BY <1>2, <1>3, <1>4, <1>7 DEF Kept
<1>9. ASSUME NEW k \in 0 .. M - 1, k \in G PROVE k + 1 \in G
  <2>1. k + 1 \in 1 .. M /\ k + 1 \in 1 .. L /\ (k + 1) - 1 = k
    BY <1>2
  <2>2. /\ f[k + 1] = WithDocument(f[(k + 1) - 1], order[k + 1])
        /\ g[k + 1] = WithDocument(g[(k + 1) - 1], few[k + 1])
    BY <1>1, <1>3, <1>4, <2>1 DEF Kept
  <2>3. few[k + 1] = order[k + 1] /\ f[k] = g[k]
    BY <1>2, <1>7, <1>9, <2>1
  <2>4. g[k + 1] = f[k + 1]
    BY <2>1, <2>2, <2>3
  <2> QED BY <1>2, <1>7, <2>1, <2>4
<1>10. g[M] = f[M]
  <2>1. M \in Nat
    BY <1>2
  <2>2. 0 .. M \subseteq G
    BY <1>8, <1>9, <2>1, UpTo
  <2> QED BY <1>7, <2>1, <2>2
<1>11. Continues(f, order, 0, M) /\ Continues(f, order, M, L)
  BY <1>1, <1>2, <1>5, PicksContinue
<1>12. f[0] = <<>>
  BY <1>5 DEF Picks
<1>13. f[M] \in Seq(S) /\ f[L] \in Seq(S)
  BY <1>2, <1>6
<1>14. Len(f[M]) <= M
  BY <1>2, <1>11, <1>12, <1>13 DEF Continues
<1>15. Len(f[M]) <= Len(f[L]) /\ \A k \in 1 .. Len(f[M]) : f[M][k] = f[L][k]
  BY <1>11 DEF Continues
<1>16. Episodes(First(n, order)) = f[M] /\ Episodes(order) = f[L]
  BY <1>1, <1>3, <1>4, <1>10
<1> QED BY <1>2, <1>13, <1>14, <1>15, <1>16

\* The candidates for Episode evidence, and of these the ones that fit, up to each position.
KeptCandidates(f, S, s, q) ==
    /\ f \in [0 .. Len(s) -> Seq(S)] /\ f[0] = <<>>
    /\ \A n \in 1 .. Len(s) : f[n] = WithCandidate(q, f[n - 1], s[n])

KeptEntries(f, S, s) ==
    /\ f \in [0 .. Len(s) -> Seq(S)] /\ f[0] = <<>>
    /\ \A n \in 1 .. Len(s) : f[n] = WithEntry(f[n - 1], s[n])

LEMMA EvidenceCandidatesAre ==
    ASSUME NEW S, NEW s \in Seq(S), NEW q
    PROVE  \E f : KeptCandidates(f, S, s, q) /\ EvidenceCandidates(q, s) = f[Len(s)]
<1> PICK L \in Nat : L = Len(s)
  OBVIOUS
<1>1. \A n \in 1 .. L, t \in Seq(S) : WithCandidate(q, t, s[n]) \in Seq(S)
  <2> SUFFICES ASSUME NEW n \in 1 .. L, NEW t \in Seq(S)
               PROVE  WithCandidate(q, t, s[n]) \in Seq(S)
    OBVIOUS
  <2>1. s[n] \in S
    OBVIOUS
  <2> QED BY <2>1 DEF WithCandidate
<1>2. PICK step : step = [n \in 1 .. L |-> [t \in Seq(S) |-> WithCandidate(q, t, s[n])]]
  OBVIOUS
<1> DEFINE Is(g) == g = [n \in 0 .. L |-> IF n = 0 THEN <<>> ELSE WithCandidate(q, g[n - 1], s[n])]
<1>3. \E g : Is(g)
  <2>1. PICK V, init : V = Seq(S) /\ init = <<>>
    OBVIOUS
  <2>2. L \in Nat /\ init \in V /\ step \in [1 .. L -> [V -> V]]
    BY <1>1, <1>2, <2>1
  <2>3. PICK f : Built(f, L, V, init, step)
    BY <2>2, Recursion
  <2>4. ASSUME NEW n \in 0 .. L, n # 0 PROVE f[n] = WithCandidate(q, f[n - 1], s[n])
    <3>1. n \in 1 .. L /\ n - 1 \in 0 .. L
      BY <2>4
    <3>2. f[n] = step[n][f[n - 1]] /\ f[n - 1] \in Seq(S)
      BY <2>1, <2>3, <3>1 DEF Built
    <3> QED BY <1>2, <3>1, <3>2
  <2>5. Is(f)
    BY <2>1, <2>3, <2>4 DEF Built
  <2> QED BY <2>5
<1>4. EvidenceCandidates(q, s) = (CHOOSE g : Is(g))[L]
  BY DEF EvidenceCandidates
<1>5. PICK g : g = (CHOOSE h : Is(h)) /\ Is(g)
  <2> HIDE DEF Is
  <2> QED BY <1>3
<1>6. g[0] = <<>> /\ \A n \in 1 .. L : g[n] = WithCandidate(q, g[n - 1], s[n])
  <2>1. 0 \in 0 .. L /\ \A n \in 1 .. L : n \in 0 .. L /\ n # 0
    OBVIOUS
  <2>2. \A n \in 0 .. L : g[n] = IF n = 0 THEN <<>> ELSE WithCandidate(q, g[n - 1], s[n])
    BY <1>5
  <2> QED BY <2>1, <2>2
<1>7. PICK G : G = {n \in 0 .. L : g[n] \in Seq(S)}
  OBVIOUS
<1>8. 0 \in G
  <2>1. 0 \in 0 .. L /\ <<>> \in Seq(S)
    OBVIOUS
  <2> QED BY <1>6, <1>7, <2>1
<1>9. ASSUME NEW n \in 0 .. L - 1, n \in G PROVE n + 1 \in G
  <2>1. n + 1 \in 1 .. L /\ (n + 1) - 1 = n /\ g[n] \in Seq(S)
    BY <1>7, <1>9
  <2>2. g[n + 1] = WithCandidate(q, g[(n + 1) - 1], s[n + 1])
    BY <1>6, <2>1
  <2>3. g[n + 1] \in Seq(S)
    BY <1>1, <2>1, <2>2
  <2> QED BY <1>7, <2>1, <2>3
<1>10. 0 .. L \subseteq G
  BY <1>8, <1>9, UpTo
<1>11. g \in [0 .. L -> Seq(S)]
  BY <1>5, <1>7, <1>10
<1> HIDE DEF Is
<1> QED BY <1>4, <1>5, <1>6, <1>11 DEF KeptCandidates

LEMMA BoundsAre ==
    ASSUME NEW S, NEW s \in Seq(S)
    PROVE  \E f : KeptEntries(f, S, s) /\ BoundEpisodeEvidence(s) = f[Len(s)]
<1> PICK L \in Nat : L = Len(s)
  OBVIOUS
<1>1. \A n \in 1 .. L, t \in Seq(S) : WithEntry(t, s[n]) \in Seq(S)
  <2> SUFFICES ASSUME NEW n \in 1 .. L, NEW t \in Seq(S)
               PROVE  WithEntry(t, s[n]) \in Seq(S)
    OBVIOUS
  <2>1. s[n] \in S
    OBVIOUS
  <2> QED BY <2>1 DEF WithEntry
<1>2. PICK step : step = [n \in 1 .. L |-> [t \in Seq(S) |-> WithEntry(t, s[n])]]
  OBVIOUS
<1> DEFINE Is(g) == g = [n \in 0 .. L |-> IF n = 0 THEN <<>> ELSE WithEntry(g[n - 1], s[n])]
<1>3. \E g : Is(g)
  <2>1. PICK V, init : V = Seq(S) /\ init = <<>>
    OBVIOUS
  <2>2. L \in Nat /\ init \in V /\ step \in [1 .. L -> [V -> V]]
    BY <1>1, <1>2, <2>1
  <2>3. PICK f : Built(f, L, V, init, step)
    BY <2>2, Recursion
  <2>4. ASSUME NEW n \in 0 .. L, n # 0 PROVE f[n] = WithEntry(f[n - 1], s[n])
    <3>1. n \in 1 .. L /\ n - 1 \in 0 .. L
      BY <2>4
    <3>2. f[n] = step[n][f[n - 1]] /\ f[n - 1] \in Seq(S)
      BY <2>1, <2>3, <3>1 DEF Built
    <3> QED BY <1>2, <3>1, <3>2
  <2>5. Is(f)
    BY <2>1, <2>3, <2>4 DEF Built
  <2> QED BY <2>5
<1>4. BoundEpisodeEvidence(s) = (CHOOSE g : Is(g))[L]
  BY DEF BoundEpisodeEvidence
<1>5. PICK g : g = (CHOOSE h : Is(h)) /\ Is(g)
  <2> HIDE DEF Is
  <2> QED BY <1>3
<1>6. g[0] = <<>> /\ \A n \in 1 .. L : g[n] = WithEntry(g[n - 1], s[n])
  BY <1>5
<1>7. PICK G : G = {n \in 0 .. L : g[n] \in Seq(S)}
  OBVIOUS
<1>8. 0 \in G
  <2>1. 0 \in 0 .. L /\ <<>> \in Seq(S)
    OBVIOUS
  <2> QED BY <1>6, <1>7, <2>1
<1>9. ASSUME NEW n \in 0 .. L - 1, n \in G PROVE n + 1 \in G
  <2>1. n + 1 \in 1 .. L /\ (n + 1) - 1 = n /\ g[n] \in Seq(S)
    BY <1>7, <1>9
  <2>2. g[n + 1] = WithEntry(g[(n + 1) - 1], s[n + 1])
    BY <1>6, <2>1
  <2>3. g[n + 1] \in Seq(S)
    BY <1>1, <2>1, <2>2
  <2> QED BY <1>7, <2>1, <2>3
<1>10. 0 .. L \subseteq G
  BY <1>8, <1>9, UpTo
<1>11. g \in [0 .. L -> Seq(S)]
  BY <1>5, <1>7, <1>10
<1> HIDE DEF Is
<1> QED BY <1>4, <1>5, <1>6, <1>11 DEF KeptEntries

\* What picks entries of a sequence holds nothing else.
LEMMA PickedFrom ==
    ASSUME NEW S, NEW s \in Seq(S), NEW f, Picks(f, S, s)
    PROVE  \A k \in 1 .. Len(f[Len(s)]) : \E j \in 1 .. Len(s) : f[Len(s)][k] = s[j]
<1>1. Continues(f, s, 0, Len(s)) /\ f[0] = <<>>
  <2>1. 0 \in 0 .. Len(s) /\ Len(s) \in 0 .. Len(s)
    OBVIOUS
  <2> QED BY <2>1, PicksContinue DEF Picks
<1> QED BY <1>1 DEF Continues

\* A candidate is an Episode of the order.
LEMMA CandidatesArePicked ==
    ASSUME NEW S, NEW s \in Seq(S), NEW q
    PROVE  /\ EvidenceCandidates(q, s) \in Seq(S)
           /\ \A k \in 1 .. Len(EvidenceCandidates(q, s)) :
                 /\ IsEpisode(EvidenceCandidates(q, s)[k])
                 /\ \E j \in 1 .. Len(s) : EvidenceCandidates(q, s)[k] = s[j]
<1>0. PICK L \in Nat : L = Len(s)
  OBVIOUS
<1>1. PICK f : KeptCandidates(f, S, s, q) /\ EvidenceCandidates(q, s) = f[L]
  BY <1>0, EvidenceCandidatesAre
<1>2. /\ L = Len(s) /\ f \in [0 .. L -> Seq(S)] /\ f[0] = <<>>
      /\ \A n \in 1 .. L : f[n] = WithCandidate(q, f[n - 1], s[n])
      /\ EvidenceCandidates(q, s) = f[L]
  BY <1>0, <1>1 DEF KeptCandidates
<1>3. Picks(f, S, s)
  BY <1>2 DEF Picks, WithCandidate
<1>4. PICK T, G : T = {x \in S : IsEpisode(x)} /\ G = {n \in 0 .. L : f[n] \in Seq(T)}
  OBVIOUS
<1>5. 0 \in G
  <2>1. <<>> \in Seq(T) /\ 0 \in 0 .. L
    OBVIOUS
  <2> QED BY <1>2, <1>4, <2>1
<1>6. ASSUME NEW n \in 0 .. L - 1, n \in G PROVE n + 1 \in G
  <2>1. n + 1 \in 1 .. L /\ (n + 1) - 1 = n /\ f[n] \in Seq(T) /\ n + 1 \in 0 .. L
    BY <1>4, <1>6
  <2>2. f[n + 1] = WithCandidate(q, f[n], s[n + 1]) /\ s[n + 1] \in S
    BY <1>2, <2>1
  <2>3. f[n + 1] \in Seq(T)
    <3>1. CASE f[n + 1] = f[n]
      BY <2>1, <3>1
    <3>2. CASE f[n + 1] = Append(f[n], s[n + 1]) /\ IsEpisode(s[n + 1])
      <4>1. s[n + 1] \in T
        BY <1>4, <2>2, <3>2
      <4> QED BY <2>1, <3>2, <4>1
    <3> QED BY <2>2, <3>1, <3>2 DEF WithCandidate
  <2> QED BY <1>4, <2>1, <2>3
<1>7. f[L] \in Seq(T)
  <2>1. 0 .. L \subseteq G
    BY <1>5, <1>6, UpTo
  <2> QED BY <1>4, <2>1
<1>8. \A k \in 1 .. Len(f[L]) : f[L][k] \in T
  BY <1>7
<1>9. f[L] \in Seq(S)
  BY <1>2
<1>10. \A k \in 1 .. Len(f[L]) : \E j \in 1 .. L : f[L][k] = s[j]
  BY <1>2, <1>3, PickedFrom
<1> QED BY <1>2, <1>4, <1>8, <1>9, <1>10

\* Every Episode of an order is among its Episodes.
LEMMA EpisodesAreAll ==
    ASSUME NEW S, NEW s \in Seq(S), NEW j \in 1 .. Len(s), IsEpisode(s[j])
    PROVE  \E k \in 1 .. Len(Episodes(s)) : Episodes(s)[k] = s[j]
<1>0. PICK L \in Nat : L = Len(s)
  OBVIOUS
<1>1. PICK f : L = Len(s) /\ Kept(f, S, s) /\ Episodes(s) = f[L]
  BY <1>0, EpisodesAre
<1>2. Picks(f, S, s)
  BY <1>1 DEF Kept, Picks, WithDocument
<1>3. f[j] = Append(f[j - 1], s[j]) /\ f[j - 1] \in Seq(S) /\ s[j] \in S
  <2>1. j - 1 \in 0 .. L /\ j \in 1 .. L
    BY <1>0
  <2>2. f \in [0 .. L -> Seq(S)] /\ f[j] = WithDocument(f[j - 1], s[j])
    BY <1>0, <1>1, <2>1 DEF Kept
  <2> QED BY <2>1, <2>2 DEF WithDocument
<1>4. PICK i : i = Len(f[j - 1]) + 1
  OBVIOUS
<1>5. i \in 1 .. Len(f[j]) /\ f[j][i] = s[j]
  BY <1>3, <1>4
<1>6. Continues(f, s, j, L)
  BY <1>1, <1>2, PicksContinue
<1>7. f[L] \in Seq(S) /\ f[j] \in Seq(S)
  BY <1>1 DEF Kept
<1>8. i \in 1 .. Len(f[L]) /\ f[L][i] = s[j]
  BY <1>5, <1>6, <1>7 DEF Continues
<1> QED BY <1>1, <1>8

\* Whatever the index ranks first, Episode evidence of Core is among the Episodes of the
\* semantic arm: both look at one order, and Core looks no further, whichever entries it
\* turns down or skips for their size.
LEMMA EvidenceIsFound ==
    ASSUME NEW S, NEW order \in Seq(S), NEW q
    PROVE  /\ CoreEvidence(q, order) \in Seq(S) /\ SearchEpisodes(order) \in Seq(S)
           /\ ToSet(Refs(CoreEvidence(q, order))) \subseteq ToSet(Refs(SearchEpisodes(order)))
<1>1. PICK few, all, candidates, taken, found :
          /\ few = First(TopN, order) /\ all = Episodes(order)
          /\ candidates = EvidenceCandidates(q, few) /\ taken = BoundEpisodeEvidence(candidates)
          /\ found = First(TopN, all)
  OBVIOUS
<1>2. few \in Seq(S) /\ candidates \in Seq(S)
  BY <1>1, FirstIs, CandidatesArePicked, EffectAssumption
<1>3. PICK small : small = Episodes(few)
  OBVIOUS
<1>4. /\ small \in Seq(S) /\ all \in Seq(S) /\ Len(small) <= TopN /\ Len(small) <= Len(all)
      /\ \A k \in 1 .. Len(small) : small[k] = all[k]
  BY <1>1, <1>3, EpisodesOfFirst, EffectAssumption
<1>5. /\ found \in Seq(S) /\ Len(small) <= Len(found)
      /\ \A k \in 1 .. Len(found) : found[k] = all[k]
  BY <1>1, <1>4, FirstIs, EffectAssumption
<1>6. /\ taken \in Seq(S)
      /\ \A k \in 1 .. Len(taken) : \E j \in 1 .. Len(candidates) : taken[k] = candidates[j]
  <2>0. PICK L \in Nat : L = Len(candidates)
    BY <1>2
  <2>1. PICK f : KeptEntries(f, S, candidates) /\ taken = f[L]
    BY <1>1, <1>2, <2>0, BoundsAre
  <2>2. Picks(f, S, candidates)
    BY <2>1 DEF KeptEntries, Picks, WithEntry
  <2>3. f[L] \in Seq(S)
    BY <2>0, <2>1 DEF KeptEntries
  <2>4. \A k \in 1 .. Len(f[L]) : \E j \in 1 .. L : f[L][k] = candidates[j]
    BY <1>2, <2>0, <2>2, PickedFrom
  <2> QED BY <2>0, <2>1, <2>3, <2>4
<1>7. ASSUME NEW k \in 1 .. Len(taken) PROVE \E i \in 1 .. Len(found) : taken[k] = found[i]
  <2>1. PICK j \in 1 .. Len(candidates) : taken[k] = candidates[j]
    BY <1>6
  <2>2. PICK m \in 1 .. Len(few) : IsEpisode(few[m]) /\ candidates[j] = few[m]
    BY <1>1, <1>2, <2>1, CandidatesArePicked
  <2>3. PICK i \in 1 .. Len(small) : small[i] = few[m]
    BY <1>2, <1>3, <2>2, EpisodesAreAll
  <2>4. i \in 1 .. Len(found) /\ found[i] = small[i]
    BY <1>4, <1>5, <2>3
  <2> QED BY <2>1, <2>2, <2>3, <2>4
<1>8. ToSet(Refs(taken)) \subseteq ToSet(Refs(found))
  <2>1. /\ ToSet(Refs(taken)) = {taken[k].ref : k \in 1 .. Len(taken)}
        /\ ToSet(Refs(found)) = {found[k].ref : k \in 1 .. Len(found)}
    BY <1>5, <1>6, RefsAre
  <2> QED BY <1>7, <2>1
<1>9. ToSet(Refs(<<>>)) = {}
  BY DEF Refs, ToSet
<1>10. PICK evidence : evidence = CoreEvidence(q, order) /\ evidence \in {taken, <<>>}
  BY <1>1 DEF CoreEvidence
<1>11. SearchEpisodes(order) = found
  BY <1>1 DEF SearchEpisodes
<1>12. evidence \in Seq(S)
  <2>1. <<>> \in Seq(S)
    OBVIOUS
  <2> QED BY <1>6, <1>10, <2>1
<1>13. ToSet(Refs(evidence)) \subseteq ToSet(Refs(found))
  <2>1. CASE evidence = taken
    BY <1>8, <2>1
  <2>2. CASE evidence = <<>>
    BY <1>9, <2>2
  <2> QED BY <1>10, <2>1, <2>2
<1> QED BY <1>5, <1>10, <1>11, <1>12, <1>13

-----------------------------------------------------------------------------
(* The funnel of a result *)

\* A result has the funnel of what was found and selected at the versions it names, when
\* memory was at b and asked for as many documents as it had.
FunnelOf(q, b, result) ==
    \E m \in result.indexed, n \in result.indexed \cup {None}, v \in Versions(q) :
        result.funnel = Funnel(q, Found[q][b][m], Selection(q, v, n), Rendered[Selection(q, v, n)])

TaskFunnel(p, t, b) ==
    /\ t.at \in HasFound => t.found = Found[Cases[p][t.q]][b][t.searched]
    /\ t.at \in InHand => FunnelOf(Cases[p][t.q], b, t.result)

\* What Core froze was selected at one version of its memory and one of its index.
QuestionFunnel(q, b, context, result) ==
    /\ context # None => /\ context.version \in Versions(q)
                         /\ context.selected = Selection(q, context.version, context.indexed)
    /\ result # None => FunnelOf(q, b, result)

FunnelInv ==
    /\ \A p \in Personas : TaskFunnel(p, task[p], before[p])
    /\ \A q \in Questions : QuestionFunnel(q, before[Persona[q]], contexts[q], results[q])

LEMMA IdleFunnel == \A p \in Personas : \A b : TaskFunnel(p, Idle, b)
BY DEF TaskFunnel, Idle, HasFound, InHand

\* Steps that change nothing of it but the task of one persona.
LEMMA FunnelOfTask ==
    ASSUME IInv, FunnelInv, before' = before, contexts' = contexts, results' = results,
           NEW p \in Personas, NEW t, task' = [task EXCEPT ![p] = t], TaskFunnel(p, t, before[p])
    PROVE  FunnelInv'
<1>1. \A o \in Personas : task'[o] = IF o = p THEN t ELSE task[o]
  BY DEF IInv, Shape
<1>2. \A o \in Personas : TaskFunnel(o, task'[o], before[o])
  BY <1>1 DEF FunnelInv
<1>3. \A q \in Questions : QuestionFunnel(q, before[Persona[q]], contexts[q], results[q])
  BY DEF FunnelInv
<1> QED BY <1>2, <1>3 DEF FunnelInv

LEMMA FunnelRaise ==
    ASSUME FunnelInv, Raise, before' = before, contexts' = contexts, results' = results
    PROVE  FunnelInv'
<1>1. \A p \in Personas : task'[p] = Idle
  BY DEF Raise
<1> QED BY <1>1, IdleFunnel DEF FunnelInv

\* Going on with the same task.
LEMMA FunnelGoto ==
    ASSUME IInv, FunnelInv, before' = before, contexts' = contexts, results' = results,
           NEW p \in Personas, NEW at, Goto(p, at), at \in HasFound => task[p].at \in HasFound,
           at \in InHand => task[p].at \in InHand
    PROVE  FunnelInv'
<1> DEFINE s == [task[p] EXCEPT !.at = at]
<1>1. /\ s.at = at /\ s.q = task[p].q /\ s.result = task[p].result
      /\ s.found = task[p].found /\ s.searched = task[p].searched
  BY DEF IInv, Shape, TaskShape
<1>2. task' = [task EXCEPT ![p] = s]
  BY DEF Goto
<1> HIDE DEF s
<1>3. TaskFunnel(p, task[p], before[p])
  BY DEF FunnelInv
<1>4. TaskFunnel(p, s, before[p])
  BY <1>1, <1>3 DEF TaskFunnel
<1> QED BY <1>2, <1>4, FunnelOfTask

LEMMA FunnelSearch ==
    ASSUME IInv, FunnelInv, NEW p \in Personas, Search(p)
    PROVE  FunnelInv'
<1>1. before' = before /\ contexts' = contexts /\ results' = results
  BY DEF Search, files, core
<1>2. CASE Raise
  BY <1>1, <1>2, FunnelRaise
<1>3. CASE ~Raise
  <2>1. PICK found : found = Found[Question(p)][before[p]][indexed[p]]
    OBVIOUS
  <2>2. task' = [task EXCEPT ![p].at = "select", ![p].found = found, ![p].searched = indexed[p]]
    BY <1>3, <2>1 DEF Search
  <2> DEFINE s == [[[task[p] EXCEPT !.at = "select"] EXCEPT !.found = found] EXCEPT !.searched = indexed[p]]
  <2>3. task' = [task EXCEPT ![p] = s]
    BY <2>2, AtWork DEF Shape, TaskShape
  <2>4. s.at = "select" /\ s.q = task[p].q /\ s.found = found /\ s.searched = indexed[p]
    BY AtWork DEF TaskShape
  <2> HIDE DEF s
  <2>5. TaskFunnel(p, s, before[p])
    BY <2>1, <2>4 DEF TaskFunnel, HasFound, InHand, Question
  <2> QED BY <1>1, <2>3, <2>5, FunnelOfTask
<1> QED BY <1>2, <1>3

LEMMA FunnelSnapshot ==
    ASSUME IInv, FunnelInv, NEW p \in Personas, Snapshot(p)
    PROVE  FunnelInv'
<1>1. /\ contexts' = contexts /\ results' = results /\ task[p].at = "snapshot"
      /\ \A o \in Personas : o # p => before'[o] = before[o]
  BY DEF Snapshot, core, IInv, Shape
<1>2. /\ task'[p].at = "verify" /\ \A o \in Personas : o # p => task'[o] = task[o]
  BY AtWork DEF Snapshot, Goto, Shape, TaskShape
<1>3. \A q \in Questions : Persona[q] = p => contexts[q] = None /\ results[q] = None
  <2>1. before[p] = None
    BY <1>1, AtWork DEF TaskOK, Unfrozen
  <2> QED BY <2>1 DEF IInv, QuestionsInv, QuestionOK, ContextOf
<1>4. \A o \in Personas : TaskFunnel(o, task'[o], before'[o])
  BY <1>1, <1>2 DEF FunnelInv, TaskFunnel, HasFound, InHand
<1>5. \A q \in Questions : QuestionFunnel(q, before'[Persona[q]], contexts[q], results[q])
  BY <1>1, <1>3, CaseTypes DEF FunnelInv, QuestionFunnel
<1> QED BY <1>1, <1>4, <1>5 DEF FunnelInv

LEMMA FunnelSelect ==
    ASSUME IInv, FunnelInv, NEW p \in Personas, Select(p)
    PROVE  FunnelInv'
<1>1. before' = before /\ contexts' = contexts /\ results' = results /\ task[p].at = "select"
  BY DEF Select, files, core
<1>2. CASE Goto(p, "answer")
  BY <1>1, <1>2, FunnelGoto DEF HasFound, InHand
<1>3. ASSUME NEW index, task' = [task EXCEPT ![p].at = "load", ![p].looked = index]
      PROVE  FunnelInv'
  <2> DEFINE s == [[task[p] EXCEPT !.at = "load"] EXCEPT !.looked = index]
  <2>1. task' = [task EXCEPT ![p] = s]
    BY <1>3, AtWork DEF Shape, TaskShape
  <2>2. /\ s.at = "load" /\ s.q = task[p].q /\ s.found = task[p].found
        /\ s.searched = task[p].searched
    BY AtWork DEF TaskShape
  <2> HIDE DEF s
  <2>3. TaskFunnel(p, s, before[p])
    BY <1>1, <2>2 DEF FunnelInv, TaskFunnel, HasFound, InHand
  <2> QED BY <1>1, <2>1, <2>3, FunnelOfTask
<1> QED BY <1>2, <1>3 DEF Select

LEMMA FunnelLoad ==
    ASSUME IInv, FunnelInv, NEW p \in Personas, Load(p)
    PROVE  FunnelInv'
<1> DEFINE q == Question(p)
<1>1. before' = before /\ results' = results /\ task[p].at = "load"
  BY DEF Load, files
<1>2. q \in Questions /\ Persona[q] = p
  BY <1>1, OwnQuestion DEF AtQuestion, IInv
<1>3. PICK fresh : fresh = [selected |-> Selection(q, version[p], task[p].looked),
                            version |-> version[p], indexed |-> task[p].looked]
  OBVIOUS
<1>4. contexts'[q] = fresh /\ \A o \in Questions : o # q => contexts'[o] = contexts[o]
  BY <1>2, <1>3 DEF Load, IInv, Shape
<1>5. fresh.version \in Versions(q) /\ fresh.selected = Selection(q, fresh.version, fresh.indexed)
  BY <1>2, <1>3, AtWork DEF Versions
<1>6. \A r \in Questions : QuestionFunnel(r, before[Persona[r]], contexts'[r], results[r])
  BY <1>2, <1>4, <1>5 DEF FunnelInv, QuestionFunnel
<1> DEFINE s == [task[p] EXCEPT !.at = "answer"]
<1>7. /\ task' = [task EXCEPT ![p] = s] /\ s.at = "answer" /\ s.q = task[p].q
      /\ s.found = task[p].found /\ s.searched = task[p].searched
  BY AtWork DEF Load, Goto, Shape, TaskShape
<1> HIDE DEF s
<1>8. \A o \in Personas : task'[o] = IF o = p THEN s ELSE task[o]
  BY <1>7 DEF IInv, Shape
<1>9. TaskFunnel(p, s, before[p])
  BY <1>1, <1>7 DEF FunnelInv, TaskFunnel, HasFound, InHand
<1>10. \A o \in Personas : TaskFunnel(o, task'[o], before[o])
  BY <1>8, <1>9 DEF FunnelInv
<1> QED BY <1>1, <1>6, <1>10 DEF FunnelInv

LEMMA FunnelAnswer ==
    ASSUME IInv, FunnelInv, NEW p \in Personas, Answer(p)
    PROVE  FunnelInv'
<1>1. PICK q, c, found : q = Question(p) /\ c = contexts[q] /\ found = task[p].found
  OBVIOUS
<1>2. before' = before /\ contexts' = contexts /\ results' = results /\ task[p].at = "answer"
  BY DEF Answer
<1>3. PICK r : /\ task' = [task EXCEPT ![p].at = "verifyAnswer", ![p].result = r]
               /\ r.funnel = Funnel(q, found, c.selected, Rendered[c.selected])
               /\ r.indexed = {task[p].searched, c.indexed} \ {None}
  <2> DEFINE texts == Contexts(Question(p), task[p].found, Rendered[contexts[Question(p)].selected])
             result ==
                 [correct |-> [mode \in Modes |-> cache'[<<Question(p), texts[mode]>>]],
                  texts   |-> texts,
                  funnel  |-> Funnel(Question(p), task[p].found, contexts[Question(p)].selected,
                                     Rendered[contexts[Question(p)].selected]),
                  version |-> contexts[Question(p)].version,
                  indexed |-> {task[p].searched, contexts[Question(p)].indexed} \ {None}]
  <2>1. task' = [task EXCEPT ![p].at = "verifyAnswer", ![p].result = result]
    BY DEF Answer
  <2>2. PICK r : r = result
    OBVIOUS
  <2>3. r.funnel = result.funnel /\ r.indexed = result.indexed
    BY <2>2
  <2>4. /\ r.funnel = Funnel(q, found, c.selected, Rendered[c.selected])
        /\ r.indexed = {task[p].searched, c.indexed} \ {None}
    BY <1>1, <2>3
  <2> HIDE DEF result
  <2> QED BY <2>1, <2>2, <2>4
<1>4. q \in Questions /\ c # None
  BY <1>1, <1>2, OwnQuestion, AtWork DEF AtQuestion, TaskOK, ContextOf, Question
<1>5. c.version \in Versions(q) /\ c.selected = Selection(q, c.version, c.indexed)
  BY <1>1, <1>4 DEF FunnelInv, QuestionFunnel
<1>6. found = Found[q][before[p]][task[p].searched]
  BY <1>1, <1>2 DEF FunnelInv, TaskFunnel, HasFound, Question
<1>7. task[p].searched # None
  BY <1>2, AtWork, NoneIsFresh DEF TaskOK, HasFound, Unfrozen
<1>8. task[p].searched \in r.indexed /\ c.indexed \in r.indexed \cup {None}
  BY <1>3, <1>7
<1>9. FunnelOf(q, before[p], r)
  BY <1>3, <1>5, <1>6, <1>8 DEF FunnelOf
<1> DEFINE s == [[task[p] EXCEPT !.at = "verifyAnswer"] EXCEPT !.result = r]
<1>10. /\ task' = [task EXCEPT ![p] = s] /\ s.at = "verifyAnswer" /\ s.q = task[p].q /\ s.result = r
  BY <1>3, AtWork DEF Shape, TaskShape
<1> HIDE DEF s
<1>11. TaskFunnel(p, s, before[p])
  BY <1>1, <1>9, <1>10 DEF TaskFunnel, HasFound, Question
<1> QED BY <1>2, <1>10, <1>11, FunnelOfTask

LEMMA FunnelFreeze ==
    ASSUME IInv, FunnelInv, NEW p \in Personas, FreezeQuestion(p)
    PROVE  FunnelInv'
<1> DEFINE q == Question(p)
<1>1. before' = before /\ contexts' = contexts /\ task[p].at = "freeze"
  BY DEF FreezeQuestion, core
<1>2. q \in Questions /\ Persona[q] = p
  BY <1>1, OwnQuestion DEF AtQuestion, IInv
<1>3. results'[q] = task[p].result /\ \A o \in Questions : o # q => results'[o] = results[o]
  BY <1>2 DEF FreezeQuestion, IInv, Shape
<1>4. FunnelOf(q, before[p], task[p].result)
  BY <1>1 DEF FunnelInv, TaskFunnel, HasFound, InHand, Question
<1>5. \A r \in Questions : QuestionFunnel(r, before[Persona[r]], contexts[r], results'[r])
  BY <1>2, <1>3, <1>4 DEF FunnelInv, QuestionFunnel
<1> DEFINE s == [Idle EXCEPT !.at = "question", !.q = task[p].q + 1]
<1>6. task' = [task EXCEPT ![p] = s] /\ s.at = "question"
  BY DEF FreezeQuestion, Idle
<1> HIDE DEF s
<1>7. \A o \in Personas : task'[o] = IF o = p THEN s ELSE task[o]
  BY <1>6 DEF IInv, Shape
<1>8. \A o \in Personas : TaskFunnel(o, task'[o], before[o])
  BY <1>6, <1>7 DEF FunnelInv, TaskFunnel, HasFound, InHand
<1> QED BY <1>1, <1>5, <1>8 DEF FunnelInv

LEMMA FunnelNext == IInv /\ FunnelInv /\ [Next]_vars => FunnelInv'
<1> SUFFICES ASSUME IInv, FunnelInv, [Next]_vars PROVE FunnelInv'
  OBVIOUS
<1>1. CASE UNCHANGED vars \/ Start \/ \E p \in Personas : Learn(p) \/ Project(p)
  <2>1. task' = task /\ before' = before /\ contexts' = contexts /\ results' = results
    BY <1>1 DEF vars, files, core, Start, Learn, Project
  <2> QED BY <2>1 DEF FunnelInv
<1>2. CASE VerifiedSummary \/ Stop
  BY <1>2, FunnelRaise DEF VerifiedSummary, Stop, files, core
<1>3. ASSUME NEW p \in Personas, PersonaStep(p) PROVE FunnelInv'
  <2>1. CASE Acquire(p)
    BY <2>1, FunnelRaise, FunnelGoto DEF Acquire, files, core, HasFound, InHand
  <2>2. CASE Ingest(p)
    BY <2>2, FunnelGoto DEF Ingest, files, core, HasFound, InHand
  <2>3. CASE VerifyMemory(p)
    BY <2>3, FunnelRaise, FunnelGoto DEF VerifyMemory, files, core, HasFound, InHand
  <2>4. CASE VerifyProjection(p)
    BY <2>4, FunnelRaise, FunnelGoto DEF VerifyProjection, files, core, HasFound, InHand
  <2>5. CASE NextQuestion(p)
    <3>1. before' = before /\ contexts' = contexts /\ results' = results
      BY <2>5 DEF NextQuestion, files, core
    <3>2. CASE task' = [task EXCEPT ![p].q = @ + 1] /\ task[p].at = "question"
      <4> DEFINE s == [task[p] EXCEPT !.q = task[p].q + 1]
      <4>1. task' = [task EXCEPT ![p] = s] /\ s.at = "question"
        BY <3>2, AtWork DEF TaskShape
      <4> HIDE DEF s
      <4>2. TaskFunnel(p, s, before[p])
        BY <4>1 DEF TaskFunnel, HasFound, InHand
      <4> QED BY <3>1, <4>1, <4>2, FunnelOfTask
    <3>3. CASE Goto(p, "verifyEnd") \/ Goto(p, "search")
      BY <3>1, <3>3, FunnelGoto DEF HasFound, InHand
    <3>4. CASE Raise
      BY <3>1, <3>4, FunnelRaise
    <3> QED BY <2>5, <3>2, <3>3, <3>4 DEF NextQuestion
  <2>6. CASE FreezeProof(p)
    <3> DEFINE s == [Idle EXCEPT !.at = "done"]
    <3>1. task' = [task EXCEPT ![p] = s] /\ s.at = "done"
      BY <2>6 DEF FreezeProof, Idle
    <3> HIDE DEF s
    <3>2. TaskFunnel(p, s, before[p])
      BY <3>1 DEF TaskFunnel, HasFound, InHand
    <3>3. before' = before /\ contexts' = contexts /\ results' = results
      BY <2>6 DEF FreezeProof, core
    <3> QED BY <3>1, <3>2, <3>3, FunnelOfTask
  <2> QED BY <1>3, <2>1, <2>2, <2>3, <2>4, <2>5, <2>6, FunnelSearch, FunnelSnapshot, FunnelSelect,
             FunnelLoad, FunnelAnswer, FunnelFreeze DEF PersonaStep
<1> QED BY <1>1, <1>2, <1>3 DEF Next

-----------------------------------------------------------------------------
(* The arms *)

\* Memory at the snapshot, and an index that had all of it: every document is asked for.
LEMMA FoundOfAll ==
    ASSUME NEW q \in Questions, NEW b \in Versions(q)
    PROVE  Found[q][b][b] = SearchEpisodes(Ranked[q][b])
<1>1. PICK order, S : order = Ranked[q][b] /\ S = ToSet(order)
  OBVIOUS
<1>2. order \in Seq(S)
  BY <1>1, OrdersAreSequences
<1>3. First(Len(order), order) = order
  BY <1>2, SubSeqProperties DEF First
<1> QED BY <1>1, <1>3 DEF Found

LEMMA FunnelIsOrdered ==
    ASSUME NEW q \in Questions, NEW b \in Versions(q), NEW v, NEW n \in {b, None}
    PROVE  FunnelInOrder(Funnel(q, Found[q][b][b], Selection(q, v, n), Rendered[Selection(q, v, n)]))
<1>1. PICK found, selected, core2 :
          /\ found = SearchEpisodes(Ranked[q][b]) /\ selected = Selection(q, v, n)
          /\ core2 = Rendered[selected]
  OBVIOUS
<1>2. Found[q][b][b] = found
  BY <1>1, FoundOfAll
<1>3. selected.evidence \in {CoreEvidence(q, Ranked[q][b]), <<>>}
  BY <1>1 DEF Selection, Evidence
<1>4. PICK S : Ranked[q][b] \in Seq(S)
  BY OrdersAreSequences
<1>5. ToSet(Refs(selected.evidence)) \subseteq ToSet(Refs(found))
  <2>1. ToSet(Refs(CoreEvidence(q, Ranked[q][b]))) \subseteq ToSet(Refs(found))
    BY <1>1, <1>4, EvidenceIsFound
  <2>2. ToSet(Refs(<<>>)) = {}
    BY DEF Refs, ToSet
  <2> QED BY <1>3, <2>1, <2>2
<1>6. FunnelInOrder(Funnel(q, found, selected, core2))
  BY <1>5 DEF FunnelInOrder, Funnel
<1> QED BY <1>1, <1>2, <1>6

LEMMA FunnelsHold == ASSUME IInv, FunnelInv PROVE FunnelHolds
<1> SUFFICES ASSUME NEW q \in Questions, results[q] # None PROVE FunnelInOrder(results[q].funnel)
  BY DEF FunnelHolds
<1>1. PICK b : b = before[Persona[q]]
  OBVIOUS
<1>2. results[q].indexed = {b} /\ b # None
  BY <1>1 DEF IInv, QuestionsInv, QuestionOK
<1>3. b \in Versions(q)
  BY <1>1, <1>2, AtWork, CaseTypes DEF Versions
<1>4. PICK m \in results[q].indexed, n \in results[q].indexed \cup {None}, v \in Versions(q) :
          results[q].funnel = Funnel(q, Found[q][b][m], Selection(q, v, n), Rendered[Selection(q, v, n)])
  BY <1>1 DEF FunnelInv, QuestionFunnel, FunnelOf
<1>5. m = b /\ n \in {b, None}
  BY <1>2, <1>4
<1> QED BY <1>3, <1>4, <1>5, FunnelIsOrdered

\* What is delivered with Episode evidence continues what is delivered without.
LEMMA EvidenceContinues ==
    ASSUME NEW q \in Questions, NEW v \in Versions(q), NEW n \in Indexes(q),
           NEW selected, selected = Selection(q, v, n), NEW d, NEW e,
           d = CoreTexts(selected)["learned_core"], e = CoreTexts(selected)["current_core"]
    PROVE  IsPrefix(d, e) /\ ToSet(e) \subseteq ToSet(d) \cup ToSet(Refs(selected.evidence))
<1>1. PICK learned, evidence :
          learned = Learned[q][v][n] /\ evidence = IF n = None THEN <<>> ELSE CoreEvidence(q, Ranked[q][n])
  OBVIOUS
<1>2. selected.learned = learned /\ selected.evidence = evidence
  BY <1>1 DEF Selection, Evidence, Indexes
<1>3. PICK S : learned \in Seq(S) /\ evidence \in Seq(S)
  <2>1. PICK A : learned \in Seq(A)
    BY <1>1, OrdersAreSequences
  <2>2. PICK B : evidence \in Seq(B)
    <3>1. CASE n = None
      <4>1. evidence \in Seq({})
        BY <1>1, <3>1
      <4> QED BY <4>1
    <3>2. CASE n # None
      <4>1. n \in Versions(q) /\ evidence = CoreEvidence(q, Ranked[q][n])
        BY <1>1, <3>2 DEF Indexes
      <4>2. PICK order, B : order = Ranked[q][n] /\ order \in Seq(B)
        BY <4>1, OrdersAreSequences
      <4> QED BY <4>1, <4>2, EvidenceIsFound
    <3> QED BY <3>1, <3>2
  <2>3. learned \in Seq(A \cup B) /\ evidence \in Seq(A \cup B)
    BY <2>1, <2>2
  <2> QED BY <2>3
<1>4. PICK few, all : few = Render(learned) /\ all = Render(learned \o evidence)
  OBVIOUS
<1>5. d = Refs(few) /\ e = Refs(all)
  BY <1>2, <1>4 DEF CoreTexts, CoreItems
<1>6. few \in Seq(S) /\ all \in Seq(S) /\ GoesOn(few, all, evidence)
  BY <1>3, <1>4, RenderContinues
<1>7. Len(d) = Len(few) /\ Len(e) = Len(all)
  BY <1>5, <1>6, RefsAre
<1>8. /\ \A k \in 1 .. Len(few) : d[k] = few[k].ref
      /\ \A k \in 1 .. Len(all) : e[k] = all[k].ref
  BY <1>5, <1>6, RefsAre
<1>9. /\ ToSet(d) = {few[k].ref : k \in 1 .. Len(few)}
      /\ ToSet(e) = {all[k].ref : k \in 1 .. Len(all)}
      /\ ToSet(Refs(evidence)) = {evidence[j].ref : j \in 1 .. Len(evidence)}
  BY <1>3, <1>5, <1>6, RefsAre
<1>10. IsPrefix(d, e)
  BY <1>6, <1>7, <1>8 DEF IsPrefix, GoesOn
<1>11. ToSet(e) \subseteq ToSet(d) \cup ToSet(Refs(evidence))
  BY <1>6, <1>9 DEF GoesOn
<1> QED BY <1>2, <1>10, <1>11

LEMMA ArmsShareLearned == ASSUME IInv, FunnelInv, DeliveriesInv PROVE CoreArmsShareLearned
<1>1. OneDelivery
  BY DEF DeliveriesInv, OneDelivery
<1>2. ASSUME NEW d \in deliveries, NEW e \in deliveries, d.question = e.question,
             d.mode = "learned_core", e.mode = "current_core"
      PROVE  /\ IsPrefix(d.refs, e.refs)
             /\ ToSet(e.refs) \subseteq
                   ToSet(d.refs) \cup ToSet(Refs(contexts[d.question].selected.evidence))
  <2>1. PICK q, c : q = d.question /\ c = contexts[q]
    OBVIOUS
  <2>2. /\ q \in Questions /\ c # None
        /\ d.refs = Delivered(q, "learned_core") /\ e.refs = Delivered(q, "current_core")
    BY <1>2, <2>1 DEF DeliveriesInv
  <2>3. c.version \in Versions(q) /\ c.selected = Selection(q, c.version, c.indexed)
    BY <2>1, <2>2 DEF FunnelInv, QuestionFunnel
  <2>4. c.indexed \in Indexes(q) /\ c.selected \in Selections
    <3>1. ContextOf(before[Persona[q]], version[Persona[q]], indexed[Persona[q]], c)
      BY <2>1, <2>2 DEF IInv, QuestionsInv, QuestionOK
    <3> QED BY <2>2, <3>1, AtWork, CaseTypes DEF ContextOf, Indexes, Versions
  <2>5. PICK selected, v, n : selected = c.selected /\ v = c.version /\ n = c.indexed
    OBVIOUS
  <2>6. /\ d.refs = CoreTexts(selected)["learned_core"]
        /\ e.refs = CoreTexts(selected)["current_core"]
    BY <2>1, <2>2, <2>4, <2>5 DEF Delivered, Rendered
  <2>7. v \in Versions(q) /\ n \in Indexes(q) /\ selected = Selection(q, v, n)
    BY <2>3, <2>4, <2>5
  <2>8. IsPrefix(d.refs, e.refs) /\ ToSet(e.refs) \subseteq ToSet(d.refs) \cup ToSet(Refs(selected.evidence))
    BY <2>2, <2>6, <2>7, EvidenceContinues
  <2> QED BY <2>1, <2>5, <2>8
<1> QED BY <1>1, <1>2 DEF CoreArmsShareLearned, OneDelivery

\* Whatever Core has learned, ranks and selects, and however tight the budget is: the six
\* arms of a frozen result can be compared.  Episode evidence that Core selected is among
\* the Episodes of the semantic arm, so that verified_effect_summary never turns down a
\* complete run; and what the two arms of Core delivered for a question differs in Episode
\* evidence only (evaluate_question and build_funnel_record of the effect runner).
THEOREM ArmsAreComparable == Spec => []ArmsComparable
<1>1. Init => FunnelInv /\ DeliveriesInv
  BY IdleFunnel DEF Init, FunnelInv, QuestionFunnel, DeliveriesInv
<1>2. IInv /\ FunnelInv /\ DeliveriesInv => ArmsComparable
  BY FunnelsHold, ArmsShareLearned DEF ArmsComparable
<1> QED BY PersonaInvariant, FunnelNext, DeliveriesNext, <1>1, <1>2, PTL DEF Spec

-----------------------------------------------------------------------------
(* The stage that is blamed *)

\* Arms that were shown the same text have the same answer.
AlikeTexts(result) ==
    \A m, n \in Modes : result.texts[m] = result.texts[n] => result.correct[m] = result.correct[n]

AlikeInv ==
    /\ \A q \in Questions : results[q] # None => AlikeTexts(results[q])
    /\ \A p \in Personas : task[p].at \in InHand => AlikeTexts(task[p].result)

\* A run that blames a stage is over, and its verdict is about the results on disk.
VerdictInv ==
    summary \in ToSet(Candidates) =>
        ~up /\ summary = Decide(results) /\ \A q \in Questions : results[q] # None

BlameInv == AlikeInv /\ VerdictInv

LEMMA CandidatesAre ==
    /\ ToSet(Candidates) = {"retrieval", "selection_assembly", "consolidation"}
    /\ Candidates[1] = "retrieval" /\ Candidates[2] = "selection_assembly" /\ Candidates[3] = "consolidation"
BY DEF Candidates, ToSet

\* Steps of a persona need a process.
LEMMA StepsAreUp ==
    ASSUME IInv, NEW p \in Personas, PersonaStep(p)
    PROVE  up
<1>1. Shape
  BY DEF IInv
<1> QED BY <1>1, UpAtWork DEF PersonaStep, Acquire, Ingest, Snapshot, VerifyMemory, VerifyProjection,
        NextQuestion, Search, Select, Load, Answer, FreezeQuestion, FreezeProof

LEMMA VerdictNext == IInv /\ VerdictInv /\ [Next]_vars => VerdictInv'
<1> SUFFICES ASSUME IInv, VerdictInv, [Next]_vars, summary' \in ToSet(Candidates)
             PROVE  ~up' /\ summary' = Decide(results') /\ \A q \in Questions : results'[q] # None
  BY DEF VerdictInv
<1>1. CASE VerifiedSummary
  <2>1. results' = results /\ ~up' /\ \A q \in Questions : results[q] # None
    BY <1>1 DEF VerifiedSummary, Raise
  <2>2. up
    BY <1>1 DEF VerifiedSummary
  <2>3. summary' = Decide(results)
    BY <1>1, <2>2 DEF VerifiedSummary, VerdictInv
  <2> QED BY <2>1, <2>3
<1>2. CASE Start
  <2>1. summary' = None
    BY <1>2 DEF Start, files
  <2> QED BY <2>1, NoneIsFresh
<1>3. CASE UNCHANGED vars \/ Stop \/ \E p \in Personas : Learn(p) \/ Project(p)
  <2>1. summary' = summary /\ results' = results /\ (up' = up \/ ~up')
    BY <1>3 DEF vars, files, Stop, Raise, Learn, Project
  <2> QED BY <2>1 DEF VerdictInv
<1>4. ASSUME NEW p \in Personas, PersonaStep(p) PROVE FALSE
  <2>1. up /\ summary' = summary
    BY <1>4, StepsAreUp DEF PersonaStep, Acquire, Ingest, Snapshot, VerifyMemory, VerifyProjection,
       NextQuestion, Search, Select, Load, Answer, FreezeQuestion, FreezeProof, files
  <2> QED BY <2>1 DEF VerdictInv
<1> QED BY <1>1, <1>2, <1>3, <1>4 DEF Next

\* The answers of a question come from one cache, by question and text.
LEMMA AnsweredAlike ==
    ASSUME NEW q, NEW texts, NEW answers, NEW r, r.texts = texts,
           r.correct = [mode \in Modes |-> answers[<<q, texts[mode]>>]]
    PROVE  AlikeTexts(r)
BY DEF AlikeTexts

LEMMA AlikeRaise ==
    ASSUME AlikeInv, Raise, results' = results
    PROVE  AlikeInv'
BY DEF AlikeInv, Raise, Idle, InHand

\* A step of one persona that leaves the results alone.
LEMMA AlikeTask ==
    ASSUME IInv, AlikeInv, NEW p \in Personas, NEW t, task' = [task EXCEPT ![p] = t],
           results' = results, t.at \in InHand => AlikeTexts(t.result)
    PROVE  AlikeInv'
<1>1. \A o \in Personas : task'[o] = IF o = p THEN t ELSE task[o]
  BY DEF IInv, Shape
<1> QED BY <1>1 DEF AlikeInv

LEMMA AlikeGoto ==
    ASSUME IInv, AlikeInv, NEW p \in Personas, NEW at, Goto(p, at), results' = results,
           at \in InHand => task[p].at \in InHand
    PROVE  AlikeInv'
<1> DEFINE s == [task[p] EXCEPT !.at = at]
<1>1. /\ task' = [task EXCEPT ![p] = s] /\ s.at = at /\ s.result = task[p].result
  BY AtWork DEF Goto, Shape, TaskShape
<1> HIDE DEF s
<1>2. s.at \in InHand => AlikeTexts(s.result)
  BY <1>1 DEF AlikeInv
<1> QED BY <1>1, <1>2, AlikeTask

LEMMA AlikeNext == IInv /\ AlikeInv /\ [Next]_vars => AlikeInv'
<1> SUFFICES ASSUME IInv, AlikeInv, [Next]_vars PROVE AlikeInv'
  OBVIOUS
<1>1. CASE UNCHANGED vars \/ Start \/ \E p \in Personas : Learn(p) \/ Project(p)
  <2>1. task' = task /\ results' = results
    BY <1>1 DEF vars, files, Start, Learn, Project
  <2> QED BY <2>1 DEF AlikeInv
<1>2. CASE VerifiedSummary \/ Stop
  BY <1>2, AlikeRaise DEF VerifiedSummary, Stop, files
<1>3. ASSUME NEW p \in Personas, PersonaStep(p) PROVE AlikeInv'
  <2>1. CASE Acquire(p) \/ Ingest(p) \/ VerifyMemory(p) \/ VerifyProjection(p)
    BY <2>1, AlikeRaise, AlikeGoto DEF Acquire, Ingest, VerifyMemory, VerifyProjection, files, InHand
  <2>2. CASE Snapshot(p) \/ Load(p)
    BY <2>2, AlikeGoto DEF Snapshot, Load, files, InHand
  <2>3. CASE Select(p)
    <3>1. results' = results /\ task[p].at = "select"
      BY <2>3 DEF Select, files
    <3>2. CASE Goto(p, "answer")
      BY <3>1, <3>2, AlikeGoto DEF InHand
    <3>3. ASSUME NEW index, task' = [task EXCEPT ![p].at = "load", ![p].looked = index]
          PROVE  AlikeInv'
      <4> DEFINE s == [[task[p] EXCEPT !.at = "load"] EXCEPT !.looked = index]
      <4>1. task' = [task EXCEPT ![p] = s] /\ s.at = "load"
        BY <3>3, AtWork DEF Shape, TaskShape
      <4> HIDE DEF s
      <4>2. s.at \notin InHand
        BY <4>1 DEF InHand
      <4> QED BY <3>1, <4>1, <4>2, AlikeTask
    <3> QED BY <2>3, <3>2, <3>3 DEF Select
  <2>4. CASE NextQuestion(p)
    <3>1. results' = results
      BY <2>4 DEF NextQuestion, files
    <3>2. CASE task' = [task EXCEPT ![p].q = @ + 1] /\ task[p].at = "question"
      <4> DEFINE s == [task[p] EXCEPT !.q = task[p].q + 1]
      <4>1. task' = [task EXCEPT ![p] = s] /\ s.at = "question"
        BY <3>2, AtWork DEF TaskShape
      <4> HIDE DEF s
      <4>2. s.at \notin InHand
        BY <4>1 DEF InHand
      <4> QED BY <3>1, <4>1, <4>2, AlikeTask
    <3> QED BY <2>4, <3>1, <3>2, AlikeRaise, AlikeGoto DEF NextQuestion, InHand
  <2>5. CASE Search(p)
    <3>1. results' = results
      BY <2>5 DEF Search, files
    <3>2. CASE ~Raise
      <4> DEFINE found == Found[Question(p)][before[p]][indexed[p]]
                 s == [[[task[p] EXCEPT !.at = "select"] EXCEPT !.found = found] EXCEPT !.searched = indexed[p]]
      <4>1. task' = [task EXCEPT ![p].at = "select", ![p].found = found, ![p].searched = indexed[p]]
        BY <2>5, <3>2 DEF Search
      <4> HIDE DEF found
      <4>2. task' = [task EXCEPT ![p] = s] /\ s.at = "select"
        BY <4>1, AtWork DEF Shape, TaskShape
      <4> HIDE DEF s
      <4>3. s.at \notin InHand
        BY <4>2 DEF InHand
      <4> QED BY <3>1, <4>2, <4>3, AlikeTask
    <3> QED BY <3>1, <3>2, AlikeRaise
  <2>6. CASE Answer(p)
    <3> DEFINE q == Question(p)
               texts == Contexts(q, task[p].found, Rendered[contexts[q].selected])
               Result(answers) ==
                   [correct |-> [mode \in Modes |-> answers[<<q, texts[mode]>>]],
                    texts   |-> texts,
                    funnel  |-> Funnel(q, task[p].found, contexts[q].selected, Rendered[contexts[q].selected]),
                    version |-> contexts[q].version,
                    indexed |-> {task[p].searched, contexts[q].indexed} \ {None}]
    <3>1. PICK r : r = Result(cache') /\ task' = [task EXCEPT ![p].at = "verifyAnswer", ![p].result = r]
      BY <2>6 DEF Answer
    <3>2. AlikeTexts(r)
      BY <3>1, AnsweredAlike
    <3> DEFINE s == [[task[p] EXCEPT !.at = "verifyAnswer"] EXCEPT !.result = r]
    <3> HIDE DEF q, texts, Result
    <3>3. task' = [task EXCEPT ![p] = s] /\ s.result = r
      BY <3>1, AtWork DEF Shape, TaskShape
    <3> HIDE DEF s
    <3>4. results' = results
      BY <2>6 DEF Answer
    <3> QED BY <3>2, <3>3, <3>4, AlikeTask
  <2>7. CASE FreezeQuestion(p)
    <3>1. \A o \in Questions : results'[o] \in {task[p].result, results[o]} /\ task[p].at = "freeze"
      BY <2>7 DEF FreezeQuestion, IInv, Shape
    <3>2. \A o \in Questions : results'[o] # None => AlikeTexts(results'[o])
      <4>1. task[p].at \in InHand
        BY <2>7 DEF FreezeQuestion, InHand
      <4> SUFFICES ASSUME NEW o \in Questions, results'[o] # None PROVE AlikeTexts(results'[o])
        OBVIOUS
      <4>2. CASE results'[o] = task[p].result
        BY <4>1, <4>2 DEF AlikeInv
      <4>3. CASE results'[o] = results[o]
        BY <4>3 DEF AlikeInv
      <4> QED BY <3>1, <4>2, <4>3
    <3>3. \A o \in Personas : task'[o].at \in InHand => task'[o] = task[o]
      BY <2>7 DEF FreezeQuestion, Idle, InHand, IInv, Shape
    <3> QED BY <3>2, <3>3 DEF AlikeInv
  <2>8. CASE FreezeProof(p)
    <3> DEFINE s == [Idle EXCEPT !.at = "done"]
    <3>1. task' = [task EXCEPT ![p] = s] /\ s.at = "done" /\ results' = results
      BY <2>8 DEF FreezeProof, Idle
    <3> HIDE DEF s
    <3>2. s.at \notin InHand
      BY <3>1 DEF InHand
    <3> QED BY <3>1, <3>2, AlikeTask
  <2> QED BY <1>3, <2>1, <2>2, <2>3, <2>4, <2>5, <2>6, <2>7, <2>8 DEF PersonaStep
<1> QED BY <1>1, <1>2, <1>3 DEF Next

\* A gain is an integer; where it is positive, one arm was right and the other wrong; and
\* a sum of gains is positive only where a gain is.
LEMMA GainsAre ==
    ASSUME NEW qs \in SUBSET Questions, NEW left, NEW right
    PROVE  /\ GainOf(results, qs, left, right) \in Int
           /\ GainOf(results, qs, left, right) > 0 =>
                 \E q \in qs : results[q].correct[left] /\ ~results[q].correct[right]
<1> DEFINE gains == [q \in qs |-> Gain(results[q], left, right)]
<1>1. IsFiniteSet(qs)
  BY EffectAssumption, FS_Subset
<1>2. \A q \in qs : gains[q] \in Int
  BY DEF Gain
<1>3. GainOf(results, qs, left, right) = SumFunctionOnSet(gains, qs)
  BY DEF GainOf
<1>4. \A q \in qs : gains[q] > 0 => results[q].correct[left] /\ ~results[q].correct[right]
  BY DEF Gain
<1> HIDE DEF gains
<1>5. /\ SumFunctionOnSet(gains, qs) \in Int
      /\ SumFunctionOnSet(gains, qs) > 0 => \E q \in qs : gains[q] > 0
  BY <1>1, <1>2, SumIs
<1> QED BY <1>3, <1>4, <1>5

\* The effect of a stage: a mean of integers, and reliable only over some questions.
LEMMA EffectIs ==
    ASSUME NEW left, NEW right, NEW condition, NEW e,
           e = ConditionedDifference(results, left, right, condition)
    PROVE  /\ e.gain \in Int /\ e.n \in Nat
           /\ e.reliable => e.n > 0
           /\ e.reliable => \E q \in Questions : /\ results[q].funnel[condition]
                                                 /\ results[q].correct[left] /\ ~results[q].correct[right]
<1> DEFINE qs == {q \in Questions : results[q].funnel[condition]}
           gain == GainOf(results, qs, left, right)
<1>1. qs \subseteq Questions /\ IsFiniteSet(qs)
  BY EffectAssumption, FS_Subset
<1>2. Cardinality(qs) \in Nat /\ (qs # {} => Cardinality(qs) > 0)
  BY <1>1, FS_CardinalityType, FS_EmptySet
<1>3. e.n = Cardinality(qs) /\ e.gain = gain /\ (e.reliable => qs # {} /\ gain > 0)
  BY DEF ConditionedDifference
<1>4. /\ gain \in Int
      /\ gain > 0 => \E q \in qs : results[q].correct[left] /\ ~results[q].correct[right]
  BY <1>1, GainsAre
<1> HIDE DEF gain
<1> QED BY <1>2, <1>3, <1>4

\* The stages by their means are a total order.
LEMMA MeansAreOrdered ==
    ASSUME NEW a \in Int, NEW k \in Nat, k > 0, NEW b \in Int, NEW m \in Nat, m > 0,
           NEW c \in Int, NEW n \in Nat, n > 0, a * m <= b * k, b * n <= c * m
    PROVE  a * n <= c * k
<1>1. (a * m) * n <= (b * k) * n /\ (b * n) * k <= (c * m) * k
  OBVIOUS
<1>2. (a * n) * m <= (c * k) * m
  BY <1>1
<1> QED BY <1>2

\* What a stage that is reliable has lost, and that the stages which are reliable can be ordered.
LEMMA StagesAre ==
    /\ \A s \in ToSet(Candidates) : LET e == StageEffect(results, s) IN
          /\ e.gain \in Int /\ e.n \in Nat /\ (e.reliable => e.n > 0)
    /\ StageEffect(results, "retrieval").reliable =>
          \E q \in Questions : /\ results[q].funnel["source_available"]
                               /\ results[q].correct["oracle_episode"] /\ ~results[q].correct["semantic_top40"]
    /\ StageEffect(results, "selection_assembly").reliable =>
          \E q \in Questions : /\ results[q].funnel["indexed"]
                               /\ results[q].correct["semantic_top40"] /\ ~results[q].correct["current_core"]
    /\ StageEffect(results, "consolidation").reliable =>
          \E q \in Questions : /\ results[q].funnel["delivered"]
                               /\ results[q].correct["current_core"] /\ ~results[q].correct["learned_core"]
<1>1. /\ StageEffect(results, "retrieval")
            = ConditionedDifference(results, "oracle_episode", "semantic_top40", "source_available")
      /\ StageEffect(results, "selection_assembly")
            = ConditionedDifference(results, "semantic_top40", "current_core", "indexed")
      /\ StageEffect(results, "consolidation")
            = ConditionedDifference(results, "current_core", "learned_core", "delivered")
  BY DEF StageEffect
<1> QED BY <1>1, EffectIs, CandidatesAre

\* The stage that max() takes is reliable, and no reliable stage has lost more.
LEMMA WorstIs ==
    ASSUME NEW w, w = MaxStage(results), w # "none"
    PROVE  /\ w \in ToSet(Candidates) /\ StageEffect(results, w).reliable
           /\ \A s \in ToSet(Candidates) : StageEffect(results, s).reliable =>
                 ~Larger(StageEffect(results, s), StageEffect(results, w))
<1> DEFINE Reliable(s) == StageEffect(results, s).reliable
           More(s, t) == Larger(StageEffect(results, s), StageEffect(results, t))
           C == ToSet(Candidates)
           Pick(best, s) == IF Reliable(s) /\ (best = "none" \/ More(s, best)) THEN s ELSE best
           w1 == Pick("none", "retrieval")
           w2 == Pick(w1, "selection_assembly")
<1>1. \A s, t \in C : Reliable(s) /\ Reliable(t) => (More(s, t) => ~More(t, s)) /\ ~More(s, s)
  BY StagesAre DEF Larger
<1>2. ASSUME NEW s \in C, NEW t \in C, NEW u \in C, Reliable(s), Reliable(t), Reliable(u),
             ~More(s, t), ~More(t, u)
      PROVE  ~More(s, u)
  <2> DEFINE e == StageEffect(results, s)
             f == StageEffect(results, t)
             g == StageEffect(results, u)
  <2>1. /\ e.gain \in Int /\ e.n \in Nat /\ e.n > 0 /\ f.gain \in Int /\ f.n \in Nat /\ f.n > 0
        /\ g.gain \in Int /\ g.n \in Nat /\ g.n > 0
    BY <1>2, StagesAre
  <2>2. ~(e.gain * f.n > f.gain * e.n) /\ ~(f.gain * g.n > g.gain * f.n)
    BY <1>2 DEF Larger
  <2> HIDE DEF e, f, g
  <2>3. e.gain * f.n <= f.gain * e.n /\ f.gain * g.n <= g.gain * f.n
    BY <2>1, <2>2
  <2>4. e.gain * g.n <= g.gain * e.n
    BY <2>1, <2>3, MeansAreOrdered
  <2>5. ~(e.gain * g.n > g.gain * e.n)
    BY <2>1, <2>4
  <2> QED BY <2>5 DEF Larger, e, g
<1>3. w = Pick(w2, "consolidation")
  BY CandidatesAre DEF MaxStage, Worse
<1>4. C = {"retrieval", "selection_assembly", "consolidation"}
  BY CandidatesAre
<1> HIDE DEF Reliable, More, C
<1>5. /\ w1 # "none" => w1 = "retrieval" /\ Reliable(w1)
      /\ w1 = "none" => ~Reliable("retrieval")
  OBVIOUS
<1>6. /\ w2 # "none" => w2 \in {"retrieval", "selection_assembly"} /\ Reliable(w2)
      /\ \A s \in {"retrieval", "selection_assembly"} : Reliable(s) => w2 # "none" /\ ~More(s, w2)
  BY <1>1, <1>4, <1>5
<1> HIDE DEF w1, w2
<1>7. w \in C /\ Reliable(w)
  BY <1>3, <1>4, <1>6
<1>8. ASSUME NEW s \in C, Reliable(s) PROVE ~More(s, w)
  <2>1. CASE w = "consolidation"
    <3>1. CASE s = "consolidation"
      BY <1>1, <1>8, <2>1, <3>1
    <3>2. CASE s # "consolidation"
      <4>1. w2 # "none" /\ ~More(s, w2) /\ w2 \in C /\ Reliable(w2)
        BY <1>4, <1>6, <1>8, <3>2
      <4>2. w2 # "consolidation"
        BY <1>6, <4>1
      <4>3. More(w, w2)
        BY <1>3, <2>1, <4>1, <4>2
      <4>4. ~More(w2, w)
        BY <1>1, <1>7, <4>1, <4>3
      <4> QED BY <1>2, <1>7, <1>8, <4>1, <4>4
    <3> QED BY <3>1, <3>2
  <2>2. CASE w # "consolidation"
    <3>1. w = w2 /\ ~(Reliable("consolidation") /\ More("consolidation", w2))
      BY <1>3, <2>2
    <3> QED BY <1>4, <1>6, <1>8, <3>1
  <2> QED BY <2>1, <2>2
<1> QED BY <1>7, <1>8 DEF Reliable, More, C

\* A verdict that names a stage is the one max() has taken.
LEMMA BlameIsWorst ==
    ASSUME Decide(results) \in ToSet(Candidates)
    PROVE  Decide(results) = MaxStage(results) /\ MaxStage(results) # "none"
BY CandidatesAre DEF Decide

\* PersonaMem blames a stage of memory only for what it has lost.  However many questions
\* and personas there are, whatever the model answers, and however often the run starts
\* again: if the diagnosis names a stage, then for some question the evidence had reached
\* that stage, the arm before it was right, the arm behind it wrong, and the two were
\* shown different texts; and no stage whose loss is reliable has a larger mean loss
\* (_decide_conditioned_bottleneck of the effect runner).
THEOREM BlameIsJustified == Spec => []BlameJustified
<1>1. Init => BlameInv
  BY NoneIsFresh DEF Init, BlameInv, AlikeInv, VerdictInv, Idle, InHand
<1>2. IInv /\ BlameInv /\ [Next]_vars => BlameInv'
  BY AlikeNext, VerdictNext DEF BlameInv
<1>3. IInv /\ BlameInv => BlameJustified
  <2> SUFFICES ASSUME BlameInv, summary \in ToSet(Candidates)
               PROVE  /\ \E q \in Questions : Lost(summary, q)
                      /\ \A s \in ToSet(Candidates) : StageEffect(results, s).reliable =>
                            ~Larger(StageEffect(results, s), StageEffect(results, summary))
    BY DEF BlameJustified, BlameNeedsLoss, BlameIsLargest
  <2>1. summary = MaxStage(results) /\ summary # "none"
    BY BlameIsWorst DEF BlameInv, VerdictInv
  <2>2. /\ StageEffect(results, summary).reliable
        /\ \A s \in ToSet(Candidates) : StageEffect(results, s).reliable =>
              ~Larger(StageEffect(results, s), StageEffect(results, summary))
    BY <2>1, WorstIs
  <2>3. \A q \in Questions : AlikeTexts(results[q])
    BY DEF BlameInv, AlikeInv, VerdictInv
  <2>4. {"oracle_episode", "semantic_top40", "current_core", "learned_core"} \subseteq Modes
    BY DEF Modes
  <2>5. CASE summary = "retrieval"
    BY <2>2, <2>3, <2>4, <2>5, StagesAre DEF Lost, AlikeTexts
  <2>6. CASE summary = "selection_assembly"
    BY <2>2, <2>3, <2>4, <2>6, StagesAre DEF Lost, AlikeTexts
  <2>7. CASE summary = "consolidation"
    BY <2>2, <2>3, <2>4, <2>7, StagesAre DEF Lost, AlikeTexts
  <2>8. \E q \in Questions : Lost(summary, q)
    BY <2>5, <2>6, <2>7, CandidatesAre
  <2> QED BY <2>2, <2>8
<1> QED BY PersonaInvariant, <1>1, <1>2, <1>3, PTL DEF Spec

=============================================================================
