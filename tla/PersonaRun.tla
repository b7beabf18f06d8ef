----------------------------- MODULE PersonaRun -----------------------------
(***************************************************************************)
(* The PersonaMem evaluation: personas are learned and questioned          *)
(* concurrently, and every result has to come from the memory that was     *)
(* frozen before the first question (eval/python: personamem_effect_cli.py,*)
(* evaluate_question of personamem_effect_runner.py).                      *)
(*                                                                         *)
(* Core may learn at any time, although nobody asked it to, and its index  *)
(* follows later.  Learning only ever adds versions.                       *)
(***************************************************************************)
EXTENDS PersonaEffect, RequestCache

CONSTANTS
    Cases,          \* [persona -> its questions in order]
    Ranked,         \* [Questions -> [version of the index -> order of the documents]]
    Learned,        \* [Questions -> [version of memory -> [version of the index -> learned items
                    \*   Core selects]]]
    Replies(_, _),  \* what the model may do with a question and a text: answer right or wrong
    Limit,          \* persona_workers
    MaxLearn,       \* bound: [persona -> times Core learns about it]
    MaxStops        \* bound: crashes and failing calls, searches within Core included

Personas == ToSet(PersonaOrder)

ASSUME RunAssumption ==
    /\ \A p \in Personas : /\ Cases[p] \in Seq(Questions)
                           /\ ToSet(Cases[p]) = {q \in Questions : Persona[q] = p}
    /\ IsFiniteSet(Personas) /\ MaxLearn \in [Personas -> Nat]
    /\ Limit \in Nat \ {0} /\ MaxStops \in Nat

-----------------------------------------------------------------------------
(***************************************************************************)
(* What Core may select and the index may find.                            *)
(***************************************************************************)
Versions(q) == 0 .. MaxLearn[Persona[q]]

\* The versions of the index a search of Core may see; None if the search fails, which
\* Core takes for one that finds nothing.
Indexes(q) == Versions(q) \cup {None}

\* Episode evidence at every version of the index.
Evidence == [q \in Questions |-> [v \in Versions(q) |-> CoreEvidence(q, Ranked[q][v])]]

\* What Core selects for a question: learned items, of its memory and what the index
\* found, and Episodes the index found.
Selection(q, memory, index) ==
    [learned  |-> Learned[q][memory][index],
     evidence |-> IF index = None THEN <<>> ELSE Evidence[q][index]]

ASSUME OrdersAreSequences ==
    \A q \in Questions : \A v \in Versions(q) :
        /\ Ranked[q][v] \in Seq(ToSet(Ranked[q][v]))
        /\ \A x \in Indexes(q) : Learned[q][v][x] \in Seq(ToSet(Learned[q][v][x]))

Selections ==
    UNION {{Selection(q, v, x) : v \in Versions(q), x \in Indexes(q)} : q \in Questions}

\* Every selection, rendered.
Rendered == [s \in Selections |-> CoreTexts(s)]

\* semantic_top40 over the index at one version; as many documents are asked for as
\* the snapshot of memory, at another one, has.
Found ==
    [q \in Questions |-> [memory \in Versions(q) |-> [index \in Versions(q) |->
        SearchEpisodes(First(Len(Ranked[q][memory]), Ranked[q][index]))]]]

Founds == UNION {{Found[q][memory][index] : memory, index \in Versions(q)} : q \in Questions}

\* A result: the answers of all arms, what they were shown, the funnel, the version of
\* memory that it comes from and those of the index.
Results ==
    [correct : [Modes -> BOOLEAN],
     texts   : {Contexts(q, found, Rendered[s]) : q \in Questions, found \in Founds, s \in Selections},
     funnel  : [source_available : BOOLEAN, indexed : BOOLEAN, selected : BOOLEAN, delivered : BOOLEAN],
     version : Nat, indexed : SUBSET Nat]

\* A MemoryContext that Core has frozen, and the versions it comes from.
FrozenContexts == [selected : Selections, version : Nat, indexed : Nat \cup {None}]

\* What is not there yet is none of the things that may be there.
ASSUME NoneIsFresh == None \notin Results \cup FrozenContexts /\ None \notin Nat /\ None \notin ToSet(Candidates)

-----------------------------------------------------------------------------
VARIABLES
    up,             \* a process is running
    task,           \* [Personas -> [at, q, found, searched, looked, result]]
    before, results, proof, summary, cache,     \* output directory
    version,        \* [Personas -> version of the memory in Core]
    indexed,        \* [Personas -> version the index has]
    contexts,       \* [Questions -> the MemoryContext Core froze for its run]
    deliveries,     \* Deliveries Core has recorded
    stops

files == <<before, results, proof, summary, cache>>
core == <<version, indexed, contexts, deliveries>>
vars == <<up, task, files, core, stops>>

Idle == [at |-> "none", q |-> 1, found |-> <<>>, searched |-> 0, looked |-> None, result |-> None]

-----------------------------------------------------------------------------
(***************************************************************************)
(* The process and run_personas_bounded.                                   *)
(***************************************************************************)
Start ==
    /\ ~up /\ summary = None
    /\ up' = TRUE
    /\ UNCHANGED <<task, files, core, stops>>

\* An exception cancels every persona and ends the process.
Raise == up' = FALSE /\ task' = [p \in Personas |-> Idle]

Working == {p \in Personas : task[p].at \notin {"none", "done"}}

Goto(p, at) == task' = [task EXCEPT ![p].at = at] /\ UNCHANGED up

Completed(p) == {q \in ToSet(Cases[p]) : results[q] # None}

\* A persona gets its place; answers without the snapshot are refused.
Acquire(p) ==
    /\ up /\ task[p].at = "none" /\ Cardinality(Working) < Limit
    /\ CASE before[p] # None -> Goto(p, "verify")
         [] before[p] = None /\ Completed(p) = {} -> Goto(p, "ingest")
         [] OTHER -> Raise
    /\ UNCHANGED <<files, core, stops>>

-----------------------------------------------------------------------------
(***************************************************************************)
(* _run_persona.                                                           *)
(***************************************************************************)
\* ingest_history and its waits: memory and index agree ...
Ingest(p) ==
    /\ task[p].at = "ingest" /\ indexed[p] = version[p]
    /\ Goto(p, "snapshot")
    /\ UNCHANGED <<files, core, stops>>

\* ... and memory is frozen a moment later.
Snapshot(p) ==
    /\ task[p].at = "snapshot"
    /\ before' = [before EXCEPT ![p] = version[p]]
    /\ Goto(p, "verify")
    /\ UNCHANGED <<results, proof, summary, cache, core, stops>>

\* Variant: memory is verified before the questions only.
MemoryUncheckedInBetween(p) == task[p].at # "verify" \/ before[p] = version[p]

\* verify_frozen compares memory with the snapshot ...
MemoryUnchanged(p) == before[p] = version[p]

\* ... and then asks for operations of the index that are not projected yet.
ProjectionDone(p) == indexed[p] = version[p]

\* verify_frozen, before the first question, after every answer and at the end.
VerifyMemory(p) ==
    /\ task[p].at \in {"verify", "verifyAnswer", "verifyEnd"}
    /\ IF MemoryUnchanged(p)
       THEN Goto(p, CASE task[p].at = "verify"       -> "projection"
                      [] task[p].at = "verifyAnswer" -> "projectionAnswer"
                      [] task[p].at = "verifyEnd"    -> "projectionEnd")
       ELSE Raise
    /\ UNCHANGED <<files, core, stops>>

VerifyProjection(p) ==
    /\ task[p].at \in {"projection", "projectionAnswer", "projectionEnd"}
    /\ IF ProjectionDone(p)
       THEN Goto(p, CASE task[p].at = "projection"       -> "question"
                      [] task[p].at = "projectionAnswer" -> "freeze"
                      [] task[p].at = "projectionEnd"    -> "proof")
       ELSE Raise
    /\ UNCHANGED <<files, core, stops>>

Question(p) == Cases[p][task[p].q]

\* Variant: a result that is there ends the questions.
NextQuestionBreak(p) ==
    /\ task[p].at = "question"
    /\ Goto(p, IF task[p].q > Len(Cases[p]) THEN "verifyEnd"
               ELSE IF results[Question(p)] = None THEN "search" ELSE "verifyEnd")
    /\ UNCHANGED <<files, core, stops>>

\* The next question; a result that is there is only checked again.
NextQuestion(p) ==
    /\ task[p].at = "question"
    /\ IF task[p].q > Len(Cases[p]) THEN Goto(p, "verifyEnd")
       ELSE IF results[Question(p)] = None THEN Goto(p, "search")
       ELSE IF FunnelInOrder(results[Question(p)].funnel)
            THEN task' = [task EXCEPT ![p].q = @ + 1] /\ UNCHANGED up
            ELSE Raise
    /\ UNCHANGED <<files, core, stops>>

\* semantic_top40 over the index as it is now; a list that lacks Episodes is refused.
Search(p) ==
    LET q     == Question(p)
        found == Found[q][before[p]][indexed[p]] IN
    /\ task[p].at = "search"
    /\ IF Len(found) = Len(Found[q][before[p]][before[p]])
       THEN /\ task' = [task EXCEPT ![p].at = "select", ![p].found = found, ![p].searched = indexed[p]]
            /\ UNCHANGED up
       ELSE Raise
    /\ UNCHANGED <<files, core, stops>>

\* select_memory: Core returns what it has frozen under the run of the question.  If it
\* has nothing yet it searches its index, in a transaction that holds the run lock, ...
Select(p) ==
    /\ task[p].at = "select"
    /\ IF contexts[Question(p)] # None THEN Goto(p, "answer") /\ UNCHANGED stops
       ELSE \E index \in {indexed[p], None} :
               /\ index = None => stops < MaxStops
               /\ stops' = IF index = None THEN stops + 1 ELSE stops
               /\ task' = [task EXCEPT ![p].at = "load", ![p].looked = index] /\ UNCHANGED up
    /\ UNCHANGED <<files, core>>

\* ... and only then locks the owners of memory against consolidation, reads the
\* candidates, and freezes what it selects.
Load(p) ==
    /\ task[p].at = "load"
    /\ contexts' = [contexts EXCEPT ![Question(p)] =
           [selected |-> Selection(Question(p), version[p], task[p].looked),
            version |-> version[p], indexed |-> task[p].looked]]
    /\ Goto(p, "answer")
    /\ UNCHANGED <<files, version, indexed, deliveries, stops>>

Delivered(q, mode) == Rendered[contexts[q].selected][mode]

\* The six arms, with the Delivery of the two that hold memory of Core; texts that were
\* answered before keep their answer.
Answer(p) ==
    LET q        == Question(p)
        selected == contexts[q].selected
        texts    == Contexts(q, task[p].found, Rendered[selected]) IN
    /\ task[p].at = "answer"
    /\ \E fresh \in [{<<q, texts[mode]>> : mode \in Modes} \ DOMAIN cache -> BOOLEAN] :
          /\ \A key \in DOMAIN fresh : fresh[key] \in Replies(q, key[2])
          /\ deliveries' = deliveries \cup
                 {[question |-> q, mode |-> mode, refs |-> Delivered(q, mode)] :
                     mode \in {m \in CoreModes : Delivered(q, m) # <<>>}}
          /\ cache' = Extended(cache, fresh)
          /\ task' = [task EXCEPT ![p].at = "verifyAnswer",
                 ![p].result = [correct  |-> [mode \in Modes |-> cache'[<<q, texts[mode]>>]],
                                texts    |-> texts,
                                funnel   |-> Funnel(q, task[p].found, selected, Rendered[selected]),
                                version  |-> contexts[q].version,
                                indexed  |-> {task[p].searched, contexts[q].indexed} \ {None}]]
    /\ UNCHANGED <<up, before, results, proof, summary, version, indexed, contexts, stops>>

\* freeze_question_result, once the memory is known to be the same.
FreezeQuestion(p) ==
    /\ task[p].at = "freeze"
    /\ results' = [results EXCEPT ![Question(p)] = task[p].result]
    /\ task' = [task EXCEPT ![p] = [Idle EXCEPT !.at = "question", !.q = task[p].q + 1]]
    /\ UNCHANGED <<up, before, proof, summary, cache, core, stops>>

FreezeProof(p) ==
    /\ task[p].at = "proof"
    /\ proof' = [proof EXCEPT ![p] = before[p]]
    /\ task' = [task EXCEPT ![p] = [Idle EXCEPT !.at = "done"]]
    /\ UNCHANGED <<up, before, results, summary, cache, core, stops>>

-----------------------------------------------------------------------------
Summarizable == \A q \in Questions : FunnelInOrder(results[q].funnel)

\* verified_effect_summary of all questions and proofs.
VerifiedSummary ==
    /\ up /\ \A p \in Personas : task[p].at = "done"
    /\ \A q \in Questions : results[q] # None
    /\ \A p \in Personas : proof[p] # None
    /\ summary' = IF Summarizable THEN Decide(results) ELSE summary
    /\ Raise
    /\ UNCHANGED <<before, results, proof, cache, core, stops>>

\* A crash, or a call that fails for good; an open transaction of Core goes with it.
Stop ==
    /\ up /\ stops < MaxStops
    /\ stops' = stops + 1
    /\ Raise
    /\ UNCHANGED <<files, core>>

\* Core learns, whoever made it.
Learn(p) ==
    /\ version[p] < MaxLearn[p]
    /\ version' = [version EXCEPT ![p] = @ + 1]
    /\ UNCHANGED <<up, task, files, indexed, contexts, deliveries, stops>>

\* Its index follows.
Project(p) ==
    /\ indexed[p] < version[p]
    /\ indexed' = [indexed EXCEPT ![p] = @ + 1]
    /\ UNCHANGED <<up, task, files, version, contexts, deliveries, stops>>

Init ==
    /\ up = FALSE /\ task = [p \in Personas |-> Idle]
    /\ before = [p \in Personas |-> None] /\ proof = [p \in Personas |-> None]
    /\ results = [q \in Questions |-> None] /\ contexts = [q \in Questions |-> None]
    /\ summary = None /\ cache = <<>> /\ stops = 0 /\ deliveries = {}
    /\ version = [p \in Personas |-> 0] /\ indexed = [p \in Personas |-> 0]

PersonaStep(p) ==
    \/ Acquire(p) \/ Ingest(p) \/ Snapshot(p) \/ VerifyMemory(p) \/ VerifyProjection(p)
    \/ NextQuestion(p) \/ Search(p) \/ Select(p) \/ Load(p) \/ Answer(p) \/ FreezeQuestion(p) \/ FreezeProof(p)

Next ==
    \/ Start \/ VerifiedSummary \/ Stop
    \/ \E p \in Personas : PersonaStep(p) \/ Learn(p) \/ Project(p)

Spec == Init /\ [][Next]_vars

\* The event loop runs every persona, the operator starts the run again, Core projects.
FairSpec ==
    /\ Spec /\ WF_vars(Start) /\ WF_vars(VerifiedSummary)
    /\ \A p \in Personas : WF_vars(PersonaStep(p)) /\ WF_vars(Project(p))

-----------------------------------------------------------------------------
(***************************************************************************)
(* Properties.                                                             *)
(***************************************************************************)
TypeOK ==
    /\ \A p \in Personas : /\ indexed[p] \in 0 .. version[p] /\ version[p] \in 0 .. MaxLearn[p]
                           /\ before[p] \in {None} \cup 0 .. MaxLearn[p]
                           /\ task[p].q \in 1 .. Len(Cases[p]) + 1
    /\ Cardinality(Working) <= Limit
    /\ up \/ Working = {}

\* Whatever Core learns while the questions are asked, in whatever order it is
\* noticed and however often the run starts again: a result on disk comes from the
\* memory in the snapshot, and whatever was found for it was found in an index that had
\* all of it.
ResultsOfFrozenMemory ==
    \A q \in Questions : results[q] # None =>
        /\ results[q].version = before[Persona[q]]
        /\ results[q].indexed = {before[Persona[q]]}

\* A run that has all results and proofs is never turned down by its own funnel:
\* Episode evidence Core selected is among the Episodes of the semantic arm.
FunnelHolds == \A q \in Questions : results[q] # None => FunnelInOrder(results[q].funnel)

\* The proof of a persona is about all its results.
ProofCoversResults ==
    \A p \in Personas : proof[p] # None =>
        \A q \in ToSet(Cases[p]) : results[q] # None /\ results[q].version = proof[p]

\* The two arms of Core differ in Episode evidence only, however tight the budget is:
\* one of them continues the other with evidence.  And a question that is asked again
\* delivers what it has delivered before.
CoreArmsShareLearned ==
    \A d, e \in deliveries : d.question = e.question =>
        /\ d.mode = e.mode => d = e
        /\ d.mode = "learned_core" /\ e.mode = "current_core" =>
              /\ IsPrefix(d.refs, e.refs)
              /\ ToSet(e.refs) \subseteq
                    ToSet(d.refs) \cup ToSet(Refs(contexts[d.question].selected.evidence))

Lost(stage, q) ==
    LET r == results[q] IN
    CASE stage = "retrieval" ->
            /\ r.funnel.source_available /\ r.correct["oracle_episode"] /\ ~r.correct["semantic_top40"]
            /\ r.texts["oracle_episode"] # r.texts["semantic_top40"]
      [] stage = "selection_assembly" ->
            /\ r.funnel.indexed /\ r.correct["semantic_top40"] /\ ~r.correct["current_core"]
            /\ r.texts["semantic_top40"] # r.texts["current_core"]
      [] stage = "consolidation" ->
            /\ r.funnel.delivered /\ r.correct["current_core"] /\ ~r.correct["learned_core"]
            /\ r.texts["current_core"] # r.texts["learned_core"]

\* A stage is blamed only if it lost something: for some question the evidence had
\* reached it, the arm before it was right, the arm behind it was wrong, and the two
\* were shown different texts.
BlameNeedsLoss ==
    summary \in ToSet(Candidates) => \E q \in Questions : Lost(summary, q)

\* The stage that is blamed has the largest mean loss of those that are reliable.
BlameIsLargest ==
    summary \in ToSet(Candidates) =>
        \A s \in ToSet(Candidates) :
            StageEffect(results, s).reliable => ~Larger(StageEffect(results, s), StageEffect(results, summary))

\* Core has learned since the snapshot: no process gets past that.
Overtaken == \E p \in Personas : before[p] \notin {None, version[p]}

\* A run that dies only so often ends with a summary, unless Core has overtaken it.
EvaluationEnds == <>(summary # None \/ Overtaken)

\* The run measures one frozen memory: its results and the proof about them are of
\* the snapshot taken before the first question.
MemoryFrozen == TypeOK /\ ResultsOfFrozenMemory /\ ProofCoversResults

\* The arms can be compared: each keeps what its successor may lose, in the funnel
\* as in the budget.
ArmsComparable == FunnelHolds /\ CoreArmsShareLearned

\* The stage a diagnosis blames has lost something, and no other has lost more.
BlameJustified == BlameNeedsLoss /\ BlameIsLargest

=============================================================================
