-------------------------------- MODULE Worker --------------------------------
(***************************************************************************)
(* The reference inference Worker: one ProcessConsolidationWindow call     *)
(* (worker/python/src/memory_core_worker).  The handler asks the text model  *)
(* up to four times: the primary answer, a focused formation of a new      *)
(* Disposition, a recovery of missing feedback and a plain-text fallback   *)
(* for Recollections.  Each await of the model is a step of its own;       *)
(* everything the handler does between two awaits is one step.  The Worker *)
(* keeps no state between calls, so one call at a time is all there is to  *)
(* model; Core repeats a failed call.                                      *)
(***************************************************************************)
EXTENDS TaggedText

CONSTANTS
    Requests,           \* the requests Core may send
    PrimaryAnswers,     \* texts the model may give to the primary prompt
    FormationBodies,    \* ... to the formation prompt
    FeedbackAnswers,    \* ... to the feedback prompt
    RecollectionBodies, \* ... to the fallback prompt
    MaxModelInput,      \* max_model_input_bytes
    RulesSize, FormationSize, FeedbackSize, RecollectionSize,  \* the fixed prompts
    MaxPlainRecollections,
    MaxAttempts,        \* bound: calls Core makes for the window
    Name                \* sessions, sources, roles, origins and actors of the evidence

\* __init__ and the settings refuse a bound that is not positive; the feedback
\* prompt's rules are far shorter than the primary rules.
ASSUME WorkerAssumption ==
    /\ MaxModelInput \in Nat \ {0}
    /\ {RulesSize, FormationSize, FeedbackSize, RecollectionSize} \subseteq Nat
    /\ FeedbackSize <= RulesSize
    /\ MaxPlainRecollections \in Nat \ {0}
    /\ MaxAttempts \in Nat \ {0}

\* A model answers with lines.
ASSUME AnswerAssumption ==
    PrimaryAnswers \cup FormationBodies \cup FeedbackAnswers \cup RecollectionBodies
        \subseteq Seq(Line)

\* A request: the offered refs, what is read from the window's text and, if it
\* is typed, the evidence.  Eligible applications are SELF or RELATION.
EvidenceSource == [ref : Name, role : Name, actor : Name]
EvidenceEpisode ==
    [ref : Line, session : Name, origin : Name, role : Name, sources : Seq(EvidenceSource)]
EvidenceOutcome == [ref : Line, episode : Line, actor : Name]
WindowRequest ==
    [typed : BOOLEAN, window : Nat, targets : Seq(Line), basis : Seq(Line),
     eligible : Seq(Line), feedbackEpisodes : Seq(Line), feedbackOutcomes : Seq(Line \X Line),
     newApplications : Seq({"SELF", "RELATION"}), recollections : Seq(Line),
     episodes : Seq(EvidenceEpisode), outcomes : Seq(EvidenceOutcome)]

\* Core mints the refs it offers as Basis and as feedback targets, so none is
\* a word of the protocol, a body or blank (no text quoted in the window is
\* taken for one of Core's own lines).
ASSUME RequestAssumption ==
    /\ Requests \subseteq WindowRequest
    /\ \A r \in Requests :
          ToSet(r.basis) \cup ToSet(r.eligible) \cup ToSet(r.feedbackEpisodes)
              \subseteq Line \ (Keywords \cup Scopes \cup NewTargets \cup Spaced)

VARIABLES
    request,    \* the request in hand
    stage,      \* which model call is awaited, or how the call ended
    text,       \* tagged_text
    attempt,    \* calls made for this window
    sizes,      \* history: the input size of every model call
    raw,        \* history: the model's primary answer, line by line
    formed,     \* history: the block the formation lane bound
    recovered,  \* history: the feedback the recovery lane bound
    broken      \* history: a model call of this attempt was interrupted

workerVars == <<request, stage, text, attempt, sizes, raw, formed, recovered, broken>>

Awaiting == {"primary", "formation", "feedback", "recollection"}

-----------------------------------------------------------------------------
(***************************************************************************)
(* What the Worker reads from a request.  The window text is given by what *)
(* is read from it: the ELIGIBLE_DISPOSITION lines, the FEEDBACK_EPISODE   *)
(* and FEEDBACK_OUTCOME lines (an Outcome with its OUTCOME_EPISODE) and    *)
(* the applications of ELIGIBLE_NEW_DISPOSITION.                           *)
(***************************************************************************)
Targets(r) == ToSet(r.targets)
Basis(r) == ToSet(r.basis)

EligibleFeedbackTargets(r) == {t \in ToSet(r.eligible) : t \in Targets(r)}

FeedbackEpisodes(r) == ToSet(r.feedbackEpisodes)

\* Later lines of the same Outcome win.
FeedbackOutcomes(r) ==
    LET told == {i \in DOMAIN r.feedbackOutcomes : r.feedbackOutcomes[i][2] # Blank}
        Of(o) == {i \in told : r.feedbackOutcomes[i][1] = o}
    IN  [o \in {r.feedbackOutcomes[i][1] : i \in told} |-> r.feedbackOutcomes[Max(Of(o))][2]]

EligibleFeedbackBasisRefs(r) ==
    {ref \in FeedbackEpisodes(r) \cup {p[1] : p \in ToSet(r.feedbackOutcomes)} : ref \in Basis(r)}

EpisodesOfRole(r, role) ==
    Sublist(r.episodes, {i \in DOMAIN r.episodes : r.episodes[i].role = role})

HasDispositionFormationAnchor(r) == r.typed /\ Len(EpisodesOfRole(r, "anchor")) = 1

SituationOf(e) == {s \in ToSet(e.sources) : s.role = "situation" /\ s.actor # "agent"}
ActOf(e) == {s \in ToSet(e.sources) : s.role = "agent_act" /\ s.actor = "agent"}

\* The ID-free formation job of a qualified window: the anchor and every
\* candidate, each from a session of its own with one non-Agent Outcome.
DispositionFormationMaterial(r) ==
    LET anchors == EpisodesOfRole(r, "anchor")
        candidates == EpisodesOfRole(r, "candidate")
        relevant == anchors \o candidates
        refs == {relevant[i].ref : i \in DOMAIN relevant}
        OutcomesOf(eps) ==
            Sublist(r.outcomes, {i \in DOMAIN r.outcomes : r.outcomes[i].episode \in eps})
        paired == OutcomesOf(refs)
        OutcomeOf(e) == OutcomesOf({e.ref})
        qualified ==
            /\ r.typed
            /\ Cardinality({i \in DOMAIN r.targets : r.targets[i] = "NEW_DISPOSITION"}) = 1
            /\ Len(r.newApplications) = 1
            /\ IsInjective(r.basis)
            /\ Len(anchors) = 1 /\ candidates # <<>>
            /\ anchors[1].origin = "current"
            /\ \A i \in DOMAIN candidates : candidates[i].origin \in {"current", "related"}
            /\ \A i \in DOMAIN relevant : relevant[i].session # Blank
            /\ IsInjective([i \in DOMAIN relevant |-> relevant[i].session])
            /\ \A i \in DOMAIN paired : paired[i].actor \notin {Blank, "agent"}
            /\ \A i \in DOMAIN relevant :
                  /\ relevant[i].ref \in Basis(r)
                  /\ Len(OutcomeOf(relevant[i])) = 1
                  /\ OutcomeOf(relevant[i])[1].ref \in Basis(r)
                  /\ SituationOf(relevant[i]) # {} /\ ActOf(relevant[i]) # {}
    IN  IF ~qualified THEN [ok |-> FALSE, application |-> Blank, basis |-> <<>>]
        ELSE [ok |-> TRUE, application |-> r.newApplications[1],
              basis |-> FlattenSeq([i \in DOMAIN relevant |->
                            <<relevant[i].ref, OutcomeOf(relevant[i])[1].ref>>])]

\* The typed evidence is consistent; recollection_materials raises otherwise.
EvidenceValid(r) ==
    /\ IsInjective(r.targets) /\ IsInjective(r.basis)
    /\ "NEW_RECOLLECTION" \in Targets(r)
    /\ IsInjective(r.recollections) /\ ToSet(r.recollections) \subseteq Targets(r)
    /\ IsInjective([i \in DOMAIN r.episodes |-> r.episodes[i].ref])
    /\ \E i \in DOMAIN r.episodes : r.episodes[i].origin = "current"
    /\ \A i \in DOMAIN r.episodes :
          LET e == r.episodes[i] IN
          /\ e.ref \in Basis(r)
          /\ e.origin \in {"current", "related", "revision_anchor"}
          /\ e.origin # "revision_anchor" => StableBasisRef(e.ref)
          /\ IsInjective([j \in DOMAIN e.sources |-> <<e.sources[j].role, e.sources[j].ref>>])
          /\ \E s \in ToSet(e.sources) : s.role = "situation"
          /\ ActOf(e) # {}
          /\ \A s \in ToSet(e.sources) : s.role = "agent_act" => s.actor = "agent"
    \* a source has one author and one text within a session
    /\ \A i, j \in DOMAIN r.episodes :
          r.episodes[i].session = r.episodes[j].session =>
             \A s \in ToSet(r.episodes[i].sources), t \in ToSet(r.episodes[j].sources) :
                s.ref = t.ref => s.actor = t.actor
    /\ IsInjective([i \in DOMAIN r.outcomes |-> r.outcomes[i].ref])
    /\ \A i \in DOMAIN r.outcomes :
          \E j \in DOMAIN r.episodes : r.episodes[j].ref = r.outcomes[i].episode

CurrentEpisodes(r) ==
    Sublist(r.episodes, {i \in DOMAIN r.episodes : r.episodes[i].origin = "current"})

\* What the user said in the current Episodes: the fallback's only material.
RecollectionMaterials(r) ==
    LET Said(sources) ==
            Sublist(sources, {j \in DOMAIN sources : /\ sources[j].role = "situation"
                                                     /\ sources[j].actor = "user"})
    IN  FlattenSeq([i \in DOMAIN CurrentEpisodes(r) |-> Said(CurrentEpisodes(r)[i].sources)])

RecollectionBasis(r) == [i \in DOMAIN CurrentEpisodes(r) |-> CurrentEpisodes(r)[i].ref]

-----------------------------------------------------------------------------
(***************************************************************************)
(* Sizes of the prompts and the texts bound from the model's plain bodies. *)
(***************************************************************************)
BuildModelInput(r) == RulesSize + r.window + Len(r.targets) + Len(r.basis)
BuildFormationInput(r) ==
    FormationSize + (IF DispositionFormationMaterial(r).ok
                     THEN Len(DispositionFormationMaterial(r).basis) ELSE 0)
BuildFeedbackInput(r) ==
    FeedbackSize + r.window + Cardinality(EligibleFeedbackTargets(r))
        + Cardinality(EligibleFeedbackBasisRefs(r))
BuildRecollectionInput(r) ==
    RecollectionSize + Len(RecollectionMaterials(r)) + Len(r.recollections)

NewBlock(target, application, body, basis) ==
    <<"TARGET", target, "APPLICATION", application, "CHANGE", "TEXT", body, "BASIS">> \o basis

\* bind_disposition raises on a body that is not one plain line.
ReservedOutput == {"TARGET", "APPLICATION", "CHANGE", "TEXT", "BASIS"} \cup NewTargets
PlainBody(body) ==
    /\ Len(SplitLines(Strip(body))) = 1
    /\ Strip(body)[1] \notin ReservedOutput
BindDisposition(material, body) ==
    IF Strip(body) = <<"NO_CHANGE">> THEN <<>>
    ELSE NewBlock("NEW_DISPOSITION", material.application, Strip(body)[1], material.basis)

\* bind_recollection raises on protocol lines.
ReservedProtocol == ReservedOutput \cup Scopes \cup {"NO_MEMORY", "NO_CHANGE"}
PlainList(body) ==
    LET lines == OrderedUnique(Meaningful(SplitLines(body)))
    IN  SubSeq(lines, 1, Min({Len(lines), MaxPlainRecollections}))
PlainListOK(body) ==
    /\ PlainList(body) # <<>>
    /\ "NO_MEMORY" \notin ToSet(SplitLines(body))
    /\ \A i \in DOMAIN PlainList(body) : PlainList(body)[i] \notin ReservedProtocol
BindPlainRecollections(r, body) ==
    IF ~PlainListOK(body) THEN <<>>
    ELSE FlattenSeq([i \in DOMAIN PlainList(body) |->
            NewBlock("NEW_RECOLLECTION", "OTHER", PlainList(body)[i], RecollectionBasis(r))])

-----------------------------------------------------------------------------
(***************************************************************************)
(* The handler, from one await to the next.                                *)
(***************************************************************************)

\* The model's primary answer with the mechanical repairs; a chat Episode has
\* no authority to create a Seed in one step, so NEW_DISPOSITION ADAPT goes.
RepairPrimary(r, answer) ==
    LET token == IF Strip(answer) = <<"NO_CHANGE">> THEN <<>> ELSE answer
        whole == RestoreInitialNewTarget(SplitCopiedInlineApplication(token, Targets(r)),
                                         Targets(r))
        bounded == IF Len(whole) > MaxTaggedLines THEN <<>> ELSE whole
    IN  RemoveNewDispositionChanges(DeduplicateBasis(bounded, Basis(r)), {"ADAPT"})

\* Variant: the focused prompt is not measured.
FormsUnmeasured(r) ==
    HasDispositionFormationAnchor(r) /\ DispositionFormationMaterial(r).ok

FormsDisposition(r) ==
    /\ HasDispositionFormationAnchor(r)
    /\ DispositionFormationMaterial(r).ok
    /\ BuildFormationInput(r) <= MaxModelInput

\* Variant: the primary answer keeps its inferred Seeds.
KeepInferred(r, t) == t

\* With an anchor in the window the formation lane owns inferred Seeds.
LeaveToFormation(r, t) ==
    IF HasDispositionFormationAnchor(r) THEN RemoveNewDispositionChanges(t, {"TEXT"}) ELSE t

\* Variant: primary feedback keeps the Basis the model chose.
KeepModelBasis(r, t) == t

NormalizePrimaryFeedback(r, t) ==
    IF ContainsOnlyTargetBlocks(t, EligibleFeedbackTargets(r))
    THEN NormalizeFeedbackOutput(t, EligibleFeedbackTargets(r),
                                 FeedbackEpisodes(r), FeedbackOutcomes(r))
    ELSE t

RecoversFeedback(r, t) ==
    /\ EligibleFeedbackTargets(r) # {}
    /\ ~ContainsTargetBlock(t, EligibleFeedbackTargets(r))
    /\ EligibleFeedbackBasisRefs(r) # {}

ShouldProcessRecollection(r, t) ==
    /\ r.typed
    /\ "NEW_RECOLLECTION" \in Targets(r)
    /\ ToSet(t) \cap ({"NEW_RECOLLECTION"} \cup ToSet(r.recollections)) = {}

FallsBack(r, t) ==
    /\ ShouldProcessRecollection(r, t)
    /\ EvidenceValid(r)
    /\ RecollectionMaterials(r) # <<>>
    /\ BuildRecollectionInput(r) <= MaxModelInput

Await(call, size) == stage' = call /\ sizes' = Append(sizes, size)

Reply == stage' = "replied" /\ UNCHANGED sizes

\* After the feedback lane: the fallback call or the answer.
FinishWith(t) ==
    /\ text' = t
    /\ IF FallsBack(request, t)
       THEN Await("recollection", BuildRecollectionInput(request))
       ELSE Reply

\* After the formation lane: the recovery call or on to the fallback.
ContinueWith(t) ==
    LET n == NormalizePrimaryFeedback(request, t)
    IN  IF RecoversFeedback(request, n)
        THEN text' = n /\ Await("feedback", BuildFeedbackInput(request))
        ELSE FinishWith(n)

\* Core calls; an oversized window is answered without a model call.
Call(r) ==
    /\ stage = "idle"
    /\ request' = r
    /\ IF BuildModelInput(r) > MaxModelInput THEN Reply ELSE Await("primary", BuildModelInput(r))
    /\ UNCHANGED <<text, attempt, raw, formed, recovered, broken>>

PrimaryAnswer(answer) ==
    /\ stage = "primary"
    /\ raw' = answer
    /\ LET t == LeaveToFormation(request, RepairPrimary(request, answer))
       IN  IF FormsDisposition(request)
           THEN text' = t /\ Await("formation", BuildFormationInput(request))
           ELSE ContinueWith(t)
    /\ UNCHANGED <<request, attempt, formed, recovered, broken>>

\* A body that is not one plain line raises out of the handler.
FormationAnswer(body) ==
    /\ stage = "formation"
    /\ IF Strip(body) = <<"NO_CHANGE">> \/ PlainBody(body)
       THEN LET block == BindDisposition(DispositionFormationMaterial(request), body)
            IN  /\ formed' = block
                /\ ContinueWith(AppendTaggedText(text, block))
       ELSE stage' = "failed" /\ UNCHANGED <<text, sizes, formed>>
    /\ UNCHANGED <<request, attempt, raw, recovered, broken>>

FeedbackAnswer(answer) ==
    /\ stage = "feedback"
    /\ recovered' = IF Strip(answer) = <<"NO_CHANGE">> THEN <<>>
                    ELSE NormalizeFeedbackOutput(answer, EligibleFeedbackTargets(request),
                             FeedbackEpisodes(request), FeedbackOutcomes(request))
    /\ FinishWith(AppendTaggedText(text, recovered'))
    /\ UNCHANGED <<request, attempt, raw, formed, broken>>

\* A body that cannot be bound leaves the answer as it is.
RecollectionAnswer(body) ==
    /\ stage = "recollection"
    /\ text' = AppendTaggedText(text, BindPlainRecollections(request, body))
    /\ Reply
    /\ UNCHANGED <<request, attempt, raw, formed, recovered, broken>>

\* The backend's response is not completed or carries no text: complete raises.
ModelFails ==
    /\ stage \in Awaiting
    /\ stage' = "failed"
    /\ broken' = TRUE
    /\ UNCHANGED <<request, text, attempt, sizes, raw, formed, recovered>>

\* Core's Job retry sends the same request again; nothing of the failed call
\* is left in the Worker.
CallAgain ==
    /\ stage = "failed"
    /\ attempt < MaxAttempts
    /\ attempt' = attempt + 1
    /\ stage' = "primary"
    /\ sizes' = <<BuildModelInput(request)>>
    /\ text' = <<>> /\ raw' = <<>> /\ formed' = <<>> /\ recovered' = <<>>
    /\ broken' = FALSE
    /\ UNCHANGED request

WorkerInit ==
    /\ request \in Requests
    /\ stage = "idle"
    /\ text = <<>> /\ raw = <<>> /\ formed = <<>> /\ recovered = <<>>
    /\ attempt = 1
    /\ sizes = <<>>
    /\ broken = FALSE

Answered ==
    \/ \E a \in PrimaryAnswers : PrimaryAnswer(a)
    \/ \E b \in FormationBodies : FormationAnswer(b)
    \/ \E a \in FeedbackAnswers : FeedbackAnswer(a)
    \/ \E b \in RecollectionBodies : RecollectionAnswer(b)

WorkerNext ==
    \/ Call(request)
    \/ Answered
    \/ ModelFails
    \/ CallAgain

WorkerSpec == WorkerInit /\ [][WorkerNext]_workerVars

-----------------------------------------------------------------------------
(***************************************************************************)
(* Properties.                                                             *)
(***************************************************************************)
WorkerTypeOK ==
    /\ request \in Requests
    /\ stage \in Awaiting \cup {"idle", "replied", "failed"}
    /\ attempt \in 1 .. MaxAttempts
    /\ sizes \in Seq(Nat) /\ Len(sizes) <= 4
    /\ broken \in BOOLEAN
    /\ {text, raw, formed, recovered} \subseteq Seq(Line)

\* New Seeds come from one lane only: whatever the model answers to whichever
\* prompt, Core reads no NEW_DISPOSITION ADAPT in the reply, and when the window
\* has a formation anchor every NEW_DISPOSITION TEXT that it reads is the block
\* the formation lane bound to the anchor's and the candidates' evidence.
LanesOwnSeeds ==
    stage = "replied" =>
        \A c \in Changes(text) :
            c.target = "NEW_DISPOSITION" =>
                /\ c.operation # "ADAPT"
                /\ HasDispositionFormationAnchor(request) /\ c.operation = "TEXT" =>
                      c \in Changes(formed)

\* A line TARGET, wherever Python's splitlines finds one, opens a block that
\* Core reads: none is a body, a part of one or the name of a target.
TargetsOpenBlocks(t) ==
    Cardinality({i \in DOMAIN SplitLines(t) : SplitLines(t)[i] = "TARGET"})
        = Len(ParseTaggedText(t).changes)

\* What the repairs and Core read alike: besides, no body holds a line separator
\* of its own, and no blank line comes between TARGET and the target.
ReadAlike(t) ==
    /\ TargetsOpenBlocks(t)
    /\ SplitLines(t) = t
    /\ \A i \in 1 .. Len(t) - 1 : t[i] = "TARGET" => t[i + 1] # Blank

\* No lane costs the window what the model's primary answer said: if Core could
\* read that answer, the Worker's repairs read the same blocks in it and the
\* recovered feedback is readable by itself, then Core reads in the reply every
\* change of it but those on NEW_DISPOSITION (which another lane may own) and on
\* the feedback targets (whose Basis is bound anew), whatever the four prompts
\* were answered with.
AnswerSurvives ==
    /\ stage = "replied"
    /\ ParseTaggedText(raw).ok /\ ReadAlike(raw)
    /\ ParseTaggedText(recovered).ok
    => \A c \in Changes(raw) :
          \/ c.target \in {"NEW_DISPOSITION"} \cup EligibleFeedbackTargets(request)
          \/ c \in Changes(text)

\* A reply that only changes feedback targets, in blocks that the Worker and Core
\* tell apart alike, rests on the window's causal pairs, whatever the model chose
\* as Basis: REENACT on feedback Episodes, TEXT and INHIBIT on Outcomes together
\* with the Episode each of them answers.
FeedbackIsCausal ==
    LET pair == FeedbackOutcomes(request)
        episodes == FeedbackEpisodes(request)
        Causal(c) ==
            LET refs == ToSet(c.basis)
                known == refs \cap DOMAIN pair
            IN  IF c.operation = "REENACT" THEN refs \subseteq episodes
                ELSE known # {} /\ refs = known \cup {pair[o] : o \in known}
    IN  /\ stage = "replied"
        /\ TargetsOpenBlocks(text)
        /\ \A c \in Changes(text) : c.target \in EligibleFeedbackTargets(request)
        => \A c \in Changes(text) : Causal(c)

\* No model call gets more than the configured input: the recovery prompt,
\* which has no check of its own, stays within the primary prompt's size.
InputBound == \A i \in DOMAIN sizes : sizes[i] <= MaxModelInput

\* A call asks the model at most four times, and never with more than it takes.
PromptsJustified == WorkerTypeOK /\ InputBound

=============================================================================
