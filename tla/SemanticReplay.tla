---------------------------- MODULE SemanticReplay ----------------------------
(***************************************************************************)
(* The Worker model of the evaluations: every call is logged, and a call   *)
(* that repeats an earlier one up to the identities Core makes up is       *)
(* answered from that one, with the identities of the new input            *)
(* (eval/python: personamem_live.py).                                      *)
(*                                                                         *)
(* An input is [lines, mems, eps, related, outs]:                          *)
(*   lines        [tag, of, ref] of the ALLOWED_TARGET and ALLOWED_BASIS   *)
(*                lists (of is a word then), and of the DIRECT_EPISODE and *)
(*                REVISION_ANCHOR lines under a memory; in the text order  *)
(*   mems         descriptors [ref, text] of memories                      *)
(*   eps, related Episode blocks [ref, session, body, sources] with        *)
(*                sources [kind, actor, ref]                               *)
(*   outs         Outcomes [ref, episode, kind, actor, text]               *)
(* An output is a sequence of refs, or of words that are no refs.          *)
(***************************************************************************)
EXTENDS SequencesExt, RequestCache

CONSTANTS
    Callers,        \* concurrent calls of the Worker
    Inputs,         \* inputs a call may have
    MemoryRefs,     \* names of the form "seed_...@1" or "recollection_...@1"
    Outputs(_),     \* what the provider may answer to an input
    StrictReplay,   \* --strict-replay, of a process that replays a log
    MaxCalls,       \* bound: calls
    MaxStarts,      \* bound: starts of the process
    Nothing

ASSUME ReplayBounds == IsFiniteSet(Callers) /\ MaxCalls \in Nat /\ MaxStarts \in Nat \ {0}

\* A window shows an Episode, and an Outcome once; Core allows a memory as a target once.
ASSUME InputsWellFormed ==
    \A input \in Inputs :
        /\ input # Nothing /\ input.eps \o input.related # <<>>
        /\ \A n, k \in DOMAIN input.outs : input.outs[n].ref = input.outs[k].ref => n = k
        /\ input.lines \in Seq(ToSet(input.lines)) /\ input.mems \in Seq(ToSet(input.mems))
        /\ input.eps \in Seq(ToSet(input.eps)) /\ input.related \in Seq(ToSet(input.related))
        /\ \A n, k \in DOMAIN input.lines :
               input.lines[n].ref = input.lines[k].ref /\ input.lines[n].ref \in MemoryRefs => n = k

\* A ref has its kind in its name ("episode_...", "outcome_...", "seed_...@1").
ASSUME NamesByKind ==
    \A input \in Inputs :
        LET episodes == {b.ref : b \in ToSet(input.eps) \cup ToSet(input.related)}
            outcomes == {o.ref : o \in ToSet(input.outs)}
        IN  /\ episodes \cap outcomes = {} /\ (episodes \cup outcomes) \cap MemoryRefs = {}
            /\ \A n \in DOMAIN input.mems : input.mems[n].ref \in MemoryRefs

\* What the provider answers is a text, and a marker, which begins with a NUL, is no word of it.
ASSUME OutputsWellFormed ==
    \A input \in Inputs : \A output \in Outputs(input) :
        output # Nothing /\ \A n \in DOMAIN output : output[n][1] # "marker"

VARIABLES
    up,         \* the process runs
    replay,     \* exact replay, loaded at the start: [input -> output], partial
    semantic,   \* semantic replay: [canonical input -> canonical output], partial
    calls,      \* [Callers -> input at the provider or Nothing]
    log,        \* windows.jsonl: sequence of [input, output, error]
    returned,   \* history: [input, output, match, start] of every call that returned
    starts

replayVars == <<up, replay, semantic, calls, log, returned, starts>>

-----------------------------------------------------------------------------
(***************************************************************************)
(* Canonical inputs.                                                       *)
(***************************************************************************)
\* The values of a function, such as the contexts of an identity, as a bag.
BagOf(s) == [c \in ToSet(s) |-> Cardinality({n \in DOMAIN s : s[n] = c})]

\* Variant: an identity always goes by what is said about it.
SemanticMarkersOnly(groups, kind) == [id \in DOMAIN groups |-> <<kind, "semantic", groups[id]>>]

\* _semantic_markers: an identity goes by what is said about it, unless the same
\* is said about another one.
SemanticMarkers(groups, kind) ==
    [id \in DOMAIN groups |->
        IF \E other \in DOMAIN groups \ {id} : groups[other] = groups[id]
        THEN <<kind, "opaque", id>> ELSE <<kind, "semantic", groups[id]>>]

\* The blocks of an input, with their tag.
Blocks(input) ==
    [n \in DOMAIN input.eps |-> <<"EPISODE", input.eps[n]>>]
        \o [n \in DOMAIN input.related |-> <<"RELATED_EPISODE", input.related[n]>>]

\* A block without the identities in it, but with the kinds of its actors.
Signature(b) == <<b[1], b[2].body, [k \in DOMAIN b[2].sources |-> b[2].sources[k].kind]>>

\* What is said about an identity: the contexts it is paired with, as a bag.
Groups(pairs) ==
    [id \in {pairs[n][1] : n \in DOMAIN pairs} |->
        LET said == {n \in DOMAIN pairs : pairs[n][1] = id} IN BagOf([n \in said |-> pairs[n][2]])]

SessionMarkers(input) ==
    LET b == Blocks(input) IN
    SemanticMarkers(Groups([n \in DOMAIN b |-> <<b[n][2].session, Signature(b[n])>>]), "session")

\* The places of the sources of some blocks: <<number of the block, number in the block>>.
Places(b) == UNION {{n} \X DOMAIN b[n][2].sources : n \in DOMAIN b}

SourceAt(b, place) == b[place[1]][2].sources[place[2]]

Context(b, place) == <<Signature(b[place[1]]), place[2]>>

SourceMarkers(input) ==
    LET b == Blocks(input) IN
    SemanticMarkers(Groups([p \in Places(b) |-> <<SourceAt(b, p).ref, Context(b, p)>>]), "source")

\* An actor goes by its kind and its name.
ActorOf(s) == <<s.kind, s.actor>>

ActorMarkers(input) ==
    LET b == Blocks(input) IN
    SemanticMarkers(Groups([p \in Places(b) |-> <<ActorOf(SourceAt(b, p)), Context(b, p)>>]), "actor")

EpisodeMarkers(input) ==
    LET b == Blocks(input)
        session == SessionMarkers(input)
    IN  SemanticMarkers(Groups([n \in DOMAIN b |->
            <<b[n][2].ref, <<Signature(b[n]), session[b[n][2].session]>>>>]), "episode")

MarkerOr(markers, id) == IF id \in DOMAIN markers THEN markers[id] ELSE <<"name", id>>

OutcomeMarkers(input) ==
    LET o == input.outs
        episode == EpisodeMarkers(input)
        actor == ActorMarkers(input)
    IN  SemanticMarkers(Groups([n \in DOMAIN o |->
            <<o[n].ref, <<MarkerOr(actor, ActorOf(o[n])), o[n].text, MarkerOr(episode, o[n].episode)>>>>]), "outcome")

Described(input) == {input.mems[n].ref : n \in DOMAIN input.mems}

\* The lines that name a memory of which nothing is said.
Bare(input) == {n \in DOMAIN input.lines : input.lines[n].ref \in MemoryRefs \ Described(input)}

\* The memories that have a marker once the n-th line is read.
Met(input, n) == Described(input) \cup ({input.lines[k].ref : k \in 1 .. n} \cap MemoryRefs)

\* A memory goes by its text, or else by its turn.
MemoryMarkers(input) ==
    [ref \in Described(input) \cup {input.lines[n].ref : n \in Bare(input)} |->
        IF ref \in Described(input)
        THEN <<"memory", "semantic", {input.mems[n].text : n \in {k \in DOMAIN input.mems : input.mems[k].ref = ref}}>>
        ELSE LET turn == CHOOSE n \in Bare(input) : input.lines[n].ref = ref
             IN  <<"memory", "ordinal", Cardinality(Met(input, turn))>>]

\* Two memories of one text, or one of two texts, cannot be told apart.
Ambiguous(input) ==
    \E n, k \in DOMAIN input.mems :
        (input.mems[n].ref = input.mems[k].ref) # (input.mems[n].text = input.mems[k].text)

Markers(input) == Extended(Extended(EpisodeMarkers(input), OutcomeMarkers(input)), MemoryMarkers(input))

\* The order of the lines, of memories and of related Episodes is not part of a state.
Canonical(input) ==
    LET marker == Markers(input)
        session == SessionMarkers(input)
        source == SourceMarkers(input)
        actor == ActorMarkers(input)
        Block(b) == <<marker[b.ref], session[b.session], b.body,
                      [k \in DOMAIN b.sources |->
                          <<b.sources[k].kind, actor[ActorOf(b.sources[k])], source[b.sources[k].ref]>>]>>
    IN  [lines   |-> BagOf([n \in DOMAIN input.lines |->
                         <<input.lines[n].tag, MarkerOr(marker, input.lines[n].of), MarkerOr(marker, input.lines[n].ref)>>]),
         mems    |-> BagOf([n \in DOMAIN input.mems |-> <<marker[input.mems[n].ref], input.mems[n].text>>]),
         eps     |-> [n \in DOMAIN input.eps |-> Block(input.eps[n])],
         related |-> BagOf([n \in DOMAIN input.related |-> Block(input.related[n])]),
         outs    |-> [n \in DOMAIN input.outs |->
                         <<marker[input.outs[n].ref], MarkerOr(marker, input.outs[n].episode),
                           MarkerOr(actor, ActorOf(input.outs[n])), input.outs[n].text>>]]

Refs(input) == DOMAIN Markers(input)

\* A word of an output that is a ref, of this input or of none.
Unknown(input, output) ==
    LET refs == Refs(input) IN \E n \in DOMAIN output : output[n][1] = "ref" /\ output[n][2] \notin refs

CanonicalOutput(input, output) ==
    LET marker == Markers(input) IN
    [n \in DOMAIN output |-> IF output[n][1] = "ref" THEN <<"marker", marker[output[n][2]]>> ELSE output[n]]

Restored(input, canonical) ==
    LET marker == Markers(input) IN
    [n \in DOMAIN canonical |->
        IF canonical[n][1] = "marker"
        THEN <<"ref", CHOOSE r \in DOMAIN marker : marker[r] = canonical[n][2]>> ELSE canonical[n]]

-----------------------------------------------------------------------------
(***************************************************************************)
(* RecordingWorkerModel.complete.                                          *)
(***************************************************************************)
Record(input, output, error) == log' = Append(log, [input |-> input, output |-> output, error |-> error])

Return(input, output, match) ==
    /\ Record(input, output, FALSE)
    /\ returned' = returned \cup {[input |-> input, output |-> output, match |-> match, start |-> starts]}

\* An exact hit, a semantic hit, a miss that may not be asked, or a question.
Receive(c, input) ==
    /\ up /\ calls[c] = Nothing
    /\ Len(log) + Cardinality({d \in Callers : calls[d] # Nothing}) < MaxCalls
    /\ ~Ambiguous(input)
    /\ IF input \in DOMAIN replay THEN Return(input, replay[input], "exact") /\ UNCHANGED calls
       ELSE IF Canonical(input) \in DOMAIN semantic
       THEN Return(input, Restored(input, semantic[Canonical(input)]), "semantic") /\ UNCHANGED calls
       ELSE IF StrictReplay /\ starts > 1
       THEN Record(input, Nothing, TRUE) /\ UNCHANGED <<calls, returned>>
       ELSE calls' = [calls EXCEPT ![c] = input] /\ UNCHANGED <<log, returned>>
    /\ UNCHANGED <<up, replay, semantic, starts>>

\* Variant: the answer that comes last wins.
ConflictsNever(input, output) == FALSE

\* Another call of the same state was answered meanwhile, and otherwise.
Conflicts(input, output) ==
    /\ Canonical(input) \in DOMAIN semantic
    /\ semantic[Canonical(input)] # CanonicalOutput(input, output)

\* The provider answers: the output is logged even if it is refused.
Reply(c, output) ==
    /\ up /\ calls[c] # Nothing
    /\ LET input == calls[c] IN
       /\ output \in Outputs(input)
       /\ IF Unknown(input, output) \/ Conflicts(input, output)
          THEN Record(input, output, TRUE) /\ UNCHANGED <<semantic, returned>>
          ELSE /\ Return(input, output, "none")
               /\ semantic' = With(semantic, Canonical(input), CanonicalOutput(input, output))
    /\ calls' = [calls EXCEPT ![c] = Nothing]
    /\ UNCHANGED <<up, replay, starts>>

\* The call is cancelled, or the provider fails.
Cancel(c) ==
    /\ up /\ calls[c] # Nothing
    /\ Record(calls[c], Nothing, TRUE)
    /\ calls' = [calls EXCEPT ![c] = Nothing]
    /\ UNCHANGED <<up, replay, semantic, returned, starts>>

-----------------------------------------------------------------------------
(***************************************************************************)
(* The process ends, and another one replays its log.                      *)
(***************************************************************************)
\* load_worker_replay: the records that have an output.
Loaded == {n \in DOMAIN log : log[n].output # Nothing}

\* What makes it, or the canonicalisation of what it has loaded, refuse the log.
Refused ==
    \/ \E n, k \in Loaded : log[n].input = log[k].input /\ log[n].output # log[k].output
    \/ \E n \in Loaded : Unknown(log[n].input, log[n].output)
    \/ \E n, k \in Loaded : /\ Canonical(log[n].input) = Canonical(log[k].input)
                            /\ CanonicalOutput(log[n].input, log[n].output)
                                  # CanonicalOutput(log[k].input, log[k].output)

Stop == up /\ up' = FALSE /\ calls' = [c \in Callers |-> Nothing]
           /\ UNCHANGED <<replay, semantic, log, returned, starts>>

Start ==
    /\ ~up /\ starts < MaxStarts /\ ~Refused
    /\ up' = TRUE /\ starts' = starts + 1
    /\ replay' = [i \in {log[n].input : n \in Loaded} |->
                     log[CHOOSE n \in Loaded : log[n].input = i].output]
    /\ semantic' = [s \in {Canonical(log[n].input) : n \in Loaded} |->
                       LET n == CHOOSE k \in Loaded : Canonical(log[k].input) = s IN
                       CanonicalOutput(log[n].input, log[n].output)]
    /\ UNCHANGED <<calls, log, returned>>

ReplayInit ==
    /\ up = TRUE /\ starts = 1
    /\ replay = <<>> /\ semantic = <<>>
    /\ calls = [c \in Callers |-> Nothing]
    /\ log = <<>> /\ returned = {}

ReplayNext ==
    \/ \E c \in Callers, input \in Inputs : Receive(c, input)
    \/ \E c \in Callers : \E output \in (IF calls[c] = Nothing THEN {} ELSE Outputs(calls[c])) : Reply(c, output)
    \/ \E c \in Callers : Cancel(c)
    \/ Stop \/ Start

ReplaySpec == ReplayInit /\ [][ReplayNext]_replayVars

-----------------------------------------------------------------------------
\* The shape of the state; the memories of a question can be told apart by their
\* text, so that an answer about one can be restored.
ReplayTypeOK ==
    /\ starts \in 1 .. MaxStarts /\ Len(log) <= MaxCalls
    /\ \A c \in Callers : calls[c] \in Inputs \cup {Nothing}
    /\ \A r \in returned : r.match \in {"none", "exact", "semantic"} /\ r.start <= starts
    /\ \A c \in Callers : calls[c] # Nothing =>
           \A n, k \in DOMAIN calls[c].mems :
               calls[c].mems[n].text = calls[c].mems[k].text => calls[c].mems[n].ref = calls[c].mems[k].ref

\* The names of an input by their sort; a renaming maps each sort to itself.
Sorts(input) ==
    <<DOMAIN EpisodeMarkers(input), DOMAIN OutcomeMarkers(input), DOMAIN MemoryMarkers(input),
      DOMAIN SessionMarkers(input), DOMAIN SourceMarkers(input), DOMAIN ActorMarkers(input)>>

Renamings(from, to) ==
    [refs : {Extended(Extended(f[1], f[2]), f[3]) :
                f \in Bijection(from[1], to[1]) \X Bijection(from[2], to[2]) \X Bijection(from[3], to[3])},
     sessions : Bijection(from[4], to[4]), sources : Bijection(from[5], to[5]), actors : Bijection(from[6], to[6])]

NameIn(g, id) == IF id \in DOMAIN g THEN g[id] ELSE id

Renamed(input, f) ==
    LET Block(b) == <<NameIn(f.refs, b.ref), NameIn(f.sessions, b.session), b.body,
                      [k \in DOMAIN b.sources |->
                          <<b.sources[k].kind, NameIn(f.actors, ActorOf(b.sources[k])),
                            NameIn(f.sources, b.sources[k].ref)>>]>>
    IN  [lines   |-> BagOf([n \in DOMAIN input.lines |->
                         <<input.lines[n].tag, NameIn(f.refs, input.lines[n].of), NameIn(f.refs, input.lines[n].ref)>>]),
         mems    |-> BagOf([n \in DOMAIN input.mems |->
                         <<NameIn(f.refs, input.mems[n].ref), input.mems[n].text>>]),
         eps     |-> [n \in DOMAIN input.eps |-> Block(input.eps[n])],
         related |-> BagOf([n \in DOMAIN input.related |-> Block(input.related[n])]),
         outs    |-> [n \in DOMAIN input.outs |->
                         <<NameIn(f.refs, input.outs[n].ref), NameIn(f.refs, input.outs[n].episode),
                           NameIn(f.actors, ActorOf(input.outs[n])), input.outs[n].text>>]]

SameNames == [refs |-> <<>>, sessions |-> <<>>, sources |-> <<>>, actors |-> <<>>]

RenamedOutput(output, f) ==
    [n \in DOMAIN output |-> IF output[n][1] = "ref" THEN <<"ref", f.refs[output[n][2]]>> ELSE output[n]]

\* "Alpha-rename Core evidence identities without erasing their graph": a semantic
\* hit is an answer to the same window under other names, and its refs are
\* the ones that have the same place in the new window.
RestoredIsRenaming ==
    \A hit \in {r \in returned : r.match = "semantic"} :
        \E origin \in {r \in returned : r.match = "none"} :
            \E f \in Renamings(Sorts(origin.input), Sorts(hit.input)) :
                /\ Renamed(origin.input, f) = Renamed(hit.input, SameNames)
                /\ RenamedOutput(origin.output, f) = hit.output

\* In one process a memory state has one answer, whoever asks for it and however the
\* calls overlap.
OneAnswerPerState ==
    \A r, s \in returned :
        r # s /\ r.start = s.start /\ Canonical(r.input) = Canonical(s.input) =>
            CanonicalOutput(r.input, r.output) = CanonicalOutput(s.input, s.output)

\* What is replayed is what a call returned: an answer that was refused is never
\* given to a later process.
OnlyCompletedReplayed ==
    \A i \in DOMAIN replay : \E r \in returned : r.input = i /\ r.output = replay[i]

\* The replay of a process is consistent: it holds answers that were returned, and
\* gives one of them to each memory state.
ReplayInv == ReplayTypeOK /\ OneAnswerPerState /\ OnlyCompletedReplayed

=============================================================================
