------------------------------ MODULE TaggedText ------------------------------
(***************************************************************************)
(* The text protocol between the inference Worker and Core, and the        *)
(* mechanical repairs that the reference Worker makes to a model's answer  *)
(* (worker/python/src/memory_core_worker/service.py).                      *)
(*                                                                         *)
(* A text is a sequence of lines and a line is one token: what the parsers *)
(* compare is whole lines.  Blank is a line of white space.  Three kinds   *)
(* of lines have parts of their own: "APPLICATION scope" on one line,      *)
(* "TEXT body" or "ADAPT body" on one line, and a body that holds a        *)
(* Unicode line separator, which Python's str.splitlines breaks in two and *)
(* Core, which only splits at LF, does not.                                *)
(***************************************************************************)
EXTENDS SequencesExt

CONSTANTS
    MaxTaggedLines,     \* MAX_TAGGED_TEXT_BYTES, counted in lines
    Line                \* the lines that texts are made of

ASSUME MaxTaggedLinesAssumption == MaxTaggedLines \in Nat \ {0}

Blank == ""
Scopes == {"SELF", "OTHER", "RELATION", "SITUATION"}
NewTargets == {"NEW_RECOLLECTION", "NEW_DISPOSITION"}

\* Lines that hold a marker and its value.
InlineApplication ==
    [line \in {"APPLICATION SELF", "APPLICATION RELATION"} |->
        IF line = "APPLICATION SELF" THEN "SELF" ELSE "RELATION"]
InlineChange ==
    [line \in {"TEXT inline body", "ADAPT inline body"} |->
        IF line = "TEXT inline body" THEN "TEXT" ELSE "ADAPT"]
\* A body with a Unicode line separator in it.
Separated == [line \in {"first half<LS>second half"} |-> <<"first half", "second half">>]
\* Bodies: lines with spaces in them, so no references.
Bodies == {"a body", "another body", "prose", "first half", "second half"}
          \cup DOMAIN Separated

Spaced == Bodies \cup DOMAIN InlineApplication \cup DOMAIN InlineChange \cup {Blank}

Keywords == {"TARGET", "APPLICATION", "CHANGE", "TEXT", "ADAPT", "KEEP", "REENACT",
             "INHIBIT", "BASIS", "NO_CHANGE", "NO_MEMORY"}

ASSUME LineAssumption == Keywords \cup Scopes \cup NewTargets \cup Spaced \subseteq Line

-----------------------------------------------------------------------------
(***************************************************************************)
(* Helpers of both sides.                                                  *)
(***************************************************************************)
\* The elements of s at the given positions, in order.
Sublist(s, positions) ==
    FlattenSeq([i \in DOMAIN s |-> IF i \in positions THEN <<s[i]>> ELSE <<>>])

Meaningful(text) == Sublist(text, {i \in DOMAIN text : text[i] # Blank})

SplitLine(line) == IF line \in DOMAIN Separated THEN Separated[line] ELSE <<line>>
SplitLines(text) == FlattenSeq([i \in DOMAIN text |-> SplitLine(text[i])])

RStrip(text) ==
    SubSeq(text, 1, Max({0} \cup {i \in DOMAIN text : text[i] # Blank}))

Strip(text) ==
    LET first == Min({Len(text) + 1} \cup {i \in DOMAIN text : text[i] # Blank})
    IN  RStrip(SubSeq(text, first, Len(text)))

OrderedUnique(refs) ==
    Sublist(refs, {i \in DOMAIN refs : \A j \in 1 .. i - 1 : refs[j] # refs[i]})

\* The first line at or after k that opens a block, or the end of the text.
NextTarget(lines, k) ==
    Min({Len(lines) + 1} \cup {j \in k .. Len(lines) : lines[j] = "TARGET"})

HasHeader(lines, k) ==
    /\ lines[k] = "TARGET"
    /\ lines[k + 2] = "APPLICATION"
    /\ lines[k + 4] = "CHANGE"

-----------------------------------------------------------------------------
(***************************************************************************)
(* Core's reader of an answer (internal/core/consolidation/parser.go).     *)
(***************************************************************************)
ReservedBasis == {"TARGET", "APPLICATION", "CHANGE", "BASIS", "NEW"} \cup NewTargets

StableRef(line) == line \notin Spaced
StableBasisRef(line) == StableRef(line) /\ line \notin ReservedBasis

Rejected == [ok |-> FALSE, changes |-> <<>>]

\* The block that starts at line k, with at least eight lines left.
ParseBlock(lines, k) ==
    LET operationLine == lines[k + 5]
        onOwnLine == operationLine \in {"TEXT", "ADAPT"}
        inline == operationLine \in DOMAIN InlineChange
        operation == IF inline THEN InlineChange[operationLine] ELSE operationLine
        body == CASE onOwnLine -> lines[k + 6] [] inline -> operationLine [] OTHER -> Blank
        marker == IF onOwnLine THEN k + 7 ELSE k + 6
        end == NextTarget(lines, marker + 1)
        basis == SubSeq(lines, marker + 1, end - 1)
    IN  [ok |-> /\ HasHeader(lines, k)
                /\ lines[k + 1] \in NewTargets \/ (StableRef(lines[k + 1]) /\ lines[k + 1] # "NEW")
                /\ lines[k + 3] \in Scopes
                /\ onOwnLine \/ inline \/ operation \in {"KEEP", "REENACT", "INHIBIT"}
                /\ lines[marker] = "BASIS"
                /\ basis # <<>>
                /\ \A i \in DOMAIN basis : StableBasisRef(basis[i])
                /\ IsInjective(basis),
         end |-> end,
         change |-> [target |-> lines[k + 1], application |-> lines[k + 3],
                     operation |-> operation, text |-> body, basis |-> basis]]

\* Blocks one after the other; no existing target twice.
ParseLines(lines) ==
    LET from[k \in 1 .. Len(lines) + 1] ==
            IF k = Len(lines) + 1 THEN [ok |-> TRUE, changes |-> <<>>]
            ELSE IF Len(lines) - k < 7 THEN Rejected
            ELSE LET block == ParseBlock(lines, k)
                     rest == from[block.end]
                 IN  IF /\ block.ok
                        /\ rest.ok
                        /\ \/ block.change.target \in NewTargets
                           \/ \A i \in DOMAIN rest.changes :
                                  rest.changes[i].target # block.change.target
                     THEN [ok |-> TRUE, changes |-> <<block.change>> \o rest.changes]
                     ELSE Rejected
    IN  from[1]

\* An answer that does not parse counts as no change at all.
ParseTaggedText(text) ==
    IF Len(text) > MaxTaggedLines THEN Rejected ELSE ParseLines(Meaningful(text))

Changes(text) == ToSet(ParseTaggedText(text).changes)

-----------------------------------------------------------------------------
(***************************************************************************)
(* The Worker's repairs of the model's answer.                             *)
(***************************************************************************)

\* Positions of the lines that are not blank, in order.
MeaningfulAt(text) ==
    Sublist([i \in DOMAIN text |-> i], {i \in DOMAIN text : text[i] # Blank})

\* "APPLICATION scope" copied from the window becomes two lines, once, inside
\* the header of an offered target.
SplitCopiedInlineApplication(text, allowed) ==
    LET at == MeaningfulAt(text)
        Copied(n) == /\ text[at[n]] \in DOMAIN InlineApplication
                     /\ n > 1 /\ n < Len(at)
                     /\ text[at[n - 1]] \in allowed
                     /\ text[at[n + 1]] = "CHANGE"
        hits == {n \in DOMAIN at : Copied(n)}
        hit == at[Min(hits)]
    IN  IF hits = {} THEN text
        ELSE SubSeq(text, 1, hit - 1)
             \o <<"APPLICATION", InlineApplication[text[hit]]>>
             \o SubSeq(text, hit + 1, Len(text))

\* A NEW block that starts the answer without its TARGET line gets it back.
RestoreInitialNewTarget(text, allowed) ==
    LET at == MeaningfulAt(text)
    IN  IF /\ Len(at) >= 2
           /\ text[at[1]] \in NewTargets \cap allowed
           /\ text[at[2]] = "APPLICATION"
        THEN InsertAt(text, at[1], "TARGET")
        ELSE text

\* A redundant BASIS label has to be followed by offered refs up to the block's end.
CompleteBasisTail(lines, allowed) ==
    LET tail == Meaningful(SubSeq(lines, 1, NextTarget(lines, 1) - 1))
    IN  /\ tail # <<>>
        /\ \A i \in DOMAIN tail :
              \/ tail[i] \in allowed
              \/ tail[i] = "BASIS" /\ i > 1 /\ tail[i - 1] \in allowed
        /\ Last(tail) \in allowed

\* Offered refs repeated in one BASIS list are dropped, and so are repeated
\* labels.  "seen" is the set of refs of the current list; off: no list.
DeduplicateBasis(text, allowed) ==
    LET read[i \in 0 .. Len(text)] ==
            IF i = 0 THEN [on |-> FALSE, seen |-> {}, lines |-> <<>>]
            ELSE LET acc == read[i - 1]
                     line == text[i]
                     Keep(on, refs) == [on |-> on, seen |-> refs, lines |-> Append(acc.lines, line)]
                 IN  CASE line = "TARGET" -> Keep(FALSE, {})
                       [] line = "BASIS" ->
                            IF /\ acc.seen # {}
                               /\ CompleteBasisTail(SubSeq(text, i + 1, Len(text)), allowed)
                            THEN acc ELSE Keep(TRUE, {})
                       [] acc.on /\ line \in allowed ->
                            IF line \in acc.seen THEN acc ELSE Keep(TRUE, acc.seen \cup {line})
                       [] line = Blank -> Keep(acc.on, acc.seen)
                       [] OTHER -> Keep(FALSE, {})
    IN  read[Len(text)].lines

\* The operation a line of a block names.
OperationOf(line) == IF line \in DOMAIN InlineChange THEN InlineChange[line] ELSE line

OwnedBlockAt(lines, k, ops) ==
    /\ k + 5 <= Len(lines)
    /\ HasHeader(lines, k)
    /\ lines[k + 1] = "NEW_DISPOSITION"
    /\ OperationOf(lines[k + 5]) \in ops

\* Complete NEW_DISPOSITION blocks of the given operations are removed; a text
\* that holds one and is malformed is given up.  The lines are Python's.
RemoveNewDispositionChanges(text, ops) ==
    LET lines == SplitLines(text)
        values == Meaningful(lines)
        starts == {i \in DOMAIN lines : lines[i] = "TARGET"}
        Block(i) == SubSeq(lines, i, NextTarget(lines, i + 1) - 1)
        WellFormed(block) == Len(block) >= 7 /\ HasHeader(block, 1)
        Kept(i) == i \in starts /\ ~OwnedBlockAt(Meaningful(Block(i)), 1, ops)
    IN  IF \A k \in DOMAIN values : ~OwnedBlockAt(values, k, ops) THEN text
        ELSE IF \/ Meaningful(SubSeq(lines, 1, NextTarget(lines, 1) - 1)) # <<>>
                \/ \E i \in starts : ~WellFormed(Meaningful(Block(i)))
             THEN <<>>
             ELSE Strip(FlattenSeq([i \in DOMAIN lines |-> IF Kept(i) THEN Block(i) ELSE <<>>]))

\* Variant: the combined text is not measured.
AppendUnmeasured(primary, addition) == RStrip(primary) \o addition

AppendTaggedText(primary, addition) ==
    LET combined == RStrip(primary) \o addition
    IN  IF addition = <<>> \/ Len(combined) > MaxTaggedLines THEN primary ELSE combined

ContainsTargetBlock(text, targets) ==
    LET lines == SplitLines(text)
    IN  \E i \in 1 .. Len(lines) - 1 : lines[i] = "TARGET" /\ lines[i + 1] \in targets

ContainsOnlyTargetBlocks(text, targets) ==
    LET lines == Meaningful(SplitLines(text))
        heads == {i \in 1 .. Len(lines) - 1 : lines[i] = "TARGET"}
    IN  heads # {} /\ \A i \in heads : lines[i + 1] \in targets

\* The feedback block at line k with its Basis bound to the Episode and Outcome
\* pairs of the window.
BoundBlock(lines, k, targets, episodes, outcomeEpisode) ==
    LET operation == lines[k + 5]
        marker == IF operation = "TEXT" THEN k + 7 ELSE k + 6
        end == NextTarget(lines, marker + 1)
        raw == SubSeq(lines, marker + 1, end - 1)
        Chosen(refs) == OrderedUnique(Sublist(raw, {i \in DOMAIN raw : raw[i] \in refs}))
        chosen == Chosen(DOMAIN outcomeEpisode)
        basis == IF operation = "REENACT" THEN Chosen(episodes)
                 ELSE OrderedUnique(FlattenSeq([i \in DOMAIN chosen |->
                          <<outcomeEpisode[chosen[i]], chosen[i]>>]))
    IN  [ok |-> /\ HasHeader(lines, k)
                /\ lines[k + 1] \in targets
                /\ operation \in {"TEXT", "REENACT", "INHIBIT"}
                /\ operation = "TEXT" => lines[k + 6] # "BASIS"
                /\ marker <= Len(lines) /\ lines[marker] = "BASIS"
                /\ operation # "REENACT" =>
                      \A i \in DOMAIN chosen : outcomeEpisode[chosen[i]] \in episodes
                /\ basis # <<>>,
         end |-> end,
         block |-> SubSeq(lines, k, marker) \o basis]

\* Feedback blocks one after the other; anything else in the text gives it up.
NormalizeFeedbackOutput(text, targets, episodes, outcomeEpisode) ==
    LET lines == Meaningful(SplitLines(text))
        from[k \in 1 .. Len(lines) + 1] ==
            IF k = Len(lines) + 1 THEN [ok |-> TRUE, text |-> <<>>]
            ELSE IF Len(lines) - k < 7 THEN [ok |-> FALSE, text |-> <<>>]
            ELSE LET bound == BoundBlock(lines, k, targets, episodes, outcomeEpisode)
                     rest == from[bound.end]
                 IN  IF bound.ok /\ rest.ok
                     THEN [ok |-> TRUE, text |-> bound.block \o rest.text]
                     ELSE [ok |-> FALSE, text |-> <<>>]
    IN  from[1].text

=============================================================================
