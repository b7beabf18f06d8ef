------------------------------- MODULE MCWorker -------------------------------
(***************************************************************************)
(* Small instances of Worker: a handful of windows and of model answers.   *)
(***************************************************************************)
EXTENDS Worker

Src(ref, role, actor) == [ref |-> ref, role |-> role, actor |-> actor]
Turn(n) == <<Src("u" \o n, "situation", "user"), Src("a" \o n, "agent_act", "agent")>>
Ep(n, session, origin, role) ==
    [ref |-> "e" \o n, session |-> session, origin |-> origin, role |-> role,
     sources |-> Turn(n)]
Out(n, actor) == [ref |-> "o" \o n, episode |-> "e" \o n, actor |-> actor]

\* A first window of one Episode: nothing to revise, no feedback.
Plain ==
    [typed |-> TRUE, window |-> 2, targets |-> <<"NEW_RECOLLECTION", "NEW_DISPOSITION">>,
     basis |-> <<"e1", "o1">>, eligible |-> <<>>, feedbackEpisodes |-> <<>>,
     feedbackOutcomes |-> <<>>, newApplications |-> <<>>,
     episodes |-> <<Ep("1", "s1", "current", Blank)>>, outcomes |-> <<>>,
     recollections |-> <<>>]

\* Two sessions with an Outcome each: the window can form a Disposition.
Formation ==
    [Plain EXCEPT !.basis = <<"e1", "o1", "e2", "o2">>, !.newApplications = <<"SELF">>,
        !.episodes = <<Ep("1", "s1", "current", "anchor"), Ep("2", "s2", "related", "candidate")>>,
        !.outcomes = <<Out("1", "user"), Out("2", "user")>>]

\* An existing Disposition was enacted; its Outcome is known.
Feedback ==
    [Plain EXCEPT !.targets = <<"NEW_RECOLLECTION", "NEW_DISPOSITION", "d1", "d2", "r1">>,
        !.eligible = <<"d1", "d2">>, !.feedbackEpisodes = <<"e1">>,
        !.feedbackOutcomes = <<<<"o1", "e1">>>>, !.recollections = <<"r1">>]

Both == [Formation EXCEPT !.targets = <<"NEW_RECOLLECTION", "NEW_DISPOSITION", "d1">>,
             !.eligible = <<"d1">>, !.feedbackEpisodes = <<"e1">>,
             !.feedbackOutcomes = <<<<"o1", "e1">>, <<"o2", Blank>>>>]

\* Three experiences: too much for the focused prompts, not for the primary one.
Crowded ==
    [Formation EXCEPT !.basis = <<"e1", "o1", "e2", "o2", "e3", "o3">>,
        !.episodes = <<Ep("1", "s1", "current", "anchor"), Ep("2", "s2", "current", "candidate"),
                       Ep("3", "s3", "current", "candidate")>>,
        !.outcomes = <<Out("1", "user"), Out("2", "user"), Out("3", "user")>>]

Windows ==
    {Plain, Formation, Feedback, Both, Crowded,
     [Plain EXCEPT !.typed = FALSE],                                  \* an old request
     [Plain EXCEPT !.window = 9],                                     \* too large
     [Formation EXCEPT !.outcomes = <<Out("1", "user")>>],            \* an unpaired candidate
     [Formation EXCEPT !.outcomes = <<Out("1", "agent"), Out("2", "user")>>],
     [Formation EXCEPT !.episodes[2].session = "s1"],                 \* one session only
     [Formation EXCEPT !.episodes[2].sources = <<Src("u1", "situation", "tool"),
                                                 Src("a2", "agent_act", "agent")>>,
                       !.episodes[2].session = "s1"]}                 \* a source of two authors

-----------------------------------------------------------------------------
Block(target, application, change, basis) ==
    <<"TARGET", target, "APPLICATION", application, "CHANGE">> \o change \o <<"BASIS">> \o basis

Remember == Block("NEW_RECOLLECTION", "OTHER", <<"TEXT", "a body">>, <<"e1">>)
Revise == Block("r1", "OTHER", <<"TEXT", "another body">>, <<"e1">>)
Adapt == Block("NEW_DISPOSITION", "SELF", <<"ADAPT", "a body">>, <<"e1">>)
AdaptInline == Block("NEW_DISPOSITION", "SELF", <<"ADAPT inline body">>, <<"e1">>)
Infer == Block("NEW_DISPOSITION", "SELF", <<"TEXT", "a body">>, <<"e1", "e2">>)
Reenact == Block("d1", "SELF", <<"REENACT">>, <<"e1", "o1", "e2">>)
Inhibit == Block("d1", "SELF", <<"INHIBIT">>, <<"o1">>)
Retext == Block("d2", "SELF", <<"TEXT", "a body">>, <<"o1", "e1">>)
Keep == Block("r1", "OTHER", <<"KEEP">>, <<"e1">>)
\* Core and the repairs read these differently: a body with a line separator, a
\* body that is a marker, a blank line inside a header.
Halves == Block("NEW_RECOLLECTION", "OTHER", <<"TEXT", "first half<LS>second half">>, <<"e1">>)
Marker == Block("NEW_RECOLLECTION", "OTHER", <<"TEXT", "TARGET">>, <<"e1">>)
MarkerFeedback == Block("d2", "SELF", <<"TEXT", "TARGET">>, <<"e1">>)
Spread(block) == InsertAt(block, 2, Blank)

Answers ==
    {<<"NO_CHANGE">>, <<"prose">>, <<>>,
     Remember, Revise, Keep, Adapt, AdaptInline, Infer, Reenact, Inhibit, Retext,
     Tail(Remember), Tail(Infer),
     <<"TARGET", "NEW_DISPOSITION", "APPLICATION SELF", "CHANGE", "TEXT", "a body", "BASIS", "e1">>,
     SubSeq(Adapt, 1, 6),
     Remember \o Adapt, Adapt \o Remember, Infer \o Remember \o AdaptInline,
     Remember \o Infer, Reenact \o Remember, Remember \o Retext, Reenact \o Retext,
     Infer \o SubSeq(Adapt, 1, 7), <<"prose">> \o Adapt,
     Remember \o <<"e1">>, Remember \o <<"BASIS", "e1", "o1">>, Remember \o <<"BASIS">>,
     Remember \o Remember,
     Halves, Halves \o Adapt, Marker, Marker \o Adapt, MarkerFeedback, Reenact \o MarkerFeedback,
     Spread(Remember), Spread(Reenact), Spread(Inhibit) \o Remember, Spread(Adapt) \o Revise}

FocusedBodies ==
    {<<"NO_CHANGE">>, <<"a body">>, <<"prose", Blank>>, <<"TARGET">>,
     <<"first half<LS>second half">>}
\* The last three: a target twice, an unknown scope, a body that is a marker.
RecoveryAnswers ==
    {<<"NO_CHANGE">>, Reenact, Inhibit, Reenact \o Retext, Remember, <<"prose">>,
     Spread(Inhibit), Reenact \o Inhibit, [Reenact EXCEPT ![4] = "KEEP"], MarkerFeedback}
FallbackBodies ==
    {<<"NO_MEMORY">>, <<"a body">>, <<"a body", "another body", "a body">>,
     <<"a body", "NO_MEMORY">>, <<"TARGET">>, <<"first half<LS>second half">>, <<>>}

AllLines ==
    Keywords \cup Scopes \cup NewTargets \cup Spaced
        \cup {"e1", "e2", "e3", "o1", "o2", "o3", "d1", "d2", "r1"}
AllNames ==
    {Blank, "s1", "s2", "s3", "u1", "u2", "u3", "a1", "a2", "a3", "situation", "agent_act",
     "user", "agent", "tool", "current", "related", "anchor", "candidate"}

=============================================================================
