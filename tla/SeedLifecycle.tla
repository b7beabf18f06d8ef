---------------------------- MODULE SeedLifecycle ----------------------------
(***************************************************************************)
(* The lifecycle gate: a Seed is formed over a few turns, and then four    *)
(* cases probe which of them may change it: one without a delivery, a      *)
(* complete positive one, one without an Outcome and a complete negative   *)
(* one (eval/python: seed_lifecycle.py).  The cases share one Seed; each   *)
(* compares the basis links before and after it.                           *)
(***************************************************************************)
EXTENDS Settling, RequestCache

CONSTANTS
    Turns,          \* the formation turns
    Replies,        \* what the model may say
    MaxCrashes,     \* bound: crashes of the Harness
    None

Cases == <<"no_delivery", "positive_complete", "no_outcome", "negative_complete">>
Delivers(case) == case # "no_delivery"
HasOutcome(case) == case # "no_outcome"

ASSUME LifecycleAssumption ==
    /\ MaxCrashes \in Nat
    /\ Turns \in Seq(ToSet(Turns)) /\ Len(Turns) >= 2
    /\ ToSet(Turns) \cap ToSet(Cases) = {}

\* There is no verdict yet.
ASSUME NoneIsFresh == None \notin {"passed", "failed"}

VARIABLES
    pc,         \* "form", "formed", "select", "act", "outcome", "settle", "delayed", "freeze", "done"
    at,         \* turn or case at work
    before,     \* memory state before the case
    formedAt,   \* Episodes the formation took
    case,       \* [rendered, option, after, delayed] of the case at work
    files,      \* case results on disk
    verdict,    \* summary.json
    observed,   \* what Core has taken in: deliveries, acts and Outcomes, by Episode
    chosen,     \* contexts Core has frozen, replies on disk: [case -> ...], partial
    crashes

harness == <<pc, at, before, formedAt, case>>
disk == <<files, verdict>>
world == <<observed, chosen, crashes>>
vars == <<core, wait, seen, harness, disk, world>>

NoCase == [rendered |-> <<>>, option |-> None, after |-> None, delayed |-> <<>>]

-----------------------------------------------------------------------------
\* An event that Core has seen already is a replay and changes nothing.
Observe(event, e) ==
    /\ observed' = observed \cup {event}
    /\ IF event \in observed THEN UNCHANGED core ELSE Enqueue(e)

\* An exception ends the suite and the gate has failed.
Fails ==
    /\ verdict' = "failed" /\ pc' = "done" /\ wait' = "idle" /\ seen' = NotSeen
    /\ at' = 1 /\ before' = None /\ formedAt' = 0 /\ case' = NoCase
    /\ UNCHANGED <<core, files, world>>

\* _form_lifecycle_seed: one complete turn, then wait.
FormTurn ==
    /\ pc = "form" /\ at <= Len(Turns)
    /\ Observe(<<"act", Turns[at]>>, Turns[at])
    /\ BeginSettle
    /\ pc' = "formed"
    /\ UNCHANGED <<at, before, formedAt, case, disk, chosen, crashes>>

\* Variant: the delayed question counts as an Episode.
ExpectedDelayed == IF pc = "formed" THEN at ELSE formedAt + 2 * at

\* Episodes the settled owner must have.
Expected == IF pc = "formed" THEN at ELSE formedAt + at

\* Settled after a turn: formed, or another turn.
Formed ==
    /\ pc = "formed"
    /\ Settles(Expected)
    /\ before' = MemoryState
    /\ IF at >= 2 /\ seed.active
       THEN pc' = "select" /\ at' = 1 /\ formedAt' = at
       ELSE pc' = "form" /\ at' = at + 1 /\ UNCHANGED formedAt
    /\ UNCHANGED <<core, case, disk, world>>

FormationFails == pc = "form" /\ at > Len(Turns) /\ Fails

\* A case that is on disk cannot be run again; a Seed must be active.
CaseRefused ==
    /\ pc = "select"
    /\ Cases[at] \in DOMAIN files \/ ~before.active
    /\ Fails

\* The probe's Select is frozen under its run_ref; what is not rendered fails the case.
\* The delivery is recorded, if the case has one, before the model is asked.
SelectProbe ==
    /\ pc = "select" /\ Cases[at] \notin DOMAIN files /\ before.active
    /\ LET context == IF Cases[at] \in DOMAIN chosen THEN chosen[Cases[at]].context ELSE Selectable IN
       IF context = <<>> THEN Fails
       ELSE /\ case' = [NoCase EXCEPT !.rendered = context]
            /\ \E option \in IF Cases[at] \in DOMAIN chosen THEN {chosen[Cases[at]].option}
                             ELSE Replies :
                  chosen' = With(chosen, Cases[at], [context |-> context, option |-> option])
            /\ observed' = observed \cup (IF Delivers(Cases[at]) THEN {<<"delivery", Cases[at]>>} ELSE {})
            /\ pc' = "act"
            /\ UNCHANGED <<core, wait, seen, at, before, formedAt, disk, crashes>>

\* The option the model took is acted on; the act closes the Episode.
ObserveAct ==
    /\ pc = "act"
    /\ LET option == chosen[Cases[at]].option IN
       IF option \notin {"A", "B"} THEN Fails
       ELSE /\ case' = [case EXCEPT !.option = option]
            /\ Observe(<<"act", Cases[at]>>, Cases[at])
            /\ pc' = "outcome"
            /\ UNCHANGED <<wait, seen, at, before, formedAt, disk, chosen, crashes>>

ReportOutcome ==
    /\ pc = "outcome"
    /\ IF HasOutcome(Cases[at]) THEN Observe(<<"outcome", Cases[at]>>, Cases[at])
       ELSE UNCHANGED <<core, observed>>
    /\ BeginSettle
    /\ pc' = "settle"
    /\ UNCHANGED <<at, before, formedAt, case, disk, chosen, crashes>>

SettleCase ==
    /\ pc = "settle"
    /\ Settles(Expected)
    /\ case' = [case EXCEPT !.after = MemoryState]
    /\ pc' = "delayed"
    /\ UNCHANGED <<core, at, before, formedAt, disk, world>>

\* A later, unbound question: what would be selected now.
SelectDelayed ==
    /\ pc = "delayed"
    /\ case' = [case EXCEPT !.delayed = Selectable]
    /\ pc' = "freeze"
    /\ UNCHANGED <<core, wait, seen, at, before, formedAt, disk, world>>

\* _basis_delta: the links of these roles that are new.
BasisDelta(b, a, roles) == {l \in a.links \ b.links : l.role \in roles}

FreezeCase ==
    /\ pc = "freeze"
    /\ files' = With(files, Cases[at],
                    [expressed |-> case.option = "A",
                     reenacted |-> BasisDelta(before, case.after, {"reenactment"}) # {},
                     revised   |-> BasisDelta(before, case.after, {"revision", "inhibition"}) # {},
                     changed   |-> case.rendered # case.delayed])
    /\ before' = case.after /\ case' = NoCase
    /\ IF at < Len(Cases) THEN pc' = "select" /\ at' = at + 1 ELSE pc' = "summary" /\ UNCHANGED at
    /\ UNCHANGED <<core, wait, seen, formedAt, verdict, world>>

\* Variant: the control without a delivery is not looked at.
PassedUncontrolled ==
    /\ \A c \in ToSet(Cases) : files[c].expressed
    /\ files["positive_complete"].reenacted
    /\ ~files["no_outcome"].revised
    /\ files["negative_complete"].revised /\ files["negative_complete"].changed

\* summarize_lifecycle
Passed ==
    /\ \A c \in ToSet(Cases) : files[c].expressed
    /\ files["positive_complete"].reenacted
    /\ ~files["no_delivery"].reenacted /\ ~files["no_delivery"].revised
    /\ ~files["no_outcome"].revised
    /\ files["negative_complete"].revised /\ files["negative_complete"].changed

Summarize ==
    /\ pc = "summary"
    /\ verdict' = IF Passed THEN "passed" ELSE "failed"
    /\ pc' = "done"
    /\ UNCHANGED <<core, wait, seen, at, before, formedAt, case, files, world>>

\* A wait that lasts too long ends the suite.
SettleTimesOut == wait # "idle" /\ Fails

Waits == pc \in {"formed", "settle"} /\ Probe(Expected) /\ UNCHANGED <<harness, disk, world>>

\* The Harness is killed and started again: Core and the files stay.
CrashAndRestart ==
    /\ pc # "done" /\ crashes < MaxCrashes
    /\ crashes' = crashes + 1
    /\ pc' = "form" /\ at' = 1 /\ before' = None /\ formedAt' = 0 /\ case' = NoCase
    /\ wait' = "idle" /\ seen' = NotSeen
    /\ UNCHANGED <<core, disk, observed, chosen>>

Init ==
    /\ SettlingInit
    /\ pc = "form" /\ at = 1 /\ before = None /\ formedAt = 0 /\ case = NoCase
    /\ files = <<>> /\ verdict = None
    /\ observed = {} /\ chosen = <<>> /\ crashes = 0

Harness ==
    \/ FormTurn \/ Formed \/ FormationFails \/ CaseRefused \/ SelectProbe \/ ObserveAct
    \/ ReportOutcome \/ SettleCase \/ SelectDelayed \/ FreezeCase \/ Summarize \/ Waits

\* Nothing after the verdict is looked at.
CoreWorks == pc # "done" /\ Background /\ UNCHANGED <<harness, disk, world>>

Next == Harness \/ CoreWorks \/ SettleTimesOut \/ CrashAndRestart

Spec == Init /\ [][Next]_vars

\* The Harness goes on, and Core finishes what it has begun.
FairSpec == Spec /\ WF_vars(Harness) /\ WF_vars(CoreWorks)

-----------------------------------------------------------------------------
TypeOK ==
    /\ pc \in {"form", "formed", "select", "act", "outcome", "settle", "delayed", "freeze", "summary", "done"}
    /\ at \in 1 .. IF pc \in {"form", "formed"} THEN Len(Turns) + 1 ELSE Len(Cases)
    /\ DOMAIN files \subseteq ToSet(Cases)
    /\ verdict \in {None, "passed", "failed"}
    /\ \A j \in DOMAIN jobs : jobs[j].eps # {} /\ jobs[j].state \in {"collecting", "committed"}
    /\ Cardinality(Collecting) <= 1
    /\ \A l \in links : l.version \in 1 .. seed.version

\* A state that was waited for is final: when the probe says that an owner is
\* settled, no Job and no index operation of it is left, and what was read stays
\* what Core remembers until the Harness reports something new.
SettledIsFinal ==
    (pc \in {"delayed", "freeze"} => Quiet /\ case.after = MemoryState)
    /\ (pc = "select" => Quiet /\ before = MemoryState)

\* "proving the Disposition causal boundary": a gate that passed has seen every
\* change of the Seed it passed on: a case changed it only with a delivery, revised
\* it only with an Outcome, and the complete cases did change it.  A suite that was
\* killed is left out: what a case changed before it was run again is not seen.
PassedMeansBoundary ==
    verdict = "passed" /\ crashes = 0 =>
        LET Feedback == {l \in links : l.episode \in ToSet(Cases)}
            By(e) == {l.role : l \in {k \in Feedback : k.episode = e}}
        IN  /\ \A l \in Feedback : <<"delivery", l.episode>> \in observed
            /\ \A l \in Feedback : l.role # "reenactment" => <<"outcome", l.episode>> \in observed
            /\ "reenactment" \in By("positive_complete")
            /\ By("negative_complete") \cap {"revision", "inhibition"} # {}

\* The gate comes to a verdict: the waits end, Core finishing its work.
SuiteEnds == <>(verdict # None)

\* The state of Core stays well formed, with one collecting Job at most, and the
\* waits of the Harness end only in a state that is final.
SettledInv == TypeOK /\ SettledIsFinal

=============================================================================
