------------------------------ MODULE Settling ------------------------------
(***************************************************************************)
(* How an evaluation waits for Core: the probe reads the database of a     *)
(* running Core, one SELECT at a time, until nothing is pending, and then  *)
(* takes the memory state (eval/python: settle_memory_state of             *)
(* anchor_cli.py, wait_for_effect_ready of personamem_effect_runner.py,    *)
(* DatabaseProbe of personamem_live.py).                                   *)
(*                                                                         *)
(* Core is the owner under evaluation: its Episodes, its consolidation     *)
(* Jobs, its index operations and one Seed.  What a window makes of an     *)
(* Episode is left open, a Core that breaks its own rules included: that   *)
(* is what the evaluations are there to find out.                          *)
(***************************************************************************)
EXTENDS SequencesExt

VARIABLES
    jobs,       \* the Jobs not completed: a sequence of [eps, state]
    consolidated, \* Episodes of the completed Jobs
    ops,        \* index operations not acknowledged: <<"episode", e>>, <<"seed", version>>
    seed,       \* [version, active]
    links,      \* seed_basis_links: [version, episode, role]
    wait,       \* where the probe is: "idle", "index", "episodes", "jobs", "completed", "ops"
    seen        \* what it has read in this round

core == <<jobs, consolidated, ops, seed, links>>

-----------------------------------------------------------------------------
(***************************************************************************)
(* Core.                                                                   *)
(***************************************************************************)
Collecting == {j \in DOMAIN jobs : jobs[j].state = "collecting"}

Closed == consolidated \cup UNION {jobs[j].eps : j \in DOMAIN jobs}

\* enqueueEpisodeState: an Episode that changed joins the collecting Job, or opens one.
Enqueue(e) ==
    /\ jobs' = IF Collecting = {} THEN Append(jobs, [eps |-> {e}, state |-> "collecting"])
               ELSE [j \in DOMAIN jobs |->
                        IF j \in Collecting THEN [jobs[j] EXCEPT !.eps = @ \cup {e}] ELSE jobs[j]]
    /\ ops' = ops \cup {<<"episode", e>>}
    /\ UNCHANGED <<consolidated, seed, links>>

\* The changes of a Seed a window may make of one of its Episodes.
Changes ==
    IF seed.version = 0
    THEN {"none"} \cup (IF Cardinality(Closed) > 1 THEN {"formation"} ELSE {})
    ELSE {"none"} \cup (IF seed.active THEN {"reenactment", "revision", "inhibition"} ELSE {})

\* The quiet period is over: the window is frozen, inferred and committed.
CommitWindow(j) ==
    /\ jobs[j].state = "collecting"
    /\ \E e \in jobs[j].eps, role \in Changes :
          LET next == IF role \in {"formation", "revision"} THEN seed.version + 1 ELSE seed.version IN
          /\ links' = IF role = "none" THEN links
                      ELSE links \cup {[version |-> next, episode |-> e, role |-> role]}
          /\ seed' = IF role = "none" THEN seed
                     ELSE [version |-> next, active |-> role # "inhibition"]
          /\ ops' = ops \cup (IF role \in {"none", "reenactment"} THEN {} ELSE {<<"seed", next>>})
    /\ jobs' = [jobs EXCEPT ![j].state = "committed"]
    /\ UNCHANGED consolidated

CompleteJob(j) ==
    /\ jobs[j].state = "committed"
    /\ jobs' = RemoveAt(jobs, j)
    /\ consolidated' = consolidated \cup jobs[j].eps
    /\ UNCHANGED <<ops, seed, links>>

\* The projector applies and acknowledges.
Acknowledge(op) ==
    /\ op \in ops
    /\ ops' = ops \ {op}
    /\ UNCHANGED <<jobs, consolidated, seed, links>>

Background ==
    /\ \/ \E j \in DOMAIN jobs : CommitWindow(j) \/ CompleteJob(j)
       \/ \E op \in ops : Acknowledge(op)
    /\ UNCHANGED <<wait, seen>>

\* The versions a Select can find: active, and in the index.
Selectable == IF seed.active /\ <<"seed", seed.version>> \notin ops THEN <<seed.version>> ELSE <<>>

-----------------------------------------------------------------------------
(***************************************************************************)
(* The probe.                                                              *)
(***************************************************************************)
NotSeen == [episodes |-> 0, pending |-> 0, consolidated |-> 0, ops |-> 0]

\* Where a round of reads goes on.
Read(step, then, field, value) ==
    /\ wait = step
    /\ wait' = then
    /\ seen' = [seen EXCEPT ![field] = value]
    /\ UNCHANGED core

\* wait_for_index_projection, before the consolidation that is expected.
ReadIndex == wait = "index" /\ ops = {} /\ wait' = "episodes" /\ UNCHANGED <<seen, core>>

ReadEpisodes == Read("episodes", "jobs", "episodes", Cardinality(Closed))

\* That there are Jobs at all follows from the Episodes that are counted.
ReadJobs == Read("jobs", "completed", "pending", Len(jobs))

ReadCompleted == Read("completed", "ops", "consolidated", Cardinality(consolidated))

\* Variant: what the first wait has seen is taken for the present.
ReadOpsCached == Read("ops", "check", "ops", 0)

ReadOps == Read("ops", "check", "ops", Cardinality(ops))

\* What wait_for_effect_ready asks of the numbers of a round.
ReadyFor(expected) ==
    /\ seen.episodes >= expected /\ seen.consolidated >= expected
    /\ seen.pending = 0 /\ seen.ops = 0

\* The next round.
ReadAgain(expected) ==
    /\ wait = "check" /\ ~ReadyFor(expected)
    /\ wait' = "episodes" /\ seen' = NotSeen
    /\ UNCHANGED core

BeginSettle == wait' = "index" /\ seen' = NotSeen

Probe(expected) == ReadIndex \/ ReadEpisodes \/ ReadJobs \/ ReadCompleted \/ ReadOps \/ ReadAgain(expected)

\* Ready: memory_state is read and the wait is over.
Settles(expected) == wait = "check" /\ ReadyFor(expected) /\ wait' = "idle" /\ seen' = NotSeen

MemoryState == [active |-> seed.active, version |-> seed.version, links |-> links]

\* Nothing of Core's background work is left.
Quiet == ops = {} /\ jobs = <<>>

SettlingInit ==
    /\ jobs = <<>> /\ consolidated = {} /\ ops = {} /\ links = {}
    /\ seed = [version |-> 0, active |-> FALSE]
    /\ wait = "idle" /\ seen = NotSeen

=============================================================================
