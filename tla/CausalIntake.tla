----------------------------- MODULE CausalIntake -----------------------------
(***************************************************************************)
(* Causal intake over a relational store, one exact scope: Observe,        *)
(* RecordMemoryDelivery and ReportOutcome as transactions of several       *)
(* statements that interleave between the locks they take.                 *)
(*                                                                         *)
(* Every request may be sent again at any time, by any caller and while an *)
(* earlier attempt is in progress: that covers retries after an error,     *)
(* after a lost response and after a crash.  A request stands for its      *)
(* canonical hash.                                                         *)
(*                                                                         *)
(* The two adapters run the same statements.  PostgreSQL runs them at READ *)
(* COMMITTED, so a read sees everything committed before it.  MySQL runs   *)
(* them at the server's default, REPEATABLE READ: the first plain SELECT   *)
(* fixes the view of all later ones in the transaction, while INSERT,      *)
(* UPDATE and unique keys work on the current rows.                        *)
(***************************************************************************)
EXTENDS Naturals, FiniteSets

CONSTANTS
    Source, Content, Group, Run, Key,
    RunOf,     \* the run of each group
    Request,   \* the requests callers may send
    Caller,    \* concurrent calls
    Adapter,   \* "postgres" or "mysql"
    MaxCalls,  \* bound of the model: calls ever started
    Null       \* no group, no request, no view

Role == {"situation", "agent_act", "outcome"}

\* One shape for the three requests.  group = Null: an Observe whose binding is
\* incomplete, or a delivery.  deliveries and related: the attribution of an
\* Outcome.
RequestShape ==
    [kind : {"observe", "outcome", "delivery"}, key : Key, source : Source,
     content : Content, group : Group \cup {Null}, run : Run, role : Role,
     deliveries : SUBSET Key, related : SUBSET Source]

ASSUME RunOfType == RunOf \in [Group -> Run]
ASSUME RequestsWellFormed ==
    /\ Request \subseteq RequestShape
    /\ \A r \in Request :
          /\ r.group # Null => r.run = RunOf[r.group]
          /\ r.kind = "outcome" => r.group # Null /\ r.role = "outcome"
          /\ r.kind = "delivery" => r.group = Null
ASSUME AdapterKnown == Adapter \in {"postgres", "mysql"}
ASSUME CallBound == MaxCalls \in Nat
ASSUME NullIsFresh == Null \notin Group

VARIABLES
    receipts,    \* request_receipts: frozen results of Observe
    sources,     \* source_events
    links,       \* episode_links; bound: episode_ref is set
    episodes,    \* episodes
    outcomes,    \* outcome_events; bound: episode_ref is set
    deliveries,  \* memory_delivery_receipts
    queued,      \* evidence handed to the consolidation queue
    projected,   \* causes of Episode projections in memory_index_operations
    tx,          \* calls in progress
    replies,     \* receipts returned to callers (history)
    calls        \* calls started (bound only)

tables == <<receipts, sources, links, episodes, outcomes, deliveries, queued,
            projected>>
vars == <<tables, tx, replies, calls>>

-----------------------------------------------------------------------------
(* State space *)

LinkRow == [group : Group, source : Source, role : Role, bound : BOOLEAN]
SourceRow == [source : Source, content : Content]
OutcomeRow == [request : Request, bound : BOOLEAN]
Receipt == [request : Request, episode : BOOLEAN]

\* What a plain SELECT of intake can look at.
View == [sources : SUBSET SourceRow, links : SUBSET LinkRow,
         episodes : SUBSET Group, outcomes : SUBSET OutcomeRow,
         deliveries : SUBSET Request]

\* claimed: receipt row claimed, or request lock held and nothing to replay;
\* running: also the run lock; admitted: also the source row; locked: also the
\* group lock.
Pc == {"idle", "begun", "claimed", "running", "admitted", "locked"}
IdleTx == [pc |-> "idle", request |-> Null, view |-> Null, inserted |-> FALSE]
Tx == [pc : Pc, request : Request \cup {Null}, view : View \cup {Null},
       inserted : BOOLEAN]

TypeOK ==
    /\ receipts \subseteq Receipt
    /\ sources \subseteq SourceRow
    /\ links \subseteq LinkRow
    /\ episodes \subseteq Group
    /\ outcomes \subseteq OutcomeRow
    /\ deliveries \subseteq Request
    /\ queued \subseteq Group \cup Request
    /\ projected \subseteq [group : Group, source : Source, role : Role]
    /\ tx \in [Caller -> Tx]
    /\ replies \subseteq Receipt
    /\ calls \in Nat

Init ==
    /\ receipts = {} /\ sources = {} /\ links = {} /\ episodes = {}
    /\ outcomes = {} /\ deliveries = {} /\ queued = {} /\ projected = {}
    /\ tx = [c \in Caller |-> IdleTx]
    /\ replies = {}
    /\ calls = 0

-----------------------------------------------------------------------------
(* Reads, rows and locks *)

Committed == [sources |-> sources, links |-> links, episodes |-> episodes,
              outcomes |-> outcomes, deliveries |-> deliveries]

\* What a plain SELECT of the call sees now.
Visible(c) == IF tx[c].view = Null THEN Committed ELSE tx[c].view

\* The view of the call after a plain SELECT.
Pinned(c) == IF Adapter = "mysql" THEN Visible(c) ELSE Null

Req(c) == tx[c].request
Holding(c) == tx[c].pc \notin {"idle", "begun"}

\* The uncommitted receipt row of an Observe, the request lock of the others.
HoldsKey(c, r) == Holding(c) /\ Req(c).kind = r.kind /\ Req(c).key = r.key

HoldsRun(c, run) ==
    /\ tx[c].pc \in {"running", "admitted", "locked"}
    /\ Req(c).kind = "delivery" \/ Req(c).role = "agent_act"
    /\ Req(c).run = run

\* An uncommitted source row makes others wait; ON DUPLICATE KEY UPDATE locks
\* the row that is already there as well.
HoldsSource(c, s) ==
    /\ tx[c].pc \in {"admitted", "locked"}
    /\ tx[c].inserted \/ Adapter = "mysql"
    /\ Req(c).source = s

\* Variant: an Outcome takes the group lock before its source.
HoldsGroupEarly(c, g) ==
    /\ tx[c].pc = "locked" \/ (Holding(c) /\ Req(c).kind = "outcome")
    /\ Req(c).group = g

HoldsGroup(c, g) == tx[c].pc = "locked" /\ Req(c).group = g

Others(c) == Caller \ {c}

Step(c, pc, view, inserted) ==
    /\ tx' = [tx EXCEPT ![c] = [pc |-> pc, request |-> Req(c), view |-> view,
                                inserted |-> inserted]]
    /\ UNCHANGED <<tables, replies, calls>>

\* Commit or roll back and answer; only rows of tables that were written change.
End(c) == tx' = [tx EXCEPT ![c] = IdleTx] /\ UNCHANGED calls

Rollback(c) == End(c) /\ UNCHANGED <<tables, replies>>

Answer(c, episode) == replies' = replies \cup {[request |-> Req(c), episode |-> episode]}

Replay(c, episode) == End(c) /\ Answer(c, episode) /\ UNCHANGED tables

-----------------------------------------------------------------------------
(* Up to the locks *)

Begin(c, r) ==
    /\ tx[c].pc = "idle"
    /\ calls < MaxCalls
    /\ calls' = calls + 1
    /\ tx' = [tx EXCEPT ![c] = [IdleTx EXCEPT !.pc = "begun", !.request = r]]
    /\ UNCHANGED <<tables, replies>>

\* Variant: the key is claimed without waiting for the same key in progress.
ClaimRequestUnlocked(c) ==
    /\ tx[c].pc = "begun" /\ Req(c).kind = "observe"
    /\ LET known == {p \in receipts : p.request.key = Req(c).key} IN
       \/ known = {} /\ Step(c, "claimed", Null, FALSE)
       \/ \E p \in known : /\ p.request = Req(c)
                           /\ Replay(c, p.episode)
       \/ \E p \in known : p.request # Req(c) /\ Rollback(c)

\* claimRequest waits for another claim of the key, then claims it, replays its
\* frozen receipt, or fails with ErrIdempotencyConflict.
ClaimRequest(c) ==
    /\ tx[c].pc = "begun" /\ Req(c).kind = "observe"
    /\ \A d \in Others(c) : ~HoldsKey(d, Req(c))
    /\ LET known == {p \in receipts : p.request.key = Req(c).key} IN
       \/ known = {} /\ Step(c, "claimed", Null, FALSE)
       \/ \E p \in known : /\ p.request = Req(c)
                           /\ Replay(c, p.episode)
       \/ \E p \in known : p.request # Req(c) /\ Rollback(c)

\* Request lock and loadMemoryDeliveryReceipt.
LoadDeliveryReceipt(c) ==
    /\ tx[c].pc = "begun" /\ Req(c).kind = "delivery"
    /\ \A d \in Others(c) : ~HoldsKey(d, Req(c))
    /\ LET known == {r \in deliveries : r.key = Req(c).key} IN
       \/ known = {} /\ Step(c, "claimed", Pinned(c), FALSE)
       \/ Req(c) \in known /\ Replay(c, FALSE)
       \/ known # {} /\ Req(c) \notin known /\ Rollback(c)

\* validateOutcomeBindings: exact deliveries of the run, related sources of the
\* group, and among them an AgentAct when deliveries are claimed.
OutcomeBindingsValid(c) ==
    LET r == Req(c)  v == Visible(c) IN
    /\ \A k \in r.deliveries : \E d \in v.deliveries : d.key = k /\ d.run = r.run
    /\ \A s \in r.related : \E l \in v.links : l.group = r.group /\ l.source = s
    /\ r.deliveries # {} => \E l \in v.links : /\ l.group = r.group
                                               /\ l.role = "agent_act"
                                               /\ l.source \in r.related

\* Request lock, loadOutcomeReceipt (which reads the present binding of the
\* Outcome) and validateOutcomeBindings.
LoadOutcomeReceipt(c) ==
    /\ tx[c].pc = "begun" /\ Req(c).kind = "outcome"
    /\ \A d \in Others(c) : ~HoldsKey(d, Req(c))
    /\ LET known == {o \in outcomes : o.request.key = Req(c).key} IN
       \/ known = {} /\ OutcomeBindingsValid(c) /\ Step(c, "claimed", Pinned(c), FALSE)
       \/ known = {} /\ ~OutcomeBindingsValid(c) /\ Rollback(c)
       \/ \E o \in known : o.request = Req(c) /\ Replay(c, o.bound)
       \/ \E o \in known : o.request # Req(c) /\ Rollback(c)

\* Variant: a delivery looks for an AgentAct without the run lock.
LockFeedbackRunSkipped(c) ==
    /\ tx[c].pc = "claimed"
    /\ \/ Req(c).kind = "delivery" /\ Step(c, "running", Visible(c), FALSE)
       \/ /\ Req(c).kind = "observe" /\ Req(c).role = "agent_act"
          /\ Step(c, "running", tx[c].view, FALSE)

\* lockFeedbackRun, by deliveries and by the Observe of an AgentAct.  A delivery
\* then looks for an AgentAct of the run.
LockFeedbackRun(c) ==
    /\ tx[c].pc = "claimed"
    /\ \A d \in Others(c) : ~HoldsRun(d, Req(c).run)
    /\ \/ Req(c).kind = "delivery" /\ Step(c, "running", Visible(c), FALSE)
       \/ /\ Req(c).kind = "observe" /\ Req(c).role = "agent_act"
          /\ Step(c, "running", tx[c].view, FALSE)

ReadyToAdmit(c) ==
    \/ tx[c].pc = "running" /\ Req(c).kind = "observe"
    \/ tx[c].pc = "claimed" /\ Req(c).kind = "observe" /\ Req(c).role # "agent_act"
    \/ tx[c].pc = "claimed" /\ Req(c).kind = "outcome"

SourceOf(r) == [source |-> r.source, content |-> r.content]

\* Variant: a source ref that exists is taken as it is.
AdmitSourceUnchecked(c) ==
    /\ ReadyToAdmit(c)
    /\ \A d \in Others(c) : ~HoldsSource(d, Req(c).source)
    /\ Step(c, "admitted", tx[c].view, TRUE)

\* admitSource inserts the source, or compares it with the row that is there;
\* the comparison is a plain SELECT, which fails if it cannot see the row.
AdmitSource(c) ==
    /\ ReadyToAdmit(c)
    /\ \A d \in Others(c) : ~HoldsSource(d, Req(c).source)
    /\ LET exists == \E s \in sources : s.source = Req(c).source IN
       \/ ~exists /\ Step(c, "admitted", tx[c].view, TRUE)
       \/ /\ exists /\ SourceOf(Req(c)) \in Visible(c).sources
          /\ Step(c, "admitted", Pinned(c), FALSE)
       \/ exists /\ SourceOf(Req(c)) \notin Visible(c).sources /\ Rollback(c)

\* Variant: appendLinkAndMaterialize without the group lock.
LockGroupSkipped(c) ==
    /\ tx[c].pc = "admitted" /\ Req(c).group # Null
    /\ Step(c, "locked", Visible(c), tx[c].inserted)

\* The group lock; the reads of appendLinkAndMaterialize follow.
LockGroup(c) ==
    /\ tx[c].pc = "admitted" /\ Req(c).group # Null
    /\ \A d \in Others(c) : ~HoldsGroup(d, Req(c).group)
    /\ Step(c, "locked", Visible(c), tx[c].inserted)

-----------------------------------------------------------------------------
(* appendLinkAndMaterialize: decided on the rows the call sees, written to the *)
(* rows that are there.                                                        *)

LinkKey(l) == [group |-> l.group, source |-> l.source, role |-> l.role]

Stored(c, rows) == \E l \in rows : LinkKey(l) = LinkKey(Req(c))

\* findEpisode.
Found(c) == Req(c).group \in Visible(c).episodes

\* ErrEpisodeSealed: only outcomes join an Episode, other links are retries.
Sealed(c) ==
    Found(c) /\ Req(c).role # "outcome" /\ ~Stored(c, Visible(c).links)

\* The row of the INSERT, unless the link is there already.
NewLinks(c) ==
    {[group |-> Req(c).group, source |-> Req(c).source, role |-> Req(c).role,
      bound |-> b] : b \in IF Stored(c, links) THEN {} ELSE {Found(c)}}

DistinctRoleGate(rows, g) ==
    \E s, a \in rows : /\ s.group = g /\ s.role = "situation"
                       /\ a.group = g /\ a.role = "agent_act"
                       /\ a.source # s.source

\* The call materializes the Episode of its group.
Materializes(c) ==
    ~Found(c) /\ DistinctRoleGate(Visible(c).links \cup NewLinks(c), Req(c).group)

HasEpisode(c) == Found(c) \/ Materializes(c)
Changed(c) == NewLinks(c) # {} \/ Materializes(c)

WriteGroup(c) ==
    LET g == Req(c).group IN
    /\ links' = {IF Materializes(c) /\ l.group = g THEN [l EXCEPT !.bound = TRUE] ELSE l :
                    l \in links \cup NewLinks(c)}
    /\ episodes' = episodes \cup IF Materializes(c) THEN {g} ELSE {}

\* Variant: Outcomes reported before the Episode stay unbound.
BoundOutcomesNone(c) == {}

\* The Outcomes that the materialization binds.
BoundOutcomes(c) ==
    {o \in outcomes : Materializes(c) /\ o.request.group = Req(c).group /\ ~o.bound}

OutcomesAfter(c) ==
    (outcomes \ BoundOutcomes(c)) \cup {[o EXCEPT !.bound = TRUE] : o \in BoundOutcomes(c)}

\* enqueueEpisodeState: the Episode with every Outcome of it that the call sees,
\* those it has bound itself included.
EpisodeState(c, g) ==
    {g} \cup {o.request : o \in BoundOutcomes(c)}
        \cup {o.request : o \in {b \in Visible(c).outcomes : b.bound /\ b.request.group = g}}

EnqueueProjection(c) ==
    projected' = projected \cup IF Changed(c) /\ HasEpisode(c) THEN {LinkKey(Req(c))} ELSE {}

AdmittedSource(c) == sources' = sources \cup {SourceOf(Req(c))}

Freeze(c, episode) ==
    receipts' = receipts \cup {[request |-> Req(c), episode |-> episode]}

-----------------------------------------------------------------------------
(* Commits *)

\* An Observe with an incomplete binding.
CommitSource(c) ==
    /\ tx[c].pc = "admitted" /\ Req(c).group = Null
    /\ AdmittedSource(c)
    /\ Freeze(c, FALSE)
    /\ Answer(c, FALSE)
    /\ End(c)
    /\ UNCHANGED <<links, episodes, outcomes, deliveries, queued, projected>>

CommitObserve(c) ==
    /\ tx[c].pc = "locked" /\ Req(c).kind = "observe"
    /\ ~Sealed(c)
    /\ AdmittedSource(c)
    /\ WriteGroup(c)
    /\ outcomes' = OutcomesAfter(c)
    /\ queued' = queued \cup IF Changed(c) /\ HasEpisode(c)
                             THEN EpisodeState(c, Req(c).group) ELSE {}
    /\ EnqueueProjection(c)
    /\ Freeze(c, HasEpisode(c))
    /\ Answer(c, HasEpisode(c))
    /\ End(c)
    /\ UNCHANGED deliveries

RejectSealed(c) == tx[c].pc = "locked" /\ Sealed(c) /\ Rollback(c)

CommitOutcome(c) ==
    /\ tx[c].pc = "locked" /\ Req(c).kind = "outcome"
    /\ AdmittedSource(c)
    /\ WriteGroup(c)
    /\ outcomes' = OutcomesAfter(c) \cup {[request |-> Req(c), bound |-> HasEpisode(c)]}
    /\ queued' = queued \cup IF HasEpisode(c)
                             THEN EpisodeState(c, Req(c).group) \cup {Req(c)} ELSE {}
    /\ EnqueueProjection(c)
    /\ Answer(c, HasEpisode(c))
    /\ End(c)
    /\ UNCHANGED <<receipts, deliveries>>

ActSeen(c) == \E l \in Visible(c).links : /\ RunOf[l.group] = Req(c).run
                                          /\ l.role = "agent_act"

\* rejectRetroactiveMemoryDelivery.
RejectRetroactive(c) ==
    tx[c].pc = "running" /\ Req(c).kind = "delivery" /\ ActSeen(c) /\ Rollback(c)

\* enqueueRunEpisodes is part of the commit.
CommitDelivery(c) ==
    /\ tx[c].pc = "running" /\ Req(c).kind = "delivery"
    /\ ~ActSeen(c)
    /\ deliveries' = deliveries \cup {Req(c)}
    /\ queued' = queued \cup UNION {EpisodeState(c, g) :
                    g \in {h \in Visible(c).episodes : RunOf[h] = Req(c).run}}
    /\ Answer(c, FALSE)
    /\ End(c)
    /\ UNCHANGED <<receipts, sources, links, episodes, outcomes, projected>>

\* A database error, a lock timeout, a cancelled context, a lost connection or
\* a crash.
Abort(c) == tx[c].pc # "idle" /\ Rollback(c)

-----------------------------------------------------------------------------

Advance(c) ==
    \/ ClaimRequest(c)
    \/ LoadDeliveryReceipt(c)
    \/ LoadOutcomeReceipt(c)
    \/ LockFeedbackRun(c)
    \/ AdmitSource(c)
    \/ LockGroup(c)
    \/ CommitSource(c)
    \/ CommitObserve(c)
    \/ RejectSealed(c)
    \/ CommitOutcome(c)
    \/ RejectRetroactive(c)
    \/ CommitDelivery(c)

Next ==
    \E c \in Caller : \/ \E r \in Request : Begin(c, r)
                      \/ Advance(c)
                      \/ Abort(c)

Spec == Init /\ [][Next]_vars

-----------------------------------------------------------------------------
(* Properties *)

L == INSTANCE Ledger WITH events <- sources, links <- {LinkKey(l) : l \in links}

\* "A missing row proves the gate raced": however the calls for a situation and
\* an act interleave, the group has an Episode row exactly when its committed
\* links pass the gate of the in-memory ledger.
EpisodesMatchLedger ==
    episodes = {g \in Group : L!Materialized({LinkKey(l) : l \in links}, g)}

\* Nothing that belongs to an Episode is left behind by the call that
\* materializes it or by one that races with it: its links and its Outcomes,
\* those reported before it included, carry its ref, the Episode and these
\* Outcomes have been handed to consolidation and the Episode to the index.
EvidenceBound ==
    /\ \A l \in links : l.bound <=> l.group \in episodes
    /\ \A o \in outcomes : o.bound <=> o.request.group \in episodes
    /\ episodes \cup {o.request : o \in {b \in outcomes : b.bound}} \subseteq queued
    /\ \A g \in episodes : \E p \in projected : p.group = g

\* "Memory delivery must be recorded before AgentAct": no delivery is recorded
\* for a run that already has a committed AgentAct, even when the two race.
DeliveryBeforeAct ==
    [][\A r \in deliveries' \ deliveries :
          ~\E l \in links : RunOf[l.group] = r.run /\ l.role = "agent_act"]_vars

\* A retry never gets another answer: two replies of Observe under one key are
\* equal, and a key of any kind stands for one request for ever.
ReplayAgrees ==
    \A p, q \in replies :
        p.request.kind = q.request.kind /\ p.request.key = q.request.key
        => p.request = q.request /\ (p.request.kind = "observe" => p = q)

\* The interleaved transactions implement the ledger's one-step Observe: sources
\* are immutable and only outcomes join an Episode.
ImplementsLedger == L!LedgerSpec

\* The locks are taken in one order by all three commands: of the calls under
\* way one is never kept waiting, so that every call ends.
CallsProceed ==
    (\E c \in Caller : tx[c].pc # "idle") => ENABLED \E c \in Caller : Advance(c)

\* The relational tables stay well formed and their Episode rows are those of
\* the in-memory ledger, after every step of every call.
LedgerInv == TypeOK /\ EpisodesMatchLedger

=============================================================================
