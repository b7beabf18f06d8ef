------------------------- MODULE TurnAndIntakeProofs -------------------------
(***************************************************************************)
(* Proofs about the two sides of a call to Core: TurnLifecycle, the turn   *)
(* that makes the calls, and CausalIntake, the transactions that answer    *)
(* them.  Each part stands by itself.                                      *)
(*                                                                         *)
(* CausalIntake, for every set of sources, groups, runs, keys, requests    *)
(* and callers, and any number of calls.  What holds of both adapters: the *)
(* tables stay well formed, a source is immutable, a retry gets the first  *)
(* answer.  What holds of PostgreSQL: the Episode rows are those of the    *)
(* ledger, nothing of an Episode is left behind, no delivery follows an    *)
(* act, and the transactions implement the ledger.  Those fail on MySQL,   *)
(* whose snapshots are older than the locks.                               *)
(*                                                                         *)
(* TurnLifecycle, for all memories Core may select, all texts the Agent    *)
(* may say and any number of attempts.  What Core records is proved for    *)
(* any renderer that is a function of the context; what the renderer shows *)
(* is an induction over the items of a context.                            *)
(***************************************************************************)
EXTENDS CausalIntake, TurnLifecycle, RenderingProofs

-----------------------------------------------------------------------------
(***************************************************************************)
(* The transactions of Core.                                               *)
(***************************************************************************)
(* The inductive invariant *)

\* What the place a call has reached says of its request: only deliveries and
\* acts take the run lock, deliveries admit no source, and a group is locked by
\* a complete binding.  On PostgreSQL a call keeps what it has read only under
\* the lock that protects it.
CallOK(c) ==
    /\ tx[c].pc # "idle" => Req(c) \in Request
    /\ tx[c].pc = "running" => \/ Req(c).kind = "delivery"
                               \/ Req(c).kind = "observe" /\ Req(c).role = "agent_act"
    /\ tx[c].pc \in {"admitted", "locked"} => Req(c).kind # "delivery"
    /\ tx[c].pc = "locked" => Req(c).group # Null
    /\ Adapter = "postgres" /\ tx[c].view # Null
          => tx[c].pc = "locked" \/ (tx[c].pc = "running" /\ Req(c).kind = "delivery")

PhaseInv == TypeOK /\ \A c \in Caller : CallOK(c)

\* No two calls hold one lock.
LocksExclusive ==
    \A c \in Caller : \A d \in Others(c) :
        /\ \A r \in Request : ~(HoldsKey(c, r) /\ HoldsKey(d, r))
        /\ \A n \in Run : ~(HoldsRun(c, n) /\ HoldsRun(d, n))
        /\ \A g \in Group : ~(HoldsGroup(c, g) /\ HoldsGroup(d, g))

\* Admitted: past the comparison of its source.
PastAdmission(c) == tx[c].pc \in {"admitted", "locked"}

SourcesUnique == \A e, f \in sources : e.source = f.source => e = f

\* A call that inserts a source is alone with its ref; a call that does not has
\* found the row with its own content.
AdmissionOK(c) ==
    PastAdmission(c) =>
        IF tx[c].inserted
        THEN /\ \A e \in sources : e.source # Req(c).source
             /\ \A d \in Others(c) : PastAdmission(d) => Req(d).source # Req(c).source
        ELSE SourceOf(Req(c)) \in sources

SourceInv ==
    /\ SourcesUnique
    /\ \A c \in Caller : AdmissionOK(c) /\ Visible(c).sources \subseteq sources

\* The requests that have an Outcome row, bound or not.
Reported == {o.request : o \in outcomes}

\* No row answers for the key of the request yet.
Unknown(r) ==
    /\ r.kind = "observe" => \A p \in receipts : p.request.key # r.key
    /\ r.kind = "outcome" => \A o \in Reported : o.key # r.key
    /\ r.kind = "delivery" => \A d \in deliveries : d.key # r.key

\* One row for a key.
RowsUnique ==
    /\ \A p, q \in receipts : p.request.key = q.request.key => p = q
    /\ \A o, p \in Reported : o.key = p.key => o = p
    /\ \A r, s \in deliveries : r.key = s.key => r = s

\* The row that a reply of this request was read from.
Recorded(p) ==
    \/ p.request.kind = "observe" /\ p \in receipts
    \/ p.request.kind = "outcome" /\ p.request \in Reported
    \/ p.request.kind = "delivery" /\ p.request \in deliveries

KeyInv ==
    /\ \A c \in Caller : Holding(c) => Unknown(Req(c))
    /\ RowsUnique
    /\ \A p \in replies : Recorded(p)

\* What a call with the group lock has read of its group is still so; what a
\* delivery with the run lock has read of the run's acts as well.
GroupViewCurrent(c) ==
    tx[c].pc = "locked" =>
        /\ Found(c) <=> Req(c).group \in episodes
        /\ \A l \in LinkRow : l.group = Req(c).group => (l \in Visible(c).links <=> l \in links)

RunViewCurrent(c) ==
    tx[c].pc = "running" /\ Req(c).kind = "delivery" =>
        \A l \in links : RunOf[l.group] = Req(c).run /\ l.role = "agent_act" => ActSeen(c)

ViewInv == \A c \in Caller : GroupViewCurrent(c) /\ RunViewCurrent(c)

\* The Episode rows, by the gate over the rows themselves.
GateInv == \A g \in Group : g \in episodes <=> DistinctRoleGate(links, g)

-----------------------------------------------------------------------------
(* The shapes of a step *)

\* The call ends and leaves the tables as they are; its answer, if it has one,
\* is that of the row it has found.
Leaves(c) ==
    /\ tx[c].pc # "idle"
    /\ tx' = [tx EXCEPT ![c] = IdleTx]
    /\ UNCHANGED <<tables, calls>>
    /\ \/ UNCHANGED replies
       \/ \E e \in BOOLEAN : Answer(c, e) /\ Recorded([request |-> Req(c), episode |-> e])

\* The call has got the lock of its key and has found nothing to replay.
Claims(c) ==
    /\ tx[c].pc = "begun"
    /\ \A d \in Others(c) : ~HoldsKey(d, Req(c))
    /\ Unknown(Req(c))
    /\ Step(c, "claimed", Null, FALSE) \/ Step(c, "claimed", Pinned(c), FALSE)

Admits(c) ==
    /\ ReadyToAdmit(c)
    /\ \A d \in Others(c) : ~HoldsSource(d, Req(c).source)
    /\ \/ /\ \A s \in sources : s.source # Req(c).source
          /\ Step(c, "admitted", tx[c].view, TRUE)
       \/ /\ SourceOf(Req(c)) \in Visible(c).sources
          /\ Step(c, "admitted", Pinned(c), FALSE)

\* Every step of a call in progress is one of these: what ends it without a
\* commit is the same for all of them.
LEMMA StepShapes ==
    ASSUME TypeOK, NEW c \in Caller, Advance(c) \/ Abort(c)
    PROVE  \/ Leaves(c) \/ Claims(c) \/ LockFeedbackRun(c) \/ Admits(c) \/ LockGroup(c)
           \/ CommitSource(c) \/ CommitObserve(c) \/ CommitOutcome(c) \/ CommitDelivery(c)
<1>1. Rollback(c) /\ tx[c].pc # "idle" => Leaves(c)
  BY DEF Rollback, End, Leaves, tables
<1>2. ASSUME NEW e \in BOOLEAN, Replay(c, e), tx[c].pc # "idle",
             Recorded([request |-> Req(c), episode |-> e])
      PROVE  Leaves(c)
  BY <1>2 DEF Replay, End, Leaves, tables
<1>3. CASE ClaimRequest(c)
  <2> DEFINE known == {p \in receipts : p.request.key = Req(c).key}
  <2>1. CASE known = {} /\ Step(c, "claimed", Null, FALSE)
    BY <1>3, <2>1 DEF ClaimRequest, Claims, Unknown
  <2>2. ASSUME NEW p \in known, p.request = Req(c), Replay(c, p.episode) PROVE Leaves(c)
    <3>1. p = [request |-> Req(c), episode |-> p.episode] /\ p.episode \in BOOLEAN
      BY <2>2 DEF TypeOK, Receipt
    <3>2. Recorded([request |-> Req(c), episode |-> p.episode])
      BY <1>3, <2>2, <3>1 DEF ClaimRequest, Recorded
    <3> QED BY <1>2, <1>3, <2>2, <3>1, <3>2 DEF ClaimRequest
  <2>3. CASE \E p \in known : p.request # Req(c) /\ Rollback(c)
    BY <1>1, <1>3, <2>3 DEF ClaimRequest
  <2> QED BY <1>3, <2>1, <2>2, <2>3 DEF ClaimRequest
<1>4. CASE LoadDeliveryReceipt(c)
  <2> DEFINE known == {r \in deliveries : r.key = Req(c).key}
  <2>1. CASE known = {} /\ Step(c, "claimed", Pinned(c), FALSE)
    BY <1>4, <2>1 DEF LoadDeliveryReceipt, Claims, Unknown
  <2>2. CASE Req(c) \in known /\ Replay(c, FALSE)
    BY <1>2, <1>4, <2>2 DEF LoadDeliveryReceipt, Recorded
  <2>3. CASE Rollback(c)
    BY <1>1, <1>4, <2>3 DEF LoadDeliveryReceipt
  <2> QED BY <1>4, <2>1, <2>2, <2>3 DEF LoadDeliveryReceipt
<1>5. CASE LoadOutcomeReceipt(c)
  <2> DEFINE known == {o \in outcomes : o.request.key = Req(c).key}
  <2>1. CASE known = {} /\ Step(c, "claimed", Pinned(c), FALSE)
    BY <1>5, <2>1 DEF LoadOutcomeReceipt, Claims, Unknown, Reported
  <2>2. CASE Rollback(c)
    BY <1>1, <1>5, <2>2 DEF LoadOutcomeReceipt
  <2>3. ASSUME NEW o \in known, o.request = Req(c), Replay(c, o.bound) PROVE Leaves(c)
    <3>1. o.bound \in BOOLEAN
      BY <2>3 DEF TypeOK, OutcomeRow
    <3>2. Recorded([request |-> Req(c), episode |-> o.bound])
      BY <1>5, <2>3 DEF LoadOutcomeReceipt, Recorded, Reported
    <3> QED BY <1>2, <1>5, <2>3, <3>1, <3>2 DEF LoadOutcomeReceipt
  <2> QED BY <1>5, <2>1, <2>2, <2>3 DEF LoadOutcomeReceipt
<1>6. CASE AdmitSource(c)
  <2>1. tx[c].pc # "idle"
    BY <1>6 DEF AdmitSource, ReadyToAdmit
  <2> QED BY <1>1, <1>6, <2>1 DEF AdmitSource, Admits
<1>7. CASE RejectSealed(c) \/ RejectRetroactive(c) \/ Abort(c)
  BY <1>1, <1>7 DEF RejectSealed, RejectRetroactive, Abort
<1> QED BY <1>3, <1>4, <1>5, <1>6, <1>7 DEF Advance

\* The effect of a step between two locks: the call alone moves on.
LEMMA StepEffect ==
    ASSUME TypeOK, NEW c \in Caller, NEW at, NEW v, NEW i, Step(c, at, v, i)
    PROVE  /\ tx'[c].pc = at /\ tx'[c].request = Req(c)
           /\ tx'[c].view = v /\ tx'[c].inserted = i
           /\ at \in Pc /\ v \in View \cup {Null} /\ i \in BOOLEAN => tx' \in [Caller -> Tx]
           /\ \A d \in Others(c) : tx'[d] = tx[d]
           /\ UNCHANGED tables /\ UNCHANGED replies /\ UNCHANGED calls
BY SMTT(30) DEF TypeOK, Step, Req, Others, Tx

\* The effect of the end of a call on the calls.
LEMMA EndEffect ==
    ASSUME TypeOK, NEW c \in Caller, tx' = [tx EXCEPT ![c] = IdleTx]
    PROVE  /\ tx'[c] = IdleTx /\ tx' \in [Caller -> Tx]
           /\ tx'[c].pc = "idle" /\ tx'[c].view = Null
           /\ \A d \in Others(c) : tx'[d] = tx[d]
BY DEF TypeOK, IdleTx, Others, Tx, Pc

\* What a SELECT of the call returns are rows of the tables' types.
LEMMA VisibleType ==
    ASSUME TypeOK, NEW c \in Caller
    PROVE  Visible(c) \in View /\ Pinned(c) \in View \cup {Null}
BY DEF TypeOK, Visible, Pinned, Committed, View, Tx

-----------------------------------------------------------------------------
(* Types and phases, both adapters *)

\* The rows that the INSERT and the materialization write for a group.
LEMMA WriteGroupType ==
    ASSUME PhaseInv, NEW c \in Caller, tx[c].pc = "locked", WriteGroup(c)
    PROVE  /\ links' \subseteq LinkRow /\ episodes' \subseteq Group
           /\ OutcomesAfter(c) \subseteq OutcomeRow
           /\ EpisodeState(c, Req(c).group) \subseteq Group \cup Request
           /\ LinkKey(Req(c)) \in [group : Group, source : Source, role : Role]
           /\ SourceOf(Req(c)) \in SourceRow
<1>1. /\ Req(c) \in Request /\ Req(c).group \in Group
      /\ Req(c).source \in Source /\ Req(c).content \in Content /\ Req(c).role \in Role
  BY RequestsWellFormed DEF PhaseInv, CallOK, RequestShape
<1>2. Visible(c) \in View
  BY VisibleType DEF PhaseInv
<1>3. links \subseteq LinkRow /\ episodes \subseteq Group /\ outcomes \subseteq OutcomeRow
  BY DEF PhaseInv, TypeOK
<1>4. NewLinks(c) \subseteq LinkRow
  <2>1. Found(c) \in BOOLEAN
    BY DEF Found
  <2> QED BY <1>1, <2>1 DEF NewLinks, LinkRow
<1>5. links' \subseteq LinkRow
  BY <1>3, <1>4 DEF WriteGroup, LinkRow
<1>6. episodes' \subseteq Group
  BY <1>1, <1>3 DEF WriteGroup
<1>7. BoundOutcomes(c) \subseteq outcomes /\ OutcomesAfter(c) \subseteq OutcomeRow
  BY <1>3 DEF BoundOutcomes, OutcomesAfter, OutcomeRow
<1>8. EpisodeState(c, Req(c).group) \subseteq Group \cup Request
  BY <1>1, <1>2, <1>3, <1>7 DEF EpisodeState, View, OutcomeRow
<1> QED BY <1>1, <1>5, <1>6, <1>7, <1>8 DEF LinkKey, SourceOf, SourceRow

LEMMA PhaseInit == Init => PhaseInv
<1> SUFFICES ASSUME Init PROVE PhaseInv
  OBVIOUS
<1>1. \A c \in Caller : tx[c].pc = "idle" /\ tx[c].view = Null
  BY DEF Init, IdleTx
<1>2. TypeOK
  BY DEF Init, TypeOK, IdleTx, Tx, Pc
<1> QED BY <1>1, <1>2 DEF PhaseInv, CallOK

\* The other calls keep what the invariant says of them.
LEMMA OthersOK ==
    ASSUME PhaseInv, NEW c \in Caller, \A d \in Others(c) : tx'[d] = tx[d], CallOK(c)'
    PROVE  \A d \in Caller : CallOK(d)'
BY DEF PhaseInv, CallOK, Others, Req

\* A step between two locks, or the end of a call, keeps the rows typed.
LEMMA PhaseStep == PhaseInv /\ [Next]_vars => PhaseInv'
<1> SUFFICES ASSUME PhaseInv, [Next]_vars PROVE PhaseInv'
  OBVIOUS
<1> USE DEF PhaseInv
<1>1. CASE UNCHANGED vars
  BY <1>1 DEF vars, tables, TypeOK, CallOK, Req
<1>2. ASSUME NEW c \in Caller, NEW r \in Request, Begin(c, r) PROVE PhaseInv'
  <2>1. /\ tx'[c].pc = "begun" /\ tx'[c].request = r /\ tx'[c].view = Null
        /\ tx' \in [Caller -> Tx] /\ \A d \in Others(c) : tx'[d] = tx[d]
    BY <1>2 DEF Begin, TypeOK, Tx, IdleTx, Pc, Others
  <2>2. TypeOK'
    BY <1>2, <2>1, CallBound DEF Begin, TypeOK, tables
  <2>3. CallOK(c)'
    BY <2>1 DEF CallOK, Req
  <2> QED BY <2>1, <2>2, <2>3, OthersOK
<1>3. ASSUME NEW c \in Caller, Advance(c) \/ Abort(c) PROVE PhaseInv'
  <2>0. CallOK(c) /\ TypeOK /\ Visible(c) \in View /\ Pinned(c) \in View \cup {Null}
        /\ tx[c].view \in View \cup {Null} /\ tx[c].inserted \in BOOLEAN
    BY VisibleType DEF TypeOK, Tx
  <2>1. ASSUME NEW at \in Pc, NEW v \in View \cup {Null}, NEW i \in BOOLEAN,
               Step(c, at, v, i),
               Req(c) \in Request
                 => /\ at = "running" => \/ Req(c).kind = "delivery"
                                         \/ Req(c).kind = "observe" /\ Req(c).role = "agent_act"
                    /\ at \in {"admitted", "locked"} => Req(c).kind # "delivery"
                    /\ at = "locked" => Req(c).group # Null
                    /\ Adapter = "postgres" /\ v # Null
                          => at = "locked" \/ (at = "running" /\ Req(c).kind = "delivery"),
               tx[c].pc # "idle"
        PROVE  PhaseInv'
    <3>1. CallOK(c)'
      BY <2>0, <2>1, StepEffect DEF CallOK, Req
    <3>2. TypeOK'
      BY <2>0, <2>1, StepEffect DEF TypeOK, tables
    <3> QED BY <2>0, <2>1, <3>1, <3>2, StepEffect, OthersOK
  <2>2. ASSUME TypeOK', tx' = [tx EXCEPT ![c] = IdleTx] PROVE PhaseInv'
    <3>1. CallOK(c)'
      BY <2>0, <2>2, EndEffect DEF CallOK, Req
    <3> QED BY <2>0, <2>2, <3>1, EndEffect, OthersOK
  <2>3. CASE Leaves(c)
    <3>1. Req(c) \in Request
      BY <2>0, <2>3 DEF Leaves, CallOK
    <3>2. tx' \in [Caller -> Tx]
      BY <2>0, <2>3, EndEffect DEF Leaves
    <3>3. replies' \subseteq Receipt
      <4>1. \A e \in BOOLEAN : [request |-> Req(c), episode |-> e] \in Receipt
        BY <3>1 DEF Receipt
      <4> QED BY <2>0, <2>3, <4>1 DEF Leaves, TypeOK, Answer
    <3>4. TypeOK'
      BY <2>0, <2>3, <3>2, <3>3 DEF Leaves, TypeOK, tables
    <3> QED BY <2>2, <2>3, <3>4 DEF Leaves
  <2>4. CASE Claims(c)
    BY <2>0, <2>1, <2>4 DEF Claims, Pinned, Pc, CallOK
  <2>5. CASE LockFeedbackRun(c)
    <3>1. CASE Req(c).kind = "delivery" /\ Step(c, "running", Visible(c), FALSE)
      BY <2>0, <2>1, <2>5, <3>1 DEF LockFeedbackRun, Pc
    <3>2. CASE /\ Req(c).kind = "observe" /\ Req(c).role = "agent_act"
               /\ Step(c, "running", tx[c].view, FALSE)
      BY <2>0, <2>1, <2>5, <3>2 DEF LockFeedbackRun, Pc, CallOK
    <3> QED BY <2>5, <3>1, <3>2 DEF LockFeedbackRun
  <2>6. CASE Admits(c)
    <3>1. Req(c).kind # "delivery" /\ (Adapter = "postgres" => tx[c].view = Null)
          /\ tx[c].pc # "idle"
      BY <2>0, <2>6 DEF Admits, ReadyToAdmit, CallOK
    <3> QED BY <2>0, <2>1, <2>6, <3>1 DEF Admits, Pinned, Pc
  <2>7. CASE LockGroup(c)
    BY <2>0, <2>1, <2>7 DEF LockGroup, Pc, CallOK
  <2>8. CASE CommitSource(c)
    <3>1. TypeOK'
      <4>1. Req(c) \in Request /\ SourceOf(Req(c)) \in SourceRow
        BY <2>0, <2>8, RequestsWellFormed
           DEF CommitSource, CallOK, RequestShape, SourceOf, SourceRow
      <4>2. tx' \in [Caller -> Tx]
        BY <2>0, <2>8, EndEffect DEF CommitSource, End
      <4>3. [request |-> Req(c), episode |-> FALSE] \in Receipt
        BY <4>1 DEF Receipt
      <4> QED BY <2>0, <2>8, <4>1, <4>2, <4>3
              DEF CommitSource, TypeOK, AdmittedSource, Freeze, Answer, End
    <3> QED BY <2>2, <2>8, <3>1 DEF CommitSource, End
  <2>9. CASE CommitObserve(c) \/ CommitOutcome(c)
    <3>1. tx[c].pc = "locked" /\ WriteGroup(c) /\ Req(c) \in Request
      BY <2>0, <2>9 DEF CommitObserve, CommitOutcome, CallOK
    <3>0. HasEpisode(c) \in BOOLEAN
      BY DEF HasEpisode, Found, Materializes
    <3>2. /\ tx' \in [Caller -> Tx]
          /\ [request |-> Req(c), episode |-> HasEpisode(c)] \in Receipt
          /\ [request |-> Req(c), bound |-> HasEpisode(c)] \in OutcomeRow
      BY <2>0, <2>9, <3>1, <3>0, EndEffect
         DEF CommitObserve, CommitOutcome, End, Receipt, OutcomeRow
    <3>3. CASE CommitObserve(c)
      <4>1. TypeOK'
        BY <2>0, <3>1, <3>2, <3>3, WriteGroupType
           DEF CommitObserve, TypeOK, AdmittedSource, Freeze, Answer, End, EnqueueProjection
      <4> QED BY <2>2, <3>3, <4>1 DEF CommitObserve, End
    <3>4. CASE CommitOutcome(c)
      <4>1. TypeOK'
        BY <2>0, <3>1, <3>2, <3>4, WriteGroupType
           DEF CommitOutcome, TypeOK, AdmittedSource, Answer, End, EnqueueProjection
      <4> QED BY <2>2, <3>4, <4>1 DEF CommitOutcome, End
    <3> QED BY <2>9, <3>3, <3>4
  <2>10. CASE CommitDelivery(c)
    <3>1. Req(c) \in Request /\ Req(c).kind = "delivery"
      BY <2>0, <2>10 DEF CommitDelivery, CallOK
    <3>2. \A g \in Visible(c).episodes : EpisodeState(c, g) \subseteq Group \cup Request
      BY <2>0 DEF EpisodeState, BoundOutcomes, TypeOK, OutcomeRow, View
    <3>3. tx' \in [Caller -> Tx] /\ [request |-> Req(c), episode |-> FALSE] \in Receipt
      BY <2>0, <2>10, <3>1, EndEffect DEF CommitDelivery, End, Receipt
    <3>4. TypeOK'
      BY <2>0, <2>10, <3>1, <3>2, <3>3 DEF CommitDelivery, TypeOK, Answer, End
    <3> QED BY <2>2, <2>10, <3>4 DEF CommitDelivery, End
  <2> QED BY <1>3, <2>0, <2>3, <2>4, <2>5, <2>6, <2>7, <2>8, <2>9, <2>10, StepShapes
<1> QED BY <1>1, <1>2, <1>3 DEF Next

-----------------------------------------------------------------------------
(* The locks, both adapters *)

\* It is enough that the call that moves takes no lock that another one holds.
LEMMA LocksKept ==
    ASSUME LocksExclusive, NEW c \in Caller, \A d \in Others(c) : tx'[d] = tx[d],
           \A d \in Others(c) :
              /\ \A r \in Request : HoldsKey(c, r)' => ~HoldsKey(d, r)
              /\ \A n \in Run : HoldsRun(c, n)' => ~HoldsRun(d, n)
              /\ \A g \in Group : HoldsGroup(c, g)' => ~HoldsGroup(d, g)
    PROVE  LocksExclusive'
<1>1. \A d \in Others(c) :
        /\ \A r \in Request : HoldsKey(d, r)' <=> HoldsKey(d, r)
        /\ \A n \in Run : HoldsRun(d, n)' <=> HoldsRun(d, n)
        /\ \A g \in Group : HoldsGroup(d, g)' <=> HoldsGroup(d, g)
  BY DEF HoldsKey, HoldsRun, HoldsGroup, Holding, Req
<1> QED BY <1>1 DEF LocksExclusive, Others

\* The locks are exclusive: a call gets one only when no other call has it, and
\* keeps it until it commits or rolls back.
LEMMA LocksStep == PhaseInv /\ LocksExclusive /\ [Next]_vars => LocksExclusive'
<1> SUFFICES ASSUME PhaseInv, LocksExclusive, [Next]_vars PROVE LocksExclusive'
  OBVIOUS
<1>1. CASE UNCHANGED vars
  BY <1>1 DEF vars, LocksExclusive, HoldsKey, HoldsRun, HoldsGroup, Holding, Req
<1>2. ASSUME NEW c \in Caller, NEW r \in Request, Begin(c, r) PROVE LocksExclusive'
  <2>1. tx'[c].pc = "begun" /\ \A d \in Others(c) : tx'[d] = tx[d]
    BY <1>2 DEF Begin, PhaseInv, TypeOK, IdleTx, Others
  <2> QED BY <2>1, LocksKept DEF HoldsKey, HoldsRun, HoldsGroup, Holding
<1>3. ASSUME NEW c \in Caller, Advance(c) \/ Abort(c) PROVE LocksExclusive'
  <2>0. TypeOK /\ CallOK(c)
    BY DEF PhaseInv
  <2>1. CASE tx' = [tx EXCEPT ![c] = IdleTx]
    <3>1. tx'[c].pc = "idle" /\ \A d \in Others(c) : tx'[d] = tx[d]
      BY <2>0, <2>1, EndEffect
    <3> QED BY <3>1, LocksKept DEF HoldsKey, HoldsRun, HoldsGroup, Holding
  <2>2. ASSUME NEW at, NEW v, NEW i, Step(c, at, v, i),
               \/ /\ at = "claimed"
                  /\ \A d \in Others(c) : ~HoldsKey(d, Req(c))
               \/ /\ at = "running" /\ tx[c].pc = "claimed"
                  /\ \A d \in Others(c) : ~HoldsRun(d, Req(c).run)
               \/ /\ at = "admitted" /\ tx[c].pc \in {"claimed", "running"}
                  /\ tx[c].pc = "claimed" => Req(c).kind # "delivery" /\ Req(c).role # "agent_act"
               \/ /\ at = "locked" /\ tx[c].pc = "admitted"
                  /\ \A d \in Others(c) : ~HoldsGroup(d, Req(c).group)
        PROVE  LocksExclusive'
    <3>1. /\ tx'[c].pc = at /\ tx'[c].request = tx[c].request
          /\ \A d \in Others(c) : tx'[d] = tx[d]
      BY <2>0, <2>2, StepEffect DEF Req
    <3>2. ASSUME NEW d \in Others(c), NEW r \in Request, HoldsKey(c, r)' PROVE ~HoldsKey(d, r)
      BY <2>2, <3>1, <3>2 DEF HoldsKey, Holding, Req, LocksExclusive
    <3>3. ASSUME NEW d \in Others(c), NEW n \in Run, HoldsRun(c, n)' PROVE ~HoldsRun(d, n)
      BY <2>2, <3>1, <3>3 DEF HoldsRun, Req, LocksExclusive
    <3>4. ASSUME NEW d \in Others(c), NEW g \in Group, HoldsGroup(c, g)' PROVE ~HoldsGroup(d, g)
      BY <2>2, <3>1, <3>4 DEF HoldsGroup, Req, LocksExclusive
    <3> QED BY <3>1, <3>2, <3>3, <3>4, LocksKept
  <2>3. CASE Claims(c)
    BY <2>2, <2>3 DEF Claims
  <2>4. CASE LockFeedbackRun(c)
    BY <2>2, <2>4 DEF LockFeedbackRun
  <2>5. CASE Admits(c)
    <3>1. Req(c).kind = "outcome" => Req(c).role = "outcome"
      BY <2>0, <2>5, RequestsWellFormed DEF Admits, ReadyToAdmit, CallOK
    <3>2. /\ tx[c].pc \in {"claimed", "running"}
          /\ tx[c].pc = "claimed" => Req(c).kind # "delivery" /\ Req(c).role # "agent_act"
      BY <2>5, <3>1 DEF Admits, ReadyToAdmit
    <3> QED BY <2>2, <2>5, <3>2 DEF Admits
  <2>6. CASE LockGroup(c)
    BY <2>2, <2>6 DEF LockGroup
  <2>7. CASE Leaves(c) \/ CommitSource(c) \/ CommitObserve(c) \/ CommitOutcome(c)
             \/ CommitDelivery(c)
    BY <2>1, <2>7 DEF Leaves, CommitSource, CommitObserve, CommitOutcome, CommitDelivery, End
  <2> QED BY <1>3, <2>0, <2>3, <2>4, <2>5, <2>6, <2>7, StepShapes
<1> QED BY <1>1, <1>2, <1>3 DEF Next

-----------------------------------------------------------------------------
(* The sources, both adapters *)

\* A call that ends without a source row takes nothing from the others.
LEMMA SourcesLeft ==
    ASSUME PhaseInv, SourceInv, NEW c \in Caller,
           tx' = [tx EXCEPT ![c] = IdleTx], UNCHANGED sources
    PROVE  SourceInv'
<1>1. /\ tx'[c].pc = "idle" /\ tx'[c].view = Null
      /\ \A d \in Others(c) : tx'[d] = tx[d]
  BY EndEffect DEF PhaseInv
<1>2. ASSUME NEW d \in Caller PROVE AdmissionOK(d)'
  BY <1>1 DEF SourceInv, AdmissionOK, PastAdmission, Others, Req, SourceOf
<1>3. ASSUME NEW d \in Caller PROVE (Visible(d).sources \subseteq sources)'
  BY <1>1 DEF SourceInv, Visible, Others, Committed
<1> QED BY <1>2, <1>3 DEF SourceInv, SourcesUnique

\* A commit writes the source it was admitted for: the row is new, and then the
\* call was alone with the ref, or it is there already.
LEMMA SourcesCommitted ==
    ASSUME PhaseInv, SourceInv, NEW c \in Caller, PastAdmission(c),
           tx' = [tx EXCEPT ![c] = IdleTx], AdmittedSource(c)
    PROVE  SourceInv'
<1>1. /\ tx'[c].pc = "idle" /\ tx'[c].view = Null
      /\ \A d \in Others(c) : tx'[d] = tx[d]
  BY EndEffect DEF PhaseInv
<1>2. AdmissionOK(c) /\ SourcesUnique
  BY DEF SourceInv
<1>3. sources' = sources \cup {SourceOf(Req(c))} /\ SourceOf(Req(c)).source = Req(c).source
  BY DEF AdmittedSource, SourceOf
<1>4. SourcesUnique'
  BY <1>2, <1>3 DEF AdmissionOK, SourcesUnique
<1>5. ASSUME NEW d \in Caller PROVE AdmissionOK(d)'
  <2>1. CASE d = c
    BY <1>1, <2>1 DEF AdmissionOK, PastAdmission
  <2>2. CASE d \in Others(c) /\ PastAdmission(d)
    <3>1. tx'[d] = tx[d] /\ c \in Others(d) /\ AdmissionOK(d)
      BY <1>1, <2>2 DEF Others, SourceInv
    <3>2. CASE tx[d].inserted
      <4>1. /\ \A e \in sources' : e.source # Req(d).source
            /\ \A b \in Others(d) : PastAdmission(b)' => Req(b)' # Req(d)
                                     /\ Req(b)'.source # Req(d).source
        BY <1>1, <1>3, <2>2, <3>1, <3>2 DEF AdmissionOK, PastAdmission, Others, Req
      <4> QED BY <3>1, <3>2, <4>1 DEF AdmissionOK, Req
    <3>3. CASE ~tx[d].inserted
      BY <1>3, <2>2, <3>1, <3>3 DEF AdmissionOK, Req, SourceOf
    <3> QED BY <3>2, <3>3
  <2>3. CASE d \in Others(c) /\ ~PastAdmission(d)
    BY <1>1, <2>3 DEF AdmissionOK, PastAdmission
  <2> QED BY <2>1, <2>2, <2>3 DEF Others
<1>6. ASSUME NEW d \in Caller PROVE (Visible(d).sources \subseteq sources)'
  BY <1>1, <1>3 DEF SourceInv, Visible, Others, Committed
<1> QED BY <1>4, <1>5, <1>6 DEF SourceInv

\* A step between two locks writes no row; what the call reads is committed.
LEMMA SourcesMoved ==
    ASSUME PhaseInv, SourceInv, NEW c \in Caller, NEW at, NEW v, NEW i, Step(c, at, v, i),
           v \in {Null, tx[c].view, Visible(c)},
           \/ at \notin {"admitted", "locked"}
           \/ at = "locked" /\ PastAdmission(c) /\ i = tx[c].inserted
           \/ /\ at = "admitted" /\ ~PastAdmission(c)
              /\ \A d \in Others(c) : ~HoldsSource(d, Req(c).source)
              /\ IF i THEN \A s \in sources : s.source # Req(c).source
                      ELSE SourceOf(Req(c)) \in sources
    PROVE  SourceInv'
<1>1. /\ tx'[c].pc = at /\ tx'[c].request = tx[c].request
      /\ tx'[c].view = v /\ tx'[c].inserted = i
      /\ \A d \in Others(c) : tx'[d] = tx[d]
      /\ UNCHANGED sources
  BY StepEffect DEF PhaseInv, Req, tables
<1>2. \A d \in Caller : AdmissionOK(d)
  BY DEF SourceInv
<1>3. ASSUME NEW d \in Others(c), PastAdmission(d), at = "admitted"
      PROVE  /\ tx[d].inserted => Req(c).source # Req(d).source
             /\ i => Req(c).source # Req(d).source
  <2>1. tx[d].inserted => Req(c).source # Req(d).source
    BY <1>3 DEF HoldsSource, PastAdmission
  <2>2. i /\ ~tx[d].inserted => Req(c).source # Req(d).source
    BY <1>2, <1>3 DEF AdmissionOK, Others, SourceOf, PastAdmission
  <2> QED BY <2>1, <2>2
<1>4. ASSUME NEW d \in Caller PROVE AdmissionOK(d)'
  <2>1. CASE d = c
    <3>1. CASE at \notin {"admitted", "locked"}
      BY <1>1, <2>1, <3>1 DEF AdmissionOK, PastAdmission
    <3>2. CASE at = "locked"
      BY <1>1, <1>2, <2>1, <3>2 DEF AdmissionOK, PastAdmission, Others, Req, SourceOf
    <3>3. CASE at = "admitted"
      BY <1>1, <1>3, <2>1, <3>3 DEF AdmissionOK, PastAdmission, Others, Req, SourceOf
    <3> QED BY <3>1, <3>2, <3>3
  <2>2. CASE d \in Others(c)
    <3>1. ASSUME NEW b \in Others(d), PastAdmission(d), PastAdmission(b)', tx[d].inserted
          PROVE  Req(b)'.source # Req(d).source
      BY <1>1, <1>2, <1>3, <2>2, <3>1 DEF AdmissionOK, PastAdmission, Others, Req
    <3> QED BY <1>1, <1>2, <2>2, <3>1 DEF AdmissionOK, PastAdmission, Others, Req, SourceOf
  <2> QED BY <2>1, <2>2 DEF Others
<1>5. ASSUME NEW d \in Caller PROVE (Visible(d).sources \subseteq sources)'
  BY <1>1 DEF SourceInv, Visible, Others, Committed
<1> QED BY <1>1, <1>4, <1>5 DEF SourceInv, SourcesUnique

\* A source row is written once, and whoever admits the ref again has its content.
LEMMA SourcesStep == PhaseInv /\ SourceInv /\ [Next]_vars => SourceInv'
<1> SUFFICES ASSUME PhaseInv, SourceInv, [Next]_vars PROVE SourceInv'
  OBVIOUS
<1>1. CASE UNCHANGED vars
  BY <1>1 DEF vars, tables, SourceInv, SourcesUnique, AdmissionOK, PastAdmission, Visible,
              Committed, Req
<1>2. ASSUME NEW c \in Caller, NEW r \in Request, Begin(c, r) PROVE SourceInv'
  <2>1. /\ tx'[c].pc = "begun" /\ tx'[c].view = Null /\ \A d \in Others(c) : tx'[d] = tx[d]
        /\ UNCHANGED sources /\ ~PastAdmission(c)
    BY <1>2 DEF Begin, PhaseInv, TypeOK, IdleTx, Others, tables, PastAdmission
  <2>2. ASSUME NEW d \in Caller PROVE AdmissionOK(d)'
    BY <2>1 DEF SourceInv, AdmissionOK, PastAdmission, Others, Req, SourceOf
  <2>3. ASSUME NEW d \in Caller PROVE (Visible(d).sources \subseteq sources)'
    BY <2>1 DEF SourceInv, Visible, Others, Committed
  <2> QED BY <2>1, <2>2, <2>3 DEF SourceInv, SourcesUnique
<1>3. ASSUME NEW c \in Caller, Advance(c) \/ Abort(c) PROVE SourceInv'
  <2>0. /\ TypeOK /\ CallOK(c) /\ Visible(c).sources \subseteq sources
        /\ Pinned(c) \in {Null, Visible(c)}
    BY DEF PhaseInv, SourceInv, Pinned
  <2>1. CASE Claims(c)
    BY <2>0, <2>1, SourcesMoved DEF Claims
  <2>2. CASE LockFeedbackRun(c)
    BY <2>0, <2>2, SourcesMoved DEF LockFeedbackRun
  <2>3. CASE Admits(c)
    <3>1. ~PastAdmission(c)
      BY <2>3 DEF Admits, ReadyToAdmit, PastAdmission
    <3> QED BY <2>0, <2>3, <3>1, SourcesMoved DEF Admits
  <2>4. CASE LockGroup(c)
    <3>1. PastAdmission(c)
      BY <2>4 DEF LockGroup, PastAdmission
    <3> QED BY <2>0, <2>4, <3>1, SourcesMoved DEF LockGroup
  <2>5. CASE CommitSource(c) \/ CommitObserve(c) \/ CommitOutcome(c)
    <3>1. PastAdmission(c)
      BY <2>5 DEF CommitSource, CommitObserve, CommitOutcome, PastAdmission
    <3> QED BY <2>5, <3>1, SourcesCommitted DEF CommitSource, CommitObserve, CommitOutcome, End
  <2>6. CASE Leaves(c) \/ CommitDelivery(c)
    BY <2>6, SourcesLeft DEF Leaves, CommitDelivery, End, tables
  <2> QED BY <1>3, <2>0, <2>1, <2>2, <2>3, <2>4, <2>5, <2>6, StepShapes
<1> QED BY <1>1, <1>2, <1>3 DEF Next

-----------------------------------------------------------------------------
(* The keys, both adapters *)

\* Materialization binds Outcomes and reports none.
LEMMA ReportedAfter ==
    ASSUME TypeOK, NEW c \in Caller
    PROVE  {o.request : o \in OutcomesAfter(c)} = Reported
<1>1. BoundOutcomes(c) \subseteq outcomes
  BY DEF BoundOutcomes
<1>2. \A o \in BoundOutcomes(c) : [o EXCEPT !.bound = TRUE].request = o.request
  BY <1>1 DEF TypeOK, OutcomeRow
<1>3. Reported = {o.request : o \in outcomes \ BoundOutcomes(c)}
                  \cup {o.request : o \in BoundOutcomes(c)}
  BY <1>1 DEF Reported
<1>4. {o.request : o \in {[b EXCEPT !.bound = TRUE] : b \in BoundOutcomes(c)}}
        = {o.request : o \in BoundOutcomes(c)}
  BY <1>2
<1>5. {o.request : o \in OutcomesAfter(c)}
        = {o.request : o \in outcomes \ BoundOutcomes(c)}
          \cup {o.request : o \in {[b EXCEPT !.bound = TRUE] : b \in BoundOutcomes(c)}}
  BY DEF OutcomesAfter
<1> QED BY <1>3, <1>4, <1>5

\* A commit writes the one row of its key and answers from it.
LEMMA KeysCommitted ==
    ASSUME PhaseInv, LocksExclusive, KeyInv, NEW c \in Caller, Holding(c),
           tx' = [tx EXCEPT ![c] = IdleTx], NEW e \in BOOLEAN,
           LET p == [request |-> Req(c), episode |-> e] IN
           /\ replies' = replies \cup {p}
           /\ \/ /\ Req(c).kind = "observe" /\ receipts' = receipts \cup {p}
                 /\ Reported' = Reported /\ UNCHANGED deliveries
              \/ /\ Req(c).kind = "outcome" /\ Reported' = Reported \cup {Req(c)}
                 /\ UNCHANGED <<receipts, deliveries>>
              \/ /\ Req(c).kind = "delivery" /\ deliveries' = deliveries \cup {Req(c)}
                 /\ Reported' = Reported /\ UNCHANGED receipts
    PROVE  KeyInv'
<1> DEFINE p == [request |-> Req(c), episode |-> e]
<1>1. /\ tx'[c].pc = "idle"
      /\ \A d \in Others(c) : tx'[d] = tx[d]
  BY EndEffect DEF PhaseInv
<1>2. Unknown(Req(c)) /\ RowsUnique /\ p.request = Req(c)
  BY DEF KeyInv
<1>3. ASSUME NEW d \in Caller, Holding(d)' PROVE Unknown(Req(d))'
  <2>1. d \in Others(c) /\ tx'[d] = tx[d] /\ Holding(d)
    BY <1>1, <1>3 DEF Others, Holding
  <2>2. Req(d).kind # Req(c).kind \/ Req(d).key # Req(c).key
    <3>1. Req(c) \in Request
      BY DEF PhaseInv, CallOK, Holding
    <3> QED BY <2>1, <3>1 DEF LocksExclusive, HoldsKey
  <2>3. Unknown(Req(d)) /\ Req(d)' = Req(d)
    BY <2>1 DEF KeyInv, Req
  <2> QED BY <2>2, <2>3 DEF Unknown
<1>4. RowsUnique'
  BY <1>2 DEF RowsUnique, Unknown
<1>5. ASSUME NEW q \in replies' PROVE Recorded(q)'
  BY <1>2 DEF KeyInv, Recorded
<1> QED BY <1>3, <1>4, <1>5 DEF KeyInv

\* One row for a key, written while its lock is held; every answer that has been
\* given is the one of that row.
LEMMA KeysStep == PhaseInv /\ LocksExclusive /\ KeyInv /\ [Next]_vars => KeyInv'
<1> SUFFICES ASSUME PhaseInv, LocksExclusive, KeyInv, [Next]_vars PROVE KeyInv'
  OBVIOUS
<1>0. ASSUME UNCHANGED <<receipts, outcomes, deliveries>>,
             \A d \in Caller : Holding(d)' => Unknown(Req(d)'),
             \A q \in replies' : Recorded(q)
      PROVE  KeyInv'
  BY <1>0 DEF KeyInv, RowsUnique, Unknown, Recorded, Reported
<1>1. CASE UNCHANGED vars
  BY <1>0, <1>1 DEF vars, tables, KeyInv, Holding, Req
<1>2. ASSUME NEW c \in Caller, NEW r \in Request, Begin(c, r) PROVE KeyInv'
  <2>1. tx'[c].pc = "begun" /\ \A d \in Others(c) : tx'[d] = tx[d]
    BY <1>2 DEF Begin, PhaseInv, TypeOK, IdleTx, Others
  <2> QED BY <1>0, <1>2, <2>1 DEF Begin, tables, KeyInv, Holding, Req, Others
<1>3. ASSUME NEW c \in Caller, Advance(c) \/ Abort(c) PROVE KeyInv'
  <2>0. TypeOK /\ CallOK(c)
    BY DEF PhaseInv
  <2>1. ASSUME NEW at, NEW v, NEW i, Step(c, at, v, i), Holding(c) \/ Unknown(Req(c))
        PROVE  KeyInv'
    <3>1. /\ tx'[c].request = tx[c].request /\ \A d \in Others(c) : tx'[d] = tx[d]
          /\ UNCHANGED tables /\ UNCHANGED replies
      BY <2>0, <2>1, StepEffect DEF Req
    <3>2. Unknown(Req(c))
      BY <2>1 DEF KeyInv
    <3> QED BY <1>0, <3>1, <3>2 DEF tables, KeyInv, Holding, Req, Others
  <2>2. CASE Leaves(c)
    <3>1. /\ tx'[c].pc = "idle" /\ \A d \in Others(c) : tx'[d] = tx[d]
      BY <2>0, <2>2, EndEffect DEF Leaves
    <3>2. \A q \in replies' : Recorded(q)
      BY <2>2 DEF Leaves, KeyInv, Answer
    <3> QED BY <1>0, <2>2, <3>1, <3>2 DEF Leaves, tables, KeyInv, Holding, Req, Others
  <2>3. CASE Claims(c)
    BY <2>1, <2>3 DEF Claims
  <2>4. CASE LockFeedbackRun(c) \/ Admits(c) \/ LockGroup(c)
    <3>1. Holding(c)
      BY <2>4 DEF LockFeedbackRun, Admits, ReadyToAdmit, LockGroup, Holding
    <3> QED BY <2>1, <2>4, <3>1 DEF LockFeedbackRun, Admits, LockGroup
  <2>5. CASE CommitSource(c)
    <3>1. Holding(c) /\ Req(c).kind = "observe"
      BY <2>0, <2>5, RequestsWellFormed DEF CommitSource, CallOK, Holding, RequestShape
    <3> QED BY <2>5, <3>1, KeysCommitted
            DEF CommitSource, Freeze, Answer, End, Reported
  <2>6. CASE CommitObserve(c)
    <3>1. Holding(c) /\ Req(c).kind = "observe" /\ HasEpisode(c) \in BOOLEAN
      BY <2>6 DEF CommitObserve, Holding, HasEpisode, Found, Materializes
    <3>2. Reported' = Reported
      BY <2>0, <2>6, ReportedAfter DEF CommitObserve, Reported
    <3> QED BY <2>6, <3>1, <3>2, KeysCommitted DEF CommitObserve, Freeze, Answer, End
  <2>7. CASE CommitOutcome(c)
    <3>1. Holding(c) /\ Req(c).kind = "outcome" /\ HasEpisode(c) \in BOOLEAN
      BY <2>7 DEF CommitOutcome, Holding, HasEpisode, Found, Materializes
    <3>2. Reported' = Reported \cup {Req(c)}
      <4> DEFINE new == [request |-> Req(c), bound |-> HasEpisode(c)]
      <4>1. outcomes' = OutcomesAfter(c) \cup {new} /\ new.request = Req(c)
        BY <2>7 DEF CommitOutcome
      <4>2. Reported' = {o.request : o \in OutcomesAfter(c)} \cup {new.request}
        BY <4>1 DEF Reported
      <4> QED BY <2>0, <4>1, <4>2, ReportedAfter
    <3> QED BY <2>7, <3>1, <3>2, KeysCommitted DEF CommitOutcome, Answer, End
  <2>8. CASE CommitDelivery(c)
    <3>1. Holding(c) /\ Req(c).kind = "delivery" /\ Reported' = Reported
      BY <2>8 DEF CommitDelivery, Holding, Reported
    <3> QED BY <2>8, <3>1, KeysCommitted DEF CommitDelivery, Answer, End
  <2> QED BY <1>3, <2>0, <2>2, <2>3, <2>4, <2>5, <2>6, <2>7, <2>8, StepShapes
<1> QED BY <1>1, <1>2, <1>3 DEF Next

-----------------------------------------------------------------------------
(* The views, PostgreSQL *)

\* The rows of a call's link and of its materialization: the keys are those that
\* were there and the new one, and other groups are left alone.
LEMMA WrittenLinks ==
    ASSUME PhaseInv, NEW c \in Caller, tx[c].pc = "locked", WriteGroup(c)
    PROVE  /\ \A l \in links' : \E k \in links \cup NewLinks(c) :
                 /\ l.group = k.group /\ l.source = k.source /\ l.role = k.role
                 /\ IF Materializes(c) /\ k.group = Req(c).group THEN l.bound ELSE l = k
           /\ \A k \in links \cup NewLinks(c) : \E l \in links' :
                 /\ l.group = k.group /\ l.source = k.source /\ l.role = k.role
                 /\ k.group # Req(c).group => l = k
           /\ \A k \in NewLinks(c) : /\ k.group = Req(c).group /\ k.source = Req(c).source
                                     /\ k.role = Req(c).role /\ k.bound = Found(c)
           /\ links \cup NewLinks(c) \subseteq LinkRow
<1>1. links \cup NewLinks(c) \subseteq LinkRow
  <2>1. /\ Req(c).group \in Group /\ Req(c).source \in Source /\ Req(c).role \in Role
        /\ Found(c) \in BOOLEAN
    BY RequestsWellFormed DEF PhaseInv, CallOK, RequestShape, Found
  <2> QED BY <2>1 DEF PhaseInv, TypeOK, NewLinks, LinkRow
<1>2. \A k \in links \cup NewLinks(c) :
         LET l == [k EXCEPT !.bound = TRUE] IN
         l.group = k.group /\ l.source = k.source /\ l.role = k.role /\ l.bound
  BY <1>1 DEF LinkRow
<1>3. links' = {IF Materializes(c) /\ k.group = Req(c).group
                THEN [k EXCEPT !.bound = TRUE] ELSE k : k \in links \cup NewLinks(c)}
  BY DEF WriteGroup
<1>4. ASSUME NEW l \in links'
      PROVE  \E k \in links \cup NewLinks(c) :
                 /\ l.group = k.group /\ l.source = k.source /\ l.role = k.role
                 /\ IF Materializes(c) /\ k.group = Req(c).group THEN l.bound ELSE l = k
  BY <1>2, <1>3
<1>5. ASSUME NEW k \in links \cup NewLinks(c)
      PROVE  \E l \in links' :
                 /\ l.group = k.group /\ l.source = k.source /\ l.role = k.role
                 /\ k.group # Req(c).group => l = k
  <2> DEFINE l == IF Materializes(c) /\ k.group = Req(c).group
                  THEN [k EXCEPT !.bound = TRUE] ELSE k
  <2>1. l \in links'
    BY <1>3
  <2> QED BY <1>2, <2>1
<1>6. \A k \in NewLinks(c) : /\ k.group = Req(c).group /\ k.source = Req(c).source
                             /\ k.role = Req(c).role /\ k.bound = Found(c)
  BY DEF NewLinks
<1> QED BY <1>1, <1>4, <1>5, <1>6

\* What the other calls have read under their locks survives a step that writes
\* neither links nor Episodes.
LEMMA ViewsKept ==
    ASSUME ViewInv, NEW c \in Caller, \A d \in Others(c) : tx'[d] = tx[d],
           UNCHANGED <<links, episodes>>,
           GroupViewCurrent(c)', RunViewCurrent(c)'
    PROVE  ViewInv'
<1> SUFFICES ASSUME NEW d \in Others(c) PROVE GroupViewCurrent(d)' /\ RunViewCurrent(d)'
  BY DEF ViewInv, Others
<1>1. /\ tx'[d] = tx[d] /\ GroupViewCurrent(d) /\ RunViewCurrent(d)
      /\ Visible(d)'.links = Visible(d).links /\ Visible(d)'.episodes = Visible(d).episodes
  BY DEF ViewInv, Others, Visible, Committed
<1> QED BY <1>1 DEF GroupViewCurrent, RunViewCurrent, Req, Found, ActSeen

\* The same of a step that writes the group of a call that has locked it: others
\* hold the locks of other groups, and a delivery that of another run.
LEMMA ViewsOfOthers ==
    ASSUME PhaseInv, LocksExclusive, ViewInv, NEW c \in Caller, tx[c].pc = "locked",
           WriteGroup(c), tx' = [tx EXCEPT ![c] = IdleTx]
    PROVE  ViewInv'
<1>1. tx'[c].pc = "idle" /\ \A d \in Others(c) : tx'[d] = tx[d]
  BY EndEffect DEF PhaseInv
<1>2. ASSUME NEW d \in Caller PROVE GroupViewCurrent(d)' /\ RunViewCurrent(d)'
  <2>1. CASE d = c
    BY <1>1, <2>1 DEF GroupViewCurrent, RunViewCurrent
  <2>2. CASE d \in Others(c) /\ tx[d].view = Null
    <3>1. tx'[d] = tx[d] /\ Visible(d)' = Committed'
      BY <1>1, <2>2 DEF Visible
    <3> QED BY <3>1 DEF GroupViewCurrent, RunViewCurrent, Found, ActSeen, Committed, Req
  <2>3. CASE d \in Others(c) /\ tx[d].view # Null
    <3>1. tx'[d] = tx[d] /\ Visible(d)' = Visible(d) /\ Req(d)' = Req(d)
          /\ GroupViewCurrent(d) /\ RunViewCurrent(d)
      BY <1>1, <2>3 DEF Visible, Req, ViewInv, Others
    <3>2. ASSUME tx[d].pc = "locked" PROVE GroupViewCurrent(d)'
      <4>1. Req(d).group \in Group /\ Req(c).group \in Group
        BY <2>3, <3>2, RequestsWellFormed DEF PhaseInv, CallOK, RequestShape, Others
      <4>2. Req(d).group # Req(c).group
        BY <2>3, <3>2, <4>1 DEF LocksExclusive, HoldsGroup
      <4>3. Req(d).group \in episodes' <=> Req(d).group \in episodes
        BY <4>2 DEF WriteGroup
      <4>4. \A l \in LinkRow : l.group = Req(d).group => (l \in links' <=> l \in links)
        BY <4>2, WrittenLinks
      <4> QED BY <3>1, <4>3, <4>4, <3>2 DEF GroupViewCurrent, Found
    <3>3. ASSUME tx[d].pc = "running", Req(d).kind = "delivery",
                 NEW l \in links', RunOf[l.group] = Req(d).run, l.role = "agent_act"
          PROVE  ActSeen(d)
      <4>1. PICK k \in links \cup NewLinks(c) : k.group = l.group /\ k.role = l.role
        BY WrittenLinks
      <4>2. CASE k \in links
        BY <3>1, <3>3, <4>1, <4>2 DEF RunViewCurrent
      <4>3. CASE k \in NewLinks(c)
        <5>1. k.group = Req(c).group /\ Req(c).role = "agent_act"
          BY <3>3, <4>1, <4>3, WrittenLinks
        <5>2. Req(c) \in Request /\ Req(d) \in Request /\ Req(c).group # Null
          BY <2>3, <3>3 DEF PhaseInv, CallOK, Others
        <5>3. Req(c).run = Req(d).run /\ Req(c).run \in Run
          BY <3>3, <4>1, <5>1, <5>2, RequestsWellFormed DEF RequestShape
        <5>4. HoldsRun(c, Req(c).run) /\ HoldsRun(d, Req(c).run)
          BY <3>3, <5>1, <5>3 DEF HoldsRun
        <5> QED BY <2>3, <5>3, <5>4 DEF LocksExclusive
      <4> QED BY <4>2, <4>3
    <3>4. RunViewCurrent(d)'
      BY <3>1, <3>3 DEF RunViewCurrent, ActSeen, Req
    <3>5. GroupViewCurrent(d)'
      BY <3>1, <3>2 DEF GroupViewCurrent
    <3> QED BY <3>4, <3>5
  <2> QED BY <2>1, <2>2, <2>3 DEF Others
<1> QED BY <1>2 DEF ViewInv

\* On PostgreSQL what a call has read under a lock stays true until it commits:
\* READ COMMITTED reads the present, and nobody else may change it meanwhile.
LEMMA ViewsStep ==
    Adapter = "postgres" /\ PhaseInv /\ LocksExclusive /\ ViewInv /\ [Next]_vars => ViewInv'
<1> SUFFICES ASSUME Adapter = "postgres", PhaseInv, LocksExclusive, ViewInv, [Next]_vars
             PROVE  ViewInv'
  OBVIOUS
<1>1. CASE UNCHANGED vars
  BY <1>1 DEF vars, tables, ViewInv, GroupViewCurrent, RunViewCurrent, Found, ActSeen,
              Visible, Committed, Req
<1>2. ASSUME NEW c \in Caller, NEW r \in Request, Begin(c, r) PROVE ViewInv'
  <2>1. tx'[c].pc = "begun" /\ \A d \in Others(c) : tx'[d] = tx[d]
    BY <1>2 DEF Begin, PhaseInv, TypeOK, IdleTx, Others
  <2> QED BY <1>2, <2>1, ViewsKept DEF Begin, tables, GroupViewCurrent, RunViewCurrent
<1>3. ASSUME NEW c \in Caller, Advance(c) \/ Abort(c) PROVE ViewInv'
  <2>0. TypeOK /\ CallOK(c)
    BY DEF PhaseInv
  <2>1. CASE /\ tx' = [tx EXCEPT ![c] = IdleTx]
             /\ UNCHANGED <<links, episodes>>
    <3>1. tx'[c].pc = "idle" /\ \A d \in Others(c) : tx'[d] = tx[d]
      BY <2>0, <2>1, EndEffect
    <3> QED BY <2>1, <3>1, ViewsKept DEF GroupViewCurrent, RunViewCurrent
  <2>2. ASSUME NEW at, NEW v, NEW i, Step(c, at, v, i),
               \/ at \notin {"running", "locked"}
               \/ at \in {"running", "locked"} /\ tx[c].view = Null /\ v = Visible(c)
               \/ at = "running" /\ Req(c).kind # "delivery"
        PROVE  ViewInv'
    <3>1. /\ tx'[c].pc = at /\ tx'[c].request = tx[c].request /\ tx'[c].view = v
          /\ \A d \in Others(c) : tx'[d] = tx[d]
          /\ UNCHANGED <<links, episodes>> /\ Committed' = Committed
      BY <2>0, <2>2, StepEffect DEF Req, tables, Committed
    <3>2. CASE at \notin {"running", "locked"}
      BY <3>1, <3>2, ViewsKept DEF GroupViewCurrent, RunViewCurrent
    <3>3. CASE at = "running" /\ Req(c).kind # "delivery"
      BY <3>1, <3>3, ViewsKept DEF GroupViewCurrent, RunViewCurrent, Req
    <3>4. CASE at \in {"running", "locked"} /\ tx[c].view = Null /\ v = Visible(c)
      <4>1. Visible(c)' = Committed'
        BY <3>1, <3>4 DEF Visible
      <4>2. GroupViewCurrent(c)' /\ RunViewCurrent(c)'
        BY <4>1 DEF GroupViewCurrent, RunViewCurrent, Found, ActSeen, Committed
      <4> QED BY <3>1, <4>2, ViewsKept
    <3> QED BY <2>2, <3>2, <3>3, <3>4
  <2>3. CASE Claims(c) \/ Admits(c)
    BY <2>2, <2>3 DEF Claims, Admits
  <2>4. CASE LockFeedbackRun(c)
    BY <2>0, <2>2, <2>4 DEF LockFeedbackRun, CallOK
  <2>5. CASE LockGroup(c)
    BY <2>0, <2>2, <2>5 DEF LockGroup, CallOK
  <2>6. CASE Leaves(c) \/ CommitSource(c) \/ CommitDelivery(c)
    BY <2>1, <2>6 DEF Leaves, tables, CommitSource, CommitDelivery, End
  <2>7. CASE CommitObserve(c) \/ CommitOutcome(c)
    BY <2>7, ViewsOfOthers DEF CommitObserve, CommitOutcome, End
  <2> QED BY <1>3, <2>0, <2>3, <2>4, <2>5, <2>6, <2>7, StepShapes
<1> QED BY <1>1, <1>2, <1>3 DEF Next

-----------------------------------------------------------------------------
(* Episodes and what belongs to them, PostgreSQL *)

\* Under the group lock the decisions of appendLinkAndMaterialize are those of
\* the rows that are there.
LEMMA DecidedOnRows ==
    ASSUME PhaseInv, ViewInv, NEW c \in Caller, tx[c].pc = "locked"
    PROVE  /\ Req(c).group \in Group
           /\ Found(c) <=> Req(c).group \in episodes
           /\ Materializes(c) <=> /\ Req(c).group \notin episodes
                                  /\ DistinctRoleGate(links \cup NewLinks(c), Req(c).group)
           /\ Stored(c, Visible(c).links) <=> Stored(c, links)
<1>1. Req(c).group \in Group
  BY RequestsWellFormed DEF PhaseInv, CallOK, RequestShape
<1>2. Visible(c).links \subseteq LinkRow /\ links \subseteq LinkRow
  BY VisibleType DEF PhaseInv, TypeOK, View
<1>3. /\ Found(c) <=> Req(c).group \in episodes
      /\ \A l \in LinkRow : l.group = Req(c).group => (l \in Visible(c).links <=> l \in links)
  BY DEF ViewInv, GroupViewCurrent
<1>4. DistinctRoleGate(Visible(c).links \cup NewLinks(c), Req(c).group)
        <=> DistinctRoleGate(links \cup NewLinks(c), Req(c).group)
  BY <1>2, <1>3 DEF DistinctRoleGate
<1>5. \A l \in LinkRow : LinkKey(l) = LinkKey(Req(c)) => l.group = Req(c).group
  BY DEF LinkKey
<1>6. Stored(c, Visible(c).links) <=> Stored(c, links)
  BY <1>2, <1>3, <1>5 DEF Stored
<1> QED BY <1>1, <1>3, <1>4, <1>6 DEF Materializes

\* The gate looks at no more than group, source and role of the links.
LEMMA GateOfWritten ==
    ASSUME PhaseInv, NEW c \in Caller, tx[c].pc = "locked", WriteGroup(c), NEW g \in Group
    PROVE  /\ DistinctRoleGate(links', g) <=> DistinctRoleGate(links \cup NewLinks(c), g)
           /\ g # Req(c).group
                => (DistinctRoleGate(links \cup NewLinks(c), g) <=> DistinctRoleGate(links, g))
<1>1. DistinctRoleGate(links', g) => DistinctRoleGate(links \cup NewLinks(c), g)
  <2> SUFFICES ASSUME NEW s \in links', NEW a \in links',
                      s.group = g, s.role = "situation",
                      a.group = g, a.role = "agent_act", a.source # s.source
               PROVE  DistinctRoleGate(links \cup NewLinks(c), g)
    BY DEF DistinctRoleGate
  <2>1. PICK k \in links \cup NewLinks(c) :
           k.group = s.group /\ k.source = s.source /\ k.role = s.role
    BY WrittenLinks
  <2>2. PICK j \in links \cup NewLinks(c) :
           j.group = a.group /\ j.source = a.source /\ j.role = a.role
    BY WrittenLinks
  <2> QED BY <2>1, <2>2 DEF DistinctRoleGate
<1>2. DistinctRoleGate(links \cup NewLinks(c), g) => DistinctRoleGate(links', g)
  <2> SUFFICES ASSUME NEW s \in links \cup NewLinks(c), NEW a \in links \cup NewLinks(c),
                      s.group = g, s.role = "situation",
                      a.group = g, a.role = "agent_act", a.source # s.source
               PROVE  DistinctRoleGate(links', g)
    BY DEF DistinctRoleGate
  <2>1. PICK k \in links' : k.group = s.group /\ k.source = s.source /\ k.role = s.role
    BY WrittenLinks
  <2>2. PICK j \in links' : j.group = a.group /\ j.source = a.source /\ j.role = a.role
    BY WrittenLinks
  <2> QED BY <2>1, <2>2 DEF DistinctRoleGate
<1>3. g # Req(c).group
        => (DistinctRoleGate(links \cup NewLinks(c), g) <=> DistinctRoleGate(links, g))
  BY WrittenLinks DEF DistinctRoleGate
<1> QED BY <1>1, <1>2, <1>3

\* The Episode rows after a commit are those the gate asks for.
LEMMA GateCommitted ==
    ASSUME PhaseInv, ViewInv, GateInv, NEW c \in Caller, tx[c].pc = "locked", WriteGroup(c)
    PROVE  GateInv'
<1> SUFFICES ASSUME NEW g \in Group
             PROVE  g \in episodes' <=> DistinctRoleGate(links', g)
  BY DEF GateInv
<1>1. g \in episodes <=> DistinctRoleGate(links, g)
  BY DEF GateInv
<1>2. g \in episodes' <=> g \in episodes \/ (g = Req(c).group /\ Materializes(c))
  BY DEF WriteGroup
<1>3. CASE g # Req(c).group
  BY <1>1, <1>2, <1>3, GateOfWritten
<1>4. CASE g = Req(c).group
  <2>1. DistinctRoleGate(links, g) => DistinctRoleGate(links \cup NewLinks(c), g)
    BY DEF DistinctRoleGate
  <2> QED BY <1>1, <1>2, <1>4, <2>1, GateOfWritten, DecidedOnRows
<1> QED BY <1>3, <1>4

\* After a commit the links of the group carry the ref of its Episode, and so do
\* its Outcomes, the one that is reported included.
LEMMA BoundCommitted ==
    ASSUME PhaseInv, ViewInv, EvidenceBound, NEW c \in Caller, tx[c].pc = "locked",
           WriteGroup(c), NEW new \in SUBSET OutcomeRow,
           \A o \in new : o.request.group = Req(c).group /\ o.bound = HasEpisode(c),
           outcomes' = OutcomesAfter(c) \cup new
    PROVE  /\ \A l \in links' : l.bound <=> l.group \in episodes'
           /\ \A o \in outcomes' : o.bound <=> o.request.group \in episodes'
<1>0. /\ Found(c) <=> Req(c).group \in episodes
      /\ Materializes(c) => ~Found(c)
      /\ HasEpisode(c) <=> Found(c) \/ Materializes(c)
  <2>1. Found(c) <=> Req(c).group \in episodes
    BY DecidedOnRows
  <2>2. Materializes(c) => ~Found(c)
    BY DEF Materializes
  <2> QED BY <2>1, <2>2 DEF HasEpisode
<1>1. \A g : g \in episodes' <=> g \in episodes \/ (g = Req(c).group /\ Materializes(c))
  BY DEF WriteGroup
<1>2. \A l \in links : l.bound <=> l.group \in episodes
  BY DEF EvidenceBound
<1>3. ASSUME NEW l \in links' PROVE l.bound <=> l.group \in episodes'
  <2>1. PICK k \in links \cup NewLinks(c) :
           /\ l.group = k.group
           /\ IF Materializes(c) /\ k.group = Req(c).group THEN l.bound ELSE l = k
    BY WrittenLinks
  <2>2. k.bound <=> k.group \in episodes
    BY <1>0, <1>2, WrittenLinks
  <2> QED BY <1>1, <2>1, <2>2
<1>4. \A o \in outcomes : o \in OutcomeRow /\ (o.bound <=> o.request.group \in episodes)
  BY DEF EvidenceBound, PhaseInv, TypeOK
<1>5. ASSUME NEW o \in OutcomesAfter(c) PROVE o.bound <=> o.request.group \in episodes'
  <2>1. CASE o \in outcomes \ BoundOutcomes(c)
    BY <1>1, <1>4, <2>1 DEF BoundOutcomes
  <2>2. ASSUME NEW b \in BoundOutcomes(c), o = [b EXCEPT !.bound = TRUE]
        PROVE  o.bound /\ o.request.group \in episodes'
    <3>1. b \in OutcomeRow /\ Materializes(c) /\ b.request.group = Req(c).group
      BY <1>4, <2>2 DEF BoundOutcomes
    <3> QED BY <1>1, <2>2, <3>1 DEF OutcomeRow
  <2> QED BY <2>1, <2>2 DEF OutcomesAfter
<1>6. ASSUME NEW o \in new PROVE o.bound <=> o.request.group \in episodes'
  BY <1>0, <1>1
<1> QED BY <1>3, <1>5, <1>6

\* The Outcomes that carry a ref after a commit carried it before, have just been
\* bound, or are the one that is reported.
LEMMA BoundRequests ==
    ASSUME TypeOK, NEW c \in Caller, NEW o \in OutcomesAfter(c), o.bound
    PROVE  o \in outcomes \/ \E b \in BoundOutcomes(c) : o.request = b.request
<1>1. CASE o \in outcomes \ BoundOutcomes(c)
  BY <1>1
<1>2. ASSUME NEW b \in BoundOutcomes(c), o = [b EXCEPT !.bound = TRUE]
      PROVE  o.request = b.request
  BY <1>2 DEF BoundOutcomes, TypeOK, OutcomeRow
<1> QED BY <1>1, <1>2 DEF OutcomesAfter

\* The commit that materializes an Episode hands it and its Outcomes to the
\* consolidation queue and the Episode to the index.
LEMMA QueuedCommitted ==
    ASSUME PhaseInv, ViewInv, EvidenceBound, NEW c \in Caller, tx[c].pc = "locked",
           WriteGroup(c), EnqueueProjection(c), queued \subseteq queued',
           Materializes(c) => EpisodeState(c, Req(c).group) \subseteq queued'
    PROVE  /\ episodes' \subseteq queued'
           /\ \A o \in OutcomesAfter(c) : o.bound => o.request \in queued'
           /\ \A g \in episodes' : \E p \in projected' : p.group = g
<1>1. /\ episodes \subseteq queued
      /\ \A o \in outcomes : o.bound => o.request \in queued
      /\ \A g \in episodes : \E p \in projected : p.group = g
  BY DEF EvidenceBound
<1>2. episodes' = episodes \cup IF Materializes(c) THEN {Req(c).group} ELSE {}
  BY DEF WriteGroup
<1>3. episodes' \subseteq queued'
  BY <1>1, <1>2 DEF EpisodeState
<1>4. ASSUME NEW o \in OutcomesAfter(c), o.bound PROVE o.request \in queued'
  <2>1. CASE o \in outcomes
    BY <1>1, <1>4, <2>1
  <2>2. ASSUME NEW b \in BoundOutcomes(c), o.request = b.request PROVE o.request \in queued'
    BY <2>2 DEF BoundOutcomes, EpisodeState
  <2> QED BY <1>4, <2>1, <2>2, BoundRequests DEF PhaseInv
<1>5. Materializes(c) => LinkKey(Req(c)) \in projected' /\ LinkKey(Req(c)).group = Req(c).group
  BY DEF EnqueueProjection, Changed, HasEpisode, LinkKey
<1>6. projected \subseteq projected'
  BY DEF EnqueueProjection
<1>7. \A g \in episodes' : \E p \in projected' : p.group = g
  BY <1>1, <1>2, <1>5, <1>6
<1> QED BY <1>3, <1>4, <1>7

LEMMA EvidenceStep ==
    PhaseInv /\ ViewInv /\ GateInv /\ EvidenceBound /\ [Next]_vars => GateInv' /\ EvidenceBound'
<1> SUFFICES ASSUME PhaseInv, ViewInv, GateInv, EvidenceBound, [Next]_vars
             PROVE  GateInv' /\ EvidenceBound'
  OBVIOUS
<1>0. UNCHANGED <<links, episodes, outcomes, projected>> /\ queued \subseteq queued'
        => GateInv' /\ EvidenceBound'
  BY DEF GateInv, DistinctRoleGate, EvidenceBound
<1>1. CASE UNCHANGED vars
  BY <1>0, <1>1 DEF vars, tables
<1>2. ASSUME NEW c \in Caller, NEW r \in Request, Begin(c, r) PROVE GateInv' /\ EvidenceBound'
  BY <1>0, <1>2 DEF Begin, tables
<1>3. ASSUME NEW c \in Caller, Advance(c) \/ Abort(c) PROVE GateInv' /\ EvidenceBound'
  <2>0. TypeOK /\ CallOK(c)
    BY DEF PhaseInv
  <2>1. CASE Leaves(c) \/ Claims(c) \/ LockFeedbackRun(c) \/ Admits(c) \/ LockGroup(c)
    BY <1>0, <2>1 DEF Leaves, Claims, LockFeedbackRun, Admits, LockGroup, Step, tables
  <2>2. CASE CommitSource(c) \/ CommitDelivery(c)
    BY <1>0, <2>2 DEF CommitSource, CommitDelivery
  <2>3. CASE CommitObserve(c)
    <3>1. /\ tx[c].pc = "locked" /\ WriteGroup(c) /\ EnqueueProjection(c)
          /\ outcomes' = OutcomesAfter(c) \cup {}
          /\ queued' = queued \cup IF Changed(c) /\ HasEpisode(c)
                                   THEN EpisodeState(c, Req(c).group) ELSE {}
      BY <2>3 DEF CommitObserve
    <3>2. Materializes(c) => Changed(c) /\ HasEpisode(c)
      BY DEF Changed, HasEpisode
    <3>3. /\ \A l \in links' : l.bound <=> l.group \in episodes'
          /\ \A o \in outcomes' : o.bound <=> o.request.group \in episodes'
      <4>1. {} \in SUBSET OutcomeRow
        OBVIOUS
      <4>2. \A o \in {} : o.request.group = Req(c).group /\ o.bound = HasEpisode(c)
        OBVIOUS
      <4> QED BY <3>1, <4>1, <4>2, BoundCommitted
    <3>4. /\ episodes' \subseteq queued'
          /\ \A o \in outcomes' : o.bound => o.request \in queued'
          /\ \A g \in episodes' : \E p \in projected' : p.group = g
      BY <3>1, <3>2, QueuedCommitted
    <3> QED BY <3>1, <3>3, <3>4, GateCommitted DEF EvidenceBound
  <2>4. CASE CommitOutcome(c)
    <3> DEFINE row == [request |-> Req(c), bound |-> HasEpisode(c)]
    <3>1. /\ tx[c].pc = "locked" /\ WriteGroup(c) /\ EnqueueProjection(c)
          /\ outcomes' = OutcomesAfter(c) \cup {row}
          /\ queued' = queued \cup IF HasEpisode(c)
                                   THEN EpisodeState(c, Req(c).group) \cup {Req(c)} ELSE {}
      BY <2>4 DEF CommitOutcome
    <3>2. Materializes(c) => HasEpisode(c)
      BY DEF HasEpisode
    <3>3. /\ {row} \in SUBSET OutcomeRow
          /\ \A o \in {row} : o.request.group = Req(c).group /\ o.bound = HasEpisode(c)
      <4>1. HasEpisode(c) \in BOOLEAN /\ Req(c) \in Request
        BY <2>0, <3>1 DEF HasEpisode, Found, Materializes, CallOK
      <4> QED BY <4>1 DEF OutcomeRow
    <3>4. /\ \A l \in links' : l.bound <=> l.group \in episodes'
          /\ \A o \in outcomes' : o.bound <=> o.request.group \in episodes'
      BY <3>1, <3>3, BoundCommitted
    <3>5. /\ episodes' \subseteq queued'
          /\ \A o \in OutcomesAfter(c) : o.bound => o.request \in queued'
          /\ \A g \in episodes' : \E p \in projected' : p.group = g
      BY <3>1, <3>2, QueuedCommitted
    <3>6. row.bound => row.request \in queued'
      BY <3>1
    <3> QED BY <3>1, <3>4, <3>5, <3>6, GateCommitted DEF EvidenceBound
  <2> QED BY <1>3, <2>0, <2>1, <2>2, <2>3, <2>4, StepShapes
<1> QED BY <1>1, <1>2, <1>3 DEF Next

-----------------------------------------------------------------------------
(* The ledger, PostgreSQL *)

\* The gate over rows is the ledger's gate over their keys.
LEMMA GateIsLedgers ==
    ASSUME NEW g
    PROVE  L!Materialized({LinkKey(l) : l \in links}, g) <=> DistinctRoleGate(links, g)
<1>1. \A l \in links : LinkKey(l) \in {LinkKey(k) : k \in links}
  OBVIOUS
<1>2. \A l : /\ LinkKey(l).group = l.group /\ LinkKey(l).source = l.source
             /\ LinkKey(l).role = l.role
  BY DEF LinkKey
<1>3. DistinctRoleGate(links, g) => L!Materialized({LinkKey(l) : l \in links}, g)
  BY <1>1, <1>2 DEF DistinctRoleGate, L!Materialized
<1>4. L!Materialized({LinkKey(l) : l \in links}, g) => DistinctRoleGate(links, g)
  <2> SUFFICES ASSUME NEW s \in links, NEW a \in links,
                      LinkKey(s).group = g, LinkKey(s).role = "situation",
                      LinkKey(a).group = g, LinkKey(a).role = "agent_act",
                      LinkKey(s).source # LinkKey(a).source
               PROVE  DistinctRoleGate(links, g)
    BY DEF L!Materialized
  <2> QED BY <1>2 DEF DistinctRoleGate
<1> QED BY <1>3, <1>4

\* A commit adds one key to the links, or none.
LEMMA KeyWritten ==
    ASSUME PhaseInv, NEW c \in Caller, tx[c].pc = "locked", WriteGroup(c)
    PROVE  {LinkKey(l) : l \in links'} = {LinkKey(l) : l \in links} \cup {LinkKey(Req(c))}
<1>1. {LinkKey(l) : l \in links'} = {LinkKey(k) : k \in links \cup NewLinks(c)}
  <2>1. ASSUME NEW l \in links' PROVE LinkKey(l) \in {LinkKey(k) : k \in links \cup NewLinks(c)}
    <3>1. PICK k \in links \cup NewLinks(c) :
             l.group = k.group /\ l.source = k.source /\ l.role = k.role
      BY WrittenLinks
    <3> QED BY <3>1 DEF LinkKey
  <2>2. ASSUME NEW k \in links \cup NewLinks(c) PROVE LinkKey(k) \in {LinkKey(l) : l \in links'}
    <3>1. PICK l \in links' : l.group = k.group /\ l.source = k.source /\ l.role = k.role
      BY WrittenLinks
    <3> QED BY <3>1 DEF LinkKey
  <2> QED BY <2>1, <2>2
<1>2. {LinkKey(k) : k \in NewLinks(c)} \subseteq {LinkKey(Req(c))}
  BY WrittenLinks DEF LinkKey
<1>3. CASE Stored(c, links)
  <2>1. NewLinks(c) = {}
    BY <1>3 DEF NewLinks
  <2>2. LinkKey(Req(c)) \in {LinkKey(l) : l \in links}
    BY <1>3 DEF Stored
  <2> QED BY <1>1, <2>1, <2>2
<1>4. CASE ~Stored(c, links)
  <2>1. NewLinks(c) # {}
    BY <1>4 DEF NewLinks
  <2> QED BY <1>1, <1>2, <2>1
<1> QED BY <1>3, <1>4

\* The source of a commit is new, or the row that is there.
LEMMA CommitAdmissible ==
    ASSUME PhaseInv, SourceInv, NEW c \in Caller, PastAdmission(c)
    PROVE  /\ SourceOf(Req(c)) \in L!Event
           /\ L!Admissible(SourceOf(Req(c)))
<1>1. SourceOf(Req(c)) \in L!Event
  BY RequestsWellFormed
     DEF PhaseInv, CallOK, PastAdmission, RequestShape, SourceOf, L!Event
<1>2. L!Admissible(SourceOf(Req(c)))
  BY DEF SourceInv, SourcesUnique, AdmissionOK, SourceOf, L!Admissible
<1> QED BY <1>1, <1>2

\* Every step is a step of the ledger or one that it does not see.
LEMMA LedgerStep ==
    PhaseInv /\ SourceInv /\ ViewInv /\ GateInv /\ [Next]_vars
        => [L!LedgerNext]_(L!ledgerVars)
<1> SUFFICES ASSUME PhaseInv, SourceInv, ViewInv, GateInv, [Next]_vars
             PROVE  [L!LedgerNext]_(L!ledgerVars)
  OBVIOUS
<1>0. UNCHANGED <<sources, links>> => [L!LedgerNext]_(L!ledgerVars)
  BY DEF L!ledgerVars
<1>1. CASE UNCHANGED vars
  BY <1>0, <1>1 DEF vars, tables
<1>2. ASSUME NEW c \in Caller, NEW r \in Request, Begin(c, r)
      PROVE  [L!LedgerNext]_(L!ledgerVars)
  BY <1>0, <1>2 DEF Begin, tables
<1>3. ASSUME NEW c \in Caller, Advance(c) \/ Abort(c) PROVE [L!LedgerNext]_(L!ledgerVars)
  <2>0. TypeOK /\ CallOK(c)
    BY DEF PhaseInv
  <2>1. CASE Leaves(c) \/ Claims(c) \/ LockFeedbackRun(c) \/ Admits(c) \/ LockGroup(c)
             \/ CommitDelivery(c)
    BY <1>0, <2>1
       DEF Leaves, Claims, LockFeedbackRun, Admits, LockGroup, Step, tables, CommitDelivery
  <2>2. CASE CommitSource(c)
    <3>1. L!Admit(SourceOf(Req(c)))
      BY <2>2, CommitAdmissible DEF CommitSource, PastAdmission, AdmittedSource, L!Admit
    <3> QED BY <2>2, <3>1, CommitAdmissible DEF CommitSource, PastAdmission, L!LedgerNext
  <2>3. CASE CommitObserve(c) \/ CommitOutcome(c)
    <3> DEFINE l == LinkKey(Req(c))
               keys == {LinkKey(k) : k \in links}
    <3>1. /\ tx[c].pc = "locked" /\ PastAdmission(c) /\ WriteGroup(c)
          /\ AdmittedSource(c) /\ Req(c) \in Request /\ Req(c).group # Null
      BY <2>0, <2>3 DEF CommitObserve, CommitOutcome, PastAdmission, CallOK
    <3>2. l \in L!Link /\ l.source = SourceOf(Req(c)).source
      BY <3>1, RequestsWellFormed
         DEF RequestShape, LinkKey, SourceOf, L!Link, L!Role, Role
    <3>3. L!Unsealed(l)
      <4>1. CASE CommitObserve(c)
        <5>1. ~Found(c) \/ Req(c).role = "outcome" \/ Stored(c, links)
          BY <3>1, <4>1, DecidedOnRows DEF CommitObserve, Sealed
        <5>2. ~Found(c) => ~L!Materialized(keys, l.group)
          BY <3>1, DecidedOnRows, GateIsLedgers DEF GateInv, LinkKey
        <5>3. Stored(c, links) => l \in keys
          BY DEF Stored
        <5>4. l.role = Req(c).role
          BY DEF LinkKey
        <5> QED BY <5>1, <5>2, <5>3, <5>4 DEF L!Unsealed
      <4>2. CASE CommitOutcome(c)
        BY <3>1, <4>2, RequestsWellFormed DEF CommitOutcome, LinkKey, L!Unsealed
      <4> QED BY <2>3, <4>1, <4>2
    <3>4. {LinkKey(k) : k \in links'} = keys \cup {l}
      BY <3>1, KeyWritten
    <3>5. L!Observe(SourceOf(Req(c)), l)
      BY <3>1, <3>2, <3>3, <3>4, CommitAdmissible DEF AdmittedSource, L!Observe
    <3> QED BY <3>1, <3>2, <3>5, CommitAdmissible DEF L!LedgerNext
  <2> QED BY <1>3, <2>0, <2>1, <2>2, <2>3, StepShapes
<1> QED BY <1>1, <1>2, <1>3 DEF Next

-----------------------------------------------------------------------------
(* Theorems of both adapters *)

CallInv == PhaseInv /\ LocksExclusive /\ SourceInv /\ KeyInv

\* The parts of the invariant that need no current view hold on both adapters.
LEMMA CallsHold == Spec => []CallInv
<1>1. Init => CallInv
  <2> SUFFICES ASSUME Init PROVE CallInv
    OBVIOUS
  <2>1. PhaseInv
    BY PhaseInit
  <2>2. \A c \in Caller : tx[c].pc = "idle" /\ Visible(c) = Committed
    BY DEF Init, IdleTx, Visible
  <2>3. LocksExclusive
    BY <2>2 DEF LocksExclusive, HoldsKey, HoldsRun, HoldsGroup, Holding, Others
  <2>4. SourceInv
    BY <2>2 DEF Init, SourceInv, SourcesUnique, AdmissionOK, PastAdmission, Committed
  <2>5. KeyInv
    BY <2>2 DEF Init, KeyInv, Holding, RowsUnique, Reported
  <2> QED BY <2>1, <2>3, <2>4, <2>5 DEF CallInv
<1>2. CallInv /\ [Next]_vars => CallInv'
  BY PhaseStep, LocksStep, SourcesStep, KeysStep DEF CallInv
<1> QED BY <1>1, <1>2, PTL DEF Spec

\* The relational rows and the calls under way keep their types, whatever calls
\* interleave, retry or break off (TypeOK).
THEOREM TypeCorrect == Spec => []TypeOK
<1>1. CallInv => TypeOK
  BY DEF CallInv, PhaseInv
<1> QED BY <1>1, CallsHold, PTL

\* "ErrSourceEventConflict": one source ref has one content for ever, on both adapters:
\* admitSource never lets two calls insert it.
THEOREM SourcesImmutable == Spec => []SourcesUnique
<1>1. CallInv => SourcesUnique
  BY DEF CallInv, SourceInv
<1> QED BY <1>1, CallsHold, PTL

\* "ErrIdempotencyConflict": a key stands for one request for ever, and a retry of
\* an Observe gets the frozen receipt of the first attempt, on both adapters and
\* however attempts overlap (ReplayAgrees).
THEOREM RepliesAgree == Spec => []ReplayAgrees
<1>1. CallInv => ReplayAgrees
  <2> SUFFICES ASSUME CallInv, NEW p \in replies, NEW q \in replies,
                      p.request.kind = q.request.kind, p.request.key = q.request.key
               PROVE  p.request = q.request /\ (p.request.kind = "observe" => p = q)
    BY DEF ReplayAgrees
  <2>1. Recorded(p) /\ Recorded(q) /\ RowsUnique
    BY DEF CallInv, KeyInv
  <2> QED BY <2>1 DEF Recorded, RowsUnique
<1> QED BY <1>1, CallsHold, PTL

-----------------------------------------------------------------------------
(* Theorems of PostgreSQL *)

StoreInv == CallInv /\ ViewInv /\ GateInv /\ EvidenceBound

\* On PostgreSQL the decisions are those of the rows, and the whole invariant holds.
LEMMA StoreHolds == ASSUME Adapter = "postgres" PROVE Spec => []StoreInv
<1>1. Init => ViewInv /\ GateInv /\ EvidenceBound
  <2> SUFFICES ASSUME Init PROVE ViewInv /\ GateInv /\ EvidenceBound
    OBVIOUS
  <2>1. \A c \in Caller : tx[c].pc = "idle"
    BY DEF Init, IdleTx
  <2>2. ViewInv
    BY <2>1 DEF ViewInv, GroupViewCurrent, RunViewCurrent
  <2> QED BY <2>2 DEF Init, GateInv, DistinctRoleGate, EvidenceBound
<1>2. CallInv /\ ViewInv /\ GateInv /\ EvidenceBound /\ [Next]_vars
        => ViewInv' /\ GateInv' /\ EvidenceBound'
  BY ViewsStep, EvidenceStep DEF CallInv
<1> QED BY <1>1, <1>2, CallsHold, PTL DEF Spec, StoreInv

\* On PostgreSQL the Episode rows are exactly the groups whose committed links pass
\* the gate: no interleaving of situation and act misses the other (LedgerInv).
THEOREM LedgerCorrect == ASSUME Adapter = "postgres" PROVE Spec => []LedgerInv
<1>1. StoreInv => LedgerInv
  <2> SUFFICES ASSUME StoreInv PROVE LedgerInv
    OBVIOUS
  <2>1. TypeOK /\ GateInv
    BY DEF StoreInv, CallInv, PhaseInv
  <2>2. EpisodesMatchLedger
    BY <2>1, GateIsLedgers DEF TypeOK, GateInv, EpisodesMatchLedger
  <2> QED BY <2>1, <2>2 DEF LedgerInv
<1> QED BY <1>1, StoreHolds, PTL

\* On PostgreSQL every link and Outcome of an Episode carries its ref, and the
\* Episode and those Outcomes have reached the queue and the index, whichever call
\* materialized it and whatever raced with it (EvidenceBound).
THEOREM EvidenceIsBound == ASSUME Adapter = "postgres" PROVE Spec => []EvidenceBound
<1>1. StoreInv => EvidenceBound
  BY DEF StoreInv
<1> QED BY <1>1, StoreHolds, PTL

\* On PostgreSQL no memory delivery is recorded for a run that already has a
\* committed act: the run lock covers the look and the write (DeliveryBeforeAct).
THEOREM DeliveriesPrecedeActs ==
    ASSUME Adapter = "postgres" PROVE Spec => DeliveryBeforeAct
<1>1. ASSUME StoreInv, [Next]_vars
      PROVE  [\A r \in deliveries' \ deliveries :
                 ~\E l \in links : RunOf[l.group] = r.run /\ l.role = "agent_act"]_vars
  <2>1. CASE UNCHANGED deliveries
    BY <2>1
  <2>2. ASSUME NEW c \in Caller, CommitDelivery(c), NEW r \in deliveries' \ deliveries,
               NEW l \in links, RunOf[l.group] = r.run, l.role = "agent_act"
        PROVE  FALSE
    <3>1. r = Req(c) /\ tx[c].pc = "running" /\ Req(c).kind = "delivery" /\ ~ActSeen(c)
      BY <2>2 DEF CommitDelivery
    <3>2. RunViewCurrent(c)
      BY <1>1 DEF StoreInv, ViewInv
    <3> QED BY <2>2, <3>1, <3>2 DEF RunViewCurrent
  <2>3. ASSUME NEW c \in Caller, NEW r \in Request, Begin(c, r) PROVE UNCHANGED deliveries
    BY <2>3 DEF Begin, tables
  <2>4. ASSUME NEW c \in Caller, Advance(c) \/ Abort(c)
        PROVE  UNCHANGED deliveries \/ CommitDelivery(c)
    <3>1. TypeOK
      BY <1>1 DEF StoreInv, CallInv, PhaseInv
    <3> QED BY <2>4, <3>1, StepShapes
            DEF Leaves, Claims, LockFeedbackRun, Admits, LockGroup, Step, tables,
                CommitSource, CommitObserve, CommitOutcome
  <2> QED BY <1>1, <2>1, <2>2, <2>3, <2>4 DEF Next, vars, tables
<1> QED BY <1>1, StoreHolds, PTL DEF Spec, DeliveryBeforeAct

\* On PostgreSQL the interleaved transactions implement the in-memory ledger: every
\* commit is one of its atomic Observe or Admit steps, every other step leaves its
\* state alone (ImplementsLedger).
THEOREM IntakeImplementsLedger ==
    ASSUME Adapter = "postgres" PROVE Spec => ImplementsLedger
<1>1. Init => L!LedgerInit
  BY DEF Init, L!LedgerInit
<1>2. StoreInv /\ [Next]_vars => [L!LedgerNext]_(L!ledgerVars)
  BY LedgerStep DEF StoreInv, CallInv
<1> QED BY <1>1, <1>2, StoreHolds, PTL DEF Spec, ImplementsLedger, L!LedgerSpec

-----------------------------------------------------------------------------
(***************************************************************************)
(* The turn.                                                               *)
(***************************************************************************)
(* The inductive invariant *)

CoreShape == DOMAIN core = {"situation", "context", "delivery", "act", "outcome"}

\* From the selection on; from the rendering on; from the delivery on.
Selected == {"rendering", "delivery", "running", "acted", "act", "returned", "outcome", "done"}
Shown == Selected \ {"rendering"}
Ready == Shown \ {"delivery"}

\* What the frozen context of the run shows, whenever it is rendered.
Text == Refs(Render(core.context))
NothingToShow == Render(core.context) = <<>>

\* The first selection decides for every attempt: what a later one renders,
\* delivers and shows is the text of the same context.
FrozenContext ==
    /\ pc \in Selected => context # None /\ context = core.context
    /\ pc \in Shown => shown = Text
    /\ pc \in {"delivery", "running"} => Renderable(context)
    /\ \A q \in net : q.call = "delivery" => /\ core.context # None /\ ~NothingToShow
                                             /\ q.body = Text
    /\ core.delivery # None => core.context # None /\ ~NothingToShow /\ core.delivery = Text

\* The model runs only when there is nothing to show or the delivery is recorded.
DeliveredFirst ==
    /\ pc \in Ready => NothingToShow \/ core.delivery = Text
    /\ \A r \in runs : /\ core.context # None /\ r[1] = Text
                       /\ NothingToShow \/ core.delivery = Text

\* An act under way is that of the attempt that sent it, and the act that was
\* answered is on record.
ActSent ==
    /\ \A q \in net : q.call = "act" /\ q.attempt = attempt
          => /\ q.body = output
             /\ pc \in {"act", "returned", "outcome", "done", "failed"}
    /\ ReturnedActRecorded

\* Without a receipt there was nothing to deliver.
ReceiptKnown ==
    /\ pc \in Ready => receipt # None \/ NothingToShow
    /\ \A q \in net : q.call = "outcome" /\ q.body = None => core.context # None /\ NothingToShow
    /\ core.outcome = <<None>> => core.context # None /\ NothingToShow
    /\ OutcomeNamesDelivery

TurnIInv == TurnTypeOK /\ CoreShape /\ FrozenContext /\ DeliveredFirst /\ ActSent /\ ReceiptKnown

-----------------------------------------------------------------------------
(* Types *)

LEMMA TurnTypes == TurnTypeOK /\ CoreShape /\ [TurnNext]_turnVars => TurnTypeOK' /\ CoreShape'
<1> SUFFICES ASSUME TurnTypeOK, CoreShape, [TurnNext]_turnVars PROVE TurnTypeOK' /\ CoreShape'
  OBVIOUS
<1>1. attempt \in 1 .. MaxAttempts /\ MaxAttempts \in Nat
  BY TurnAssumption DEF TurnTypeOK
<1>2. CASE UNCHANGED turnVars
  BY <1>2 DEF turnVars, TurnTypeOK, CoreShape
<1>3. CASE ObserveSituation \/ SelectMemory \/ ObserveAct \/ ReportOutcome \/ RenderAndDeliver
  BY <1>1, <1>3 DEF ObserveSituation, SelectMemory, ObserveAct, ReportOutcome,
                    RenderAndDeliver, Calls, Send, TurnTypeOK, CoreShape, Awaiting
<1>4. CASE RenderNothing \/ RenderFails \/ RunModel \/ Timeout \/ Close \/ CallRefused \/ Learn
  BY <1>1, <1>4 DEF RenderNothing, RenderFails, RunModel, Timeout, Close, CallRefused,
                    Learn, TurnTypeOK, CoreShape, Awaiting
<1>5. CASE RunAgain
  BY <1>1, <1>5 DEF RunAgain, TurnTypeOK, CoreShape, Awaiting
<1>6. ASSUME NEW q \in net, CoreHandles(q) PROVE TurnTypeOK' /\ CoreShape'
  <2>1. CASE CoreObserveSituation(q)
    BY <1>1, <1>6, <2>1
       DEF CoreHandles, CoreObserveSituation, Answered, Awaits, Idle, TurnTypeOK, CoreShape, Awaiting
  <2>2. CASE CoreSelect(q)
    BY <1>1, <1>6, <2>2
       DEF CoreHandles, CoreSelect, Answered, Awaits, Idle, TurnTypeOK, CoreShape, Awaiting
  <2>3. CASE CoreRecordDelivery(q)
    BY <1>1, <1>6, <2>3
       DEF CoreHandles, CoreRecordDelivery, Answered, Awaits, Idle, TurnTypeOK, CoreShape, Awaiting
  <2>4. CASE CoreObserveAct(q)
    BY <1>1, <1>6, <2>4
       DEF CoreHandles, CoreObserveAct, Answered, Awaits, Idle, TurnTypeOK, CoreShape, Awaiting
  <2>5. CASE CoreReportOutcome(q)
    BY <1>1, <1>6, <2>5
       DEF CoreHandles, CoreReportOutcome, Answered, Awaits, Idle, TurnTypeOK, CoreShape, Awaiting
  <2> QED BY <1>6, <2>1, <2>2, <2>3, <2>4, <2>5 DEF CoreHandles
<1> QED BY <1>2, <1>3, <1>4, <1>5, <1>6 DEF TurnNext

-----------------------------------------------------------------------------
(* The turn and Core *)

\* A context without visible items is an empty text.
LEMMA EmptyText == NothingToShow => Text = <<>>
BY DEF NothingToShow, Text, Refs

\* The Harness: a request leaves with what the attempt knows.
LEMMA HarnessStep ==
    ASSUME TurnIInv,
           \/ ObserveSituation \/ SelectMemory \/ ObserveAct \/ ReportOutcome
           \/ RenderNothing \/ RenderAndDeliver \/ RenderFails \/ RunModel
           \/ Timeout \/ RunAgain \/ Close \/ CallRefused \/ Learn
    PROVE  FrozenContext' /\ DeliveredFirst' /\ ActSent' /\ ReceiptKnown'
<1> USE DEF TurnIInv
<1> USE DEF FrozenContext, DeliveredFirst, ActSent, ReceiptKnown, ReturnedActRecorded,
            OutcomeNamesDelivery, Selected, Shown, Ready, Text, NothingToShow
<1>0. attempt \in Nat /\ \A q \in net : q.attempt \in Nat /\ q.attempt <= attempt
  BY TurnAssumption DEF TurnTypeOK
<1>1. CASE ObserveSituation \/ SelectMemory
  BY <1>0, <1>1 DEF ObserveSituation, SelectMemory, Calls, Send
<1>2. CASE ObserveAct
  BY <1>0, <1>2 DEF ObserveAct, Calls, Send
<1>3. CASE ReportOutcome
  BY <1>0, <1>3 DEF ReportOutcome, Calls, Send
<1>4. CASE RenderNothing
  BY <1>0, <1>4, EmptyText DEF RenderNothing
<1>5. CASE RenderAndDeliver
  BY <1>0, <1>5 DEF RenderAndDeliver, Send
<1>6. CASE RenderFails \/ CallRefused \/ Learn
  BY <1>0, <1>6 DEF RenderFails, CallRefused, Learn
<1>7. CASE RunModel
  BY <1>0, <1>7 DEF RunModel
<1>8. CASE Timeout \/ Close
  BY <1>0, <1>8 DEF Timeout, Close, Awaiting
<1>9. CASE RunAgain
  BY <1>0, <1>9 DEF RunAgain
<1> QED BY <1>1, <1>2, <1>3, <1>4, <1>5, <1>6, <1>7, <1>8, <1>9

\* Core: what it records of the run is recorded once, whichever attempt asks and
\* whether or not it still waits for the answer.
LEMMA CoreStep ==
    ASSUME TurnIInv, NEW q \in net, CoreHandles(q)
    PROVE  FrozenContext' /\ DeliveredFirst' /\ ActSent' /\ ReceiptKnown'
<1> USE DEF TurnIInv
<1> USE DEF FrozenContext, DeliveredFirst, ActSent, ReceiptKnown, ReturnedActRecorded,
            OutcomeNamesDelivery, Selected, Shown, Ready, Text, NothingToShow,
            CoreShape, CoreHandles, Answered, Awaits, Idle
<1>1. CASE CoreObserveSituation(q)
  BY <1>1 DEF CoreObserveSituation
<1>2. CASE CoreSelect(q)
  BY <1>2, NoneIsFresh DEF CoreSelect, TurnTypeOK
<1>3. CASE CoreRecordDelivery(q)
  BY <1>3, NoneIsFresh DEF CoreRecordDelivery, DeliveryAccepted, TurnTypeOK
<1>4. CASE CoreObserveAct(q)
  BY <1>4 DEF CoreObserveAct, TurnTypeOK
<1>5. CASE CoreReportOutcome(q)
  BY <1>5 DEF CoreReportOutcome
<1> QED BY <1>1, <1>2, <1>3, <1>4, <1>5

-----------------------------------------------------------------------------
(* The renderer *)

\* What a context shows, told from the refs shown alone.
At(items, ref) == CHOOSE n \in VisibleAt(items) : items[n].ref = ref

TakenOf(items, refs, k) == [i \in 1 .. k |-> items[At(items, refs[i])]]

WithinBudget(items, refs) ==
    /\ Refs(TakenOf(items, refs, Len(refs))) = refs
    /\ \A i, j \in DOMAIN refs : i < j => At(items, refs[i]) < At(items, refs[j])
    /\ Fits(TakenOf(items, refs, Len(refs)))
    /\ \A n \in VisibleAt(items) : items[n].ref \notin ToSet(refs) =>
          \E k \in 0 .. Len(refs) :
             /\ \A i \in DOMAIN refs : At(items, refs[i]) < n <=> i <= k
             /\ ~Fits(Append(TakenOf(items, refs, k), items[n]))

LEMMA RenderShows ==
    ASSUME NEW items, IsContext(items), Renderable(items)
    PROVE  WithinBudget(items, Refs(Render(items)))
<1>1. PICK at : Chosen(items, Len(items), Render(items), at)
  BY RenderKeeps
<1>2. PICK s, len, refs : s = Render(items) /\ len = Len(s) /\ refs = Refs(s)
  OBVIOUS
<1>3. /\ len \in Nat /\ at \in [1 .. len -> DOMAIN items] /\ s = [i \in 1 .. len |-> items[at[i]]]
      /\ \A i \in 1 .. len : ~items[at[i]].blank
      /\ Fits(s)
  BY <1>1, <1>2 DEF Chosen, IsContext
<1>4. refs = [i \in 1 .. len |-> items[at[i]].ref]
  BY <1>2, <1>3 DEF Refs
<1>5. Len(refs) = len /\ DOMAIN refs = 1 .. len
  BY <1>3, <1>4
<1>6. ASSUME NEW i \in 1 .. len PROVE At(items, refs[i]) = at[i]
  <2>1. at[i] \in VisibleAt(items) /\ items[at[i]].ref = refs[i]
    BY <1>3, <1>4 DEF VisibleAt
  <2>2. \A n \in VisibleAt(items) : items[n].ref = refs[i] => n = at[i]
    BY <2>1 DEF Renderable
  <2> QED BY <2>1, <2>2 DEF At
<1>7. ASSUME NEW k \in 0 .. len PROVE TakenOf(items, refs, k) = [i \in 1 .. k |-> items[at[i]]]
  <2>1. \A i \in 1 .. k : i \in 1 .. len
    BY <1>3
  <2> QED BY <1>6, <2>1 DEF TakenOf
<1>8. TakenOf(items, refs, len) = s
  BY <1>3, <1>7
<1>9. \A i, j \in DOMAIN refs : i < j => At(items, refs[i]) < At(items, refs[j])
  BY <1>1, <1>2, <1>5, <1>6 DEF Chosen
<1>10. ASSUME NEW n \in VisibleAt(items), items[n].ref \notin ToSet(refs)
       PROVE  \E k \in 0 .. len :
                 /\ \A i \in DOMAIN refs : At(items, refs[i]) < n <=> i <= k
                 /\ ~Fits(Append(TakenOf(items, refs, k), items[n]))
  <2>1. n \in 1 .. Len(items) /\ ~items[n].blank
    BY DEF VisibleAt, IsContext
  <2>2. \A i \in 1 .. len : at[i] # n
    BY <1>4, <1>5, <1>10 DEF ToSet
  <2>3. PICK k \in 0 .. len : /\ \A i \in 1 .. len : at[i] < n <=> i <= k
                            /\ ~Fits(Append([i \in 1 .. k |-> items[at[i]]], items[n]))
    BY <1>1, <1>2, <2>1, <2>2 DEF Chosen
  <2>4. \A i \in DOMAIN refs : At(items, refs[i]) < n <=> i <= k
    BY <1>5, <1>6, <2>3
  <2>5. ~Fits(Append(TakenOf(items, refs, k), items[n]))
    BY <1>7, <2>3
  <2> QED BY <2>4, <2>5
<1> QED BY <1>2, <1>3, <1>5, <1>8, <1>9, <1>10 DEF WithinBudget

-----------------------------------------------------------------------------
(* Theorems *)

LEMMA TurnHolds == TurnSpec => []TurnIInv
<1>1. TurnInit => TurnIInv
  <2> SUFFICES ASSUME TurnInit PROVE TurnIInv
    OBVIOUS
  <2>1. TurnTypeOK
    <3>1. attempt \in 1 .. MaxAttempts
      BY TurnAssumption DEF TurnInit
    <3>2. {context, core.context} \subseteq Memories \cup {None}
      BY DEF TurnInit
    <3> QED BY <3>1, <3>2 DEF TurnInit, TurnTypeOK
  <2> QED BY <2>1 DEF TurnInit, TurnIInv, CoreShape, FrozenContext, DeliveredFirst, ActSent,
                      ReceiptKnown, ReturnedActRecorded, OutcomeNamesDelivery,
                      Selected, Shown, Ready
<1>2. TurnIInv /\ [TurnNext]_turnVars => TurnIInv'
  <2> SUFFICES ASSUME TurnIInv, [TurnNext]_turnVars PROVE TurnIInv'
    OBVIOUS
  <2>1. TurnTypeOK' /\ CoreShape'
    BY TurnTypes DEF TurnIInv
  <2>2. CASE UNCHANGED turnVars
    BY <2>1, <2>2 DEF turnVars, TurnIInv, FrozenContext, DeliveredFirst, ActSent, ReceiptKnown,
                      ReturnedActRecorded, OutcomeNamesDelivery, Text, NothingToShow
  <2>3. CASE TurnNext
    BY <2>1, <2>3, HarnessStep, CoreStep DEF TurnNext, TurnIInv
  <2> QED BY <2>2, <2>3
<1> QED BY <1>1, <1>2, PTL DEF TurnSpec

\* The turn, its requests and Core's record keep their types through every timeout
\* and every repetition.
THEOREM TurnTypeCorrect == TurnSpec => []TurnTypeOK
<1>1. TurnIInv => TurnTypeOK
  BY DEF TurnIInv
<1> QED BY <1>1, TurnHolds, PTL

\* The delivery on record is what every run of the model was shown, for every
\* renderer, every memory Core learns meanwhile and any number of repeated turns
\* (ModelSeesDelivered).
THEOREM DeliveryIsTheTruth == TurnSpec => []ModelSeesDelivered
<1>1. TurnIInv => ModelSeesDelivered
  <2> SUFFICES ASSUME TurnIInv, NEW r \in runs PROVE r[1] = Delivered
    BY DEF ModelSeesDelivered
  <2>1. /\ core.context # None /\ r[1] = Text
        /\ NothingToShow \/ core.delivery = Text
        /\ core.delivery # None => ~NothingToShow /\ core.delivery = Text
    BY DEF TurnIInv, DeliveredFirst, FrozenContext
  <2>2. CASE core.delivery = None
    <3>1. Text # None
      BY <2>1, NoneIsFresh DEF TurnIInv, TurnTypeOK, Text
    <3> QED BY <2>1, <2>2, <3>1, EmptyText DEF Delivered
  <2>3. CASE core.delivery # None
    BY <2>1, <2>3 DEF Delivered
  <2> QED BY <2>2, <2>3
<1> QED BY <1>1, TurnHolds, PTL

\* Core learns from the turn that was returned: its act, and an Outcome about the
\* memory that was delivered, receipts that were lost on the way included
\* (CoreRecordsTurn).
THEOREM RecordIsTheTurn == TurnSpec => []CoreRecordsTurn
<1>1. TurnIInv => CoreRecordsTurn
  BY DEF TurnIInv, ActSent, ReceiptKnown, CoreRecordsTurn
<1> QED BY <1>1, TurnHolds, PTL

\* What the model is about to be shown is the renderer's choice: in the order of the
\* context, within the budget, and nothing left out that would have fitted where it
\* came, for every context and every budget (TurnInv with RenderedWithinBudget).
THEOREM TurnIsWithinBudget == TurnSpec => []TurnInv
<1>1. TurnIInv => TurnInv
  <2> SUFFICES ASSUME TurnIInv, pc \in {"delivery", "running"} PROVE WithinBudget(context, shown)
    BY DEF TurnIInv, TurnInv, RenderedWithinBudget, WithinBudget, At, TakenOf
  <2>1. context \in Memories /\ shown = Refs(Render(context)) /\ Renderable(context)
    BY DEF TurnIInv, TurnTypeOK, FrozenContext, Selected, Shown, Text
  <2>2. IsContext(context)
    BY <2>1, ContextsAreSequences DEF IsContext
  <2> QED BY <2>1, <2>2, RenderShows
<1> QED BY <1>1, TurnHolds, PTL

===============================================================================
