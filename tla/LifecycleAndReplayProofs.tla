---------------------- MODULE LifecycleAndReplayProofs ----------------------
(***************************************************************************)
(* Proofs about SeedLifecycle and the probe of Settling, for any number of *)
(* formation turns, replies and crashes, and whatever Core makes of the    *)
(* Episodes it is given; then about SemanticReplay, which answers for the  *)
(* Worker while such a suite is run again, for any inputs, callers and     *)
(* number of calls and starts.                                             *)
(***************************************************************************)
EXTENDS SeedLifecycle, SemanticReplay, FiniteSetTheorems, SequenceTheorems, TLAPS

-----------------------------------------------------------------------------
(* The inductive invariant *)

InForm == pc \in {"form", "formed"}
AtCase == pc \in {"select", "act", "outcome", "settle", "delayed", "freeze"}

Episodes == ToSet(Turns) \cup ToSet(Cases)
JobRecords == [eps : SUBSET Episodes, state : {"collecting", "committed"}]

Shape ==
    /\ InForm \/ AtCase \/ pc \in {"summary", "done"}
    /\ pc = "form" => at \in 1 .. Len(Turns) + 1
    /\ pc = "formed" => at \in 1 .. Len(Turns)
    /\ ~InForm => at \in 1 .. 4
    /\ DOMAIN files \subseteq ToSet(Cases)
    /\ verdict \in {None, "passed", "failed"} /\ (verdict = "passed" => pc = "done")
    /\ wait \in {"idle", "index", "episodes", "jobs", "completed", "ops", "check"}
    /\ wait # "idle" <=> pc \in {"formed", "settle"}
    /\ DOMAIN seen = {"episodes", "pending", "consolidated", "ops"}
    /\ DOMAIN case = {"rendered", "option", "after", "delayed"}
    /\ crashes \in Nat

\* Core: one collecting Job at most, and a Seed that was formed before it is active.
JobsOK ==
    /\ jobs \in Seq(JobRecords)
    /\ \A j \in DOMAIN jobs : jobs[j].eps # {}
    /\ \A i, j \in Collecting : i = j
    /\ IsFiniteSet(ops)

SeedOK ==
    /\ DOMAIN seed = {"version", "active"} /\ seed.version \in Nat
    /\ seed.active => seed.version >= 1
    /\ \A l \in links : l.version \in 1 .. seed.version

\* What the probe has seen to be over stays over while it goes on reading.
ProbeInv ==
    /\ wait \in {"completed", "ops", "check"} /\ seen.pending = 0 => jobs = <<>>
    /\ wait = "check" /\ seen.pending = 0 /\ seen.ops = 0 => ops = {}

SettledOK ==
    /\ pc \in {"delayed", "freeze"} => Quiet /\ case.after = MemoryState
    /\ pc = "select" => Quiet /\ before = MemoryState
    /\ pc = "summary" => Quiet

\* The cases whose results are known, and the Episodes that Core may be at work on.
Finished ==
    IF AtCase THEN {Cases[k] : k \in 1 .. at - 1} ELSE IF pc = "summary" THEN ToSet(Cases) ELSE {}
Present == IF InForm THEN ToSet(Turns) ELSE IF AtCase THEN {Cases[at]} ELSE {}

RolesOf(c) == {l.role : l \in {k \in links : k.episode = c}}

\* The result of a case says what became of the Seed by it.
FinishedOK(c) ==
    /\ c \in DOMAIN files
    /\ files[c].reenacted <=> "reenactment" \in RolesOf(c)
    /\ files[c].revised <=> RolesOf(c) \cap {"revision", "inhibition"} # {}
    /\ Delivers(c) => <<"delivery", c>> \in observed
    /\ HasOutcome(c) => <<"outcome", c>> \in observed

\* A suite that was not killed: Core works on the case at hand only, ...
JobsAtHand == pc # "done" => \A j \in DOMAIN jobs : jobs[j].eps \subseteq Present

LinksKnown == pc # "done" => \A l \in links : l.episode \in ToSet(Turns) \cup Finished \cup Present

RolesKnown ==
    \A l \in links : l.episode \in ToSet(Cases) => l.role \in {"reenactment", "revision", "inhibition"}

\* ... the state before it lacks nothing but what comes of this case, ...
BeforeLacks == AtCase => before.links = {l \in links : l.episode # Cases[at]}

\* ... and the results are about what has happened.
CaseObserved ==
    /\ AtCase /\ pc # "select" => /\ seed.version >= 1
                                  /\ Delivers(Cases[at]) => <<"delivery", Cases[at]>> \in observed
    /\ pc \in {"settle", "delayed", "freeze"} =>
          (HasOutcome(Cases[at]) => <<"outcome", Cases[at]>> \in observed)

ResultsOK == \A c \in Finished : FinishedOK(c)

CausalInv ==
    JobsAtHand /\ LinksKnown /\ RolesKnown /\ BeforeLacks /\ CaseObserved /\ ResultsOK /\ PassedMeansBoundary

IInv == Shape /\ JobsOK /\ SeedOK /\ ProbeInv /\ SettledOK /\ (crashes = 0 => CausalInv)

-----------------------------------------------------------------------------
(* Helpers *)

\* The four cases are different ones.
LEMMA CasesFact ==
    /\ Len(Cases) = 4
    /\ ToSet(Cases) = {"no_delivery", "positive_complete", "no_outcome", "negative_complete"}
    /\ \A i \in 1 .. 4 : Cases[i] \in ToSet(Cases)
    /\ \A i, j \in 1 .. 4 : Cases[i] = Cases[j] => i = j
    /\ {Cases[k] : k \in 1 .. 4} = ToSet(Cases)
<1>1. Len(Cases) = 4 /\ DOMAIN Cases = 1 .. 4
  BY DEF Cases
<1>2. /\ Cases[1] = "no_delivery" /\ Cases[2] = "positive_complete"
      /\ Cases[3] = "no_outcome" /\ Cases[4] = "negative_complete"
  BY DEF Cases
<1>3. ToSet(Cases) = {Cases[k] : k \in 1 .. 4}
  BY <1>1 DEF ToSet
<1>4. {Cases[k] : k \in 1 .. 4} = {Cases[1], Cases[2], Cases[3], Cases[4]}
  OBVIOUS
<1>5. \A i \in 1 .. 4 : i = 1 \/ i = 2 \/ i = 3 \/ i = 4
  OBVIOUS
<1> QED
  BY <1>1, <1>2, <1>3, <1>4, <1>5

\* A turn is an Episode of its own.
LEMMA TurnsFact ==
    /\ Len(Turns) \in Nat /\ Len(Turns) >= 2
    /\ \A i \in 1 .. Len(Turns) : Turns[i] \in ToSet(Turns)
    /\ ToSet(Turns) \cap ToSet(Cases) = {}
  BY LifecycleAssumption, LenProperties DEF ToSet

\* What RemoveAt leaves of a sequence.
LEMMA RemoveAtProperties ==
    ASSUME NEW S, NEW s \in Seq(S), NEW i \in 1 .. Len(s)
    PROVE  /\ RemoveAt(s, i) \in Seq(S)
           /\ Len(RemoveAt(s, i)) = Len(s) - 1
           /\ \A k \in 1 .. Len(s) - 1 : RemoveAt(s, i)[k] = IF k < i THEN s[k] ELSE s[k + 1]
<1> DEFINE a == SubSeq(s, 1, i - 1)
<1> DEFINE b == SubSeq(s, i + 1, Len(s))
<1>0. /\ Len(s) \in Nat /\ i \in Int /\ i - 1 \in Int /\ i + 1 \in Int
      /\ \A k \in 1 .. i - 1 : s[k] \in S
      /\ \A k \in i + 1 .. Len(s) : s[k] \in S
  BY ElementOfSeq, LenProperties
<1>1. a \in Seq(S) /\ Len(a) = i - 1 /\ \A k \in 1 .. i - 1 : a[k] = s[k]
  <2>1. /\ a \in Seq(S)
        /\ Len(a) = IF 1 <= i - 1 THEN (i - 1) - 1 + 1 ELSE 0
        /\ \A k \in 1 .. (i - 1) - 1 + 1 : a[k] = s[1 + k - 1]
    BY <1>0, SubSeqProperties
  <2> HIDE DEF a
  <2> QED
    BY <1>0, <2>1
<1>2. b \in Seq(S) /\ Len(b) = Len(s) - i /\ \A k \in 1 .. Len(s) - i : b[k] = s[i + k]
  <2>1. /\ b \in Seq(S)
        /\ Len(b) = IF i + 1 <= Len(s) THEN Len(s) - (i + 1) + 1 ELSE 0
        /\ \A k \in 1 .. Len(s) - (i + 1) + 1 : b[k] = s[(i + 1) + k - 1]
    BY <1>0, SubSeqProperties
  <2> HIDE DEF b
  <2>2. Len(s) - (i + 1) + 1 = Len(s) - i /\ i <= Len(s)
    BY <1>0
  <2>3. Len(b) = Len(s) - i
    <3>1. \A n \in Nat, m \in Int :
              m <= n => (IF m + 1 <= n THEN n - (m + 1) + 1 ELSE 0) = n - m
      OBVIOUS
    <3> QED
      BY <1>0, <2>1, <2>2, <3>1
  <2>4. ASSUME NEW k \in 1 .. Len(s) - i PROVE b[k] = s[i + k]
    <3>1. (i + 1) + k - 1 = i + k
      BY <1>0
    <3> QED
      BY <2>1, <2>2, <3>1
  <2> QED
    BY <2>1, <2>3, <2>4
<1> HIDE DEF a, b
<1>3. /\ a \o b \in Seq(S)
      /\ Len(a \o b) = Len(a) + Len(b)
      /\ \A k \in 1 .. Len(a) + Len(b) : (a \o b)[k] = IF k <= Len(a) THEN a[k] ELSE b[k - Len(a)]
  BY <1>1, <1>2, ConcatProperties
<1>4. RemoveAt(s, i) = a \o b
  BY DEF RemoveAt, a, b
<1>5. Len(a) + Len(b) = Len(s) - 1
  BY <1>0, <1>1, <1>2
<1>6. ASSUME NEW k \in 1 .. Len(s) - 1
      PROVE  (a \o b)[k] = IF k < i THEN s[k] ELSE s[k + 1]
  <2>1. CASE k < i
    <3>1. k \in 1 .. i - 1 /\ k <= Len(a)
      BY <1>0, <1>1, <2>1
    <3> QED
      BY <1>1, <1>3, <1>5, <2>1, <3>1
  <2>2. CASE ~(k < i)
    <3>1. /\ ~(k <= Len(a)) /\ k - Len(a) \in 1 .. Len(s) - i
          /\ i + (k - Len(a)) = k + 1
      BY <1>0, <1>1, <2>2
    <3>2. b[k - Len(a)] = s[k + 1]
      BY <1>2, <3>1
    <3>3. (a \o b)[k] = b[k - Len(a)]
      BY <1>3, <1>5, <3>1
    <3> QED
      BY <2>2, <3>2, <3>3
  <2> QED
    BY <2>1, <2>2
<1> QED
  BY <1>3, <1>4, <1>5, <1>6

-----------------------------------------------------------------------------
(* Core *)

\* What the background work of Core may do to the Jobs, the Seed and its links.
CoreMayDo ==
    /\ JobsOK' /\ SeedOK'
    /\ \A k \in DOMAIN jobs' : \E j \in DOMAIN jobs : jobs'[k].eps = jobs[j].eps
    /\ jobs = <<>> => jobs' = <<>> /\ seed' = seed /\ links' = links /\ ops' \subseteq ops
    /\ seed'.version >= seed.version
    /\ \A l \in links' \ links :
          /\ \E j \in DOMAIN jobs : l.episode \in jobs[j].eps
          /\ seed.version >= 1 => l.role \in {"reenactment", "revision", "inhibition"}
    /\ links \subseteq links'

LEMMA CommitFacts ==
    ASSUME JobsOK, SeedOK, NEW j \in DOMAIN jobs, CommitWindow(j)
    PROVE  CoreMayDo
<1>0. jobs \in Seq(JobRecords) /\ DOMAIN jobs = 1 .. Len(jobs) /\ Len(jobs) \in Nat /\ j \in 1 .. Len(jobs)
  BY LenProperties DEF JobsOK
<1>1. jobs[j] \in JobRecords
  BY <1>0, ElementOfSeq
<1> DEFINE job == [jobs[j] EXCEPT !.state = "committed"]
<1>2. job \in JobRecords /\ job.eps = jobs[j].eps /\ job.state = "committed"
  BY <1>1 DEF JobRecords
<1>3. jobs' = [jobs EXCEPT ![j] = job]
  BY DEF CommitWindow
<1> HIDE DEF job
<1>4. /\ jobs' \in Seq(JobRecords) /\ Len(jobs') = Len(jobs)
      /\ \A k \in 1 .. Len(jobs) : jobs'[k] = IF k = j THEN job ELSE jobs[k]
  BY <1>0, <1>2, <1>3, ExceptSeq
<1>5. DOMAIN jobs' = DOMAIN jobs
  BY <1>0, <1>3
<1>6. PICK e \in jobs[j].eps, role \in Changes :
          LET next == IF role \in {"formation", "revision"} THEN seed.version + 1 ELSE seed.version IN
          /\ links' = IF role = "none" THEN links
                      ELSE links \cup {[version |-> next, episode |-> e, role |-> role]}
          /\ seed' = IF role = "none" THEN seed
                     ELSE [version |-> next, active |-> role # "inhibition"]
          /\ ops' = ops \cup (IF role \in {"none", "reenactment"} THEN {} ELSE {<<"seed", next>>})
  BY DEF CommitWindow
<1>7. /\ role \in {"none", "formation", "reenactment", "revision", "inhibition"}
      /\ seed.version = 0 => role \in {"none", "formation"}
      /\ seed.version >= 1 => role # "formation"
  BY <1>6 DEF Changes, SeedOK
<1>8. JobsOK'
  <2>1. \A k \in DOMAIN jobs' : jobs'[k].eps # {}
    BY <1>0, <1>2, <1>4, <1>5 DEF JobsOK
  <2>2. \A i, k \in Collecting' : i = k
    BY <1>0, <1>2, <1>4, <1>5 DEF JobsOK, Collecting
  <2>3. IsFiniteSet(ops')
    <3>1. IsFiniteSet(ops)
      BY DEF JobsOK
    <3>2. \A x : IsFiniteSet(ops \cup {x})
      BY <3>1, FS_AddElement
    <3>3. ops' = ops \/ \E x : ops' = ops \cup {x}
      <4>1. CASE role \in {"none", "reenactment"}
        BY <1>6, <4>1
      <4>2. CASE role \notin {"none", "reenactment"}
        BY <1>6, <4>2
      <4> QED
        BY <4>1, <4>2
    <3> QED
      BY <3>1, <3>2, <3>3
  <2> QED
    BY <1>4, <2>1, <2>2, <2>3 DEF JobsOK
<1>9. /\ SeedOK' /\ seed'.version >= seed.version /\ links \subseteq links'
      /\ \A l \in links' \ links :
            l.episode = e /\ (seed.version >= 1 => l.role \in {"reenactment", "revision", "inhibition"})
  <2>1. CASE role = "none"
    BY <1>6, <2>1 DEF SeedOK
  <2>2. CASE role \in {"formation", "revision"}
    <3>1. /\ links' = links \cup {[version |-> seed.version + 1, episode |-> e, role |-> role]}
          /\ seed' = [version |-> seed.version + 1, active |-> TRUE]
      BY <1>6, <2>2
    <3> QED
      BY <1>7, <2>2, <3>1 DEF SeedOK
  <2>3. CASE role \in {"reenactment", "inhibition"}
    <3>1. /\ links' = links \cup {[version |-> seed.version, episode |-> e, role |-> role]}
          /\ seed' = [version |-> seed.version, active |-> role # "inhibition"]
      BY <1>6, <2>3
    <3>2. seed.version \in Nat /\ seed.version >= 1
      BY <1>7, <2>3 DEF SeedOK
    <3> QED
      BY <2>3, <3>1, <3>2 DEF SeedOK
  <2> QED
    BY <1>7, <2>1, <2>2, <2>3
<1>10. jobs # <<>>
  BY <1>0
<1> QED
  BY <1>0, <1>2, <1>4, <1>5, <1>6, <1>8, <1>9, <1>10 DEF CoreMayDo

LEMMA CompleteFacts ==
    ASSUME JobsOK, SeedOK, NEW j \in DOMAIN jobs, CompleteJob(j)
    PROVE  CoreMayDo
<1>0. jobs \in Seq(JobRecords) /\ DOMAIN jobs = 1 .. Len(jobs) /\ Len(jobs) \in Nat /\ j \in 1 .. Len(jobs)
  BY LenProperties DEF JobsOK
<1>1. /\ jobs' \in Seq(JobRecords) /\ Len(jobs') = Len(jobs) - 1
      /\ \A k \in 1 .. Len(jobs) - 1 : jobs'[k] = IF k < j THEN jobs[k] ELSE jobs[k + 1]
  BY <1>0, RemoveAtProperties DEF CompleteJob
<1>2. DOMAIN jobs' = 1 .. Len(jobs) - 1
  BY <1>1, LenProperties
<1>3. UNCHANGED <<ops, seed, links>> /\ jobs # <<>>
  BY <1>0 DEF CompleteJob
<1>4. \A k \in DOMAIN jobs' : jobs'[k].eps # {}
  BY <1>0, <1>1, <1>2 DEF JobsOK
<1>5. \A i, k \in Collecting' : i = k
  <2> DEFINE Old(k) == IF k < j THEN k ELSE k + 1
  <2>1. \A k \in DOMAIN jobs' : Old(k) \in DOMAIN jobs /\ jobs'[k] = jobs[Old(k)]
    BY <1>0, <1>1, <1>2
  <2>2. \A i, k \in DOMAIN jobs' : Old(i) = Old(k) => i = k
    BY <1>0, <1>2
  <2> HIDE DEF Old
  <2>3. \A k \in Collecting' : k \in DOMAIN jobs' /\ Old(k) \in Collecting
    BY <2>1 DEF Collecting
  <2> QED
    BY <2>2, <2>3 DEF JobsOK
<1>6. JobsOK' /\ SeedOK'
  BY <1>1, <1>3, <1>4, <1>5 DEF JobsOK, SeedOK
<1>7. \A k \in DOMAIN jobs' : \E i \in DOMAIN jobs : jobs'[k].eps = jobs[i].eps
  BY <1>0, <1>1, <1>2
<1>8. seed.version >= seed.version
  BY DEF SeedOK
<1> QED
  BY <1>3, <1>6, <1>7, <1>8 DEF CoreMayDo

LEMMA AcknowledgeFacts ==
    ASSUME JobsOK, SeedOK, NEW op, Acknowledge(op)
    PROVE  CoreMayDo
<1>1. UNCHANGED <<jobs, seed, links>> /\ ops' = ops \ {op}
  BY DEF Acknowledge
<1>2. IsFiniteSet(ops')
  BY <1>1, FS_RemoveElement DEF JobsOK
<1>3. JobsOK' /\ SeedOK'
  BY <1>1, <1>2 DEF JobsOK, SeedOK, Collecting
<1>4. seed.version >= seed.version
  BY DEF SeedOK
<1> QED
  BY <1>1, <1>3, <1>4 DEF CoreMayDo

\* Core goes on with what it has been given, and with nothing else.
LEMMA BackgroundFacts ==
    ASSUME JobsOK, SeedOK, Background
    PROVE  CoreMayDo
  BY CommitFacts, CompleteFacts, AcknowledgeFacts DEF Background

\* An event is for its own Episode.
LEMMA ObserveFacts ==
    ASSUME JobsOK, SeedOK, NEW event, NEW e \in Episodes, Observe(event, e)
    PROVE  /\ JobsOK' /\ SeedOK' /\ links' = links /\ seed' = seed
           /\ observed' = observed \cup {event}
           /\ \A k \in DOMAIN jobs' : \A x \in jobs'[k].eps :
                 x = e \/ \E j \in DOMAIN jobs : x \in jobs[j].eps
<1>0. observed' = observed \cup {event}
  BY DEF Observe
<1>1. CASE event \in observed
  <2>1. UNCHANGED <<jobs, ops, seed, links>>
    BY <1>1 DEF Observe, core
  <2> QED
    BY <1>0, <2>1 DEF JobsOK, SeedOK, Collecting
<1>2. CASE event \notin observed
  <2>0. /\ jobs \in Seq(JobRecords) /\ DOMAIN jobs = 1 .. Len(jobs) /\ Len(jobs) \in Nat
        /\ \A k \in 1 .. Len(jobs) : jobs[k] \in JobRecords
    BY LenProperties, ElementOfSeq DEF JobsOK
  <2>1. Enqueue(e)
    BY <1>2 DEF Observe
  <2>2. UNCHANGED <<seed, links>> /\ SeedOK'
    BY <2>1 DEF Enqueue, SeedOK
  <2>3. IsFiniteSet(ops')
    BY <2>1, FS_AddElement DEF Enqueue, JobsOK
  <2>4. CASE Collecting = {}
    <3> DEFINE job == [eps |-> {e}, state |-> "collecting"]
    <3>1. job \in JobRecords /\ job.eps = {e}
      BY DEF JobRecords
    <3>2. jobs' = Append(jobs, job)
      BY <2>1, <2>4 DEF Enqueue
    <3> HIDE DEF job
    <3>3. /\ jobs' \in Seq(JobRecords) /\ Len(jobs') = Len(jobs) + 1
          /\ \A k \in 1 .. Len(jobs) : jobs'[k] = jobs[k]
          /\ jobs'[Len(jobs) + 1] = job
      BY <2>0, <3>1, <3>2, AppendProperties
    <3>4. DOMAIN jobs' = 1 .. Len(jobs) + 1
      BY <3>3, LenProperties
    <3>5. \A k \in DOMAIN jobs' : k = Len(jobs) + 1 \/ k \in DOMAIN jobs
      BY <2>0, <3>4
    <3>6. \A k \in DOMAIN jobs' : jobs'[k].eps # {}
      BY <2>0, <3>1, <3>3, <3>5 DEF JobsOK
    <3>7. \A k \in Collecting' : k = Len(jobs) + 1
      BY <2>0, <2>4, <3>3, <3>5 DEF Collecting
    <3>8. JobsOK'
      BY <2>3, <3>3, <3>6, <3>7 DEF JobsOK
    <3> QED
      BY <1>0, <2>0, <2>2, <3>1, <3>3, <3>5, <3>8
  <2>5. CASE Collecting # {}
    <3>1. jobs' = [k \in DOMAIN jobs |->
                     IF k \in Collecting THEN [jobs[k] EXCEPT !.eps = @ \cup {e}] ELSE jobs[k]]
      BY <2>1, <2>5 DEF Enqueue
    <3>2. DOMAIN jobs' = DOMAIN jobs
      BY <3>1
    <3>3. \A k \in DOMAIN jobs : /\ jobs'[k] \in JobRecords
                                 /\ jobs'[k].state = jobs[k].state
                                 /\ jobs[k].eps \subseteq jobs'[k].eps
                                 /\ jobs'[k].eps \subseteq jobs[k].eps \cup {e}
      BY <2>0, <3>1 DEF JobRecords
    <3>4. jobs' \in Seq(JobRecords)
      <4>1. jobs' = [k \in 1 .. Len(jobs) |-> jobs'[k]]
        BY <2>0, <3>1
      <4>2. jobs' \in [1 .. Len(jobs) -> JobRecords]
        BY <2>0, <3>3, <4>1
      <4> QED
        BY <2>0, <4>2, SeqDef
    <3>5. \A k \in DOMAIN jobs' : jobs'[k].eps # {}
      BY <3>2, <3>3 DEF JobsOK
    <3>6. Collecting' = Collecting
      BY <3>2, <3>3 DEF Collecting
    <3>7. JobsOK'
      BY <2>3, <3>4, <3>5, <3>6 DEF JobsOK
    <3> QED
      BY <1>0, <2>2, <3>2, <3>3, <3>7
  <2> QED
    BY <2>4, <2>5
<1> QED
  BY <1>1, <1>2

-----------------------------------------------------------------------------
(* The probe *)

\* While the Harness waits it only reads; what it has read to be over is over.
LEMMA ProbeFacts ==
    ASSUME Shape, JobsOK, ProbeInv, Probe(Expected)
    PROVE  /\ UNCHANGED core
           /\ ProbeInv'
           /\ wait # "idle" /\ wait' # "idle"
           /\ wait' \in {"idle", "index", "episodes", "jobs", "completed", "ops", "check"}
           /\ DOMAIN seen' = DOMAIN seen
<1>0. DOMAIN seen = {"episodes", "pending", "consolidated", "ops"}
  BY DEF Shape
<1>1. CASE ReadIndex
  BY <1>1 DEF ReadIndex, ProbeInv, core
<1>2. CASE ReadEpisodes
  BY <1>0, <1>2 DEF ReadEpisodes, Read, ProbeInv, core
<1>3. CASE ReadJobs
  <2>1. Len(jobs) = 0 => jobs = <<>>
    BY EmptySeq DEF JobsOK
  <2>2. seen'.pending = Len(jobs) /\ wait' = "completed" /\ wait = "jobs" /\ UNCHANGED core
    BY <1>0, <1>3 DEF ReadJobs, Read
  <2>3. DOMAIN seen' = DOMAIN seen
    BY <1>3 DEF ReadJobs, Read
  <2> QED
    BY <2>1, <2>2, <2>3 DEF ProbeInv, core
<1>4. CASE ReadCompleted
  BY <1>0, <1>4 DEF ReadCompleted, Read, ProbeInv, core
<1>5. CASE ReadOps
  <2>1. Cardinality(ops) = 0 => ops = {}
    BY FS_EmptySet DEF JobsOK
  <2>2. /\ seen'.ops = Cardinality(ops) /\ seen'.pending = seen.pending
        /\ wait' = "check" /\ wait = "ops" /\ UNCHANGED core
    BY <1>0, <1>5 DEF ReadOps, Read
  <2>3. DOMAIN seen' = DOMAIN seen
    BY <1>5 DEF ReadOps, Read
  <2> QED
    BY <2>1, <2>2, <2>3 DEF ProbeInv, core
<1>6. CASE ReadAgain(Expected)
  BY <1>0, <1>6 DEF ReadAgain, NotSeen, ProbeInv, core
<1> QED
  BY <1>1, <1>2, <1>3, <1>4, <1>5, <1>6 DEF Probe

\* A wait that ends has found Core with nothing left to do.
LEMMA SettlesFacts ==
    ASSUME ProbeInv, Settles(Expected)
    PROVE  Quiet /\ wait' = "idle" /\ seen' = NotSeen
  BY DEF ProbeInv, Settles, ReadyFor, Quiet

LEMMA SameCore ==
    ASSUME UNCHANGED core, JobsOK, SeedOK
    PROVE  /\ UNCHANGED <<jobs, ops, seed, links>> /\ JobsOK' /\ SeedOK'
           /\ (Quiet => Quiet') /\ MemoryState' = MemoryState
  BY DEF core, JobsOK, SeedOK, Collecting, Quiet, MemoryState

\* A probe that is not waiting has seen nothing that could go stale.
LEMMA NotWaiting == ASSUME wait' \in {"idle", "index"} PROVE ProbeInv'
  BY DEF ProbeInv

\* A gate that has not passed has nothing to answer for.
LEMMA NotPassed ==
    ASSUME Shape', pc' # "done"
    PROVE  PassedMeansBoundary'
  BY DEF Shape, PassedMeansBoundary

-----------------------------------------------------------------------------
(* The actions *)

LEMMA InvInit == Init => IInv
<1> SUFFICES ASSUME Init PROVE IInv
  OBVIOUS
<1>1. /\ jobs = <<>> /\ ops = {} /\ links = {} /\ seed = [version |-> 0, active |-> FALSE]
      /\ wait = "idle" /\ seen = NotSeen /\ pc = "form" /\ at = 1 /\ case = NoCase
      /\ DOMAIN files = {} /\ verdict = None /\ crashes = 0
  BY DEF Init, SettlingInit
<1>2. Shape
  <2>1. 1 \in 1 .. Len(Turns) + 1
    BY TurnsFact
  <2>2. DOMAIN NotSeen = {"episodes", "pending", "consolidated", "ops"}
    BY DEF NotSeen
  <2>3. DOMAIN NoCase = {"rendered", "option", "after", "delayed"}
    BY DEF NoCase
  <2> QED
    BY <1>1, <2>1, <2>2, <2>3, NoneIsFresh DEF Shape, InForm, AtCase
<1>3. JobsOK
  <2>1. jobs \in Seq(JobRecords) /\ DOMAIN jobs = {}
    BY <1>1, EmptySeq
  <2> QED
    BY <1>1, <2>1, FS_EmptySet DEF JobsOK, Collecting
<1>4. SeedOK
  BY <1>1 DEF SeedOK
<1>5. ProbeInv /\ SettledOK
  BY <1>1 DEF ProbeInv, SettledOK
<1>6. CausalInv
  <2>1. DOMAIN jobs = {}
    BY <1>1
  <2>2. verdict # "passed"
    BY <1>1, NoneIsFresh
  <2> QED
    BY <1>1, <2>1, <2>2
    DEF CausalInv, JobsAtHand, LinksKnown, RolesKnown, BeforeLacks, CaseObserved, ResultsOK,
        AtCase, Finished, PassedMeansBoundary
<1> QED
  BY <1>2, <1>3, <1>4, <1>5, <1>6 DEF IInv

\* A suite that fails leaves Core as it is.
LEMMA FailsStep ==
    ASSUME IInv, Fails
    PROVE  IInv'
<1>0. Shape /\ JobsOK /\ SeedOK /\ (crashes = 0 => CausalInv)
  BY DEF IInv
<1>1. /\ verdict' = "failed" /\ pc' = "done" /\ wait' = "idle" /\ seen' = NotSeen
      /\ at' = 1 /\ case' = NoCase
      /\ UNCHANGED <<core, files, crashes>>
  BY DEF Fails, world
<1>2. JobsOK' /\ SeedOK' /\ UNCHANGED <<jobs, ops, seed, links>>
  BY <1>0, <1>1, SameCore
<1>3. Shape'
  BY <1>0, <1>1 DEF Shape, InForm, AtCase, NotSeen, NoCase
<1>4. ProbeInv' /\ SettledOK'
  BY <1>1 DEF ProbeInv, SettledOK
<1>5. ASSUME crashes' = 0 PROVE CausalInv'
  <2>1. RolesKnown'
    BY <1>0, <1>1, <1>2, <1>5 DEF CausalInv, RolesKnown
  <2> QED
    BY <1>1, <2>1
    DEF CausalInv, JobsAtHand, LinksKnown, BeforeLacks, CaseObserved, ResultsOK,
        AtCase, Finished, PassedMeansBoundary
<1> QED
  BY <1>2, <1>3, <1>4, <1>5 DEF IInv

LEMMA FormTurnStep ==
    ASSUME IInv, FormTurn
    PROVE  IInv'
<1>0. Shape /\ JobsOK /\ SeedOK /\ (crashes = 0 => CausalInv)
  BY DEF IInv
<1>1. /\ pc = "form" /\ at <= Len(Turns) /\ Observe(<<"act", Turns[at]>>, Turns[at])
      /\ wait' = "index" /\ seen' = NotSeen /\ pc' = "formed"
      /\ UNCHANGED <<at, before, case, files, verdict, crashes>>
  BY DEF FormTurn, BeginSettle, disk
<1>2. at \in 1 .. Len(Turns) /\ Turns[at] \in ToSet(Turns) /\ Turns[at] \in Episodes
  BY <1>0, <1>1, TurnsFact DEF Shape, Episodes
<1>3. /\ JobsOK' /\ SeedOK' /\ links' = links /\ seed' = seed
      /\ \A k \in DOMAIN jobs' : \A x \in jobs'[k].eps :
            x = Turns[at] \/ \E j \in DOMAIN jobs : x \in jobs[j].eps
  BY <1>0, <1>1, <1>2, ObserveFacts
<1>4. Shape'
  BY <1>0, <1>1, <1>2 DEF Shape, InForm, AtCase, NotSeen
<1>5. ProbeInv' /\ SettledOK'
  BY <1>1 DEF ProbeInv, SettledOK
<1>6. ASSUME crashes' = 0 PROVE CausalInv'
  <2>0. CausalInv
    BY <1>0, <1>1, <1>6
  <2>1. Present = ToSet(Turns) /\ Present' = ToSet(Turns) /\ Finished = {} /\ Finished' = {}
    BY <1>1 DEF Present, Finished, InForm, AtCase
  <2>2. JobsAtHand'
    BY <1>1, <1>2, <1>3, <2>0, <2>1 DEF CausalInv, JobsAtHand
  <2>3. LinksKnown' /\ RolesKnown'
    BY <1>1, <1>3, <2>0, <2>1 DEF CausalInv, LinksKnown, RolesKnown
  <2>4. BeforeLacks' /\ CaseObserved'
    BY <1>1 DEF BeforeLacks, CaseObserved, AtCase
  <2>5. ResultsOK'
    BY <2>1 DEF ResultsOK
  <2> QED
    BY <1>1, <1>4, <2>2, <2>3, <2>4, <2>5, NotPassed DEF CausalInv
<1> QED
  BY <1>3, <1>4, <1>5, <1>6 DEF IInv

LEMMA FormedStep ==
    ASSUME IInv, Formed
    PROVE  IInv'
<1>0. Shape /\ JobsOK /\ SeedOK /\ ProbeInv /\ (crashes = 0 => CausalInv)
  BY DEF IInv
<1>1. /\ pc = "formed" /\ before' = MemoryState
      /\ UNCHANGED <<core, case, files, verdict, crashes>>
      /\ Quiet /\ wait' = "idle" /\ seen' = NotSeen
      /\ \/ pc' = "select" /\ at' = 1
         \/ pc' = "form" /\ at' = at + 1
  BY <1>0, SettlesFacts DEF Formed, disk, world
<1>2. JobsOK' /\ SeedOK' /\ UNCHANGED <<jobs, ops, seed, links>> /\ Quiet' /\ MemoryState' = MemoryState
  BY <1>0, <1>1, SameCore
<1>3. at \in 1 .. Len(Turns)
  BY <1>0, <1>1 DEF Shape
<1>4. Shape'
  BY <1>0, <1>1, <1>3, TurnsFact DEF Shape, InForm, AtCase, NotSeen
<1>5. ProbeInv' /\ SettledOK'
  BY <1>1, <1>2 DEF ProbeInv, SettledOK
<1>6. ASSUME crashes' = 0 PROVE CausalInv'
  <2>0. CausalInv
    BY <1>0, <1>1, <1>6
  <2>1. Present = ToSet(Turns) /\ Finished = {}
    BY <1>1 DEF Present, Finished, InForm, AtCase
  <2>2. DOMAIN jobs' = {}
    BY <1>2 DEF Quiet
  <2>3. \A l \in links : l.episode \in ToSet(Turns)
    BY <1>1, <2>0, <2>1 DEF CausalInv, LinksKnown
  <2>4. Finished' = {}
    BY <1>1 DEF Finished, AtCase
  <2>5. JobsAtHand' /\ LinksKnown' /\ RolesKnown'
    BY <1>2, <2>0, <2>2, <2>3 DEF CausalInv, JobsAtHand, LinksKnown, RolesKnown
  <2>6. BeforeLacks'
    <3>1. CASE pc' = "select" /\ at' = 1
      <4>1. \A l \in links : l.episode # Cases[1]
        BY <2>3, CasesFact, TurnsFact
      <4>2. before'.links = links
        BY <1>1 DEF MemoryState
      <4> QED
        BY <1>2, <3>1, <4>1, <4>2 DEF BeforeLacks
    <3>2. CASE pc' = "form"
      BY <3>2 DEF BeforeLacks, AtCase
    <3> QED
      BY <1>1, <3>1, <3>2
  <2>7. CaseObserved'
    BY <1>1 DEF CaseObserved, AtCase
  <2>8. ResultsOK'
    BY <2>4 DEF ResultsOK
  <2> QED
    BY <1>1, <1>4, <2>5, <2>6, <2>7, <2>8, NotPassed DEF CausalInv
<1> QED
  BY <1>2, <1>4, <1>5, <1>6 DEF IInv

LEMMA SelectProbeStep ==
    ASSUME IInv, SelectProbe
    PROVE  IInv'
<1>0. Shape /\ JobsOK /\ SeedOK /\ SettledOK /\ (crashes = 0 => CausalInv)
  BY DEF IInv
<1>1. CASE Fails
  BY <1>1, FailsStep
<1>2. CASE ~Fails
  <2>1. /\ pc = "select" /\ pc' = "act" /\ before.active
        /\ \E context : case' = [NoCase EXCEPT !.rendered = context]
        /\ observed' = observed \cup (IF Delivers(Cases[at]) THEN {<<"delivery", Cases[at]>>} ELSE {})
        /\ UNCHANGED <<core, wait, seen, at, before, files, verdict, crashes>>
    BY <1>2 DEF SelectProbe, disk
  <2>2. JobsOK' /\ SeedOK' /\ UNCHANGED <<jobs, ops, seed, links>>
    BY <1>0, <2>1, SameCore
  <2>3. wait = "idle" /\ at \in 1 .. 4
    BY <1>0, <2>1 DEF Shape, InForm
  <2>4. Shape'
    BY <1>0, <2>1 DEF Shape, InForm, AtCase, NoCase
  <2>5. ProbeInv' /\ SettledOK'
    BY <2>1, <2>3 DEF ProbeInv, SettledOK
  <2>6. ASSUME crashes' = 0 PROVE CausalInv'
    <3>0. CausalInv
      BY <1>0, <2>1, <2>6
    <3>1. Present' = Present /\ Finished' = Finished
      BY <2>1 DEF Present, Finished, InForm, AtCase
    <3>2. JobsAtHand' /\ LinksKnown' /\ RolesKnown' /\ BeforeLacks'
      BY <2>1, <2>2, <3>0, <3>1 DEF CausalInv, JobsAtHand, LinksKnown, RolesKnown, BeforeLacks, AtCase
    <3>3. seed.version >= 1
      BY <1>0, <2>1 DEF SettledOK, MemoryState, SeedOK
    <3>4. CaseObserved'
      BY <2>1, <2>2, <3>3 DEF CaseObserved
    <3>5. ResultsOK'
      BY <2>1, <2>2, <3>0, <3>1 DEF CausalInv, ResultsOK, FinishedOK, RolesOf
    <3> QED
      BY <2>1, <2>4, <3>2, <3>4, <3>5, NotPassed DEF CausalInv
  <2> QED
    BY <2>2, <2>4, <2>5, <2>6 DEF IInv
<1> QED
  BY <1>1, <1>2

\* What Core is told about the case at hand, and what it makes of it, is about this case.
LEMMA CausalAtHand ==
    ASSUME Shape, Shape', CausalInv, AtCase, AtCase', pc # "select", pc' # "select",
           UNCHANGED <<at, before, files>>, observed \subseteq observed', seed'.version >= 1,
           pc' \in {"settle", "delayed", "freeze"} =>
               (HasOutcome(Cases[at]) => <<"outcome", Cases[at]>> \in observed'),
           \A k \in DOMAIN jobs' : jobs'[k].eps \subseteq Present,
           links \subseteq links',
           \A l \in links' \ links :
               l.episode \in Present /\ l.role \in {"reenactment", "revision", "inhibition"}
    PROVE  CausalInv'
<1>0. at \in 1 .. 4 /\ pc' # "done"
  BY DEF Shape, AtCase, InForm
<1>1. /\ Present = {Cases[at]} /\ Present' = {Cases[at]}
      /\ Finished = {Cases[k] : k \in 1 .. at - 1} /\ Finished' = Finished
  BY DEF Present, Finished, AtCase, InForm
<1>2. Cases[at] \notin Finished
  BY <1>0, <1>1, CasesFact
<1>3. JobsAtHand'
  BY <1>1 DEF JobsAtHand
<1>4. LinksKnown'
  <2>1. \A l \in links : l.episode \in ToSet(Turns) \cup Finished \cup Present
    BY DEF CausalInv, LinksKnown, AtCase
  <2> QED
    BY <1>1, <2>1 DEF LinksKnown
<1>5. RolesKnown'
  BY DEF CausalInv, RolesKnown
<1>6. BeforeLacks'
  <2>1. {l \in links' : l.episode # Cases[at]} = {l \in links : l.episode # Cases[at]}
    BY <1>1
  <2> QED
    BY <2>1 DEF CausalInv, BeforeLacks
<1>7. CaseObserved'
  BY DEF CausalInv, CaseObserved
<1>8. ResultsOK'
  <2> SUFFICES ASSUME NEW c \in Finished PROVE FinishedOK(c)'
    BY <1>1 DEF ResultsOK
  <2>1. FinishedOK(c) /\ c # Cases[at]
    BY <1>2 DEF CausalInv, ResultsOK
  <2>2. RolesOf(c)' = RolesOf(c)
    <3>1. {k \in links' : k.episode = c} = {k \in links : k.episode = c}
      BY <1>1, <2>1
    <3> QED
      BY <3>1 DEF RolesOf
  <2> QED
    BY <2>1, <2>2 DEF FinishedOK
<1> QED
  BY <1>0, <1>3, <1>4, <1>5, <1>6, <1>7, <1>8, NotPassed DEF CausalInv

LEMMA ObserveActStep ==
    ASSUME IInv, ObserveAct
    PROVE  IInv'
<1>0. Shape /\ JobsOK /\ SeedOK /\ (crashes = 0 => CausalInv)
  BY DEF IInv
<1>1. CASE Fails
  BY <1>1, FailsStep
<1>2. CASE ~Fails
  <2>1. /\ pc = "act" /\ pc' = "outcome"
        /\ case' = [case EXCEPT !.option = chosen[Cases[at]].option]
        /\ Observe(<<"act", Cases[at]>>, Cases[at])
        /\ UNCHANGED <<wait, seen, at, before, files, verdict, crashes>>
    BY <1>2 DEF ObserveAct, disk
  <2>2. wait = "idle" /\ at \in 1 .. 4 /\ Cases[at] \in Episodes
    BY <1>0, <2>1, CasesFact DEF Shape, InForm, Episodes
  <2>3. /\ JobsOK' /\ SeedOK' /\ links' = links /\ seed' = seed
        /\ observed' = observed \cup {<<"act", Cases[at]>>}
        /\ \A k \in DOMAIN jobs' : \A x \in jobs'[k].eps :
              x = Cases[at] \/ \E j \in DOMAIN jobs : x \in jobs[j].eps
    BY <1>0, <2>1, <2>2, ObserveFacts
  <2>4. Shape'
    BY <1>0, <2>1 DEF Shape, InForm, AtCase
  <2>5. ProbeInv' /\ SettledOK'
    BY <2>1, <2>2 DEF ProbeInv, SettledOK
  <2>6. ASSUME crashes' = 0 PROVE CausalInv'
    <3>0. CausalInv
      BY <1>0, <2>1, <2>6
    <3>1. AtCase /\ AtCase' /\ Present = {Cases[at]}
      BY <2>1 DEF AtCase, Present, InForm
    <3>2. \A k \in DOMAIN jobs' : jobs'[k].eps \subseteq Present
      BY <2>1, <2>3, <3>0, <3>1 DEF CausalInv, JobsAtHand
    <3>3. seed'.version >= 1
      BY <2>1, <2>3, <3>0, <3>1 DEF CausalInv, CaseObserved
    <3> QED
      BY <1>0, <2>1, <2>3, <2>4, <3>0, <3>1, <3>2, <3>3, CausalAtHand
  <2> QED
    BY <2>3, <2>4, <2>5, <2>6 DEF IInv
<1> QED
  BY <1>1, <1>2

LEMMA ReportOutcomeStep ==
    ASSUME IInv, ReportOutcome
    PROVE  IInv'
<1>0. Shape /\ JobsOK /\ SeedOK /\ (crashes = 0 => CausalInv)
  BY DEF IInv
<1>1. /\ pc = "outcome" /\ pc' = "settle" /\ wait' = "index" /\ seen' = NotSeen
      /\ UNCHANGED <<at, before, case, files, verdict, crashes>>
  BY DEF ReportOutcome, BeginSettle, disk
<1>2. at \in 1 .. 4 /\ Cases[at] \in Episodes
  BY <1>0, <1>1, CasesFact DEF Shape, InForm, Episodes
<1>3. /\ JobsOK' /\ SeedOK' /\ links' = links /\ seed' = seed /\ observed \subseteq observed'
      /\ HasOutcome(Cases[at]) => <<"outcome", Cases[at]>> \in observed'
      /\ \A k \in DOMAIN jobs' : \A x \in jobs'[k].eps :
            x = Cases[at] \/ \E j \in DOMAIN jobs : x \in jobs[j].eps
  <2>1. CASE HasOutcome(Cases[at])
    <3>1. Observe(<<"outcome", Cases[at]>>, Cases[at])
      BY <2>1 DEF ReportOutcome
    <3>2. /\ JobsOK' /\ SeedOK' /\ links' = links /\ seed' = seed
          /\ observed' = observed \cup {<<"outcome", Cases[at]>>}
          /\ \A k \in DOMAIN jobs' : \A x \in jobs'[k].eps :
                x = Cases[at] \/ \E j \in DOMAIN jobs : x \in jobs[j].eps
      BY <1>0, <1>2, <3>1, ObserveFacts
    <3> QED
      BY <3>2
  <2>2. CASE ~HasOutcome(Cases[at])
    <3>1. UNCHANGED <<core, observed>>
      BY <2>2 DEF ReportOutcome
    <3>2. UNCHANGED <<jobs, ops, seed, links>> /\ JobsOK' /\ SeedOK'
      BY <1>0, <3>1, SameCore
    <3> QED
      BY <2>2, <3>1, <3>2
  <2> QED
    BY <2>1, <2>2
<1>4. Shape'
  BY <1>0, <1>1 DEF Shape, InForm, AtCase, NotSeen
<1>5. ProbeInv' /\ SettledOK'
  BY <1>1 DEF ProbeInv, SettledOK
<1>6. ASSUME crashes' = 0 PROVE CausalInv'
  <2>0. CausalInv
    BY <1>0, <1>1, <1>6
  <2>1. AtCase /\ AtCase' /\ Present = {Cases[at]}
    BY <1>1 DEF AtCase, Present, InForm
  <2>2. \A k \in DOMAIN jobs' : jobs'[k].eps \subseteq Present
    BY <1>1, <1>3, <2>0, <2>1 DEF CausalInv, JobsAtHand
  <2>3. seed'.version >= 1
    BY <1>1, <1>3, <2>0, <2>1 DEF CausalInv, CaseObserved
  <2> QED
    BY <1>0, <1>1, <1>3, <1>4, <2>0, <2>1, <2>2, <2>3, CausalAtHand
<1> QED
  BY <1>3, <1>4, <1>5, <1>6 DEF IInv

LEMMA SettleCaseStep ==
    ASSUME IInv, SettleCase
    PROVE  IInv'
<1>0. Shape /\ JobsOK /\ SeedOK /\ ProbeInv /\ (crashes = 0 => CausalInv)
  BY DEF IInv
<1>1. /\ pc = "settle" /\ pc' = "delayed"
      /\ case' = [case EXCEPT !.after = MemoryState]
      /\ UNCHANGED <<core, at, before, files, verdict, observed, crashes>>
      /\ Quiet /\ wait' = "idle" /\ seen' = NotSeen
  BY <1>0, SettlesFacts DEF SettleCase, disk, world
<1>2. JobsOK' /\ SeedOK' /\ UNCHANGED <<jobs, ops, seed, links>> /\ Quiet' /\ MemoryState' = MemoryState
  BY <1>0, <1>1, SameCore
<1>3. Shape'
  BY <1>0, <1>1 DEF Shape, InForm, AtCase, NotSeen
<1>4. case'.after = MemoryState
  BY <1>0, <1>1 DEF Shape
<1>5. ProbeInv' /\ SettledOK'
  BY <1>1, <1>2, <1>4 DEF ProbeInv, SettledOK
<1>6. ASSUME crashes' = 0 PROVE CausalInv'
  <2>0. CausalInv
    BY <1>0, <1>1, <1>6
  <2>1. AtCase /\ AtCase'
    BY <1>1 DEF AtCase
  <2>2. \A k \in DOMAIN jobs' : jobs'[k].eps \subseteq Present
    BY <1>2 DEF Quiet
  <2>3. seed'.version >= 1 /\ (HasOutcome(Cases[at]) => <<"outcome", Cases[at]>> \in observed')
    BY <1>1, <1>2, <2>0, <2>1 DEF CausalInv, CaseObserved
  <2> QED
    BY <1>0, <1>1, <1>2, <1>3, <2>0, <2>1, <2>2, <2>3, CausalAtHand
<1> QED
  BY <1>2, <1>3, <1>5, <1>6 DEF IInv

LEMMA SelectDelayedStep ==
    ASSUME IInv, SelectDelayed
    PROVE  IInv'
<1>0. Shape /\ JobsOK /\ SeedOK /\ SettledOK /\ (crashes = 0 => CausalInv)
  BY DEF IInv
<1>1. /\ pc = "delayed" /\ pc' = "freeze"
      /\ case' = [case EXCEPT !.delayed = Selectable]
      /\ UNCHANGED <<core, wait, seen, at, before, files, verdict, observed, crashes>>
  BY DEF SelectDelayed, disk, world
<1>2. JobsOK' /\ SeedOK' /\ UNCHANGED <<jobs, ops, seed, links>> /\ MemoryState' = MemoryState
  BY <1>0, <1>1, SameCore
<1>3. Shape' /\ wait' = "idle"
  BY <1>0, <1>1 DEF Shape, InForm, AtCase
<1>4. Quiet /\ Quiet' /\ case'.after = MemoryState
  BY <1>0, <1>1, SameCore DEF Shape, SettledOK
<1>5. ProbeInv' /\ SettledOK'
  BY <1>1, <1>2, <1>3, <1>4 DEF ProbeInv, SettledOK
<1>6. ASSUME crashes' = 0 PROVE CausalInv'
  <2>0. CausalInv
    BY <1>0, <1>1, <1>6
  <2>1. AtCase /\ AtCase'
    BY <1>1 DEF AtCase
  <2>2. \A k \in DOMAIN jobs' : jobs'[k].eps \subseteq Present
    BY <1>2, <1>4 DEF Quiet
  <2>3. seed'.version >= 1 /\ (HasOutcome(Cases[at]) => <<"outcome", Cases[at]>> \in observed')
    BY <1>1, <1>2, <2>0, <2>1 DEF CausalInv, CaseObserved
  <2> QED
    BY <1>0, <1>1, <1>2, <1>3, <2>0, <2>1, <2>2, <2>3, CausalAtHand
<1> QED
  BY <1>2, <1>3, <1>5, <1>6 DEF IInv

\* The result that is frozen says what the case has made of the Seed.
LEMMA FreezeCaseStep ==
    ASSUME IInv, FreezeCase
    PROVE  IInv'
<1>0. Shape /\ JobsOK /\ SeedOK /\ SettledOK /\ (crashes = 0 => CausalInv)
  BY DEF IInv
<1> DEFINE result == [expressed |-> case.option = "A",
                      reenacted |-> BasisDelta(before, case.after, {"reenactment"}) # {},
                      revised   |-> BasisDelta(before, case.after, {"revision", "inhibition"}) # {},
                      changed   |-> case.rendered # case.delayed]
<1>1. /\ pc = "freeze" /\ files' = With(files, Cases[at], result)
      /\ before' = case.after /\ case' = NoCase
      /\ \/ at < 4 /\ pc' = "select" /\ at' = at + 1
         \/ at >= 4 /\ pc' = "summary" /\ at' = at
      /\ UNCHANGED <<core, wait, seen, verdict, observed, crashes>>
  <2>1. at \in 1 .. 4
    BY <1>0 DEF FreezeCase, Shape, InForm
  <2>2. at < Len(Cases) <=> ~(at >= 4)
    BY <2>1, CasesFact
  <2>3. at < 4 <=> ~(at >= 4)
    BY <2>1
  <2>4. CASE at < 4
    BY <2>2, <2>3, <2>4 DEF FreezeCase, world
  <2>5. CASE at >= 4
    BY <2>2, <2>3, <2>5 DEF FreezeCase, world
  <2> QED
    BY <2>3, <2>4, <2>5
<1>2. at \in 1 .. 4 /\ wait = "idle"
  BY <1>0, <1>1 DEF Shape, InForm
<1>3. /\ JobsOK' /\ SeedOK' /\ UNCHANGED <<jobs, ops, seed, links>> /\ MemoryState' = MemoryState
      /\ Quiet /\ Quiet' /\ case.after = MemoryState
  BY <1>0, <1>1, SameCore DEF SettledOK
<1>4. /\ DOMAIN files' = DOMAIN files \cup {Cases[at]} /\ files'[Cases[at]] = result
      /\ \A c \in DOMAIN files : c # Cases[at] => files'[c] = files[c]
  BY <1>1 DEF With
<1>5. /\ result.reenacted <=> BasisDelta(before, case.after, {"reenactment"}) # {}
      /\ result.revised <=> BasisDelta(before, case.after, {"revision", "inhibition"}) # {}
  OBVIOUS
<1> HIDE DEF result
<1>6. Shape'
  <2>1. at' \in 1 .. 4
    BY <1>1, <1>2
  <2>2. DOMAIN files' \subseteq ToSet(Cases)
    BY <1>0, <1>2, <1>4, CasesFact DEF Shape
  <2> QED
    BY <1>0, <1>1, <2>1, <2>2 DEF Shape, InForm, AtCase, NoCase
<1>7. ProbeInv' /\ SettledOK'
  BY <1>1, <1>2, <1>3 DEF ProbeInv, SettledOK
<1>8. ASSUME crashes' = 0 PROVE CausalInv'
  <2>0. CausalInv
    BY <1>0, <1>1, <1>8
  <2>1. /\ Present = {Cases[at]} /\ Finished = {Cases[k] : k \in 1 .. at - 1}
        /\ AtCase
    BY <1>1 DEF Present, Finished, AtCase, InForm
  <2>2. Finished' = Finished \cup {Cases[at]}
    <3>1. CASE at < 4 /\ pc' = "select" /\ at' = at + 1
      <4>1. Finished' = {Cases[k] : k \in 1 .. at}
        <5>1. Finished' = {Cases[k] : k \in 1 .. (at + 1) - 1}
          BY <3>1 DEF Finished, AtCase
        <5>2. (at + 1) - 1 = at
          BY <1>2
        <5> QED
          BY <5>1, <5>2
      <4>2. 1 .. at = (1 .. at - 1) \cup {at}
        BY <1>2
      <4> QED
        BY <2>1, <4>1, <4>2
    <3>2. CASE at >= 4 /\ pc' = "summary"
      <4>1. at = 4 /\ 1 .. 4 = (1 .. 4 - 1) \cup {4}
        BY <1>2, <3>2
      <4>2. Finished' = {Cases[k] : k \in 1 .. 4}
        BY <3>2, CasesFact DEF Finished, AtCase
      <4> QED
        BY <2>1, <4>1, <4>2
    <3> QED
      BY <1>1, <3>1, <3>2
  <2>3. JobsAtHand'
    BY <1>3 DEF JobsAtHand, Quiet
  <2>4. \A l \in links : l.episode \in ToSet(Turns) \cup Finished \cup {Cases[at]}
    BY <1>1, <2>0, <2>1 DEF CausalInv, LinksKnown
  <2>5. LinksKnown' /\ RolesKnown'
    BY <1>3, <2>0, <2>2, <2>4 DEF CausalInv, LinksKnown, RolesKnown
  <2>6. BeforeLacks'
    <3>1. CASE at < 4 /\ pc' = "select" /\ at' = at + 1
      <4>1. at + 1 \in 1 .. 4 /\ \A k \in 1 .. at : k \in 1 .. 4 /\ k # at + 1
        BY <1>2, <3>1
      <4>2. \A l \in links : l.episode # Cases[at + 1]
        <5>1. Cases[at + 1] \notin Finished /\ Cases[at + 1] # Cases[at]
          BY <1>2, <2>1, <4>1, CasesFact
        <5>2. Cases[at + 1] \notin ToSet(Turns)
          BY <4>1, CasesFact, TurnsFact
        <5> QED
          BY <2>4, <5>1, <5>2
      <4>3. before'.links = links
        BY <1>1, <1>3 DEF MemoryState
      <4> QED
        BY <1>3, <3>1, <4>2, <4>3 DEF BeforeLacks
    <3>2. CASE pc' = "summary"
      BY <3>2 DEF BeforeLacks, AtCase
    <3> QED
      BY <1>1, <3>1, <3>2
  <2>7. CaseObserved'
    BY <1>1 DEF CaseObserved, AtCase
  <2>8. ResultsOK'
    <3>1. ASSUME NEW c \in Finished PROVE FinishedOK(c)'
      <4>1. c # Cases[at] /\ FinishedOK(c)
        BY <1>2, <2>0, <2>1, CasesFact DEF CausalInv, ResultsOK
      <4> QED
        BY <1>1, <1>3, <1>4, <4>1 DEF FinishedOK, RolesOf
    <3>2. ASSUME NEW c, c = Cases[at] PROVE FinishedOK(c)'
      <4>1. before.links = {l \in links : l.episode # c} /\ case.after.links = links
        BY <1>3, <2>0, <2>1, <3>2 DEF CausalInv, BeforeLacks, MemoryState
      <4>2. \A roles : BasisDelta(before, case.after, roles) # {} <=> \E r \in RolesOf(c) : r \in roles
        BY <4>1 DEF BasisDelta, RolesOf
      <4>3. /\ files'[c].reenacted <=> "reenactment" \in RolesOf(c)
            /\ files'[c].revised <=> RolesOf(c) \cap {"revision", "inhibition"} # {}
        BY <1>4, <1>5, <3>2, <4>2
      <4>4. /\ Delivers(c) => <<"delivery", c>> \in observed
            /\ HasOutcome(c) => <<"outcome", c>> \in observed
        BY <1>1, <2>0, <2>1, <3>2 DEF CausalInv, CaseObserved
      <4> QED
        BY <1>1, <1>3, <1>4, <3>2, <4>3, <4>4 DEF FinishedOK, RolesOf
    <3> QED
      BY <2>2, <3>1, <3>2 DEF ResultsOK
  <2> QED
    BY <1>1, <1>6, <2>3, <2>5, <2>6, <2>7, <2>8, NotPassed DEF CausalInv
<1> QED
  BY <1>3, <1>6, <1>7, <1>8 DEF IInv

\* A gate that passes has seen what it passes on.
LEMMA SummarizeStep ==
    ASSUME IInv, Summarize
    PROVE  IInv'
<1>0. Shape /\ JobsOK /\ SeedOK /\ (crashes = 0 => CausalInv)
  BY DEF IInv
<1>1. /\ pc = "summary" /\ pc' = "done"
      /\ verdict' = IF Passed THEN "passed" ELSE "failed"
      /\ UNCHANGED <<core, wait, seen, at, case, files, observed, crashes>>
  BY DEF Summarize, world
<1>2. JobsOK' /\ SeedOK' /\ UNCHANGED <<jobs, ops, seed, links>>
  BY <1>0, <1>1, SameCore
<1>3. Shape' /\ wait = "idle"
  BY <1>0, <1>1 DEF Shape, InForm, AtCase
<1>4. ProbeInv' /\ SettledOK'
  BY <1>1, <1>3 DEF ProbeInv, SettledOK
<1>5. ASSUME crashes' = 0 PROVE CausalInv'
  <2>0. CausalInv
    BY <1>0, <1>1, <1>5
  <2>1. /\ Finished = ToSet(Cases) /\ Finished' = {} /\ ~AtCase'
    BY <1>1 DEF Finished, AtCase
  <2>2. /\ JobsAtHand' /\ LinksKnown' /\ RolesKnown' /\ BeforeLacks' /\ CaseObserved' /\ ResultsOK'
    BY <1>1, <1>2, <2>0, <2>1
    DEF CausalInv, JobsAtHand, LinksKnown, RolesKnown, BeforeLacks, CaseObserved, ResultsOK, AtCase
  <2>3. PassedMeansBoundary'
    <3> SUFFICES ASSUME verdict' = "passed" PROVE PassedMeansBoundary'
      BY DEF PassedMeansBoundary
    <3>1. Passed
      BY <1>1
    <3>2. \A c \in ToSet(Cases) : FinishedOK(c)
      BY <2>0, <2>1 DEF CausalInv, ResultsOK
    <3>3. /\ files["positive_complete"].reenacted
          /\ ~files["no_delivery"].reenacted /\ ~files["no_delivery"].revised
          /\ ~files["no_outcome"].revised /\ files["negative_complete"].revised
      BY <3>1 DEF Passed
    <3>4. /\ "reenactment" \in RolesOf("positive_complete")
          /\ RolesOf("negative_complete") \cap {"revision", "inhibition"} # {}
          /\ RolesOf("no_delivery") \cap {"reenactment", "revision", "inhibition"} = {}
          /\ RolesOf("no_outcome") \cap {"revision", "inhibition"} = {}
      BY <3>2, <3>3, CasesFact DEF FinishedOK
    <3>5. ASSUME NEW l \in links, l.episode \in ToSet(Cases)
          PROVE  /\ <<"delivery", l.episode>> \in observed
                 /\ l.role # "reenactment" => <<"outcome", l.episode>> \in observed
      <4>1. l.role \in RolesOf(l.episode) /\ l.role \in {"reenactment", "revision", "inhibition"}
        BY <2>0, <3>5 DEF CausalInv, RolesKnown, RolesOf
      <4>2. l.episode # "no_delivery" /\ (l.role # "reenactment" => l.episode # "no_outcome")
        BY <3>4, <4>1
      <4> QED
        BY <3>2, <3>5, <4>2 DEF FinishedOK, Delivers, HasOutcome
    <3>6. \A c \in ToSet(Cases) :
             {l.role : l \in {k \in {m \in links : m.episode \in ToSet(Cases)} : k.episode = c}} = RolesOf(c)
      BY DEF RolesOf
    <3>7. "positive_complete" \in ToSet(Cases) /\ "negative_complete" \in ToSet(Cases)
      BY CasesFact
    <3>8. /\ "reenactment" \in {l.role : l \in {k \in {m \in links : m.episode \in ToSet(Cases)} :
                                                   k.episode = "positive_complete"}}
          /\ {l.role : l \in {k \in {m \in links : m.episode \in ToSet(Cases)} :
                                 k.episode = "negative_complete"}} \cap {"revision", "inhibition"} # {}
      BY <3>4, <3>6, <3>7
    <3> QED
      BY <1>1, <1>2, <3>5, <3>8 DEF PassedMeansBoundary
  <2> QED
    BY <2>2, <2>3 DEF CausalInv
<1> QED
  BY <1>2, <1>3, <1>4, <1>5 DEF IInv

LEMMA WaitsStep ==
    ASSUME IInv, Waits
    PROVE  IInv'
<1>0. Shape /\ JobsOK /\ SeedOK /\ ProbeInv /\ (crashes = 0 => CausalInv)
  BY DEF IInv
<1>1. /\ pc \in {"formed", "settle"} /\ Probe(Expected)
      /\ UNCHANGED <<pc, at, before, case, files, verdict, observed, crashes>>
  BY DEF Waits, harness, disk, world
<1>2. /\ UNCHANGED core /\ ProbeInv' /\ wait # "idle" /\ wait' # "idle"
      /\ wait' \in {"idle", "index", "episodes", "jobs", "completed", "ops", "check"}
      /\ DOMAIN seen' = DOMAIN seen
  BY <1>0, <1>1, ProbeFacts
<1>3. JobsOK' /\ SeedOK' /\ UNCHANGED <<jobs, ops, seed, links>>
  BY <1>0, <1>2, SameCore
<1>4. Shape' /\ SettledOK'
  BY <1>0, <1>1, <1>2 DEF Shape, InForm, AtCase, SettledOK
<1>5. ASSUME crashes' = 0 PROVE CausalInv'
  BY <1>0, <1>1, <1>3, <1>5
  DEF CausalInv, JobsAtHand, LinksKnown, RolesKnown, BeforeLacks, CaseObserved, ResultsOK, FinishedOK,
      RolesOf, Present, Finished, InForm, AtCase, PassedMeansBoundary
<1> QED
  BY <1>2, <1>3, <1>4, <1>5 DEF IInv

\* Core's own work: it ends, and while it goes on it is about the Episodes at hand.
LEMMA CoreStep ==
    ASSUME IInv, CoreWorks
    PROVE  IInv'
<1>0. Shape /\ JobsOK /\ SeedOK /\ ProbeInv /\ SettledOK /\ (crashes = 0 => CausalInv)
  BY DEF IInv
<1>1. /\ pc # "done" /\ Background
      /\ UNCHANGED <<pc, at, before, case, files, verdict, observed, crashes, wait, seen>>
  BY DEF CoreWorks, Background, harness, disk, world
<1>2. CoreMayDo
  BY <1>0, <1>1, BackgroundFacts
<1>3. ~Quiet
  <2>1. Background => ops # {} \/ DOMAIN jobs # {}
    BY DEF Background, Acknowledge
  <2> QED
    BY <1>1, <2>1 DEF Quiet
<1>4. Shape'
  BY <1>0, <1>1 DEF Shape, InForm, AtCase
<1>5. ProbeInv'
  BY <1>0, <1>1, <1>2 DEF ProbeInv, CoreMayDo
<1>6. pc \notin {"delayed", "freeze", "select", "summary"} /\ SettledOK'
  BY <1>0, <1>1, <1>3 DEF SettledOK
<1>7. ASSUME crashes' = 0 PROVE CausalInv'
  <2>0. CausalInv
    BY <1>0, <1>1, <1>7
  <2>1. \A j \in DOMAIN jobs : jobs[j].eps \subseteq Present
    BY <1>1, <2>0 DEF CausalInv, JobsAtHand
  <2>2. \A k \in DOMAIN jobs' : jobs'[k].eps \subseteq Present
    BY <1>2, <2>1 DEF CoreMayDo
  <2>3. \A l \in links' \ links : l.episode \in Present
    BY <1>2, <2>1 DEF CoreMayDo
  <2>4. Present' = Present /\ Finished' = Finished
    BY <1>1 DEF Present, Finished, InForm, AtCase
  <2>5. CASE InForm
    <3>1. Present = ToSet(Turns) /\ Finished = {} /\ ~AtCase /\ ~AtCase'
      BY <1>1, <2>5 DEF Present, Finished, InForm, AtCase
    <3>2. JobsAtHand' /\ LinksKnown'
      BY <1>1, <2>0, <2>2, <2>3, <2>4 DEF CausalInv, JobsAtHand, LinksKnown
    <3>3. RolesKnown'
      BY <2>0, <2>3, <3>1, TurnsFact DEF CausalInv, RolesKnown
    <3>4. BeforeLacks' /\ CaseObserved' /\ ResultsOK'
      BY <2>4, <3>1 DEF BeforeLacks, CaseObserved, ResultsOK, AtCase
    <3> QED
      BY <1>1, <1>4, <3>2, <3>3, <3>4, NotPassed DEF CausalInv
  <2>6. CASE AtCase
    <3>1. AtCase' /\ pc # "select" /\ pc' # "select"
      BY <1>1, <1>6, <2>6 DEF AtCase
    <3>2. seed.version >= 1 /\ seed.version \in Nat /\ seed'.version \in Nat
      BY <1>0, <1>2, <2>0, <2>6, <3>1 DEF CausalInv, CaseObserved, SeedOK, CoreMayDo
    <3>3. seed'.version >= 1
      BY <1>2, <3>2 DEF CoreMayDo
    <3>4. \A l \in links' \ links :
             l.episode \in Present /\ l.role \in {"reenactment", "revision", "inhibition"}
      BY <1>2, <2>3, <3>2 DEF CoreMayDo
    <3>5. pc \in {"settle", "delayed", "freeze"} =>
             (HasOutcome(Cases[at]) => <<"outcome", Cases[at]>> \in observed')
      BY <1>1, <2>0 DEF CausalInv, CaseObserved
    <3> QED
      BY <1>0, <1>1, <1>2, <1>4, <2>0, <2>2, <2>6, <3>1, <3>3, <3>4, <3>5, CausalAtHand DEF CoreMayDo
  <2> QED
    BY <1>0, <1>1, <1>6, <2>5, <2>6 DEF Shape
<1> QED
  BY <1>2, <1>4, <1>5, <1>6, <1>7 DEF IInv, CoreMayDo

\* A Harness that was killed begins again, and answers for nothing.
LEMMA CrashStep ==
    ASSUME IInv, CrashAndRestart
    PROVE  IInv'
<1>0. Shape /\ JobsOK /\ SeedOK
  BY DEF IInv
<1>1. /\ pc # "done" /\ crashes' = crashes + 1 /\ pc' = "form" /\ at' = 1 /\ case' = NoCase
      /\ wait' = "idle" /\ seen' = NotSeen
      /\ UNCHANGED <<core, files, verdict>>
  BY DEF CrashAndRestart, disk
<1>2. JobsOK' /\ SeedOK'
  BY <1>0, <1>1, SameCore
<1>3. 1 \in 1 .. Len(Turns) + 1
  BY TurnsFact
<1>4. Shape'
  BY <1>0, <1>1, <1>3 DEF Shape, InForm, AtCase, NotSeen, NoCase
<1>5. ProbeInv' /\ SettledOK'
  BY <1>1 DEF ProbeInv, SettledOK
<1>6. crashes' # 0
  BY <1>0, <1>1 DEF Shape
<1> QED
  BY <1>2, <1>4, <1>5, <1>6 DEF IInv

LEMMA InvNext == IInv /\ [Next]_vars => IInv'
<1> SUFFICES ASSUME IInv, [Next]_vars PROVE IInv'
  OBVIOUS
<1>1. CASE Harness
  BY <1>1, FormTurnStep, FormedStep, FailsStep, SelectProbeStep, ObserveActStep, ReportOutcomeStep,
     SettleCaseStep, SelectDelayedStep, FreezeCaseStep, SummarizeStep, WaitsStep
  DEF Harness, FormationFails, CaseRefused
<1>2. CASE CoreWorks
  BY <1>2, CoreStep
<1>3. CASE SettleTimesOut
  BY <1>3, FailsStep DEF SettleTimesOut
<1>4. CASE CrashAndRestart
  BY <1>4, CrashStep
<1>5. CASE UNCHANGED vars
  <2>1. UNCHANGED <<core, jobs, ops, seed, links, wait, seen, pc, at, before, case, files, verdict, observed, crashes>>
    BY <1>5 DEF vars, core, harness, disk, world
  <2>2. Shape' /\ JobsOK' /\ SeedOK' /\ ProbeInv' /\ SettledOK'
    BY <2>1 DEF IInv, Shape, InForm, AtCase, JobsOK, Collecting, SeedOK, ProbeInv, SettledOK, Quiet, MemoryState
  <2>3. crashes' = 0 => CausalInv'
    BY <2>1 DEF IInv, CausalInv, JobsAtHand, LinksKnown, RolesKnown, BeforeLacks, CaseObserved, ResultsOK,
        FinishedOK, RolesOf, Present, Finished, InForm, AtCase, PassedMeansBoundary
  <2> QED
    BY <2>2, <2>3 DEF IInv
<1> QED
  BY <1>1, <1>2, <1>3, <1>4, <1>5 DEF Next

LEMMA LifecycleInvariant == Spec => []IInv
<1> QED
  BY InvInit, InvNext, PTL DEF Spec

-----------------------------------------------------------------------------
(* Theorems *)

LEMMA InvImpliesType == IInv => TypeOK
<1> SUFFICES ASSUME IInv PROVE TypeOK
  OBVIOUS
<1>0. Shape /\ JobsOK /\ SeedOK
  BY DEF IInv
<1>1. pc \in {"form", "formed", "select", "act", "outcome", "settle", "delayed", "freeze", "summary", "done"}
  BY <1>0 DEF Shape, InForm, AtCase
<1>2. at \in 1 .. IF pc \in {"form", "formed"} THEN Len(Turns) + 1 ELSE Len(Cases)
  <2>1. CASE pc \in {"form", "formed"}
    <3>1. at \in 1 .. Len(Turns) + 1
      BY <1>0, <2>1, TurnsFact DEF Shape
    <3> QED
      BY <2>1, <3>1
  <2>2. CASE pc \notin {"form", "formed"}
    BY <1>0, <2>2, CasesFact DEF Shape, InForm
  <2> QED
    BY <2>1, <2>2
<1>3. \A j \in DOMAIN jobs : jobs[j].eps # {} /\ jobs[j].state \in {"collecting", "committed"}
  <2>1. \A j \in DOMAIN jobs : jobs[j] \in JobRecords
    BY <1>0, LenProperties, ElementOfSeq DEF JobsOK
  <2> QED
    BY <1>0, <2>1 DEF JobsOK, JobRecords
<1>4. Cardinality(Collecting) <= 1
  <2>1. CASE Collecting = {}
    BY <2>1, FS_EmptySet
  <2>2. CASE Collecting # {}
    <3>1. PICK j : Collecting = {j}
      BY <1>0, <2>2 DEF JobsOK
    <3> QED
      BY <3>1, FS_Singleton
  <2> QED
    BY <2>1, <2>2
<1> QED
  BY <1>0, <1>1, <1>2, <1>3, <1>4 DEF TypeOK, Shape, SeedOK

\* Whatever Core makes of its Episodes, and wherever the Harness is killed: a wait of the
\* probe ends only when no Job and no index operation is left, although it reads them one
\* by one, and the memory state it then reads stays the state of Core until the Harness
\* reports something new (settle_memory_state of anchor_cli.py, as seed_lifecycle.py uses it).
THEOREM SettledIsSettled == Spec => []SettledInv
<1>1. IInv => SettledInv
  BY InvImpliesType DEF SettledInv, SettledIsFinal, IInv, SettledOK
<1> QED
  BY <1>1, LifecycleInvariant, PTL

\* Whatever the model says and Core makes of it: a gate that passed without having been
\* killed has seen the Seed change by deliveries and Outcomes only, and by both
\* (summarize_lifecycle of seed_lifecycle.py).
THEOREM BoundaryIsProved == Spec => []PassedMeansBoundary
<1>1. IInv => PassedMeansBoundary
  BY DEF IInv, CausalInv, PassedMeansBoundary
<1> QED
  BY <1>1, LifecycleInvariant, PTL

-----------------------------------------------------------------------------
(***************************************************************************)
(* SemanticReplay.                                                         *)
(***************************************************************************)
(* The inductive invariant *)

Pending == {d \in Callers : calls[d] # Nothing}

Answers(output) == \A n \in DOMAIN output : output[n][1] # "marker"

Agrees(input, output) ==
    Canonical(input) \in DOMAIN semantic /\ semantic[Canonical(input)] = CanonicalOutput(input, output)

WasReturned(input, output) == \E r \in returned : r.input = input /\ r.output = output

CallsOK ==
    /\ calls \in [Callers -> Inputs \cup {Nothing}]
    /\ \A c \in Callers : calls[c] # Nothing => ~Ambiguous(calls[c])
    /\ starts \in 1 .. MaxStarts
    /\ Len(log) + Cardinality(Pending) <= MaxCalls

\* A record that would be loaded was returned, or makes the log be refused.
LoadedOK(n) ==
    /\ Answers(log[n].output)
    /\ \/ WasReturned(log[n].input, log[n].output)
       \/ Unknown(log[n].input, log[n].output)
       \/ \E k \in Loaded : /\ Canonical(log[n].input) = Canonical(log[k].input)
                            /\ CanonicalOutput(log[n].input, log[n].output)
                                  # CanonicalOutput(log[k].input, log[k].output)

LogOK ==
    /\ log \in Seq(ToSet(log))
    /\ \A n \in DOMAIN log : log[n].input \in Inputs
    /\ \A n \in Loaded : LoadedOK(n)

\* The answer to a memory state is that of a record.
SemanticOK ==
    \A s \in DOMAIN semantic :
        \E n \in Loaded : /\ Canonical(log[n].input) = s
                          /\ ~Unknown(log[n].input, log[n].output)
                          /\ semantic[s] = CanonicalOutput(log[n].input, log[n].output)

\* What is replayed, and what this process has returned, is what it answers to the memory state.
ReplayOK ==
    \A i \in DOMAIN replay :
        Answers(replay[i]) /\ Agrees(i, replay[i]) /\ WasReturned(i, replay[i])

ReturnedOK ==
    \A r \in returned :
        /\ r.match \in {"none", "exact", "semantic"} /\ r.start \in 1 .. starts
        /\ r.start = starts => Agrees(r.input, r.output)

ReplayIInv == CallsOK /\ LogOK /\ SemanticOK /\ ReplayOK /\ ReturnedOK /\ OneAnswerPerState

-----------------------------------------------------------------------------
(* Canonical inputs and outputs *)

LEMMA BagDomain == \A s : DOMAIN BagOf(s) = {s[n] : n \in DOMAIN s}
  BY DEF BagOf, ToSet

\* A source, a block and a line with the markers of an input.
SourceMarked(i, s) == <<s.kind, ActorMarkers(i)[ActorOf(s)], SourceMarkers(i)[s.ref]>>

BlockMarked(i, b) ==
    <<Markers(i)[b.ref], SessionMarkers(i)[b.session], b.body,
      [k \in DOMAIN b.sources |-> SourceMarked(i, b.sources[k])]>>

LineMarked(i, l) == <<l.tag, MarkerOr(Markers(i), l.of), MarkerOr(Markers(i), l.ref)>>

\* What a canonical input shows of the markers: its bags,
LEMMA CanonicalBags ==
    ASSUME NEW i
    PROVE  /\ Canonical(i).lines = BagOf([n \in DOMAIN i.lines |-> LineMarked(i, i.lines[n])])
           /\ Canonical(i).mems = BagOf([n \in DOMAIN i.mems |-> <<Markers(i)[i.mems[n].ref], i.mems[n].text>>])
           /\ Canonical(i).related = BagOf([n \in DOMAIN i.related |-> BlockMarked(i, i.related[n])])
  BY DEF Canonical, LineMarked, BlockMarked, SourceMarked

\* the elements of its sequences,
LEMMA CanonicalElements ==
    ASSUME NEW i
    PROVE  /\ DOMAIN Canonical(i).eps = DOMAIN i.eps
           /\ \A n \in DOMAIN i.eps : Canonical(i).eps[n] = BlockMarked(i, i.eps[n])
           /\ DOMAIN Canonical(i).outs = DOMAIN i.outs
           /\ \A n \in DOMAIN i.outs :
                 /\ Canonical(i).outs[n][1] = Markers(i)[i.outs[n].ref]
                 /\ Canonical(i).outs[n][2] = MarkerOr(Markers(i), i.outs[n].episode)
                 /\ Canonical(i).outs[n][3] = MarkerOr(ActorMarkers(i), ActorOf(i.outs[n]))
                 /\ Canonical(i).outs[n][4] = i.outs[n].text
<1>1. /\ DOMAIN Canonical(i).eps = DOMAIN i.eps
      /\ \A n \in DOMAIN i.eps : Canonical(i).eps[n] = BlockMarked(i, i.eps[n])
  BY DEF Canonical, BlockMarked, SourceMarked
<1>2. /\ DOMAIN Canonical(i).outs = DOMAIN i.outs
      /\ \A n \in DOMAIN i.outs :
            Canonical(i).outs[n] = <<Markers(i)[i.outs[n].ref], MarkerOr(Markers(i), i.outs[n].episode),
                                     MarkerOr(ActorMarkers(i), ActorOf(i.outs[n])), i.outs[n].text>>
  BY DEF Canonical
<1> QED
  BY <1>1, <1>2

\* and the elements of its bags.
LEMMA CanonicalParts ==
    ASSUME NEW i
    PROVE  /\ DOMAIN Canonical(i).lines = {LineMarked(i, i.lines[n]) : n \in DOMAIN i.lines}
           /\ DOMAIN Canonical(i).mems = {<<Markers(i)[i.mems[n].ref], i.mems[n].text>> : n \in DOMAIN i.mems}
           /\ DOMAIN Canonical(i).related = {BlockMarked(i, i.related[n]) : n \in DOMAIN i.related}
<1> DEFINE m == [n \in DOMAIN i.mems |-> <<Markers(i)[i.mems[n].ref], i.mems[n].text>>]
           r == [n \in DOMAIN i.related |-> BlockMarked(i, i.related[n])]
           l == [n \in DOMAIN i.lines |-> LineMarked(i, i.lines[n])]
<1>1. Canonical(i).mems = BagOf(m) /\ Canonical(i).related = BagOf(r) /\ Canonical(i).lines = BagOf(l)
  BY CanonicalBags
<1>2. /\ {m[n] : n \in DOMAIN m} = {<<Markers(i)[i.mems[n].ref], i.mems[n].text>> : n \in DOMAIN i.mems}
      /\ {r[n] : n \in DOMAIN r} = {BlockMarked(i, i.related[n]) : n \in DOMAIN i.related}
      /\ {l[n] : n \in DOMAIN l} = {LineMarked(i, i.lines[n]) : n \in DOMAIN i.lines}
  OBVIOUS
<1> HIDE DEF m, r, l
<1>3. /\ DOMAIN Canonical(i).mems = {m[n] : n \in DOMAIN m}
      /\ DOMAIN Canonical(i).related = {r[n] : n \in DOMAIN r}
      /\ DOMAIN Canonical(i).lines = {l[n] : n \in DOMAIN l}
  BY <1>1, BagDomain
<1> QED
  BY <1>2, <1>3

\* u has the elements of s and of t.
Joins(u, s, t) ==
    /\ \A n \in DOMAIN u : (\E k \in DOMAIN s : u[n] = s[k]) \/ (\E k \in DOMAIN t : u[n] = t[k])
    /\ \A k \in DOMAIN s : \E n \in DOMAIN u : u[n] = s[k]
    /\ \A k \in DOMAIN t : \E n \in DOMAIN u : u[n] = t[k]

LEMMA ConcatElements ==
    ASSUME NEW S, NEW s \in Seq(S), NEW t \in Seq(S)
    PROVE  Joins(s \o t, s, t)
<1> DEFINE u == s \o t
<1>1. /\ Len(s) \in Nat /\ DOMAIN s = 1 .. Len(s)
      /\ Len(t) \in Nat /\ DOMAIN t = 1 .. Len(t)
  BY LenProperties
<1>2. u \in Seq(S) /\ Len(u) = Len(s) + Len(t)
  BY ConcatProperties
<1>3. DOMAIN u = 1 .. Len(s) + Len(t)
  BY <1>2, LenProperties
<1>4. \A n \in 1 .. Len(s) + Len(t) : u[n] = IF n <= Len(s) THEN s[n] ELSE t[n - Len(s)]
  BY ConcatProperties
<1> HIDE DEF u
<1>5. ASSUME NEW n \in DOMAIN u
      PROVE  (\E k \in DOMAIN s : u[n] = s[k]) \/ (\E k \in DOMAIN t : u[n] = t[k])
  <2>1. CASE n <= Len(s)
    BY <1>1, <1>3, <1>4, <2>1
  <2>2. CASE ~(n <= Len(s))
    <3>1. n - Len(s) \in DOMAIN t
      BY <1>1, <1>3, <2>2
    <3> QED
      BY <1>3, <1>4, <2>2, <3>1
  <2> QED
    BY <2>1, <2>2
<1>6. ASSUME NEW k \in DOMAIN s PROVE k \in DOMAIN u /\ u[k] = s[k]
  BY <1>1, <1>3, <1>4
<1>7. ASSUME NEW k \in DOMAIN t PROVE \E n \in DOMAIN u : u[n] = t[k]
  <2>1. /\ k + Len(s) \in DOMAIN u /\ ~(k + Len(s) <= Len(s))
        /\ (k + Len(s)) - Len(s) = k
    BY <1>1, <1>3
  <2> QED
    BY <1>3, <1>4, <2>1
<1> QED
  <2>1. Joins(u, s, t)
    BY <1>5, <1>6, <1>7 DEF Joins
  <2> QED
    BY <2>1 DEF u

\* A block of an input, of the window or related.
IsBlock(i, b) == (\E n \in DOMAIN i.eps : b = i.eps[n]) \/ (\E n \in DOMAIN i.related : b = i.related[n])

LEMMA BlocksOfInput ==
    ASSUME NEW i \in Inputs
    PROVE  /\ \A n \in DOMAIN Blocks(i) : IsBlock(i, Blocks(i)[n][2])
           /\ \A b : IsBlock(i, b) => \E n \in DOMAIN Blocks(i) : Blocks(i)[n][2] = b
<1> DEFINE S == {"EPISODE", "RELATED_EPISODE"} \X (ToSet(i.eps) \cup ToSet(i.related))
<1> DEFINE a == [n \in DOMAIN i.eps |-> <<"EPISODE", i.eps[n]>>]
<1> DEFINE r == [n \in DOMAIN i.related |-> <<"RELATED_EPISODE", i.related[n]>>]
<1>1. /\ Len(i.eps) \in Nat /\ DOMAIN i.eps = 1 .. Len(i.eps)
      /\ Len(i.related) \in Nat /\ DOMAIN i.related = 1 .. Len(i.related)
  BY InputsWellFormed, LenProperties
<1>2. a \in Seq(S) /\ r \in Seq(S)
  <2>1. a \in [1 .. Len(i.eps) -> S] /\ r \in [1 .. Len(i.related) -> S]
    BY <1>1 DEF ToSet
  <2> HIDE DEF a, r, S
  <2> QED
    BY <1>1, <2>1, SeqDef
<1>3. DOMAIN a = 1 .. Len(i.eps) /\ DOMAIN r = 1 .. Len(i.related)
  BY <1>1
<1>4. /\ \A n \in DOMAIN i.eps : a[n][2] = i.eps[n]
      /\ \A n \in DOMAIN i.related : r[n][2] = i.related[n]
  OBVIOUS
<1>5. Blocks(i) = a \o r
  BY DEF Blocks
<1> HIDE DEF a, r, S
<1>6. Joins(Blocks(i), a, r)
  BY <1>2, <1>5, ConcatElements
<1>7. DOMAIN a = DOMAIN i.eps /\ DOMAIN r = DOMAIN i.related
  BY <1>1, <1>3
<1>8. /\ \A n \in DOMAIN Blocks(i) : \/ \E k \in DOMAIN i.eps : Blocks(i)[n][2] = i.eps[k]
                                    \/ \E k \in DOMAIN i.related : Blocks(i)[n][2] = i.related[k]
      /\ \A k \in DOMAIN i.eps : \E n \in DOMAIN Blocks(i) : Blocks(i)[n][2] = i.eps[k]
      /\ \A k \in DOMAIN i.related : \E n \in DOMAIN Blocks(i) : Blocks(i)[n][2] = i.related[k]
  BY <1>4, <1>6, <1>7 DEF Joins
<1> QED
  BY <1>8 DEF IsBlock

\* The identities of an input, by their sort: every one is that of a block, an Outcome, a
\* memory or a line,
LEMMA SortsOfInput ==
    ASSUME NEW i \in Inputs
    PROVE  /\ \A a : a \in DOMAIN EpisodeMarkers(i) <=> \E b : IsBlock(i, b) /\ a = b.ref
           /\ \A a : a \in DOMAIN SessionMarkers(i) <=> \E b : IsBlock(i, b) /\ a = b.session
           /\ DOMAIN OutcomeMarkers(i) = {i.outs[n].ref : n \in DOMAIN i.outs}
           /\ DOMAIN MemoryMarkers(i) = Described(i) \cup {i.lines[n].ref : n \in Bare(i)}
<1>1. DOMAIN EpisodeMarkers(i) = {Blocks(i)[n][2].ref : n \in DOMAIN Blocks(i)}
  BY DEF EpisodeMarkers, SemanticMarkers, Groups
<1>2. DOMAIN SessionMarkers(i) = {Blocks(i)[n][2].session : n \in DOMAIN Blocks(i)}
  BY DEF SessionMarkers, SemanticMarkers, Groups
<1>3. DOMAIN OutcomeMarkers(i) = {i.outs[n].ref : n \in DOMAIN i.outs}
  BY DEF OutcomeMarkers, SemanticMarkers, Groups
<1>4. DOMAIN MemoryMarkers(i) = Described(i) \cup {i.lines[n].ref : n \in Bare(i)}
  BY DEF MemoryMarkers
<1>5. \A a : a \in DOMAIN EpisodeMarkers(i) <=> \E b : IsBlock(i, b) /\ a = b.ref
  BY <1>1, BlocksOfInput
<1>6. \A a : a \in DOMAIN SessionMarkers(i) <=> \E b : IsBlock(i, b) /\ a = b.session
  BY <1>2, BlocksOfInput
<1> QED
  BY <1>3, <1>4, <1>5, <1>6

\* or that of a source of a block.
LEMMA SourcesOfInput ==
    ASSUME NEW i \in Inputs
    PROVE  /\ \A a : a \in DOMAIN SourceMarkers(i)
                 <=> \E b : IsBlock(i, b) /\ \E k \in DOMAIN b.sources : a = b.sources[k].ref
           /\ \A a : a \in DOMAIN ActorMarkers(i)
                 <=> \E b : IsBlock(i, b) /\ \E k \in DOMAIN b.sources : a = ActorOf(b.sources[k])
<1> DEFINE b == Blocks(i)
<1>1. /\ DOMAIN SourceMarkers(i) = {SourceAt(b, p).ref : p \in Places(b)}
      /\ DOMAIN ActorMarkers(i) = {ActorOf(SourceAt(b, p)) : p \in Places(b)}
  BY DEF SourceMarkers, ActorMarkers, SemanticMarkers, Groups
<1>2. /\ \A n \in DOMAIN b : IsBlock(i, b[n][2])
      /\ \A d : IsBlock(i, d) => \E n \in DOMAIN b : b[n][2] = d
  BY BlocksOfInput
<1> HIDE DEF b
<1>3. /\ \A p \in Places(b) : \E n \in DOMAIN b : \E k \in DOMAIN b[n][2].sources : p[1] = n /\ p[2] = k
      /\ \A n \in DOMAIN b : \A k \in DOMAIN b[n][2].sources : <<n, k>> \in Places(b)
  BY DEF Places
<1>4. /\ \A p \in Places(b) : \E n \in DOMAIN b : \E k \in DOMAIN b[n][2].sources : SourceAt(b, p) = b[n][2].sources[k]
      /\ \A n \in DOMAIN b : \A k \in DOMAIN b[n][2].sources :
            \E p \in Places(b) : SourceAt(b, p) = b[n][2].sources[k]
  <2>1. \A n, k : SourceAt(b, <<n, k>>) = b[n][2].sources[k]
    BY DEF SourceAt
  <2>2. \A p \in Places(b) : SourceAt(b, p) = b[p[1]][2].sources[p[2]]
    BY DEF SourceAt
  <2>3. \A p \in Places(b) : \E n \in DOMAIN b : \E k \in DOMAIN b[n][2].sources : SourceAt(b, p) = b[n][2].sources[k]
    BY <1>3, <2>2
  <2>4. ASSUME NEW n \in DOMAIN b, NEW k \in DOMAIN b[n][2].sources
        PROVE  \E p \in Places(b) : SourceAt(b, p) = b[n][2].sources[k]
    <3>1. <<n, k>> \in Places(b)
      BY <1>3
    <3> QED
      BY <2>1, <3>1
  <2> QED
    BY <2>3, <2>4
<1>5. /\ \A p \in Places(b) : \E d : IsBlock(i, d) /\ \E k \in DOMAIN d.sources : SourceAt(b, p) = d.sources[k]
      /\ \A d : IsBlock(i, d) => \A k \in DOMAIN d.sources : \E p \in Places(b) : SourceAt(b, p) = d.sources[k]
  BY <1>2, <1>4
<1>6. \A a : a \in DOMAIN SourceMarkers(i)
         <=> \E d : IsBlock(i, d) /\ \E k \in DOMAIN d.sources : a = d.sources[k].ref
  BY <1>1, <1>5
<1>7. \A a : a \in DOMAIN ActorMarkers(i)
         <=> \E d : IsBlock(i, d) /\ \E k \in DOMAIN d.sources : a = ActorOf(d.sources[k])
  BY <1>1, <1>5
<1> QED
  BY <1>6, <1>7

\* The refs of an input are those of its Episodes, Outcomes and memories.
LEMMA RefsOfInput ==
    ASSUME NEW i \in Inputs
    PROVE  /\ Refs(i) = DOMAIN EpisodeMarkers(i) \cup DOMAIN OutcomeMarkers(i) \cup DOMAIN MemoryMarkers(i)
           /\ \A ref : ref \in Refs(i) <=>
                 \/ \E b : IsBlock(i, b) /\ ref = b.ref
                 \/ \E n \in DOMAIN i.outs : ref = i.outs[n].ref
                 \/ \E n \in DOMAIN i.mems : ref = i.mems[n].ref
                 \/ \E n \in Bare(i) : ref = i.lines[n].ref
<1>1. Refs(i) = DOMAIN EpisodeMarkers(i) \cup DOMAIN OutcomeMarkers(i) \cup DOMAIN MemoryMarkers(i)
  BY DEF Refs, Markers, Extended
<1>2. DOMAIN OutcomeMarkers(i) = {i.outs[n].ref : n \in DOMAIN i.outs}
  BY SortsOfInput
<1>3. DOMAIN MemoryMarkers(i) = {i.mems[n].ref : n \in DOMAIN i.mems} \cup {i.lines[n].ref : n \in Bare(i)}
  BY SortsOfInput DEF Described
<1>4. \A a : a \in DOMAIN EpisodeMarkers(i) <=> \E b : IsBlock(i, b) /\ a = b.ref
  BY SortsOfInput
<1> QED
  BY <1>1, <1>2, <1>3, <1>4

\* Every block of an input is, with its markers, one of any input that is the same memory state.
LEMMA SameBlocks ==
    ASSUME NEW i \in Inputs, NEW j \in Inputs, Canonical(i) = Canonical(j), NEW b, IsBlock(i, b)
    PROVE  \E d : IsBlock(j, d) /\ BlockMarked(j, d) = BlockMarked(i, b)
<1>1. CASE \E n \in DOMAIN i.eps : b = i.eps[n]
  <2>1. PICK n \in DOMAIN i.eps : b = i.eps[n]
    BY <1>1
  <2>2. n \in DOMAIN j.eps /\ BlockMarked(j, j.eps[n]) = BlockMarked(i, b)
    BY <2>1, CanonicalElements
  <2> QED
    BY <2>2 DEF IsBlock
<1>2. CASE \E n \in DOMAIN i.related : b = i.related[n]
  <2>1. BlockMarked(i, b) \in DOMAIN Canonical(j).related
    BY <1>2, CanonicalParts
  <2>2. \E n \in DOMAIN j.related : BlockMarked(j, j.related[n]) = BlockMarked(i, b)
    BY <2>1, CanonicalParts
  <2> QED
    BY <2>2 DEF IsBlock
<1> QED
  BY <1>1, <1>2 DEF IsBlock

\* What blocks that are equal with their markers have in common.
LEMMA PartsOfBlock ==
    ASSUME NEW i, NEW j, NEW b, NEW d, BlockMarked(i, b) = BlockMarked(j, d)
    PROVE  /\ Markers(i)[b.ref] = Markers(j)[d.ref]
           /\ SessionMarkers(i)[b.session] = SessionMarkers(j)[d.session]
           /\ b.body = d.body /\ DOMAIN b.sources = DOMAIN d.sources
           /\ \A k \in DOMAIN b.sources :
                 /\ b.sources[k].kind = d.sources[k].kind
                 /\ ActorMarkers(i)[ActorOf(b.sources[k])] = ActorMarkers(j)[ActorOf(d.sources[k])]
                 /\ SourceMarkers(i)[b.sources[k].ref] = SourceMarkers(j)[d.sources[k].ref]
<1> DEFINE s == [k \in DOMAIN b.sources |-> SourceMarked(i, b.sources[k])]
           t == [k \in DOMAIN d.sources |-> SourceMarked(j, d.sources[k])]
<1>1. /\ Markers(i)[b.ref] = Markers(j)[d.ref] /\ SessionMarkers(i)[b.session] = SessionMarkers(j)[d.session]
      /\ b.body = d.body /\ s = t
  BY DEF BlockMarked
<1>2. DOMAIN s = DOMAIN b.sources /\ DOMAIN t = DOMAIN d.sources
  OBVIOUS
<1>3. /\ \A k \in DOMAIN b.sources : s[k] = SourceMarked(i, b.sources[k])
      /\ \A k \in DOMAIN d.sources : t[k] = SourceMarked(j, d.sources[k])
  OBVIOUS
<1> HIDE DEF s, t
<1>4. \A k \in DOMAIN b.sources : SourceMarked(i, b.sources[k]) = SourceMarked(j, d.sources[k])
  BY <1>1, <1>2, <1>3
<1> QED
  BY <1>1, <1>2, <1>4 DEF SourceMarked

\* And the other way round.
LEMMA BlockOfParts ==
    ASSUME NEW i, NEW j, NEW b, NEW d,
           Markers(i)[b.ref] = Markers(j)[d.ref], SessionMarkers(i)[b.session] = SessionMarkers(j)[d.session],
           b.body = d.body, DOMAIN b.sources = DOMAIN d.sources,
           \A k \in DOMAIN b.sources :
              /\ b.sources[k].kind = d.sources[k].kind
              /\ ActorMarkers(i)[ActorOf(b.sources[k])] = ActorMarkers(j)[ActorOf(d.sources[k])]
              /\ SourceMarkers(i)[b.sources[k].ref] = SourceMarkers(j)[d.sources[k].ref]
    PROVE  BlockMarked(i, b) = BlockMarked(j, d)
<1>1. \A k \in DOMAIN b.sources : SourceMarked(i, b.sources[k]) = SourceMarked(j, d.sources[k])
  BY DEF SourceMarked
<1>2. [k \in DOMAIN b.sources |-> SourceMarked(i, b.sources[k])]
         = [k \in DOMAIN d.sources |-> SourceMarked(j, d.sources[k])]
  BY <1>1
<1> QED
  BY <1>2 DEF BlockMarked

\* No marker of an input is the name of an identity that has none.
LEMMA NoMarkerIsName ==
    ASSUME NEW i
    PROVE  /\ \A a \in DOMAIN Markers(i) : Markers(i)[a][1] # "name"
           /\ \A a \in DOMAIN ActorMarkers(i) : ActorMarkers(i)[a][1] # "name"
<1>1. \A groups, kind : \A a \in DOMAIN SemanticMarkers(groups, kind) : SemanticMarkers(groups, kind)[a][1] = kind
  BY DEF SemanticMarkers
<1>2. /\ \A a \in DOMAIN EpisodeMarkers(i) : EpisodeMarkers(i)[a][1] = "episode"
      /\ \A a \in DOMAIN OutcomeMarkers(i) : OutcomeMarkers(i)[a][1] = "outcome"
      /\ \A a \in DOMAIN ActorMarkers(i) : ActorMarkers(i)[a][1] = "actor"
  BY <1>1 DEF EpisodeMarkers, OutcomeMarkers, ActorMarkers
<1>3. \A a \in DOMAIN MemoryMarkers(i) : MemoryMarkers(i)[a][1] = "memory"
  BY DEF MemoryMarkers
<1> QED
  BY <1>2, <1>3 DEF Markers, Extended

\* Inputs that are the same memory state have the same markers.
LEMMA SameStateSameMarkers ==
    ASSUME NEW i \in Inputs, NEW j \in Inputs, Canonical(i) = Canonical(j), NEW ref \in Refs(i)
    PROVE  \E q \in Refs(j) : Markers(j)[q] = Markers(i)[ref]
<1>1. CASE \E b : IsBlock(i, b) /\ ref = b.ref
  <2>1. PICK b : IsBlock(i, b) /\ ref = b.ref
    BY <1>1
  <2>2. PICK d : IsBlock(j, d) /\ BlockMarked(j, d) = BlockMarked(i, b)
    BY <2>1, SameBlocks
  <2>3. Markers(j)[d.ref] = Markers(i)[ref]
    BY <2>1, <2>2, PartsOfBlock
  <2> QED
    BY <2>2, <2>3, RefsOfInput
<1>2. CASE \E n \in DOMAIN i.outs : ref = i.outs[n].ref
  <2>1. PICK n \in DOMAIN i.outs : ref = i.outs[n].ref
    BY <1>2
  <2>2. n \in DOMAIN j.outs /\ Markers(j)[j.outs[n].ref] = Markers(i)[ref]
    BY <2>1, CanonicalElements
  <2> QED
    BY <2>2, RefsOfInput
<1>3. CASE \E n \in DOMAIN i.mems : ref = i.mems[n].ref
  <2>1. PICK n \in DOMAIN i.mems : ref = i.mems[n].ref
    BY <1>3
  <2> DEFINE x == <<Markers(i)[ref], i.mems[n].text>>
  <2>2. x \in DOMAIN Canonical(j).mems
    BY <2>1, CanonicalParts
  <2>3. \E k \in DOMAIN j.mems : x[1] = Markers(j)[j.mems[k].ref]
    <3>1. PICK k \in DOMAIN j.mems : x = <<Markers(j)[j.mems[k].ref], j.mems[k].text>>
      BY <2>2, CanonicalParts
    <3> QED
      BY <3>1
  <2> QED
    BY <2>3, RefsOfInput
<1>4. CASE \E n \in Bare(i) : ref = i.lines[n].ref
  <2>1. PICK n \in Bare(i) : ref = i.lines[n].ref
    BY <1>4
  <2>2. LineMarked(i, i.lines[n]) \in DOMAIN Canonical(j).lines
    BY <2>1, CanonicalParts DEF Bare
  <2>3. PICK k \in DOMAIN j.lines : LineMarked(j, j.lines[k]) = LineMarked(i, i.lines[n])
    BY <2>2, CanonicalParts
  <2>4. MarkerOr(Markers(j), j.lines[k].ref) = MarkerOr(Markers(i), ref)
    BY <2>1, <2>3 DEF LineMarked
  <2>5. MarkerOr(Markers(i), ref) = Markers(i)[ref] /\ Markers(i)[ref][1] # "name"
    BY NoMarkerIsName DEF MarkerOr, Refs
  <2>6. j.lines[k].ref \in Refs(j)
    BY <2>4, <2>5 DEF MarkerOr, Refs
  <2> QED
    BY <2>4, <2>5, <2>6 DEF MarkerOr, Refs
<1> QED
  BY <1>1, <1>2, <1>3, <1>4, RefsOfInput

\* An answer to a memory state, restored for an input of it, is this answer.
LEMMA RestoredAgrees ==
    ASSUME NEW i \in Inputs, NEW j \in Inputs, Canonical(i) = Canonical(j),
           NEW output, Answers(output), ~Unknown(i, output)
    PROVE  /\ CanonicalOutput(j, Restored(j, CanonicalOutput(i, output))) = CanonicalOutput(i, output)
           /\ Answers(Restored(j, CanonicalOutput(i, output)))
<1> DEFINE c == CanonicalOutput(i, output)
<1> DEFINE o == Restored(j, c)
<1>1. DOMAIN c = DOMAIN output /\ c = [n \in DOMAIN output |-> c[n]]
  BY DEF CanonicalOutput
<1>2. \A n \in DOMAIN output :
         c[n] = IF output[n][1] = "ref" THEN <<"marker", Markers(i)[output[n][2]]>> ELSE output[n]
  BY DEF CanonicalOutput
<1>3. DOMAIN o = DOMAIN c
  BY DEF Restored
<1>4. \A n \in DOMAIN c :
         o[n] = IF c[n][1] = "marker" THEN <<"ref", CHOOSE r \in Refs(j) : Markers(j)[r] = c[n][2]>> ELSE c[n]
  BY DEF Restored, Refs
<1>5. CanonicalOutput(j, o) =
         [n \in DOMAIN o |-> IF o[n][1] = "ref" THEN <<"marker", Markers(j)[o[n][2]]>> ELSE o[n]]
  BY DEF CanonicalOutput
<1> HIDE DEF c, o
<1>6. ASSUME NEW n \in DOMAIN output
      PROVE  /\ o[n][1] # "marker"
             /\ (IF o[n][1] = "ref" THEN <<"marker", Markers(j)[o[n][2]]>> ELSE o[n]) = c[n]
  <2>1. CASE output[n][1] = "ref"
    <3>1. output[n][2] \in Refs(i)
      BY <2>1 DEF Unknown
    <3>2. c[n] = <<"marker", Markers(i)[output[n][2]]>>
      BY <1>2, <2>1
    <3>3. \E q \in Refs(j) : Markers(j)[q] = c[n][2]
      BY <3>1, <3>2, SameStateSameMarkers
    <3> DEFINE q == CHOOSE r \in Refs(j) : Markers(j)[r] = c[n][2]
    <3>4. Markers(j)[q] = c[n][2]
      BY <3>3
    <3>5. o[n] = <<"ref", q>>
      <4>1. n \in DOMAIN c /\ c[n][1] = "marker"
        BY <1>1, <3>2
      <4>2. o[n] = <<"ref", CHOOSE r \in Refs(j) : Markers(j)[r] = c[n][2]>>
        BY <1>4, <4>1
      <4> QED
        BY <4>2
    <3> HIDE DEF q
    <3> QED
      BY <3>2, <3>4, <3>5
  <2>2. CASE output[n][1] # "ref"
    <3>1. c[n] = output[n] /\ c[n][1] # "marker"
      BY <1>2, <2>2 DEF Answers
    <3>2. o[n] = c[n]
      BY <1>1, <1>4, <3>1
    <3> QED
      BY <2>2, <3>1, <3>2
  <2> QED
    BY <2>1, <2>2
<1>7. CanonicalOutput(j, o) = [n \in DOMAIN output |-> c[n]]
  BY <1>1, <1>3, <1>5, <1>6
<1>8. Answers(o)
  BY <1>1, <1>3, <1>6 DEF Answers
<1> QED
  BY <1>1, <1>7, <1>8 DEF c, o

-----------------------------------------------------------------------------
(* The log *)

LEMMA RecordFacts ==
    ASSUME log \in Seq(ToSet(log)), NEW input, NEW output, NEW error, Record(input, output, error)
    PROVE  /\ log' \in Seq(ToSet(log')) /\ Len(log') = Len(log) + 1 /\ Len(log) \in Nat
           /\ DOMAIN log' = DOMAIN log \cup {Len(log) + 1} /\ Len(log) + 1 \notin DOMAIN log
           /\ \A n \in DOMAIN log : log'[n] = log[n]
           /\ log'[Len(log) + 1] = [input |-> input, output |-> output, error |-> error]
<1> DEFINE x == [input |-> input, output |-> output, error |-> error]
<1> DEFINE S == ToSet(log) \cup {x}
<1>1. log' = Append(log, x)
  BY DEF Record
<1> HIDE DEF x
<1>2. log \in Seq(S) /\ x \in S
  BY SeqMonotonic
<1>3. Len(log) \in Nat /\ DOMAIN log = 1 .. Len(log)
  BY LenProperties
<1>4. /\ log' \in Seq(S) /\ Len(log') = Len(log) + 1
      /\ \A n \in 1 .. Len(log) : log'[n] = log[n]
      /\ log'[Len(log) + 1] = x
  BY <1>1, <1>2, AppendProperties
<1>5. DOMAIN log' = 1 .. Len(log) + 1
  BY <1>4, LenProperties
<1>6. DOMAIN log' = DOMAIN log \cup {Len(log) + 1} /\ Len(log) + 1 \notin DOMAIN log
  BY <1>3, <1>5
<1>7. log' \in Seq(ToSet(log'))
  <2>1. \A n \in 1 .. Len(log') : log'[n] \in ToSet(log')
    BY <1>4, <1>5 DEF ToSet
  <2>2. log' \in [1 .. Len(log') -> ToSet(log')]
    BY <1>4, <2>1, LenProperties
  <2> QED
    BY <1>3, <1>4, <2>2, SeqDef
<1> QED
  BY <1>3, <1>4, <1>6, <1>7 DEF x

\* What the log says stays, when a record is added and answers are returned.
LEMMA LogStep ==
    ASSUME LogOK, NEW input \in Inputs, NEW output, NEW error, Record(input, output, error),
           returned \subseteq returned',
           output # Nothing => Answers(output),
           \/ output = Nothing
           \/ WasReturned(input, output)'
           \/ Unknown(input, output)
           \/ \E k \in Loaded : /\ Canonical(input) = Canonical(log[k].input)
                                /\ CanonicalOutput(input, output)
                                      # CanonicalOutput(log[k].input, log[k].output)
    PROVE  /\ LogOK' /\ Loaded \subseteq Loaded' /\ (output # Nothing => Len(log) + 1 \in Loaded')
           /\ \A n \in Loaded : log'[n] = log[n]
           /\ log'[Len(log) + 1].input = input /\ log'[Len(log) + 1].output = output
<1>1. /\ log' \in Seq(ToSet(log')) /\ DOMAIN log' = DOMAIN log \cup {Len(log) + 1}
      /\ Len(log) + 1 \notin DOMAIN log
      /\ \A n \in DOMAIN log : log'[n] = log[n]
      /\ log'[Len(log) + 1] = [input |-> input, output |-> output, error |-> error]
  BY RecordFacts DEF LogOK
<1>2. /\ Loaded \subseteq Loaded' /\ (output # Nothing => Len(log) + 1 \in Loaded')
      /\ \A n \in Loaded' : n \in Loaded \/ (n = Len(log) + 1 /\ output # Nothing)
      /\ \A n \in Loaded : n \in DOMAIN log /\ log'[n] = log[n]
  BY <1>1 DEF Loaded
<1>3. \A n \in DOMAIN log' : log'[n].input \in Inputs
  BY <1>1 DEF LogOK
<1>4. ASSUME NEW n \in Loaded PROVE LoadedOK(n)'
  BY <1>2, <1>4 DEF LogOK, LoadedOK, WasReturned
<1>5. ASSUME NEW n, n = Len(log) + 1, output # Nothing PROVE LoadedOK(n)'
  <2>1. log'[n].input = input /\ log'[n].output = output
    BY <1>1, <1>5
  <2>2. CASE WasReturned(input, output)'
    BY <1>5, <2>1, <2>2 DEF LoadedOK, WasReturned
  <2>3. CASE Unknown(input, output)
    BY <1>5, <2>1, <2>3 DEF LoadedOK
  <2>4. CASE \E k \in Loaded : /\ Canonical(input) = Canonical(log[k].input)
                               /\ CanonicalOutput(input, output)
                                     # CanonicalOutput(log[k].input, log[k].output)
    BY <1>2, <1>5, <2>1, <2>4 DEF LoadedOK
  <2> QED
    BY <1>5, <2>2, <2>3, <2>4
<1>6. \A n \in Loaded' : LoadedOK(n)'
  BY <1>2, <1>4, <1>5
<1> QED
  BY <1>1, <1>2, <1>3, <1>6 DEF LogOK

\* Another answer of the process, to a memory state it gives this answer to.
LEMMA ReturnStep ==
    ASSUME ReplayIInv, NEW input \in Inputs, NEW output, NEW match \in {"none", "exact", "semantic"},
           Return(input, output, match), starts' = starts,
           \A s \in DOMAIN semantic : s \in DOMAIN semantic' /\ semantic'[s] = semantic[s],
           Agrees(input, output)'
    PROVE  /\ ReturnedOK' /\ OneAnswerPerState' /\ WasReturned(input, output)'
           /\ returned \subseteq returned' /\ Record(input, output, FALSE)
<1> DEFINE new == [input |-> input, output |-> output, match |-> match, start |-> starts]
<1>1. returned' = returned \cup {new} /\ Record(input, output, FALSE)
  BY DEF Return
<1>2. new.input = input /\ new.output = output /\ new.match = match /\ new.start = starts
  OBVIOUS
<1> HIDE DEF new
<1>3. starts \in Nat /\ starts >= 1
  BY ReplayBounds DEF ReplayIInv, CallsOK
<1>4. \A i, o : Agrees(i, o) => Agrees(i, o)'
  BY DEF Agrees
<1>5. ReturnedOK'
  BY <1>1, <1>2, <1>3, <1>4 DEF ReplayIInv, ReturnedOK
<1>6. \A r \in returned' : r.start = starts => Agrees(r.input, r.output)'
  BY <1>5 DEF ReturnedOK
<1>7. OneAnswerPerState'
  <2> SUFFICES ASSUME NEW r \in returned', NEW q \in returned', r.start = q.start,
                      Canonical(r.input) = Canonical(q.input)
               PROVE  CanonicalOutput(r.input, r.output) = CanonicalOutput(q.input, q.output)
    BY DEF OneAnswerPerState
  <2>1. CASE r.start = starts
    BY <1>6, <2>1 DEF Agrees
  <2>2. CASE r.start # starts
    <3>1. r \in returned /\ q \in returned
      BY <1>1, <1>2, <2>2
    <3> QED
      BY <3>1 DEF ReplayIInv, OneAnswerPerState
  <2> QED
    BY <2>1, <2>2
<1>8. WasReturned(input, output)'
  BY <1>1, <1>2 DEF WasReturned
<1> QED
  BY <1>1, <1>5, <1>7, <1>8

-----------------------------------------------------------------------------
(* The actions *)

\* The calls that wait for the provider.
LEMMA PendingFacts ==
    ASSUME CallsOK
    PROVE  IsFiniteSet(Pending) /\ Cardinality(Pending) \in Nat
<1>1. IsFiniteSet(Pending)
  BY ReplayBounds, FS_Subset DEF Pending
<1> QED
  BY <1>1, FS_CardinalityType

LEMMA CallAsked ==
    ASSUME CallsOK, NEW c \in Callers, NEW input \in Inputs, calls[c] = Nothing, ~Ambiguous(input),
           Len(log) \in Nat, Len(log) + Cardinality(Pending) < MaxCalls,
           calls' = [calls EXCEPT ![c] = input], UNCHANGED <<log, starts>>
    PROVE  CallsOK'
<1>1. calls' \in [Callers -> Inputs \cup {Nothing}]
  BY DEF CallsOK
<1>2. \A d \in Callers : calls'[d] # Nothing => ~Ambiguous(calls'[d])
  BY DEF CallsOK
<1>3. Pending' = Pending \cup {c} /\ c \notin Pending
  BY InputsWellFormed DEF CallsOK, Pending
<1>4. Cardinality(Pending') = Cardinality(Pending) + 1
  BY <1>3, PendingFacts, FS_AddElement
<1>5. Len(log') + Cardinality(Pending') <= MaxCalls
  BY <1>4, PendingFacts, ReplayBounds
<1> QED
  BY <1>1, <1>2, <1>5 DEF CallsOK

LEMMA CallAnswered ==
    ASSUME CallsOK, NEW c \in Callers, calls[c] # Nothing,
           Len(log) \in Nat, Len(log') = Len(log) + 1,
           calls' = [calls EXCEPT ![c] = Nothing], UNCHANGED starts
    PROVE  CallsOK'
<1>1. calls' \in [Callers -> Inputs \cup {Nothing}]
  BY DEF CallsOK
<1>2. \A d \in Callers : calls'[d] # Nothing => ~Ambiguous(calls'[d])
  BY DEF CallsOK
<1>3. Pending' = Pending \ {c} /\ c \in Pending
  BY DEF CallsOK, Pending
<1>4. Cardinality(Pending') = Cardinality(Pending) - 1
  BY <1>3, PendingFacts, FS_RemoveElement
<1>5. Len(log') + Cardinality(Pending') <= MaxCalls
  BY <1>4, PendingFacts, ReplayBounds DEF CallsOK
<1> QED
  BY <1>1, <1>2, <1>5 DEF CallsOK

LEMMA CallRecorded ==
    ASSUME CallsOK, Len(log) \in Nat, Len(log) + Cardinality(Pending) < MaxCalls,
           Len(log') = Len(log) + 1, UNCHANGED <<calls, starts>>
    PROVE  CallsOK'
<1>1. Pending' = Pending
  BY DEF Pending
<1>2. Len(log') + Cardinality(Pending') <= MaxCalls
  BY <1>1, PendingFacts, ReplayBounds
<1> QED
  BY <1>2 DEF CallsOK

\* What was replayed and answered stays so while the log grows.
LEMMA TablesStep ==
    ASSUME SemanticOK, ReplayOK, UNCHANGED <<replay, semantic>>, returned \subseteq returned',
           Loaded \subseteq Loaded', \A n \in Loaded : log'[n] = log[n]
    PROVE  SemanticOK' /\ ReplayOK'
<1>1. SemanticOK'
  BY DEF SemanticOK
<1>2. ReplayOK'
  BY DEF ReplayOK, Agrees, WasReturned
<1> QED
  BY <1>1, <1>2

LEMMA ReplayInvInit == ReplayInit => ReplayIInv
<1> SUFFICES ASSUME ReplayInit PROVE ReplayIInv
  OBVIOUS
<1>1. /\ DOMAIN replay = {} /\ DOMAIN semantic = {} /\ log = <<>> /\ returned = {} /\ starts = 1
      /\ calls = [c \in Callers |-> Nothing]
  BY DEF ReplayInit
<1>2. DOMAIN log = {} /\ Len(log) = 0 /\ Loaded = {} /\ log \in Seq(ToSet(log))
  BY <1>1, EmptySeq DEF Loaded
<1>3. Pending = {}
  BY <1>1 DEF Pending
<1>4. CallsOK
  BY <1>1, <1>2, <1>3, FS_EmptySet, ReplayBounds DEF CallsOK
<1>5. LogOK /\ SemanticOK /\ ReplayOK /\ ReturnedOK /\ OneAnswerPerState
  BY <1>1, <1>2 DEF LogOK, SemanticOK, ReplayOK, ReturnedOK, OneAnswerPerState
<1> QED
  BY <1>4, <1>5 DEF ReplayIInv

\* A call that is answered from the replay.
LEMMA ReplayedStep ==
    ASSUME ReplayIInv, NEW input \in Inputs, NEW output, NEW match \in {"exact", "semantic"},
           Return(input, output, match), UNCHANGED <<replay, semantic, calls, starts>>,
           Len(log) + Cardinality(Pending) < MaxCalls,
           Agrees(input, output), Answers(output)
    PROVE  ReplayIInv'
<1>0. CallsOK /\ LogOK /\ SemanticOK /\ ReplayOK
  BY DEF ReplayIInv
<1>1. Agrees(input, output)'
  BY DEF Agrees
<1>2. /\ ReturnedOK' /\ OneAnswerPerState' /\ WasReturned(input, output)'
      /\ returned \subseteq returned' /\ Record(input, output, FALSE)
  BY <1>1, ReturnStep
<1>3. LogOK' /\ Loaded \subseteq Loaded' /\ \A n \in Loaded : log'[n] = log[n]
  BY <1>0, <1>2, LogStep
<1>4. SemanticOK' /\ ReplayOK'
  BY <1>0, <1>2, <1>3, TablesStep
<1>5. Len(log) \in Nat /\ Len(log') = Len(log) + 1
  BY <1>0, <1>2, RecordFacts DEF LogOK
<1>6. CallsOK'
  BY <1>0, <1>5, CallRecorded
<1> QED
  BY <1>2, <1>3, <1>4, <1>6 DEF ReplayIInv

LEMMA ReceiveStep ==
    ASSUME ReplayIInv, NEW c \in Callers, NEW input \in Inputs, Receive(c, input)
    PROVE  ReplayIInv'
<1>0. CallsOK /\ LogOK /\ SemanticOK /\ ReplayOK /\ ReturnedOK /\ OneAnswerPerState
  BY DEF ReplayIInv
<1>1. /\ calls[c] = Nothing /\ ~Ambiguous(input)
      /\ Len(log) + Cardinality(Pending) < MaxCalls
      /\ UNCHANGED <<replay, semantic, starts>>
  BY DEF Receive, Pending
<1>2. CASE input \in DOMAIN replay
  <2>1. Return(input, replay[input], "exact") /\ UNCHANGED calls
    BY <1>2 DEF Receive
  <2>2. Agrees(input, replay[input]) /\ Answers(replay[input])
    BY <1>0, <1>2 DEF ReplayOK
  <2> QED
    BY <1>1, <2>1, <2>2, ReplayedStep
<1>3. CASE input \notin DOMAIN replay /\ Canonical(input) \in DOMAIN semantic
  <2> DEFINE o == Restored(input, semantic[Canonical(input)])
  <2>1. Return(input, o, "semantic") /\ UNCHANGED calls
    BY <1>3 DEF Receive
  <2>2. PICK n \in Loaded : /\ Canonical(log[n].input) = Canonical(input)
                            /\ ~Unknown(log[n].input, log[n].output)
                            /\ semantic[Canonical(input)] = CanonicalOutput(log[n].input, log[n].output)
    BY <1>0, <1>3 DEF SemanticOK
  <2>3. log[n].input \in Inputs /\ Answers(log[n].output)
    BY <1>0 DEF LogOK, LoadedOK, Loaded
  <2>4. CanonicalOutput(input, o) = semantic[Canonical(input)] /\ Answers(o)
    BY <2>2, <2>3, RestoredAgrees
  <2> HIDE DEF o
  <2>5. Agrees(input, o)
    BY <1>3, <2>4 DEF Agrees
  <2> QED
    BY <1>1, <2>1, <2>4, <2>5, ReplayedStep
<1>4. CASE /\ input \notin DOMAIN replay /\ Canonical(input) \notin DOMAIN semantic
           /\ StrictReplay /\ starts > 1
  <2>1. Record(input, Nothing, TRUE) /\ UNCHANGED <<calls, returned>>
    BY <1>4 DEF Receive
  <2>2. LogOK' /\ Loaded \subseteq Loaded' /\ \A n \in Loaded : log'[n] = log[n]
    BY <1>0, <2>1, LogStep
  <2>3. SemanticOK' /\ ReplayOK'
    BY <1>0, <1>1, <2>1, <2>2, TablesStep
  <2>4. Len(log) \in Nat /\ Len(log') = Len(log) + 1
    BY <1>0, <2>1, RecordFacts DEF LogOK
  <2>5. CallsOK'
    BY <1>0, <1>1, <2>1, <2>4, CallRecorded
  <2>6. ReturnedOK' /\ OneAnswerPerState'
    BY <1>0, <1>1, <2>1 DEF ReturnedOK, OneAnswerPerState, Agrees
  <2> QED
    BY <2>2, <2>3, <2>5, <2>6 DEF ReplayIInv
<1>5. CASE /\ input \notin DOMAIN replay /\ Canonical(input) \notin DOMAIN semantic
           /\ ~(StrictReplay /\ starts > 1)
  <2>1. calls' = [calls EXCEPT ![c] = input] /\ UNCHANGED <<log, returned>>
    BY <1>5 DEF Receive
  <2>2. Len(log) \in Nat
    BY <1>0, LenProperties DEF LogOK
  <2>3. CallsOK'
    BY <1>0, <1>1, <2>1, <2>2, CallAsked
  <2>4. LogOK' /\ SemanticOK' /\ ReplayOK' /\ ReturnedOK' /\ OneAnswerPerState'
    BY <1>0, <1>1, <2>1
    DEF LogOK, LoadedOK, Loaded, SemanticOK, ReplayOK, ReturnedOK, OneAnswerPerState, Agrees, WasReturned
  <2> QED
    BY <2>3, <2>4 DEF ReplayIInv
<1> QED
  BY <1>2, <1>3, <1>4, <1>5

\* The provider's answer is returned, unless it contradicts the one the state has.
LEMMA ReplyStep ==
    ASSUME ReplayIInv, NEW c \in Callers, NEW output, Reply(c, output)
    PROVE  ReplayIInv'
<1>0. CallsOK /\ LogOK /\ SemanticOK /\ ReplayOK /\ ReturnedOK /\ OneAnswerPerState
  BY DEF ReplayIInv
<1> PICK input : input = calls[c]
  OBVIOUS
<1>1. /\ calls[c] # Nothing /\ output \in Outputs(input)
      /\ calls' = [calls EXCEPT ![c] = Nothing] /\ UNCHANGED <<replay, starts>>
  BY DEF Reply
<1>2. input \in Inputs
  BY <1>0, <1>1 DEF CallsOK
<1>3. output # Nothing /\ Answers(output)
  BY <1>1, <1>2, OutputsWellFormed DEF Answers
<1>4. CASE Unknown(input, output) \/ Conflicts(input, output)
  <2>1. Record(input, output, TRUE) /\ UNCHANGED <<semantic, returned>>
    BY <1>4 DEF Reply
  <2>2. Conflicts(input, output) =>
           \E k \in Loaded : /\ Canonical(input) = Canonical(log[k].input)
                             /\ CanonicalOutput(input, output)
                                   # CanonicalOutput(log[k].input, log[k].output)
    BY <1>0 DEF Conflicts, SemanticOK
  <2>3. LogOK' /\ Loaded \subseteq Loaded' /\ \A n \in Loaded : log'[n] = log[n]
    BY <1>0, <1>2, <1>3, <1>4, <2>1, <2>2, LogStep
  <2>4. SemanticOK' /\ ReplayOK'
    BY <1>0, <1>1, <2>1, <2>3, TablesStep
  <2>5. Len(log) \in Nat /\ Len(log') = Len(log) + 1
    BY <1>0, <2>1, RecordFacts DEF LogOK
  <2>6. CallsOK'
    BY <1>0, <1>1, <2>5, CallAnswered
  <2>7. ReturnedOK' /\ OneAnswerPerState'
    BY <1>0, <1>1, <2>1 DEF ReturnedOK, OneAnswerPerState, Agrees
  <2> QED
    BY <2>3, <2>4, <2>6, <2>7 DEF ReplayIInv
<1>5. CASE ~(Unknown(input, output) \/ Conflicts(input, output))
  <2>1. /\ Return(input, output, "none")
        /\ semantic' = With(semantic, Canonical(input), CanonicalOutput(input, output))
    BY <1>5 DEF Reply
  <2>2. /\ DOMAIN semantic' = DOMAIN semantic \cup {Canonical(input)}
        /\ semantic'[Canonical(input)] = CanonicalOutput(input, output)
        /\ \A s \in DOMAIN semantic : semantic'[s] = semantic[s]
    BY <1>5, <2>1 DEF With, Conflicts
  <2>3. Agrees(input, output)'
    BY <2>2 DEF Agrees
  <2>4. /\ ReturnedOK' /\ OneAnswerPerState' /\ WasReturned(input, output)'
        /\ returned \subseteq returned' /\ Record(input, output, FALSE)
    BY <1>1, <1>2, <2>1, <2>2, <2>3, ReturnStep
  <2>5. /\ LogOK' /\ Loaded \subseteq Loaded' /\ \A n \in Loaded : log'[n] = log[n]
        /\ Len(log) + 1 \in Loaded'
        /\ log'[Len(log) + 1].input = input /\ log'[Len(log) + 1].output = output
    <3>1. Record(input, output, FALSE) /\ returned \subseteq returned' /\ WasReturned(input, output)'
      BY <2>4
    <3>2. LogOK' /\ Loaded \subseteq Loaded' /\ \A n \in Loaded : log'[n] = log[n]
      BY <1>0, <1>2, <1>3, <3>1, LogStep
    <3>3. output # Nothing => Len(log) + 1 \in Loaded'
      BY <1>0, <1>2, <1>3, <3>1, LogStep
    <3>4. log'[Len(log) + 1].input = input /\ log'[Len(log) + 1].output = output
      BY <1>0, <1>2, <1>3, <3>1, LogStep
    <3> QED
      BY <1>3, <3>2, <3>3, <3>4
  <2>6. SemanticOK'
    <3> SUFFICES ASSUME NEW s \in DOMAIN semantic'
                 PROVE  \E n \in Loaded' : /\ Canonical(log'[n].input) = s
                                           /\ ~Unknown(log'[n].input, log'[n].output)
                                           /\ semantic'[s] = CanonicalOutput(log'[n].input, log'[n].output)
      BY DEF SemanticOK
    <3>1. CASE s \in DOMAIN semantic
      BY <1>0, <2>2, <2>5, <3>1 DEF SemanticOK
    <3>2. CASE s = Canonical(input)
      BY <1>5, <2>2, <2>5, <3>2
    <3> QED
      BY <2>2, <3>1, <3>2
  <2>7. ReplayOK'
    BY <1>0, <1>1, <2>2, <2>4 DEF ReplayOK, Agrees, WasReturned
  <2>8. Len(log) \in Nat /\ Len(log') = Len(log) + 1
    BY <1>0, <2>4, RecordFacts DEF LogOK
  <2>9. CallsOK'
    BY <1>0, <1>1, <2>8, CallAnswered
  <2> QED
    BY <2>4, <2>5, <2>6, <2>7, <2>9 DEF ReplayIInv
<1> QED
  BY <1>4, <1>5

LEMMA CancelStep ==
    ASSUME ReplayIInv, NEW c \in Callers, Cancel(c)
    PROVE  ReplayIInv'
<1>0. CallsOK /\ LogOK /\ SemanticOK /\ ReplayOK /\ ReturnedOK /\ OneAnswerPerState
  BY DEF ReplayIInv
<1>1. /\ calls[c] # Nothing /\ Record(calls[c], Nothing, TRUE)
      /\ calls' = [calls EXCEPT ![c] = Nothing] /\ UNCHANGED <<replay, semantic, returned, starts>>
  BY DEF Cancel
<1>2. calls[c] \in Inputs
  BY <1>0, <1>1 DEF CallsOK
<1>3. LogOK' /\ Loaded \subseteq Loaded' /\ \A n \in Loaded : log'[n] = log[n]
  BY <1>0, <1>1, <1>2, LogStep
<1>4. SemanticOK' /\ ReplayOK'
  BY <1>0, <1>1, <1>3, TablesStep
<1>5. Len(log) \in Nat /\ Len(log') = Len(log) + 1
  BY <1>0, <1>1, RecordFacts DEF LogOK
<1>6. CallsOK'
  BY <1>0, <1>1, <1>5, CallAnswered
<1>7. ReturnedOK' /\ OneAnswerPerState'
  BY <1>0, <1>1 DEF ReturnedOK, OneAnswerPerState, Agrees
<1> QED
  BY <1>3, <1>4, <1>6, <1>7 DEF ReplayIInv

LEMMA StopStep ==
    ASSUME ReplayIInv, Stop
    PROVE  ReplayIInv'
<1>0. CallsOK /\ LogOK /\ SemanticOK /\ ReplayOK /\ ReturnedOK /\ OneAnswerPerState
  BY DEF ReplayIInv
<1>1. calls' = [c \in Callers |-> Nothing] /\ UNCHANGED <<replay, semantic, log, returned, starts>>
  BY DEF Stop
<1>2. Pending' = {} /\ Cardinality(Pending') = 0
  BY <1>1, FS_EmptySet DEF Pending
<1>3. Len(log) \in Nat
  BY <1>0, LenProperties DEF LogOK
<1>4. Len(log') + Cardinality(Pending') <= MaxCalls
  BY <1>0, <1>1, <1>2, <1>3, PendingFacts, ReplayBounds DEF CallsOK
<1>5. CallsOK'
  BY <1>0, <1>1, <1>4 DEF CallsOK
<1>6. LogOK' /\ SemanticOK' /\ ReplayOK' /\ ReturnedOK' /\ OneAnswerPerState'
  BY <1>0, <1>1
  DEF LogOK, LoadedOK, Loaded, SemanticOK, ReplayOK, ReturnedOK, OneAnswerPerState, Agrees, WasReturned
<1> QED
  BY <1>5, <1>6 DEF ReplayIInv

\* What a process makes of the log: each answer is one that was returned.
LEMMA StartLoads ==
    ASSUME LogOK, Start
    PROVE  /\ \A n \in Loaded : /\ ~Unknown(log[n].input, log[n].output)
                               /\ Answers(log[n].output)
                               /\ WasReturned(log[n].input, log[n].output)
           /\ \A s \in DOMAIN semantic' :
                 \E n \in Loaded : /\ Canonical(log[n].input) = s
                                   /\ semantic'[s] = CanonicalOutput(log[n].input, log[n].output)
                                   /\ WasReturned(log[n].input, log[n].output)
<1>1. /\ ~Refused
      /\ semantic' = [s \in {Canonical(log[n].input) : n \in Loaded} |->
                         LET n == CHOOSE k \in Loaded : Canonical(log[k].input) = s IN
                         CanonicalOutput(log[n].input, log[n].output)]
  BY DEF Start
<1>2. \A n \in Loaded : /\ ~Unknown(log[n].input, log[n].output)
                        /\ Answers(log[n].output)
                        /\ WasReturned(log[n].input, log[n].output)
  BY <1>1 DEF Refused, LogOK, LoadedOK
<1>3. ASSUME NEW s \in DOMAIN semantic'
      PROVE  \E n \in Loaded : /\ Canonical(log[n].input) = s
                               /\ semantic'[s] = CanonicalOutput(log[n].input, log[n].output)
  <2> DEFINE n == CHOOSE k \in Loaded : Canonical(log[k].input) = s
  <2>1. n \in Loaded /\ Canonical(log[n].input) = s
    <3>1. \E k \in Loaded : Canonical(log[k].input) = s
      BY <1>1
    <3> QED
      BY <3>1
  <2>2. semantic'[s] = CanonicalOutput(log[n].input, log[n].output)
    BY <1>1
  <2> HIDE DEF n
  <2> QED
    BY <2>1, <2>2
<1> QED
  BY <1>2, <1>3

\* A log that is loaded holds answers that were returned, one for each memory state.
LEMMA StartStep ==
    ASSUME ReplayIInv, Start
    PROVE  ReplayIInv'
<1>0. CallsOK /\ LogOK /\ SemanticOK /\ ReplayOK /\ ReturnedOK /\ OneAnswerPerState
  BY DEF ReplayIInv
<1>1. /\ starts < MaxStarts /\ starts' = starts + 1 /\ ~Refused
      /\ replay' = [i \in {log[n].input : n \in Loaded} |->
                       log[CHOOSE n \in Loaded : log[n].input = i].output]
      /\ semantic' = [s \in {Canonical(log[n].input) : n \in Loaded} |->
                         LET n == CHOOSE k \in Loaded : Canonical(log[k].input) = s IN
                         CanonicalOutput(log[n].input, log[n].output)]
      /\ UNCHANGED <<calls, log, returned>>
  BY DEF Start
<1>2. Loaded' = Loaded /\ Pending' = Pending
  BY <1>1 DEF Loaded, Pending
<1>3. \A n \in Loaded : /\ ~Unknown(log[n].input, log[n].output)
                        /\ Answers(log[n].output)
                        /\ WasReturned(log[n].input, log[n].output)
  BY <1>0, StartLoads
<1>4. \A s \in DOMAIN semantic' :
         \E n \in Loaded : Canonical(log[n].input) = s /\ semantic'[s] = CanonicalOutput(log[n].input, log[n].output)
  BY <1>0, StartLoads
<1>5. \A n \in Loaded : /\ Canonical(log[n].input) \in DOMAIN semantic'
                        /\ semantic'[Canonical(log[n].input)] = CanonicalOutput(log[n].input, log[n].output)
  <2> SUFFICES ASSUME NEW n \in Loaded
               PROVE  /\ Canonical(log[n].input) \in DOMAIN semantic'
                      /\ semantic'[Canonical(log[n].input)] = CanonicalOutput(log[n].input, log[n].output)
    OBVIOUS
  <2>1. Canonical(log[n].input) \in DOMAIN semantic'
    BY <1>1
  <2>2. PICK k \in Loaded : /\ Canonical(log[k].input) = Canonical(log[n].input)
                            /\ semantic'[Canonical(log[n].input)] = CanonicalOutput(log[k].input, log[k].output)
    BY <1>4, <2>1
  <2>3. CanonicalOutput(log[k].input, log[k].output) = CanonicalOutput(log[n].input, log[n].output)
    BY <1>1, <2>2 DEF Refused
  <2> QED
    BY <2>1, <2>2, <2>3
<1>6. \A i \in DOMAIN replay' : \E n \in Loaded : log[n].input = i /\ replay'[i] = log[n].output
  <2> SUFFICES ASSUME NEW i \in DOMAIN replay'
               PROVE  \E n \in Loaded : log[n].input = i /\ replay'[i] = log[n].output
    OBVIOUS
  <2> DEFINE n == CHOOSE k \in Loaded : log[k].input = i
  <2>1. n \in Loaded /\ log[n].input = i
    <3>1. \E k \in Loaded : log[k].input = i
      BY <1>1
    <3> QED
      BY <3>1
  <2>2. replay'[i] = log[n].output
    BY <1>1
  <2> HIDE DEF n
  <2> QED
    BY <2>1, <2>2
<1>7. SemanticOK'
  BY <1>1, <1>2, <1>3, <1>4 DEF SemanticOK
<1>8. ReplayOK'
  <2> SUFFICES ASSUME NEW i \in DOMAIN replay'
               PROVE  (Answers(replay[i]) /\ Agrees(i, replay[i]) /\ WasReturned(i, replay[i]))'
    BY DEF ReplayOK
  <2>1. PICK n \in Loaded : log[n].input = i /\ replay'[i] = log[n].output
    BY <1>6
  <2>2. Canonical(i) \in DOMAIN semantic' /\ semantic'[Canonical(i)] = CanonicalOutput(i, replay'[i])
    BY <1>5, <2>1
  <2>3. Answers(replay'[i]) /\ WasReturned(i, replay'[i])
    BY <1>3, <2>1
  <2> QED
    BY <1>1, <2>2, <2>3 DEF Agrees, WasReturned
<1>9. LogOK' /\ OneAnswerPerState'
  BY <1>0, <1>1, <1>2 DEF LogOK, LoadedOK, WasReturned, OneAnswerPerState
<1>10. starts \in Nat /\ starts' \in 1 .. MaxStarts
  BY <1>0, <1>1, ReplayBounds DEF CallsOK
<1>11. CallsOK'
  BY <1>0, <1>1, <1>2, <1>10 DEF CallsOK
<1>12. ReturnedOK'
  <2>1. \A x \in 1 .. starts : x \in 1 .. starts' /\ x # starts'
    BY <1>1, <1>10
  <2> QED
    BY <1>0, <1>1, <2>1 DEF ReturnedOK
<1> QED
  BY <1>7, <1>8, <1>9, <1>11, <1>12 DEF ReplayIInv

LEMMA ReplayInvNext == ReplayIInv /\ [ReplayNext]_replayVars => ReplayIInv'
<1> SUFFICES ASSUME ReplayIInv, [ReplayNext]_replayVars PROVE ReplayIInv'
  OBVIOUS
<1>1. CASE UNCHANGED replayVars
  BY <1>1
  DEF replayVars, ReplayIInv, CallsOK, Pending, LogOK, LoadedOK, Loaded, SemanticOK, ReplayOK, ReturnedOK,
      OneAnswerPerState, Agrees, WasReturned
<1> QED
  BY <1>1, ReceiveStep, ReplyStep, CancelStep, StopStep, StartStep DEF ReplayNext

LEMMA ReplayInvariant == ReplaySpec => []ReplayIInv
<1> QED
  BY ReplayInvInit, ReplayInvNext, PTL DEF ReplaySpec

-----------------------------------------------------------------------------
(* Equal canonical inputs are one input under two namings *)

\* Two identities of one sort never have the same marker.
LEMMA MarkersTell ==
    ASSUME NEW groups, NEW kind
    PROVE  LET m == SemanticMarkers(groups, kind) IN
           /\ \A a \in DOMAIN m : m[a][1] = kind
           /\ \A a, b \in DOMAIN m : m[a] = m[b] => a = b
<1> DEFINE m == SemanticMarkers(groups, kind)
<1> DEFINE Shared(a) == \E other \in DOMAIN groups \ {a} : groups[other] = groups[a]
<1>1. /\ DOMAIN m = DOMAIN groups
      /\ \A a \in DOMAIN m : m[a] = IF Shared(a) THEN <<kind, "opaque", a>> ELSE <<kind, "semantic", groups[a]>>
  BY DEF SemanticMarkers
<1> HIDE DEF m
<1>2. \A a \in DOMAIN m : m[a][1] = kind
  BY <1>1
<1>3. ASSUME NEW a \in DOMAIN m, NEW b \in DOMAIN m, m[a] = m[b], a # b PROVE FALSE
  <2>1. CASE Shared(a)
    <3>1. m[a][2] = "opaque" /\ m[a][3] = a
      BY <1>1, <2>1
    <3>2. m[b][2] = "opaque" => m[b][3] = b
      BY <1>1
    <3> QED
      BY <1>3, <3>1, <3>2
  <2>2. CASE ~Shared(a) /\ ~Shared(b)
    <3>1. m[a][3] = groups[a] /\ m[b][3] = groups[b]
      BY <1>1, <2>2
    <3> QED
      BY <1>1, <1>3, <2>2, <3>1
  <2>3. CASE ~Shared(a) /\ Shared(b)
    <3>1. m[a][2] = "semantic" /\ m[b][2] = "opaque"
      BY <1>1, <2>3
    <3> QED
      BY <1>3, <3>1
  <2> QED
    BY <2>1, <2>2, <2>3
<1> QED
  BY <1>2, <1>3 DEF m

\* Two memories of which nothing is said have two turns.
LEMMA TurnsTell ==
    ASSUME NEW i \in Inputs, NEW n \in Bare(i), NEW m \in Bare(i), n < m
    PROVE  Cardinality(Met(i, n)) # Cardinality(Met(i, m))
<1>1. /\ Len(i.lines) \in Nat /\ DOMAIN i.lines = 1 .. Len(i.lines)
      /\ Len(i.mems) \in Nat /\ DOMAIN i.mems = 1 .. Len(i.mems)
  BY InputsWellFormed, LenProperties
<1>2. n \in 1 .. Len(i.lines) /\ m \in 1 .. Len(i.lines)
  BY <1>1 DEF Bare
<1>3. Met(i, n) \subseteq Met(i, m)
  <2>1. 1 .. n \subseteq 1 .. m
    BY <1>2
  <2>2. {i.lines[k].ref : k \in 1 .. n} \subseteq {i.lines[k].ref : k \in 1 .. m}
    BY <2>1
  <2> QED
    BY <2>2 DEF Met
<1>4. i.lines[m].ref \in Met(i, m) /\ i.lines[m].ref \notin Met(i, n)
  <2>1. i.lines[m].ref \in MemoryRefs /\ i.lines[m].ref \notin Described(i)
    BY DEF Bare
  <2>2. m \in 1 .. m
    BY <1>2
  <2>3. ASSUME NEW k \in 1 .. n, i.lines[k].ref = i.lines[m].ref PROVE FALSE
    <3>1. k \in DOMAIN i.lines /\ m \in DOMAIN i.lines /\ k # m
      BY <1>1, <1>2
    <3> QED
      BY <2>1, <2>3, <3>1, InputsWellFormed
  <2> QED
    BY <2>1, <2>2, <2>3 DEF Met
<1>5. IsFiniteSet(Met(i, m))
  <2>1. IsFiniteSet(Described(i))
    <3> DEFINE f == [k \in 1 .. Len(i.mems) |-> i.mems[k].ref]
    <3>1. Described(i) = {i.mems[k].ref : k \in 1 .. Len(i.mems)}
      BY <1>1 DEF Described
    <3>2. f \in Surjection(1 .. Len(i.mems), Described(i))
      BY <3>1 DEF Surjection
    <3>3. IsFiniteSet(1 .. Len(i.mems))
      BY <1>1, FS_Interval
    <3> HIDE DEF f
    <3> QED
      BY <3>2, <3>3, FS_Surjection
  <2>2. IsFiniteSet({i.lines[k].ref : k \in 1 .. m})
    <3> DEFINE S == {i.lines[k].ref : k \in 1 .. m}
               f == [k \in 1 .. m |-> i.lines[k].ref]
    <3>1. f \in Surjection(1 .. m, S)
      BY DEF Surjection
    <3>2. IsFiniteSet(1 .. m)
      BY <1>2, FS_Interval
    <3> HIDE DEF f, S
    <3>3. IsFiniteSet(S)
      BY <3>1, <3>2, FS_Surjection
    <3> QED
      BY <3>3 DEF S
  <2>3. IsFiniteSet({i.lines[k].ref : k \in 1 .. m} \cap MemoryRefs)
    BY <2>2, FS_Intersection
  <2> QED
    BY <2>1, <2>3, FS_Union DEF Met
<1> QED
  BY <1>3, <1>4, <1>5, FS_Subset

\* The marker of a memory tells it among the memories of its input.
LEMMA MemoryMarkersTell ==
    ASSUME NEW i \in Inputs, ~Ambiguous(i),
           NEW a \in DOMAIN MemoryMarkers(i), NEW b \in DOMAIN MemoryMarkers(i), MemoryMarkers(i)[a] = MemoryMarkers(i)[b]
    PROVE  a = b
<1> DEFINE Texts(x) == {i.mems[n].text : n \in {k \in DOMAIN i.mems : i.mems[k].ref = x}}
           Turn(x) == CHOOSE n \in Bare(i) : i.lines[n].ref = x
<1>1. DOMAIN MemoryMarkers(i) = Described(i) \cup {i.lines[n].ref : n \in Bare(i)}
  BY DEF MemoryMarkers
<1>2. \A x \in DOMAIN MemoryMarkers(i) :
         MemoryMarkers(i)[x] = IF x \in Described(i) THEN <<"memory", "semantic", Texts(x)>>
                               ELSE <<"memory", "ordinal", Cardinality(Met(i, Turn(x)))>>
  BY DEF MemoryMarkers
<1>3. CASE a \in Described(i) /\ b \in Described(i)
  <2>1. Texts(a) = Texts(b)
    <3>1. MemoryMarkers(i)[a] = <<"memory", "semantic", Texts(a)>>
      BY <1>2, <1>3
    <3>2. MemoryMarkers(i)[b] = <<"memory", "semantic", Texts(b)>>
      BY <1>2, <1>3
    <3>3. <<"memory", "semantic", Texts(a)>> = <<"memory", "semantic", Texts(b)>>
      BY <3>1, <3>2
    <3> HIDE DEF Texts
    <3> QED
      BY <3>3
  <2>2. PICK n \in DOMAIN i.mems : i.mems[n].ref = a
    BY <1>3 DEF Described
  <2>3. i.mems[n].text \in Texts(b)
    BY <2>1, <2>2
  <2>4. PICK x \in DOMAIN i.mems : i.mems[x].ref = b /\ i.mems[x].text = i.mems[n].text
    BY <2>3
  <2> QED
    BY <2>2, <2>4 DEF Ambiguous
<1>4. CASE a \in Described(i) /\ b \notin Described(i)
  <2>1. MemoryMarkers(i)[a][2] = "semantic" /\ MemoryMarkers(i)[b][2] = "ordinal"
    BY <1>2, <1>4
  <2> QED
    BY <2>1
<1>5. CASE a \notin Described(i) /\ b \in Described(i)
  <2>1. MemoryMarkers(i)[a][2] = "ordinal" /\ MemoryMarkers(i)[b][2] = "semantic"
    BY <1>2, <1>5
  <2> QED
    BY <2>1
<1>6. CASE a \notin Described(i) /\ b \notin Described(i)
  <2>1. /\ MemoryMarkers(i)[a][3] = Cardinality(Met(i, Turn(a)))
        /\ MemoryMarkers(i)[b][3] = Cardinality(Met(i, Turn(b)))
    BY <1>2, <1>6
  <2>2. /\ Turn(a) \in Bare(i) /\ i.lines[Turn(a)].ref = a
        /\ Turn(b) \in Bare(i) /\ i.lines[Turn(b)].ref = b
    BY <1>1, <1>6
  <2> HIDE DEF Turn
  <2>3. Turn(a) \in Nat /\ Turn(b) \in Nat
    <3>1. DOMAIN i.lines = 1 .. Len(i.lines)
      BY InputsWellFormed, LenProperties
    <3> QED
      BY <2>2, <3>1 DEF Bare
  <2>4. Turn(a) = Turn(b)
    BY <2>1, <2>2, <2>3, TurnsTell
  <2> QED
    BY <2>2, <2>4
<1> QED
  BY <1>3, <1>4, <1>5, <1>6

\* The sort of a marker, and that it tells an identity among those of its sort.
LEMMA SortMarkers ==
    ASSUME NEW i \in Inputs
    PROVE  /\ \A a \in DOMAIN EpisodeMarkers(i) : EpisodeMarkers(i)[a][1] = "episode"
           /\ \A a \in DOMAIN OutcomeMarkers(i) : OutcomeMarkers(i)[a][1] = "outcome"
           /\ \A a \in DOMAIN MemoryMarkers(i) : MemoryMarkers(i)[a][1] = "memory"
           /\ \A a, b \in DOMAIN EpisodeMarkers(i) : EpisodeMarkers(i)[a] = EpisodeMarkers(i)[b] => a = b
           /\ \A a, b \in DOMAIN SessionMarkers(i) : SessionMarkers(i)[a] = SessionMarkers(i)[b] => a = b
           /\ \A a, b \in DOMAIN SourceMarkers(i) : SourceMarkers(i)[a] = SourceMarkers(i)[b] => a = b
           /\ \A a, b \in DOMAIN ActorMarkers(i) : ActorMarkers(i)[a] = ActorMarkers(i)[b] => a = b
           /\ \A a, b \in DOMAIN OutcomeMarkers(i) : OutcomeMarkers(i)[a] = OutcomeMarkers(i)[b] => a = b
           /\ ~Ambiguous(i) =>
                 \A a, b \in DOMAIN MemoryMarkers(i) : MemoryMarkers(i)[a] = MemoryMarkers(i)[b] => a = b
<1>1. PICK g : EpisodeMarkers(i) = SemanticMarkers(g, "episode")
  BY DEF EpisodeMarkers
<1>2. PICK h : SessionMarkers(i) = SemanticMarkers(h, "session")
  BY DEF SessionMarkers
<1>3. PICK k : OutcomeMarkers(i) = SemanticMarkers(k, "outcome")
  BY DEF OutcomeMarkers
<1>4. PICK q : SourceMarkers(i) = SemanticMarkers(q, "source")
  BY DEF SourceMarkers
<1>5. PICK u : ActorMarkers(i) = SemanticMarkers(u, "actor")
  BY DEF ActorMarkers
<1>6. /\ \A a \in DOMAIN EpisodeMarkers(i) : EpisodeMarkers(i)[a][1] = "episode"
      /\ \A a, b \in DOMAIN EpisodeMarkers(i) : EpisodeMarkers(i)[a] = EpisodeMarkers(i)[b] => a = b
  BY <1>1, MarkersTell
<1>7. \A a, b \in DOMAIN SessionMarkers(i) : SessionMarkers(i)[a] = SessionMarkers(i)[b] => a = b
  BY <1>2, MarkersTell
<1>8. /\ \A a \in DOMAIN OutcomeMarkers(i) : OutcomeMarkers(i)[a][1] = "outcome"
      /\ \A a, b \in DOMAIN OutcomeMarkers(i) : OutcomeMarkers(i)[a] = OutcomeMarkers(i)[b] => a = b
  BY <1>3, MarkersTell
<1>9. \A a, b \in DOMAIN SourceMarkers(i) : SourceMarkers(i)[a] = SourceMarkers(i)[b] => a = b
  BY <1>4, MarkersTell
<1>10. \A a, b \in DOMAIN ActorMarkers(i) : ActorMarkers(i)[a] = ActorMarkers(i)[b] => a = b
  BY <1>5, MarkersTell
<1>11. \A a \in DOMAIN MemoryMarkers(i) : MemoryMarkers(i)[a][1] = "memory"
  BY DEF MemoryMarkers
<1>12. ~Ambiguous(i) =>
          \A a, b \in DOMAIN MemoryMarkers(i) : MemoryMarkers(i)[a] = MemoryMarkers(i)[b] => a = b
  BY MemoryMarkersTell
<1> QED
  BY <1>6, <1>7, <1>8, <1>9, <1>10, <1>11, <1>12

\* No ref has two sorts.
LEMMA SortsAreDisjoint ==
    ASSUME NEW i \in Inputs
    PROVE  /\ DOMAIN EpisodeMarkers(i) \cap (DOMAIN OutcomeMarkers(i) \cup DOMAIN MemoryMarkers(i)) = {}
           /\ DOMAIN OutcomeMarkers(i) \cap DOMAIN MemoryMarkers(i) = {}
<1> DEFINE blocks   == ToSet(i.eps) \cup ToSet(i.related)
           outs     == ToSet(i.outs)
           episodes == {b.ref : b \in blocks}
           outcomes == {o.ref : o \in outs}
<1>1. /\ episodes \cap outcomes = {} /\ (episodes \cup outcomes) \cap MemoryRefs = {}
      /\ \A n \in DOMAIN i.mems : i.mems[n].ref \in MemoryRefs
  BY NamesByKind
<1>2. DOMAIN EpisodeMarkers(i) \subseteq episodes /\ DOMAIN OutcomeMarkers(i) \subseteq outcomes
  <2>1. /\ \A b : IsBlock(i, b) => b \in blocks
        /\ \A n \in DOMAIN i.outs : i.outs[n] \in outs
    BY DEF ToSet, IsBlock
  <2> HIDE DEF blocks, outs
  <2>2. ASSUME NEW a \in DOMAIN EpisodeMarkers(i) PROVE a \in episodes
    <3>0. \A x : x \in DOMAIN EpisodeMarkers(i) <=> \E b : IsBlock(i, b) /\ x = b.ref
      BY SortsOfInput, Zenon
    <3>1. PICK b : IsBlock(i, b) /\ a = b.ref
      BY <3>0
    <3> QED
      BY <2>1, <3>1
  <2>3. ASSUME NEW a \in DOMAIN OutcomeMarkers(i) PROVE a \in outcomes
    <3>0. DOMAIN OutcomeMarkers(i) = {i.outs[n].ref : n \in DOMAIN i.outs}
      BY SortsOfInput
    <3>1. PICK n \in DOMAIN i.outs : a = i.outs[n].ref
      BY <3>0
    <3> QED
      BY <2>1, <3>1
  <2> QED
    BY <2>2, <2>3
<1>3. ASSUME NEW a \in DOMAIN MemoryMarkers(i) PROVE a \in MemoryRefs
  <2>0. DOMAIN MemoryMarkers(i) = Described(i) \cup {i.lines[n].ref : n \in Bare(i)}
    BY SortsOfInput
  <2>1. a \in Described(i) \/ \E n \in Bare(i) : a = i.lines[n].ref
    BY <2>0
  <2>2. \A n \in Bare(i) : i.lines[n].ref \in MemoryRefs
    BY DEF Bare
  <2> QED
    BY <1>1, <2>1, <2>2 DEF Described
<1> HIDE DEF episodes, outcomes
<1> QED
  BY <1>1, <1>2, <1>3

\* The marker of a ref is that of its sort, and tells it among all refs of the input.
LEMMA MarkersOfInput ==
    ASSUME NEW i \in Inputs
    PROVE  /\ \A a \in DOMAIN EpisodeMarkers(i) : Markers(i)[a] = EpisodeMarkers(i)[a]
           /\ \A a \in DOMAIN OutcomeMarkers(i) : Markers(i)[a] = OutcomeMarkers(i)[a]
           /\ \A a \in DOMAIN MemoryMarkers(i) : Markers(i)[a] = MemoryMarkers(i)[a]
           /\ \A a \in Refs(i) : Markers(i)[a][1] \in {"episode", "outcome", "memory"}
           /\ ~Ambiguous(i) => \A a, b \in Refs(i) : Markers(i)[a] = Markers(i)[b] => a = b
<1>1. /\ \A a \in DOMAIN EpisodeMarkers(i) : Markers(i)[a] = EpisodeMarkers(i)[a]
      /\ \A a \in DOMAIN OutcomeMarkers(i) : Markers(i)[a] = OutcomeMarkers(i)[a]
      /\ \A a \in DOMAIN MemoryMarkers(i) : Markers(i)[a] = MemoryMarkers(i)[a]
  BY SortsAreDisjoint DEF Markers, Extended
<1>2. \A a \in Refs(i) : Markers(i)[a][1] \in {"episode", "outcome", "memory"}
  BY <1>1, RefsOfInput, SortMarkers
<1>3. ASSUME ~Ambiguous(i), NEW a \in Refs(i), NEW b \in Refs(i), Markers(i)[a] = Markers(i)[b]
      PROVE  a = b
  <2>1. CASE a \in DOMAIN EpisodeMarkers(i)
    <3>1. b \in DOMAIN EpisodeMarkers(i)
      BY <1>1, <1>3, <2>1, RefsOfInput, SortMarkers
    <3> QED
      BY <1>1, <1>3, <2>1, <3>1, SortMarkers
  <2>2. CASE a \in DOMAIN OutcomeMarkers(i)
    <3>1. b \in DOMAIN OutcomeMarkers(i)
      BY <1>1, <1>3, <2>2, RefsOfInput, SortMarkers
    <3> QED
      BY <1>1, <1>3, <2>2, <3>1, SortMarkers
  <2>3. CASE a \in DOMAIN MemoryMarkers(i)
    <3>1. b \in DOMAIN MemoryMarkers(i)
      BY <1>1, <1>3, <2>3, RefsOfInput, SortMarkers
    <3> QED
      BY <1>1, <1>3, <2>3, <3>1, SortMarkers
  <2> QED
    BY <2>1, <2>2, <2>3, RefsOfInput
<1> QED
  BY <1>1, <1>2, <1>3

\* A marker tells the sort of its ref.
LEMMA SortOfMarker ==
    ASSUME NEW i \in Inputs, NEW a \in Refs(i)
    PROVE  /\ Markers(i)[a][1] = "episode" => a \in DOMAIN EpisodeMarkers(i) /\ Markers(i)[a] = EpisodeMarkers(i)[a]
           /\ Markers(i)[a][1] = "outcome" => a \in DOMAIN OutcomeMarkers(i) /\ Markers(i)[a] = OutcomeMarkers(i)[a]
           /\ Markers(i)[a][1] = "memory" => a \in DOMAIN MemoryMarkers(i) /\ Markers(i)[a] = MemoryMarkers(i)[a]
<1>1. \/ a \in DOMAIN EpisodeMarkers(i) /\ Markers(i)[a] = EpisodeMarkers(i)[a] /\ Markers(i)[a][1] = "episode"
      \/ a \in DOMAIN OutcomeMarkers(i) /\ Markers(i)[a] = OutcomeMarkers(i)[a] /\ Markers(i)[a][1] = "outcome"
      \/ a \in DOMAIN MemoryMarkers(i) /\ Markers(i)[a] = MemoryMarkers(i)[a] /\ Markers(i)[a][1] = "memory"
  BY MarkersOfInput, RefsOfInput, SortMarkers
<1> QED
  BY <1>1

\* Inputs that are the same memory state have the same markers of each sort.
LEMMA SameStateSameSorts ==
    ASSUME NEW i \in Inputs, NEW j \in Inputs, Canonical(i) = Canonical(j)
    PROVE  /\ \A a \in DOMAIN EpisodeMarkers(i) : \E b \in DOMAIN EpisodeMarkers(j) :
                 EpisodeMarkers(j)[b] = EpisodeMarkers(i)[a]
           /\ \A a \in DOMAIN SessionMarkers(i) : \E b \in DOMAIN SessionMarkers(j) :
                 SessionMarkers(j)[b] = SessionMarkers(i)[a]
           /\ \A a \in DOMAIN OutcomeMarkers(i) : \E b \in DOMAIN OutcomeMarkers(j) :
                 OutcomeMarkers(j)[b] = OutcomeMarkers(i)[a]
           /\ \A a \in DOMAIN MemoryMarkers(i) : \E b \in DOMAIN MemoryMarkers(j) :
                 MemoryMarkers(j)[b] = MemoryMarkers(i)[a]
           /\ \A a \in DOMAIN SourceMarkers(i) : \E b \in DOMAIN SourceMarkers(j) :
                 SourceMarkers(j)[b] = SourceMarkers(i)[a]
           /\ \A a \in DOMAIN ActorMarkers(i) : \E b \in DOMAIN ActorMarkers(j) :
                 ActorMarkers(j)[b] = ActorMarkers(i)[a]
<1>1. ASSUME NEW a \in DOMAIN EpisodeMarkers(i)
      PROVE  \E b \in DOMAIN EpisodeMarkers(j) : EpisodeMarkers(j)[b] = EpisodeMarkers(i)[a]
  <2>1. a \in Refs(i) /\ Markers(i)[a] = EpisodeMarkers(i)[a]
    BY MarkersOfInput, RefsOfInput
  <2>2. PICK b \in Refs(j) : Markers(j)[b] = Markers(i)[a]
    BY <2>1, SameStateSameMarkers
  <2>3. Markers(j)[b][1] = "episode"
    BY <2>1, <2>2, SortMarkers
  <2> QED
    BY <2>1, <2>2, <2>3, SortOfMarker
<1>2. ASSUME NEW a \in DOMAIN OutcomeMarkers(i)
      PROVE  \E b \in DOMAIN OutcomeMarkers(j) : OutcomeMarkers(j)[b] = OutcomeMarkers(i)[a]
  <2>1. a \in Refs(i) /\ Markers(i)[a] = OutcomeMarkers(i)[a]
    BY MarkersOfInput, RefsOfInput
  <2>2. PICK b \in Refs(j) : Markers(j)[b] = Markers(i)[a]
    BY <2>1, SameStateSameMarkers
  <2>3. Markers(j)[b][1] = "outcome"
    BY <2>1, <2>2, SortMarkers
  <2> QED
    BY <2>1, <2>2, <2>3, SortOfMarker
<1>3. ASSUME NEW a \in DOMAIN MemoryMarkers(i)
      PROVE  \E b \in DOMAIN MemoryMarkers(j) : MemoryMarkers(j)[b] = MemoryMarkers(i)[a]
  <2>1. a \in Refs(i) /\ Markers(i)[a] = MemoryMarkers(i)[a]
    BY MarkersOfInput, RefsOfInput
  <2>2. PICK b \in Refs(j) : Markers(j)[b] = Markers(i)[a]
    BY <2>1, SameStateSameMarkers
  <2>3. Markers(j)[b][1] = "memory"
    BY <2>1, <2>2, SortMarkers
  <2> QED
    BY <2>1, <2>2, <2>3, SortOfMarker
<1>4. ASSUME NEW a \in DOMAIN SessionMarkers(i)
      PROVE  \E b \in DOMAIN SessionMarkers(j) : SessionMarkers(j)[b] = SessionMarkers(i)[a]
  <2>0. \A x : x \in DOMAIN SessionMarkers(i) <=> \E b : IsBlock(i, b) /\ x = b.session
    BY SortsOfInput
  <2>1. PICK b : IsBlock(i, b) /\ a = b.session
    BY <2>0
  <2>2. PICK d : IsBlock(j, d) /\ BlockMarked(j, d) = BlockMarked(i, b)
    BY <2>1, SameBlocks
  <2>3. d.session \in DOMAIN SessionMarkers(j)
    BY <2>2, SortsOfInput
  <2>4. SessionMarkers(j)[d.session] = SessionMarkers(i)[a]
    BY <2>1, <2>2, PartsOfBlock
  <2> QED
    BY <2>3, <2>4
<1>5. ASSUME NEW a \in DOMAIN SourceMarkers(i)
      PROVE  \E b \in DOMAIN SourceMarkers(j) : SourceMarkers(j)[b] = SourceMarkers(i)[a]
  <2>1. PICK b : IsBlock(i, b) /\ \E k \in DOMAIN b.sources : a = b.sources[k].ref
    BY SourcesOfInput
  <2>2. PICK k \in DOMAIN b.sources : a = b.sources[k].ref
    BY <2>1
  <2>3. PICK d : IsBlock(j, d) /\ BlockMarked(j, d) = BlockMarked(i, b)
    BY <2>1, SameBlocks
  <2>4. k \in DOMAIN d.sources /\ SourceMarkers(j)[d.sources[k].ref] = SourceMarkers(i)[a]
    BY <2>2, <2>3, PartsOfBlock
  <2>5. d.sources[k].ref \in DOMAIN SourceMarkers(j)
    BY <2>3, <2>4, SourcesOfInput
  <2> QED
    BY <2>4, <2>5
<1>6. ASSUME NEW a \in DOMAIN ActorMarkers(i)
      PROVE  \E b \in DOMAIN ActorMarkers(j) : ActorMarkers(j)[b] = ActorMarkers(i)[a]
  <2>1. PICK b : IsBlock(i, b) /\ \E k \in DOMAIN b.sources : a = ActorOf(b.sources[k])
    BY SourcesOfInput
  <2>2. PICK k \in DOMAIN b.sources : a = ActorOf(b.sources[k])
    BY <2>1
  <2>3. PICK d : IsBlock(j, d) /\ BlockMarked(j, d) = BlockMarked(i, b)
    BY <2>1, SameBlocks
  <2>4. k \in DOMAIN d.sources /\ ActorMarkers(j)[ActorOf(d.sources[k])] = ActorMarkers(i)[a]
    BY <2>2, <2>3, PartsOfBlock
  <2>5. ActorOf(d.sources[k]) \in DOMAIN ActorMarkers(j)
    BY <2>3, <2>4, SourcesOfInput
  <2> QED
    BY <2>4, <2>5
<1> QED
  BY <1>1, <1>2, <1>3, <1>4, <1>5, <1>6

\* Each identity goes to the one of the same marker.
Match(from, to) == [a \in DOMAIN from |-> CHOOSE b \in DOMAIN to : to[b] = from[a]]

LEMMA MatchIsBijection ==
    ASSUME NEW from, NEW to,
           \A a, b \in DOMAIN from : from[a] = from[b] => a = b,
           \A a, b \in DOMAIN to : to[a] = to[b] => a = b,
           \A a \in DOMAIN from : \E b \in DOMAIN to : to[b] = from[a],
           \A b \in DOMAIN to : \E a \in DOMAIN from : from[a] = to[b]
    PROVE  /\ Match(from, to) \in Bijection(DOMAIN from, DOMAIN to)
           /\ \A a \in DOMAIN from : Match(from, to)[a] \in DOMAIN to /\ to[Match(from, to)[a]] = from[a]
<1> DEFINE f == Match(from, to)
<1>1. DOMAIN f = DOMAIN from /\ f = [a \in DOMAIN from |-> f[a]]
  BY DEF Match
<1>2. ASSUME NEW a \in DOMAIN from PROVE f[a] \in DOMAIN to /\ to[f[a]] = from[a]
  <2>1. f[a] = CHOOSE b \in DOMAIN to : to[b] = from[a]
    BY DEF Match
  <2> HIDE DEF f
  <2> QED
    BY <2>1
<1> HIDE DEF f
<1>3. f \in [DOMAIN from -> DOMAIN to]
  BY <1>1, <1>2
<1>4. \A a, b \in DOMAIN from : f[a] = f[b] => a = b
  BY <1>2
<1>5. \A b \in DOMAIN to : \E a \in DOMAIN from : f[a] = b
  BY <1>2
<1>6. f \in Bijection(DOMAIN from, DOMAIN to)
  BY <1>3, <1>4, <1>5 DEF Bijection, Injection, Surjection, IsInjective
<1> QED
  BY <1>2, <1>6 DEF f

\* Then an identity has the marker of another one exactly if it goes to it.
LEMMA MatchedExactly ==
    ASSUME NEW from, NEW to,
           \A a, b \in DOMAIN from : from[a] = from[b] => a = b,
           \A a, b \in DOMAIN to : to[a] = to[b] => a = b,
           \A a \in DOMAIN from : \E b \in DOMAIN to : to[b] = from[a],
           \A b \in DOMAIN to : \E a \in DOMAIN from : from[a] = to[b]
    PROVE  /\ \A a \in DOMAIN from, b \in DOMAIN to : from[a] = to[b] <=> NameIn(Match(from, to), a) = b
           /\ \A a, b \in DOMAIN from : from[a] = from[b] <=> NameIn(Match(from, to), a) = NameIn(Match(from, to), b)
           /\ \A a, b \in DOMAIN to : to[a] = to[b] <=> a = b
<1> DEFINE f == Match(from, to)
<1>1. /\ \A a \in DOMAIN from : f[a] \in DOMAIN to /\ to[f[a]] = from[a]
      /\ DOMAIN f = DOMAIN from
  BY MatchIsBijection DEF Match
<1> HIDE DEF f
<1>2. \A a \in DOMAIN from : NameIn(f, a) = f[a]
  BY <1>1 DEF NameIn
<1>3. \A a \in DOMAIN from, b \in DOMAIN to : from[a] = to[b] <=> NameIn(f, a) = b
  BY <1>1, <1>2
<1>4. \A a, b \in DOMAIN from : from[a] = from[b] <=> NameIn(f, a) = NameIn(f, b)
  BY <1>1, <1>2
<1> QED
  BY <1>3, <1>4 DEF f

\* The renaming of an input to another one of the same memory state.
RefNames(i, j) ==
    Extended(Extended(Match(EpisodeMarkers(i), EpisodeMarkers(j)), Match(OutcomeMarkers(i), OutcomeMarkers(j))),
             Match(MemoryMarkers(i), MemoryMarkers(j)))

SessionNames(i, j) == Match(SessionMarkers(i), SessionMarkers(j))
SourceNames(i, j)  == Match(SourceMarkers(i), SourceMarkers(j))
ActorNames(i, j)   == Match(ActorMarkers(i), ActorMarkers(j))

RenamingOf(i, j) ==
    [refs |-> RefNames(i, j), sessions |-> SessionNames(i, j), sources |-> SourceNames(i, j), actors |-> ActorNames(i, j)]

LEMMA RenamingMatches ==
    ASSUME NEW i \in Inputs, NEW j \in Inputs, Canonical(i) = Canonical(j), ~Ambiguous(i), ~Ambiguous(j)
    PROVE  /\ RenamingOf(i, j) \in Renamings(Sorts(i), Sorts(j))
           /\ DOMAIN RefNames(i, j) = Refs(i)
           /\ \A a \in Refs(i) :
                 RefNames(i, j)[a] \in Refs(j) /\ Markers(j)[RefNames(i, j)[a]] = Markers(i)[a]
<1> DEFINE fe == Match(EpisodeMarkers(i), EpisodeMarkers(j))
           fo == Match(OutcomeMarkers(i), OutcomeMarkers(j))
           fm == Match(MemoryMarkers(i), MemoryMarkers(j))
           f  == Extended(Extended(fe, fo), fm)
<1>1. /\ fe \in Bijection(DOMAIN EpisodeMarkers(i), DOMAIN EpisodeMarkers(j))
      /\ \A a \in DOMAIN EpisodeMarkers(i) : /\ fe[a] \in DOMAIN EpisodeMarkers(j)
                                             /\ EpisodeMarkers(j)[fe[a]] = EpisodeMarkers(i)[a]
  BY MatchIsBijection, SameStateSameSorts, SortMarkers
<1>2. /\ SessionNames(i, j) \in Bijection(DOMAIN SessionMarkers(i), DOMAIN SessionMarkers(j))
      /\ SourceNames(i, j) \in Bijection(DOMAIN SourceMarkers(i), DOMAIN SourceMarkers(j))
      /\ ActorNames(i, j) \in Bijection(DOMAIN ActorMarkers(i), DOMAIN ActorMarkers(j))
  <2>1. SessionNames(i, j) \in Bijection(DOMAIN SessionMarkers(i), DOMAIN SessionMarkers(j))
    BY MatchIsBijection, SameStateSameSorts, SortMarkers DEF SessionNames
  <2>2. SourceNames(i, j) \in Bijection(DOMAIN SourceMarkers(i), DOMAIN SourceMarkers(j))
    BY MatchIsBijection, SameStateSameSorts, SortMarkers DEF SourceNames
  <2>3. ActorNames(i, j) \in Bijection(DOMAIN ActorMarkers(i), DOMAIN ActorMarkers(j))
    BY MatchIsBijection, SameStateSameSorts, SortMarkers DEF ActorNames
  <2> QED
    BY <2>1, <2>2, <2>3
<1>3. /\ fo \in Bijection(DOMAIN OutcomeMarkers(i), DOMAIN OutcomeMarkers(j))
      /\ \A a \in DOMAIN OutcomeMarkers(i) : /\ fo[a] \in DOMAIN OutcomeMarkers(j)
                                             /\ OutcomeMarkers(j)[fo[a]] = OutcomeMarkers(i)[a]
  BY MatchIsBijection, SameStateSameSorts, SortMarkers
<1>4. /\ fm \in Bijection(DOMAIN MemoryMarkers(i), DOMAIN MemoryMarkers(j))
      /\ \A a \in DOMAIN MemoryMarkers(i) : /\ fm[a] \in DOMAIN MemoryMarkers(j)
                                            /\ MemoryMarkers(j)[fm[a]] = MemoryMarkers(i)[a]
  BY MatchIsBijection, SameStateSameSorts, SortMarkers
<1>5. /\ DOMAIN fe = DOMAIN EpisodeMarkers(i)
      /\ DOMAIN fo = DOMAIN OutcomeMarkers(i) /\ DOMAIN fm = DOMAIN MemoryMarkers(i)
  BY DEF Match
<1>6. RefNames(i, j) = f
  BY DEF RefNames
<1> HIDE DEF fe, fo, fm
<1>7. RenamingOf(i, j) \in Renamings(Sorts(i), Sorts(j))
  <2> DEFINE g == <<fe, fo, fm>>
             from == Sorts(i)
             to == Sorts(j)
  <2>1. /\ from[1] = DOMAIN EpisodeMarkers(i) /\ from[2] = DOMAIN OutcomeMarkers(i)
        /\ from[3] = DOMAIN MemoryMarkers(i) /\ from[4] = DOMAIN SessionMarkers(i)
        /\ from[5] = DOMAIN SourceMarkers(i) /\ from[6] = DOMAIN ActorMarkers(i)
        /\ to[1] = DOMAIN EpisodeMarkers(j) /\ to[2] = DOMAIN OutcomeMarkers(j)
        /\ to[3] = DOMAIN MemoryMarkers(j) /\ to[4] = DOMAIN SessionMarkers(j)
        /\ to[5] = DOMAIN SourceMarkers(j) /\ to[6] = DOMAIN ActorMarkers(j)
    BY DEF Sorts
  <2>2. g[1] = fe /\ g[2] = fo /\ g[3] = fm
    OBVIOUS
  <2> HIDE DEF from, to
  <2>3. g \in Bijection(from[1], to[1]) \X Bijection(from[2], to[2]) \X Bijection(from[3], to[3])
    BY <1>1, <1>3, <1>4, <2>1
  <2> HIDE DEF g
  <2>4. Extended(Extended(g[1], g[2]), g[3])
           \in {Extended(Extended(x[1], x[2]), x[3]) :
                   x \in Bijection(from[1], to[1]) \X Bijection(from[2], to[2]) \X Bijection(from[3], to[3])}
    BY <2>3
  <2>5. RefNames(i, j) = Extended(Extended(g[1], g[2]), g[3])
    BY <1>6, <2>2
  <2> QED
    BY <1>2, <2>1, <2>4, <2>5 DEF RenamingOf, Renamings, from, to
<1>8. /\ DOMAIN f = DOMAIN fe \cup DOMAIN fo \cup DOMAIN fm
      /\ \A a \in DOMAIN fe : f[a] = fe[a]
      /\ \A a \in DOMAIN fo \ DOMAIN fe : f[a] = fo[a]
      /\ \A a \in DOMAIN fm \ (DOMAIN fe \cup DOMAIN fo) : f[a] = fm[a]
  BY DEF Extended
<1> HIDE DEF f
<1>9. /\ \A a \in DOMAIN EpisodeMarkers(i) : f[a] = fe[a]
      /\ \A a \in DOMAIN OutcomeMarkers(i) : f[a] = fo[a]
      /\ \A a \in DOMAIN MemoryMarkers(i) : f[a] = fm[a]
  BY <1>5, <1>8, SortsAreDisjoint
<1>10. \A a \in Refs(i) : f[a] \in Refs(j) /\ Markers(j)[f[a]] = Markers(i)[a]
  <2>1. \A a \in DOMAIN EpisodeMarkers(i) : f[a] \in Refs(j) /\ Markers(j)[f[a]] = Markers(i)[a]
    BY <1>1, <1>9, MarkersOfInput, RefsOfInput
  <2>2. \A a \in DOMAIN OutcomeMarkers(i) : f[a] \in Refs(j) /\ Markers(j)[f[a]] = Markers(i)[a]
    BY <1>3, <1>9, MarkersOfInput, RefsOfInput
  <2>3. \A a \in DOMAIN MemoryMarkers(i) : f[a] \in Refs(j) /\ Markers(j)[f[a]] = Markers(i)[a]
    BY <1>4, <1>9, MarkersOfInput, RefsOfInput
  <2> QED
    BY <2>1, <2>2, <2>3, RefsOfInput
<1>11. DOMAIN f = Refs(i)
  BY <1>5, <1>8, RefsOfInput
<1> QED
  BY <1>6, <1>7, <1>10, <1>11

\* How often a sequence has its n-th element: so often it is in the bag.
Count(s, n) == Cardinality({k \in DOMAIN s : s[k] = s[n]})

LEMMA BagCounts == \A s : \A n \in DOMAIN s : BagOf(s)[s[n]] = Count(s, n)
  BY DEF BagOf, ToSet, Count

\* Sequences that repeat themselves and each other in the same way have the same bag, if
\* others that do have.
LEMMA SameBags ==
    ASSUME NEW s, NEW t, NEW u, NEW v, BagOf(s) = BagOf(t), DOMAIN u = DOMAIN s, DOMAIN v = DOMAIN t,
           \A n, k \in DOMAIN s : s[n] = s[k] <=> u[n] = u[k],
           \A n \in DOMAIN s, k \in DOMAIN t : s[n] = t[k] <=> u[n] = v[k],
           \A n, k \in DOMAIN t : t[n] = t[k] <=> v[n] = v[k]
    PROVE  BagOf(u) = BagOf(v)
<1>1. {s[n] : n \in DOMAIN s} = {t[n] : n \in DOMAIN t}
  BY BagDomain
<1>2. /\ \A n \in DOMAIN u : \E k \in DOMAIN v : v[k] = u[n]
      /\ \A k \in DOMAIN v : \E n \in DOMAIN u : u[n] = v[k]
  <2>1. \A n \in DOMAIN s : \E k \in DOMAIN t : t[k] = s[n]
    BY <1>1
  <2>2. \A k \in DOMAIN t : \E n \in DOMAIN s : s[n] = t[k]
    BY <1>1
  <2> QED
    BY <2>1, <2>2
<1>3. {u[n] : n \in DOMAIN u} = {v[n] : n \in DOMAIN v}
  BY <1>2
<1>4. ASSUME NEW n \in DOMAIN u, NEW k \in DOMAIN v, u[n] = v[k]
      PROVE  BagOf(u)[u[n]] = BagOf(v)[v[k]]
  <2>1. s[n] = t[k]
    BY <1>4
  <2>2. BagOf(s)[s[n]] = BagOf(t)[t[k]]
    BY <2>1
  <2>3. Count(u, n) = Count(s, n)
    <3>1. {x \in DOMAIN u : u[x] = u[n]} = {x \in DOMAIN s : s[x] = s[n]}
      OBVIOUS
    <3> QED
      BY <3>1 DEF Count
  <2>4. Count(v, k) = Count(t, k)
    <3>1. {x \in DOMAIN v : v[x] = v[k]} = {x \in DOMAIN t : t[x] = t[k]}
      OBVIOUS
    <3> QED
      BY <3>1 DEF Count
  <2>5. /\ BagOf(u)[u[n]] = Count(u, n) /\ BagOf(s)[s[n]] = Count(s, n)
        /\ BagOf(v)[v[k]] = Count(v, k) /\ BagOf(t)[t[k]] = Count(t, k)
    BY BagCounts
  <2> QED
    BY <2>2, <2>3, <2>4, <2>5
<1>5. DOMAIN BagOf(u) = {u[n] : n \in DOMAIN u} /\ DOMAIN BagOf(v) = {v[n] : n \in DOMAIN v}
  BY BagDomain
<1>6. \A c \in DOMAIN BagOf(u) : BagOf(u)[c] = BagOf(v)[c]
  BY <1>2, <1>4, <1>5
<1>7. /\ BagOf(u) = [c \in DOMAIN BagOf(u) |-> BagOf(u)[c]]
      /\ BagOf(v) = [c \in DOMAIN BagOf(v) |-> BagOf(v)[c]]
  BY DEF BagOf
<1> QED
  BY <1>3, <1>5, <1>6, <1>7

\* A ref of one input has the marker of a ref of the other exactly if it is renamed to it.
LEMMA RefsExactly ==
    ASSUME NEW i \in Inputs, NEW j \in Inputs, Canonical(i) = Canonical(j), ~Ambiguous(i), ~Ambiguous(j)
    PROVE  LET f == RefNames(i, j) IN
           /\ \A a \in Refs(i), b \in Refs(j) : Markers(i)[a] = Markers(j)[b] <=> NameIn(f, a) = b
           /\ \A a, b \in Refs(i) : Markers(i)[a] = Markers(i)[b] <=> NameIn(f, a) = NameIn(f, b)
           /\ \A a, b \in Refs(j) : Markers(j)[a] = Markers(j)[b] <=> a = b
<1> DEFINE f == RefNames(i, j)
<1>1. /\ DOMAIN f = Refs(i)
      /\ \A a \in Refs(i) : f[a] \in Refs(j) /\ Markers(j)[f[a]] = Markers(i)[a]
  BY RenamingMatches
<1> HIDE DEF f
<1>2. \A a \in Refs(i) : NameIn(f, a) = f[a]
  BY <1>1 DEF NameIn
<1>3. \A a, b \in Refs(j) : Markers(j)[a] = Markers(j)[b] <=> a = b
  BY MarkersOfInput
<1>4. \A a \in Refs(i), b \in Refs(j) : Markers(i)[a] = Markers(j)[b] <=> NameIn(f, a) = b
  BY <1>1, <1>2, <1>3
<1>5. \A a, b \in Refs(i) : Markers(i)[a] = Markers(i)[b] <=> NameIn(f, a) = NameIn(f, b)
  BY <1>1, <1>2, <1>3, MarkersOfInput
<1> QED
  BY <1>3, <1>4, <1>5 DEF f

\* The same of sessions, sources and actors.
LEMMA SessionsExactly ==
    ASSUME NEW i \in Inputs, NEW j \in Inputs, Canonical(i) = Canonical(j)
    PROVE  LET h == SessionNames(i, j) IN
           /\ \A a \in DOMAIN SessionMarkers(i), b \in DOMAIN SessionMarkers(j) :
                 SessionMarkers(i)[a] = SessionMarkers(j)[b] <=> NameIn(h, a) = b
           /\ \A a, b \in DOMAIN SessionMarkers(i) :
                 SessionMarkers(i)[a] = SessionMarkers(i)[b] <=> NameIn(h, a) = NameIn(h, b)
           /\ \A a, b \in DOMAIN SessionMarkers(j) : SessionMarkers(j)[a] = SessionMarkers(j)[b] <=> a = b
  BY MatchedExactly, SameStateSameSorts, SortMarkers DEF SessionNames

LEMMA SourcesExactly ==
    ASSUME NEW i \in Inputs, NEW j \in Inputs, Canonical(i) = Canonical(j)
    PROVE  LET h == SourceNames(i, j) IN
           /\ \A a \in DOMAIN SourceMarkers(i), b \in DOMAIN SourceMarkers(j) :
                 SourceMarkers(i)[a] = SourceMarkers(j)[b] <=> NameIn(h, a) = b
           /\ \A a, b \in DOMAIN SourceMarkers(i) :
                 SourceMarkers(i)[a] = SourceMarkers(i)[b] <=> NameIn(h, a) = NameIn(h, b)
           /\ \A a, b \in DOMAIN SourceMarkers(j) : SourceMarkers(j)[a] = SourceMarkers(j)[b] <=> a = b
  BY MatchedExactly, SameStateSameSorts, SortMarkers DEF SourceNames

LEMMA ActorsExactly ==
    ASSUME NEW i \in Inputs, NEW j \in Inputs, Canonical(i) = Canonical(j)
    PROVE  LET h == ActorNames(i, j) IN
           /\ \A a \in DOMAIN ActorMarkers(i), b \in DOMAIN ActorMarkers(j) :
                 ActorMarkers(i)[a] = ActorMarkers(j)[b] <=> NameIn(h, a) = b
           /\ \A a, b \in DOMAIN ActorMarkers(i) :
                 ActorMarkers(i)[a] = ActorMarkers(i)[b] <=> NameIn(h, a) = NameIn(h, b)
           /\ \A a, b \in DOMAIN ActorMarkers(j) : ActorMarkers(j)[a] = ActorMarkers(j)[b] <=> a = b
  BY MatchedExactly, SameStateSameSorts, SortMarkers DEF ActorNames

\* Names f of the one input in the other go by the markers.
GoesByMarker(from, to, f) ==
    /\ DOMAIN f = DOMAIN from
    /\ \A a \in DOMAIN from : f[a] \in DOMAIN to /\ from[a][1] # "name"
    /\ \A a \in DOMAIN to : to[a][1] # "name"
    /\ \A a \in DOMAIN from, b \in DOMAIN to : from[a] = to[b] <=> NameIn(f, a) = b
    /\ \A a, b \in DOMAIN from : from[a] = from[b] <=> NameIn(f, a) = NameIn(f, b)
    /\ \A a, b \in DOMAIN to : to[a] = to[b] <=> a = b

\* The same of names of which some have no marker, if none that has none in the one input
\* has one in the other.
LEMMA NamedExactly ==
    ASSUME NEW from, NEW to, NEW f, GoesByMarker(from, to, f)
    PROVE  /\ \A a, b : MarkerOr(from, a) = MarkerOr(to, b) => NameIn(f, a) = b
           /\ \A a, b : (a \in DOMAIN from \/ a \notin DOMAIN to) =>
                 (MarkerOr(from, a) = MarkerOr(to, b) <=> NameIn(f, a) = b)
           /\ \A a, b : (a \in DOMAIN from \/ a \notin DOMAIN to) /\ (b \in DOMAIN from \/ b \notin DOMAIN to) =>
                 (MarkerOr(from, a) = MarkerOr(from, b) <=> NameIn(f, a) = NameIn(f, b))
           /\ \A a, b : MarkerOr(to, a) = MarkerOr(to, b) <=> a = b
<1>1. /\ \A a \in DOMAIN from : MarkerOr(from, a) = from[a] /\ NameIn(f, a) = f[a]
      /\ \A a : a \notin DOMAIN from => /\ MarkerOr(from, a)[1] = "name" /\ MarkerOr(from, a)[2] = a
                                         /\ MarkerOr(from, a) = <<"name", a>> /\ NameIn(f, a) = a
      /\ \A a \in DOMAIN to : MarkerOr(to, a) = to[a]
      /\ \A a : a \notin DOMAIN to => /\ MarkerOr(to, a)[1] = "name" /\ MarkerOr(to, a)[2] = a
                                       /\ MarkerOr(to, a) = <<"name", a>>
  BY DEF MarkerOr, NameIn, GoesByMarker
<1>0. /\ \A a \in DOMAIN from : f[a] \in DOMAIN to /\ from[a][1] # "name"
      /\ \A a \in DOMAIN to : to[a][1] # "name"
      /\ \A a \in DOMAIN from, b \in DOMAIN to : from[a] = to[b] <=> NameIn(f, a) = b
      /\ \A a, b \in DOMAIN from : from[a] = from[b] <=> NameIn(f, a) = NameIn(f, b)
      /\ \A a, b \in DOMAIN to : to[a] = to[b] <=> a = b
  BY DEF GoesByMarker
<1>2. ASSUME NEW a, NEW b, MarkerOr(from, a) = MarkerOr(to, b) PROVE NameIn(f, a) = b
  <2>1. CASE a \in DOMAIN from
    BY <1>0, <1>1, <1>2, <2>1
  <2>2. CASE a \notin DOMAIN from
    BY <1>0, <1>1, <1>2, <2>2
  <2> QED
    BY <2>1, <2>2
<1>3. ASSUME NEW a, NEW b, a \in DOMAIN from \/ a \notin DOMAIN to, NameIn(f, a) = b
      PROVE  MarkerOr(from, a) = MarkerOr(to, b)
  <2>1. CASE a \in DOMAIN from
    BY <1>0, <1>1, <1>3, <2>1
  <2>2. CASE a \notin DOMAIN from
    BY <1>0, <1>1, <1>3, <2>2
  <2> QED
    BY <2>1, <2>2
<1>4. ASSUME NEW a, NEW b, a \in DOMAIN from \/ a \notin DOMAIN to, b \in DOMAIN from \/ b \notin DOMAIN to
      PROVE  MarkerOr(from, a) = MarkerOr(from, b) <=> NameIn(f, a) = NameIn(f, b)
  <2>1. CASE a \in DOMAIN from /\ b \in DOMAIN from
    BY <1>0, <1>1, <2>1
  <2>2. CASE a \notin DOMAIN from /\ b \notin DOMAIN from
    BY <1>0, <1>1, <2>2
  <2>3. CASE a \in DOMAIN from /\ b \notin DOMAIN from
    <3>1. NameIn(f, a) \in DOMAIN to /\ NameIn(f, b) = b /\ b \notin DOMAIN to
      BY <1>0, <1>1, <1>4, <2>3
    <3> QED
      BY <1>0, <1>1, <2>3, <3>1
  <2>4. CASE a \notin DOMAIN from /\ b \in DOMAIN from
    <3>1. NameIn(f, b) \in DOMAIN to /\ NameIn(f, a) = a /\ a \notin DOMAIN to
      BY <1>0, <1>1, <1>4, <2>4
    <3> QED
      BY <1>0, <1>1, <2>4, <3>1
  <2> QED
    BY <2>1, <2>2, <2>3, <2>4
<1>5. ASSUME NEW a, NEW b, MarkerOr(to, a) = MarkerOr(to, b) PROVE a = b
  <2>1. CASE a \in DOMAIN to
    BY <1>0, <1>1, <1>5, <2>1
  <2>2. CASE a \notin DOMAIN to
    BY <1>0, <1>1, <1>5, <2>2
  <2> QED
    BY <2>1, <2>2
<1> QED
  BY <1>2, <1>3, <1>4, <1>5

\* What an input names are identities of it.
LEMMA NamedByInput ==
    ASSUME NEW i \in Inputs
    PROVE  /\ \A b : IsBlock(i, b) => b.ref \in Refs(i) /\ b.session \in DOMAIN SessionMarkers(i)
           /\ \A b : IsBlock(i, b) => \A k \in DOMAIN b.sources :
                 b.sources[k].ref \in DOMAIN SourceMarkers(i) /\ ActorOf(b.sources[k]) \in DOMAIN ActorMarkers(i)
           /\ \A n \in DOMAIN i.outs : i.outs[n].ref \in Refs(i)
           /\ \A n \in DOMAIN i.mems : i.mems[n].ref \in Refs(i)
<1>1. \A b : IsBlock(i, b) => b.ref \in Refs(i) /\ b.session \in DOMAIN SessionMarkers(i)
  BY RefsOfInput, SortsOfInput
<1>2. \A b : IsBlock(i, b) => \A k \in DOMAIN b.sources :
         b.sources[k].ref \in DOMAIN SourceMarkers(i) /\ ActorOf(b.sources[k]) \in DOMAIN ActorMarkers(i)
  BY SourcesOfInput
<1>3. /\ \A n \in DOMAIN i.outs : i.outs[n].ref \in Refs(i)
      /\ \A n \in DOMAIN i.mems : i.mems[n].ref \in Refs(i)
  BY RefsOfInput
<1> QED
  BY <1>1, <1>2, <1>3

\* A source, a block and a line with the names of a renaming.
SourceNamed(g, s) == <<s.kind, NameIn(g.actors, ActorOf(s)), NameIn(g.sources, s.ref)>>

BlockNamed(g, b) ==
    <<NameIn(g.refs, b.ref), NameIn(g.sessions, b.session), b.body,
      [k \in DOMAIN b.sources |-> SourceNamed(g, b.sources[k])]>>

LineNamed(g, l) == <<l.tag, NameIn(g.refs, l.of), NameIn(g.refs, l.ref)>>

\* Blocks are equal with their names exactly if they are with their markers, when this is so
\* of the identities in them.
LEMMA BlocksAgree ==
    ASSUME NEW i, NEW j, NEW b, NEW d, NEW f, NEW g,
           Markers(i)[b.ref] = Markers(j)[d.ref] <=> NameIn(f.refs, b.ref) = NameIn(g.refs, d.ref),
           SessionMarkers(i)[b.session] = SessionMarkers(j)[d.session]
              <=> NameIn(f.sessions, b.session) = NameIn(g.sessions, d.session),
           \A k \in DOMAIN b.sources : k \in DOMAIN d.sources =>
              /\ ActorMarkers(i)[ActorOf(b.sources[k])] = ActorMarkers(j)[ActorOf(d.sources[k])]
                    <=> NameIn(f.actors, ActorOf(b.sources[k])) = NameIn(g.actors, ActorOf(d.sources[k]))
              /\ SourceMarkers(i)[b.sources[k].ref] = SourceMarkers(j)[d.sources[k].ref]
                    <=> NameIn(f.sources, b.sources[k].ref) = NameIn(g.sources, d.sources[k].ref)
    PROVE  BlockMarked(i, b) = BlockMarked(j, d) <=> BlockNamed(f, b) = BlockNamed(g, d)
<1>1. ASSUME BlockMarked(i, b) = BlockMarked(j, d) PROVE BlockNamed(f, b) = BlockNamed(g, d)
  <2>1. /\ Markers(i)[b.ref] = Markers(j)[d.ref] /\ SessionMarkers(i)[b.session] = SessionMarkers(j)[d.session]
        /\ b.body = d.body /\ DOMAIN b.sources = DOMAIN d.sources
        /\ \A k \in DOMAIN b.sources :
              /\ b.sources[k].kind = d.sources[k].kind
              /\ ActorMarkers(i)[ActorOf(b.sources[k])] = ActorMarkers(j)[ActorOf(d.sources[k])]
              /\ SourceMarkers(i)[b.sources[k].ref] = SourceMarkers(j)[d.sources[k].ref]
    BY <1>1, PartsOfBlock
  <2>2. \A k \in DOMAIN b.sources : SourceNamed(f, b.sources[k]) = SourceNamed(g, d.sources[k])
    BY <2>1 DEF SourceNamed
  <2>3. [k \in DOMAIN b.sources |-> SourceNamed(f, b.sources[k])]
           = [k \in DOMAIN d.sources |-> SourceNamed(g, d.sources[k])]
    BY <2>1, <2>2
  <2> QED
    BY <2>1, <2>3 DEF BlockNamed
<1>2. ASSUME BlockNamed(f, b) = BlockNamed(g, d) PROVE BlockMarked(i, b) = BlockMarked(j, d)
  <2> DEFINE s == [k \in DOMAIN b.sources |-> SourceNamed(f, b.sources[k])]
             t == [k \in DOMAIN d.sources |-> SourceNamed(g, d.sources[k])]
  <2>1. /\ NameIn(f.refs, b.ref) = NameIn(g.refs, d.ref)
        /\ NameIn(f.sessions, b.session) = NameIn(g.sessions, d.session)
        /\ b.body = d.body /\ s = t
    BY <1>2 DEF BlockNamed
  <2>2. /\ DOMAIN s = DOMAIN b.sources /\ DOMAIN t = DOMAIN d.sources
        /\ \A k \in DOMAIN b.sources : s[k] = SourceNamed(f, b.sources[k])
        /\ \A k \in DOMAIN d.sources : t[k] = SourceNamed(g, d.sources[k])
    OBVIOUS
  <2> HIDE DEF s, t
  <2>3. DOMAIN b.sources = DOMAIN d.sources
    BY <2>1, <2>2
  <2>4. \A k \in DOMAIN b.sources : SourceNamed(f, b.sources[k]) = SourceNamed(g, d.sources[k])
    BY <2>1, <2>2, <2>3
  <2>5. \A k \in DOMAIN b.sources :
           /\ b.sources[k].kind = d.sources[k].kind
           /\ NameIn(f.actors, ActorOf(b.sources[k])) = NameIn(g.actors, ActorOf(d.sources[k]))
           /\ NameIn(f.sources, b.sources[k].ref) = NameIn(g.sources, d.sources[k].ref)
    BY <2>4 DEF SourceNamed
  <2>6. /\ Markers(i)[b.ref] = Markers(j)[d.ref] /\ SessionMarkers(i)[b.session] = SessionMarkers(j)[d.session]
        /\ \A k \in DOMAIN b.sources :
              /\ b.sources[k].kind = d.sources[k].kind
              /\ ActorMarkers(i)[ActorOf(b.sources[k])] = ActorMarkers(j)[ActorOf(d.sources[k])]
              /\ SourceMarkers(i)[b.sources[k].ref] = SourceMarkers(j)[d.sources[k].ref]
    BY <2>1, <2>3, <2>5
  <2> QED
    BY <2>1, <2>3, <2>6, BlockOfParts
<1> QED
  BY <1>1, <1>2

\* The names of the empty renaming are the names themselves.
LEMMA SameNamesAre ==
    \A x : /\ NameIn(SameNames.refs, x) = x /\ NameIn(SameNames.sessions, x) = x
           /\ NameIn(SameNames.sources, x) = x /\ NameIn(SameNames.actors, x) = x
  BY DEF SameNames, NameIn

\* So it is of the blocks of inputs that are the same memory state.
LEMMA BlocksExactly ==
    ASSUME NEW i \in Inputs, NEW j \in Inputs, Canonical(i) = Canonical(j), ~Ambiguous(i), ~Ambiguous(j)
    PROVE  LET f == RenamingOf(i, j) IN
           /\ \A b, d : IsBlock(i, b) /\ IsBlock(i, d) =>
                 (BlockMarked(i, b) = BlockMarked(i, d) <=> BlockNamed(f, b) = BlockNamed(f, d))
           /\ \A b, d : IsBlock(i, b) /\ IsBlock(j, d) =>
                 (BlockMarked(i, b) = BlockMarked(j, d) <=> BlockNamed(f, b) = BlockNamed(SameNames, d))
           /\ \A b, d : IsBlock(j, b) /\ IsBlock(j, d) =>
                 (BlockMarked(j, b) = BlockMarked(j, d) <=> BlockNamed(SameNames, b) = BlockNamed(SameNames, d))
<1> DEFINE f == RenamingOf(i, j)
<1>1. f.refs = RefNames(i, j) /\ f.sessions = SessionNames(i, j) /\ f.sources = SourceNames(i, j) /\ f.actors = ActorNames(i, j)
  BY DEF RenamingOf
<1> HIDE DEF f
<1>2. /\ \A a, b \in Refs(i) : Markers(i)[a] = Markers(i)[b] <=> NameIn(f.refs, a) = NameIn(f.refs, b)
      /\ \A a \in Refs(i), b \in Refs(j) : Markers(i)[a] = Markers(j)[b] <=> NameIn(f.refs, a) = b
      /\ \A a, b \in Refs(j) : Markers(j)[a] = Markers(j)[b] <=> a = b
  BY <1>1, RefsExactly
<1>3. /\ \A a, b \in DOMAIN SessionMarkers(i) :
            SessionMarkers(i)[a] = SessionMarkers(i)[b] <=> NameIn(f.sessions, a) = NameIn(f.sessions, b)
      /\ \A a \in DOMAIN SessionMarkers(i), b \in DOMAIN SessionMarkers(j) :
            SessionMarkers(i)[a] = SessionMarkers(j)[b] <=> NameIn(f.sessions, a) = b
      /\ \A a, b \in DOMAIN SessionMarkers(j) : SessionMarkers(j)[a] = SessionMarkers(j)[b] <=> a = b
  BY <1>1, SessionsExactly
<1>4. /\ \A a, b \in DOMAIN SourceMarkers(i) :
            SourceMarkers(i)[a] = SourceMarkers(i)[b] <=> NameIn(f.sources, a) = NameIn(f.sources, b)
      /\ \A a \in DOMAIN SourceMarkers(i), b \in DOMAIN SourceMarkers(j) :
            SourceMarkers(i)[a] = SourceMarkers(j)[b] <=> NameIn(f.sources, a) = b
      /\ \A a, b \in DOMAIN SourceMarkers(j) : SourceMarkers(j)[a] = SourceMarkers(j)[b] <=> a = b
  BY <1>1, SourcesExactly
<1>5. /\ \A a, b \in DOMAIN ActorMarkers(i) :
            ActorMarkers(i)[a] = ActorMarkers(i)[b] <=> NameIn(f.actors, a) = NameIn(f.actors, b)
      /\ \A a \in DOMAIN ActorMarkers(i), b \in DOMAIN ActorMarkers(j) :
            ActorMarkers(i)[a] = ActorMarkers(j)[b] <=> NameIn(f.actors, a) = b
      /\ \A a, b \in DOMAIN ActorMarkers(j) : ActorMarkers(j)[a] = ActorMarkers(j)[b] <=> a = b
  BY <1>1, ActorsExactly
<1>6. \A x \in {i, j} :
         /\ \A b : IsBlock(x, b) => b.ref \in Refs(x) /\ b.session \in DOMAIN SessionMarkers(x)
         /\ \A b : IsBlock(x, b) => \A k \in DOMAIN b.sources :
               b.sources[k].ref \in DOMAIN SourceMarkers(x) /\ ActorOf(b.sources[k]) \in DOMAIN ActorMarkers(x)
  BY NamedByInput
<1>7. ASSUME NEW b, NEW d, IsBlock(i, b), IsBlock(i, d)
      PROVE  BlockMarked(i, b) = BlockMarked(i, d) <=> BlockNamed(f, b) = BlockNamed(f, d)
  <2>1. Markers(i)[b.ref] = Markers(i)[d.ref] <=> NameIn(f.refs, b.ref) = NameIn(f.refs, d.ref)
    BY <1>2, <1>6, <1>7
  <2>2. SessionMarkers(i)[b.session] = SessionMarkers(i)[d.session]
           <=> NameIn(f.sessions, b.session) = NameIn(f.sessions, d.session)
    BY <1>3, <1>6, <1>7
  <2>3. \A k \in DOMAIN b.sources : k \in DOMAIN d.sources =>
           /\ ActorMarkers(i)[ActorOf(b.sources[k])] = ActorMarkers(i)[ActorOf(d.sources[k])]
                 <=> NameIn(f.actors, ActorOf(b.sources[k])) = NameIn(f.actors, ActorOf(d.sources[k]))
           /\ SourceMarkers(i)[b.sources[k].ref] = SourceMarkers(i)[d.sources[k].ref]
                 <=> NameIn(f.sources, b.sources[k].ref) = NameIn(f.sources, d.sources[k].ref)
    BY <1>4, <1>5, <1>6, <1>7
  <2> QED
    BY <2>1, <2>2, <2>3, BlocksAgree
<1>8. ASSUME NEW b, NEW d, IsBlock(i, b), IsBlock(j, d)
      PROVE  BlockMarked(i, b) = BlockMarked(j, d) <=> BlockNamed(f, b) = BlockNamed(SameNames, d)
  <2>1. Markers(i)[b.ref] = Markers(j)[d.ref] <=> NameIn(f.refs, b.ref) = NameIn(SameNames.refs, d.ref)
    BY <1>2, <1>6, <1>8, SameNamesAre
  <2>2. SessionMarkers(i)[b.session] = SessionMarkers(j)[d.session]
           <=> NameIn(f.sessions, b.session) = NameIn(SameNames.sessions, d.session)
    BY <1>3, <1>6, <1>8, SameNamesAre
  <2>3. \A k \in DOMAIN b.sources : k \in DOMAIN d.sources =>
           /\ ActorMarkers(i)[ActorOf(b.sources[k])] = ActorMarkers(j)[ActorOf(d.sources[k])]
                 <=> NameIn(f.actors, ActorOf(b.sources[k])) = NameIn(SameNames.actors, ActorOf(d.sources[k]))
           /\ SourceMarkers(i)[b.sources[k].ref] = SourceMarkers(j)[d.sources[k].ref]
                 <=> NameIn(f.sources, b.sources[k].ref) = NameIn(SameNames.sources, d.sources[k].ref)
    BY <1>4, <1>5, <1>6, <1>8, SameNamesAre
  <2> QED
    BY <2>1, <2>2, <2>3, BlocksAgree
<1>9. ASSUME NEW b, NEW d, IsBlock(j, b), IsBlock(j, d)
      PROVE  BlockMarked(j, b) = BlockMarked(j, d) <=> BlockNamed(SameNames, b) = BlockNamed(SameNames, d)
  <2>1. Markers(j)[b.ref] = Markers(j)[d.ref] <=> NameIn(SameNames.refs, b.ref) = NameIn(SameNames.refs, d.ref)
    BY <1>2, <1>6, <1>9, SameNamesAre
  <2>2. SessionMarkers(j)[b.session] = SessionMarkers(j)[d.session]
           <=> NameIn(SameNames.sessions, b.session) = NameIn(SameNames.sessions, d.session)
    BY <1>3, <1>6, <1>9, SameNamesAre
  <2>3. \A k \in DOMAIN b.sources : k \in DOMAIN d.sources =>
           /\ ActorMarkers(j)[ActorOf(b.sources[k])] = ActorMarkers(j)[ActorOf(d.sources[k])]
                 <=> NameIn(SameNames.actors, ActorOf(b.sources[k])) = NameIn(SameNames.actors, ActorOf(d.sources[k]))
           /\ SourceMarkers(j)[b.sources[k].ref] = SourceMarkers(j)[d.sources[k].ref]
                 <=> NameIn(SameNames.sources, b.sources[k].ref) = NameIn(SameNames.sources, d.sources[k].ref)
    BY <1>4, <1>5, <1>6, <1>9, SameNamesAre
  <2> QED
    BY <2>1, <2>2, <2>3, BlocksAgree
<1> QED
  BY <1>7, <1>8, <1>9 DEF f

\* The names of a renaming go by the markers.
LEMMA RefsGoByMarker ==
    ASSUME NEW i \in Inputs, NEW j \in Inputs, Canonical(i) = Canonical(j), ~Ambiguous(i), ~Ambiguous(j)
    PROVE  GoesByMarker(Markers(i), Markers(j), RefNames(i, j))
<1> DEFINE f == RefNames(i, j)
<1>1. /\ DOMAIN f = DOMAIN Markers(i)
      /\ \A a \in DOMAIN Markers(i) : f[a] \in DOMAIN Markers(j)
  BY RenamingMatches DEF Refs
<1>2. /\ \A a \in DOMAIN Markers(i), b \in DOMAIN Markers(j) : Markers(i)[a] = Markers(j)[b] <=> NameIn(f, a) = b
      /\ \A a, b \in DOMAIN Markers(i) : Markers(i)[a] = Markers(i)[b] <=> NameIn(f, a) = NameIn(f, b)
      /\ \A a, b \in DOMAIN Markers(j) : Markers(j)[a] = Markers(j)[b] <=> a = b
  BY RefsExactly DEF Refs
<1> HIDE DEF f
<1>3. GoesByMarker(Markers(i), Markers(j), f)
  BY <1>1, <1>2, NoMarkerIsName DEF GoesByMarker
<1> QED
  BY <1>3 DEF f

LEMMA ActorsGoByMarker ==
    ASSUME NEW i \in Inputs, NEW j \in Inputs, Canonical(i) = Canonical(j)
    PROVE  GoesByMarker(ActorMarkers(i), ActorMarkers(j), ActorNames(i, j))
<1> DEFINE from == ActorMarkers(i)
           to == ActorMarkers(j)
           g == ActorNames(i, j)
<1>1. /\ \A a, b \in DOMAIN from : from[a] = from[b] => a = b
      /\ \A a, b \in DOMAIN to : to[a] = to[b] => a = b
      /\ \A a \in DOMAIN from : \E b \in DOMAIN to : to[b] = from[a]
      /\ \A b \in DOMAIN to : \E a \in DOMAIN from : from[a] = to[b]
  BY SortMarkers, SameStateSameSorts
<1>2. /\ \A a \in DOMAIN from : from[a][1] # "name"
      /\ \A a \in DOMAIN to : to[a][1] # "name"
  BY NoMarkerIsName
<1>3. /\ \A a \in DOMAIN from, b \in DOMAIN to : from[a] = to[b] <=> NameIn(g, a) = b
      /\ \A a, b \in DOMAIN from : from[a] = from[b] <=> NameIn(g, a) = NameIn(g, b)
      /\ \A a, b \in DOMAIN to : to[a] = to[b] <=> a = b
  BY ActorsExactly
<1>4. g = Match(from, to)
  BY DEF ActorNames
<1> HIDE DEF from, to, g
<1>5. DOMAIN g = DOMAIN from /\ \A a \in DOMAIN from : g[a] \in DOMAIN to
  BY <1>1, <1>4, MatchIsBijection DEF Match
<1>6. GoesByMarker(from, to, g)
  BY <1>2, <1>3, <1>5 DEF GoesByMarker
<1> QED
  BY <1>6 DEF from, to, g

\* What a line names and is not of its input is not of any other input of the memory state.
LEMMA LineNamesStay ==
    ASSUME NEW i \in Inputs, NEW j \in Inputs, Canonical(i) = Canonical(j), NEW n \in DOMAIN i.lines
    PROVE  /\ i.lines[n].of \in Refs(i) \/ i.lines[n].of \notin Refs(j)
           /\ i.lines[n].ref \in Refs(i) \/ i.lines[n].ref \notin Refs(j)
<1>1. LineMarked(i, i.lines[n]) \in DOMAIN Canonical(j).lines
  BY CanonicalParts
<1>2. PICK k \in DOMAIN j.lines : LineMarked(i, i.lines[n]) = LineMarked(j, j.lines[k])
  BY <1>1, CanonicalParts
<1>3. /\ MarkerOr(Markers(i), i.lines[n].of) = MarkerOr(Markers(j), j.lines[k].of)
      /\ MarkerOr(Markers(i), i.lines[n].ref) = MarkerOr(Markers(j), j.lines[k].ref)
  BY <1>2 DEF LineMarked
<1>4. ASSUME NEW x, NEW y, MarkerOr(Markers(i), x) = MarkerOr(Markers(j), y), x \notin Refs(i)
      PROVE  x \notin Refs(j)
  <2>1. MarkerOr(Markers(i), x) = <<"name", x>>
    BY <1>4 DEF MarkerOr, Refs
  <2>2. y \notin Refs(j)
    BY <1>4, <2>1, NoMarkerIsName DEF MarkerOr, Refs
  <2>3. MarkerOr(Markers(j), y) = <<"name", y>>
    BY <2>2 DEF MarkerOr, Refs
  <2>4. <<"name", x>> = <<"name", y>>
    BY <1>4, <2>1, <2>3
  <2>5. x = y
    BY <2>4
  <2> QED
    BY <2>2, <2>5
<1> QED
  BY <1>3, <1>4

\* So lines are equal with their names exactly if they are with their markers.
LEMMA LinesExactly ==
    ASSUME NEW i \in Inputs, NEW j \in Inputs, Canonical(i) = Canonical(j), ~Ambiguous(i), ~Ambiguous(j)
    PROVE  LET f == RenamingOf(i, j)
               s == i.lines
               t == j.lines
           IN  /\ \A n, k \in DOMAIN s :
                     LineMarked(i, s[n]) = LineMarked(i, s[k]) <=> LineNamed(f, s[n]) = LineNamed(f, s[k])
               /\ \A n \in DOMAIN s, k \in DOMAIN t :
                     LineMarked(i, s[n]) = LineMarked(j, t[k]) <=> LineNamed(f, s[n]) = LineNamed(SameNames, t[k])
               /\ \A n, k \in DOMAIN t :
                     LineMarked(j, t[n]) = LineMarked(j, t[k])
                        <=> LineNamed(SameNames, t[n]) = LineNamed(SameNames, t[k])
<1> DEFINE f == RenamingOf(i, j)
           s == i.lines
           t == j.lines
           from == Markers(i)
           to == Markers(j)
           Stays(x) == x \in DOMAIN from \/ x \notin DOMAIN to
<1>1. f.refs = RefNames(i, j)
  BY DEF RenamingOf
<1> HIDE DEF f
<1>2. GoesByMarker(Markers(i), Markers(j), f.refs)
  BY <1>1, RefsGoByMarker
<1>4. /\ \A a, b : Stays(a) => (MarkerOr(from, a) = MarkerOr(to, b) <=> NameIn(f.refs, a) = b)
      /\ \A a, b : Stays(a) /\ Stays(b) =>
            (MarkerOr(from, a) = MarkerOr(from, b) <=> NameIn(f.refs, a) = NameIn(f.refs, b))
      /\ \A a, b : MarkerOr(to, a) = MarkerOr(to, b) <=> a = b
  BY <1>2, NamedExactly
<1>5. \A n \in DOMAIN s : Stays(s[n].of) /\ Stays(s[n].ref)
  BY LineNamesStay DEF Refs
<1> HIDE DEF Stays, from, to, s, t
<1>6. \A n, k \in DOMAIN s : LineMarked(i, s[n]) = LineMarked(i, s[k]) <=> LineNamed(f, s[n]) = LineNamed(f, s[k])
  BY <1>4, <1>5 DEF LineMarked, LineNamed, from
<1>7. \A n \in DOMAIN s, k \in DOMAIN t :
         LineMarked(i, s[n]) = LineMarked(j, t[k]) <=> LineNamed(f, s[n]) = LineNamed(SameNames, t[k])
  BY <1>4, <1>5, SameNamesAre DEF LineMarked, LineNamed, from, to
<1>8. \A n, k \in DOMAIN t :
         LineMarked(j, t[n]) = LineMarked(j, t[k]) <=> LineNamed(SameNames, t[n]) = LineNamed(SameNames, t[k])
  BY <1>4, SameNamesAre DEF LineMarked, LineNamed, to
<1> QED
  BY <1>6, <1>7, <1>8 DEF f, s, t

\* A renamed input, by its parts.
LEMMA RenamedParts ==
    ASSUME NEW i, NEW f
    PROVE  Renamed(i, f) =
              [lines   |-> BagOf([n \in DOMAIN i.lines |-> LineNamed(f, i.lines[n])]),
               mems    |-> BagOf([n \in DOMAIN i.mems |-> <<NameIn(f.refs, i.mems[n].ref), i.mems[n].text>>]),
               eps     |-> [n \in DOMAIN i.eps |-> BlockNamed(f, i.eps[n])],
               related |-> BagOf([n \in DOMAIN i.related |-> BlockNamed(f, i.related[n])]),
               outs    |-> [n \in DOMAIN i.outs |->
                               <<NameIn(f.refs, i.outs[n].ref), NameIn(f.refs, i.outs[n].episode),
                                 NameIn(f.actors, ActorOf(i.outs[n])), i.outs[n].text>>]]
  BY DEF Renamed, LineNamed, BlockNamed, SourceNamed

\* An input, renamed, is any other input of its memory state.
LEMMA RenamedState ==
    ASSUME NEW i \in Inputs, NEW j \in Inputs, Canonical(i) = Canonical(j), ~Ambiguous(i), ~Ambiguous(j)
    PROVE  Renamed(i, RenamingOf(i, j)) = Renamed(j, SameNames)
<1> DEFINE f == RenamingOf(i, j)
<1>1. f.refs = RefNames(i, j) /\ f.actors = ActorNames(i, j)
  BY DEF RenamingOf
<1> HIDE DEF f
<1>2. [n \in DOMAIN i.eps |-> BlockNamed(f, i.eps[n])] = [n \in DOMAIN j.eps |-> BlockNamed(SameNames, j.eps[n])]
  <2>1. DOMAIN i.eps = DOMAIN j.eps
    BY CanonicalElements
  <2>2. ASSUME NEW n \in DOMAIN i.eps PROVE BlockNamed(f, i.eps[n]) = BlockNamed(SameNames, j.eps[n])
    <3>1. BlockMarked(i, i.eps[n]) = BlockMarked(j, j.eps[n])
      BY <2>1, CanonicalElements
    <3>2. IsBlock(i, i.eps[n]) /\ IsBlock(j, j.eps[n])
      BY <2>1 DEF IsBlock
    <3> QED
      BY <3>1, <3>2, BlocksExactly DEF f
  <2> QED
    BY <2>1, <2>2
<1>3. [n \in DOMAIN i.outs |-> <<NameIn(f.refs, i.outs[n].ref), NameIn(f.refs, i.outs[n].episode),
                                 NameIn(f.actors, ActorOf(i.outs[n])), i.outs[n].text>>]
         = [n \in DOMAIN j.outs |-> <<NameIn(SameNames.refs, j.outs[n].ref), NameIn(SameNames.refs, j.outs[n].episode),
                                      NameIn(SameNames.actors, ActorOf(j.outs[n])), j.outs[n].text>>]
  <2>1. DOMAIN i.outs = DOMAIN j.outs
    BY CanonicalElements
  <2>2. \A a, b : MarkerOr(Markers(i), a) = MarkerOr(Markers(j), b) => NameIn(f.refs, a) = b
    <3>1. GoesByMarker(Markers(i), Markers(j), f.refs)
      BY <1>1, RefsGoByMarker
    <3> QED
      BY <3>1, NamedExactly
  <2>3. \A a, b : MarkerOr(ActorMarkers(i), a) = MarkerOr(ActorMarkers(j), b) => NameIn(f.actors, a) = b
    <3>1. GoesByMarker(ActorMarkers(i), ActorMarkers(j), f.actors)
      BY <1>1, ActorsGoByMarker
    <3> QED
      BY <3>1, NamedExactly
  <2>4. ASSUME NEW n \in DOMAIN i.outs
        PROVE  /\ NameIn(f.refs, i.outs[n].ref) = NameIn(SameNames.refs, j.outs[n].ref)
               /\ NameIn(f.refs, i.outs[n].episode) = NameIn(SameNames.refs, j.outs[n].episode)
               /\ NameIn(f.actors, ActorOf(i.outs[n])) = NameIn(SameNames.actors, ActorOf(j.outs[n]))
               /\ i.outs[n].text = j.outs[n].text
    <3>1. /\ Markers(i)[i.outs[n].ref] = Markers(j)[j.outs[n].ref]
          /\ MarkerOr(Markers(i), i.outs[n].episode) = MarkerOr(Markers(j), j.outs[n].episode)
          /\ MarkerOr(ActorMarkers(i), ActorOf(i.outs[n])) = MarkerOr(ActorMarkers(j), ActorOf(j.outs[n]))
          /\ i.outs[n].text = j.outs[n].text
      BY <2>1, CanonicalElements
    <3>2. NameIn(f.refs, i.outs[n].ref) = j.outs[n].ref
      BY <1>1, <2>1, <3>1, NamedByInput, RefsExactly
    <3> QED
      BY <2>2, <2>3, <3>1, <3>2, SameNamesAre
  <2> QED
    BY <2>1, <2>4
<1>4. BagOf([n \in DOMAIN i.related |-> BlockNamed(f, i.related[n])])
         = BagOf([n \in DOMAIN j.related |-> BlockNamed(SameNames, j.related[n])])
  <2> DEFINE s == [n \in DOMAIN i.related |-> BlockMarked(i, i.related[n])]
             t == [n \in DOMAIN j.related |-> BlockMarked(j, j.related[n])]
             u == [n \in DOMAIN i.related |-> BlockNamed(f, i.related[n])]
             v == [n \in DOMAIN j.related |-> BlockNamed(SameNames, j.related[n])]
  <2>1. BagOf(s) = BagOf(t)
    BY CanonicalBags
  <2>2. /\ \A n \in DOMAIN i.related : IsBlock(i, i.related[n])
        /\ \A n \in DOMAIN j.related : IsBlock(j, j.related[n])
    BY DEF IsBlock
  <2>3. /\ \A n, k \in DOMAIN i.related : s[n] = s[k] <=> u[n] = u[k]
        /\ \A n \in DOMAIN i.related, k \in DOMAIN j.related : s[n] = t[k] <=> u[n] = v[k]
        /\ \A n, k \in DOMAIN j.related : t[n] = t[k] <=> v[n] = v[k]
    BY <2>2, BlocksExactly DEF f
  <2>4. /\ DOMAIN s = DOMAIN i.related /\ DOMAIN u = DOMAIN i.related
        /\ DOMAIN t = DOMAIN j.related /\ DOMAIN v = DOMAIN j.related
    OBVIOUS
  <2> HIDE DEF s, t, u, v
  <2>5. BagOf(u) = BagOf(v)
    BY <2>1, <2>3, <2>4, SameBags
  <2> QED
    BY <2>5 DEF u, v
<1>5. BagOf([n \in DOMAIN i.mems |-> <<NameIn(f.refs, i.mems[n].ref), i.mems[n].text>>])
         = BagOf([n \in DOMAIN j.mems |-> <<NameIn(SameNames.refs, j.mems[n].ref), j.mems[n].text>>])
  <2> DEFINE s == [n \in DOMAIN i.mems |-> <<Markers(i)[i.mems[n].ref], i.mems[n].text>>]
             t == [n \in DOMAIN j.mems |-> <<Markers(j)[j.mems[n].ref], j.mems[n].text>>]
             u == [n \in DOMAIN i.mems |-> <<NameIn(f.refs, i.mems[n].ref), i.mems[n].text>>]
             v == [n \in DOMAIN j.mems |-> <<NameIn(SameNames.refs, j.mems[n].ref), j.mems[n].text>>]
  <2>1. BagOf(s) = BagOf(t)
    BY CanonicalBags
  <2>2. /\ \A n, k \in DOMAIN i.mems : Markers(i)[i.mems[n].ref] = Markers(i)[i.mems[k].ref]
              <=> NameIn(f.refs, i.mems[n].ref) = NameIn(f.refs, i.mems[k].ref)
        /\ \A n \in DOMAIN i.mems, k \in DOMAIN j.mems : Markers(i)[i.mems[n].ref] = Markers(j)[j.mems[k].ref]
              <=> NameIn(f.refs, i.mems[n].ref) = NameIn(SameNames.refs, j.mems[k].ref)
        /\ \A n, k \in DOMAIN j.mems : Markers(j)[j.mems[n].ref] = Markers(j)[j.mems[k].ref]
              <=> NameIn(SameNames.refs, j.mems[n].ref) = NameIn(SameNames.refs, j.mems[k].ref)
    BY <1>1, NamedByInput, RefsExactly, SameNamesAre
  <2>3. /\ \A n, k \in DOMAIN i.mems : s[n] = s[k] <=> u[n] = u[k]
        /\ \A n \in DOMAIN i.mems, k \in DOMAIN j.mems : s[n] = t[k] <=> u[n] = v[k]
        /\ \A n, k \in DOMAIN j.mems : t[n] = t[k] <=> v[n] = v[k]
    BY <2>2
  <2>4. /\ DOMAIN s = DOMAIN i.mems /\ DOMAIN u = DOMAIN i.mems
        /\ DOMAIN t = DOMAIN j.mems /\ DOMAIN v = DOMAIN j.mems
    OBVIOUS
  <2> HIDE DEF s, t, u, v
  <2>5. BagOf(u) = BagOf(v)
    BY <2>1, <2>3, <2>4, SameBags
  <2> QED
    BY <2>5 DEF u, v
<1>6. BagOf([n \in DOMAIN i.lines |-> LineNamed(f, i.lines[n])])
         = BagOf([n \in DOMAIN j.lines |-> LineNamed(SameNames, j.lines[n])])
  <2> DEFINE s == [n \in DOMAIN i.lines |-> LineMarked(i, i.lines[n])]
             t == [n \in DOMAIN j.lines |-> LineMarked(j, j.lines[n])]
             u == [n \in DOMAIN i.lines |-> LineNamed(f, i.lines[n])]
             v == [n \in DOMAIN j.lines |-> LineNamed(SameNames, j.lines[n])]
  <2>1. BagOf(s) = BagOf(t)
    BY CanonicalBags
  <2>2. /\ \A n, k \in DOMAIN i.lines : s[n] = s[k] <=> u[n] = u[k]
        /\ \A n \in DOMAIN i.lines, k \in DOMAIN j.lines : s[n] = t[k] <=> u[n] = v[k]
        /\ \A n, k \in DOMAIN j.lines : t[n] = t[k] <=> v[n] = v[k]
    BY LinesExactly DEF f
  <2>3. /\ DOMAIN s = DOMAIN i.lines /\ DOMAIN u = DOMAIN i.lines
        /\ DOMAIN t = DOMAIN j.lines /\ DOMAIN v = DOMAIN j.lines
    OBVIOUS
  <2> HIDE DEF s, t, u, v
  <2>4. BagOf(u) = BagOf(v)
    BY <2>1, <2>2, <2>3, SameBags
  <2> QED
    BY <2>4 DEF u, v
<1>7. Renamed(i, f) = Renamed(j, SameNames)
  BY <1>2, <1>3, <1>4, <1>5, <1>6, RenamedParts
<1> QED
  BY <1>7 DEF f

\* What is restored of an answer is the answer, renamed.
LEMMA RestoredIs ==
    ASSUME NEW i \in Inputs, NEW j \in Inputs, Canonical(i) = Canonical(j), ~Ambiguous(i), ~Ambiguous(j),
           NEW output, Answers(output), ~Unknown(i, output)
    PROVE  RenamedOutput(output, RenamingOf(i, j)) = Restored(j, CanonicalOutput(i, output))
<1> DEFINE f == RefNames(i, j)
           c == CanonicalOutput(i, output)
<1>1. \A a \in Refs(i) : f[a] \in Refs(j) /\ Markers(j)[f[a]] = Markers(i)[a]
  BY RenamingMatches
<1>2. /\ DOMAIN c = DOMAIN output
      /\ \A n \in DOMAIN output :
            c[n] = IF output[n][1] = "ref" THEN <<"marker", Markers(i)[output[n][2]]>> ELSE output[n]
  BY DEF CanonicalOutput
<1>3. RenamedOutput(output, RenamingOf(i, j)) =
         [n \in DOMAIN output |-> IF output[n][1] = "ref" THEN <<"ref", f[output[n][2]]>> ELSE output[n]]
  BY DEF RenamedOutput, RenamingOf
<1>4. Restored(j, c) =
         [n \in DOMAIN c |->
             IF c[n][1] = "marker" THEN <<"ref", CHOOSE r \in Refs(j) : Markers(j)[r] = c[n][2]>> ELSE c[n]]
  BY DEF Restored, Refs
<1> HIDE DEF f, c
<1>5. ASSUME NEW n \in DOMAIN output
      PROVE  (IF output[n][1] = "ref" THEN <<"ref", f[output[n][2]]>> ELSE output[n])
                = (IF c[n][1] = "marker" THEN <<"ref", CHOOSE r \in Refs(j) : Markers(j)[r] = c[n][2]>> ELSE c[n])
  <2>1. CASE output[n][1] = "ref"
    <3>1. output[n][2] \in Refs(i)
      BY <2>1 DEF Unknown
    <3>2. c[n][1] = "marker" /\ c[n][2] = Markers(i)[output[n][2]]
      BY <1>2, <2>1
    <3> DEFINE q == CHOOSE r \in Refs(j) : Markers(j)[r] = c[n][2]
    <3>3. f[output[n][2]] \in Refs(j) /\ Markers(j)[f[output[n][2]]] = c[n][2]
      BY <1>1, <3>1, <3>2
    <3>4. q \in Refs(j) /\ Markers(j)[q] = c[n][2]
      BY <3>3
    <3> HIDE DEF q
    <3>5. q = f[output[n][2]]
      BY <3>3, <3>4, MarkersOfInput
    <3> QED
      BY <2>1, <3>2, <3>5 DEF q
  <2>2. CASE output[n][1] # "ref"
    BY <1>2, <2>2 DEF Answers
  <2> QED
    BY <2>1, <2>2
<1>6. RenamedOutput(output, RenamingOf(i, j)) = Restored(j, c)
  BY <1>2, <1>3, <1>4, <1>5
<1> QED
  BY <1>6 DEF c

-----------------------------------------------------------------------------
(* The origin of an answer *)

\* A call that asked the provider, in this state, and got this answer.
HasOrigin(state, canonical) ==
    \E o \in returned :
        /\ o.match = "none" /\ o.input \in Inputs /\ ~Ambiguous(o.input)
        /\ Answers(o.output) /\ ~Unknown(o.input, o.output)
        /\ Canonical(o.input) = state /\ CanonicalOutput(o.input, o.output) = canonical

\* Every answer that a process has, from its own calls or from the log, has one.
OriginInv ==
    /\ \A s \in DOMAIN semantic : HasOrigin(s, semantic[s])
    /\ \A r \in returned :
          /\ r.input \in Inputs /\ ~Ambiguous(r.input)
          /\ HasOrigin(Canonical(r.input), CanonicalOutput(r.input, r.output))
          /\ r.match = "semantic" => r.output = Restored(r.input, CanonicalOutput(r.input, r.output))

LEMMA OriginKept ==
    ASSUME returned \subseteq returned', NEW s, NEW canonical, HasOrigin(s, canonical)
    PROVE  HasOrigin(s, canonical)'
  BY DEF HasOrigin

LEMMA OriginInit == ReplayInit => OriginInv
  BY DEF ReplayInit, OriginInv

\* Another answer of an origin there is.
LEMMA OriginStep ==
    ASSUME OriginInv, NEW input \in Inputs, ~Ambiguous(input), NEW output, NEW match,
           Return(input, output, match), UNCHANGED semantic,
           HasOrigin(Canonical(input), CanonicalOutput(input, output)),
           match = "semantic" => output = Restored(input, CanonicalOutput(input, output))
    PROVE  OriginInv'
<1> DEFINE new == [input |-> input, output |-> output, match |-> match, start |-> starts]
<1>1. returned' = returned \cup {new}
  BY DEF Return
<1>2. new.input = input /\ new.output = output /\ new.match = match
  OBVIOUS
<1> HIDE DEF new
<1>3. returned \subseteq returned'
  BY <1>1
<1>4. \A s \in DOMAIN semantic' : HasOrigin(s, semantic[s])'
  BY <1>3, OriginKept DEF OriginInv
<1>5. ASSUME NEW r \in returned'
      PROVE  /\ r.input \in Inputs /\ ~Ambiguous(r.input)
             /\ HasOrigin(Canonical(r.input), CanonicalOutput(r.input, r.output))'
             /\ r.match = "semantic" => r.output = Restored(r.input, CanonicalOutput(r.input, r.output))
  <2>1. CASE r \in returned
    BY <1>3, <2>1, OriginKept DEF OriginInv
  <2>2. CASE r = new
    BY <1>2, <1>3, <2>2, OriginKept
  <2> QED
    BY <1>1, <2>1, <2>2
<1> QED
  BY <1>4, <1>5 DEF OriginInv

LEMMA OriginNext == ReplayIInv /\ OriginInv /\ [ReplayNext]_replayVars => OriginInv'
<1> SUFFICES ASSUME ReplayIInv, OriginInv, [ReplayNext]_replayVars PROVE OriginInv'
  OBVIOUS
<1>0. CallsOK /\ LogOK /\ SemanticOK /\ ReplayOK
  BY DEF ReplayIInv
<1>1. CASE UNCHANGED <<semantic, returned>>
  BY <1>1 DEF OriginInv, HasOrigin
<1>2. ASSUME NEW c \in Callers, NEW input \in Inputs, Receive(c, input) PROVE OriginInv'
  <2>1. ~Ambiguous(input) /\ UNCHANGED semantic
    BY <1>2 DEF Receive
  <2>2. CASE input \in DOMAIN replay
    <3>1. Return(input, replay[input], "exact")
      BY <1>2, <2>2 DEF Receive
    <3>2. HasOrigin(Canonical(input), CanonicalOutput(input, replay[input]))
      BY <1>0, <2>2 DEF ReplayOK, Agrees, OriginInv
    <3> QED
      BY <2>1, <3>1, <3>2, OriginStep
  <2>3. CASE input \notin DOMAIN replay /\ Canonical(input) \in DOMAIN semantic
    <3> DEFINE o == Restored(input, semantic[Canonical(input)])
    <3>1. Return(input, o, "semantic")
      BY <1>2, <2>3 DEF Receive
    <3>2. PICK r \in returned : /\ r.input \in Inputs /\ Answers(r.output) /\ ~Unknown(r.input, r.output)
                                /\ Canonical(r.input) = Canonical(input)
                                /\ CanonicalOutput(r.input, r.output) = semantic[Canonical(input)]
      BY <2>3 DEF OriginInv, HasOrigin
    <3>3. CanonicalOutput(input, o) = semantic[Canonical(input)]
      BY <3>2, RestoredAgrees
    <3>4. o = Restored(input, CanonicalOutput(input, o))
      BY <3>3
    <3>5. HasOrigin(Canonical(input), CanonicalOutput(input, o))
      BY <2>3, <3>3 DEF OriginInv
    <3> HIDE DEF o
    <3> QED
      BY <2>1, <3>1, <3>4, <3>5, OriginStep
  <2>4. CASE input \notin DOMAIN replay /\ Canonical(input) \notin DOMAIN semantic
    <3>1. UNCHANGED returned
      BY <1>2, <2>4 DEF Receive
    <3> QED
      BY <1>1, <2>1, <3>1
  <2> QED
    BY <2>2, <2>3, <2>4
<1>3. ASSUME NEW c \in Callers, NEW output, Reply(c, output) PROVE OriginInv'
  <2> PICK input : input = calls[c]
    OBVIOUS
  <2>1. /\ input # Nothing /\ output \in Outputs(input) /\ input \in Inputs /\ ~Ambiguous(input)
    BY <1>0, <1>3 DEF Reply, CallsOK
  <2>2. CASE Unknown(input, output) \/ Conflicts(input, output)
    <3>1. UNCHANGED <<semantic, returned>>
      BY <1>3, <2>2 DEF Reply
    <3> QED
      BY <1>1, <3>1
  <2>3. CASE ~(Unknown(input, output) \/ Conflicts(input, output))
    <3> DEFINE new == [input |-> input, output |-> output, match |-> "none", start |-> starts]
    <3>1. /\ returned' = returned \cup {new}
          /\ semantic' = With(semantic, Canonical(input), CanonicalOutput(input, output))
      BY <1>3, <2>3 DEF Reply, Return
    <3>2. new.input = input /\ new.output = output /\ new.match = "none"
      OBVIOUS
    <3> HIDE DEF new
    <3>3. Answers(output)
      BY <2>1, OutputsWellFormed DEF Answers
    <3>4. HasOrigin(Canonical(input), CanonicalOutput(input, output))'
      BY <2>1, <2>3, <3>1, <3>2, <3>3 DEF HasOrigin
    <3>5. returned \subseteq returned'
      BY <3>1
    <3>6. \A s \in DOMAIN semantic' : HasOrigin(s, semantic[s])'
      <4>1. \A s \in DOMAIN semantic' : \/ s = Canonical(input) /\ semantic'[s] = CanonicalOutput(input, output)
                                        \/ s \in DOMAIN semantic /\ semantic'[s] = semantic[s]
        BY <3>1 DEF With
      <4> QED
        BY <3>4, <3>5, <4>1, OriginKept DEF OriginInv
    <3>7. ASSUME NEW r \in returned'
          PROVE  /\ r.input \in Inputs /\ ~Ambiguous(r.input)
                 /\ HasOrigin(Canonical(r.input), CanonicalOutput(r.input, r.output))'
                 /\ r.match = "semantic" => r.output = Restored(r.input, CanonicalOutput(r.input, r.output))
      <4>1. CASE r \in returned
        BY <3>5, <4>1, OriginKept DEF OriginInv
      <4>2. CASE r = new
        BY <2>1, <3>2, <3>4, <4>2
      <4> QED
        BY <3>1, <4>1, <4>2
    <3> QED
      BY <3>6, <3>7 DEF OriginInv
  <2> QED
    BY <2>2, <2>3
<1>4. ASSUME Start PROVE OriginInv'
  <2>1. UNCHANGED returned
    BY <1>4 DEF Start
  <2>2. ASSUME NEW s \in DOMAIN semantic' PROVE HasOrigin(s, semantic'[s])
    <3>1. PICK n \in Loaded : /\ Canonical(log[n].input) = s
                              /\ semantic'[s] = CanonicalOutput(log[n].input, log[n].output)
                              /\ WasReturned(log[n].input, log[n].output)
      BY <1>0, <1>4, StartLoads
    <3> QED
      BY <3>1 DEF OriginInv, WasReturned
  <2> QED
    BY <2>1, <2>2 DEF OriginInv, HasOrigin
<1>5. ASSUME NEW c \in Callers, Cancel(c) PROVE OriginInv'
  BY <1>1, <1>5 DEF Cancel
<1>6. ASSUME Stop PROVE OriginInv'
  BY <1>1, <1>6 DEF Stop
<1> QED
  BY <1>1, <1>2, <1>3, <1>4, <1>5, <1>6 DEF ReplayNext, replayVars

LEMMA OriginInvariant == ReplaySpec => [](ReplayIInv /\ OriginInv)
<1> QED
  BY ReplayInvInit, ReplayInvNext, OriginInit, OriginNext, PTL DEF ReplaySpec

-----------------------------------------------------------------------------
(* Theorems *)

\* In one process a memory state has one answer, whoever asks for it, under whichever
\* identities and however the calls overlap, and what a later process replays is what a
\* call returned, never an answer that was refused (RecordingWorkerModel.complete,
\* load_worker_replay).
THEOREM ReplayIsConsistent == ReplaySpec => []ReplayInv
<1>1. ReplayIInv => ReplayInv
  <2> SUFFICES ASSUME ReplayIInv PROVE ReplayInv
    OBVIOUS
  <2>0. CallsOK /\ LogOK /\ ReplayOK /\ ReturnedOK /\ OneAnswerPerState
    BY DEF ReplayIInv
  <2>1. Len(log) <= MaxCalls
    BY <2>0, PendingFacts, LenProperties, ReplayBounds DEF CallsOK, LogOK
  <2>2. ASSUME NEW c \in Callers, calls[c] # Nothing, NEW n \in DOMAIN calls[c].mems, NEW k \in DOMAIN calls[c].mems,
               calls[c].mems[n].text = calls[c].mems[k].text
        PROVE  calls[c].mems[n].ref = calls[c].mems[k].ref
    <3>1. calls[c] \in Inputs /\ ~Ambiguous(calls[c])
      BY <2>0, <2>2 DEF CallsOK
    <3> QED
      BY <2>2, <3>1 DEF Ambiguous
  <2>3. ReplayTypeOK
    <3>1. \A x \in 1 .. starts : x <= starts
      BY <2>0, ReplayBounds DEF CallsOK
    <3> QED
      BY <2>0, <2>1, <2>2, <3>1 DEF ReplayTypeOK, CallsOK, ReturnedOK
  <2>4. OnlyCompletedReplayed
    BY <2>0 DEF OnlyCompletedReplayed, ReplayOK, WasReturned
  <2> QED
    BY <2>0, <2>3, <2>4 DEF ReplayInv
<1> QED
  BY <1>1, ReplayInvariant, PTL

\* A semantic hit is an answer that the provider has given to the same window under other
\* names, with its refs renamed accordingly: equal canonical texts are one window up to a
\* renaming of each sort of identity, of refs, sessions, sources and actors (_canonicalize_semantic_memory_state,
\* _canonicalize_evidence_state, _restore_opaque_memory_refs).
THEOREM HitsAreRenamings == ReplaySpec => []RestoredIsRenaming
<1>1. ReplayIInv /\ OriginInv => RestoredIsRenaming
  <2> SUFFICES ASSUME OriginInv, NEW hit \in returned, hit.match = "semantic"
               PROVE  \E origin \in {r \in returned : r.match = "none"} :
                          \E f \in Renamings(Sorts(origin.input), Sorts(hit.input)) :
                              /\ Renamed(origin.input, f) = Renamed(hit.input, SameNames)
                              /\ RenamedOutput(origin.output, f) = hit.output
    BY DEF RestoredIsRenaming
  <2>1. /\ hit.input \in Inputs /\ ~Ambiguous(hit.input)
        /\ hit.output = Restored(hit.input, CanonicalOutput(hit.input, hit.output))
        /\ HasOrigin(Canonical(hit.input), CanonicalOutput(hit.input, hit.output))
    BY DEF OriginInv
  <2>2. PICK o \in returned : /\ o.match = "none" /\ o.input \in Inputs /\ ~Ambiguous(o.input)
                              /\ Answers(o.output) /\ ~Unknown(o.input, o.output)
                              /\ Canonical(o.input) = Canonical(hit.input)
                              /\ CanonicalOutput(o.input, o.output) = CanonicalOutput(hit.input, hit.output)
    BY <2>1 DEF HasOrigin
  <2> DEFINE f == RenamingOf(o.input, hit.input)
  <2>3. f \in Renamings(Sorts(o.input), Sorts(hit.input))
    BY <2>1, <2>2, RenamingMatches
  <2>4. Renamed(o.input, f) = Renamed(hit.input, SameNames)
    BY <2>1, <2>2, RenamedState
  <2>5. RenamedOutput(o.output, f) = hit.output
    BY <2>1, <2>2, RestoredIs
  <2> HIDE DEF f
  <2> QED
    BY <2>2, <2>3, <2>4, <2>5
<1> QED
  BY <1>1, OriginInvariant, PTL

=============================================================================
