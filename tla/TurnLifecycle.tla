---------------------------- MODULE TurnLifecycle ----------------------------
(***************************************************************************)
(* One Agent turn as the Python SDK sequences it: observe the situation,   *)
(* select memory, render it under a token budget, record the delivery, run *)
(* the model, observe the AgentAct, report the Outcome                     *)
(* (sdk/python/src/memory_core, sdk/python/examples).                      *)
(*                                                                         *)
(* Every RPC goes through AsyncMemoryClient: it may time out while its     *)
(* request is still on the way or already applied, and the Harness then    *)
(* runs the whole turn again with the same stable identities.  Core is     *)
(* given by what its four handlers promise for one run.                    *)
(***************************************************************************)
EXTENDS Rendering

CONSTANTS
    Memories,       \* the sets of items Core may select from, as sequences
    Outputs,        \* what the Agent may say
    MaxAttempts     \* bound: runs of the turn by the Harness

ASSUME TurnAssumption == MaxAttempts \in Nat \ {0}

\* The items of a context are in the order of its sections.
ASSUME ContextsAreSequences ==
    \A items \in Memories : Len(items) \in Nat /\ DOMAIN items = 1 .. Len(items)

\* No context and no delivery receipt are told from every one there is.
ASSUME NoneIsFresh ==
    None \notin Memories /\ \A items \in Memories : Refs(Render(items)) # None

VARIABLES
    pc,         \* where the Harness is in the turn
    attempt,
    context,    \* the MemoryContext of this attempt
    shown,      \* what the model was given in this attempt
    output,     \* final_output of this attempt
    receipt,    \* delivery_receipt of this attempt
    closed,     \* the client is closed
    net,        \* requests on their way to Core
    memory,     \* what Core would select now
    core,       \* Core's record of the run
    runs        \* history: <<what the model saw, what it said>>

turnVars == <<pc, attempt, context, shown, output, receipt, closed, net, memory, core, runs>>

-----------------------------------------------------------------------------
(***************************************************************************)
(* AsyncMemoryClient._call: a closed client raises, otherwise the request  *)
(* leaves with a fresh token and the bounded timeout.                      *)
(***************************************************************************)
Send(call, body) ==
    /\ ~closed
    /\ net' = net \cup {[call |-> call, body |-> body, attempt |-> attempt]}

\* The Harness waits for the answer to a request of this attempt.
Awaits(q) == pc = q.call /\ q.attempt = attempt

\* The answer arrives, or it is lost, or nobody waits for it any more.
Answered(q, next, newContext, newReceipt) ==
    \/ Awaits(q) /\ pc' = next /\ context' = newContext /\ receipt' = newReceipt
    \/ UNCHANGED <<pc, context, receipt>>

Idle == UNCHANGED <<attempt, shown, output, closed, memory, runs>>

\* Core: the same source event again is a replay.
CoreObserveSituation(q) ==
    /\ q.call = "situation"
    /\ core' = [core EXCEPT !.situation = TRUE]
    /\ Answered(q, "selecting", context, receipt)

\* Variant: a context is selected anew for every request.
CoreSelectAnew(q) ==
    /\ q.call = "select"
    /\ core' = [core EXCEPT !.context = memory]
    /\ Answered(q, "rendering", memory, receipt)

\* Core: the first selection of a run freezes its context.
CoreSelect(q) ==
    LET frozen == IF core.context = None THEN memory ELSE core.context IN
    /\ q.call = "select"
    /\ core' = [core EXCEPT !.context = frozen]
    /\ Answered(q, "rendering", frozen, receipt)

DeliveryAccepted(q) ==
    \/ core.delivery = q.body
    \/ core.delivery = None /\ core.act = None

\* Core: a replay, or a new delivery while the run has no AgentAct.
CoreRecordDelivery(q) ==
    /\ q.call = "delivery"
    /\ IF DeliveryAccepted(q)
       THEN /\ core' = [core EXCEPT !.delivery = q.body]
            /\ Answered(q, "running", context, q.body)
       ELSE /\ Answered(q, "failed", context, receipt)
            /\ UNCHANGED core

\* Core: one AgentAct per idempotency key; another text conflicts.
CoreObserveAct(q) ==
    /\ q.call = "act"
    /\ IF core.act \in {None, q.body}
       THEN /\ core' = [core EXCEPT !.act = q.body]
            /\ Answered(q, "returned", context, receipt)
       ELSE /\ Answered(q, "failed", context, receipt)
            /\ UNCHANGED core

\* Core: an Outcome names the delivery receipt it belongs to.
CoreReportOutcome(q) ==
    /\ q.call = "outcome"
    /\ IF core.outcome \in {<<>>, <<q.body>>} /\ q.body \in {None, core.delivery}
       THEN /\ core' = [core EXCEPT !.outcome = <<q.body>>]
            /\ Answered(q, "done", context, receipt)
       ELSE /\ Answered(q, "failed", context, receipt)
            /\ UNCHANGED core

CoreHandles(q) ==
    /\ q \in net
    /\ net' = net \ {q}
    /\ \/ CoreObserveSituation(q) \/ CoreSelect(q) \/ CoreRecordDelivery(q)
       \/ CoreObserveAct(q) \/ CoreReportOutcome(q)
    /\ Idle

\* Core's memory goes on changing.
Learn ==
    /\ memory' \in Memories \ {memory}
    /\ UNCHANGED <<pc, attempt, context, shown, output, receipt, closed, net, core, runs>>

-----------------------------------------------------------------------------
(***************************************************************************)
(* The turn.                                                               *)
(***************************************************************************)
Calls(from, call, body) ==
    /\ pc = from
    /\ Send(call, body)
    /\ pc' = call
    /\ UNCHANGED <<attempt, context, shown, output, receipt, closed, memory, core, runs>>

ObserveSituation == Calls("start", "situation", None)
SelectMemory == Calls("selecting", "select", None)
ObserveAct == Calls("acted", "act", output)
ReportOutcome == Calls("returned", "outcome", receipt)

\* Nothing to show: the model gets the user's text alone and nothing is recorded.
RenderNothing ==
    /\ pc = "rendering"
    /\ Renderable(context) /\ Render(context) = <<>>
    /\ shown' = <<>>
    /\ pc' = "running"
    /\ UNCHANGED <<attempt, context, output, receipt, closed, net, memory, core, runs>>

\* The delivery is recorded before the model sees the memory.
RenderAndDeliver ==
    /\ pc = "rendering"
    /\ Renderable(context) /\ Render(context) # <<>>
    /\ shown' = Refs(Render(context))
    /\ Send("delivery", Refs(Render(context)))
    /\ pc' = "delivery"
    /\ UNCHANGED <<attempt, context, output, receipt, closed, memory, core, runs>>

\* The renderer raises on a context it cannot show exactly.
RenderFails ==
    /\ pc = "rendering"
    /\ ~Renderable(context)
    /\ pc' = "failed"
    /\ UNCHANGED <<attempt, context, shown, output, receipt, closed, net, memory, core, runs>>

RunModel ==
    /\ pc = "running"
    /\ \E text \in Outputs :
          /\ output' = text
          /\ runs' = runs \cup {<<shown, text>>}
          /\ pc' = IF text = None THEN "failed" ELSE "acted"   \* blank output raises
    /\ UNCHANGED <<attempt, context, shown, receipt, closed, net, memory, core>>

Awaiting == {"situation", "select", "delivery", "act", "outcome"}

\* Variant: a delivery that times out does not stop the turn.
TimeoutOrGoOn ==
    /\ pc \in Awaiting
    /\ pc' = IF pc = "delivery" THEN "running" ELSE "failed"
    /\ net' \in {net, {q \in net : ~Awaits(q)}}
    /\ UNCHANGED <<attempt, context, shown, output, receipt, closed, memory, core, runs>>

\* The deadline passes; the request may still arrive later, or never.
Timeout ==
    /\ pc \in Awaiting
    /\ pc' = "failed"
    /\ net' \in {net, {q \in net : ~Awaits(q)}}
    /\ UNCHANGED <<attempt, context, shown, output, receipt, closed, memory, core, runs>>

\* The Harness runs the turn again, under the same identities.
RunAgain ==
    /\ pc = "failed" /\ ~closed
    /\ attempt < MaxAttempts
    /\ attempt' = attempt + 1
    /\ pc' = "start"
    /\ context' = None /\ shown' = <<>> /\ output' = None /\ receipt' = None
    /\ UNCHANGED <<closed, net, memory, core, runs>>

\* close(): an awaited call fails with the channel, later calls are refused.
Close ==
    /\ ~closed
    /\ closed' = TRUE
    /\ pc' = IF pc \in Awaiting THEN "failed" ELSE pc
    /\ UNCHANGED <<attempt, context, shown, output, receipt, net, memory, core, runs>>

CallRefused ==
    /\ closed
    /\ \/ pc \in {"start", "selecting", "acted", "returned"}
       \/ pc = "rendering" /\ Renderable(context) /\ Render(context) # <<>>
    /\ pc' = "failed"
    /\ UNCHANGED <<attempt, context, shown, output, receipt, closed, net, memory, core, runs>>

TurnInit ==
    /\ pc = "start" /\ attempt = 1
    /\ context = None /\ shown = <<>> /\ output = None /\ receipt = None
    /\ closed = FALSE
    /\ net = {}
    /\ memory \in Memories
    /\ core = [situation |-> FALSE, context |-> None, delivery |-> None,
               act |-> None, outcome |-> <<>>]
    /\ runs = {}

TurnNext ==
    \/ ObserveSituation \/ SelectMemory \/ ObserveAct \/ ReportOutcome
    \/ RenderNothing \/ RenderAndDeliver \/ RenderFails \/ RunModel
    \/ Timeout \/ RunAgain \/ Close \/ CallRefused \/ Learn
    \/ \E q \in net : CoreHandles(q)

TurnSpec == TurnInit /\ [][TurnNext]_turnVars

-----------------------------------------------------------------------------
(***************************************************************************)
(* Properties.                                                             *)
(***************************************************************************)
TurnTypeOK ==
    /\ pc \in Awaiting \cup {"start", "selecting", "rendering", "running", "acted",
                             "returned", "failed", "done"}
    /\ attempt \in 1 .. MaxAttempts
    /\ closed \in BOOLEAN
    /\ memory \in Memories /\ {context, core.context} \subseteq Memories \cup {None}
    /\ \A q \in net : q.call \in Awaiting /\ q.attempt \in 1 .. attempt
    /\ output \in Outputs \cup {None}
    /\ pc \in {"acted", "act", "returned", "outcome", "done"} => output # None

Delivered == IF core.delivery = None THEN <<>> ELSE core.delivery

\* The delivery on record is the truth about every run of the model, through
\* timeouts, late requests, repeated turns and memory that changes meanwhile:
\* a model that has spoken was shown exactly the refs Core has recorded, in
\* their order, and nothing if nothing is recorded.
ModelSeesDelivered == \A r \in runs : r[1] = Delivered

\* A turn that returned to the Harness is the turn Core learns from: the AgentAct
\* on record is the text that was returned, not that of another attempt.
ReturnedActRecorded == pc \in {"returned", "outcome", "done"} => core.act = output

\* The Outcome on record names the delivery of its run, and none only if the
\* model was shown nothing, although the receipt may have been lost once.
OutcomeNamesDelivery == core.outcome # <<>> => core.outcome = <<core.delivery>>

\* The rendered memory stays within the budget, keeps the order of the context
\* and leaves out only items that would not have fitted where they came.
RenderedWithinBudget ==
    pc \in {"delivery", "running"} =>
        LET At(ref)  == CHOOSE n \in VisibleAt(context) : context[n].ref = ref
            Taken(k) == [i \in 1 .. k |-> context[At(shown[i])]]
        IN  /\ Refs(Taken(Len(shown))) = shown
            /\ \A i, j \in DOMAIN shown : i < j => At(shown[i]) < At(shown[j])
            /\ Fits(Taken(Len(shown)))
            /\ \A n \in VisibleAt(context) : context[n].ref \notin ToSet(shown) =>
                  \E k \in 0 .. Len(shown) :
                     /\ \A i \in DOMAIN shown : At(shown[i]) < n <=> i <= k
                     /\ ~Fits(Append(Taken(k), context[n]))

\* Through every attempt the state of a turn is well formed, and what it is about
\* to show the model is within the budget.
TurnInv == TurnTypeOK /\ RenderedWithinBudget

\* What Core has on record of a turn is what happened in it: the act that was
\* returned, and an Outcome about the memory that was delivered.
CoreRecordsTurn == ReturnedActRecorded /\ OutcomeNamesDelivery

=============================================================================
