--------------------------- MODULE IncidentWorker ---------------------------
(***************************************************************************)
(* The incident owner of serve_until (src/application.rs), the webhook     *)
(* handlers that feed its bounded queue (src/transport.rs) and the         *)
(* notifications it sends from the transactional outbox                    *)
(* (src/reasoning/storage.rs), with crashes, restarts, answer timeouts and *)
(* Alertmanager's retries.  The dispatcher inside it is IncidentLifecycle; *)
(* what IncidentDispatch asks of any caller, this one is shown to respect. *)
(*                                                                         *)
(* Admission, tokens and malformed bodies are answered before the queue    *)
(* and change nothing.  A failed commit makes the owner return             *)
(* WorkerFailed and the process end, and a requested stop leaves the loop  *)
(* between two commits: both are Crash here.  Deployment receipts and      *)
(* operator commands are served between commands and leave this state      *)
(* alone.                                                                  *)
(***************************************************************************)
EXTENDS IncidentLifecycle, FiniteSets, Selection

CONSTANTS
    Hooks,        \* webhook deliveries Alertmanager has to make
    Batch,        \* the alerts of each
    QueueCap,     \* capacity of the intake channel
    MaxAttempts,  \* bound: attempts of each delivery
    MaxCrashes    \* bound: crashes in a behaviour

ASSUME BatchAssumption == Batch \in [Hooks -> Seq(Signal) \ {<<>>}]
ASSUME WorkerBounds ==
    /\ QueueCap \in Nat \ {0} /\ MaxAttempts \in [Hooks -> Nat] /\ MaxCrashes \in Nat

VARIABLES
    hook,       \* each delivery: unsent, sending, waiting or accepted, and its attempt
    queue,      \* commands in the channel
    pc,         \* what the owner is doing
    command,    \* the command it took last
    rest,       \* alerts of that command still to dispatch
    todo,       \* accepted incidents still to investigate
    setAside,   \* incidents this process gave up
    outbox,     \* notification_outbox: incidents in insertion order
    delivered,  \* those with delivered_at_ms set
    sending,    \* what the drain in progress still has to publish
    published,  \* accepted by ntfy, not yet marked
    received,   \* every notification ntfy ever accepted
    crashes

handlerVars == <<hook, queue>>
outboxVars == <<outbox, delivered, sending, published, received>>
vars == <<dispatcherVars, handlerVars, pc, command, rest, todo, setAside,
          outboxVars, crashes>>

Attempts == UNION {0 .. MaxAttempts[h] : h \in Hooks}
Command == [hook : Hooks, attempt : Attempts]

\* pending_outbox: the messages without a time of delivery, in insertion order.
Undelivered(messages) == Selected(messages, IncidentId \ delivered)

Unsent == Undelivered(outbox)

Members(s) == {s[i] : i \in DOMAIN s}

\* The sequences that list the members of a finite set once each.
Orders(S) == {f \in [1 .. Cardinality(S) -> S] : Members(f) = S}

Init ==
    /\ DispatcherInit
    /\ hook = [h \in Hooks |-> [state |-> "unsent", attempt |-> 0]]
    /\ queue = <<>>
    /\ pc = "down"
    /\ command = <<>>
    /\ rest = <<>>
    /\ todo = <<>>
    /\ setAside = {}
    /\ outbox = <<>>
    /\ delivered = {}
    /\ sending = <<>>
    /\ published = {}
    /\ received = {}
    /\ crashes = 0

-----------------------------------------------------------------------------
(* Webhook handlers *)

InState(h, s) == hook[h].state = s

Moved(h, s) == [hook EXCEPT ![h].state = s]

\* Alertmanager delivers, or repeats what was answered 503 or not at all.
Deliver(h) ==
    /\ pc # "down"
    /\ InState(h, "unsent")
    /\ hook[h].attempt < MaxAttempts[h]
    /\ hook' = [hook EXCEPT ![h] = [state |-> "sending", attempt |-> @.attempt + 1]]
    /\ UNCHANGED <<dispatcherVars, queue, pc, command, rest, todo, setAside,
                   outboxVars, crashes>>

\* send: waits while the channel is full.
Enqueue(h) ==
    /\ InState(h, "sending")
    /\ Len(queue) < QueueCap
    /\ queue' = Append(queue, [hook |-> h, attempt |-> hook[h].attempt])
    /\ hook' = Moved(h, "waiting")
    /\ UNCHANGED <<dispatcherVars, pc, command, rest, todo, setAside,
                   outboxVars, crashes>>

\* INTAKE_ACK_TIMEOUT on the send or on the answer: 503.  A command already in
\* the channel stays there.
TimeOut(h) ==
    /\ InState(h, "sending") \/ InState(h, "waiting")
    /\ hook' = Moved(h, "unsent")
    /\ UNCHANGED <<dispatcherVars, queue, pc, command, rest, todo, setAside,
                   outboxVars, crashes>>

-----------------------------------------------------------------------------
(* The owner *)

NextStage(s) == IF s = <<>> THEN "idle" ELSE "investigating"

\* A start that waits for the next alert of a pending incident.
StartIdle ==
    /\ pc = "down"
    /\ pc' = "draining"
    /\ lifecycle' = replayed
    /\ sending' = Unsent
    /\ todo' = <<>>
    /\ UNCHANGED <<journal, replayed, handlerVars, command, rest, setAside,
                   outbox, delivered, published, received, crashes>>

\* Open the journal, rebuild the dispatcher, take the pending investigations as
\* the first command, and drain the outbox before it.
Start ==
    /\ pc = "down"
    /\ pc' = "draining"
    /\ lifecycle' = replayed
    /\ sending' = Unsent
    /\ todo' \in Orders(PendingInvestigations)
    /\ UNCHANGED <<journal, replayed, handlerVars, command, rest, setAside,
                   outbox, delivered, published, received, crashes>>

\* receiver.recv: the next command of the channel.
Receive ==
    /\ pc = "idle"
    /\ queue # <<>>
    /\ command' = Head(queue)
    /\ rest' = Batch[Head(queue).hook]
    /\ queue' = Tail(queue)
    /\ pc' = "dispatching"
    /\ UNCHANGED <<dispatcherVars, hook, todo, setAside, outboxVars, crashes>>

\* process_new: alert by alert, each its own commit.
DispatchOpening ==
    /\ pc = "dispatching"
    /\ rest # <<>>
    /\ StartsEpisode(Head(rest))
    /\ todo' = Append(todo, NextIncident(Head(rest)))
    /\ rest' = Tail(rest)
    /\ UNCHANGED <<handlerVars, pc, command, setAside, outboxVars, crashes>>

DispatchSettling ==
    /\ pc = "dispatching"
    /\ rest # <<>>
    /\ Settles(Head(rest))
    /\ rest' = Tail(rest)
    /\ UNCHANGED <<handlerVars, pc, command, todo, setAside, outboxVars, crashes>>

\* The answer reaches the handler if it still waits for this command.
Answered(c) ==
    IF hook[c.hook] = [state |-> "waiting", attempt |-> c.attempt]
    THEN Moved(c.hook, "accepted")
    ELSE hook

\* An answer that does not wait for the commits.
AcknowledgeEarly ==
    /\ pc = "dispatching"
    /\ hook' = Answered(command)
    /\ pc' = NextStage(todo)
    /\ UNCHANGED <<dispatcherVars, queue, command, rest, todo, setAside,
                   outboxVars, crashes>>

\* process_new returned: the handler is told, then the incidents it opened are
\* investigated one by one.
Acknowledge ==
    /\ pc = "dispatching"
    /\ rest = <<>>
    /\ hook' = Answered(command)
    /\ pc' = NextStage(todo)
    /\ UNCHANGED <<dispatcherVars, queue, command, rest, todo, setAside,
                   outboxVars, crashes>>

\* A delivery_id made of the correlation key.
NoticePerKey(id) ==
    IF \E x \in Members(outbox) : x.key = id.key THEN outbox ELSE Append(outbox, id)

\* ON CONFLICT(delivery_id) DO NOTHING.
WithNotice(id) == IF id \in Members(outbox) THEN outbox ELSE Append(outbox, id)

\* mark_completed_with_report: the completion, the report and the notification
\* in one transaction.
Complete ==
    LET id == Head(todo) IN
    /\ pc = "investigating"
    /\ MarkCompleted(id)
    /\ outbox' = WithNotice(id)
    /\ sending' = Undelivered(outbox')
    /\ todo' = Tail(todo)
    /\ pc' = "draining"
    /\ UNCHANGED <<handlerVars, command, rest, setAside, delivered, published,
                   received, crashes>>

\* investigate_live returned an error: no completion, but the outbox is drained.
Fail ==
    /\ pc = "investigating"
    /\ setAside' = setAside \cup {Head(todo)}
    /\ sending' = Unsent
    /\ todo' = Tail(todo)
    /\ pc' = "draining"
    /\ UNCHANGED <<dispatcherVars, handlerVars, command, rest, outbox, delivered,
                   published, received, crashes>>

\* No queries for the service, or no runtime: on to the next incident.
Skip ==
    /\ pc = "investigating"
    /\ setAside' = setAside \cup {Head(todo)}
    /\ todo' = Tail(todo)
    /\ pc' = NextStage(todo')
    /\ UNCHANGED <<dispatcherVars, handlerVars, command, rest, outboxVars, crashes>>

\* Notifications are only retried after the next investigation.
NoTick == FALSE /\ UNCHANGED vars

\* retry_tick, every 15 seconds while nothing else is ready.
Tick ==
    /\ pc = "idle"
    /\ Unsent # <<>>
    /\ sending' = Unsent
    /\ pc' = "draining"
    /\ UNCHANGED <<dispatcherVars, handlerVars, command, rest, todo, setAside,
                   outbox, delivered, published, received, crashes>>

-----------------------------------------------------------------------------
(* drain_outbox *)

\* A publication whose failure is not looked at.
PublishUnheard ==
    /\ pc = "draining"
    /\ published = {}
    /\ sending # <<>>
    /\ published' = {Head(sending)}
    /\ UNCHANGED received
    /\ UNCHANGED <<dispatcherVars, handlerVars, pc, command, rest, todo, setAside,
                   outbox, delivered, sending, crashes>>

\* ntfy accepts the message.
Publish ==
    /\ pc = "draining"
    /\ published = {}
    /\ sending # <<>>
    /\ published' = {Head(sending)}
    /\ received' = received \cup {Head(sending)}
    /\ UNCHANGED <<dispatcherVars, handlerVars, pc, command, rest, todo, setAside,
                   outbox, delivered, sending, crashes>>

\* A failed publication is left for the next drain.
PublishFails ==
    /\ pc = "draining"
    /\ published = {}
    /\ sending # <<>>
    /\ sending' = Tail(sending)
    /\ UNCHANGED <<dispatcherVars, handlerVars, pc, command, rest, todo, setAside,
                   outbox, delivered, published, received, crashes>>

\* mark_outbox_delivered; a failure of it is logged and the message stays unsent.
Mark(done) ==
    /\ pc = "draining"
    /\ published # {}
    /\ delivered' = IF done THEN delivered \cup published ELSE delivered
    /\ published' = {}
    /\ sending' = Tail(sending)
    /\ UNCHANGED <<dispatcherVars, handlerVars, pc, command, rest, todo, setAside,
                   outbox, received, crashes>>

\* A drain that ends only when everything is delivered.
DrainedWhenEmpty ==
    /\ pc = "draining"
    /\ sending = <<>>
    /\ Unsent = <<>>
    /\ pc' = NextStage(todo)
    /\ UNCHANGED <<dispatcherVars, handlerVars, command, rest, todo, setAside,
                   outboxVars, crashes>>

\* Every message that was unsent when the drain began has had its turn.
Drained ==
    /\ pc = "draining"
    /\ sending = <<>>
    /\ pc' = NextStage(todo)
    /\ UNCHANGED <<dispatcherVars, handlerVars, command, rest, todo, setAside,
                   outboxVars, crashes>>

-----------------------------------------------------------------------------
(* The process dies, or the owner fails and the process ends: the channel and *)
(* the handlers go with it, and Alertmanager gets no answer                   *)

Crash ==
    /\ pc # "down"
    /\ crashes < MaxCrashes
    /\ crashes' = crashes + 1
    /\ pc' = "down"
    /\ queue' = <<>>
    /\ hook' = [h \in Hooks |->
                  IF InState(h, "accepted") THEN hook[h] ELSE [hook[h] EXCEPT !.state = "unsent"]]
    /\ command' = <<>>
    /\ rest' = <<>>
    /\ todo' = <<>>
    /\ setAside' = {}
    /\ sending' = <<>>
    /\ published' = {}
    /\ UNCHANGED <<dispatcherVars, outbox, delivered, received>>

Investigation == Complete \/ Fail \/ Skip
Dispatching == DispatchOpening \/ DispatchSettling
Marking == Mark(TRUE) \/ Mark(FALSE)

Next ==
    \/ \E h \in Hooks : Deliver(h) \/ Enqueue(h) \/ TimeOut(h)
    \/ Start
    \/ Receive
    \/ Dispatching
    \/ Acknowledge
    \/ Investigation
    \/ Tick
    \/ Publish
    \/ PublishFails
    \/ Marking
    \/ Drained
    \/ Crash

\* The owner's loop never stops by itself, a supervisor restarts the process,
\* and ntfy and the mark after it succeed now and then.
Fairness ==
    /\ WF_vars(Start)
    /\ WF_vars(Receive)
    /\ WF_vars(Dispatching)
    /\ WF_vars(Acknowledge)
    /\ WF_vars(Investigation)
    /\ WF_vars(Tick)
    /\ WF_vars(Publish \/ PublishFails)
    /\ WF_vars(Marking)
    /\ WF_vars(Drained)
    /\ SF_vars(Publish)
    /\ SF_vars(Mark(TRUE))

Spec == Init /\ [][Next]_vars /\ Fairness

-----------------------------------------------------------------------------
(* Type correctness *)

\* Handlers, owner and outbox keep their types; the channel keeps its capacity.
WorkerTypeOK ==
    /\ lifecycle \in [Keys -> LifecycleState]
    /\ replayed \in [Keys -> LifecycleState]
    /\ journal \in Seq(JournalEvent)
    /\ hook \in [Hooks -> [state : {"unsent", "sending", "waiting", "accepted"},
                           attempt : Attempts]]
    /\ queue \in Seq(Command) /\ Len(queue) <= QueueCap
    /\ pc \in {"down", "draining", "idle", "dispatching", "investigating"}
    /\ command \in Command \cup {<<>>}
    /\ rest \in Seq(Signal)
    /\ todo \in Seq(IncidentId)
    /\ setAside \subseteq IncidentId
    /\ outbox \in Seq(IncidentId)
    /\ delivered \subseteq Members(outbox)
    /\ sending \in Seq(IncidentId)
    /\ published \subseteq IncidentId
    /\ received \subseteq IncidentId
    /\ crashes \in 0 .. MaxCrashes

-----------------------------------------------------------------------------
(* Safety *)

\* An alert group answered 202 has every one of its alerts in the journal, so
\* no crash can lose what Alertmanager will not send again (process_new before
\* the answer, in serve_until).
AnsweredIsDurable ==
    \A h \in Hooks : InState(h, "accepted") =>
        \A i \in DOMAIN Batch[h] : \E j \in DOMAIN journal :
            /\ journal[j].event \in SignalEvents
            /\ journal[j].signal = Batch[h][i]

CompletedIncidents ==
    {journal[i].id : i \in {j \in DOMAIN journal : journal[j].event = "IncidentCompleted"}}

RecoveredIncidents ==
    {journal[i].id : i \in {j \in DOMAIN journal : journal[j].event = "IncidentRecovered"}}

\* Whenever the process dies, the next one takes up every incident that was
\* opened and has neither completed nor recovered (the doc comment of
\* pending_investigations).
UnfinishedIsPending ==
    \A i \in DOMAIN journal :
        journal[i].event = "IncidentOpened" =>
            journal[i].id \in
                CompletedIncidents \cup RecoveredIncidents \cup PendingInvestigations

\* The notifications intended are exactly the incidents completed, one for each:
\* no crash separates the two (append_with_outbox_and_report).
CompletionCarriesNotice ==
    /\ Members(outbox) = CompletedIncidents
    /\ \A i, j \in DOMAIN outbox : outbox[i] = outbox[j] => i = j

\* A notification is marked delivered only when ntfy has accepted it, whatever
\* fails or dies in between (drain_outbox).
MarkedIsReceived == delivered \subseteq received

-----------------------------------------------------------------------------
(* Refinement: the owner is a caller as IncidentDispatch assumes one.  While  *)
(* the process is down the dispatcher is what a restart will make of it.      *)

Dispatch ==
    INSTANCE IncidentDispatch WITH
        lifecycle <- IF pc = "down" THEN replayed ELSE lifecycle,
        handed <- IF pc = "down" THEN PendingInvestigations ELSE Members(todo)

\* Every behaviour of the worker is one of IncidentDispatch, so what is proved
\* of the dispatcher holds in the application.
ImplementsDispatch == Dispatch!Spec

-----------------------------------------------------------------------------
(* Liveness *)

\* The key's current episode still needs an investigation from this process.
Awaited(k) ==
    /\ replayed[k].phase = "firing"
    /\ ~replayed[k].completed
    /\ Incident(k, replayed[k].episode) \notin setAside

\* Every opened episode is completed, recovered or given up in the end, also
\* when the process dies during its investigation.
InvestigationsEnd == \A k \in Keys : Awaited(k) ~> ~Awaited(k)

\* No notification stays in the outbox for ever: retries and restarts deliver
\* it once ntfy accepts now and then (drain_outbox, retry_tick).
OutboxDrains == []<>(Unsent = <<>>)

\* The channel is empty again and again: neither a drain nor an investigation
\* holds the owner for ever.  Deliveries and their attempts being finitely many,
\* each command is taken or dies with the process.
CommandsTaken == []<>(queue = <<>>)

=============================================================================
