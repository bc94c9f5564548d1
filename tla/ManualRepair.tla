---------------------------- MODULE ManualRepair ----------------------------
(***************************************************************************)
(* The automatic preparation of a repair for one enrolled alert: admission *)
(* through the publisher's checkpoint (src/gitops/admission.rs, inbox.rs), *)
(* the candidate, the one remote validation attempt and the hand-off to an *)
(* operator (src/application/repair_dispatch.rs, manual_repair.rs,         *)
(* src/reasoning/storage/gitops.rs, manual_validation.rs, manual_ack.rs),  *)
(* the operator's commands (manual_repair_admin.rs), and the thread that   *)
(* owns all of it (owner_thread.rs).                                       *)
(*                                                                         *)
(* Incidents are the firing ones of the enrolled alert, each investigated  *)
(* with a report: what IncidentWorker does between todo and completion.    *)
(* Every failure on the way, of a check, of a read or of the store, makes  *)
(* run return early, adds a note to the report and lets the incident       *)
(* complete: GiveUp stands for all of them, a check that fails leaving it  *)
(* alone enabled.  A failed intake or completion ends the process: Crash.  *)
(***************************************************************************)
EXTENDS DeploymentQualification

CONSTANTS
    Incidents,
    MaxBase,            \* bound: revisions of the repository
    None,               \* no value
    CheckpointLife,     \* what the publisher adds to observed_at
    MaxCheckpointAge,   \* max_checkpoint_age_seconds
    RequestLife,        \* timeout_seconds + 60
    MaxValidationAge,   \* max_validation_age_seconds
    AdminCap,           \* capacity of the operator queue
    FirstSecond, MaxClock,  \* bound: the seconds that pass
    MaxBacks,           \* bound: times the clock is set back
    MaxStarts           \* bound: starts of the process

ASSUME RepairConstants ==
    /\ {CheckpointLife, MaxCheckpointAge, RequestLife, MaxValidationAge, AdminCap, MaxBase,
        FirstSecond, MaxClock, MaxBacks, MaxStarts} \subseteq Nat
    /\ FirstSecond <= MaxClock
    /\ None \notin Nat /\ None \notin {"admit", "dispatch", "final", "intake"}

VARIABLES
    inbox,        \* the receipts published so far
    checkpoint,   \* the publisher's checkpoint file, or None
    head,         \* HEAD of the local mirror
    clock, backs,
    candidates,   \* manual_repair_candidates
    attempts,     \* manual_validation_attempts: at most one per candidate
    recoveries,   \* manual_validation_recoveries
    handoffs,     \* manual_repair_handoffs
    history,      \* the repair facts of the journal, oldest first
    completed,    \* incidents marked completed
    sent,         \* requests handed to SSH
    pc, phase,    \* where the owner is, and for which admission
    run,          \* the incident and the run
    load,         \* the checkpoint read first, and when
    admission,    \* the admission bound last
    importing,    \* receipts of it still to record, and the time they get
    candidate, request,
    completedAt,  \* of the validation receipt
    queue,        \* operator commands; live while their client waits
    stop,         \* what the main thread asked of the owner and heard
    starts

outsideVars == <<inbox, checkpoint, head, clock, backs>>
tableVars == <<candidates, attempts, recoveries, handoffs, history, completed>>
durableVars == <<qualificationVars, tableVars>>
runVars == <<phase, run, load, admission, importing, candidate, request, completedAt>>
processVars == <<queue, stop, starts>>
vars == <<outsideVars, durableVars, sent, pc, runVars, processVars>>

Times == 0 .. MaxClock
Bases == 0 .. MaxBase
Run == [incident : Incidents, run : 1 .. MaxStarts]
Artifact == [incident : Incidents, run : 1 .. MaxStarts, base : Bases, receipt : Receipts]
Request == [artifact : Artifact, nonce : Nat, issued : Nat, expires : Nat]
Handoff == [artifact : Artifact, completed : Nat]
Checkpoint ==
    [base : Bases, deployment : Deployments, observed : Nat, expires : Nat,
     receipts : SUBSET Receipts]
Attempt == [request : Request, completed : Nat \cup {None}]
Command == [kind : {"recover"}, of : Request] \cup [kind : {"acknowledge"}, of : Handoff]
RepairFact ==
    [stage : {"prepared"}, of : Artifact, scope : SUBSET Incidents]
        \cup [stage : {"reserved", "received", "failed", "recovered"}, of : Request,
              scope : SUBSET Incidents]
        \cup [stage : {"validated", "acknowledged"}, of : Handoff, scope : SUBSET Incidents]

Steps ==
    {"load", "scan", "bound", "import", "survey", "prepare", "attempt", "reserve", "send",
     "await", "recapture", "finalize"}

RepairTypeOK ==
    /\ QualificationTypeOK
    /\ inbox \subseteq Receipts
    /\ checkpoint \in Checkpoint \cup {None}
    /\ head \in Bases
    /\ clock \in Times /\ backs \in 0 .. MaxBacks
    /\ candidates \subseteq Artifact
    /\ attempts \subseteq Attempt /\ recoveries \subseteq Attempt
    /\ handoffs \subseteq Handoff
    /\ history \in Seq(RepairFact)
    /\ completed \subseteq Incidents
    /\ sent \subseteq Request
    /\ pc \in {"down", "idle", "finish", "dropped"} \cup Steps
    /\ phase \in {"admit", "dispatch", "final", "intake", None}
    /\ run \in Run \cup {None}
    /\ load \in [at : Nat, checkpoint : Checkpoint] \cup {None}
    /\ admission \in Checkpoint \cup {None}
    /\ importing \in [rest : SUBSET Receipts, at : Nat] \cup {None}
    /\ candidate \in Artifact \cup {None}
    /\ request \in Request \cup {None}
    /\ completedAt \in Nat \cup {None}
    /\ queue \in Seq([command : Command, live : BOOLEAN])
    /\ stop \in {"no", "asked", "confirmed"}
    /\ starts \in 0 .. MaxStarts

Init ==
    /\ QualificationInit
    /\ inbox = {} /\ checkpoint = None /\ head = 0
    /\ clock = FirstSecond /\ backs = 0
    /\ candidates = {} /\ attempts = {} /\ recoveries = {} /\ handoffs = {}
    /\ history = <<>> /\ completed = {}
    /\ sent = {}
    /\ pc = "down" /\ phase = None /\ run = None
    /\ load = None /\ admission = None /\ importing = None
    /\ candidate = None /\ request = None /\ completedAt = None
    /\ queue = <<>> /\ stop = "no" /\ starts = 0

-----------------------------------------------------------------------------
(* The publisher, the mirror and the clock *)

\* A receipt file appears by atomic rename and is never removed.
PublishReceipt(r) ==
    /\ r \notin inbox
    /\ inbox' = inbox \cup {r}
    /\ UNCHANGED <<checkpoint, head, clock, backs, durableVars, sent, pc, runVars, processVars>>

PublishCheckpoint(d) ==
    /\ checkpoint' = [base |-> head, deployment |-> d, observed |-> clock,
                      expires |-> clock + CheckpointLife, receipts |-> inbox]
    /\ UNCHANGED <<inbox, head, clock, backs, durableVars, sent, pc, runVars, processVars>>

MoveHead ==
    /\ head < MaxBase
    /\ head' = head + 1
    /\ UNCHANGED <<inbox, checkpoint, clock, backs, durableVars, sent, pc, runVars, processVars>>

Tick ==
    /\ clock < MaxClock
    /\ clock' = clock + 1
    /\ UNCHANGED <<inbox, checkpoint, head, backs, durableVars, sent, pc, runVars, processVars>>

SetBack ==
    /\ clock > FirstSecond
    /\ backs < MaxBacks
    /\ clock' = clock - 1
    /\ backs' = backs + 1
    /\ UNCHANGED <<inbox, checkpoint, head, durableVars, sent, pc, runVars, processVars>>

-----------------------------------------------------------------------------
(* The journal's repair facts *)

Facts(stage) == {history[n].of : n \in {m \in DOMAIN history : history[m].stage = stage}}

Said(stage, x) == \E n \in DOMAIN history : history[n].stage = stage /\ history[n].of = x

\* record_transition: a validation fact is filed under the incident of the
\* prepared fact of its candidate; without one it has no scope.
ScopeOf(a) == {i \in Incidents : a.incident = i /\ Said("prepared", a)}

Logged(stage, x, a) ==
    Append(history, [stage |-> stage, of |-> x,
                     scope |-> IF stage = "prepared" THEN {a.incident} ELSE ScopeOf(a)])

ValidationStages == {"reserved", "received", "failed", "recovered"}

\* A look at the facts of this run only.
AttemptedThisRun(i) ==
    \E n \in DOMAIN history :
        /\ history[n].stage \in ValidationStages
        /\ i \in history[n].scope
        /\ history[n].of.artifact.run = starts

\* already_attempted: any validation fact of the incident, of any run, the
\* recovered ones too.
AlreadyAttempted(i) ==
    \E n \in DOMAIN history : history[n].stage \in ValidationStages /\ i \in history[n].scope

-----------------------------------------------------------------------------
(* Admission *)

EnsureCurrent(a) == a.observed <= clock /\ clock < a.expires

\* repair.run for the next incident.  An incident with an attempt only gets a note.
StartRepair(i) ==
    /\ pc = "idle"
    /\ i \notin completed
    /\ run' = [incident |-> i, run |-> starts]
    /\ IF AlreadyAttempted(i)
         THEN pc' = "finish" /\ phase' = None
         ELSE pc' = "load" /\ phase' = "admit"
    /\ UNCHANGED <<outsideVars, durableVars, sent, load, admission, importing, candidate,
                   request, completedAt, processVars>>

\* A read for which a missing checkpoint is no error.
ReadCheckpointAnyway ==
    /\ pc = "load"
    /\ load' = [at |-> clock, checkpoint |-> checkpoint]
    /\ pc' = "scan"
    /\ UNCHANGED <<outsideVars, durableVars, sent, phase, run, admission, importing,
                   candidate, request, completedAt, processVars>>

\* admission::read: the checkpoint, with the time that load_checkpoint took.
ReadCheckpoint ==
    /\ pc = "load"
    /\ checkpoint # None
    /\ load' = [at |-> clock, checkpoint |-> checkpoint]
    /\ pc' = "scan"
    /\ UNCHANGED <<outsideVars, durableVars, sent, phase, run, admission, importing,
                   candidate, request, completedAt, processVars>>

\* Checkpoint::bind: the scan found exactly the receipts the checkpoint names, and
\* the checkpoint was current and short-lived.
Binds(c, receipts, at) ==
    /\ c.observed <= at /\ at < c.expires
    /\ c.expires - c.observed <= MaxCheckpointAge
    /\ receipts = c.receipts
    /\ \E r \in receipts : r.deployment = c.deployment

SameSelection(c) ==
    phase # "admit" => c.base = candidate.base /\ c.deployment = candidate.receipt.deployment

\* ReceiptInbox::read: a scan that succeeds saw no change of the directory between
\* its two listings, so its receipts are all that there are, in bounds and unaltered.
Scan == inbox

\* The scan of the inbox, the second read of the checkpoint, bind, and the checks
\* after it.
BindCheckpoint ==
    /\ pc = "scan"
    /\ checkpoint = load.checkpoint
    /\ Binds(load.checkpoint, Scan, load.at)
    /\ EnsureCurrent(load.checkpoint)
    /\ SameSelection(load.checkpoint)
    /\ admission' = load.checkpoint
    /\ load' = None
    /\ IF phase = "admit"
         THEN pc' = "import" /\ importing' = [rest |-> Scan, at |-> clock]
         ELSE pc' = "bound" /\ UNCHANGED importing
    /\ UNCHANGED <<outsideVars, durableVars, sent, phase, run, candidate, request,
                   completedAt, processVars>>

\* import_admission: one time for all of its receipts.
BeginImport ==
    /\ pc = "bound"
    /\ admission.base = candidate.base
    /\ EnsureCurrent(admission)
    /\ importing' = [rest |-> admission.receipts, at |-> clock]
    /\ pc' = "import"
    /\ UNCHANGED <<outsideVars, durableVars, sent, phase, run, load, admission, candidate,
                   request, completedAt, processVars>>

\* The periodic intake (deployment_intake::refresh), also before each incident;
\* it may be off.
StartIntake ==
    /\ pc = "idle"
    /\ Scan # {}
    /\ importing' = [rest |-> Scan, at |-> clock]
    /\ phase' = "intake"
    /\ pc' = "import"
    /\ UNCHANGED <<outsideVars, durableVars, sent, run, load, admission, candidate, request,
                   completedAt, processVars>>

AfterImport ==
    CASE phase = "admit" -> "survey"
      [] phase = "dispatch" -> "reserve"
      [] phase = "final" -> "finalize"
      [] phase = "intake" -> "idle"

\* The receipts are recorded in the order of their file names, each in its own
\* transaction; the first admission reads the clock for each.
Import ==
    /\ pc = "import"
    /\ LET r == CHOOSE s \in importing.rest : \A t \in importing.rest : s.file <= t.file
           rest == importing.rest \ {r}
       IN  /\ RecordDeployment(r, IF phase = "admit" THEN clock ELSE importing.at)
           /\ IF rest = {}
                THEN /\ importing' = None
                     /\ pc' = AfterImport
                     /\ phase' = IF phase = "intake" THEN None ELSE phase
                ELSE /\ importing' = [importing EXCEPT !.rest = rest]
                     /\ UNCHANGED <<pc, phase>>
    /\ UNCHANGED <<outsideVars, tableVars, sent, run, load, admission, candidate, request,
                   completedAt, processVars>>

-----------------------------------------------------------------------------
(* The candidate *)

\* The checks before the repository is read: a qualified deployment.  Missing
\* evidence of this run, which no later step changes, is a reason to give up.
Survey ==
    /\ pc = "survey"
    /\ EnsureCurrent(admission)
    /\ Qualified(admission.deployment, clock) # {}
    /\ pc' = "prepare"
    /\ UNCHANGED <<outsideVars, durableVars, sent, runVars, processVars>>

\* RepositorySnapshot::capture: HEAD is the expected commit.
Captures(base) == head = base

\* ManualRepairCandidate::build: bound to the incident, the run, the base and the
\* receipt whose image it restores.
NewCandidate(r) ==
    [incident |-> run.incident, run |-> run.run, base |-> admission.base, receipt |-> r]

\* The capture at the admitted base, and prepare_manual_candidate.
PrepareCandidate ==
    /\ pc = "prepare"
    /\ Captures(admission.base)
    /\ \E r \in Qualified(admission.deployment, clock) :
          LET a == NewCandidate(r)
          IN  /\ candidate' = a
              /\ candidates' = candidates \cup {a}
              /\ history' = IF a \in candidates THEN history ELSE Logged("prepared", a, a)
    /\ pc' = "attempt"
    /\ UNCHANGED <<outsideVars, qualificationVars, attempts, recoveries, handoffs, completed,
                   sent, phase, run, load, admission, importing, request, completedAt,
                   processVars>>

HasAttempt(a) == \E t \in attempts : t.request.artifact = a

\* validate_with_recheck up to the capture that precedes the second admission.
CheckAttempt ==
    /\ pc = "attempt"
    /\ ~HasAttempt(candidate)
    /\ Captures(candidate.base)
    /\ phase' = "dispatch"
    /\ admission' = None
    /\ pc' = "load"
    /\ UNCHANGED <<outsideVars, durableVars, sent, run, load, importing, candidate, request,
                   completedAt, processVars>>

-----------------------------------------------------------------------------
(* The validation attempt *)

\* RemoteJob::new: the nonce is one no earlier request had.
NewRequest ==
    [artifact |-> candidate, nonce |-> Len(history), issued |-> clock,
     expires |-> clock + RequestLife]

\* reserve_manual_validation: the row is committed before any network effect.
Reserve ==
    /\ pc = "reserve"
    /\ EnsureCurrent(admission)
    /\ candidate.receipt \in Qualified(admission.deployment, clock)
    /\ LET q == NewRequest
       IN  /\ ~HasAttempt(candidate)
           /\ \A t \in recoveries : t.request # q
           /\ attempts' = attempts \cup {[request |-> q, completed |-> None]}
           /\ history' = Logged("reserved", q, candidate)
           /\ request' = q
    /\ pc' = "send"
    /\ UNCHANGED <<outsideVars, qualificationVars, candidates, recoveries, handoffs,
                   completed, sent, phase, run, load, admission, importing, candidate,
                   completedAt, processVars>>

\* RemoteJob::check on either end of the connection.
RequestCurrent(q) == q.issued <= clock /\ clock < q.expires

\* The reservation may have been slow: the admission is checked once more.
Send ==
    /\ pc = "send"
    /\ EnsureCurrent(admission)
    /\ RequestCurrent(request)
    /\ sent' = sent \cup {request}
    /\ pc' = "await"
    /\ UNCHANGED <<outsideVars, durableVars, runVars, processVars>>

Active(q) == [request |-> q, completed |-> None]

\* import_response: bound to this request, not from the future and not too old.
Importable(c) ==
    /\ RequestCurrent(request)
    /\ c \in request.issued .. clock
    /\ clock - c <= MaxValidationAge

\* complete_manual_validation.
ReceiveReceipt ==
    /\ pc = "await"
    /\ Active(request) \in attempts
    /\ \E c \in request.issued .. clock :
          /\ Importable(c)
          /\ completedAt' = c
          /\ attempts' = (attempts \ {Active(request)})
                             \cup {[request |-> request, completed |-> c]}
    /\ history' = Logged("received", request, request.artifact)
    /\ pc' = "recapture"
    /\ UNCHANGED <<outsideVars, qualificationVars, candidates, recoveries, handoffs,
                   completed, sent, phase, run, load, admission, importing, candidate,
                   request, processVars>>

\* record_manual_validation_failure: a refused, failed or late response.  The
\* reservation stays.
ReceiveFailure ==
    /\ pc \in {"send", "await"}
    /\ Active(request) \in attempts
    /\ history' = IF Said("failed", request) THEN history
                  ELSE Logged("failed", request, request.artifact)
    /\ pc' = "finish"
    /\ UNCHANGED <<outsideVars, qualificationVars, candidates, attempts, recoveries,
                   handoffs, completed, sent, runVars, processVars>>

\* The source is captured again after the remote work.
Recapture ==
    /\ pc = "recapture"
    /\ Captures(candidate.base)
    /\ phase' = "final"
    /\ admission' = None
    /\ pc' = "load"
    /\ UNCHANGED <<outsideVars, durableVars, sent, run, load, importing, candidate, request,
                   completedAt, processVars>>

\* ManualRepairHandoff::build: the validation must still be fresh.
NewHandoff == [artifact |-> candidate, completed |-> completedAt]
Fresh == completedAt <= clock /\ clock - completedAt <= MaxValidationAge

\* An offer that does not look the deployment up again.
FinalizeUnqualified ==
    /\ pc = "finalize"
    /\ EnsureCurrent(admission)
    /\ Fresh
    /\ candidate \in candidates /\ Said("prepared", candidate)
    /\ LET h == NewHandoff
       IN  /\ handoffs' = handoffs \cup {h}
           /\ history' = IF h \in handoffs THEN history ELSE Logged("validated", h, candidate)
    /\ pc' = "finish"
    /\ UNCHANGED <<outsideVars, qualificationVars, candidates, attempts, recoveries,
                   completed, sent, runVars, processVars>>

\* finalize_manual_repair.
Finalize ==
    /\ pc = "finalize"
    /\ EnsureCurrent(admission)
    /\ Fresh
    /\ \E d \in DOMAIN deployments : candidate.receipt \in Qualified(d, clock)
    /\ candidate \in candidates /\ Said("prepared", candidate)
    /\ LET h == NewHandoff
       IN  /\ handoffs' = handoffs \cup {h}
           /\ history' = IF h \in handoffs THEN history ELSE Logged("validated", h, candidate)
    /\ pc' = "finish"
    /\ UNCHANGED <<outsideVars, qualificationVars, candidates, attempts, recoveries,
                   completed, sent, runVars, processVars>>

Forget ==
    /\ phase' = None /\ run' = None /\ load' = None /\ admission' = None
    /\ importing' = None /\ candidate' = None /\ request' = None /\ completedAt' = None

\* Any early return of run: the report gets a note.
GiveUp ==
    /\ pc \in Steps
    /\ phase # "intake"
    /\ pc' = "finish"
    /\ UNCHANGED <<outsideVars, durableVars, sent, runVars, processVars>>

\* mark_completed_with_report.
Finish ==
    /\ pc = "finish"
    /\ completed' = completed \cup {run.incident}
    /\ pc' = "idle"
    /\ Forget
    /\ UNCHANGED <<outsideVars, qualificationVars, candidates, attempts, recoveries, handoffs,
                   history, sent, processVars>>

-----------------------------------------------------------------------------
(* The operator's commands *)

\* An authenticated command enters the queue, unless it is full.  The operator
\* names what an inspection showed: a request or an artifact offered.
Submit(command) ==
    /\ pc \notin {"down", "dropped"}
    /\ Len(queue) < AdminCap
    /\ queue' = Append(queue, [command |-> command, live |-> TRUE])
    /\ UNCHANGED <<outsideVars, durableVars, sent, pc, runVars, stop, starts>>

Commands ==
    {[kind |-> "recover", of |-> q] : q \in Facts("reserved")}
        \cup {[kind |-> "acknowledge", of |-> h] : h \in Facts("validated")}

\* The client's five seconds pass; the command stays where it is.
Expire(n) ==
    /\ queue[n].live
    /\ queue' = [queue EXCEPT ![n].live = FALSE]
    /\ UNCHANGED <<outsideVars, durableVars, sent, pc, runVars, stop, starts>>

\* A recovery that removes the attempt and does not archive it.
RecoverUnarchived(q) ==
    /\ IF clock > q.expires /\ \E t \in attempts : t.request = q
         THEN /\ attempts' = {t \in attempts : t.request # q}
              /\ history' = Logged("recovered", q, q.artifact)
         ELSE UNCHANGED <<attempts, history>>
    /\ UNCHANGED <<candidates, recoveries, handoffs, completed>>

\* recover_manual_validation: the attempt is archived once its request expired;
\* otherwise the answer is that nothing was recovered.
Recover(q) ==
    /\ IF clock > q.expires /\ \E t \in attempts : t.request = q
         THEN /\ \E t \in attempts :
                    /\ t.request = q
                    /\ attempts' = attempts \ {t}
                    /\ recoveries' = recoveries \cup {t}
              /\ history' = Logged("recovered", q, q.artifact)
         ELSE UNCHANGED <<attempts, recoveries, history>>
    /\ UNCHANGED <<candidates, handoffs, completed>>

\* A pickup that is recorded every time.
AcknowledgeAgain(h) ==
    /\ h \in handoffs /\ Said("validated", h)
    /\ history' = Logged("acknowledged", h, h.artifact)
    /\ UNCHANGED <<candidates, attempts, recoveries, handoffs, completed>>

\* acknowledge_manual_handoff: the first pickup of an artifact offered once is
\* recorded, a later one confirmed.
Acknowledge(h) ==
    /\ h \in handoffs /\ Said("validated", h)
    /\ history' = IF Said("acknowledged", h) THEN history
                  ELSE Logged("acknowledged", h, h.artifact)
    /\ UNCHANGED <<candidates, attempts, recoveries, handoffs, completed>>

Perform(command) ==
    \/ command.kind = "recover" /\ Recover(command.of)
    \/ command.kind = "acknowledge" /\ Acknowledge(command.of)

\* The owner serves commands between two incidents, and only for a client that
\* still waits.
Execute ==
    /\ pc = "idle"
    /\ queue # <<>>
    /\ IF Head(queue).live
         THEN Perform(Head(queue).command)
         ELSE UNCHANGED tableVars
    /\ queue' = Tail(queue)
    /\ UNCHANGED <<outsideVars, qualificationVars, sent, pc, runVars, stop, starts>>

-----------------------------------------------------------------------------
(* The owner thread *)

Start ==
    /\ pc = "down"
    /\ starts < MaxStarts
    /\ starts' = starts + 1
    /\ pc' = "idle"
    /\ UNCHANGED <<outsideVars, durableVars, sent, runVars, queue, stop>>

\* A crash, or the process ending after a failed commit or a shutdown: one that is
\* confirmed, or one the owner did not answer within ten seconds (unconfirmed).
Crash ==
    /\ pc # "down"
    /\ pc' = "down"
    /\ Forget
    /\ queue' = <<>>
    /\ stop' = "no"
    /\ UNCHANGED <<outsideVars, durableVars, sent, starts>>

RequestStop ==
    /\ pc # "down" /\ stop = "no"
    /\ stop' = "asked"
    /\ UNCHANGED <<outsideVars, durableVars, sent, pc, runVars, queue, starts>>

\* Where the owner's future can be dropped; between the others it runs on.
AtAwait ==
    \/ pc \in {"idle", "load", "scan", "prepare", "attempt", "await", "recapture"}
    \/ pc = "import" /\ phase \in {"admit", "intake"}

\* The owner and its journal are dropped, the operator service with them.
DropOwner ==
    /\ stop = "asked"
    /\ AtAwait
    /\ pc' = "dropped"
    /\ Forget
    /\ queue' = <<>>
    /\ UNCHANGED <<outsideVars, durableVars, sent, stop, starts>>

\* A shutdown that does not wait for the thread.
ConfirmAtOnce ==
    /\ stop = "asked"
    /\ stop' = "confirmed"
    /\ UNCHANGED <<outsideVars, durableVars, sent, pc, runVars, queue, starts>>

\* shutdown hears from the thread.
ConfirmStop ==
    /\ stop = "asked"
    /\ pc = "dropped"
    /\ stop' = "confirmed"
    /\ UNCHANGED <<outsideVars, durableVars, sent, pc, runVars, queue, starts>>

-----------------------------------------------------------------------------
OwnerStep ==
    \/ ReadCheckpoint \/ BindCheckpoint \/ BeginImport \/ Import
    \/ Survey \/ PrepareCandidate \/ CheckAttempt
    \/ Reserve \/ Send \/ ReceiveReceipt \/ ReceiveFailure
    \/ Recapture \/ Finalize \/ GiveUp \/ Finish

Next ==
    \/ \E r \in Receipts : PublishReceipt(r)
    \/ \E d \in Deployments : PublishCheckpoint(d)
    \/ MoveHead \/ Tick \/ SetBack
    \/ \E i \in Incidents : StartRepair(i)
    \/ StartIntake
    \/ OwnerStep
    \/ \E c \in Commands : Submit(c)
    \/ \E n \in DOMAIN queue : Expire(n)
    \/ Execute
    \/ Start \/ Crash
    \/ RequestStop \/ DropOwner \/ ConfirmStop

Spec == Init /\ [][Next]_vars

-----------------------------------------------------------------------------
(* Correctness *)

\* Every request ever reserved is accounted for exactly once, in the active
\* attempts or in the archive, with its receipt if one came; a candidate has one
\* attempt at a time, and nothing is sent that was not recorded first: a crash
\* between the reservation and the response leaves an attempt that only an
\* operator can clear (reserve, complete and recover_manual_validation).
ReservationsAccounted ==
    /\ {t.request : t \in attempts \cup recoveries} = Facts("reserved")
    /\ \A s, t \in attempts \cup recoveries : s.request = t.request => s = t
    /\ attempts \cap recoveries = {}
    /\ \A s, t \in attempts : s.request.artifact = t.request.artifact => s = t
    /\ {t.request : t \in recoveries} = Facts("recovered")
    /\ \A t \in attempts \cup recoveries : t.completed # None <=> t.request \in Facts("received")
    /\ sent \subseteq Facts("reserved")

\* No fact of the journal is written twice, whatever is retried: not a
\* preparation, a validation stage, an offer or a pickup; and each is filed
\* under its incident, which is how already_attempted finds it.
FactsOnce ==
    /\ \A m, n \in DOMAIN history :
          history[m].stage = history[n].stage /\ history[m].of = history[n].of => m = n
    /\ \A n \in DOMAIN history : history[n].scope # {}

\* An artifact is offered only while the deployment it restores has been qualified
\* once and never contradicted, by any receipt ever imported or named by the
\* checkpoint that was current at that moment, and is still healthy enough
\* (validate_with_recheck and finalize_manual_repair).
HandoffUncontradicted ==
    [][\A h \in handoffs' \ handoffs :
          LET r == h.artifact.receipt
          IN  /\ EnsureCurrent(admission)
              /\ \A s \in admission.receipts : s.deployment = r.deployment => s = r
              /\ \A n \in DOMAIN audit :
                    audit[n].deployment = r.deployment =>
                       audit[n].receipt = r /\ audit[n].eligible /\ audit[n].at <= clock
              /\ Eligible(r, clock)]_vars

\* Once a shutdown is confirmed, nothing more is written or sent until the
\* process ends (OwnerThread::shutdown).
ConfirmedIsQuiet ==
    [][stop = "confirmed" => UNCHANGED <<durableVars, sent>>]_vars

IncidentOf(x) == x.artifact.incident

Contract == INSTANCE RepairContract WITH
    reserved <- Facts("reserved"),
    sent <- sent,
    answered <- Facts("received"),
    offered <- handoffs,
    acknowledged <- Facts("acknowledged")

\* The tables, the journal and the network together do what RepairContract allows:
\* one attempt per incident across runs, crashes and recoveries, recorded before
\* it is sent, offered only when answered (DISPATCH.md, repair_dispatch.rs).
ImplementsContract == Contract!Spec

=============================================================================
