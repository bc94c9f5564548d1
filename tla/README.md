# Bodhispace AI SRE in TLA+

Bodhispace AI SRE receives alert batches from Alertmanager, keeps one incident
per alert *episode* in a durable journal, investigates each with a bounded
reasoning run, and reports to an operator over ntfy. This directory models the
parts of it that are hard to test: what survives a crash, what a repeated or
reordered delivery does, what is spent and what is owed, and when a repair may
be validated on another host and offered to an operator.

All paths below are relative to the repository; its Rust sources are in `src/`.

## The system

| Component | State | Operations | Interacts by |
|---|---|---|---|
| Webhook intake (`transport.rs`) | none of its own | authenticate, parse, enqueue, wait for the answer (30 s each) | `mpsc(64)` of `IntakeCommand`, a `oneshot` answer |
| Normalization (`reasoning/incident.rs`) | none | identity of an alert, its event time, RFC3339 to milliseconds | called by the intake |
| Incident dispatcher (`reasoning/dispatcher.rs`) | lifecycle map, rebuilt from the journal | `new`, `process_one`, `mark_completed*`, `pending_investigations` | owned by the owner thread; commits to the journal |
| Journal store (`reasoning/storage.rs`) | SQLite: events, outbox, reports, markers, cost ledgers | `append*`, outbox, `reserve_cost`, `reconcile_cost` | one transaction per call |
| Incident owner (`application.rs`) | command under way, incidents to investigate | start-up, command loop, retry tick, completion, outbox drain | channel, journal, ntfy |
| Investigation (`reasoning/investigation.rs`, `tools.rs`, `live.rs`) | one run: evidence, attempts, tool calls | two baseline queries, provider turns, tool calls with checkpoints | providers, Grafana, journal |
| Coordinator (`coordinator.rs`, `router.rs`, `budget.rs`, `runtime.rs`) | attempted providers, budget totals, active attempt | `admit`, `fail_with`, `succeed_with` | called by the investigation |
| Deployment qualification (`storage/gitops.rs`, `gitops/*`) | receipts and their eligibility | record, contradict, qualify | intake directory, journal |
| Manual repair (`storage/manual_validation.rs`, `repair_dispatch.rs`) | one reservation, archive, hand-offs | prepare, validate remotely with rechecks, recover, acknowledge | journal, ssh to the validator |
| Sandbox validator (`gitops/sandbox/*`) | claimed requests, the active job | claim, begin, remember container, clear, recover | containers on another host |
| Owner thread (`application/owner_thread.rs`) | running, stopping, done | spawn, stop, wait ten seconds | watch channel |
| Operator service, pages, traces, adapters, promotion policy | small or none | requests, a bounded page map, a bounded trace queue | sockets, HTTP |

`PROJECT.json` lists every component with its files and how much of it is
modelled, and under `hazards` the places where the code can go wrong in a way a
unit test would hardly reach, with the property that watches each.

What makes the core hard: the lifecycle map is a cache of the journal with a
second, hand-written implementation (replay); Alertmanager delivers at least
once and in no order; the handler may give up on a command that is processed
all the same; the owner may die between any two commits, and a command holds
several; ntfy may accept a message whose mark is lost; a reservation outlives
the process that made it. A repair rests on a checkpoint, an inbox, a mirror and
a clock that all move while it waits minutes for another host, and that host
starts a process per request, any of which may die and leave a container behind
that no later process can name.

## Modules

- `IncidentLifecycle` — the dispatcher's map and journal; one action per arm of
  `process_one`, `MarkCompleted` for the three `mark_completed` operations,
  `ReplayEntry` for one turn of the loop in `new`, `PendingInvestigations`.
  `replayed` is not a variable of the program: it is the fold of `ReplayEntry`
  over the journal, kept along with it, that is, what a restart would find.
- `IncidentDispatch` — the dispatcher under any caller: signals in any order and
  number, completions at any later time, incidents given up, `Restart` between
  any two commits.
- `EpisodeContract` — what a key's episodes promise, without restarts, repeats
  and event times. `IncidentDispatch` implements it
  (`ImplementsEpisodes`).
- `IncidentWorker` — the real caller: webhook handlers, the bounded channel, the
  owner's loop, the outbox, crashes. Its `pc` is where the owner stands:
  `draining` (in `drain_outbox`), `idle` (in `select!`), `dispatching`
  (`process_new`), `investigating`, or `down`. It implements
  `IncidentDispatch` (`ImplementsDispatch`), so what is proved there holds here.
  While the process is down the mapping shows the dispatcher as the next start
  will build it; `Start` is then a stutter, and `Crash` is `Restart`.
- `CostLedger` — the three cost tables with `reserve_cost` and `reconcile_cost`,
  one transaction each.
- `PaidInvestigations` — one investigation at a time around `CostLedger`: the
  reservation, attempts that bill before they are recorded, attempts that are
  never recorded, settlement, and a restart anywhere, with a new day or month.
- `ReasoningRun` — the coordinator's run with its provider order and budget, as
  operations for its caller.
- `LiveInvestigation` — that caller: the baseline queries, the providers' turns,
  the tool calls with their checkpoints, the runtime's journal and the part of
  it that is durable. `stage` is where `investigate_live` stands; each wait for
  a provider or a query is two steps, so that the deadline or a crash can come
  between. A commit that fails (`ok` is false) ends the run, and so does a
  reservation that is refused.
- `FallbackContract` — what fallback promises, without totals, tools, deadlines
  and commits: the admitted providers in order, none passed over, none twice,
  each failure discarded whole. Two things end it before the providers are
  through, and the contract tells them apart: `Refuse`, when the budget has no
  room for the next provider, which must be one that needs a reservation, and
  `Abandon`, an error or a death. `LiveInvestigation` implements it
  (`ImplementsFallback`) with the stages `refused` and `failed`. That a refusal
  leaves the deterministic provider untried is what the code does and not what
  its documents say: see `live_refusal` below.
- `DeploymentQualification` — the rows of `qualified_deployments` and the facts
  about them: `AssessHealth` and `Eligible`, `RecordDeployment` for a first
  receipt, a replay or a contradiction, `Qualified` for what a repair may use.
- `ManualRepair` — the owner of a repair around it: the checkpoint read twice
  with a scan between (`ReadCheckpoint`, `BindCheckpoint`), done three times per
  repair (`phase` is `admit`, `dispatch` or `final`), the candidate, the one
  attempt (`Reserve`, `Send`, `ReceiveReceipt` or `ReceiveFailure`), the
  hand-off (`Finalize`); the operator's queue (`Submit`, `Expire`, `Execute`);
  and the owner thread (`RequestStop`, `DropOwner`, `ConfirmStop`). `pc` is where
  the owner stands between two awaits or commits. `GiveUp` stands for every early
  return of `RepairDispatch::run`, and is possible at each of its steps, since
  any read or commit may fail there.
- `RepairContract` — what a repair promises without checkpoints, clocks, tables
  and crashes: one attempt per incident, recorded before it is sent, offered once
  and only when answered. `ManualRepair` implements it (`ImplementsContract`).
- `SandboxWorker` — the validator host: worker processes, one per delivery, that
  share the state directory, its lock and the Podman stores. `pc[w]` is a
  worker's place in `serve_worker`; `recover`, `remove`, `sweep` and `clear` are
  the steps of `recover_pending`, which three callers enter, and `after[w]` is
  the one to return to. Launchers and containers outlive their worker.
- `IncidentDispatchProofs`, `IncidentWorkerProofs`, `PaidInvestigationsProofs`,
  `LiveInvestigationProofs`, `ManualRepairProofs`, `SandboxWorkerProofs` — the
  theorems; `IncidentLifecycleProofs` has the lemmas on the dispatcher's arms
  that the first two share, and `DataLemmas` those on selections and sums.
- `Selection` — the rows a query selects, in the order of the table, as a
  recursive function: the messages `pending_outbox` returns, and the runtime's
  part of a run's scope.
- `MC*` modules give small values; the `.cfg` files name the runs.

### Abstractions

An incident identity is the pair of key and episode, since fingerprints and
label hashes are hexadecimal and the textual form is invertible. Event times
are texts with an instant, because the code orders by the instant and
recognises repeats by the text. Alert labels, report texts and notification
bodies are left out. A failed commit ends the process in the code, so it is the
same step as a crash. The cost model assumes that a provider bills at most the
250,000 micro-dollars reserved for it and that run identities, which contain
the time in milliseconds, are distinct. The first of these is an assumption on
the providers and not on the code: a provider resumed after tool calls is
called again under the same reservation (see `live_calls` below).

In `LiveInvestigation` a report is the last evidence it cites, 0 for none, which
is what its validation asks about; the size of a transcript is the number of
results, of which `ResultsThatFit` always fit; classes of failure, elapsed times
and token counts decide nothing and are left out. `asked` and `modelTurns`
are not variables of the program: they count what left it.

In `ManualRepair` a candidate is the incident, the run, the base and the receipt
its image is taken from; digests are compared as values, and a patch is a
function of the candidate. Receipts have their whole health record, since
eligibility is computed from it. A read of a protected file succeeds or fails.
The offline entry points `validate_manual_repair` and `run_incident_repair` are
called by tests only and are left out. The operator's `inspect` writes nothing.

In `SandboxWorker` a worker names its job, launcher, container and snapshot,
since the token and the name of a job are drawn at random from a range in which
they do not recur. The content of a request, of a snapshot and of the output is
left out; that a container exited with 0 is `exit`.

## Runs

| Run | Question | Bounds |
|---|---|---|
| `dispatch` | Does the dispatcher keep its promises under any caller and restart? | two symmetric keys, five event texts of which two tie, five journal entries (210,329 states) |
| `worker` | Does the application lose, repeat or separate anything, and does everything get done in the end? | three deliveries of two alerts (fire, recover with another alert, fire again), the first may be retried, channel of one, one crash (378,215 states) |
| `paid` | Do the ledgers hold what was spent, and no more than their ceilings? | four runs, two incidents, two paid providers, two days, one month; a day fits two runs, a month three (446,214 states) |
| `live` | Does one investigation keep to its budgets, its evidence and its order of providers, and end? | three models and the deterministic provider, admitted in any combination; provider calls for two of the models, three queries, two tool turns, responses of one or two calls out of two identities or a blank one, two turns sent to models in all (589,134 states) |
| `repair` | Is a repair attempted once, and offered only on evidence that stands? | one incident, two receipts of one deployment that contradict each other, each healthy for a time of its own, two revisions, three seconds, a clock set back once, two starts, one waiting command (2,333,151 states) |
| `sandbox` | Does the validator host ever lose a container, or run a request twice? | three workers, the first two for one request, on one store or two; a table of two claims, some of them taken before (304,396 states) |
| `dispatch_order`, `paid_refusal`, `paid_incident`, `live_deterministic`, `live_refusal`, `live_calls` | Does the code do what its documents say? | as above; each ends in a counterexample, see below |

*Why the bounds are enough.* Every property of the dispatcher speaks of one key,
or of two entries of one key; five entries reach open, complete, recover, reopen
and a late or repeated event, and the theorems cover the rest. A channel of one
with three deliveries makes a handler wait on a full channel, time out there,
and time out behind a command that is processed all the same. One crash lands
at every step; a second would start from a state the first already reaches. A
reservation of two units against ceilings of two, four and six makes each of
the three ledgers the one that refuses. In `live` the third query is the one
spare query, so a second tool call meets the spent budget; two identities let a
model repeat its own call and a second model repeat the first one's; two turns
let one model resume or a second one start; and the third model meets a budget
without a call left. The deadline and a crash may come at every step.

In `repair` a checkpoint lives two seconds and a request one, so a repair that is
quick passes and any wait makes something expire: the checkpoint before the
reservation, the request before its answer, the validation before the hand-off,
the health of one receipt but not of the other. Two starts let a second process
meet what the first left. The publisher, the mirror, the operator, the main
thread and a clock set back move only while the owner waits
(`OthersMoveAtAwaits`, an action constraint): between two awaits the owner reads
nothing they write, apart from the clock, whose ticks stay free, as do crashes.
Once the incident is completed only operators and shutdowns go on. In `sandbox`
the third worker cleans up after the second, which cleaned up after the first;
the same request comes to the first two in any order and at any distance, and
the claims of earlier deliveries leave room for none, one or both requests.

`MaxJournal`, `MaxAttempts`, `MaxCrashes`, `MaxModelTurns`, `MaxBase`, `MaxClock`,
`MaxBacks`, `MaxStarts` and the sizes of the sets are the only bounds. In `worker`
`MaxJournal` is above what the deliveries can produce, so it never blocks a step.
`CHECK_DEADLOCK FALSE` is set there because the bounded deliveries are used up in
the end and nothing is left to happen, and in the `live` runs because an
investigation ends. In `repair` the seconds and starts are used up, in `sandbox`
the deliveries. A model whose turn is over `MaxModelTurns` is never sent; like a
silent one it may be waited for until the deadline, and only the deadline must
end it.

*Fairness.* The owner's loop is one task that always has a next statement, so
each of its steps is weakly fair; its investigations are bounded by the wall
clock (`timeout(remaining, ...)`), so one ends. `Start` is fair because the
service runs under a supervisor. `Publish` and `Mark(TRUE)` are strongly fair:
the network and the database do work now and then, and without that no outbox
empties. Nothing is assumed of handlers, timeouts, Alertmanager or crashes,
which happen finitely often by `MaxCrashes`. An investigation is one future that
is always polled, so its steps that wait for nobody (`Unprompted`) are weakly
fair together with what `timeout(remaining, ...)` and `remaining()` end once the
time is spent (`CutOff`: the baseline's query, a provider's turn, a tool's
query); and its clock runs (`Expire`). No answer of Grafana, of a provider or of
a tool is fair: `InvestigationEnds` fails as soon as one of these waits is not
cut off, since each may last for ever. A worker of the validator host waits for nothing
without a limit (ten seconds for Podman's answers and for a killed launcher, the
job's own time, the request's expiry), so each worker's `Step` is weakly fair;
its failures and crashes, the containers and the launchers are not. Manual
repair has no liveness property: an attempt that a crash leaves behind waits for
an operator by design.

## What is checked

Of the dispatcher: a restart stands where the running process stood
(`ReplayAgreement`), lifecycle facts are in the order of event times
(`LifecycleFactsInOrder`), a firing event opens one episode however often it
comes (`EventOpensOnce`, unless events tie in their millisecond), and episodes
open and complete once, in turn (`ImplementsEpisodes`).

Of the owner: what is answered 202 is durable (`AnsweredIsDurable`), a restart
takes up whatever is unfinished (`UnfinishedIsPending`, for batches with one
alert per fingerprint, as Alertmanager groups them), a completion and its
notification are never separated (`CompletionCarriesNotice`), and a mark means
that ntfy accepted the message (`MarkedIsReceived`). Under fairness every opened
episode is finished or given up (`InvestigationsEnd`), no notification stays for
ever (`OutboxDrains`) and the channel is empty again and again
(`CommandsTaken`): deliveries and attempts being finitely many, every command is
taken or dies with the process.

Of the ledgers: each is the sum of its reservations (`LedgerIsSum`), none passes
its ceiling (`WithinCeilings`), and they hold what was billed
(`DebitsKept`), with one exception that the property names.

Of an investigation, which is one run (a restart begins another, with counters
of its own): no more queries leave the process than its limit
(`QueriesWithinLimit`), none is sent twice or before its checkpoint
(`QueriedOnce`), a request without a result is the last thing a run wrote
(`UnresolvedIsLast`), the store has the runtime's facts once, in order and
before a model goes on from them (`StoreFollowsRuntime`), a model is told the
number under which its evidence can be cited (`ResultsNameTheirEvidence`), the
answer, the runtime and the store agree on how it ended (`OutcomeAgrees`), the
admitted providers have their turns in order unless an error, a death or a
refused reservation ends the run (`ImplementsFallback`), and it does end
(`InvestigationEnds`).

Of a repair: the row of a deployment is what the journal's facts about it say,
so that nothing makes an invalidated deployment eligible again
(`QualificationAudited`); every reserved request is in the active attempts or in
the archive, once, with its receipt if one came (`ReservationsAccounted`); no
fact is written twice, and each is filed under its incident (`FactsOnce`); a
hand-off rests on a deployment that no receipt seen so far contradicts and that
is healthy at that moment (`HandoffUncontradicted`); after a confirmed shutdown
nothing is written or sent (`ConfirmedIsQuiet`); and an incident gets one attempt
across runs, crashes and recoveries (`ImplementsContract`).

Of the validator host: a container or a launcher that could still create one is
named by the active row (`SettledMeansGone`), a request is launched at most once
(`LaunchedOnce`), an answer stands for a container that passed and is gone, with
its snapshot and its row (`AnswersAreSettled`), and a worker gives the state
directory back (`LockReleased`).

Things the models show that no document denies: a worker that dies before its
container exists leaves a row that no later worker can settle until the container
appears, so the host refuses work until an operator steps in, as
`packaging/validator/README.md` says; a worker that ends with an error drops its
snapshot even if its container may still be running; and a batch that names one
alert twice, which Alertmanager does not send, would let the completion of its
first episode mark the second.

## What is proved

For every set of keys, event times and every bound on the journal, of
`IncidentDispatch`: `TypeOK`, `ReplayAgreement`, `OpenedOnce`,
`LifecycleFactsInOrder`, `EventOpensOnce`, `CompletedOnce`, and the refinement
of `EpisodeContract`. The only assumptions are that each event text has an
instant and that the journal's bound is a number.

None of these is inductive alone. The invariant `IInv` of
`IncidentDispatchProofs` ties three things together: the journal against the
map (the last opening, recovery or resumption of a key is at or before the
map's event time, and its episode is the map's), the map against its replay
(same position, no later time), and the incidents handed out against both (a
handed-out incident has been opened and not completed, and its episode is no
later than the key's). Numbering then gives `OpenedOnce`, staleness gives the
order of facts, and a completed incident is out of everybody's hands, which
gives `CompletedOnce`, also after a restart hands out
`PendingInvestigations`.

For every set of keys and deliveries, any alerts in them, every number of
attempts and crashes and every capacity of the channel, of `IncidentWorker`:
`WorkerTypeOK`, `AnsweredIsDurable`, `UnfinishedIsPending`,
`CompletionCarriesNotice`, `MarkedIsReceived`, and the refinement of
`IncidentDispatch`. The parts of the invariant `WorkerInv`:
`Places`, what the owner has in hand at each place; `Standing`, that memory and
replay agree, as in the dispatcher's own proof; `Handed`, that the incidents in
hand are distinct and none is of an episode to come; `Mailed`, that what is sent,
accepted and marked comes from the outbox; `Recorded`, that each alert of an
answered command, and of the one in hand, is in the journal or still to
dispatch.

`UnfinishedIsPending` needs more, `Carried`. `mark_completed` does not ask which
episode it completes: it marks the one that is firing. So an incident in hand
must be the one its key is at (`Current`), and for that no alert of its key may
still be to dispatch in the same command (`Apart`). Only this theorem has a
hypothesis, and it is about Alertmanager and not about the code,
`DistinctAlerts`: a delivery names a key once. `validate_webhook` does not check
it, and without it the property fails: were one delivery to fire, resolve and
fire a key, the completion of the first incident would mark the second. The
runs' deliveries fulfil it.

For every set of runs, days, months, providers and all limits, of
`PaidInvestigations`: `TypeOK` (so that no settlement takes a ledger below
zero), `WithinCeilings`, `DebitsKept` and `LedgerIsSum`. The invariant says that while a run is
under way its reservation stands in the tables as it was written, that every
provider not yet called still has its part of it, and that the ledgers hold,
besides what was billed, the part that is `Due`: all of it if nothing has been
recorded when the run is over, and otherwise what has not been spent. A
settlement takes back exactly what is due. The assumptions are that the ceilings
and the part are numbers, the paid providers a finite set, and the three kinds
of scope distinct.

For every set of providers, every order and admission of them, all limits,
reservations and call identities, of `LiveInvestigation`: `TypeOK`,
`QueriesWithinLimit`, `QueriedOnce`, `ResultsNameTheirEvidence`,
`StoreFollowsRuntime`, `UnresolvedIsLast`, `OutcomeAgrees`, and the refinement
of `FallbackContract`. The argument first sorts the steps by what
they do to the provider under way (`StepKinds`), to the queries (`QueryKinds`)
and to the store, the board and the results (`StepLogs`, and with what each
checkpoint takes along, `StepCases`), and then needs seven invariants. `FallbackInv`: the attempted providers are the admitted ones up to a
position of the order, and `stage` tells whether one is under way; this is what
makes the next provider the first one ahead of the contract's position. A
refused reservation is a step of its own there (`Refuses`): it is refused to the
next provider, which is not the deterministic one.
`CallInv`: a call is at hand where one is executed, and it was charged where it
is sent. `ChargeInv`: every query sent was charged, one that waits to be sent
too, except the last query of a run that failed, which the baseline sends before
it charges. `OnceInv`: nothing of its name was sent before a baseline query, and
a tool's query that waits to be sent is durable and new, because a recorded
request is refused and the store only grows. `StoreInv`: the runtime's part of
the store is what it recorded up to the cursor, and the cursor is at the end
while a result is at hand and when the investigation is done. `RequestInv`: a
request without its result is the last row, it is the call at hand's, and what
waits to be persisted with its result is the start of a phase and nothing else;
so a result is never filed behind another request. `OutcomeInv`: the attempts
are those of the attempted providers but the one under way, every envelope has
its fact, and while no provider has succeeded nothing says that a report was
accepted. With `StoreInv` at the end, the facts of the evidence are durable; with
`FallbackInv` and no provider left, every admitted one has failed. The
assumptions: providers are none
of the words that stand for no provider, the order repeats none of them, the
limit on queries is set, call identities are distinct from the baseline's
queries and from a blank one, and the bounds are numbers.

For every set of incidents, receipts and deployments, all lifetimes, every
capacity of the queue and every bound on clock, revisions and starts, of
`ManualRepair`: `RepairTypeOK`, `QualificationAudited`, `ReservationsAccounted`,
`FactsOnce`, `HandoffUncontradicted`, `ConfirmedIsQuiet`, and the refinement of
`RepairContract`. The invariant `RepairInv` has four layers. `Places`: what the
owner has in hand at each place, and that only an owner that is gone confirms a
stop. `QualificationAudited` with `AuditNamed`: the rows and the facts about them
agree, and a fact is about the deployment of its receipt; a qualified deployment
therefore has a single fact. `Books`: tables, journal and requests sent agree,
every fact is filed under its incident, and a nonce is smaller than the length of
the journal, so that a new request was never sent. `Course` and `Imported`: until
its request is reserved, a run's incident has none, of any run, because every
reservation is filed where `already_attempted` looks; its incident has no offer;
and at the end of an import every receipt of the admission is that of its
deployment's row or has invalidated it. The assumptions are that the bounds are
numbers, that the first second is within its bound, and that `None` is neither a
number nor the name of a phase; and, for receipts, the record `validate_shape`
lets through.

For every set of workers, requests and stores, every delivery and every bound on
claims, of `SandboxWorker`: `SandboxTypeOK`, `SettledMeansGone`, `LaunchedOnce`
and `AnswersAreSettled`. The invariant `SandboxInv` says that one worker at most
is past the lock; that `after` tells how far a worker has come; that the store of
every worker past its first recovery is the bound one; that the active row names
the job of that store with the launcher and container it may still have; and that
a receipt in a worker's hands is of a container that exited with 0. The
assumptions: deliveries name requests, the bound on claims is a number, a
worker's store is one of the stores, and `None` is neither a worker nor a store.

Recursive functions and folds are within reach of the provers: their value at
each place follows from a smallest counterexample (`WFMin` on the order of the
numbers), as `DataLemmas` does for `Selected` and for `SumFunctionOnSet`. What is
reasoned about is said with these, since `SelectSeq` and `MapThenSumSet` take an
operator, over which no lemma here can quantify.

Only model-checked is liveness: that the worker's work is done, that the
investigation ends, and that the validator's lock is released. It needs fairness
and `ENABLED`, which are out of the prover's reach.

## Where code and documents part

- `dispatch_order`: a recovery that follows a recovery moves the event time in
  memory only. After a restart an older event is admitted that the running
  process would have recorded as out of order, against the plan's "Out-of-order
  older events are recorded but cannot regress state".
- `paid_refusal`: a run that fails after a paid turn and before an attempt is
  recorded is settled as if it had cost nothing, against "failure ... keeps the
  conservative debit".
- `paid_incident`: the incident ledger is named by the run, so a restart gives
  an incident a full ceiling again, against "process restart cannot ... reset
  spend".
- `live_deterministic`: `investigate_live` gives the deterministic provider no
  evidence to cite, and a report that cites nothing is refused. When every
  model fails, so does the provider that cannot fail, and the operator gets a
  placeholder, against "falling back to deterministic enrichment when every
  provider is unavailable or invalid".
- `live_refusal`: when the budget refuses the reservation of the next model, the
  error ends the investigation. The deterministic provider behind it, which needs
  no reservation, is not tried, and no report is produced; it is enough that the
  models before it were admitted, even if they turned out not to be configured.
  The plan says "Exhaustion shall stop further model/tool calls and publish the
  deterministic baseline". `tests/contract/providers.rs:825` expects the error,
  of three models and no deterministic provider. The default limits have room for
  every model; those of a configured `reasoning.budget` are not checked for it.
- `live_calls`: a provider call is reserved once per provider, and each tool
  response leads to another call, against "Maximum provider calls, including
  fallback restarts".

The rows under `findings` in `PROJECT.json` quote the lines.

One more disagreement has no run, since nothing that is modelled depends on it:
`web/incidents.rs:17` says that `put` "Stores the latest report and evicts oldest
keys at the bound", but past 256 reports the `BTreeMap` drops its smallest key,
which need not be the oldest and may be that of the report just stored. A restart
restores the most recent ones (`stored_reports`), and the same loop evicts then.

## Not modelled

Adapters, parsing, rendering and configuration keep no state that outlives a
call; their outcomes appear as choices of the callers. The page map keeps rendered
reports for the operator's browser, and nothing else reads them. Metrics, logs and traces
decide nothing. The promotion policy is a pure decision over one record that the
application does not act on. The RFC3339 parser, the label hash and the patch of
an image reference are functions of text: the models take what they return.

## Plan

1. Proofs of what the next models add; every safety property of the present
   ones is proved.
2. The investigation and the repair inside the worker: `LiveInvestigation` in
   place of the attempts of `PaidInvestigations`, `ManualRepair` between an
   investigation and its completion.
