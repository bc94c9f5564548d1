------------------------- MODULE PaidInvestigations -------------------------
(***************************************************************************)
(* What an investigation may spend: reserve_paid_budget and the            *)
(* reconciliation in serve_until (src/application.rs), around the provider *)
(* attempts of run_live_with_context (src/reasoning/investigation.rs), one *)
(* investigation at a time, with crashes and restarts between any two      *)
(* steps.                                                                  *)
(*                                                                         *)
(* Run identities are distinct: incident_id and now_ms.  What a provider   *)
(* bills is external and taken to be at most Part for a whole attempt, the *)
(* worst case the code reserves for it.  The runtime never learns a cost   *)
(* (AttemptFacts.cost_micro_usd is None throughout), so the projection     *)
(* knows the cost of a run exactly when it has no recorded attempt, and    *)
(* then it is 0.                                                           *)
(***************************************************************************)
EXTENDS CostLedger, FiniteSets, FiniteSetsExt, Functions

CONSTANTS
    Incidents,      \* incidents to investigate
    PaidProviders,  \* gated API providers: Gemini, DeepSeek
    Part            \* worst-case cost of one provider: 250_000

None == "none"

ASSUME IncidentsAssumption == None \notin Incidents
ASSUME ProvidersAssumption == IsFiniteSet(PaidProviders) /\ PaidProviders # {}
ASSUME PartAssumption == Part \in Nat

VARIABLES
    period,    \* the day and month the process was configured with
    stage,     \* idle, running, over or settled
    run,       \* the run under way: its id, incident, admission and progress
    runOf,     \* the incident of each run, None before it is used
    finished,  \* incidents completed
    aside,     \* incidents this process gave up
    billed,    \* what providers charged, in each scope
    unseen     \* the part of it that a failed run never recorded

progressVars == <<period, runOf, finished, aside>>
billVars == <<billed, unseen>>
vars == <<ledgerVars, stage, run, progressVars, billVars>>

Periods == [day : Days, month : Months]

NoRun == [admitted |-> FALSE]

\* untried: paid providers not yet called; active: the one whose attempt is
\* not yet recorded; recorded: the runtime's journal has an attempt; spent:
\* what this run was billed; ok: investigate_live returned a result.
Run ==
    [id : Runs, incident : Incidents, admitted : BOOLEAN, untried : SUBSET PaidProviders,
     active : BOOLEAN, recorded : BOOLEAN, spent : Nat, ok : BOOLEAN]

Amount == Part * Cardinality(PaidProviders)

ScopesOf(r) == {r, period.day, period.month}

Init ==
    /\ LedgerInit
    /\ period \in Periods
    /\ stage = "idle"
    /\ run = NoRun
    /\ runOf = [r \in Runs |-> None]
    /\ finished = {}
    /\ aside = {}
    /\ billed = [s \in Scopes |-> 0]
    /\ unseen = [s \in Scopes |-> 0]

\* reserve_paid_budget; if it says no the run goes on without paid providers.
Begin(i, r) ==
    /\ stage = "idle"
    /\ i \notin finished \cup aside
    /\ runOf[r] = None
    /\ Reserve(r, Amount, ScopesOf(r))
    /\ run' = [id |-> r, incident |-> i, admitted |-> Admits(r, Amount, ScopesOf(r)),
               untried |-> PaidProviders, active |-> FALSE, recorded |-> FALSE,
               spent |-> 0, ok |-> FALSE]
    /\ runOf' = [runOf EXCEPT ![r] = i]
    /\ stage' = "running"
    /\ UNCHANGED <<period, finished, aside, billVars>>

\* An amount added to the counters of the run's scopes.
Added(f, cost) == [s \in Scopes |-> IF s \in ScopesOf(run.id) THEN f[s] + cost ELSE f[s]]

\* The turns of one paid attempt; each provider is admitted once in a run.
Call(p, cost) ==
    /\ stage = "running"
    /\ run.admitted
    /\ ~run.active
    /\ p \in run.untried
    /\ run' = [run EXCEPT !.untried = @ \ {p}, !.active = TRUE, !.spent = @ + cost]
    /\ billed' = Added(billed, cost)
    /\ UNCHANGED <<ledgerVars, stage, progressVars, unseen>>

\* An attempt of OpenAI, of the baseline, or of a provider that is not there.
CallUnpaid ==
    /\ stage = "running"
    /\ ~run.active
    /\ run' = [run EXCEPT !.active = TRUE]
    /\ UNCHANGED <<ledgerVars, stage, progressVars, billVars>>

\* fail_provider or succeed_provider: the attempt is in the runtime's journal.
Record ==
    /\ stage = "running"
    /\ run.active
    /\ run' = [run EXCEPT !.active = FALSE, !.recorded = TRUE]
    /\ UNCHANGED <<ledgerVars, stage, progressVars, billVars>>

\* No evidence, no budget or no time before the next attempt, no provider left,
\* or a report.  A result follows an attempt.
End(ok) ==
    /\ stage = "running"
    /\ ~run.active
    /\ ok => run.recorded
    /\ run' = [run EXCEPT !.ok = ok]
    /\ stage' = "over"
    /\ UNCHANGED <<ledgerVars, progressVars, billVars>>

\* execute_model_tool fails after a turn (a checkpoint that cannot be written, a
\* result the evidence board refuses): the attempt is never recorded.
Refuse ==
    /\ stage = "running"
    /\ run.active
    /\ run' = [run EXCEPT !.active = FALSE]
    /\ stage' = "over"
    /\ unseen' = IF run.recorded THEN unseen ELSE Added(unseen, run.spent)
    /\ UNCHANGED <<ledgerVars, progressVars, billed>>

\* A missing cost taken for no cost.
SettleUnknown ==
    /\ stage = "over"
    /\ stage' = "settled"
    /\ IF run.admitted THEN Reconcile(run.id, 0) ELSE UNCHANGED ledgerVars
    /\ UNCHANGED <<run, progressVars, billVars>>

\* reconcile_cost: unknown_cost_attempts = 0 releases, else the debit stays.
Settle ==
    /\ stage = "over"
    /\ stage' = "settled"
    /\ IF run.admitted /\ ~run.recorded
       THEN Reconcile(run.id, 0)
       ELSE UNCHANGED ledgerVars
    /\ UNCHANGED <<run, progressVars, billVars>>

\* A run that is over and still the one under way.
ConcludeKeepingRun ==
    /\ stage = "settled"
    /\ stage' = "idle"
    /\ finished' = finished \cup {run.incident}
    /\ UNCHANGED <<ledgerVars, run, period, runOf, aside, billVars>>

\* mark_completed_with_report, or on to the next incident.
Conclude ==
    /\ stage = "settled"
    /\ stage' = "idle"
    /\ run' = NoRun
    /\ IF run.ok
       THEN finished' = finished \cup {run.incident} /\ UNCHANGED aside
       ELSE aside' = aside \cup {run.incident} /\ UNCHANGED finished
    /\ UNCHANGED <<ledgerVars, period, runOf, billVars>>

\* The process dies and another starts, perhaps with the next day's settings.
Restart ==
    /\ stage' = "idle"
    /\ run' = NoRun
    /\ aside' = {}
    /\ period' \in Periods
    /\ UNCHANGED <<ledgerVars, runOf, finished, billVars>>

Next ==
    \/ \E i \in Incidents, r \in Runs : Begin(i, r)
    \/ \E p \in PaidProviders, cost \in 0 .. Part : Call(p, cost)
    \/ CallUnpaid
    \/ Record
    \/ \E ok \in BOOLEAN : End(ok)
    \/ Refuse
    \/ Settle
    \/ Conclude
    \/ Restart

Spec == Init /\ [][Next]_vars

-----------------------------------------------------------------------------
(* Type correctness *)

\* Tables, run and bills keep their types; ledgers never become negative.
TypeOK ==
    /\ ledger \in [Scopes -> Nat]
    /\ booked \in [Runs -> Booking]
    /\ period \in Periods
    /\ stage \in {"idle", "running", "over", "settled"}
    /\ run \in IF stage = "idle" THEN {NoRun} ELSE Run
    /\ runOf \in [Runs -> Incidents \cup {None}]
    /\ finished \subseteq Incidents
    /\ aside \subseteq Incidents
    /\ billed \in [Scopes -> Nat]
    /\ unseen \in [Scopes -> Nat]

-----------------------------------------------------------------------------
(* Safety *)

Covers(s, r) == booked[r] # Free /\ s \in booked[r].scopes

\* A ledger is the sum of what its reservations cost, measured or worst case:
\* no crash, refusal or settlement leaves it with a debit of no reservation, or
\* a reservation without its debit (reserve_cost, reconcile_cost).
LedgerIsSum ==
    \A s \in Scopes :
        ledger[s] = SumFunctionOnSet([r \in Runs |-> Debit(r)], {r \in Runs : Covers(s, r)})

\* No ledger passes its ceiling, whichever of the three fills first.
WithinCeilings == \A s \in Scopes : ledger[s] <= Ceiling(s)

\* What providers have billed is in the ledgers, at any instant, but for the
\* runs that failed before their first attempt was recorded: other failures,
\* lost usage and crashes keep the debit, and only what was never spent is
\* released (reconcile_cost and its caller).
DebitsKept == \A s \in Scopes : billed[s] <= ledger[s] + unseen[s]

-----------------------------------------------------------------------------
(* What the documents say of failed runs and of restarts *)

\* A failure keeps the conservative debit, so all spend is in the ledgers.
SpendCovered == \A s \in Scopes : billed[s] <= ledger[s]

Spend(i) == MapThenSumSet(LAMBDA r : billed[r], {r \in Runs : runOf[r] = i})

\* One incident costs at most its ceiling, over all its runs.
IncidentSpendBounded == \A i \in Incidents : Spend(i) <= IncidentLimit

=============================================================================
