---------------------------- MODULE ReasoningRun ----------------------------
(***************************************************************************)
(* ReasoningRun of src/reasoning/coordinator.rs with its provider order    *)
(* (router.rs) and its budget (budget.rs): the state of one run and the    *)
(* operations IncidentRuntime calls on it.  An operation that may refuse   *)
(* has its condition as an operator of its own, since the caller goes on   *)
(* differently in each case.                                               *)
(*                                                                         *)
(* Failure classes and the measured facts of an attempt decide nothing and *)
(* are left out.                                                           *)
(***************************************************************************)
EXTENDS Integers, Sequences

CONSTANTS
    Providers,      \* ProviderKind
    Order,          \* provider_order
    Deterministic,  \* the provider that is no model
    Limits,         \* BudgetConfig, as a function of the resource
    Reservation     \* what one attempt reserves

None == "none"
Unlimited == -1     \* max_cost_micro_usd: None

Resources == {"provider_calls", "tokens", "evidence_queries", "cost_micro_usd"}

\* ProviderOrder::validate refuses an empty order and a repeated provider.
ASSUME OrderAssumption ==
    /\ Providers \cap {None, "Exhausted"} = {}
    /\ Deterministic \in Providers
    /\ Order \in Seq(Providers)
    /\ \A i, j \in 1 .. Len(Order) : Order[i] = Order[j] => i = j
ASSUME BudgetAssumption ==
    /\ Limits \in [Resources -> Nat \cup {Unlimited}]
    /\ Limits["evidence_queries"] \in Nat
    /\ Reservation \in [Resources -> Nat]

VARIABLES
    admission,  \* ProviderAdmission
    totals,     \* BudgetState
    attempted,
    active,     \* the provider under way, or None
    status,     \* None, "Exhausted" or the provider that succeeded
    attempts    \* AttemptRecords

runVars == <<admission, totals, attempted, active, status, attempts>>

Attempt == [provider : Providers, succeeded : BOOLEAN]

RunInit ==
    /\ admission \in SUBSET Providers
    /\ \E i \in 1 .. Len(Order) : Order[i] \in admission
    /\ totals = [r \in Resources |-> 0]
    /\ attempted = {}
    /\ active = None
    /\ status = None
    /\ attempts = <<>>

\* A ceiling test that leaves the amount itself out.
FitsBefore(amount) ==
    \A r \in Resources : Limits[r] = Unlimited \/ totals[r] <= Limits[r]

\* reserve: the whole amount or nothing.
Fits(amount) ==
    \A r \in Resources : Limits[r] = Unlimited \/ totals[r] + amount[r] <= Limits[r]

Charge(amount) == totals' = [r \in Resources |-> totals[r] + amount[r]]

Query == [r \in Resources |-> IF r = "evidence_queries" THEN 1 ELSE 0]

\* Positions in Order of the providers that are admitted and not yet attempted.
Remaining == {i \in 1 .. Len(Order) : Order[i] \in admission \ attempted}

NextProvider ==
    IF status # None \/ active # None \/ Remaining = {}
    THEN None
    ELSE Order[CHOOSE i \in Remaining : \A j \in Remaining : i <= j]

Engage(p) ==
    /\ attempted' = attempted \cup {p}
    /\ active' = p
    /\ UNCHANGED <<admission, status, attempts>>

AdmitDeterministic ==
    /\ NextProvider = Deterministic
    /\ Engage(Deterministic)
    /\ UNCHANGED totals

Admit ==
    /\ NextProvider \notin {None, Deterministic}
    /\ Fits(Reservation)
    /\ Charge(Reservation)
    /\ Engage(NextProvider)

\* Asks every provider for a reservation.
AdmitRefusedToAny ==
    /\ NextProvider # None
    /\ ~Fits(Reservation)
    /\ UNCHANGED runVars

\* The error that admit returns without choosing another provider.
AdmitRefused ==
    /\ NextProvider \notin {None, Deterministic}
    /\ ~Fits(Reservation)
    /\ UNCHANGED runVars

AdmitNobody ==
    /\ status = None
    /\ active = None
    /\ Remaining = {}
    /\ status' = "Exhausted"
    /\ UNCHANGED <<admission, totals, attempted, active, attempts>>

ReserveQuery ==
    /\ Fits(Query)
    /\ Charge(Query)
    /\ UNCHANGED <<admission, attempted, active, status, attempts>>

Fail ==
    /\ active # None
    /\ attempts' = Append(attempts, [provider |-> active, succeeded |-> FALSE])
    /\ active' = None
    /\ UNCHANGED <<admission, totals, attempted, status>>

Succeed ==
    /\ active # None
    /\ attempts' = Append(attempts, [provider |-> active, succeeded |-> TRUE])
    /\ status' = active
    /\ active' = None
    /\ UNCHANGED <<admission, totals, attempted>>

RunTypeOK ==
    /\ admission \subseteq Providers
    /\ totals \in [Resources -> Nat]
    /\ attempted \subseteq Providers
    /\ active \in Providers \cup {None}
    /\ status \in Providers \cup {None, "Exhausted"}
    /\ attempts \in Seq(Attempt)

=============================================================================
