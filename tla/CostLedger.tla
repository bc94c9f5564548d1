----------------------------- MODULE CostLedger -----------------------------
(***************************************************************************)
(* The cost tables of JournalStore: budget_ledgers, budget_reservations    *)
(* and budget_reservation_scopes, with reserve_cost and reconcile_cost     *)
(* (src/reasoning/storage.rs).  Each is one SQLite transaction, so each is *)
(* one step.                                                               *)
(*                                                                         *)
(* A reservation is named by its run.  A scope is the ledger of one run,   *)
(* of one day or of one month, and every ledger of a kind has the ceiling  *)
(* the configuration gives that kind.  Amounts are in any unit; i64 is     *)
(* never near its limit (saturating_add).                                  *)
(***************************************************************************)
EXTENDS Integers

CONSTANTS
    Runs,           \* run identities, each used for one investigation
    Days,           \* values of AI_SRE_BUDGET_DAY
    Months,         \* values of AI_SRE_BUDGET_MONTH
    IncidentLimit,  \* max_cost_micro_usd
    DayLimit,       \* AI_SRE_DAILY_COST_LIMIT_MICRO_USD
    MonthLimit      \* AI_SRE_MONTHLY_COST_LIMIT_MICRO_USD

Scopes == Runs \cup Days \cup Months

Ceiling(s) ==
    IF s \in Runs THEN IncidentLimit ELSE IF s \in Days THEN DayLimit ELSE MonthLimit

ASSUME ScopesAssumption ==
    Runs \cap Days = {} /\ Runs \cap Months = {} /\ Days \cap Months = {}
ASSUME LimitsAssumption ==
    IncidentLimit \in Nat /\ DayLimit \in Nat /\ MonthLimit \in Nat

VARIABLES
    ledger,   \* reserved_micro_usd of each scope, 0 where it has no row
    booked    \* the reservation of each run, Free where it has none

ledgerVars == <<ledger, booked>>

Free == [state |-> "free"]

Open(amount, scopes) == [state |-> "open", amount |-> amount, scopes |-> scopes]

Settled(b, actual) ==
    [state |-> "settled", amount |-> b.amount, scopes |-> b.scopes, actual |-> actual]

Booking ==
    {Free}
        \cup [state : {"open"}, amount : Nat, scopes : SUBSET Scopes]
        \cup [state : {"settled"}, amount : Nat, scopes : SUBSET Scopes, actual : Nat]

LedgerInit ==
    /\ ledger = [s \in Scopes |-> 0]
    /\ booked = [r \in Runs |-> Free]

\* A ceiling test that leaves the amount itself out.
FitsBefore(amount, scopes) == \A s \in scopes : ledger[s] <= Ceiling(s)

\* Every scope is tested before any is charged.
Fits(amount, scopes) == \A s \in scopes : ledger[s] + amount <= Ceiling(s)

\* reserve_cost answers Ok: the amount fits, or the reservation is a repeat.
Admits(r, amount, scopes) == booked[r] # Free \/ Fits(amount, scopes)

Charged(amount, scopes) ==
    [s \in Scopes |-> IF s \in scopes THEN ledger[s] + amount ELSE ledger[s]]

Reserve(r, amount, scopes) ==
    IF booked[r] = Free /\ Fits(amount, scopes)
    THEN /\ ledger' = Charged(amount, scopes)
         /\ booked' = [booked EXCEPT ![r] = Open(amount, scopes)]
    ELSE UNCHANGED ledgerVars

\* The scopes get the measured cost but keep the reservation.
ReconcileAddsActual(r, actual) ==
    LET b == booked[r] IN
    /\ b.state = "open"
    /\ ledger' = Charged(actual, b.scopes)
    /\ booked' = [booked EXCEPT ![r] = Settled(b, actual)]

\* reconcile_cost with a known cost, the first time.
Reconcile(r, actual) ==
    LET b == booked[r] IN
    /\ b.state = "open"
    /\ ledger' = Charged(actual - b.amount, b.scopes)
    /\ booked' = [booked EXCEPT ![r] = Settled(b, actual)]

\* What a run costs its scopes today.
Debit(r) ==
    CASE booked[r].state = "open" -> booked[r].amount
      [] booked[r].state = "settled" -> booked[r].actual
      [] OTHER -> 0

=============================================================================
