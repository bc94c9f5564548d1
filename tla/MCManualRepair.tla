-------------------------- MODULE MCManualRepair --------------------------
(* Small values for ManualRepair: two receipts of one deployment, each healthy *)
(* by itself for two seconds, that contradict each other.                     *)
EXTENDS ManualRepair

Healthy(file, maxAge) ==
    [deployment |-> "d", file |-> file, declared |-> 0, completed |-> 1, window |-> 1,
     gap |-> 1, maxAge |-> maxAge, samples |-> <<[at |-> 2, healthy |-> TRUE]>>,
     succeeded |-> TRUE, revoked |-> FALSE, observed |-> TRUE]

MCReceipts == {Healthy(1, 1), Healthy(2, 2)}

(* Bound: the publisher, the mirror, the operator, the main thread and a clock  *)
(* set back move only where the owner waits, which is where it next looks at    *)
(* what they did; ticks and crashes are free.  Once every incident is completed *)
(* only operators and shutdowns are left to follow.                             *)
OthersMoveAtAwaits ==
    /\ inbox' # inbox \/ checkpoint' # checkpoint \/ head' # head \/ clock' < clock => AtAwait
    /\ Len(queue') > Len(queue) => pc = "idle"
    /\ stop' = "asked" => stop = "asked" \/ AtAwait
    /\ completed = Incidents =>
          UNCHANGED <<inbox, checkpoint, head, backs, qualificationVars, importing, starts>>

=============================================================================
