-------------------------- MODULE MCIncidentWorker --------------------------
(* Small values for IncidentWorker.  Recurrence: an alert fires, recovers and *)
(* fires again in three deliveries, the second shared with another alert; the *)
(* first may be retried.                                                      *)
EXTENDS IncidentWorker, TLC

MCMillis == "f1" :> 1 @@ "r2" :> 2 @@ "f3" :> 3

Fires(k, t) == [key |-> k, status |-> "firing", time |-> t]
Recovers(k, t) == [key |-> k, status |-> "resolved", time |-> t]

RecurrenceBatch ==
    "first" :> <<Fires("a", "f1")>>
        @@ "second" :> <<Recovers("a", "r2"), Fires("b", "f1")>>
        @@ "third" :> <<Fires("a", "f3")>>

RecurrenceAttempts == "first" :> 2 @@ "second" :> 1 @@ "third" :> 1

=============================================================================
