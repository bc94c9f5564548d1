-------------------------- MODULE FallbackContract --------------------------
(***************************************************************************)
(* What a reasoning run promises of its providers: it goes through the     *)
(* admitted ones in the configured order, passes over none and returns to  *)
(* none, discards each failed run whole, and ends with one accepted report *)
(* or with every admitted provider tried.                                  *)
(*                                                                         *)
(* Two things end it earlier.  The budget may refuse the provider whose    *)
(* turn has come, if it is one that needs a reservation: then the run is   *)
(* over and nobody behind that provider is tried, the deterministic one    *)
(* included.  And an error or the death of the process may break it, before*)
(* the first provider or later.                                            *)
(***************************************************************************)
EXTENDS Naturals, Sequences

CONSTANTS
    Order,      \* the configured providers, in order
    Unreserved  \* those that run without a reservation

VARIABLES
    admission,  \* the providers that passed their gates
    at,         \* position in Order of the last one tried, 0 before the first
    verdict     \* open, trying, accepted, exhausted, refused or abandoned

vars == <<admission, at, verdict>>

\* The admitted positions still ahead.
Ahead == {i \in at + 1 .. Len(Order) : Order[i] \in admission}

IsNext(i) == \A j \in Ahead : i <= j

Init ==
    /\ \E i \in 1 .. Len(Order) : Order[i] \in admission
    /\ at = 0
    /\ verdict = "open"

Try ==
    /\ verdict = "open"
    /\ \E i \in Ahead : IsNext(i) /\ at' = i
    /\ verdict' = "trying"
    /\ UNCHANGED admission

Decide(from, to) ==
    /\ verdict = from
    /\ verdict' = to
    /\ UNCHANGED <<admission, at>>

Discard == Decide("trying", "open")
Accept == Decide("trying", "accepted")
Exhaust == Ahead = {} /\ Decide("open", "exhausted")

\* The budget has no room for the provider whose turn has come.
Refuse ==
    /\ \E i \in Ahead : IsNext(i) /\ Order[i] \notin Unreserved
    /\ Decide("open", "refused")

\* A commit or the collection of evidence fails, or the process dies.
Abandon == \E v \in {"open", "trying"} : Decide(v, "abandoned")

Next == Try \/ Discard \/ Accept \/ Exhaust \/ Refuse \/ Abandon

Spec == Init /\ [][Next]_vars

=============================================================================
