------------------------- MODULE MCIncidentDispatch -------------------------
(* Small values for IncidentDispatch: two keys, three firing texts of which  *)
(* two share a millisecond, two recovery texts between and after them.       *)
EXTENDS IncidentDispatch, TLC

CONSTANTS k1, k2

MCKeys == {k1, k2}

MCMillis == "f1" :> 1 @@ "r2" :> 2 @@ "f3" :> 3 @@ "f3b" :> 3 @@ "r4" :> 4

KeySymmetry == Permutations(MCKeys)

=============================================================================
