-------------------------- MODULE MCSandboxWorker --------------------------
(* Small values for SandboxWorker: one request delivered twice, another once, *)
(* the last worker perhaps configured with another store.                     *)
EXTENDS SandboxWorker, TLC

MCRequestOf == "w1" :> "q1" @@ "w2" :> "q1" @@ "w3" :> "q2"

MCStoreMaps ==
    {"w1" :> "s1" @@ "w2" :> "s1" @@ "w3" :> s : s \in {"s1", "s2"}}

=============================================================================
