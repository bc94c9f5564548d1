----------------------- MODULE DeploymentQualification -----------------------
(***************************************************************************)
(* Which deployments an automatic repair may fall back to                  *)
(* (src/gitops/qualified_deployment.rs, receipt.rs and                     *)
(* src/reasoning/storage/gitops.rs).  A receipt tells of one deployment    *)
(* and its health afterwards; the store keeps one row per deployment and   *)
(* journals every decision about it in the same transaction.  A digest     *)
(* identifies a receipt, so receipts are compared as values.               *)
(*                                                                         *)
(* audit holds the DeploymentQualification facts of the journal alone:     *)
(* their order among themselves is all the code looks at.                  *)
(***************************************************************************)
EXTENDS Integers, Sequences

CONSTANTS
    Deployments,   \* deployment identities
    Receipts,      \* the protected receipts that exist
    MinWindow, MaxWindow, MaxReceiptAge,  \* limits on an observation policy, in seconds
    MaxSamples     \* samples one receipt may carry

\* What validate_shape and the parser let through.
Sample == [at : Nat, healthy : BOOLEAN]
Receipt ==
    [deployment : Deployments,
     file : Nat,             \* its place in the order of the file names
     declared : Nat,         \* policy_declared_at
     completed : Nat,
     window : Nat, gap : Nat, maxAge : Nat,
     samples : Seq(Sample),
     succeeded : BOOLEAN, revoked : BOOLEAN,
     observed : BOOLEAN]     \* the observed commit and image are the deployed ones

ASSUME ReceiptsAssumption == Receipts \subseteq Receipt
ASSUME PolicyLimits ==
    MinWindow \in Nat /\ MaxWindow \in Nat /\ MaxReceiptAge \in Nat /\ MaxSamples \in Nat

VARIABLES
    deployments,   \* qualified_deployments: the rows, at most one per deployment
    audit          \* the qualification facts, oldest first

qualificationVars == <<deployments, audit>>

Row == [receipt : Receipts, eligible : BOOLEAN]
Fact == [deployment : Deployments, receipt : Receipts, eligible : BOOLEAN, at : Nat]

QualificationTypeOK ==
    /\ DOMAIN deployments \subseteq Deployments
    /\ deployments \in [DOMAIN deployments -> Row]
    /\ audit \in Seq(Fact)

QualificationInit ==
    /\ deployments = [d \in {} |-> <<>>]
    /\ audit = <<>>

-----------------------------------------------------------------------------
(* Health *)

PolicyAllowed(r) ==
    /\ r.window \in MinWindow .. MaxWindow
    /\ r.gap \in 1 .. r.window
    /\ r.maxAge \in 1 .. MaxReceiptAge

WindowEnd(r) == r.completed + r.window

WindowCurrent(r, now) == WindowEnd(r) <= now /\ now - WindowEnd(r) <= r.maxAge

\* The observation before the i-th, or the completion.
Previous(r, i) == IF i = 1 THEN r.completed ELSE r.samples[i - 1].at

\* assess_health: healthy, ordered and dense from the completion through the end
\* of the window.
AssessHealth(r, now) ==
    /\ PolicyAllowed(r)
    /\ WindowCurrent(r, now)
    /\ Len(r.samples) \in 1 .. MaxSamples
    /\ \A i \in DOMAIN r.samples :
          /\ r.samples[i].healthy
          /\ r.samples[i].at > Previous(r, i)
          /\ r.samples[i].at <= WindowEnd(r) + r.gap
          /\ r.samples[i].at <= now
          /\ r.samples[i].at - Previous(r, i) <= r.gap
    /\ r.samples[Len(r.samples)].at >= WindowEnd(r)

Eligible(r, now) ==
    /\ r.succeeded
    /\ ~r.revoked
    /\ r.declared < r.completed
    /\ r.observed
    /\ AssessHealth(r, now)

-----------------------------------------------------------------------------
(* The rows and their facts *)

Known(d) == d \in DOMAIN deployments

Stored(d, row) ==
    [e \in DOMAIN deployments \cup {d} |-> IF e = d THEN row ELSE deployments[e]]

\* The newest fact about d, as a set of at most one position.
Newest(d) ==
    {n \in DOMAIN audit :
        /\ audit[n].deployment = d
        /\ \A m \in DOMAIN audit : m > n => audit[m].deployment # d}

\* The newest fact about d says that the receipt of its row qualified.
Audited(d) ==
    \E n \in Newest(d) : audit[n].eligible /\ audit[n].receipt = deployments[d].receipt

\* qualified_deployment: the receipt d may be repaired with, as a set of at most
\* one.  A clock behind the fact's own time finds none (the code fails).
Qualified(d, now) ==
    {r \in Receipts :
        /\ Known(d)
        /\ deployments[d] = [receipt |-> r, eligible |-> TRUE]
        /\ Audited(d)
        /\ \A n \in Newest(d) : audit[n].at <= now
        /\ Eligible(r, now)}

\* record_deployment: a deployment's first receipt decides.
RecordFirst(r, now) ==
    /\ ~Known(r.deployment)
    /\ deployments' = Stored(r.deployment, [receipt |-> r, eligible |-> Eligible(r, now)])
    /\ audit' = Append(audit, [deployment |-> r.deployment, receipt |-> r,
                               eligible |-> Eligible(r, now), at |-> now])

\* A replay, or any receipt of an invalid deployment, changes nothing.
RecordReplay(r) ==
    /\ Known(r.deployment)
    /\ deployments[r.deployment].eligible =>
          Audited(r.deployment) /\ deployments[r.deployment].receipt = r
    /\ UNCHANGED qualificationVars

\* A newer receipt that takes the row over.
RecordReplacement(r, now) ==
    /\ Known(r.deployment)
    /\ deployments[r.deployment].eligible
    /\ Audited(r.deployment)
    /\ deployments[r.deployment].receipt # r
    /\ deployments' = Stored(r.deployment, [receipt |-> r, eligible |-> Eligible(r, now)])
    /\ audit' = Append(audit, [deployment |-> r.deployment, receipt |-> r,
                               eligible |-> Eligible(r, now), at |-> now])

\* A different receipt, a revocation among them, invalidates it for good.
RecordContradiction(r, now) ==
    /\ Known(r.deployment)
    /\ deployments[r.deployment].eligible
    /\ Audited(r.deployment)
    /\ deployments[r.deployment].receipt # r
    /\ deployments' = [deployments EXCEPT ![r.deployment].eligible = FALSE]
    /\ audit' = Append(audit, [deployment |-> r.deployment, receipt |-> r,
                               eligible |-> FALSE, at |-> now])

RecordDeployment(r, now) ==
    \/ RecordFirst(r, now)
    \/ RecordReplay(r)
    \/ RecordContradiction(r, now)

-----------------------------------------------------------------------------
(* Correctness *)

\* The rows are what the journal says: a deployment has a row once it has a fact,
\* the row holds the receipt of its first fact, and it is eligible as long as
\* that fact qualified it and no second one followed, so that no order of
\* arrivals, replays and clock corrections makes an invalidated deployment
\* eligible again (record_deployment).
QualificationAudited ==
    \A d \in Deployments :
        LET facts == {n \in DOMAIN audit : audit[n].deployment = d}
        IN  /\ Known(d) <=> facts # {}
            /\ Known(d) =>
                  \E n \in facts :
                     /\ \A m \in facts : n <= m
                     /\ deployments[d].receipt = audit[n].receipt
                     /\ deployments[d].eligible <=> (facts = {n} /\ audit[n].eligible)

=============================================================================
