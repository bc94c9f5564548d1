---------------------- MODULE PaidInvestigationsProofs ----------------------
(***************************************************************************)
(* For every set of runs, days, months and providers, and all limits: no   *)
(* ledger passes its ceiling, each is the sum of what runs hold of it, and *)
(* what providers billed is in the ledgers but for the failed runs that    *)
(* DebitsKept sets apart.                                                  *)
(*                                                                         *)
(* A ledger holds, besides what was billed, the part of the reservation    *)
(* under way that is still unspent (Due); that is what a settlement may    *)
(* take back.  SumRemoves and SumSame of DataLemmas say what one more      *)
(* reservation, or another debit of one, does to a sum of reservations.    *)
(***************************************************************************)
EXTENDS PaidInvestigations, DataLemmas

Spending(s) ==
    /\ stage \in {"running", "over"}
    /\ run.admitted
    /\ s \in ScopesOf(run.id)

\* The reservation under way is in the tables as reserve_cost wrote it.
RunBooked ==
    stage \in {"running", "over"} /\ run.admitted =>
        booked[run.id] = Open(Amount, ScopesOf(run.id))

\* A run not yet used has no reservation.
FreshRuns == \A r \in Runs : runOf[r] = None => booked[r] = Free

\* Every provider not yet called still has its part of the reservation.
PartsLeft ==
    stage # "idle" => run.spent + Part * Cardinality(run.untried) <= Amount

\* A run between attempts with none recorded has called no paid provider.
NothingSpent ==
    stage = "running" /\ ~run.active /\ ~run.recorded => run.spent = 0

\* Only an admitted run is billed.
OnlyAdmitted == stage # "idle" /\ ~run.admitted => run.spent = 0

\* What a settlement may still take out of the ledger of scope s.
Due(s) ==
    IF Spending(s)
    THEN IF stage = "over" /\ ~run.recorded THEN Amount ELSE Amount - run.spent
    ELSE 0

Covered == \A s \in Scopes : billed[s] + Due(s) <= ledger[s] + unseen[s]

\* What this run may yet add to unseen.
Exposed(s) == IF Spending(s) /\ stage = "running" THEN run.spent ELSE 0

UnseenBilled == \A s \in Scopes : unseen[s] + Exposed(s) <= billed[s]

IInv ==
    /\ TypeOK
    /\ RunBooked
    /\ FreshRuns
    /\ PartsLeft
    /\ NothingSpent
    /\ OnlyAdmitted
    /\ Covered
    /\ UnseenBilled
    /\ WithinCeilings

-----------------------------------------------------------------------------
(* Amounts *)

\* The reservation is as many parts as there are paid providers.
LEMMA AmountType ==
    /\ Amount \in Nat
    /\ \A S \in SUBSET PaidProviders : Part * Cardinality(S) \in Nat
<1>1. \A n \in Nat : Part * n \in Nat
  BY PartAssumption
<1>2. \A S \in SUBSET PaidProviders : Cardinality(S) \in Nat
  BY ProvidersAssumption, FS_Subset, FS_CardinalityType
<1> QED
  BY <1>1, <1>2 DEF Amount

\* Calling a provider takes one part off what is left.
LEMMA OnePartLess ==
    ASSUME NEW S \in SUBSET PaidProviders, NEW p \in S
    PROVE  Part * Cardinality(S \ {p}) + Part = Part * Cardinality(S)
<1>1. IsFiniteSet(S)
  BY ProvidersAssumption, FS_Subset
<1>2. Cardinality(S) \in Nat /\ Cardinality(S \ {p}) = Cardinality(S) - 1
  BY <1>1, FS_RemoveElement, FS_CardinalityType
<1>3. \A n \in Nat : Part * (n - 1) + Part = Part * n
  BY PartAssumption
<1> QED
  BY <1>2, <1>3

\* A run is charged to a run, a day and a month.
LEMMA ScopesOfType ==
    ASSUME TypeOK, NEW r \in Runs
    PROVE  ScopesOf(r) \in SUBSET Scopes
  BY DEF TypeOK, Periods, ScopesOf, Scopes

LEMMA CeilingType == \A s \in Scopes : Ceiling(s) \in Nat
  BY LimitsAssumption DEF Ceiling

-----------------------------------------------------------------------------
(* The inductive invariant *)

LEMMA InitEstablishes == Init => IInv
<1> SUFFICES ASSUME Init PROVE IInv
  OBVIOUS
<1>1. TypeOK
  BY DEF Init, LedgerInit, TypeOK, Booking
<1>2. \A s \in Scopes : ~Spending(s)
  BY DEF Init, Spending
<1>3. Covered /\ UnseenBilled
  BY <1>2 DEF Init, LedgerInit, Covered, UnseenBilled, Due, Exposed
<1>4. WithinCeilings
  BY CeilingType DEF Init, LedgerInit, WithinCeilings
<1> QED
  BY <1>1, <1>3, <1>4
  DEF Init, LedgerInit, IInv, RunBooked, FreshRuns, PartsLeft, NothingSpent, OnlyAdmitted

\* The fields of the run under way.
LEMMA RunType ==
    ASSUME TypeOK, stage # "idle"
    PROVE  /\ run \in Run
           /\ run.id \in Runs /\ run.incident \in Incidents
           /\ run.untried \in SUBSET PaidProviders /\ run.spent \in Nat
           /\ ScopesOf(run.id) \in SUBSET Scopes
           /\ Part * Cardinality(run.untried) \in Nat
<1>1. run \in Run
  BY DEF TypeOK
<1>2. /\ run.id \in Runs /\ run.incident \in Incidents
      /\ run.untried \in SUBSET PaidProviders /\ run.spent \in Nat
  BY <1>1 DEF Run
<1> QED
  BY <1>1, <1>2, ScopesOfType, AmountType

\* What is due is never negative.
LEMMA DueType ==
    ASSUME IInv, NEW s \in Scopes
    PROVE  Due(s) \in Nat /\ Exposed(s) \in Nat
<1>1. CASE Spending(s)
  <2>1. stage # "idle"
    BY <1>1 DEF Spending
  <2>2. run.spent \in Nat /\ Part * Cardinality(run.untried) \in Nat
    BY <2>1, RunType DEF IInv
  <2>3. run.spent <= Amount /\ Amount \in Nat
    BY <2>1, <2>2, AmountType DEF IInv, PartsLeft
  <2> QED
    BY <2>2, <2>3 DEF Due, Exposed
<1>2. CASE ~Spending(s)
  BY <1>2 DEF Due, Exposed
<1> QED
  BY <1>1, <1>2

LEMMA BeginPreserves ==
    ASSUME IInv, NEW i \in Incidents, NEW r \in Runs, Begin(i, r)
    PROVE  IInv'
<1> DEFINE S == ScopesOf(r)
           fits == Fits(Amount, S)
<1>1. TypeOK /\ S \in SUBSET Scopes /\ Amount \in Nat
  BY ScopesOfType, AmountType DEF IInv
<1>2. /\ stage = "idle" /\ stage' = "running" /\ run = NoRun
      /\ billed' = billed /\ unseen' = unseen /\ period' = period
      /\ finished' = finished /\ aside' = aside
      /\ runOf' = [runOf EXCEPT ![r] = i]
  BY <1>1 DEF Begin, TypeOK, billVars
<1>3. run' = [id |-> r, incident |-> i, admitted |-> Admits(r, Amount, S),
              untried |-> PaidProviders, active |-> FALSE, recorded |-> FALSE,
              spent |-> 0, ok |-> FALSE]
  BY DEF Begin
<1>4. run' \in Run
  BY <1>3 DEF Run, Admits, Fits
<1>5. booked[r] = Free /\ runOf[r] = None
  BY DEF Begin, IInv, FreshRuns
<1>6. run'.id = r /\ run'.spent = 0 /\ run'.untried = PaidProviders
  BY <1>3
<1>7. run'.admitted <=> fits
  BY <1>3, <1>5 DEF Admits
<1>8. ~run'.active /\ ~run'.recorded
  BY <1>3
<1>9. ScopesOf(run.id)' = S
  BY <1>2, <1>6 DEF ScopesOf
<1>10. \A s \in Scopes : ledger[s] \in Nat /\ Ceiling(s) \in Nat
  BY <1>1, CeilingType DEF TypeOK
<1>11. CASE fits
  <2>1. /\ ledger' = Charged(Amount, S)
        /\ booked' = [booked EXCEPT ![r] = Open(Amount, S)]
    BY <1>5, <1>11 DEF Begin, Reserve
  <2>2. \A s \in Scopes : ledger'[s] = IF s \in S THEN ledger[s] + Amount ELSE ledger[s]
    BY <2>1 DEF Charged
  <2>3. Open(Amount, S) \in Booking
    BY <1>1 DEF Open, Booking
  <2>4. TypeOK'
    BY <1>1, <1>2, <1>4, <1>10, <2>1, <2>3 DEF TypeOK, Charged
  <2>5. RunBooked'
    <3>1. booked'[r] = Open(Amount, S)
      BY <1>1, <2>1 DEF TypeOK
    <3> QED
      BY <3>1, <1>6, <1>9 DEF RunBooked
  <2>6. FreshRuns'
    BY <1>1, <1>2, <2>1, IncidentsAssumption DEF IInv, FreshRuns, TypeOK, None
  <2>7. WithinCeilings'
    BY <1>1, <1>10, <1>11, <2>2 DEF IInv, WithinCeilings, Fits
  <2>8. \A s \in Scopes : Due(s)' = IF s \in S THEN Amount ELSE 0
    BY <1>1, <1>2, <1>6, <1>7, <1>9, <1>11 DEF Due, Spending
  <2>9. \A s \in Scopes : Due(s) = 0 /\ Exposed(s) = 0 /\ Exposed(s)' = 0
    BY <1>2, <1>6 DEF Due, Exposed, Spending
  <2>10. Covered'
    BY <1>1, <1>2, <1>10, <2>2, <2>8, <2>9 DEF IInv, Covered, TypeOK
  <2>11. UnseenBilled'
    BY <1>2, <2>9 DEF IInv, UnseenBilled
  <2>12. PartsLeft' /\ NothingSpent' /\ OnlyAdmitted'
    BY <1>1, <1>6 DEF PartsLeft, NothingSpent, OnlyAdmitted, Amount
  <2> QED
    BY <2>4, <2>5, <2>6, <2>7, <2>10, <2>11, <2>12 DEF IInv
<1>12. CASE ~fits
  <2>1. ledger' = ledger /\ booked' = booked
    BY <1>12 DEF Begin, Reserve, ledgerVars
  <2>2. TypeOK'
    BY <1>1, <1>2, <1>4, <2>1 DEF TypeOK
  <2>3. RunBooked' /\ FreshRuns'
    <3>1. RunBooked'
      BY <1>7, <1>12 DEF RunBooked
    <3>2. FreshRuns'
      BY <1>1, <1>2, <1>5, <2>1 DEF IInv, FreshRuns, TypeOK
    <3> QED
      BY <3>1, <3>2
  <2>4. WithinCeilings'
    BY <2>1 DEF IInv, WithinCeilings
  <2>5. \A s \in Scopes : Due(s) = 0 /\ Exposed(s) = 0 /\ Due(s)' = 0 /\ Exposed(s)' = 0
    BY <1>2, <1>7, <1>12 DEF Due, Exposed, Spending
  <2>6. Covered' /\ UnseenBilled'
    BY <1>2, <2>1, <2>5 DEF IInv, Covered, UnseenBilled
  <2>7. PartsLeft' /\ NothingSpent' /\ OnlyAdmitted'
    BY <1>1, <1>6 DEF PartsLeft, NothingSpent, OnlyAdmitted, Amount
  <2> QED
    BY <2>2, <2>3, <2>4, <2>6, <2>7 DEF IInv
<1> QED
  BY <1>11, <1>12

\* Steps that leave the tables and the run identities alone.
LEMMA TablesKept ==
    ASSUME IInv, UNCHANGED <<ledgerVars, progressVars>>
    PROVE  FreshRuns' /\ WithinCeilings'
  BY DEF IInv, FreshRuns, WithinCeilings, ledgerVars, progressVars

LEMMA CallPreserves ==
    ASSUME IInv, NEW p \in PaidProviders, NEW cost \in 0 .. Part, Call(p, cost)
    PROVE  IInv'
<1> DEFINE left == Part * Cardinality(run.untried)
<1>1. /\ stage = "running" /\ run.admitted /\ ~run.active /\ p \in run.untried
      /\ run' = [run EXCEPT !.untried = run.untried \ {p}, !.active = TRUE,
                            !.spent = run.spent + cost]
      /\ billed' = Added(billed, cost)
  BY DEF Call
<1>2. UNCHANGED <<ledgerVars, progressVars>> /\ stage' = stage /\ unseen' = unseen
  BY DEF Call
<1>3. TypeOK /\ cost \in Nat /\ cost <= Part /\ Part \in Nat /\ Amount \in Nat
  BY PartAssumption, AmountType DEF IInv
<1>4. /\ run \in Run /\ run.id \in Runs /\ run.untried \in SUBSET PaidProviders
      /\ run.spent \in Nat /\ left \in Nat /\ ScopesOf(run.id) \in SUBSET Scopes
  BY <1>1, <1>3, RunType
<1>5. /\ run'.id = run.id /\ run'.untried = run.untried \ {p}
      /\ run'.spent = run.spent + cost
  BY <1>1, <1>4 DEF Run
<1>6. run'.admitted /\ run'.active /\ (run'.recorded <=> run.recorded)
  BY <1>1, <1>4 DEF Run
<1>7. run' \in Run
  <2>1. run.untried \ {p} \in SUBSET PaidProviders /\ run.spent + cost \in Nat
    BY <1>3, <1>4
  <2> QED
    BY <1>1, <1>4, <2>1 DEF Run
<1>8. ScopesOf(run.id)' = ScopesOf(run.id)
  BY <1>2, <1>5 DEF ScopesOf, progressVars
<1>9. \A s \in Scopes : billed'[s] = IF s \in ScopesOf(run.id) THEN billed[s] + cost ELSE billed[s]
  BY <1>1 DEF Added
<1>10. \A s \in Scopes : ledger[s] \in Nat /\ billed[s] \in Nat /\ unseen[s] \in Nat
  BY <1>3 DEF TypeOK
<1>11. TypeOK'
  <2>1. billed' \in [Scopes -> Nat]
    BY <1>1, <1>3, <1>10 DEF Added
  <2> QED
    BY <1>1, <1>2, <1>3, <1>7, <2>1 DEF TypeOK, ledgerVars, progressVars
<1>12. RunBooked'
  BY <1>1, <1>2, <1>5, <1>8, AmountType DEF IInv, RunBooked, ledgerVars
<1>13. PartsLeft'
  <2>1. Part * Cardinality(run.untried \ {p}) + Part = left
    BY <1>1, <1>4, OnePartLess
  <2>2. Part * Cardinality(run.untried \ {p}) \in Nat
    BY <1>4, AmountType
  <2>3. run.spent + left <= Amount
    BY <1>1 DEF IInv, PartsLeft
  <2>4. run.spent + cost + Part * Cardinality(run.untried \ {p}) <= Amount
    BY <1>3, <1>4, <2>1, <2>2, <2>3
  <2> QED
    BY <1>5, <2>4 DEF PartsLeft, Amount
<1>14. NothingSpent' /\ OnlyAdmitted'
  BY <1>6 DEF NothingSpent, OnlyAdmitted
<1>15. \A s \in Scopes :
          /\ Due(s) = IF s \in ScopesOf(run.id) THEN Amount - run.spent ELSE 0
          /\ Due(s)' = IF s \in ScopesOf(run.id) THEN Amount - (run.spent + cost) ELSE 0
          /\ Exposed(s) = IF s \in ScopesOf(run.id) THEN run.spent ELSE 0
          /\ Exposed(s)' = IF s \in ScopesOf(run.id) THEN run.spent + cost ELSE 0
  BY <1>1, <1>2, <1>5, <1>6, <1>8 DEF Due, Exposed, Spending, Amount
<1>16. Covered'
  BY <1>2, <1>3, <1>4, <1>9, <1>10, <1>15 DEF IInv, Covered, ledgerVars
<1>17. UnseenBilled'
  BY <1>2, <1>3, <1>4, <1>9, <1>10, <1>15 DEF IInv, UnseenBilled
<1> QED
  BY <1>2, <1>11, <1>12, <1>13, <1>14, <1>16, <1>17, TablesKept DEF IInv

\* A step that calls no paid provider and settles nothing: the run goes on or
\* is over, and no ledger and no bill changes.
LEMMA ProgressPreserves ==
    ASSUME IInv, stage = "running", run' \in Run, stage' \in {"running", "over"},
           UNCHANGED <<ledgerVars, progressVars, billVars>>,
           run'.id = run.id, run'.untried = run.untried, run'.spent = run.spent,
           run'.admitted <=> run.admitted,
           stage' = "over" /\ ~run'.recorded => run.spent = 0,
           stage' = "running" /\ ~run'.active /\ ~run'.recorded => run.spent = 0
    PROVE  IInv'
<1>1. TypeOK /\ Amount \in Nat
  BY AmountType DEF IInv
<1>2. /\ run.id \in Runs /\ run.untried \in SUBSET PaidProviders
      /\ run.spent \in Nat /\ ScopesOf(run.id) \in SUBSET Scopes
  BY <1>1, RunType
<1>3. ScopesOf(run.id)' = ScopesOf(run.id)
  BY DEF ScopesOf, progressVars
<1>4. TypeOK'
  BY <1>1 DEF TypeOK, ledgerVars, progressVars, billVars
<1>5. RunBooked'
  BY <1>3, AmountType DEF IInv, RunBooked, ledgerVars
<1>6. PartsLeft'
  BY DEF IInv, PartsLeft, Amount
<1>7. NothingSpent' /\ OnlyAdmitted'
  BY DEF IInv, NothingSpent, OnlyAdmitted
<1>8. \A s \in Scopes : Due(s) \in Nat /\ Exposed(s) \in Nat
  BY DueType
<1>9. \A s \in Scopes : Due(s)' = Due(s)
  BY <1>1, <1>2, <1>3 DEF Due, Spending, Amount
<1>10. \A s \in Scopes : Exposed(s)' = Exposed(s) \/ Exposed(s)' = 0
  BY <1>3 DEF Exposed, Spending
<1>11. \A s \in Scopes : ledger[s] \in Nat /\ billed[s] \in Nat /\ unseen[s] \in Nat
  BY <1>1 DEF TypeOK
<1>12. ledger' = ledger /\ billed' = billed /\ unseen' = unseen
  BY DEF ledgerVars, billVars
<1>13. Covered'
  BY <1>9, <1>12 DEF IInv, Covered
<1>14. UnseenBilled'
  BY <1>8, <1>10, <1>11, <1>12 DEF IInv, UnseenBilled
<1> QED
  BY <1>4, <1>5, <1>6, <1>7, <1>13, <1>14, TablesKept DEF IInv

LEMMA AttemptPreserves ==
    ASSUME IInv, CallUnpaid \/ Record \/ \E ok \in BOOLEAN : End(ok)
    PROVE  IInv'
<1>1. stage = "running" /\ UNCHANGED <<ledgerVars, progressVars, billVars>>
  BY DEF CallUnpaid, Record, End
<1>2. run \in Run
  BY <1>1, RunType DEF IInv
<1>3. ~run.active /\ ~run.recorded => run.spent = 0
  BY <1>1 DEF IInv, NothingSpent
<1>4. CASE CallUnpaid
  <2>1. run' = [run EXCEPT !.active = TRUE] /\ stage' = "running"
    BY <1>1, <1>4 DEF CallUnpaid
  <2>2. run' \in Run
    BY <1>2, <2>1 DEF Run
  <2>3. /\ run'.id = run.id /\ run'.untried = run.untried /\ run'.spent = run.spent
        /\ run'.admitted <=> run.admitted
        /\ run'.active
    BY <1>2, <2>1 DEF Run
  <2> QED
    BY <1>1, <2>1, <2>2, <2>3, ProgressPreserves
<1>5. CASE Record
  <2>1. run' = [run EXCEPT !.active = FALSE, !.recorded = TRUE] /\ stage' = "running"
    BY <1>1, <1>5 DEF Record
  <2>2. run' \in Run
    BY <1>2, <2>1 DEF Run
  <2>3. /\ run'.id = run.id /\ run'.untried = run.untried /\ run'.spent = run.spent
        /\ run'.admitted <=> run.admitted
        /\ run'.recorded
    BY <1>2, <2>1 DEF Run
  <2> QED
    BY <1>1, <2>1, <2>2, <2>3, ProgressPreserves
<1>6. CASE \E ok \in BOOLEAN : End(ok)
  <2>1. PICK ok \in BOOLEAN : End(ok)
    BY <1>6
  <2>2. run' = [run EXCEPT !.ok = ok] /\ stage' = "over" /\ ~run.active
    BY <2>1 DEF End
  <2>3. run' \in Run
    BY <1>2, <2>2 DEF Run
  <2>4. /\ run'.id = run.id /\ run'.untried = run.untried /\ run'.spent = run.spent
        /\ run'.admitted <=> run.admitted
        /\ run'.recorded <=> run.recorded
    BY <1>2, <2>2 DEF Run
  <2> QED
    BY <1>1, <1>3, <2>2, <2>3, <2>4, ProgressPreserves
<1> QED
  BY <1>4, <1>5, <1>6

LEMMA RefusePreserves ==
    ASSUME IInv, Refuse
    PROVE  IInv'
<1>1. /\ stage = "running" /\ run.active /\ stage' = "over"
      /\ run' = [run EXCEPT !.active = FALSE]
      /\ unseen' = IF run.recorded THEN unseen ELSE Added(unseen, run.spent)
      /\ billed' = billed /\ UNCHANGED <<ledgerVars, progressVars>>
  BY DEF Refuse
<1>2. TypeOK /\ Amount \in Nat
  BY AmountType DEF IInv
<1>3. /\ run \in Run /\ run.id \in Runs /\ run.untried \in SUBSET PaidProviders
      /\ run.spent \in Nat /\ ScopesOf(run.id) \in SUBSET Scopes
  BY <1>1, <1>2, RunType
<1>4. run' \in Run
  BY <1>1, <1>3 DEF Run
<1>5. /\ run'.id = run.id /\ run'.untried = run.untried /\ run'.spent = run.spent
      /\ run'.admitted <=> run.admitted
      /\ run'.recorded <=> run.recorded
  BY <1>1, <1>3 DEF Run
<1>6. ScopesOf(run.id)' = ScopesOf(run.id)
  BY <1>1, <1>5 DEF ScopesOf, progressVars
<1>7. \A s \in Scopes : ledger[s] \in Nat /\ billed[s] \in Nat /\ unseen[s] \in Nat
  BY <1>2 DEF TypeOK
<1>8. \A s \in Scopes :
         unseen'[s] = IF ~run.recorded /\ s \in ScopesOf(run.id)
                      THEN unseen[s] + run.spent ELSE unseen[s]
  BY <1>1 DEF Added
<1>9. unseen' \in [Scopes -> Nat]
  BY <1>1, <1>2, <1>3, <1>7 DEF Added, TypeOK
<1>10. TypeOK'
  BY <1>1, <1>2, <1>4, <1>9 DEF TypeOK, ledgerVars, progressVars
<1>11. RunBooked'
  BY <1>1, <1>5, <1>6 DEF IInv, RunBooked, ledgerVars, Amount
<1>12. PartsLeft' /\ NothingSpent' /\ OnlyAdmitted'
  BY <1>1, <1>5 DEF IInv, PartsLeft, NothingSpent, OnlyAdmitted, Amount
<1>13. \A s \in Scopes :
          /\ Due(s) = IF run.admitted /\ s \in ScopesOf(run.id) THEN Amount - run.spent ELSE 0
          /\ Due(s)' = IF run.admitted /\ s \in ScopesOf(run.id)
                       THEN IF run.recorded THEN Amount - run.spent ELSE Amount
                       ELSE 0
          /\ Exposed(s) = IF run.admitted /\ s \in ScopesOf(run.id) THEN run.spent ELSE 0
          /\ Exposed(s)' = 0
  BY <1>1, <1>5, <1>6 DEF Due, Exposed, Spending, Amount
<1>14. ~run.admitted => run.spent = 0
  BY <1>1 DEF IInv, OnlyAdmitted
<1>15. Covered'
  BY <1>1, <1>2, <1>3, <1>7, <1>8, <1>13, <1>14 DEF IInv, Covered, ledgerVars
<1>16. UnseenBilled'
  BY <1>1, <1>2, <1>3, <1>7, <1>8, <1>13, <1>14 DEF IInv, UnseenBilled
<1> QED
  BY <1>1, <1>10, <1>11, <1>12, <1>15, <1>16, TablesKept DEF IInv

LEMMA SettlePreserves ==
    ASSUME IInv, Settle
    PROVE  IInv'
<1> DEFINE released == run.admitted /\ ~run.recorded
           b == booked[run.id]
<1>1. /\ stage = "over" /\ stage' = "settled" /\ run' = run
      /\ UNCHANGED <<progressVars, billVars>>
  BY DEF Settle
<1>2. TypeOK /\ Amount \in Nat
  BY AmountType DEF IInv
<1>3. run.id \in Runs /\ ScopesOf(run.id) \in SUBSET Scopes
  BY <1>1, <1>2, RunType
<1>4. \A s \in Scopes : ledger[s] \in Nat /\ billed[s] \in Nat /\ unseen[s] \in Nat
  BY <1>2 DEF TypeOK
<1>5. \A s \in Scopes : Due(s) \in Nat /\ Due(s)' = 0 /\ Exposed(s) = 0 /\ Exposed(s)' = 0
  BY <1>1, DueType DEF Due, Exposed, Spending
<1>6. RunBooked' /\ PartsLeft' /\ NothingSpent' /\ OnlyAdmitted'
  BY <1>1 DEF IInv, RunBooked, PartsLeft, NothingSpent, OnlyAdmitted, Amount
<1>7. UnseenBilled'
  BY <1>1, <1>5 DEF IInv, UnseenBilled, billVars
<1>8. CASE released
  <2>1. b = Open(Amount, ScopesOf(run.id))
    BY <1>1, <1>8 DEF IInv, RunBooked
  <2>2. b.amount = Amount /\ b.scopes = ScopesOf(run.id)
    BY <2>1 DEF Open
  <2>3. /\ ledger' = Charged(0 - Amount, ScopesOf(run.id))
        /\ booked' = [booked EXCEPT ![run.id] = Settled(b, 0)]
    BY <1>8, <2>2 DEF Settle, Reconcile
  <2>4. \A s \in Scopes :
           ledger'[s] = IF s \in ScopesOf(run.id) THEN ledger[s] - Amount ELSE ledger[s]
    BY <1>2, <1>4, <2>3 DEF Charged
  <2>5. \A s \in Scopes : Due(s) = IF s \in ScopesOf(run.id) THEN Amount ELSE 0
    BY <1>1, <1>8 DEF Due, Spending
  <2>6. \A s \in Scopes : unseen[s] <= billed[s] /\ billed[s] + Due(s) <= ledger[s] + unseen[s]
    BY <1>4, <1>5 DEF IInv, UnseenBilled, Covered
  <2>7. \A s \in Scopes : ledger'[s] \in Nat
    BY <1>2, <1>4, <2>4, <2>5, <2>6
  <2>8. ledger' \in [Scopes -> Nat]
    BY <2>3, <2>7 DEF Charged
  <2>9. Settled(b, 0) \in Booking
    BY <1>2, <1>3, <2>2 DEF Settled, Booking
  <2>10. TypeOK'
    <3>1. booked' \in [Runs -> Booking]
      BY <1>2, <2>3, <2>9 DEF TypeOK
    <3> QED
      BY <1>1, <1>2, <2>8, <3>1 DEF TypeOK, progressVars, billVars
  <2>11. Covered'
    BY <1>1, <1>2, <1>4, <1>5, <2>4, <2>5, <2>6 DEF Covered, billVars
  <2>12. WithinCeilings'
    BY <1>2, <1>4, <2>4, CeilingType DEF IInv, WithinCeilings
  <2>13. FreshRuns'
    <3>1. b # Free
      BY <2>1 DEF Open, Free
    <3> QED
      BY <1>1, <1>2, <1>3, <2>3, <3>1 DEF IInv, FreshRuns, TypeOK, progressVars
  <2> QED
    BY <1>6, <1>7, <2>10, <2>11, <2>12, <2>13 DEF IInv
<1>9. CASE ~released
  <2>1. UNCHANGED ledgerVars
    BY <1>9 DEF Settle
  <2>2. TypeOK'
    BY <1>1, <1>2, <2>1 DEF TypeOK, ledgerVars, progressVars, billVars
  <2>3. Covered'
    BY <1>1, <1>4, <1>5, <2>1 DEF IInv, Covered, ledgerVars, billVars
  <2> QED
    BY <1>1, <1>6, <1>7, <2>1, <2>2, <2>3, TablesKept DEF IInv
<1> QED
  BY <1>8, <1>9

\* Conclude and Restart leave no run under way, so nothing is due.
LEMMA IdlePreserves ==
    ASSUME IInv, stage' = "idle", run' = NoRun, TypeOK',
           UNCHANGED <<ledgerVars, runOf, billVars>>
    PROVE  IInv'
<1>1. \A s \in Scopes : Due(s) \in Nat /\ Due(s)' = 0 /\ Exposed(s) \in Nat /\ Exposed(s)' = 0
  BY DueType DEF Due, Exposed, Spending
<1>2. \A s \in Scopes : ledger[s] \in Nat /\ billed[s] \in Nat /\ unseen[s] \in Nat
  BY DEF IInv, TypeOK
<1>3. ledger' = ledger /\ booked' = booked /\ billed' = billed /\ unseen' = unseen
  BY DEF ledgerVars, billVars
<1>4. RunBooked' /\ PartsLeft' /\ NothingSpent' /\ OnlyAdmitted'
  BY DEF RunBooked, PartsLeft, NothingSpent, OnlyAdmitted
<1>5. FreshRuns' /\ WithinCeilings'
  BY <1>3 DEF IInv, FreshRuns, WithinCeilings
<1>6. Covered'
  BY <1>1, <1>2, <1>3 DEF IInv, Covered
<1>7. UnseenBilled'
  BY <1>1, <1>2, <1>3 DEF IInv, UnseenBilled
<1> QED
  BY <1>4, <1>5, <1>6, <1>7 DEF IInv

LEMMA ConcludePreserves ==
    ASSUME IInv, Conclude
    PROVE  IInv'
<1>1. TypeOK /\ stage = "settled"
  BY DEF IInv, Conclude
<1>2. run.incident \in Incidents
  BY <1>1, RunType
<1>3. TypeOK'
  BY <1>1, <1>2 DEF Conclude, TypeOK, ledgerVars, billVars
<1> QED
  BY <1>3, IdlePreserves DEF Conclude

LEMMA RestartPreserves ==
    ASSUME IInv, Restart
    PROVE  IInv'
<1>1. TypeOK'
  BY DEF IInv, Restart, TypeOK, ledgerVars, billVars
<1> QED
  BY <1>1, IdlePreserves DEF Restart

LEMMA StutterPreserves ==
    ASSUME IInv, UNCHANGED vars
    PROVE  IInv'
<1> USE DEF vars, ledgerVars, progressVars, billVars
<1>1. TypeOK'
  BY DEF IInv, TypeOK
<1>2. RunBooked' /\ FreshRuns' /\ PartsLeft' /\ NothingSpent' /\ OnlyAdmitted'
  BY DEF IInv, RunBooked, FreshRuns, PartsLeft, NothingSpent, OnlyAdmitted,
         Amount, ScopesOf
<1>3. Covered' /\ UnseenBilled' /\ WithinCeilings'
  BY DEF IInv, Covered, UnseenBilled, WithinCeilings, Due, Exposed, Spending,
         ScopesOf, Amount
<1> QED
  BY <1>1, <1>2, <1>3 DEF IInv

\* Every reachable state satisfies IInv: the reservation under way stands in the
\* tables, its unspent part is still in the ledgers, and unseen bills are bills.
THEOREM LedgerInvariant == Spec => []IInv
<1>1. Init => IInv
  BY InitEstablishes
<1>2. IInv /\ [Next]_vars => IInv'
  <2> SUFFICES ASSUME IInv, [Next]_vars PROVE IInv'
    OBVIOUS
  <2>1. ASSUME NEW i \in Incidents, NEW r \in Runs, Begin(i, r) PROVE IInv'
    BY <2>1, BeginPreserves
  <2>2. ASSUME NEW p \in PaidProviders, NEW cost \in 0 .. Part, Call(p, cost) PROVE IInv'
    BY <2>2, CallPreserves
  <2>3. CASE CallUnpaid
    BY <2>3, AttemptPreserves
  <2>4. CASE Record
    BY <2>4, AttemptPreserves
  <2>5. CASE \E ok \in BOOLEAN : End(ok)
    BY <2>5, AttemptPreserves
  <2>6. CASE Refuse
    BY <2>6, RefusePreserves
  <2>7. CASE Settle
    BY <2>7, SettlePreserves
  <2>8. CASE Conclude
    BY <2>8, ConcludePreserves
  <2>9. CASE Restart
    BY <2>9, RestartPreserves
  <2>10. CASE UNCHANGED vars
    BY <2>10, StutterPreserves
  <2> QED
    BY <2>1, <2>2, <2>3, <2>4, <2>5, <2>6, <2>7, <2>8, <2>9, <2>10 DEF Next
<1> QED
  BY <1>1, <1>2, PTL DEF Spec

-----------------------------------------------------------------------------
(* A ledger is the sum of its reservations *)

Debits == [r \in Runs |-> Debit(r)]

\* The runs with a reservation on scope s.
Holders(s) == {r \in Runs : Covers(s, r)}

\* The sum to which a ledger amounts has finitely many terms.
SumInv == LedgerIsSum /\ IsFiniteSet({r \in Runs : booked[r] # Free})

LEMMA DebitType ==
    ASSUME TypeOK
    PROVE  Debits \in [Runs -> Nat]
<1>1. ASSUME NEW r \in Runs PROVE Debit(r) \in Nat
  BY DEF TypeOK, Booking, Free, Debit
<1> QED
  BY <1>1 DEF Debits

LEMMA HoldersFinite ==
    ASSUME SumInv, NEW s
    PROVE  IsFiniteSet(Holders(s))
<1>1. Holders(s) \subseteq {r \in Runs : booked[r] # Free}
  BY DEF Holders, Covers
<1> QED
  BY <1>1, FS_Subset DEF SumInv

\* The sum in terms of the functions above.
LEMMA SumForm == LedgerIsSum <=> \A s \in Scopes : ledger[s] = SumFunctionOnSet(Debits, Holders(s))
  BY DEF LedgerIsSum, Debits, Holders

\* The reservations of other runs are left as they are.
LEMMA OthersKept ==
    ASSUME TypeOK, NEW r \in Runs, NEW b, booked' = [booked EXCEPT ![r] = b]
    PROVE  /\ booked'[r] = b
           /\ \A q \in Runs \ {r} : Debits'[q] = Debits[q]
           /\ \A s : Holders(s)' \ {r} = Holders(s) \ {r}
<1>1. booked'[r] = b /\ \A q \in Runs \ {r} : booked'[q] = booked[q]
  BY DEF TypeOK
<1> QED
  BY <1>1 DEF Debits, Debit, Holders, Covers

\* What becomes of a sum when one reservation is written.
LEMMA SumMoves ==
    ASSUME IInv, SumInv, TypeOK', NEW r \in Runs, NEW b, booked' = [booked EXCEPT ![r] = b],
           NEW s
    PROVE  /\ IsFiniteSet(Holders(s)')
           /\ r \notin Holders(s) /\ r \in Holders(s)' =>
                SumFunctionOnSet(Debits, Holders(s))' =
                    Debits'[r] + SumFunctionOnSet(Debits, Holders(s))
           /\ r \notin Holders(s) /\ r \notin Holders(s)' =>
                SumFunctionOnSet(Debits, Holders(s))' = SumFunctionOnSet(Debits, Holders(s))
           /\ r \in Holders(s) /\ r \in Holders(s)' =>
                SumFunctionOnSet(Debits, Holders(s))' =
                    SumFunctionOnSet(Debits, Holders(s)) - Debits[r] + Debits'[r]
<1> DEFINE rest == Holders(s) \ {r}
<1>1. Debits \in [Runs -> Nat] /\ Debits' \in [Runs -> Nat]
  <2>1. (TypeOK => Debits \in [Runs -> Nat])'
    BY DebitType, PTL
  <2> QED
    BY <2>1, DebitType DEF IInv
<1>2. /\ \A q \in Runs \ {r} : Debits'[q] = Debits[q]
      /\ Holders(s)' \ {r} = rest
  BY OthersKept DEF IInv
<1>3. IsFiniteSet(Holders(s)) /\ IsFiniteSet(rest) /\ rest \subseteq Runs \ {r}
  BY HoldersFinite, FS_Subset DEF Holders
<1>4. IsFiniteSet(Holders(s)') /\ Holders(s)' \subseteq Runs
  <2>1. Holders(s)' \subseteq rest \cup {r}
    BY <1>2
  <2>2. IsFiniteSet(rest \cup {r})
    BY <1>3, FS_AddElement
  <2> QED
    BY <2>1, <2>2, FS_Subset DEF Holders
<1> DEFINE d == Debits' h == Holders(s)'
<1>5. SumFunctionOnSet(d, rest) = SumFunctionOnSet(Debits, rest) /\ SumFunctionOnSet(Debits, rest) \in Nat
  <2>1. \A x \in rest : Debits[x] \in Nat /\ d[x] = Debits[x]
    BY <1>1, <1>2, <1>3
  <2> HIDE DEF d, h, rest
  <2> QED
    BY <1>3, <2>1, SumSame, SumRemoves
<1>6. r \in Holders(s) => SumFunctionOnSet(Debits, Holders(s)) = Debits[r] + SumFunctionOnSet(Debits, rest)
  <2>1. \A x \in Holders(s) : Debits[x] \in Nat
    BY <1>1 DEF Holders
  <2> QED
    BY <1>3, <2>1, SumRemoves
<1>7. r \in h => SumFunctionOnSet(d, h) = d[r] + SumFunctionOnSet(d, rest)
  <2>1. \A x \in h : d[x] \in Nat
    BY <1>1, <1>4
  <2>2. h \ {r} = rest
    BY <1>2
  <2> HIDE DEF d, h, rest
  <2> QED
    BY <1>4, <2>1, <2>2, SumRemoves DEF h
<1>8. (r \notin Holders(s) => Holders(s) = rest) /\ (r \notin h => h = rest)
  BY <1>2
<1>9. Debits[r] \in Nat /\ d[r] \in Nat
  BY <1>1
<1>10. SumFunctionOnSet(Debits, Holders(s))' = SumFunctionOnSet(d, h)
  OBVIOUS
<1> HIDE DEF d, h, rest
<1>11. r \notin Holders(s) /\ r \in h => SumFunctionOnSet(d, h) = d[r] + SumFunctionOnSet(Debits, Holders(s))
  BY <1>5, <1>7, <1>8
<1>12. r \notin Holders(s) /\ r \notin h => SumFunctionOnSet(d, h) = SumFunctionOnSet(Debits, Holders(s))
  BY <1>5, <1>8
<1>13. r \in Holders(s) /\ r \in h =>
          SumFunctionOnSet(d, h) = SumFunctionOnSet(Debits, Holders(s)) - Debits[r] + d[r]
  BY <1>5, <1>6, <1>7, <1>9
<1> QED
  BY <1>4, <1>10, <1>11, <1>12, <1>13 DEF d, h

\* What is written keeps the reservations finite in number.
LEMMA BookedFinite ==
    ASSUME TypeOK, SumInv, NEW r \in Runs, NEW b, booked' = [booked EXCEPT ![r] = b]
    PROVE  IsFiniteSet({q \in Runs : booked'[q] # Free})
<1> DEFINE B == {q \in Runs : booked[q] # Free}
           C == {q \in Runs : booked'[q] # Free}
<1>1. IsFiniteSet(B \cup {r})
  BY FS_AddElement DEF SumInv
<1>2. C \subseteq B \cup {r}
  BY DEF TypeOK
<1> QED
  BY <1>1, <1>2, FS_Subset

LEMMA TablesSame ==
    ASSUME SumInv, UNCHANGED ledgerVars
    PROVE  SumInv'
  BY DEF SumInv, LedgerIsSum, Covers, Debit, ledgerVars

LEMMA BeginKeepsSum ==
    ASSUME IInv, IInv', SumInv, NEW i \in Incidents, NEW r \in Runs, Begin(i, r)
    PROVE  SumInv'
<1> DEFINE S == ScopesOf(r)
<1>1. TypeOK /\ TypeOK' /\ booked[r] = Free /\ Amount \in Nat /\ S \in SUBSET Scopes
  BY AmountType, ScopesOfType DEF IInv, Begin, FreshRuns
<1>2. CASE Fits(Amount, S)
  <2>1. ledger' = Charged(Amount, S) /\ booked' = [booked EXCEPT ![r] = Open(Amount, S)]
    BY <1>1, <1>2 DEF Begin, Reserve
  <2>2. booked'[r] = Open(Amount, S)
    BY <1>1, <2>1, OthersKept
  <2>3. Debits'[r] = Amount
    BY <2>2 DEF Debits, Debit, Open
  <2>4. \A s : r \notin Holders(s) /\ (r \in Holders(s)' <=> s \in S)
    BY <1>1, <2>2 DEF Holders, Covers, Open, Free
  <2>5. ASSUME NEW s \in Scopes
        PROVE  ledger'[s] = SumFunctionOnSet(Debits, Holders(s))'
    <3>1. ledger[s] = SumFunctionOnSet(Debits, Holders(s)) /\ ledger[s] \in Nat
      BY <1>1, SumForm DEF SumInv, TypeOK
    <3>2. SumFunctionOnSet(Debits, Holders(s))' =
             IF s \in S THEN Amount + ledger[s] ELSE ledger[s]
      BY <1>1, <2>1, <2>3, <2>4, <3>1, SumMoves
    <3>3. ledger'[s] = IF s \in S THEN ledger[s] + Amount ELSE ledger[s]
      BY <2>1 DEF Charged
    <3> QED
      BY <1>1, <3>1, <3>2, <3>3
  <2>6. LedgerIsSum'
    BY <2>5 DEF LedgerIsSum, Debits, Holders
  <2> QED
    BY <1>1, <2>1, <2>6, BookedFinite DEF SumInv
<1>3. CASE ~Fits(Amount, S)
  BY <1>3, TablesSame DEF Begin, Reserve
<1> QED
  BY <1>2, <1>3

LEMMA SettleKeepsSum ==
    ASSUME IInv, IInv', SumInv, Settle
    PROVE  SumInv'
<1> DEFINE S == ScopesOf(run.id)
           r == run.id
           b == booked[run.id]
<1>1. TypeOK /\ TypeOK' /\ stage = "over" /\ Amount \in Nat /\ r \in Runs
  BY AmountType, RunType DEF IInv, Settle
<1>2. CASE run.admitted /\ ~run.recorded
  <2>1. b = Open(Amount, S)
    BY <1>1, <1>2 DEF IInv, RunBooked
  <2>2. b.amount = Amount /\ b.scopes = S /\ b.state = "open" /\ b # Free
    BY <2>1 DEF Open, Free
  <2>3. /\ ledger' = Charged(0 - Amount, S)
        /\ booked' = [booked EXCEPT ![r] = Settled(b, 0)]
    BY <1>2, <2>2 DEF Settle, Reconcile
  <2>4. booked'[r] = Settled(b, 0)
    BY <1>1, <2>3, OthersKept
  <2>5. Debits[r] = Amount /\ Debits'[r] = 0
    BY <1>1, <2>2, <2>4 DEF Debits, Debit, Settled
  <2>6. \A s : (r \in Holders(s) <=> s \in S) /\ (r \in Holders(s)' <=> s \in S)
    BY <1>1, <2>2, <2>4 DEF Holders, Covers, Settled, Free
  <2>7. ASSUME NEW s \in Scopes
        PROVE  ledger'[s] = SumFunctionOnSet(Debits, Holders(s))'
    <3>1. ledger[s] = SumFunctionOnSet(Debits, Holders(s)) /\ ledger[s] \in Nat
      BY <1>1, SumForm DEF SumInv, TypeOK
    <3>2. SumFunctionOnSet(Debits, Holders(s))' =
             IF s \in S THEN ledger[s] - Amount + 0 ELSE ledger[s]
      BY <1>1, <2>3, <2>5, <2>6, <3>1, SumMoves
    <3>3. ledger'[s] = IF s \in S THEN ledger[s] + (0 - Amount) ELSE ledger[s]
      BY <2>3 DEF Charged
    <3> QED
      BY <1>1, <3>1, <3>2, <3>3
  <2>8. LedgerIsSum'
    BY <2>7 DEF LedgerIsSum, Debits, Holders
  <2> QED
    BY <1>1, <2>3, <2>8, BookedFinite DEF SumInv
<1>3. CASE ~(run.admitted /\ ~run.recorded)
  BY <1>3, TablesSame DEF Settle
<1> QED
  BY <1>2, <1>3

LEMMA InitSums == Init => SumInv
<1> SUFFICES ASSUME Init PROVE SumInv
  OBVIOUS
<1>1. {r \in Runs : booked[r] # Free} = {}
  BY DEF Init, LedgerInit
<1>2. \A s : Holders(s) = {}
  BY <1>1 DEF Holders, Covers
<1>3. SumFunctionOnSet(Debits, {}) = 0
  BY SumUnfolds, FS_EmptySet
<1>4. LedgerIsSum
  BY <1>2, <1>3, SumForm DEF Init, LedgerInit
<1> QED
  BY <1>1, <1>4, FS_EmptySet DEF SumInv

-----------------------------------------------------------------------------
(* The properties *)

\* The tables keep their types for all limits and all sets of providers; in
\* particular reconcile_cost never takes a ledger below zero.
THEOREM TypeCorrect == Spec => []TypeOK
<1>1. IInv => TypeOK
  BY DEF IInv
<1> QED
  BY <1>1, LedgerInvariant, PTL

\* reserve_cost keeps every ledger of an incident, a day or a month within its
\* ceiling, whatever crashes, failures and settlements come between.
THEOREM LedgersWithinCeilings == Spec => []WithinCeilings
<1>1. IInv => WithinCeilings
  BY DEF IInv
<1> QED
  BY <1>1, LedgerInvariant, PTL

\* What a provider billed is in the ledgers, but for runs that failed with
\* nothing recorded: reconcile_cost never releases what was seen to be spent.
THEOREM BilledIsDebited == Spec => []DebitsKept
<1>1. IInv => DebitsKept
  <2> SUFFICES ASSUME IInv, NEW s \in Scopes
               PROVE  billed[s] <= ledger[s] + unseen[s]
    BY DEF DebitsKept
  <2>1. billed[s] + Due(s) <= ledger[s] + unseen[s]
    BY DEF IInv, Covered
  <2>2. Due(s) \in Nat
    BY DueType
  <2>3. billed[s] \in Nat /\ ledger[s] \in Nat /\ unseen[s] \in Nat
    BY DEF IInv, TypeOK
  <2> QED
    BY <2>1, <2>2, <2>3
<1> QED
  BY <1>1, LedgerInvariant, PTL

\* Every ledger is the sum of what its reservations cost: no crash, refusal or
\* settlement leaves reserve_cost or reconcile_cost half done.
THEOREM LedgersAddUp == Spec => []LedgerIsSum
<1>1. IInv /\ IInv' /\ SumInv /\ [Next]_vars => SumInv'
  <2> SUFFICES ASSUME IInv, IInv', SumInv, [Next]_vars PROVE SumInv'
    OBVIOUS
  <2>1. ASSUME NEW i \in Incidents, NEW r \in Runs, Begin(i, r) PROVE SumInv'
    BY <2>1, BeginKeepsSum
  <2>2. CASE Settle
    BY <2>2, SettleKeepsSum
  <2>3. ASSUME UNCHANGED ledgerVars PROVE SumInv'
    BY <2>3, TablesSame
  <2>4. (\E p \in PaidProviders, cost \in 0 .. Part : Call(p, cost)) => UNCHANGED ledgerVars
    BY DEF Call
  <2>5. CallUnpaid \/ Record \/ (\E ok \in BOOLEAN : End(ok)) => UNCHANGED ledgerVars
    BY DEF CallUnpaid, Record, End
  <2>6. Refuse \/ Conclude \/ Restart \/ UNCHANGED vars => UNCHANGED ledgerVars
    BY DEF Refuse, Conclude, Restart, vars
  <2> QED
    BY <2>1, <2>2, <2>3, <2>4, <2>5, <2>6 DEF Next
<1>2. SumInv => LedgerIsSum
  BY DEF SumInv
<1> QED
  BY <1>1, <1>2, InitSums, LedgerInvariant, PTL DEF Spec

=============================================================================
