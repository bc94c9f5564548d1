-------------------------- MODULE ManualRepairProofs --------------------------
(***************************************************************************)
(* Manual repair, for any incidents, receipts, deployments, lifetimes and  *)
(* bounds.  The argument has four layers: what the owner has in hand at    *)
(* each place (Places), what the rows of the deployments are               *)
(* (QualificationAudited), how the tables, the journal and the requests    *)
(* sent agree (Books), and what a run may rely on between two of its steps *)
(* (Course for its request, Imported for the receipts of its admission).   *)
(***************************************************************************)
EXTENDS ManualRepair, SequenceTheorems, WellFoundedInduction, TLAPS

\* The owner is in a repair, and not in an intake or between two incidents.
InRun == pc \in Steps /\ phase # "intake"

\* The request of the run is reserved; its receipt is in.
Requested == pc \in {"send", "await", "recapture"} \/ (pc \in Steps /\ phase = "final")
Validated == pc = "recapture" \/ (pc \in Steps /\ phase = "final")

\* The run has its candidate.
Prepared == pc \in Steps /\ (pc = "attempt" \/ phase \in {"dispatch", "final"})

Phases ==
    /\ pc \in {"load", "scan"} => phase \in {"admit", "dispatch", "final"}
    /\ pc = "bound" => phase \in {"dispatch", "final"}
    /\ pc = "import" => phase \in {"admit", "dispatch", "final", "intake"}
    /\ pc \in {"survey", "prepare", "attempt"} => phase = "admit"
    /\ pc \in {"reserve", "send", "await", "recapture"} => phase = "dispatch"
    /\ pc = "finalize" => phase = "final"
    /\ pc = "finish" => phase # "intake"

InHand ==
    /\ pc # "down" => starts >= 1
    /\ pc = "finish" \/ InRun => run \in Run
    /\ pc = "scan" => load \in [at : Nat, checkpoint : Checkpoint]
    /\ pc \in {"bound", "import", "survey", "prepare", "reserve", "send", "finalize"}
          /\ phase # "intake" =>
              admission \in Checkpoint /\ admission.receipts # {}
    /\ pc = "import" =>
          importing \in [rest : SUBSET Receipts, at : Nat] /\ importing.rest # {}
    /\ Prepared => candidate \in Artifact
    /\ Requested => request \in Request
    /\ Validated => completedAt \in Nat

\* A stop is confirmed by an owner that is gone.
Stopping ==
    /\ stop = "confirmed" => pc = "dropped"
    /\ pc = "down" => stop = "no"

\* The parts of RepairTypeOK.
OutsideOK ==
    /\ inbox \subseteq Receipts
    /\ checkpoint \in Checkpoint \cup {None}
    /\ head \in Bases
    /\ clock \in Times
    /\ backs \in 0 .. MaxBacks

TablesOK ==
    /\ candidates \subseteq Artifact
    /\ attempts \subseteq Attempt
    /\ recoveries \subseteq Attempt
    /\ handoffs \subseteq Handoff
    /\ completed \subseteq Incidents
    /\ sent \subseteq Request

HistoryOK == history \in Seq(RepairFact)

RunOK ==
    /\ pc \in {"down", "idle", "finish", "dropped"} \cup Steps
    /\ phase \in {"admit", "dispatch", "final", "intake", None}
    /\ run \in Run \cup {None}
    /\ load \in [at : Nat, checkpoint : Checkpoint] \cup {None}
    /\ admission \in Checkpoint \cup {None}
    /\ importing \in [rest : SUBSET Receipts, at : Nat] \cup {None}
    /\ candidate \in Artifact \cup {None}
    /\ request \in Request \cup {None}
    /\ completedAt \in Nat \cup {None}

ProcessOK ==
    /\ queue \in Seq([command : Command, live : BOOLEAN])
    /\ stop \in {"no", "asked", "confirmed"}
    /\ starts \in 0 .. MaxStarts

\* What the owner has in hand at each place.
Places ==
    /\ QualificationTypeOK /\ OutsideOK /\ TablesOK /\ HistoryOK /\ RunOK /\ ProcessOK
    /\ Phases /\ InHand /\ Stopping

\* A fact is about the deployment of its receipt.
AuditNamed == \A n \in DOMAIN audit : audit[n].deployment = audit[n].receipt.deployment

\* The incident of a fact.
Concerns(fact) ==
    IF fact.stage = "prepared" THEN fact.of.incident ELSE fact.of.artifact.incident

\* Every fact is filed under its incident.
Scoped == \A n \in DOMAIN history : history[n].scope = {Concerns(history[n])}

\* How the tables, the journal and the requests sent agree.
Books ==
    /\ FactsOnce /\ Scoped
    /\ ReservationsAccounted
    /\ candidates = Facts("prepared")
    /\ handoffs = Facts("validated")
    /\ \A q \in Facts("reserved") : q.artifact \in candidates /\ q.nonce < Len(history)
    /\ \A h \in handoffs :
          h.artifact \in candidates /\ \E q \in Facts("received") : IncidentOf(q) = IncidentOf(h)
    /\ Facts("received") \subseteq sent
    /\ Facts("acknowledged") \subseteq handoffs

\* The receipt has been recorded: it is that of its deployment, or contradicts it.
Recorded(r) ==
    /\ Known(r.deployment)
    /\ deployments[r.deployment].eligible => deployments[r.deployment].receipt = r

\* What a run may rely on between two of its steps.
Course ==
    /\ Prepared => candidate \in candidates /\ candidate.incident = run.incident
    /\ InRun /\ ~Requested => \A q \in Facts("reserved") : IncidentOf(q) # run.incident
    /\ InRun => \A h \in handoffs : IncidentOf(h) # run.incident
    /\ Requested => request \in Facts("reserved") /\ request.artifact = candidate
    /\ pc = "send" => request \notin sent
    /\ Requested /\ pc # "send" => request \in sent
    /\ Validated => request \in Facts("received")

\* The receipts of the admission that are recorded.
Imported ==
    /\ pc = "import" /\ phase # "intake" =>
          \A r \in admission.receipts \ importing.rest : Recorded(r)
    /\ pc = "finalize" => \A r \in admission.receipts : Recorded(r)

\* The inductive invariant.
RepairInv == Places /\ QualificationAudited /\ AuditNamed /\ Books /\ Course /\ Imported

-----------------------------------------------------------------------------
(* What the owner has in hand *)

LEMMA TypeParts ==
    RepairTypeOK <=>
        QualificationTypeOK /\ OutsideOK /\ TablesOK /\ HistoryOK /\ RunOK /\ ProcessOK
  BY DEF RepairTypeOK, OutsideOK, TablesOK, HistoryOK, RunOK, ProcessOK

\* What a step leaves alone keeps its type.
LEMMA TypesFramed ==
    /\ QualificationTypeOK /\ UNCHANGED qualificationVars => QualificationTypeOK'
    /\ OutsideOK /\ UNCHANGED outsideVars => OutsideOK'
    /\ TablesOK /\ UNCHANGED <<candidates, attempts, recoveries, handoffs, completed, sent>>
          => TablesOK'
    /\ HistoryOK /\ UNCHANGED history => HistoryOK'
    /\ ProcessOK /\ UNCHANGED processVars => ProcessOK'
<1>1. QualificationTypeOK /\ UNCHANGED qualificationVars => QualificationTypeOK'
  BY DEF QualificationTypeOK, qualificationVars
<1>2. OutsideOK /\ UNCHANGED outsideVars => OutsideOK'
  BY DEF OutsideOK, outsideVars
<1>3. TablesOK /\ UNCHANGED <<candidates, attempts, recoveries, handoffs, completed, sent>>
         => TablesOK'
  BY DEF TablesOK
<1>4. HistoryOK /\ UNCHANGED history => HistoryOK'
  BY DEF HistoryOK
<1>5. ProcessOK /\ UNCHANGED processVars => ProcessOK'
  BY DEF ProcessOK, processVars
<1> QED
  BY <1>1, <1>2, <1>3, <1>4, <1>5

LEMMA OwnerFramed ==
    ASSUME Places, UNCHANGED <<pc, runVars, processVars>>
    PROVE  RunOK' /\ ProcessOK' /\ Phases' /\ InHand' /\ Stopping'
<1>1. RunOK'
  BY DEF Places, RunOK, runVars
<1>2. ProcessOK'
  BY DEF Places, ProcessOK, processVars
<1>3. Phases' /\ Stopping'
  BY DEF Places, Phases, Stopping, runVars, processVars
<1>4. InHand'
  BY DEF Places, InHand, InRun, Requested, Prepared, Validated, runVars, processVars
<1> QED
  BY <1>1, <1>2, <1>3, <1>4

LEMMA ClockIsNat == ASSUME Places PROVE clock \in Nat
  BY RepairConstants DEF Places, OutsideOK, Times

\* The facts of a stage are of its kind.
LEMMA FactTypes ==
    ASSUME HistoryOK
    PROVE  /\ Facts("prepared") \subseteq Artifact
           /\ \A s \in ValidationStages : Facts(s) \subseteq Request
           /\ \A s \in {"validated", "acknowledged"} : Facts(s) \subseteq Handoff
<1>1. ASSUME NEW n \in DOMAIN history PROVE history[n] \in RepairFact
  BY DEF HistoryOK
<1> QED
  BY <1>1 DEF Facts, RepairFact, ValidationStages

LEMMA LoggedType ==
    ASSUME HistoryOK, NEW s, NEW x, NEW a,
           \/ s = "prepared" /\ x \in Artifact /\ a = x
           \/ s \in ValidationStages /\ x \in Request
           \/ s \in {"validated", "acknowledged"} /\ x \in Handoff
    PROVE  Logged(s, x, a) \in Seq(RepairFact)
<1> DEFINE fact == [stage |-> s, of |-> x,
                    scope |-> IF s = "prepared" THEN {a.incident} ELSE ScopeOf(a)]
<1>1. ScopeOf(a) \subseteq Incidents
  BY DEF ScopeOf
<1>2. s = "prepared" /\ x \in Artifact /\ a = x => {a.incident} \subseteq Incidents
  BY DEF Artifact
<1>3. fact \in RepairFact
  BY <1>1, <1>2 DEF RepairFact, ValidationStages
<1> QED
  BY <1>3 DEF HistoryOK, Logged

Less == {p \in Nat \X Nat : p[1] < p[2]}

LEMMA LessWellFounded == IsWellFoundedOn(Less, Nat)
<1>1. Less = OpToRel(<, Nat)
  BY DEF Less, OpToRel
<1> QED
  BY <1>1, NatLessThanWellFounded, Zenon

\* There is a first receipt to record.
LEMMA NextReceipt ==
    ASSUME Places, pc = "import"
    PROVE  (CHOOSE s \in importing.rest : \A t \in importing.rest : s.file <= t.file)
               \in importing.rest
<1>1. importing.rest \subseteq Receipts /\ importing.rest # {}
  BY DEF Places, InHand
<1>2. \A r \in importing.rest : r.file \in Nat
  BY <1>1, ReceiptsAssumption DEF Receipt
<1> DEFINE files == {r.file : r \in importing.rest}
<1>3. files \subseteq Nat /\ files # {}
  BY <1>1, <1>2
<1>4. PICK x \in files : \A y \in files : ~ (<<y, x>> \in Less)
  <2> HIDE DEF files
  <2> QED
    BY <1>3, LessWellFounded, WFMin, Zenon
<1>5. PICK s \in importing.rest : x = s.file
  BY <1>4
<1>6. ASSUME NEW t \in importing.rest PROVE s.file <= t.file
  <2>1. <<t.file, s.file>> \notin Less
    BY <1>4, <1>5
  <2> QED
    BY <2>1, <1>2 DEF Less
<1> QED
  BY <1>6

\* A decision keeps the types of the rows and the facts.
LEMMA RecordTypes ==
    ASSUME QualificationTypeOK, NEW r \in Receipts, NEW now \in Nat, RecordDeployment(r, now)
    PROVE  QualificationTypeOK'
<1>1. r.deployment \in Deployments /\ Eligible(r, now) \in BOOLEAN
  BY ReceiptsAssumption DEF Receipt, Eligible
<1>2. CASE RecordFirst(r, now)
  BY <1>1, <1>2 DEF RecordFirst, QualificationTypeOK, Stored, Row, Fact
<1>3. CASE RecordReplay(r)
  BY <1>3 DEF RecordReplay, QualificationTypeOK, qualificationVars
<1>4. CASE RecordContradiction(r, now)
  <2>1. deployments[r.deployment] \in Row
    BY <1>4 DEF RecordContradiction, QualificationTypeOK, Known
  <2>2. [deployments[r.deployment] EXCEPT !.eligible = FALSE] \in Row
    BY <2>1 DEF Row
  <2>3. DOMAIN deployments' = DOMAIN deployments /\ deployments' \in [DOMAIN deployments -> Row]
    BY <2>2, <1>4 DEF RecordContradiction, QualificationTypeOK
  <2>4. audit' \in Seq(Fact)
    BY <1>1, <1>4 DEF RecordContradiction, QualificationTypeOK, Fact
  <2> QED
    BY <2>3, <2>4 DEF QualificationTypeOK
<1> QED
  BY <1>2, <1>3, <1>4 DEF RecordDeployment

LEMMA PublishReceiptPlaces ==
    ASSUME Places, NEW r \in Receipts, PublishReceipt(r)
    PROVE  Places'
<1>1. QualificationTypeOK' /\ TablesOK' /\ HistoryOK'
  BY TypesFramed DEF Places, PublishReceipt, durableVars, qualificationVars, tableVars,
     runVars, processVars
<1>2. RunOK' /\ ProcessOK' /\ Phases' /\ InHand' /\ Stopping'
  BY OwnerFramed DEF PublishReceipt
<1>3. OutsideOK'
  BY RepairConstants DEF Places, OutsideOK, Times, Bases, PublishReceipt, durableVars,
     qualificationVars, tableVars, runVars, processVars
<1> QED
  BY <1>1, <1>2, <1>3 DEF Places

LEMMA PublishCheckpointPlaces ==
    ASSUME Places, NEW d \in Deployments, PublishCheckpoint(d)
    PROVE  Places'
<1>1. checkpoint' \in Checkpoint
  BY ClockIsNat, RepairConstants DEF Places, OutsideOK, PublishCheckpoint, Checkpoint
<1>2. QualificationTypeOK' /\ TablesOK' /\ HistoryOK'
  BY TypesFramed DEF Places, PublishCheckpoint, durableVars, qualificationVars,
     tableVars, runVars, processVars
<1>3. RunOK' /\ ProcessOK' /\ Phases' /\ InHand' /\ Stopping'
  BY OwnerFramed DEF PublishCheckpoint
<1>4. OutsideOK'
  BY <1>1, RepairConstants DEF Places, OutsideOK, Times, Bases, PublishCheckpoint,
     durableVars, qualificationVars, tableVars, runVars, processVars
<1> QED
  BY <1>2, <1>3, <1>4 DEF Places

LEMMA MoveHeadPlaces ==
    ASSUME Places, MoveHead
    PROVE  Places'
<1>1. QualificationTypeOK' /\ TablesOK' /\ HistoryOK'
  BY TypesFramed DEF Places, MoveHead, durableVars, qualificationVars, tableVars,
     runVars, processVars
<1>2. RunOK' /\ ProcessOK' /\ Phases' /\ InHand' /\ Stopping'
  BY OwnerFramed DEF MoveHead
<1>3. OutsideOK'
  BY RepairConstants DEF Places, OutsideOK, Times, Bases, MoveHead, durableVars,
     qualificationVars, tableVars, runVars, processVars
<1> QED
  BY <1>1, <1>2, <1>3 DEF Places

LEMMA TickPlaces ==
    ASSUME Places, Tick
    PROVE  Places'
<1>1. QualificationTypeOK' /\ TablesOK' /\ HistoryOK'
  BY TypesFramed DEF Places, Tick, durableVars, qualificationVars, tableVars, runVars,
     processVars
<1>2. RunOK' /\ ProcessOK' /\ Phases' /\ InHand' /\ Stopping'
  BY OwnerFramed DEF Tick
<1>3. OutsideOK'
  BY RepairConstants DEF Places, OutsideOK, Times, Bases, Tick, durableVars,
     qualificationVars, tableVars, runVars, processVars
<1> QED
  BY <1>1, <1>2, <1>3 DEF Places

LEMMA SetBackPlaces ==
    ASSUME Places, SetBack
    PROVE  Places'
<1>1. QualificationTypeOK' /\ TablesOK' /\ HistoryOK'
  BY TypesFramed DEF Places, SetBack, durableVars, qualificationVars, tableVars,
     runVars, processVars
<1>2. RunOK' /\ ProcessOK' /\ Phases' /\ InHand' /\ Stopping'
  BY OwnerFramed DEF SetBack
<1>3. OutsideOK'
  BY RepairConstants DEF Places, OutsideOK, Times, Bases, SetBack, durableVars,
     qualificationVars, tableVars, runVars, processVars
<1> QED
  BY <1>1, <1>2, <1>3 DEF Places

LEMMA StartRepairPlaces ==
    ASSUME Places, NEW i \in Incidents, StartRepair(i)
    PROVE  Places'
<1>1. run' \in Run
  BY RepairConstants DEF Places, ProcessOK, InHand, StartRepair, Run
<1>2. QualificationTypeOK' /\ OutsideOK' /\ TablesOK' /\ HistoryOK' /\ ProcessOK'
  BY TypesFramed DEF Places, StartRepair, outsideVars, durableVars, qualificationVars,
     tableVars, processVars
<1>3. RunOK'
  BY <1>1 DEF Places, RunOK, Steps, StartRepair, outsideVars, durableVars,
     qualificationVars, tableVars, processVars
<1>4. Phases' /\ Stopping'
  BY RepairConstants DEF Places, RunOK, Phases, Stopping, ProcessOK, Steps, StartRepair,
     outsideVars, durableVars, qualificationVars, tableVars, processVars
<1>5. InHand'
  BY <1>1, RepairConstants DEF Places, InHand, ProcessOK, RunOK, Phases, InRun,
     Requested, Prepared, Validated, Steps, StartRepair, outsideVars, durableVars,
     qualificationVars, tableVars, processVars
<1> QED
  BY <1>2, <1>3, <1>4, <1>5 DEF Places

LEMMA StartIntakePlaces ==
    ASSUME Places, StartIntake
    PROVE  Places'
<1>1. importing' \in [rest : SUBSET Receipts, at : Nat] /\ importing'.rest # {}
  BY ClockIsNat DEF Places, OutsideOK, StartIntake, Scan
<1>2. QualificationTypeOK' /\ OutsideOK' /\ TablesOK' /\ HistoryOK' /\ ProcessOK'
  BY TypesFramed DEF Places, StartIntake, outsideVars, durableVars, qualificationVars,
     tableVars, processVars
<1>3. RunOK'
  BY <1>1 DEF Places, RunOK, Steps, StartIntake, outsideVars, durableVars,
     qualificationVars, tableVars, processVars
<1>4. Phases' /\ Stopping'
  BY DEF Places, RunOK, Phases, Stopping, ProcessOK, Steps, StartIntake, outsideVars,
     durableVars, qualificationVars, tableVars, processVars
<1>5. InHand'
  BY <1>1, RepairConstants DEF Places, InHand, ProcessOK, RunOK, Phases, InRun,
     Requested, Prepared, Validated, Steps, StartIntake, outsideVars, durableVars,
     qualificationVars, tableVars, processVars
<1> QED
  BY <1>2, <1>3, <1>4, <1>5 DEF Places

LEMMA ReadCheckpointPlaces ==
    ASSUME Places, ReadCheckpoint
    PROVE  Places'
<1>1. load' \in [at : Nat, checkpoint : Checkpoint]
  BY ClockIsNat DEF Places, OutsideOK, ReadCheckpoint
<1>2. QualificationTypeOK' /\ OutsideOK' /\ TablesOK' /\ HistoryOK' /\ ProcessOK'
  BY TypesFramed DEF Places, ReadCheckpoint, outsideVars, durableVars,
     qualificationVars, tableVars, processVars
<1>3. RunOK'
  BY <1>1 DEF Places, RunOK, Steps, ReadCheckpoint, outsideVars, durableVars,
     qualificationVars, tableVars, processVars
<1>4. Phases' /\ Stopping'
  BY DEF Places, RunOK, Phases, Stopping, ProcessOK, Steps, ReadCheckpoint, outsideVars,
     durableVars, qualificationVars, tableVars, processVars
<1>5. InHand'
  BY <1>1, RepairConstants DEF Places, InHand, ProcessOK, RunOK, Phases, InRun,
     Requested, Prepared, Validated, Steps, ReadCheckpoint, outsideVars, durableVars,
     qualificationVars, tableVars, processVars
<1> QED
  BY <1>2, <1>3, <1>4, <1>5 DEF Places

LEMMA BindCheckpointPlaces ==
    ASSUME Places, BindCheckpoint
    PROVE  Places'
<1>1. admission' \in Checkpoint /\ admission'.receipts # {} /\ Scan = admission'.receipts
  BY DEF Places, InHand, BindCheckpoint, Binds
<1>2. phase = "admit" => importing' \in [rest : SUBSET Receipts, at : Nat] /\ importing'.rest # {}
  BY <1>1, ClockIsNat DEF Places, OutsideOK, BindCheckpoint, Scan
<1>3. QualificationTypeOK' /\ OutsideOK' /\ TablesOK' /\ HistoryOK' /\ ProcessOK'
  BY TypesFramed DEF Places, BindCheckpoint, outsideVars, durableVars,
     qualificationVars, tableVars, processVars
<1>4. RunOK'
  BY <1>1, <1>2 DEF Places, RunOK, Steps, BindCheckpoint, outsideVars, durableVars,
     qualificationVars, tableVars, processVars
<1>5. Phases' /\ Stopping'
  BY DEF Places, RunOK, Phases, Stopping, ProcessOK, Steps, BindCheckpoint, outsideVars,
     durableVars, qualificationVars, tableVars, processVars
<1>6. InHand'
  BY <1>1, <1>2, RepairConstants DEF Places, InHand, ProcessOK, RunOK, Phases, InRun,
     Requested, Prepared, Validated, Steps, BindCheckpoint, outsideVars, durableVars,
     qualificationVars, tableVars, processVars
<1> QED
  BY <1>3, <1>4, <1>5, <1>6 DEF Places

LEMMA BeginImportPlaces ==
    ASSUME Places, BeginImport
    PROVE  Places'
<1>1. importing' \in [rest : SUBSET Receipts, at : Nat] /\ importing'.rest # {}
  BY ClockIsNat DEF Places, Phases, InHand, Checkpoint, BeginImport
<1>2. QualificationTypeOK' /\ OutsideOK' /\ TablesOK' /\ HistoryOK' /\ ProcessOK'
  BY TypesFramed DEF Places, BeginImport, outsideVars, durableVars, qualificationVars,
     tableVars, processVars
<1>3. RunOK'
  BY <1>1 DEF Places, RunOK, Steps, BeginImport, outsideVars, durableVars,
     qualificationVars, tableVars, processVars
<1>4. Phases' /\ Stopping'
  BY DEF Places, RunOK, Phases, Stopping, ProcessOK, Steps, BeginImport, outsideVars,
     durableVars, qualificationVars, tableVars, processVars
<1>5. InHand'
  BY <1>1, RepairConstants DEF Places, InHand, ProcessOK, RunOK, Phases, InRun,
     Requested, Prepared, Validated, Steps, BeginImport, outsideVars, durableVars,
     qualificationVars, tableVars, processVars
<1> QED
  BY <1>2, <1>3, <1>4, <1>5 DEF Places

LEMMA ImportPlaces ==
    ASSUME Places, Import
    PROVE  Places'
<1>1. PICK r \in importing.rest :
         /\ RecordDeployment(r, IF phase = "admit" THEN clock ELSE importing.at)
         /\ IF importing.rest \ {r} = {}
              THEN /\ importing' = None
                   /\ pc' = AfterImport
                   /\ phase' = IF phase = "intake" THEN None ELSE phase
              ELSE /\ importing' = [importing EXCEPT !.rest = importing.rest \ {r}]
                   /\ UNCHANGED <<pc, phase>>
  BY NextReceipt DEF Import
<1>2. /\ importing.rest \ {r} # {} =>
            importing' \in [rest : SUBSET Receipts, at : Nat] /\ importing'.rest # {}
      /\ r \in Receipts /\ (IF phase = "admit" THEN clock ELSE importing.at) \in Nat
  BY <1>1, ClockIsNat DEF Places, InHand, Import
<1>3. QualificationTypeOK'
  BY <1>1, <1>2, RecordTypes DEF Places
<1>4. AfterImport \in {"survey", "reserve", "finalize", "idle"}
  BY DEF Places, Phases, Import, AfterImport
<1>5. OutsideOK' /\ TablesOK' /\ HistoryOK' /\ ProcessOK'
  BY TypesFramed DEF Places, Import, outsideVars, tableVars, processVars
<1>6. QualificationTypeOK'
  BY <1>3 DEF Places, QualificationTypeOK, Import, AfterImport, outsideVars, tableVars,
     processVars
<1>7. RunOK'
  BY <1>1, <1>2, <1>4 DEF Places, RunOK, Steps, Import, outsideVars, tableVars,
     processVars
<1>8. Phases' /\ Stopping'
  BY <1>1, RepairConstants DEF Places, RunOK, Phases, Stopping, ProcessOK, Steps,
     Import, AfterImport, outsideVars, tableVars, processVars
<1>9. InHand'
  BY <1>1, <1>2, RepairConstants DEF Places, InHand, ProcessOK, RunOK, Phases, InRun,
     Requested, Prepared, Validated, Steps, Import, AfterImport, outsideVars, tableVars,
     processVars
<1> QED
  BY <1>5, <1>6, <1>7, <1>8, <1>9 DEF Places

LEMMA SurveyPlaces ==
    ASSUME Places, Survey
    PROVE  Places'
<1>1. QualificationTypeOK' /\ OutsideOK' /\ TablesOK' /\ HistoryOK' /\ ProcessOK'
  BY TypesFramed DEF Places, Survey, outsideVars, durableVars, qualificationVars,
     tableVars, runVars, processVars
<1>2. RunOK'
  BY DEF Places, RunOK, Steps, Survey, outsideVars, durableVars, qualificationVars,
     tableVars, runVars, processVars
<1>3. Phases' /\ Stopping'
  BY DEF Places, RunOK, Phases, Stopping, ProcessOK, Steps, Survey, outsideVars,
     durableVars, qualificationVars, tableVars, runVars, processVars
<1>4. InHand'
  BY RepairConstants DEF Places, InHand, ProcessOK, RunOK, Phases, InRun, Requested,
     Prepared, Validated, Steps, Survey, outsideVars, durableVars, qualificationVars,
     tableVars, runVars, processVars
<1> QED
  BY <1>1, <1>2, <1>3, <1>4 DEF Places

LEMMA PrepareCandidatePlaces ==
    ASSUME Places, PrepareCandidate
    PROVE  Places'
<1>1. PICK r \in Qualified(admission.deployment, clock) :
         LET a == NewCandidate(r)
         IN  /\ candidate' = a
             /\ candidates' = candidates \cup {a}
             /\ history' = IF a \in candidates THEN history ELSE Logged("prepared", a, a)
  BY DEF PrepareCandidate
<1>2. NewCandidate(r) \in Artifact
  BY <1>1 DEF Places, Phases, InHand, InRun, Steps, PrepareCandidate, NewCandidate,
     Artifact, Run, Checkpoint, Qualified
<1>3. history' \in Seq(RepairFact)
  BY <1>1, <1>2, LoggedType DEF Places, HistoryOK
<1>4. QualificationTypeOK' /\ OutsideOK' /\ ProcessOK'
  BY TypesFramed DEF Places, PrepareCandidate, outsideVars, qualificationVars,
     processVars
<1>5. TablesOK'
  BY <1>1, <1>2 DEF Places, TablesOK, PrepareCandidate, outsideVars, qualificationVars,
     processVars
<1>6. HistoryOK'
  BY <1>3 DEF Places, HistoryOK, PrepareCandidate, outsideVars, qualificationVars,
     processVars
<1>7. RunOK'
  BY <1>1, <1>2 DEF Places, RunOK, Steps, PrepareCandidate, outsideVars,
     qualificationVars, processVars
<1>8. Phases' /\ Stopping'
  BY DEF Places, RunOK, Phases, Stopping, ProcessOK, Steps, PrepareCandidate,
     outsideVars, qualificationVars, processVars
<1>9. InHand'
  BY <1>1, <1>2, RepairConstants DEF Places, InHand, ProcessOK, RunOK, Phases, InRun,
     Requested, Prepared, Validated, Steps, PrepareCandidate, outsideVars,
     qualificationVars, processVars
<1> QED
  BY <1>4, <1>5, <1>6, <1>7, <1>8, <1>9 DEF Places

LEMMA CheckAttemptPlaces ==
    ASSUME Places, CheckAttempt
    PROVE  Places'
<1>1. QualificationTypeOK' /\ OutsideOK' /\ TablesOK' /\ HistoryOK' /\ ProcessOK'
  BY TypesFramed DEF Places, CheckAttempt, outsideVars, durableVars, qualificationVars,
     tableVars, processVars
<1>2. RunOK'
  BY DEF Places, RunOK, Steps, CheckAttempt, outsideVars, durableVars,
     qualificationVars, tableVars, processVars
<1>3. Phases' /\ Stopping'
  BY DEF Places, RunOK, Phases, Stopping, ProcessOK, Steps, CheckAttempt, outsideVars,
     durableVars, qualificationVars, tableVars, processVars
<1>4. InHand'
  BY RepairConstants DEF Places, InHand, ProcessOK, RunOK, Phases, InRun, Requested,
     Prepared, Validated, Steps, CheckAttempt, outsideVars, durableVars,
     qualificationVars, tableVars, processVars
<1> QED
  BY <1>1, <1>2, <1>3, <1>4 DEF Places

LEMMA ReservePlaces ==
    ASSUME Places, Reserve
    PROVE  Places'
<1>1. NewRequest \in Request
  BY ClockIsNat, RepairConstants DEF Places, Phases, InHand, Prepared, Steps, HistoryOK,
     NewRequest, Request, Reserve
<1>2. [request |-> NewRequest, completed |-> None] \in Attempt
  BY <1>1 DEF Attempt
<1>3. history' \in Seq(RepairFact)
  BY <1>1, LoggedType DEF Places, Reserve, ValidationStages
<1>4. QualificationTypeOK' /\ OutsideOK' /\ ProcessOK'
  BY TypesFramed DEF Places, Reserve, outsideVars, qualificationVars, processVars
<1>5. TablesOK'
  BY <1>1, <1>2 DEF Places, TablesOK, Reserve, outsideVars, qualificationVars,
     processVars
<1>6. HistoryOK'
  BY <1>3 DEF Places, HistoryOK, Reserve, outsideVars, qualificationVars, processVars
<1>7. RunOK'
  BY <1>1 DEF Places, RunOK, Steps, Reserve, outsideVars, qualificationVars, processVars
<1>8. Phases' /\ Stopping'
  BY DEF Places, RunOK, Phases, Stopping, ProcessOK, Steps, Reserve, outsideVars,
     qualificationVars, processVars
<1>9. InHand'
  BY <1>1, RepairConstants DEF Places, InHand, ProcessOK, RunOK, Phases, InRun,
     Requested, Prepared, Validated, Steps, Reserve, outsideVars, qualificationVars,
     processVars
<1> QED
  BY <1>4, <1>5, <1>6, <1>7, <1>8, <1>9 DEF Places

LEMMA SendPlaces ==
    ASSUME Places, Send
    PROVE  Places'
<1>1. request \in Request
  BY DEF Places, InHand, Requested, Send
<1>2. QualificationTypeOK' /\ OutsideOK' /\ HistoryOK' /\ ProcessOK'
  BY TypesFramed DEF Places, Send, outsideVars, durableVars, qualificationVars,
     tableVars, runVars, processVars
<1>3. TablesOK'
  BY <1>1 DEF Places, TablesOK, Send, outsideVars, durableVars, qualificationVars,
     tableVars, runVars, processVars
<1>4. RunOK'
  BY DEF Places, RunOK, Steps, Send, outsideVars, durableVars, qualificationVars,
     tableVars, runVars, processVars
<1>5. Phases' /\ Stopping'
  BY DEF Places, RunOK, Phases, Stopping, ProcessOK, Steps, Send, outsideVars,
     durableVars, qualificationVars, tableVars, runVars, processVars
<1>6. InHand'
  BY RepairConstants DEF Places, InHand, ProcessOK, RunOK, Phases, InRun, Requested,
     Prepared, Validated, Steps, Send, outsideVars, durableVars, qualificationVars,
     tableVars, runVars, processVars
<1> QED
  BY <1>2, <1>3, <1>4, <1>5, <1>6 DEF Places

LEMMA ReceiveReceiptPlaces ==
    ASSUME Places, ReceiveReceipt
    PROVE  Places'
<1>1. request \in Request
  BY DEF Places, InHand, Requested, ReceiveReceipt
<1>2. PICK c \in request.issued .. clock :
         /\ completedAt' = c
         /\ attempts' = (attempts \ {Active(request)}) \cup {[request |-> request, completed |-> c]}
  BY DEF ReceiveReceipt
<1>3. c \in Nat
  BY <1>1, <1>2, ClockIsNat DEF Request
<1>4. [request |-> request, completed |-> c] \in Attempt
  BY <1>1, <1>3 DEF Attempt
<1>5. history' \in Seq(RepairFact)
  BY <1>1, LoggedType DEF Places, ReceiveReceipt, ValidationStages
<1>6. QualificationTypeOK' /\ OutsideOK' /\ ProcessOK'
  BY TypesFramed DEF Places, ReceiveReceipt, outsideVars, qualificationVars, processVars
<1>7. TablesOK'
  BY <1>2, <1>4 DEF Places, TablesOK, ReceiveReceipt, outsideVars, qualificationVars,
     processVars
<1>8. HistoryOK'
  BY <1>5 DEF Places, HistoryOK, ReceiveReceipt, outsideVars, qualificationVars,
     processVars
<1>9. RunOK'
  BY <1>2, <1>3 DEF Places, RunOK, Steps, ReceiveReceipt, outsideVars,
     qualificationVars, processVars
<1>10. Phases' /\ Stopping'
  BY DEF Places, RunOK, Phases, Stopping, ProcessOK, Steps, ReceiveReceipt, outsideVars,
     qualificationVars, processVars
<1>11. InHand'
  BY <1>2, <1>3, RepairConstants DEF Places, InHand, ProcessOK, RunOK, Phases, InRun,
     Requested, Prepared, Validated, Steps, ReceiveReceipt, outsideVars,
     qualificationVars, processVars
<1> QED
  BY <1>6, <1>7, <1>8, <1>9, <1>10, <1>11 DEF Places

LEMMA ReceiveFailurePlaces ==
    ASSUME Places, ReceiveFailure
    PROVE  Places'
<1>1. request \in Request
  BY DEF Places, InHand, Requested, ReceiveFailure
<1>2. history' \in Seq(RepairFact)
  BY <1>1, LoggedType DEF Places, HistoryOK, ReceiveFailure, ValidationStages
<1>3. QualificationTypeOK' /\ OutsideOK' /\ TablesOK' /\ ProcessOK'
  BY TypesFramed DEF Places, ReceiveFailure, outsideVars, qualificationVars, runVars,
     processVars
<1>4. HistoryOK'
  BY <1>2 DEF Places, HistoryOK, ReceiveFailure, outsideVars, qualificationVars,
     runVars, processVars
<1>5. RunOK'
  BY DEF Places, RunOK, Steps, ReceiveFailure, outsideVars, qualificationVars, runVars,
     processVars
<1>6. Phases' /\ Stopping'
  BY DEF Places, RunOK, Phases, Stopping, ProcessOK, Steps, ReceiveFailure, outsideVars,
     qualificationVars, runVars, processVars
<1>7. InHand'
  BY RepairConstants DEF Places, InHand, ProcessOK, RunOK, Phases, InRun, Requested,
     Prepared, Validated, Steps, ReceiveFailure, outsideVars, qualificationVars,
     runVars, processVars
<1> QED
  BY <1>3, <1>4, <1>5, <1>6, <1>7 DEF Places

LEMMA RecapturePlaces ==
    ASSUME Places, Recapture
    PROVE  Places'
<1>1. QualificationTypeOK' /\ OutsideOK' /\ TablesOK' /\ HistoryOK' /\ ProcessOK'
  BY TypesFramed DEF Places, Recapture, outsideVars, durableVars, qualificationVars,
     tableVars, processVars
<1>2. RunOK'
  BY DEF Places, RunOK, Steps, Recapture, outsideVars, durableVars, qualificationVars,
     tableVars, processVars
<1>3. Phases' /\ Stopping'
  BY DEF Places, RunOK, Phases, Stopping, ProcessOK, Steps, Recapture, outsideVars,
     durableVars, qualificationVars, tableVars, processVars
<1>4. InHand'
  BY RepairConstants DEF Places, InHand, ProcessOK, RunOK, Phases, InRun, Requested,
     Prepared, Validated, Steps, Recapture, outsideVars, durableVars, qualificationVars,
     tableVars, processVars
<1> QED
  BY <1>1, <1>2, <1>3, <1>4 DEF Places

LEMMA FinalizePlaces ==
    ASSUME Places, Finalize
    PROVE  Places'
<1>1. NewHandoff \in Handoff
  BY DEF Places, Phases, InHand, Prepared, Validated, Steps, NewHandoff, Handoff,
     Finalize
<1>2. history' \in Seq(RepairFact)
  BY <1>1, LoggedType DEF Places, HistoryOK, Finalize
<1>3. QualificationTypeOK' /\ OutsideOK' /\ ProcessOK'
  BY TypesFramed DEF Places, Finalize, outsideVars, qualificationVars, runVars,
     processVars
<1>4. TablesOK'
  BY <1>1 DEF Places, TablesOK, Finalize, outsideVars, qualificationVars, runVars,
     processVars
<1>5. HistoryOK'
  BY <1>2 DEF Places, HistoryOK, Finalize, outsideVars, qualificationVars, runVars,
     processVars
<1>6. RunOK'
  BY DEF Places, RunOK, Steps, Finalize, outsideVars, qualificationVars, runVars,
     processVars
<1>7. Phases' /\ Stopping'
  BY DEF Places, RunOK, Phases, Stopping, ProcessOK, Steps, Finalize, outsideVars,
     qualificationVars, runVars, processVars
<1>8. InHand'
  BY RepairConstants DEF Places, InHand, ProcessOK, RunOK, Phases, InRun, Requested,
     Prepared, Validated, Steps, Finalize, outsideVars, qualificationVars, runVars,
     processVars
<1> QED
  BY <1>3, <1>4, <1>5, <1>6, <1>7, <1>8 DEF Places

LEMMA GiveUpPlaces ==
    ASSUME Places, GiveUp
    PROVE  Places'
<1>1. QualificationTypeOK' /\ OutsideOK' /\ TablesOK' /\ HistoryOK' /\ ProcessOK'
  BY TypesFramed DEF Places, GiveUp, outsideVars, durableVars, qualificationVars,
     tableVars, runVars, processVars
<1>2. RunOK'
  BY DEF Places, RunOK, Steps, GiveUp, outsideVars, durableVars, qualificationVars,
     tableVars, runVars, processVars
<1>3. Phases' /\ Stopping'
  BY DEF Places, RunOK, Phases, Stopping, ProcessOK, Steps, GiveUp, outsideVars,
     durableVars, qualificationVars, tableVars, runVars, processVars
<1>4. InHand'
  BY RepairConstants DEF Places, InHand, ProcessOK, RunOK, Phases, InRun, Requested,
     Prepared, Validated, Steps, GiveUp, outsideVars, durableVars, qualificationVars,
     tableVars, runVars, processVars
<1> QED
  BY <1>1, <1>2, <1>3, <1>4 DEF Places

LEMMA FinishPlaces ==
    ASSUME Places, Finish
    PROVE  Places'
<1>1. run.incident \in Incidents
  BY DEF Places, InHand, Finish, Run
<1>2. QualificationTypeOK' /\ OutsideOK' /\ HistoryOK' /\ ProcessOK'
  BY TypesFramed DEF Places, Finish, outsideVars, qualificationVars, processVars
<1>3. TablesOK'
  BY <1>1 DEF Places, TablesOK, Finish, Forget, outsideVars, qualificationVars,
     processVars
<1>4. RunOK'
  BY DEF Places, RunOK, Steps, Finish, Forget, outsideVars, qualificationVars,
     processVars
<1>5. Phases' /\ Stopping'
  BY DEF Places, RunOK, Phases, Stopping, ProcessOK, Steps, Finish, Forget, outsideVars,
     qualificationVars, processVars
<1>6. InHand'
  BY RepairConstants DEF Places, InHand, ProcessOK, RunOK, Phases, InRun, Requested,
     Prepared, Validated, Steps, Finish, Forget, outsideVars, qualificationVars,
     processVars
<1> QED
  BY <1>2, <1>3, <1>4, <1>5, <1>6 DEF Places

LEMMA StartPlaces ==
    ASSUME Places, Start
    PROVE  Places'
<1>1. starts' \in 1 .. MaxStarts
  BY RepairConstants DEF Places, ProcessOK, Start
<1>2. QualificationTypeOK' /\ OutsideOK' /\ TablesOK' /\ HistoryOK'
  BY TypesFramed DEF Places, Start, outsideVars, durableVars, qualificationVars,
     tableVars, runVars
<1>3. ProcessOK'
  BY <1>1, RepairConstants DEF Places, ProcessOK, Start, outsideVars, durableVars,
     qualificationVars, tableVars, runVars
<1>4. RunOK'
  BY DEF Places, RunOK, Steps, Start, outsideVars, durableVars, qualificationVars,
     tableVars, runVars
<1>5. Phases' /\ Stopping'
  BY DEF Places, RunOK, Phases, Stopping, ProcessOK, Steps, Start, outsideVars,
     durableVars, qualificationVars, tableVars, runVars
<1>6. InHand'
  BY <1>1, RepairConstants DEF Places, InHand, ProcessOK, RunOK, Phases, InRun,
     Requested, Prepared, Validated, Steps, Start, outsideVars, durableVars,
     qualificationVars, tableVars, runVars
<1> QED
  BY <1>2, <1>3, <1>4, <1>5, <1>6 DEF Places

LEMMA CrashPlaces ==
    ASSUME Places, Crash
    PROVE  Places'
<1>1. QualificationTypeOK' /\ OutsideOK' /\ TablesOK' /\ HistoryOK'
  BY TypesFramed DEF Places, Crash, outsideVars, durableVars, qualificationVars,
     tableVars
<1>2. ProcessOK'
  BY RepairConstants DEF Places, ProcessOK, Crash, Forget, outsideVars, durableVars,
     qualificationVars, tableVars
<1>3. RunOK'
  BY DEF Places, RunOK, Steps, Crash, Forget, outsideVars, durableVars,
     qualificationVars, tableVars
<1>4. Phases' /\ Stopping'
  BY DEF Places, RunOK, Phases, Stopping, ProcessOK, Steps, Crash, Forget, outsideVars,
     durableVars, qualificationVars, tableVars
<1>5. InHand'
  BY RepairConstants DEF Places, InHand, ProcessOK, RunOK, Phases, InRun, Requested,
     Prepared, Validated, Steps, Crash, Forget, outsideVars, durableVars,
     qualificationVars, tableVars
<1> QED
  BY <1>1, <1>2, <1>3, <1>4, <1>5 DEF Places

LEMMA RequestStopPlaces ==
    ASSUME Places, RequestStop
    PROVE  Places'
<1>1. QualificationTypeOK' /\ OutsideOK' /\ TablesOK' /\ HistoryOK'
  BY TypesFramed DEF Places, RequestStop, outsideVars, durableVars, qualificationVars,
     tableVars, runVars
<1>2. ProcessOK'
  BY RepairConstants DEF Places, ProcessOK, RequestStop, outsideVars, durableVars,
     qualificationVars, tableVars, runVars
<1>3. RunOK'
  BY DEF Places, RunOK, Steps, RequestStop, outsideVars, durableVars, qualificationVars,
     tableVars, runVars
<1>4. Phases' /\ Stopping'
  BY DEF Places, RunOK, Phases, Stopping, ProcessOK, Steps, RequestStop, outsideVars,
     durableVars, qualificationVars, tableVars, runVars
<1>5. InHand'
  BY RepairConstants DEF Places, InHand, ProcessOK, RunOK, Phases, InRun, Requested,
     Prepared, Validated, Steps, RequestStop, outsideVars, durableVars,
     qualificationVars, tableVars, runVars
<1> QED
  BY <1>1, <1>2, <1>3, <1>4, <1>5 DEF Places

LEMMA DropOwnerPlaces ==
    ASSUME Places, DropOwner
    PROVE  Places'
<1>1. QualificationTypeOK' /\ OutsideOK' /\ TablesOK' /\ HistoryOK'
  BY TypesFramed DEF Places, DropOwner, outsideVars, durableVars, qualificationVars,
     tableVars
<1>2. ProcessOK'
  BY RepairConstants DEF Places, ProcessOK, DropOwner, AtAwait, Forget, outsideVars,
     durableVars, qualificationVars, tableVars
<1>3. RunOK'
  BY DEF Places, RunOK, Steps, DropOwner, AtAwait, Forget, outsideVars, durableVars,
     qualificationVars, tableVars
<1>4. Phases' /\ Stopping'
  BY DEF Places, RunOK, Phases, Stopping, ProcessOK, Steps, DropOwner, AtAwait, Forget,
     outsideVars, durableVars, qualificationVars, tableVars
<1>5. InHand'
  BY RepairConstants DEF Places, InHand, ProcessOK, RunOK, Phases, InRun, Requested,
     Prepared, Validated, Steps, DropOwner, AtAwait, Forget, outsideVars, durableVars,
     qualificationVars, tableVars
<1> QED
  BY <1>1, <1>2, <1>3, <1>4, <1>5 DEF Places

LEMMA ConfirmStopPlaces ==
    ASSUME Places, ConfirmStop
    PROVE  Places'
<1>1. QualificationTypeOK' /\ OutsideOK' /\ TablesOK' /\ HistoryOK'
  BY TypesFramed DEF Places, ConfirmStop, outsideVars, durableVars, qualificationVars,
     tableVars, runVars
<1>2. ProcessOK'
  BY RepairConstants DEF Places, ProcessOK, ConfirmStop, outsideVars, durableVars,
     qualificationVars, tableVars, runVars
<1>3. RunOK'
  BY DEF Places, RunOK, Steps, ConfirmStop, outsideVars, durableVars, qualificationVars,
     tableVars, runVars
<1>4. Phases' /\ Stopping'
  BY DEF Places, RunOK, Phases, Stopping, ProcessOK, Steps, ConfirmStop, outsideVars,
     durableVars, qualificationVars, tableVars, runVars
<1>5. InHand'
  BY RepairConstants DEF Places, InHand, ProcessOK, RunOK, Phases, InRun, Requested,
     Prepared, Validated, Steps, ConfirmStop, outsideVars, durableVars,
     qualificationVars, tableVars, runVars
<1> QED
  BY <1>1, <1>2, <1>3, <1>4, <1>5 DEF Places

\* The operator's commands are of their kind.
LEMMA CommandTypes == ASSUME Places PROVE Commands \subseteq Command
<1>1. Facts("reserved") \subseteq Request /\ Facts("validated") \subseteq Handoff
  BY FactTypes DEF Places, ValidationStages
<1> QED
  BY <1>1 DEF Commands, Command

LEMMA SubmitPlaces ==
    ASSUME Places, NEW c \in Commands, Submit(c)
    PROVE  Places'
<1>1. [command |-> c, live |-> TRUE] \in [command : Command, live : BOOLEAN]
  BY CommandTypes
<1>2. ProcessOK'
  BY <1>1 DEF Places, ProcessOK, Submit
<1>3. QualificationTypeOK' /\ OutsideOK' /\ TablesOK' /\ HistoryOK'
  BY TypesFramed DEF Places, Submit, durableVars, tableVars
<1>4. RunOK' /\ Phases' /\ Stopping'
  BY DEF Places, RunOK, Phases, Stopping, Submit, runVars
<1>5. InHand'
  BY DEF Places, InHand, InRun, Requested, Prepared, Validated, Submit, runVars
<1> QED
  BY <1>2, <1>3, <1>4, <1>5 DEF Places

LEMMA ExpirePlaces ==
    ASSUME Places, NEW n \in DOMAIN queue, Expire(n)
    PROVE  Places'
<1>1. queue[n] \in [command : Command, live : BOOLEAN]
  <2> DEFINE Entry == [command : Command, live : BOOLEAN]
  <2>1. queue \in Seq(Entry)
    BY DEF Places, ProcessOK
  <2> HIDE DEF Entry
  <2>2. queue[n] \in Entry
    BY <2>1
  <2> QED
    BY <2>2 DEF Entry
<1>2. [queue[n] EXCEPT !.live = FALSE] \in [command : Command, live : BOOLEAN]
  BY <1>1
<1>3. ProcessOK'
  BY <1>2 DEF Places, ProcessOK, Expire
<1>4. QualificationTypeOK' /\ OutsideOK' /\ TablesOK' /\ HistoryOK'
  BY TypesFramed DEF Places, Expire, durableVars, tableVars
<1>5. RunOK' /\ Phases' /\ Stopping'
  BY DEF Places, RunOK, Phases, Stopping, Expire, runVars
<1>6. InHand'
  BY DEF Places, InHand, InRun, Requested, Prepared, Validated, Expire, runVars
<1> QED
  BY <1>3, <1>4, <1>5, <1>6 DEF Places

\* A recovery moves an attempt, a pickup writes a fact.
LEMMA PerformTypes ==
    ASSUME Places, NEW c \in Command, Perform(c), UNCHANGED sent
    PROVE  TablesOK' /\ HistoryOK'
<1>1. CASE c.kind = "recover" /\ Recover(c.of)
  <2>1. c.of \in Request
    BY <1>1 DEF Command
  <2>2. TablesOK'
    BY <1>1 DEF Places, TablesOK, Recover
  <2>3. HistoryOK'
    BY <1>1, <2>1, LoggedType DEF Places, HistoryOK, Recover, ValidationStages
  <2> QED
    BY <2>2, <2>3
<1>2. CASE c.kind = "acknowledge" /\ Acknowledge(c.of)
  <2>1. c.of \in Handoff
    BY <1>2 DEF Command
  <2>2. TablesOK'
    BY <1>2 DEF Places, TablesOK, Acknowledge
  <2>3. HistoryOK'
    BY <1>2, <2>1, LoggedType DEF Places, HistoryOK, Acknowledge
  <2> QED
    BY <2>2, <2>3
<1> QED
  BY <1>1, <1>2 DEF Perform

LEMMA ExecutePlaces ==
    ASSUME Places, Execute
    PROVE  Places'
<1>1. Head(queue) \in [command : Command, live : BOOLEAN]
      /\ Tail(queue) \in Seq([command : Command, live : BOOLEAN])
  <2> DEFINE Entry == [command : Command, live : BOOLEAN]
  <2>1. queue \in Seq(Entry) /\ queue # <<>>
    BY DEF Places, ProcessOK, Execute
  <2> HIDE DEF Entry
  <2>2. Head(queue) \in Entry /\ Tail(queue) \in Seq(Entry)
    BY <2>1
  <2> QED
    BY <2>2 DEF Entry
<1>2. ProcessOK'
  BY <1>1 DEF Places, ProcessOK, Execute
<1>3. TablesOK' /\ HistoryOK'
  <2>1. CASE Head(queue).live
    <3>1. Head(queue).command \in Command
      BY <1>1
    <3> QED
      BY <2>1, <3>1, PerformTypes DEF Execute
  <2>2. CASE ~Head(queue).live
    BY <2>2, TypesFramed DEF Places, Execute, tableVars
  <2> QED
    BY <2>1, <2>2
<1>4. QualificationTypeOK' /\ OutsideOK'
  BY TypesFramed DEF Places, Execute
<1>5. RunOK' /\ Phases' /\ Stopping'
  BY DEF Places, RunOK, Phases, Stopping, Execute, runVars
<1>6. InHand'
  BY DEF Places, InHand, InRun, Requested, Prepared, Validated, Execute, runVars
<1> QED
  BY <1>2, <1>3, <1>4, <1>5, <1>6 DEF Places

LEMMA PlacesInit == Init => Places
<1> SUFFICES ASSUME Init PROVE Places
  OBVIOUS
<1>1. QualificationTypeOK
  BY DEF Init, QualificationInit, QualificationTypeOK
<1>2. OutsideOK /\ TablesOK /\ HistoryOK /\ ProcessOK
  BY RepairConstants DEF Init, OutsideOK, TablesOK, HistoryOK, ProcessOK, Times, Bases
<1>3. RunOK /\ Phases /\ Stopping
  BY DEF Init, RunOK, Phases, Stopping
<1>4. InHand
  BY DEF Init, InHand, InRun, Requested, Prepared, Validated, Steps
<1> QED
  BY <1>1, <1>2, <1>3, <1>4 DEF Places

LEMMA PlacesStep == Places /\ [Next]_vars => Places'
<1> SUFFICES ASSUME Places, [Next]_vars PROVE Places'
  OBVIOUS
<1>1. CASE OwnerStep
  BY <1>1, ReadCheckpointPlaces, BindCheckpointPlaces, BeginImportPlaces, ImportPlaces,
     SurveyPlaces, PrepareCandidatePlaces, CheckAttemptPlaces, ReservePlaces, SendPlaces,
     ReceiveReceiptPlaces, ReceiveFailurePlaces, RecapturePlaces, FinalizePlaces,
     GiveUpPlaces, FinishPlaces DEF OwnerStep
<1>2. CASE Next /\ ~OwnerStep
  BY <1>2, PublishReceiptPlaces, PublishCheckpointPlaces, MoveHeadPlaces, TickPlaces,
     SetBackPlaces, StartRepairPlaces, StartIntakePlaces, SubmitPlaces, ExpirePlaces,
     ExecutePlaces, StartPlaces, CrashPlaces, RequestStopPlaces, DropOwnerPlaces,
     ConfirmStopPlaces DEF Next
<1>3. CASE UNCHANGED vars
  <2>1. QualificationTypeOK' /\ OutsideOK' /\ TablesOK' /\ HistoryOK'
    BY <1>3, TypesFramed DEF Places, vars, durableVars, tableVars
  <2>2. RunOK' /\ ProcessOK' /\ Phases' /\ InHand' /\ Stopping'
    BY <1>3, OwnerFramed DEF vars
  <2> QED
    BY <2>1, <2>2 DEF Places
<1> QED
  BY <1>1, <1>2, <1>3

-----------------------------------------------------------------------------
(* The rows of the deployments *)

\* A decision keeps the rows what the facts say.
LEMMA RecordAudits ==
    ASSUME QualificationTypeOK, QualificationAudited, AuditNamed,
           NEW r \in Receipts, NEW now \in Nat, RecordDeployment(r, now)
    PROVE  QualificationAudited' /\ AuditNamed'
<1>1. CASE RecordReplay(r)
  BY <1>1 DEF RecordReplay, qualificationVars, QualificationAudited, AuditNamed, Known
<1>2. CASE RecordFirst(r, now) \/ RecordContradiction(r, now)
  <2> DEFINE new == Len(audit) + 1
  <2>1. PICK e : audit' = Append(audit, [deployment |-> r.deployment, receipt |-> r,
                                         eligible |-> e, at |-> now])
                 /\ (RecordFirst(r, now) => e = Eligible(r, now))
                 /\ (RecordContradiction(r, now) => e = FALSE)
    BY <1>2 DEF RecordFirst, RecordContradiction, Known
  <2>2. /\ DOMAIN audit' = DOMAIN audit \cup {new} /\ new \notin DOMAIN audit
        /\ \A n \in DOMAIN audit : audit'[n] = audit[n] /\ n < new /\ n \in Nat
        /\ audit'[new] = [deployment |-> r.deployment, receipt |-> r, eligible |-> e,
                          at |-> now]
    BY <2>1 DEF QualificationTypeOK
  <2>3. AuditNamed'
    BY <2>2 DEF AuditNamed
  <2>4. ASSUME NEW d \in Deployments, d # r.deployment
        PROVE  /\ Known(d)' <=> Known(d)
               /\ Known(d) => deployments'[d] = deployments[d]
               /\ {n \in DOMAIN audit' : audit'[n].deployment = d}
                     = {n \in DOMAIN audit : audit[n].deployment = d}
    <3>1. {n \in DOMAIN audit' : audit'[n].deployment = d}
             = {n \in DOMAIN audit : audit[n].deployment = d}
      BY <2>2, <2>4
    <3>2. (Known(d)' <=> Known(d)) /\ (Known(d) => deployments'[d] = deployments[d])
      BY <1>2, <2>4 DEF RecordFirst, RecordContradiction, Known, Stored, QualificationTypeOK
    <3> QED
      BY <3>1, <3>2
  <2>5. ASSUME NEW d \in Deployments, d = r.deployment
        PROVE  {n \in DOMAIN audit' : audit'[n].deployment = d}
                  = {n \in DOMAIN audit : audit[n].deployment = d} \cup {new}
    BY <2>2, <2>5
  <2>6. ASSUME NEW d \in Deployments
        PROVE  LET facts == {n \in DOMAIN audit' : audit'[n].deployment = d}
               IN  /\ Known(d)' <=> facts # {}
                   /\ Known(d)' =>
                         \E n \in facts :
                            /\ \A m \in facts : n <= m
                            /\ deployments'[d].receipt = audit'[n].receipt
                            /\ deployments'[d].eligible <=> (facts = {n} /\ audit'[n].eligible)
    <3> DEFINE facts == {n \in DOMAIN audit : audit[n].deployment = d}
    <3>1. /\ Known(d) <=> facts # {}
          /\ Known(d) =>
                \E n \in facts :
                   /\ \A m \in facts : n <= m
                   /\ deployments[d].receipt = audit[n].receipt
                   /\ deployments[d].eligible <=> (facts = {n} /\ audit[n].eligible)
      BY DEF QualificationAudited
    <3>2. CASE d # r.deployment
      BY <2>2, <2>4, <3>1, <3>2
    <3>3. CASE d = r.deployment /\ RecordFirst(r, now)
      <4>1. facts = {} /\ Known(d)'
            /\ deployments'[d] = [receipt |-> r, eligible |-> Eligible(r, now)]
        BY <3>1, <3>3 DEF RecordFirst, Known, Stored
      <4>2. new \in Nat
        BY DEF QualificationTypeOK
      <4> QED
        BY <2>1, <2>2, <2>5, <3>3, <4>1, <4>2
    <3>4. CASE d = r.deployment /\ RecordContradiction(r, now)
      <4>1. /\ Known(d) /\ Known(d)'
            /\ deployments'[d].receipt = deployments[d].receipt
            /\ deployments'[d].eligible = FALSE
        BY <3>4 DEF RecordContradiction, Known, QualificationTypeOK, Row
      <4>2. PICK n \in facts : /\ \A m \in facts : n <= m
                               /\ deployments[d].receipt = audit[n].receipt
        BY <3>1, <4>1
      <4>3. /\ n \in facts \cup {new} /\ n # new
            /\ \A m \in facts \cup {new} : n <= m
            /\ audit'[n] = audit[n]
        <5>1. n \in DOMAIN audit
          OBVIOUS
        <5> QED
          BY <2>2, <4>2, <5>1 DEF QualificationTypeOK
      <4> QED
        BY <2>5, <3>4, <4>1, <4>2, <4>3
    <3> QED
      BY <1>2, <3>2, <3>3, <3>4
  <2> QED
    BY <2>3, <2>6 DEF QualificationAudited
<1> QED
  BY <1>1, <1>2 DEF RecordDeployment

\* A recorded receipt stays recorded.
LEMMA RecordRecords ==
    ASSUME QualificationTypeOK, NEW r \in Receipts, NEW now \in Nat, RecordDeployment(r, now)
    PROVE  Recorded(r)' /\ \A s \in Receipts : Recorded(s) => Recorded(s)'
<1>1. CASE RecordFirst(r, now)
  BY <1>1 DEF RecordFirst, Recorded, Known, Stored
<1>2. CASE RecordReplay(r)
  BY <1>2 DEF RecordReplay, Recorded, Known, qualificationVars
<1>3. CASE RecordContradiction(r, now)
  <2>1. deployments[r.deployment] \in Row
    BY <1>3 DEF RecordContradiction, Known, QualificationTypeOK
  <2> QED
    BY <1>3, <2>1 DEF RecordContradiction, Recorded, Known, Row
<1> QED
  BY <1>1, <1>2, <1>3 DEF RecordDeployment

\* One turn of an import.
LEMMA ImportTurn ==
    ASSUME Places, Import
    PROVE  \E r \in importing.rest :
              /\ r \in Receipts
              /\ \E now \in Nat : RecordDeployment(r, now)
              /\ IF importing.rest \ {r} = {}
                   THEN pc' = AfterImport /\ phase' = IF phase = "intake" THEN None ELSE phase
                   ELSE /\ importing' = [importing EXCEPT !.rest = importing.rest \ {r}]
                        /\ UNCHANGED <<pc, phase>>
<1> DEFINE r == CHOOSE s \in importing.rest : \A t \in importing.rest : s.file <= t.file
<1>1. r \in importing.rest
  BY NextReceipt DEF Import
<1>2. r \in Receipts /\ (IF phase = "admit" THEN clock ELSE importing.at) \in Nat
  BY <1>1, ClockIsNat DEF Places, InHand, Import
<1>3. /\ RecordDeployment(r, IF phase = "admit" THEN clock ELSE importing.at)
      /\ IF importing.rest \ {r} = {}
           THEN pc' = AfterImport /\ phase' = IF phase = "intake" THEN None ELSE phase
           ELSE /\ importing' = [importing EXCEPT !.rest = importing.rest \ {r}]
                /\ UNCHANGED <<pc, phase>>
  BY DEF Import
<1> HIDE DEF r
<1> QED
  BY <1>1, <1>2, <1>3

-----------------------------------------------------------------------------
(* The tables and the journal *)

LEMMA SaidIsFact == \A s, x : Said(s, x) <=> x \in Facts(s)
  BY DEF Said, Facts

\* A fact that is logged joins those of its stage.
LEMMA LoggedFacts ==
    ASSUME HistoryOK, NEW s, NEW x, NEW a, history' = Logged(s, x, a)
    PROVE  /\ Facts(s)' = Facts(s) \cup {x}
           /\ \A u : u # s => Facts(u)' = Facts(u)
           /\ Len(history') = Len(history) + 1
<1> DEFINE new == Len(history) + 1
<1> DEFINE fact == [stage |-> s, of |-> x,
                    scope |-> IF s = "prepared" THEN {a.incident} ELSE ScopeOf(a)]
<1>1. history' = Append(history, fact)
  BY DEF Logged
<1>2. /\ DOMAIN history' = DOMAIN history \cup {new} /\ Len(history') = new
      /\ \A n \in DOMAIN history : history'[n] = history[n]
      /\ history'[new] = fact
  <2> HIDE DEF fact
  <2> QED
    BY <1>1 DEF HistoryOK
<1>3. history'[new].stage = s /\ history'[new].of = x
  BY <1>2
<1> QED
  BY <1>2, <1>3 DEF Facts

\* A fact that is new keeps the facts single and filed.
LEMMA LoggedOnce ==
    ASSUME HistoryOK, FactsOnce, Scoped, NEW s, NEW x, NEW a, history' = Logged(s, x, a),
           x \notin Facts(s),
           \/ s = "prepared" /\ a = x
           \/ /\ s # "prepared" /\ a = x.artifact
              /\ a.incident \in Incidents /\ a \in Facts("prepared")
    PROVE  FactsOnce' /\ Scoped'
<1> DEFINE new == Len(history) + 1
<1> DEFINE fact == [stage |-> s, of |-> x,
                    scope |-> IF s = "prepared" THEN {a.incident} ELSE ScopeOf(a)]
<1>1. history' = Append(history, fact)
  BY DEF Logged
<1>2. /\ DOMAIN history' = DOMAIN history \cup {new} /\ new \notin DOMAIN history
      /\ \A n \in DOMAIN history : history'[n] = history[n]
      /\ history'[new] = fact
  <2> HIDE DEF fact
  <2> QED
    BY <1>1 DEF HistoryOK
<1>3. s # "prepared" => ScopeOf(a) = {a.incident}
  BY SaidIsFact DEF ScopeOf
<1>4. fact.scope = {Concerns(fact)}
  BY <1>3 DEF Concerns
<1>5. \A n \in DOMAIN history : ~ (history[n].stage = s /\ history[n].of = x)
  BY DEF Facts
<1>6. fact.stage = s /\ fact.of = x
  OBVIOUS
<1> HIDE DEF fact, new
<1>7. Scoped'
  <2>1. ASSUME NEW n \in DOMAIN history' PROVE history'[n].scope = {Concerns(history'[n])}
    BY <1>2, <1>4 DEF Scoped
  <2> QED
    BY <2>1 DEF Scoped, Concerns
<1>8. FactsOnce'
  <2>1. ASSUME NEW m \in DOMAIN history', NEW n \in DOMAIN history',
               history'[m].stage = history'[n].stage, history'[m].of = history'[n].of
        PROVE  m = n
    BY <1>2, <1>5, <1>6, <2>1 DEF FactsOnce
  <2>2. ASSUME NEW n \in DOMAIN history' PROVE history'[n].scope # {}
    BY <1>7 DEF Scoped
  <2> QED
    BY <2>1, <2>2 DEF FactsOnce
<1> QED
  BY <1>7, <1>8

\* What the books speak of, left alone.
LEMMA BooksFramed ==
    ASSUME Books, UNCHANGED <<candidates, attempts, recoveries, handoffs, history, sent>>
    PROVE  Books'
<1>1. \A s : Facts(s)' = Facts(s)
  BY DEF Facts
<1>2. FactsOnce' /\ Scoped'
  BY DEF Books, FactsOnce, Scoped, Concerns
<1>3. ReservationsAccounted'
  BY <1>1 DEF Books, ReservationsAccounted
<1> QED
  BY <1>1, <1>2, <1>3 DEF Books, IncidentOf

LEMMA PrepareCandidateBooks ==
    ASSUME Places, Books, Course, PrepareCandidate
    PROVE  Books'
<1>1. PICK r \in Qualified(admission.deployment, clock) :
         LET a == NewCandidate(r)
         IN  /\ candidate' = a
             /\ candidates' = candidates \cup {a}
             /\ history' = IF a \in candidates THEN history ELSE Logged("prepared", a, a)
  BY DEF PrepareCandidate
<1> DEFINE a == NewCandidate(r)
<1>2. UNCHANGED <<attempts, recoveries, handoffs, sent>>
  BY DEF PrepareCandidate
<1> HIDE DEF a
<1>3. CASE a \in candidates
  <2>1. UNCHANGED <<candidates, history>>
    BY <1>1, <1>3 DEF a
  <2> QED
    BY <1>2, <2>1, BooksFramed
<1>4. CASE a \notin candidates
  <2>1. history' = Logged("prepared", a, a) /\ candidates' = candidates \cup {a}
    BY <1>1, <1>4 DEF a
  <2>2. /\ Facts("prepared")' = Facts("prepared") \cup {a}
        /\ \A u : u # "prepared" => Facts(u)' = Facts(u)
        /\ Len(history') = Len(history) + 1
    BY <2>1, LoggedFacts DEF Places
  <2>3. FactsOnce' /\ Scoped'
    BY <1>4, <2>1, LoggedOnce DEF Places, Books
  <2>4. ReservationsAccounted'
    BY <1>2, <2>2 DEF Books, ReservationsAccounted
  <2>5. \A q \in Facts("reserved") : q.nonce < Len(history')
    <3>1. \A q \in Facts("reserved") : q.nonce \in Nat /\ q.nonce < Len(history)
      BY FactTypes DEF Places, Books, ValidationStages, Request
    <3> QED
      BY <2>2, <3>1 DEF Places, HistoryOK
  <2> QED
    BY <1>2, <2>1, <2>2, <2>3, <2>4, <2>5 DEF Books, IncidentOf
<1> QED
  BY <1>3, <1>4

LEMMA ReserveBooks ==
    ASSUME Places, Books, Course, Reserve
    PROVE  Books'
<1> DEFINE q == NewRequest
<1>1. /\ history' = Logged("reserved", q, candidate) /\ ~HasAttempt(candidate)
      /\ attempts' = attempts \cup {[request |-> q, completed |-> None]}
      /\ UNCHANGED <<candidates, recoveries, handoffs, sent>>
  BY DEF Reserve
<1>2. q.artifact = candidate /\ q.nonce = Len(history)
  BY DEF NewRequest
<1>3. candidate \in candidates /\ candidate.incident \in Incidents
  BY DEF Places, Phases, InHand, Prepared, Steps, Course, Reserve, Artifact
<1> HIDE DEF q
<1>4. /\ Facts("reserved")' = Facts("reserved") \cup {q}
      /\ \A u : u # "reserved" => Facts(u)' = Facts(u)
      /\ Len(history') = Len(history) + 1
  BY <1>1, LoggedFacts DEF Places
<1>5. \A p \in Facts("reserved") : p.nonce \in Nat /\ p.nonce < Len(history)
  BY FactTypes DEF Places, Books, ValidationStages, Request
<1>6. Len(history) \in Nat
  BY DEF Places, HistoryOK
<1>7. q \notin Facts("reserved")
  BY <1>2, <1>5, <1>6
<1>8. FactsOnce' /\ Scoped'
  BY <1>1, <1>2, <1>3, <1>7, LoggedOnce DEF Places, Books
<1>9. ReservationsAccounted'
  <2>1. q \notin Facts("received") /\ q \notin sent
    BY <1>7 DEF Books, ReservationsAccounted
  <2>2. \A t \in attempts \cup recoveries : t.request # q
    BY <1>7 DEF Books, ReservationsAccounted
  <2> DEFINE t0 == [request |-> q, completed |-> None]
  <2>3. t0.request = q /\ t0.completed = None /\ attempts' = attempts \cup {t0}
    BY <1>1
  <2> HIDE DEF t0
  <2>4. {t.request : t \in attempts' \cup recoveries'} = Facts("reserved")'
    BY <1>1, <1>4, <2>3 DEF Books, ReservationsAccounted
  <2>5. \A s, t \in attempts' : s.request.artifact = t.request.artifact => s = t
    BY <1>1, <1>2, <2>3 DEF Books, ReservationsAccounted, HasAttempt
  <2>6. \A s, t \in attempts' \cup recoveries' : s.request = t.request => s = t
    BY <1>1, <2>2, <2>3 DEF Books, ReservationsAccounted
  <2>7. attempts' \cap recoveries' = {} /\ sent' \subseteq Facts("reserved")'
    BY <1>1, <1>4, <2>2, <2>3 DEF Books, ReservationsAccounted
  <2>8. \A t \in attempts' \cup recoveries' :
           t.completed # None <=> t.request \in Facts("received")'
    BY <1>1, <1>4, <2>1, <2>3 DEF Books, ReservationsAccounted
  <2>9. {t.request : t \in recoveries'} = Facts("recovered")'
    BY <1>1, <1>4 DEF Books, ReservationsAccounted
  <2> QED
    BY <2>4, <2>5, <2>6, <2>7, <2>8, <2>9 DEF ReservationsAccounted
<1>10. \A p \in Facts("reserved")' : p.artifact \in candidates' /\ p.nonce < Len(history')
  BY <1>1, <1>2, <1>3, <1>4, <1>5, <1>6 DEF Books
<1> QED
  BY <1>1, <1>4, <1>8, <1>9, <1>10 DEF Books, IncidentOf

LEMMA SendBooks ==
    ASSUME Places, Books, Course, Send
    PROVE  Books'
<1>1. /\ sent' = sent \cup {request} /\ request \in Facts("reserved")
      /\ UNCHANGED <<candidates, attempts, recoveries, handoffs, history>>
  BY DEF Send, Course, Requested, durableVars, tableVars
<1>2. \A s : Facts(s)' = Facts(s)
  BY <1>1 DEF Facts
<1>3. FactsOnce' /\ Scoped'
  BY <1>1 DEF Books, FactsOnce, Scoped, Concerns
<1>4. ReservationsAccounted'
  BY <1>1, <1>2 DEF Books, ReservationsAccounted
<1> QED
  BY <1>1, <1>2, <1>3, <1>4 DEF Books, IncidentOf

\* The artifact of a reserved request is prepared, its incident known.
LEMMA ReservedIsPrepared ==
    ASSUME Places, Books, NEW q \in Facts("reserved")
    PROVE  q.artifact \in Facts("prepared") /\ q.artifact.incident \in Incidents
  BY FactTypes DEF Places, Books, Artifact

LEMMA NonceKept ==
    ASSUME Places, Books, Len(history') = Len(history) + 1
    PROVE  \A q \in Facts("reserved") : q.artifact \in candidates /\ q.nonce < Len(history')
<1>1. \A q \in Facts("reserved") :
         q.nonce \in Nat /\ q.artifact \in candidates /\ q.nonce < Len(history)
  BY FactTypes DEF Places, Books, ValidationStages, Request
<1> QED
  BY <1>1 DEF Places, HistoryOK

LEMMA ReceiveReceiptBooks ==
    ASSUME Places, Books, Course, ReceiveReceipt
    PROVE  Books'
<1>1. PICK c \in request.issued .. clock :
         attempts' = (attempts \ {Active(request)}) \cup {[request |-> request, completed |-> c]}
  BY DEF ReceiveReceipt
<1>2. /\ Active(request) \in attempts /\ history' = Logged("received", request, request.artifact)
      /\ UNCHANGED <<candidates, recoveries, handoffs, sent>>
  BY DEF ReceiveReceipt
<1>3. request \in Request /\ request \in Facts("reserved") /\ request \in sent
  BY DEF Places, InHand, Requested, Course, ReceiveReceipt
<1>4. c \in Nat /\ c # None
  BY <1>1, <1>3, ClockIsNat, RepairConstants DEF Request
<1>5. /\ Facts("received")' = Facts("received") \cup {request}
      /\ \A u : u # "received" => Facts(u)' = Facts(u)
      /\ Len(history') = Len(history) + 1
  BY <1>2, LoggedFacts DEF Places
<1> DEFINE old == Active(request)
           new == [request |-> request, completed |-> c]
<1>6. old.request = request /\ old.completed = None /\ old \in attempts
  BY <1>2 DEF Active
<1>7. new.request = request /\ new.completed = c /\ attempts' = (attempts \ {old}) \cup {new}
  BY <1>1
<1> HIDE DEF old, new
<1>8. request \notin Facts("received")
  BY <1>6 DEF Books, ReservationsAccounted
<1>9. FactsOnce' /\ Scoped'
  BY <1>2, <1>3, <1>8, ReservedIsPrepared, LoggedOnce DEF Places, Books
<1>10. ReservationsAccounted'
  <2>1. {t.request : t \in attempts' \cup recoveries'} = Facts("reserved")'
    BY <1>2, <1>5, <1>6, <1>7 DEF Books, ReservationsAccounted
  <2>2. \A s, t \in attempts' : s.request.artifact = t.request.artifact => s = t
    BY <1>6, <1>7 DEF Books, ReservationsAccounted
  <2>3. \A s, t \in attempts' \cup recoveries' : s.request = t.request => s = t
    BY <1>2, <1>6, <1>7 DEF Books, ReservationsAccounted
  <2>4. attempts' \cap recoveries' = {} /\ sent' \subseteq Facts("reserved")'
    BY <1>2, <1>5, <1>6, <1>7 DEF Books, ReservationsAccounted
  <2>5. \A t \in attempts' \cup recoveries' :
           t.completed # None <=> t.request \in Facts("received")'
    BY <1>2, <1>4, <1>5, <1>6, <1>7 DEF Books, ReservationsAccounted
  <2>6. {t.request : t \in recoveries'} = Facts("recovered")'
    BY <1>2, <1>5 DEF Books, ReservationsAccounted
  <2> QED
    BY <2>1, <2>2, <2>3, <2>4, <2>5, <2>6 DEF ReservationsAccounted
<1>11. \A p \in Facts("reserved")' : p.artifact \in candidates' /\ p.nonce < Len(history')
  BY <1>2, <1>5, NonceKept
<1> QED
  BY <1>2, <1>3, <1>5, <1>9, <1>10, <1>11 DEF Books, IncidentOf

\* A fact the tables do not follow: a failure or a pickup.
LEMMA NotedBooks ==
    ASSUME Places, Books, NEW s \in {"failed", "acknowledged"}, NEW x,
           history' = Logged(s, x, x.artifact), x \notin Facts(s),
           x.artifact \in Facts("prepared"), x.artifact.incident \in Incidents,
           s = "acknowledged" => x \in handoffs,
           UNCHANGED <<candidates, attempts, recoveries, handoffs, sent>>
    PROVE  Books'
<1>1. /\ Facts(s)' = Facts(s) \cup {x}
      /\ \A u : u # s => Facts(u)' = Facts(u)
      /\ Len(history') = Len(history) + 1
  BY LoggedFacts DEF Places
<1>2. FactsOnce' /\ Scoped'
  BY LoggedOnce DEF Places, Books
<1>3. ReservationsAccounted'
  BY <1>1 DEF Books, ReservationsAccounted
<1>4. \A p \in Facts("reserved")' : p.artifact \in candidates' /\ p.nonce < Len(history')
  BY <1>1, NonceKept
<1>5. Facts("acknowledged")' \subseteq handoffs'
  BY <1>1 DEF Books
<1> QED
  BY <1>1, <1>2, <1>3, <1>4, <1>5 DEF Books, IncidentOf

LEMMA ReceiveFailureBooks ==
    ASSUME Places, Books, Course, ReceiveFailure
    PROVE  Books'
<1>1. /\ request \in Facts("reserved")
      /\ UNCHANGED <<candidates, attempts, recoveries, handoffs, sent>>
  BY DEF ReceiveFailure, Course, Requested
<1>2. CASE Said("failed", request)
  BY <1>1, <1>2, BooksFramed DEF ReceiveFailure
<1>3. CASE ~Said("failed", request)
  BY <1>1, <1>3, SaidIsFact, ReservedIsPrepared, NotedBooks DEF ReceiveFailure
<1> QED
  BY <1>2, <1>3

LEMMA FinalizeBooks ==
    ASSUME Places, Books, Course, Finalize
    PROVE  Books'
<1> DEFINE h == NewHandoff
<1>1. /\ handoffs' = handoffs \cup {h}
      /\ history' = IF h \in handoffs THEN history ELSE Logged("validated", h, candidate)
      /\ UNCHANGED <<candidates, attempts, recoveries, sent>>
      /\ candidate \in candidates
  BY DEF Finalize
<1>2. h.artifact = candidate
  BY DEF NewHandoff
<1>3. request \in Facts("received") /\ request.artifact = candidate
      /\ candidate.incident \in Incidents
  BY DEF Places, Phases, InHand, Prepared, Requested, Validated, Course, Finalize, Steps, Artifact
<1> HIDE DEF h
<1>4. CASE h \in handoffs
  BY <1>1, <1>4, BooksFramed
<1>5. CASE h \notin handoffs
  <2>1. history' = Logged("validated", h, candidate)
    BY <1>1, <1>5
  <2>2. /\ Facts("validated")' = Facts("validated") \cup {h}
        /\ \A u : u # "validated" => Facts(u)' = Facts(u)
        /\ Len(history') = Len(history) + 1
    BY <2>1, LoggedFacts DEF Places
  <2>3. FactsOnce' /\ Scoped'
    BY <1>1, <1>2, <1>3, <1>5, <2>1, LoggedOnce DEF Places, Books
  <2>4. ReservationsAccounted'
    BY <1>1, <2>2 DEF Books, ReservationsAccounted
  <2>5. \A p \in Facts("reserved")' : p.artifact \in candidates' /\ p.nonce < Len(history')
    BY <1>1, <2>2, NonceKept
  <2>6. \A g \in handoffs' :
           /\ g.artifact \in candidates'
           /\ \E q \in Facts("received")' : IncidentOf(q) = IncidentOf(g)
    BY <1>1, <1>2, <1>3, <2>2 DEF Books, IncidentOf
  <2> QED
    BY <1>1, <2>2, <2>3, <2>4, <2>5, <2>6 DEF Books, IncidentOf
<1> QED
  BY <1>4, <1>5

LEMMA RecoverBooks ==
    ASSUME Places, Books, NEW q, Recover(q), UNCHANGED sent
    PROVE  Books'
<1>1. CASE ~ (clock > q.expires /\ \E t \in attempts : t.request = q)
  BY <1>1, BooksFramed DEF Recover
<1>2. CASE clock > q.expires /\ \E t \in attempts : t.request = q
  <2>1. PICK t \in attempts : /\ t.request = q
                              /\ attempts' = attempts \ {t}
                              /\ recoveries' = recoveries \cup {t}
    BY <1>2 DEF Recover
  <2>2. history' = Logged("recovered", q, q.artifact) /\ UNCHANGED <<candidates, handoffs>>
    BY <1>2 DEF Recover
  <2>3. q \in Facts("reserved") /\ q \notin Facts("recovered")
    BY <2>1 DEF Books, ReservationsAccounted
  <2>4. /\ Facts("recovered")' = Facts("recovered") \cup {q}
        /\ \A u : u # "recovered" => Facts(u)' = Facts(u)
        /\ Len(history') = Len(history) + 1
    BY <2>2, LoggedFacts DEF Places
  <2>5. FactsOnce' /\ Scoped'
    BY <2>2, <2>3, ReservedIsPrepared, LoggedOnce DEF Places, Books
  <2>6. attempts' \cup recoveries' = attempts \cup recoveries
    BY <2>1
  <2>7. ReservationsAccounted'
    <3>1. /\ {s.request : s \in attempts' \cup recoveries'} = Facts("reserved")'
          /\ \A s, u \in attempts' \cup recoveries' : s.request = u.request => s = u
          /\ \A s \in attempts' \cup recoveries' :
                s.completed # None <=> s.request \in Facts("received")'
          /\ sent' \subseteq Facts("reserved")'
      BY <2>4, <2>6 DEF Books, ReservationsAccounted
    <3>2. /\ attempts' \cap recoveries' = {}
          /\ \A s, u \in attempts' : s.request.artifact = u.request.artifact => s = u
          /\ {s.request : s \in recoveries'} = Facts("recovered")'
      BY <2>1, <2>4 DEF Books, ReservationsAccounted
    <3> QED
      BY <3>1, <3>2 DEF ReservationsAccounted
  <2>8. \A p \in Facts("reserved")' : p.artifact \in candidates' /\ p.nonce < Len(history')
    BY <2>2, <2>4, NonceKept
  <2> QED
    BY <2>2, <2>4, <2>5, <2>7, <2>8 DEF Books, IncidentOf
<1> QED
  BY <1>1, <1>2

LEMMA AcknowledgeBooks ==
    ASSUME Places, Books, NEW h, Acknowledge(h), UNCHANGED sent
    PROVE  Books'
<1>1. h \in handoffs /\ UNCHANGED <<candidates, attempts, recoveries, handoffs>>
  BY DEF Acknowledge
<1>2. h.artifact \in Facts("prepared") /\ h.artifact.incident \in Incidents
  BY <1>1, FactTypes DEF Places, Books, Artifact
<1>3. CASE Said("acknowledged", h)
  BY <1>1, <1>3, BooksFramed DEF Acknowledge
<1>4. CASE ~Said("acknowledged", h)
  BY <1>1, <1>2, <1>4, SaidIsFact, NotedBooks DEF Acknowledge
<1> QED
  BY <1>3, <1>4

LEMMA ExecuteBooks ==
    ASSUME Places, Books, Course, Execute
    PROVE  Books'
<1>1. CASE Head(queue).live
  BY <1>1, RecoverBooks, AcknowledgeBooks DEF Execute, Perform
<1>2. CASE ~Head(queue).live
  BY <1>2, BooksFramed DEF Execute, tableVars
<1> QED
  BY <1>1, <1>2

-----------------------------------------------------------------------------
(* The course of a run *)

\* Nothing is asked of an owner that is not in a repair.
LEMMA CourseAway ==
    ASSUME pc' \notin Steps \/ (pc' = "import" /\ phase' = "intake")
    PROVE  Course'
  BY DEF Course, InRun, Prepared, Requested, Validated, Steps

\* A step that leaves the run and the books alone and takes the owner no further
\* than it was.
LEMMA CourseKept ==
    ASSUME Course,
           UNCHANGED <<run, candidate, request, candidates, handoffs, history, sent>>,
           Prepared' => Prepared, InRun' => InRun, Requested' <=> Requested,
           Validated' => Validated, pc' = "send" <=> pc = "send"
    PROVE  Course'
<1>1. \A s : Facts(s)' = Facts(s)
  BY DEF Facts
<1> QED
  BY <1>1 DEF Course, IncidentOf

LEMMA CourseFramed ==
    ASSUME Course, UNCHANGED <<pc, phase, run, candidate, request, candidates, handoffs,
                               history, sent>>
    PROVE  Course'
<1>1. /\ (Prepared' <=> Prepared) /\ (InRun' <=> InRun)
      /\ (Requested' <=> Requested) /\ (Validated' <=> Validated)
  BY DEF Prepared, InRun, Requested, Validated
<1> QED
  BY <1>1, CourseKept

\* The steps of a repair that only read.
LEMMA ReadingCourse ==
    ASSUME Places, Course,
           ReadCheckpoint \/ BindCheckpoint \/ BeginImport \/ Survey \/ CheckAttempt \/ Recapture
    PROVE  Course'
<1>1. UNCHANGED <<run, candidate, request, candidates, handoffs, history, sent>>
  BY DEF ReadCheckpoint, BindCheckpoint, BeginImport, Survey, CheckAttempt, Recapture,
         durableVars, tableVars, runVars
<1>2. /\ (Prepared' => Prepared) /\ (InRun' => InRun)
      /\ (Requested' <=> Requested) /\ (Validated' => Validated)
      /\ pc # "send" /\ pc' # "send"
  BY DEF ReadCheckpoint, BindCheckpoint, BeginImport, Survey, CheckAttempt, Recapture,
         runVars, Places, Phases, Prepared, InRun, Requested, Validated, Steps
<1> QED
  BY <1>1, <1>2, CourseKept

LEMMA ImportCourse ==
    ASSUME Places, Course, Import
    PROVE  Course'
<1>1. UNCHANGED <<run, candidate, request, candidates, handoffs, history, sent>>
  BY DEF Import, tableVars
<1>2. \/ UNCHANGED <<pc, phase>>
      \/ pc' = AfterImport /\ phase' = IF phase = "intake" THEN None ELSE phase
  BY DEF Import
<1>3. CASE UNCHANGED <<pc, phase>>
  BY <1>1, <1>3, CourseFramed
<1>4. CASE pc' = AfterImport /\ phase = "intake"
  BY <1>4, CourseAway DEF AfterImport, Steps
<1>5. CASE pc' = AfterImport /\ phase # "intake" /\ phase' = phase
  <2>1. /\ pc = "import" /\ pc' \in {"survey", "reserve", "finalize"}
        /\ pc' = "survey" => phase = "admit"
        /\ pc' = "reserve" => phase = "dispatch"
        /\ pc' = "finalize" => phase = "final"
    BY <1>5 DEF Import, AfterImport, Places, Phases
  <2>2. /\ (Prepared' => Prepared) /\ (InRun' => InRun)
        /\ (Requested' <=> Requested) /\ (Validated' => Validated)
    BY <1>5, <2>1 DEF Prepared, InRun, Requested, Validated, Steps
  <2> QED
    BY <1>1, <2>1, <2>2, CourseKept
<1> QED
  BY <1>2, <1>3, <1>4, <1>5

\* A repair starts only for an incident with no request, and so with no offer.
LEMMA StartRepairCourse ==
    ASSUME Places, Books, NEW i \in Incidents, StartRepair(i)
    PROVE  Course'
<1>1. CASE AlreadyAttempted(i)
  BY <1>1, CourseAway DEF StartRepair, Steps
<1>2. CASE ~AlreadyAttempted(i)
  <2>1. /\ pc' = "load" /\ phase' = "admit" /\ run'.incident = i
        /\ UNCHANGED <<candidates, handoffs, history, sent>>
    BY <1>2 DEF StartRepair, durableVars, tableVars
  <2>2. ~Prepared' /\ ~Requested' /\ ~Validated'
    BY <2>1 DEF Prepared, Requested, Validated, Steps
  <2>3. ASSUME NEW q \in Facts("reserved") PROVE IncidentOf(q) # i
    <3>1. PICK n \in DOMAIN history : history[n].stage = "reserved" /\ history[n].of = q
      BY DEF Facts
    <3>2. history[n].scope = {IncidentOf(q)}
      BY <3>1 DEF Books, Scoped, Concerns, IncidentOf
    <3> QED
      BY <1>2, <3>1, <3>2 DEF AlreadyAttempted, ValidationStages
  <2>4. ASSUME NEW h \in handoffs PROVE IncidentOf(h) # i
    <3>1. PICK q \in Facts("received") : IncidentOf(q) = IncidentOf(h)
      BY DEF Books
    <3>2. q \in Facts("reserved")
      BY <3>1 DEF Books, ReservationsAccounted
    <3> QED
      BY <2>3, <3>1, <3>2
  <2>5. \A s : Facts(s)' = Facts(s)
    BY <2>1 DEF Facts
  <2> QED
    BY <2>1, <2>2, <2>3, <2>4, <2>5 DEF Course, IncidentOf
<1> QED
  BY <1>1, <1>2

LEMMA PrepareCandidateCourse ==
    ASSUME Places, Books, Course, PrepareCandidate
    PROVE  Course'
<1>1. PICK r \in Qualified(admission.deployment, clock) :
         LET a == NewCandidate(r)
         IN  /\ candidate' = a
             /\ candidates' = candidates \cup {a}
             /\ history' = IF a \in candidates THEN history ELSE Logged("prepared", a, a)
  BY DEF PrepareCandidate
<1>2. /\ pc = "prepare" /\ pc' = "attempt" /\ phase = "admit" /\ phase' = "admit"
      /\ UNCHANGED <<run, handoffs, sent>>
  BY DEF PrepareCandidate, Places, Phases
<1>3. candidate' \in candidates' /\ candidate'.incident = run.incident
  BY <1>1 DEF NewCandidate
<1>4. Facts("reserved")' = Facts("reserved")
  <2>1. CASE history' = history
    BY <2>1 DEF Facts
  <2>2. CASE history' # history
    BY <1>1, <2>2, LoggedFacts DEF Places
  <2> QED
    BY <2>1, <2>2
<1>5. InRun /\ ~Requested /\ InRun' /\ ~Requested' /\ ~Validated'
  BY <1>2 DEF InRun, Requested, Validated, Steps
<1> QED
  BY <1>2, <1>3, <1>4, <1>5 DEF Course, IncidentOf

LEMMA ReserveCourse ==
    ASSUME Places, Books, Course, Reserve
    PROVE  Course'
<1> DEFINE q == NewRequest
<1>1. /\ history' = Logged("reserved", q, candidate) /\ request' = q
      /\ UNCHANGED <<candidates, handoffs, sent, run, phase, candidate>>
      /\ pc = "reserve" /\ pc' = "send" /\ phase = "dispatch"
  BY DEF Reserve, Places, Phases
<1>2. q.artifact = candidate /\ q.nonce = Len(history)
  BY DEF NewRequest
<1> HIDE DEF q
<1>3. Facts("reserved")' = Facts("reserved") \cup {q}
  BY <1>1, LoggedFacts DEF Places
<1>4. q \notin sent
  <2>1. \A p \in Facts("reserved") : p.nonce \in Nat /\ p.nonce < Len(history)
    BY FactTypes DEF Places, Books, ValidationStages, Request
  <2>2. q \notin Facts("reserved")
    BY <1>2, <2>1 DEF Places, HistoryOK
  <2> QED
    BY <2>2 DEF Books, ReservationsAccounted
<1>5. InRun /\ Prepared /\ Requested' /\ ~Validated'
  BY <1>1 DEF InRun, Prepared, Requested, Validated, Steps
<1> QED
  BY <1>1, <1>2, <1>3, <1>4, <1>5 DEF Course, IncidentOf

LEMMA SendCourse ==
    ASSUME Places, Books, Course, Send
    PROVE  Course'
<1>1. /\ pc = "send" /\ pc' = "await" /\ sent' = sent \cup {request}
      /\ phase = "dispatch" /\ phase' = "dispatch"
      /\ UNCHANGED <<run, candidate, request, candidates, handoffs, history>>
  BY DEF Send, Places, Phases, durableVars, tableVars, runVars
<1>2. \A s : Facts(s)' = Facts(s)
  BY <1>1 DEF Facts
<1>3. InRun /\ Prepared /\ Requested /\ Requested' /\ ~Validated'
  BY <1>1 DEF InRun, Prepared, Requested, Validated, Steps
<1> QED
  BY <1>1, <1>2, <1>3 DEF Course, IncidentOf

LEMMA ReceiveReceiptCourse ==
    ASSUME Places, Books, Course, ReceiveReceipt
    PROVE  Course'
<1>1. /\ pc = "await" /\ pc' = "recapture"
      /\ history' = Logged("received", request, request.artifact)
      /\ phase = "dispatch" /\ phase' = "dispatch"
      /\ UNCHANGED <<run, candidate, request, candidates, handoffs, sent>>
  BY DEF ReceiveReceipt, Places, Phases
<1>2. /\ Facts("received")' = Facts("received") \cup {request}
      /\ Facts("reserved")' = Facts("reserved")
  BY <1>1, LoggedFacts DEF Places
<1>3. InRun /\ Prepared /\ Requested /\ Requested' /\ Validated'
  BY <1>1 DEF InRun, Prepared, Requested, Validated, Steps
<1> QED
  BY <1>1, <1>2, <1>3 DEF Course, IncidentOf

-----------------------------------------------------------------------------
(* The receipts of the admission *)

LEMMA ImportedAway ==
    ASSUME ~(pc' = "import" /\ phase' # "intake"), pc' # "finalize"
    PROVE  Imported'
  BY DEF Imported

LEMMA ImportedFramed ==
    ASSUME Imported, UNCHANGED <<pc, phase, admission, importing, deployments>>
    PROVE  Imported'
  BY DEF Imported, Recorded, Known

\* An import that begins has recorded nothing yet.
LEMMA ImportBegins ==
    ASSUME Places, BindCheckpoint \/ BeginImport
    PROVE  Imported'
<1>1. CASE BindCheckpoint
  <2>1. pc' = "import" => importing'.rest = admission'.receipts
    BY <1>1 DEF BindCheckpoint, Binds
  <2> QED
    BY <1>1, <2>1 DEF Imported, BindCheckpoint
<1>2. CASE BeginImport
  BY <1>2 DEF Imported, BeginImport
<1> QED
  BY <1>1, <1>2

\* A turn of an import records one receipt more.
LEMMA ImportImported ==
    ASSUME Places, Imported, Import
    PROVE  Imported'
<1>1. CASE phase = "intake"
  <2>1. (pc' = pc /\ phase' = phase) \/ pc' = AfterImport
    BY DEF Import
  <2> QED
    BY <1>1, <2>1, ImportedAway DEF AfterImport, Import
<1>2. CASE phase # "intake"
  <2>1. PICK r \in importing.rest :
           /\ r \in Receipts
           /\ \E now \in Nat : RecordDeployment(r, now)
           /\ IF importing.rest \ {r} = {}
                THEN pc' = AfterImport /\ phase' = IF phase = "intake" THEN None ELSE phase
                ELSE /\ importing' = [importing EXCEPT !.rest = importing.rest \ {r}]
                     /\ UNCHANGED <<pc, phase>>
    BY ImportTurn
  <2>2. Recorded(r)' /\ \A s \in Receipts : Recorded(s) => Recorded(s)'
    BY <2>1, RecordRecords DEF Places
  <2>3. /\ admission' = admission /\ pc = "import"
        /\ importing \in [rest : SUBSET Receipts, at : Nat]
        /\ admission \in Checkpoint
    BY <1>2 DEF Import, Places, InHand
  <2>4. \A s \in admission.receipts \ importing.rest : Recorded(s)
    BY <1>2, <2>3 DEF Imported
  <2>5. \A s \in admission.receipts \ (importing.rest \ {r}) : Recorded(s)'
    BY <2>2, <2>3, <2>4 DEF Checkpoint
  <2>6. CASE importing.rest \ {r} = {}
    <3>1. pc' \in {"survey", "reserve", "finalize"}
      BY <1>2, <2>1, <2>3, <2>6 DEF AfterImport, Places, Phases
    <3>2. \A s \in admission.receipts : Recorded(s)'
      BY <2>5, <2>6
    <3> QED
      BY <2>3, <3>1, <3>2 DEF Imported, Recorded
  <2>7. CASE importing.rest \ {r} # {}
    <3>1. importing'.rest = importing.rest \ {r} /\ pc' = "import"
      BY <2>1, <2>3, <2>7
    <3> QED
      BY <2>3, <2>5, <3>1 DEF Imported, Recorded
  <2> QED
    BY <2>6, <2>7
<1> QED
  BY <1>1, <1>2

-----------------------------------------------------------------------------
(* The step *)

\* What others do, a command that arrives or expires, and what the main thread asks.
Aside ==
    \/ \E r \in Receipts : PublishReceipt(r)
    \/ \E d \in Deployments : PublishCheckpoint(d)
    \/ MoveHead \/ Tick \/ SetBack
    \/ \E c \in Commands : Submit(c)
    \/ \E n \in DOMAIN queue : Expire(n)
    \/ RequestStop \/ ConfirmStop
    \/ UNCHANGED vars

\* The owner begins or ends something and writes no row.
Turn ==
    \/ \E i \in Incidents : StartRepair(i)
    \/ StartIntake
    \/ Start \/ Crash \/ DropOwner

\* A step of a run that writes to the tables, the journal or the network.
Writing ==
    \/ PrepareCandidate \/ Reserve \/ Send \/ ReceiveReceipt \/ ReceiveFailure
    \/ Finalize \/ Execute

\* A step of a run that only reads.
Reading == ReadCheckpoint \/ BindCheckpoint \/ BeginImport \/ Survey \/ CheckAttempt \/ Recapture

LEMMA StepCases ==
    ASSUME [Next]_vars
    PROVE  Aside \/ Turn \/ Writing \/ Reading \/ Import \/ GiveUp \/ Finish
  BY DEF Next, OwnerStep, Aside, Turn, Writing, Reading

LEMMA AsideKeeps == ASSUME Aside PROVE UNCHANGED <<durableVars, sent, pc, runVars>>
  BY DEF Aside, PublishReceipt, PublishCheckpoint, MoveHead, Tick, SetBack, Submit, Expire,
         RequestStop, ConfirmStop, vars

\* What no step but those that write changes.
LEMMA BooksKept ==
    ASSUME Aside \/ Turn \/ Reading \/ Import \/ GiveUp \/ Finish
    PROVE  UNCHANGED <<candidates, attempts, recoveries, handoffs, history, sent>>
<1>1. CASE Aside
  BY <1>1, AsideKeeps DEF durableVars, tableVars
<1>2. CASE Turn \/ GiveUp \/ Finish
  BY <1>2 DEF Turn, StartRepair, StartIntake, Start, Crash, DropOwner, GiveUp, Finish,
     durableVars, tableVars
<1>3. CASE Reading \/ Import
  BY <1>3 DEF Reading, ReadCheckpoint, BindCheckpoint, BeginImport, Survey, CheckAttempt,
     Recapture, Import, durableVars, tableVars
<1> QED
  BY <1>1, <1>2, <1>3

LEMMA BooksStep ==
    ASSUME Places, Books, Course, [Next]_vars
    PROVE  Books'
<1>1. CASE Writing
  BY <1>1, PrepareCandidateBooks, ReserveBooks, SendBooks, ReceiveReceiptBooks,
     ReceiveFailureBooks, FinalizeBooks, ExecuteBooks DEF Writing
<1> QED
  BY <1>1, StepCases, BooksKept, BooksFramed

\* Only an import decides about a deployment.
LEMMA QualificationsKept ==
    ASSUME Aside \/ Turn \/ Writing \/ Reading \/ GiveUp \/ Finish
    PROVE  UNCHANGED qualificationVars
<1>1. CASE Aside
  BY <1>1, AsideKeeps DEF durableVars
<1>2. CASE Turn \/ GiveUp \/ Finish
  BY <1>2 DEF Turn, StartRepair, StartIntake, Start, Crash, DropOwner, GiveUp, Finish,
     durableVars
<1>3. CASE Reading
  BY <1>3 DEF Reading, ReadCheckpoint, BindCheckpoint, BeginImport, Survey, CheckAttempt,
     Recapture, durableVars
<1>4. CASE Writing
  BY <1>4 DEF Writing, PrepareCandidate, Reserve, Send, ReceiveReceipt, ReceiveFailure,
     Finalize, Execute, durableVars
<1> QED
  BY <1>1, <1>2, <1>3, <1>4

LEMMA AuditStep ==
    ASSUME Places, QualificationAudited, AuditNamed, [Next]_vars
    PROVE  QualificationAudited' /\ AuditNamed'
<1>1. CASE Import
  BY <1>1, ImportTurn, RecordAudits DEF Places
<1>2. CASE UNCHANGED qualificationVars
  BY <1>2 DEF qualificationVars, QualificationAudited, AuditNamed, Known
<1> QED
  BY <1>1, <1>2, StepCases, QualificationsKept

LEMMA CourseStep ==
    ASSUME Places, Books, Course, [Next]_vars
    PROVE  Course'
<1>1. CASE Aside
  BY <1>1, AsideKeeps, CourseFramed DEF durableVars, tableVars, runVars
<1>2. CASE Turn
  <2>1. CASE \E i \in Incidents : StartRepair(i)
    BY <2>1, StartRepairCourse
  <2>2. CASE StartIntake \/ Start \/ Crash \/ DropOwner
    BY <2>2, CourseAway DEF StartIntake, Start, Crash, DropOwner, Steps
  <2> QED
    BY <1>2, <2>1, <2>2 DEF Turn
<1>3. CASE Writing
  <2>1. CASE ReceiveFailure \/ Finalize \/ Execute
    BY <2>1, CourseAway DEF ReceiveFailure, Finalize, Execute, Steps
  <2> QED
    BY <1>3, <2>1, PrepareCandidateCourse, ReserveCourse, SendCourse, ReceiveReceiptCourse
       DEF Writing
<1>4. CASE Reading
  BY <1>4, ReadingCourse DEF Reading
<1>5. CASE Import
  BY <1>5, ImportCourse
<1>6. CASE GiveUp \/ Finish
  BY <1>6, CourseAway DEF GiveUp, Finish, Steps
<1> QED
  BY <1>1, <1>2, <1>3, <1>4, <1>5, <1>6, StepCases

LEMMA ImportedStep ==
    ASSUME Places, Imported, [Next]_vars
    PROVE  Imported'
<1>1. CASE Aside
  BY <1>1, AsideKeeps, ImportedFramed DEF durableVars, qualificationVars, runVars
<1>2. CASE Turn \/ GiveUp \/ Finish
  BY <1>2, ImportedAway
     DEF Turn, StartRepair, StartIntake, Start, Crash, DropOwner, GiveUp, Finish
<1>3. CASE Writing
  BY <1>3, ImportedAway DEF Writing, PrepareCandidate, Reserve, Send, ReceiveReceipt,
     ReceiveFailure, Finalize, Execute
<1>4. CASE Reading
  <2>1. CASE ReadCheckpoint \/ Survey \/ CheckAttempt \/ Recapture
    BY <2>1, ImportedAway DEF ReadCheckpoint, Survey, CheckAttempt, Recapture
  <2> QED
    BY <1>4, <2>1, ImportBegins DEF Reading
<1>5. CASE Import
  BY <1>5, ImportImported
<1> QED
  BY <1>1, <1>2, <1>3, <1>4, <1>5, StepCases

LEMMA InvInit == Init => RepairInv
<1> SUFFICES ASSUME Init PROVE RepairInv
  OBVIOUS
<1>1. Places
  BY PlacesInit
<1>2. QualificationAudited /\ AuditNamed
  BY DEF Init, QualificationInit, QualificationAudited, AuditNamed, Known
<1>3. history = <<>> /\ \A s : Facts(s) = {}
  BY DEF Init, Facts
<1>4. FactsOnce /\ Scoped
  BY <1>3 DEF FactsOnce, Scoped
<1>5. ReservationsAccounted
  BY <1>3 DEF Init, ReservationsAccounted
<1>6. Books
  BY <1>3, <1>4, <1>5 DEF Init, Books
<1>7. Course /\ Imported
  BY DEF Init, Course, Imported, InRun, Prepared, Requested, Validated, Steps
<1> QED
  BY <1>1, <1>2, <1>6, <1>7 DEF RepairInv

LEMMA InvStep == RepairInv /\ [Next]_vars => RepairInv'
  BY PlacesStep, AuditStep, BooksStep, CourseStep, ImportedStep DEF RepairInv

-----------------------------------------------------------------------------
\* The invariant holds in every reachable state, for any incidents, receipts,
\* deployments, lifetimes, queue and bounds.
THEOREM RepairInvariant == Spec => []RepairInv
  BY InvInit, InvStep, PTL DEF Spec

\* The state of a repair keeps its types.
THEOREM TypeCorrect == Spec => []RepairTypeOK
<1>1. RepairInv => RepairTypeOK
  BY TypeParts DEF RepairInv, Places
<1> QED
  BY <1>1, RepairInvariant, PTL

\* The rows of the deployments are what the journal says: one that was invalidated
\* never becomes eligible again (record_deployment).
THEOREM RowsFollowAudit == Spec => []QualificationAudited
<1>1. RepairInv => QualificationAudited
  BY DEF RepairInv
<1> QED
  BY <1>1, RepairInvariant, PTL

\* Every reserved request is accounted for once, and nothing is sent before it is
\* recorded (reserve, complete and recover_manual_validation).
THEOREM RequestsAccounted == Spec => []ReservationsAccounted
<1>1. RepairInv => ReservationsAccounted
  BY DEF RepairInv, Books
<1> QED
  BY <1>1, RepairInvariant, PTL

\* No fact of the journal is written twice or without its incident
\* (record_transition).
THEOREM FactsWrittenOnce == Spec => []FactsOnce
<1>1. RepairInv => FactsOnce
  BY DEF RepairInv, Books
<1> QED
  BY <1>1, RepairInvariant, PTL

-----------------------------------------------------------------------------
(* The action properties *)

\* A step after the confirmation writes and sends nothing.
LEMMA QuietStep ==
    ASSUME RepairInv, [Next]_vars, stop = "confirmed"
    PROVE  UNCHANGED <<durableVars, sent>>
<1>1. pc = "dropped"
  BY DEF RepairInv, Places, Stopping
<1>2. CASE Aside
  BY <1>2, AsideKeeps
<1>3. CASE Turn
  BY <1>1, <1>3 DEF Turn, StartRepair, StartIntake, Start, Crash, DropOwner
<1>4. ~Writing /\ ~Import /\ ~Finish
  BY <1>1 DEF Writing, PrepareCandidate, Reserve, Send, ReceiveReceipt, ReceiveFailure,
     Finalize, Execute, Import, Finish
<1>5. ~Reading /\ ~GiveUp
  BY <1>1 DEF Reading, ReadCheckpoint, BindCheckpoint, BeginImport, Survey, CheckAttempt,
     Recapture, GiveUp, Steps
<1> QED
  BY <1>2, <1>3, <1>4, <1>5, StepCases

\* Once a shutdown is confirmed, nothing more is written or sent
\* (OwnerThread::shutdown).
THEOREM ShutdownIsQuiet == Spec => ConfirmedIsQuiet
<1>1. RepairInv /\ [Next]_vars => [stop = "confirmed" => UNCHANGED <<durableVars, sent>>]_vars
  BY QuietStep
<1> QED
  BY <1>1, RepairInvariant, PTL DEF Spec, ConfirmedIsQuiet

\* A qualified deployment has one fact, and its receipt is the one recorded.
LEMMA QualifiedOnce ==
    ASSUME QualificationTypeOK, QualificationAudited, AuditNamed,
           NEW d \in DOMAIN deployments, NEW now, NEW r \in Qualified(d, now)
    PROVE  /\ r.deployment = d
           /\ deployments[d].receipt = r /\ deployments[d].eligible
           /\ \A n \in DOMAIN audit :
                 audit[n].deployment = d =>
                    audit[n].receipt = r /\ audit[n].eligible /\ audit[n].at <= now
           /\ Eligible(r, now)
<1> DEFINE facts == {n \in DOMAIN audit : audit[n].deployment = d}
<1>1. /\ deployments[d].receipt = r /\ deployments[d].eligible /\ Audited(d) /\ Known(d)
      /\ \A n \in Newest(d) : audit[n].at <= now
      /\ Eligible(r, now)
  BY DEF Qualified
<1>2. d \in Deployments
  BY DEF QualificationTypeOK
<1>3. PICK n \in facts : facts = {n}
  BY <1>1, <1>2 DEF QualificationAudited
<1>4. PICK k \in Newest(d) : audit[k].eligible /\ audit[k].receipt = r
  BY <1>1 DEF Audited
<1>5. k \in facts
  BY DEF Newest
<1>6. k = n /\ audit[n].at <= now /\ audit[n].deployment = r.deployment
  BY <1>1, <1>3, <1>4, <1>5 DEF AuditNamed
<1> QED
  BY <1>1, <1>3, <1>4, <1>6

LEMMA OfferStep ==
    ASSUME RepairInv, [Next]_vars, NEW h \in handoffs' \ handoffs
    PROVE  LET r == h.artifact.receipt
           IN  /\ EnsureCurrent(admission)
               /\ \A s \in admission.receipts : s.deployment = r.deployment => s = r
               /\ \A n \in DOMAIN audit :
                     audit[n].deployment = r.deployment =>
                        audit[n].receipt = r /\ audit[n].eligible /\ audit[n].at <= clock
               /\ Eligible(r, clock)
<1>1. Finalize
  <2>1. Writing
    BY StepCases, BooksKept
  <2>2. CASE Execute
    BY <2>2 DEF Execute, Perform, Recover, Acknowledge, tableVars
  <2> QED
    BY <2>1, <2>2 DEF Writing, PrepareCandidate, Reserve, Send, ReceiveReceipt,
       ReceiveFailure, durableVars, tableVars
<1>2. h.artifact = candidate
  BY <1>1 DEF Finalize, NewHandoff
<1>3. PICK d \in DOMAIN deployments : candidate.receipt \in Qualified(d, clock)
  BY <1>1 DEF Finalize
<1> DEFINE r == candidate.receipt
<1>4. /\ r.deployment = d
      /\ deployments[d].receipt = r /\ deployments[d].eligible
      /\ \A n \in DOMAIN audit :
            audit[n].deployment = d =>
               audit[n].receipt = r /\ audit[n].eligible /\ audit[n].at <= clock
      /\ Eligible(r, clock)
  BY <1>3, QualifiedOnce DEF RepairInv, Places
<1>5. \A s \in admission.receipts : s.deployment = r.deployment => s = r
  BY <1>1, <1>4 DEF Finalize, RepairInv, Imported, Recorded
<1>6. EnsureCurrent(admission)
  BY <1>1 DEF Finalize
<1> HIDE DEF r
<1> QED
  BY <1>2, <1>4, <1>5, <1>6 DEF r

\* An artifact is offered only while the deployment it restores is qualified and
\* contradicted by no receipt, recorded or admitted (finalize_manual_repair).
THEOREM OffersUncontradicted == Spec => HandoffUncontradicted
<1>1. RepairInv /\ [Next]_vars =>
         [\A h \in handoffs' \ handoffs :
             LET r == h.artifact.receipt
             IN  /\ EnsureCurrent(admission)
                 /\ \A s \in admission.receipts : s.deployment = r.deployment => s = r
                 /\ \A n \in DOMAIN audit :
                       audit[n].deployment = r.deployment =>
                          audit[n].receipt = r /\ audit[n].eligible /\ audit[n].at <= clock
                 /\ Eligible(r, clock)]_vars
  BY OfferStep
<1> QED
  BY <1>1, RepairInvariant, PTL DEF Spec, HandoffUncontradicted

-----------------------------------------------------------------------------
(* The refinement of RepairContract *)

LEMMA ContractInit == Init => Contract!Init
  BY DEF Init, Contract!Init, Facts

\* A step that logs no fact the contract looks at, sends and offers nothing.
LEMMA ContractStutter ==
    ASSUME HistoryOK, UNCHANGED <<handoffs, sent>>,
           \/ UNCHANGED history
           \/ \E s \in {"prepared", "failed", "recovered"} : \E x, a : history' = Logged(s, x, a)
    PROVE  UNCHANGED Contract!vars
<1>1. \A s \in {"reserved", "received", "acknowledged"} : Facts(s)' = Facts(s)
  <2>1. CASE UNCHANGED history
    BY <2>1 DEF Facts
  <2>2. CASE \E s \in {"prepared", "failed", "recovered"} : \E x, a : history' = Logged(s, x, a)
    BY <2>2, LoggedFacts
  <2> QED
    BY <2>1, <2>2
<1> QED
  BY <1>1 DEF Contract!vars

LEMMA ReserveRefines ==
    ASSUME RepairInv, Reserve
    PROVE  Contract!Next
<1> DEFINE q == NewRequest
<1>1. /\ history' = Logged("reserved", q, candidate)
      /\ UNCHANGED <<handoffs, sent>>
      /\ pc = "reserve" /\ phase = "dispatch"
  BY DEF Reserve, RepairInv, Places, Phases
<1>2. IncidentOf(q) = run.incident
  BY <1>1 DEF NewRequest, IncidentOf, RepairInv, Course, Prepared, Steps
<1>3. \A p \in Facts("reserved") : IncidentOf(p) # IncidentOf(q)
  BY <1>1, <1>2 DEF RepairInv, Course, InRun, Requested, Steps
<1> HIDE DEF q
<1>4. /\ Facts("reserved")' = Facts("reserved") \cup {q}
      /\ \A u : u # "reserved" => Facts(u)' = Facts(u)
  BY <1>1, LoggedFacts DEF RepairInv, Places
<1>5. Contract!Reserve(q)
  BY <1>1, <1>3, <1>4 DEF Contract!Reserve
<1> QED
  BY <1>4, <1>5 DEF Contract!Next

LEMMA SendRefines ==
    ASSUME RepairInv, Send
    PROVE  Contract!Next
<1>1. /\ sent' = sent \cup {request}
      /\ request \in Facts("reserved") /\ request \notin sent
      /\ UNCHANGED <<handoffs, history>>
  BY DEF Send, RepairInv, Course, Requested, durableVars, tableVars
<1>2. \A s : Facts(s)' = Facts(s)
  BY <1>1 DEF Facts
<1>3. Contract!Send(request)
  BY <1>1, <1>2 DEF Contract!Send
<1> QED
  BY <1>1, <1>2, <1>3 DEF Contract!Next

LEMMA ReceiveReceiptRefines ==
    ASSUME RepairInv, ReceiveReceipt
    PROVE  Contract!Next
<1>1. /\ history' = Logged("received", request, request.artifact)
      /\ Active(request) \in attempts
      /\ request \in Facts("reserved") /\ request \in sent
      /\ UNCHANGED <<handoffs, sent>>
  BY DEF ReceiveReceipt, RepairInv, Course, Requested
<1>2. request \notin Facts("received")
  <2>1. Active(request).completed = None /\ Active(request).request = request
    BY DEF Active
  <2> QED
    BY <1>1, <2>1 DEF RepairInv, Books, ReservationsAccounted
<1>3. /\ Facts("received")' = Facts("received") \cup {request}
      /\ \A u : u # "received" => Facts(u)' = Facts(u)
  BY <1>1, LoggedFacts DEF RepairInv, Places
<1>4. Contract!Answer(request)
  BY <1>1, <1>2, <1>3 DEF Contract!Answer
<1> QED
  BY <1>1, <1>3, <1>4 DEF Contract!Next

LEMMA FinalizeRefines ==
    ASSUME RepairInv, Finalize
    PROVE  Contract!Next
<1> DEFINE h == NewHandoff
<1>1. /\ handoffs' = handoffs \cup {h}
      /\ history' = IF h \in handoffs THEN history ELSE Logged("validated", h, candidate)
      /\ UNCHANGED sent
      /\ pc = "finalize" /\ phase = "final"
  BY DEF Finalize, RepairInv, Places, Phases
<1>2. h.artifact = candidate
  BY DEF NewHandoff
<1>3. /\ candidate.incident = run.incident
      /\ request \in Facts("received") /\ request.artifact = candidate
      /\ \A g \in handoffs : IncidentOf(g) # run.incident
  BY <1>1 DEF RepairInv, Course, InRun, Prepared, Requested, Validated, Steps
<1> HIDE DEF h
<1>4. h \notin handoffs
  BY <1>2, <1>3 DEF IncidentOf
<1>5. \A u : u # "validated" => Facts(u)' = Facts(u)
  BY <1>1, <1>4, LoggedFacts DEF RepairInv, Places
<1>6. Contract!Offer(h)
  BY <1>1, <1>2, <1>3, <1>5 DEF Contract!Offer, IncidentOf
<1> QED
  BY <1>1, <1>6 DEF Contract!Next

LEMMA AcknowledgeRefines ==
    ASSUME RepairInv, NEW h, Acknowledge(h), UNCHANGED sent
    PROVE  Contract!Next \/ UNCHANGED Contract!vars
<1>1. h \in handoffs /\ UNCHANGED handoffs
  BY DEF Acknowledge
<1>2. CASE Said("acknowledged", h)
  BY <1>1, <1>2, ContractStutter DEF Acknowledge, RepairInv, Places
<1>3. CASE ~Said("acknowledged", h)
  <2>1. history' = Logged("acknowledged", h, h.artifact) /\ h \notin Facts("acknowledged")
    BY <1>3, SaidIsFact DEF Acknowledge
  <2>2. /\ Facts("acknowledged")' = Facts("acknowledged") \cup {h}
        /\ \A u : u # "acknowledged" => Facts(u)' = Facts(u)
    BY <2>1, LoggedFacts DEF RepairInv, Places
  <2>3. Contract!Acknowledge(h)
    BY <1>1, <2>1, <2>2 DEF Contract!Acknowledge
  <2> QED
    BY <1>1, <2>3 DEF Contract!Next
<1> QED
  BY <1>2, <1>3

LEMMA ContractStep ==
    RepairInv /\ [Next]_vars => [Contract!Next]_Contract!vars
<1> SUFFICES ASSUME RepairInv, [Next]_vars
             PROVE  Contract!Next \/ UNCHANGED Contract!vars
  OBVIOUS
<1>1. HistoryOK
  BY DEF RepairInv, Places
<1>2. CASE ~Writing
  BY <1>1, <1>2, StepCases, BooksKept, ContractStutter
<1>3. CASE PrepareCandidate
  <2>1. \E a : history' = IF a \in candidates THEN history ELSE Logged("prepared", a, a)
    BY <1>3 DEF PrepareCandidate
  <2> QED
    BY <1>1, <1>3, <2>1, ContractStutter DEF PrepareCandidate
<1>4. CASE ReceiveFailure
  BY <1>1, <1>4, ContractStutter DEF ReceiveFailure
<1>5. CASE Execute
  <2>1. UNCHANGED sent
    BY <1>5 DEF Execute
  <2>2. CASE ~Head(queue).live
    BY <1>1, <1>5, <2>1, <2>2, ContractStutter DEF Execute, tableVars
  <2>3. ASSUME NEW q, Recover(q) PROVE UNCHANGED Contract!vars
    BY <1>1, <2>1, <2>3, ContractStutter DEF Recover
  <2> QED
    BY <1>5, <2>1, <2>2, <2>3, AcknowledgeRefines DEF Execute, Perform
<1> QED
  BY <1>2, <1>3, <1>4, <1>5, ReserveRefines, SendRefines, ReceiveReceiptRefines,
     FinalizeRefines DEF Writing

\* Manual repair implements RepairContract: whatever crashes, recoveries and
\* commands come between, an incident has one attempt, recorded before it is sent,
\* and one offer, for an answered request (DISPATCH.md, repair_dispatch.rs).
THEOREM RepairRefinesContract == Spec => ImplementsContract
  BY ContractInit, ContractStep, RepairInvariant, PTL
     DEF Spec, ImplementsContract, Contract!Spec

=============================================================================
