----------------------- MODULE LiveInvestigationProofs ----------------------
(***************************************************************************)
(* Proofs about LiveInvestigation, for any providers, order, limits, call  *)
(* identities and bounds.                                                  *)
(***************************************************************************)
EXTENDS LiveInvestigation, SequenceTheorems, DataLemmas

-----------------------------------------------------------------------------
(* The next provider *)

\* next_provider is the first admitted provider that was not attempted.
LEMMA NextProviderIsFirst ==
    ASSUME NextProvider # None
    PROVE  /\ status = None
           /\ active = None
           /\ \E n \in Remaining : NextProvider = Order[n] /\ \A j \in Remaining : n <= j
<1>1. status = None /\ active = None /\ Remaining # {}
  BY DEF NextProvider
<1>2. NextProvider = Order[CHOOSE i \in Remaining : \A j \in Remaining : i <= j]
  BY <1>1 DEF NextProvider
<1>3. Remaining \in SUBSET Nat
  BY OrderAssumption DEF Remaining
<1>4. \E i \in Remaining : \A j \in Remaining : i <= j
  BY <1>1, <1>3, LeastExists
<1> DEFINE n == CHOOSE i \in Remaining : \A j \in Remaining : i <= j
<1>5. n \in Remaining /\ \A j \in Remaining : n <= j
  BY <1>4
<1> QED
  BY <1>1, <1>2, <1>5

-----------------------------------------------------------------------------
(* What a step does to the run of providers *)

\* Where no provider is under way, and where one is.
Between == {"new", "logs", "metrics", "collected", "admitting"}
During == {"turn", "replying", "tools", "asking", "awaiting", "weighing"}

\* A step that leaves the providers alone, or ends the investigation.
Quiet ==
    /\ UNCHANGED <<admission, attempted, active, status>>
    /\ stage \notin Ended
    /\ \/ stage' \in {"failed", stage}
       \/ stage \in Between /\ stage' \in Between
       \/ stage \in During /\ stage' \in During

\* The step that ends the run at a model whose reservation is refused.
Refuses ==
    /\ stage = "admitting" /\ stage' = "refused"
    /\ NextProvider \notin {None, Deterministic}
    /\ UNCHANGED <<admission, attempted, active, status>>

\* The step that takes the next provider.
Engages ==
    /\ stage = "admitting" /\ stage' = "turn"
    /\ NextProvider # None
    /\ Engage(NextProvider)

\* The steps that record the outcome of an attempt.
Discards ==
    /\ stage \in During /\ stage' \in {"admitting", "failed"}
    /\ active # None /\ active' = None
    /\ UNCHANGED <<admission, attempted, status>>
Accepts ==
    /\ stage \in During /\ stage' \in {"done", "failed"}
    /\ active # None /\ active' = None /\ status' = active
    /\ UNCHANGED <<admission, attempted>>
Exhausts ==
    /\ stage = "admitting" /\ stage' \in {"done", "failed"}
    /\ Remaining = {} /\ active = None /\ status' = "Exhausted"
    /\ UNCHANGED <<admission, attempted, active>>

LEMMA FailIsDiscard ==
    ASSUME NEW ok \in BOOLEAN, stage \in During, FailProvider(ok)
    PROVE  Discards
<1>1. stage' = IF ok THEN "admitting" ELSE "failed"
  BY DEF FailProvider, Persist
<1> QED
  BY <1>1 DEF FailProvider, Fail, Discards

LEMMA FinalIsOutcome ==
    ASSUME NEW ok \in BOOLEAN, NEW cites, stage \in During, Final(cites, ok)
    PROVE  Discards \/ Accepts
<1>1. CASE FailProvider(ok)
  BY <1>1, FailIsDiscard
<1>2. CASE SucceedProvider(cites, ok)
  <2>1. stage' = IF ok THEN "done" ELSE "failed"
    BY <1>2 DEF SucceedProvider, Persist
  <2> QED
    BY <1>2, <2>1 DEF SucceedProvider, Succeed, Accepts
<1> QED
  BY <1>1, <1>2 DEF Final

\* Every step is one of these.
LEMMA StepKinds ==
    ASSUME Next
    PROVE  Quiet \/ Engages \/ Refuses \/ Discards \/ Accepts \/ Exhausts
<1>1. CASE Collect
  <2>1. ASSUME NEW ok \in BOOLEAN, Begin(ok) PROVE Quiet
    BY <2>1 DEF Begin, Write, Quiet, Between, Ended, runVars
  <2>2. ASSUME NEW ok \in BOOLEAN, BaselineQuery(ok) PROVE Quiet
    BY <2>2 DEF BaselineQuery, Persist, ReserveQuery, Quiet, Between, Ended, runVars
  <2>3. ASSUME NEW ok \in BOOLEAN, CloseCollection(ok) PROVE Quiet
    BY <2>3 DEF CloseCollection, Write, Quiet, Between, Ended, runVars
  <2>4. ASSUME BaselineFails PROVE Quiet
    BY <2>4 DEF BaselineFails, ReserveQuery, Quiet, Ended, runVars
  <2> QED
    BY <1>1, <2>1, <2>2, <2>3, <2>4 DEF Collect
<1>2. CASE Reason
  <2>1. ASSUME AdmitProvider PROVE Engages
    <3>1. stage = "admitting" /\ stage' = "turn"
      BY <2>1 DEF AdmitProvider
    <3>2. CASE AdmitDeterministic
      BY <3>1, <3>2, OrderAssumption DEF AdmitDeterministic, Engages
    <3>3. CASE Admit
      BY <3>1, <3>3 DEF Admit, Engages
    <3> QED
      BY <2>1, <3>2, <3>3 DEF AdmitProvider
  <2>2. ASSUME RefuseProvider PROVE Refuses
    BY <2>2 DEF RefuseProvider, AdmitRefused, Refuses, runVars
  <2>3. ASSUME SendTurn PROVE Quiet
    BY <2>3 DEF SendTurn, Quiet, During, Ended, runVars
  <2>4. ASSUME NEW ok \in BOOLEAN, NobodyLeft(ok) PROVE Exhausts
    <3>1. stage' = IF ok THEN "done" ELSE "failed"
      BY <2>4 DEF NobodyLeft, Persist
    <3> QED
      BY <2>4, <3>1 DEF NobodyLeft, AdmitNobody, Exhausts
  <2>5. ASSUME NEW ok \in BOOLEAN, DeterministicTurn(ok) PROVE Discards \/ Accepts
    BY <2>5, FinalIsOutcome DEF DeterministicTurn, During
  <2>6. ASSUME NEW ok \in BOOLEAN, TurnUnavailable(ok) PROVE Discards
    BY <2>6, FailIsDiscard DEF TurnUnavailable, During
  <2>7. ASSUME NEW ok \in BOOLEAN, ReplyFails(ok) PROVE Discards
    BY <2>7, FailIsDiscard DEF ReplyFails, During
  <2>8. ASSUME NEW ok \in BOOLEAN, NEW cites, ReplyFinal(cites, ok) PROVE Discards \/ Accepts
    BY <2>8, FinalIsOutcome DEF ReplyFinal, During
  <2>9. ASSUME NEW response, ReplyCalls(response) PROVE Quiet
    BY <2>9 DEF ReplyCalls, Quiet, During, Ended, runVars
  <2> QED
    BY <1>2, <2>1, <2>2, <2>3, <2>4, <2>5, <2>6, <2>7, <2>8, <2>9 DEF Reason
<1>3. CASE UseTools
  <2>1. ASSUME ToolSend \/ ToolUncopied \/ NextCall PROVE Quiet
    BY <2>1 DEF ToolSend, ToolUncopied, NextCall, Quiet, During, Ended, runVars
  <2>2. ASSUME NEW ok \in BOOLEAN, NEW envelope, NEW class, NEW before,
               stage \in During, RecordResult(envelope, class, before, ok)
        PROVE  Quiet
    BY <2>2 DEF RecordResult, Persist, Quiet, During, Ended, runVars
  <2>3. ASSUME NEW ok \in BOOLEAN, ToolRefused(ok) \/ ToolUnfunded(ok) \/ ToolTimesOut(ok)
        PROVE  Quiet
    BY <2>2, <2>3 DEF ToolRefused, ToolUnfunded, ToolTimesOut, During
  <2>4. ASSUME NEW ok \in BOOLEAN, NEW class, ToolUnanswered(class, ok) \/ ToolAnswer(class, ok)
        PROVE  Quiet
    BY <2>2, <2>4 DEF ToolUnanswered, ToolAnswer, During
  <2>5. ASSUME NEW ok \in BOOLEAN, ToolRequest(ok) PROVE Quiet
    BY <2>5 DEF ToolRequest, ReserveQuery, Write, Quiet, During, Ended, runVars
  <2>6. ASSUME NEW ok \in BOOLEAN, Overflow(ok) PROVE Discards
    BY <2>6, FailIsDiscard DEF Overflow, During
  <2> QED
    BY <1>3, <2>1, <2>3, <2>4, <2>5, <2>6 DEF UseTools
<1>4. CASE Expire \/ Crash
  <2>1. CASE Crash
    BY <2>1 DEF Crash, Quiet, runVars
  <2>2. CASE Expire
    BY <2>2 DEF Expire, Quiet, runVars
  <2> QED
    BY <1>4, <2>1, <2>2
<1> QED
  BY <1>1, <1>2, <1>3, <1>4 DEF Next

-----------------------------------------------------------------------------
(* Fallback *)

\* The admitted ones of the first n providers.
Tried(n) == {Order[j] : j \in {k \in 1 .. n : Order[k] \in admission}}

\* The attempted providers are the admitted ones up to the last attempted, and
\* the stage tells whether one is under way.
FallbackInv ==
    /\ \E n \in 0 .. Len(Order) :
        /\ attempted = Tried(n)
        /\ n = 0 \/ Order[n] \in admission
    /\ stage \in Between \cup During \cup Ended
    /\ stage \in Between => active = None
    /\ stage \in During => active \in Providers
    /\ stage \notin Ended => status = None
    /\ stage = "done" => active = None /\ status \in Providers \cup {"Exhausted"}

\* The last of the admitted providers among the first n, if the n-th is one.
LastOf(tried) ==
    IF tried = {} THEN 0
    ELSE CHOOSE i \in 1 .. Len(Order) :
            /\ Order[i] \in tried
            /\ \A j \in 1 .. Len(Order) : Order[j] \in tried => j <= i

LEMMA LastIsUnique ==
    ASSUME NEW n \in 0 .. Len(Order), NEW admitted, n = 0 \/ Order[n] \in admitted,
           NEW tried, tried = {Order[j] : j \in {k \in 1 .. n : Order[k] \in admitted}}
    PROVE  LastOf(tried) = n
<1>1. CASE n = 0
  BY <1>1 DEF LastOf
<1>2. CASE n # 0
  <2>1. Len(Order) \in Nat /\ n \in 1 .. Len(Order) /\ Order[n] \in admitted
    BY <1>2, OrderAssumption
  <2>2. Order[n] \in tried
    BY <2>1
  <2>3. ASSUME NEW j \in 1 .. Len(Order), Order[j] \in tried PROVE j <= n
    <3>1. PICK k \in 1 .. n : Order[j] = Order[k]
      BY <2>3
    <3>2. k \in 1 .. Len(Order)
      BY <2>1
    <3>3. j = k
      BY <3>1, <3>2, OrderAssumption
    <3> QED
      BY <3>3
  <2>4. ASSUME NEW i \in 1 .. Len(Order), Order[i] \in tried,
               \A j \in 1 .. Len(Order) : Order[j] \in tried => j <= i
        PROVE  i = n
    <3>1. n <= i
      BY <2>1, <2>2, <2>4
    <3>2. i <= n
      BY <2>3, <2>4
    <3> QED
      BY <3>1, <3>2, <2>1
  <2> QED
    BY <2>1, <2>2, <2>3, <2>4 DEF LastOf
<1> QED
  BY <1>1, <1>2

\* The position of a run that has attempted the admitted providers up to n,
\* in a state and in the next.
LEMMA PositionIsLast ==
    ASSUME NEW n \in 0 .. Len(Order), attempted = Tried(n), n = 0 \/ Order[n] \in admission
    PROVE  Position = n
<1>1. LastOf(attempted) = n
  BY LastIsUnique DEF Tried
<1> QED
  BY <1>1 DEF LastOf, Position

LEMMA PositionIsLastPrimed ==
    ASSUME NEW n \in 0 .. Len(Order), attempted' = Tried(n)', n = 0 \/ Order[n] \in admission'
    PROVE  Position' = n
<1>1. LastOf(attempted') = n
  BY LastIsUnique DEF Tried
<1> QED
  BY <1>1 DEF LastOf, Position

\* The providers still to be tried are the contract's positions ahead.
LEMMA RemainingIsAhead ==
    ASSUME NEW n \in 0 .. Len(Order), attempted = Tried(n), n = 0 \/ Order[n] \in admission
    PROVE  Remaining = {i \in n + 1 .. Len(Order) : Order[i] \in admission}
<1>1. Len(Order) \in Nat
  BY OrderAssumption
<1>2. ASSUME NEW i \in 1 .. Len(Order), Order[i] \in admission
      PROVE  Order[i] \in attempted <=> i <= n
  <2>1. ASSUME i <= n PROVE Order[i] \in attempted
    BY <1>2, <2>1 DEF Tried
  <2>2. ASSUME Order[i] \in attempted PROVE i <= n
    <3>1. PICK k \in 1 .. n : Order[i] = Order[k]
      BY <2>2 DEF Tried
    <3>2. k \in 1 .. Len(Order)
      BY <1>1
    <3>3. i = k
      BY <3>1, <3>2, OrderAssumption
    <3> QED
      BY <3>3
  <2> QED
    BY <2>1, <2>2
<1>3. ASSUME NEW i
      PROVE  i \in Remaining <=> i \in {j \in n + 1 .. Len(Order) : Order[j] \in admission}
  <2>1. ASSUME i \in Remaining
        PROVE  i \in {j \in n + 1 .. Len(Order) : Order[j] \in admission}
    BY <1>1, <1>2, <2>1 DEF Remaining
  <2>2. ASSUME i \in {j \in n + 1 .. Len(Order) : Order[j] \in admission}
        PROVE  i \in Remaining
    <3>1. i \in 1 .. Len(Order) /\ ~(i <= n) /\ Order[i] \in admission
      BY <1>1, <2>2
    <3> QED
      BY <1>2, <3>1 DEF Remaining
  <2> QED
    BY <2>1, <2>2
<1> QED
  BY <1>3

\* The next provider extends what was tried to its own position.
LEMMA EngageMoves ==
    ASSUME NEW n \in 0 .. Len(Order), attempted = Tried(n), n = 0 \/ Order[n] \in admission,
           NextProvider # None, Engage(NextProvider)
    PROVE  \E i \in {j \in n + 1 .. Len(Order) : Order[j] \in admission} :
              /\ \A j \in {k \in n + 1 .. Len(Order) : Order[k] \in admission} : i <= j
              /\ attempted' = Tried(i)
              /\ active' = Order[i]
<1> DEFINE A == {j \in n + 1 .. Len(Order) : Order[j] \in admission}
<1>1. Remaining = A
  BY RemainingIsAhead
<1>2. PICK i \in A : NextProvider = Order[i] /\ \A j \in A : i <= j
  BY <1>1, NextProviderIsFirst
<1>3. Len(Order) \in Nat
  BY OrderAssumption
<1>4. attempted' = Tried(n) \cup {Order[i]} /\ active' = Order[i]
  BY <1>2 DEF Engage
<1>5. Tried(n) \cup {Order[i]} = Tried(i)
  <2>1. ASSUME NEW p \in Tried(n) PROVE p \in Tried(i)
    BY <1>3, <2>1 DEF Tried
  <2>2. Order[i] \in Tried(i)
    BY <1>3 DEF Tried
  <2>3. ASSUME NEW p \in Tried(i), p # Order[i] PROVE p \in Tried(n)
    <3>1. PICK k \in 1 .. i : p = Order[k] /\ Order[k] \in admission
      BY DEF Tried
    <3>2. k < i
      BY <1>3, <2>3, <3>1
    <3>3. k \notin A
      BY <1>2, <1>3, <3>2
    <3>4. k \in 1 .. n
      BY <1>3, <3>1, <3>2, <3>3
    <3> QED
      BY <3>1, <3>4 DEF Tried
  <2> QED
    BY <2>1, <2>2, <2>3
<1> QED
  BY <1>2, <1>4, <1>5

LEMMA FallbackInit == Init => FallbackInv
<1> SUFFICES ASSUME Init PROVE FallbackInv
  OBVIOUS
<1>1. 0 \in 0 .. Len(Order)
  BY OrderAssumption
<1>2. attempted = Tried(0)
  BY DEF Init, RunInit, Tried
<1> QED
  BY <1>1, <1>2 DEF Init, RunInit, FallbackInv, Between, During, Ended

LEMMA FallbackStep == FallbackInv /\ [Next]_vars => FallbackInv'
<1> SUFFICES ASSUME FallbackInv, [Next]_vars PROVE FallbackInv'
  OBVIOUS
<1> USE DEF Between, During, Ended
<1> DEFINE Covers(n) == attempted = Tried(n) /\ (n = 0 \/ Order[n] \in admission)
<1>1. PICK n \in 0 .. Len(Order) : Covers(n)
  BY DEF FallbackInv
<1>2. ASSUME UNCHANGED <<admission, attempted>>
      PROVE  (\E m \in 0 .. Len(Order) : Covers(m))'
  BY <1>1, <1>2 DEF Tried
<1>3. CASE Quiet
  BY <1>2, <1>3 DEF Quiet, FallbackInv
<1>4. CASE Engages
  <2>1. PICK i \in {j \in n + 1 .. Len(Order) : Order[j] \in admission} :
              attempted' = Tried(i) /\ active' = Order[i]
    BY <1>1, <1>4, EngageMoves DEF Engages
  <2>2. admission' = admission /\ status' = status
    BY <1>4 DEF Engages, Engage
  <2>3. i \in 1 .. Len(Order) /\ Order[i] \in admission
    BY <1>1, OrderAssumption
  <2>4. Covers(i)'
    BY <2>1, <2>2, <2>3 DEF Tried
  <2>5. i \in 0 .. Len(Order) /\ active' \in Providers
    BY <2>1, <2>3, OrderAssumption
  <2> QED
    BY <1>4, <2>2, <2>4, <2>5 DEF Engages, FallbackInv
<1>5. CASE Discards
  BY <1>2, <1>5 DEF Discards, FallbackInv
<1>6. CASE Accepts
  BY <1>2, <1>6 DEF Accepts, FallbackInv
<1>7. CASE Exhausts
  BY <1>2, <1>7 DEF Exhausts, FallbackInv
<1>8. CASE Refuses
  BY <1>2, <1>8 DEF Refuses, FallbackInv
<1>9. CASE UNCHANGED vars
  BY <1>2, <1>9 DEF vars, runVars, FallbackInv
<1> QED
  BY <1>3, <1>4, <1>5, <1>6, <1>7, <1>8, <1>9, StepKinds

\* Each step of the investigation is a step of the contract or leaves it alone.
LEMMA FallbackRefinesStep ==
    FallbackInv /\ FallbackInv' /\ [Next]_vars => [Contract!Next]_Contract!vars
<1> SUFFICES ASSUME FallbackInv, FallbackInv', [Next]_vars
             PROVE  Contract!Next \/ UNCHANGED Contract!vars
  OBVIOUS
<1> DEFINE Covers(n) == attempted = Tried(n) /\ (n = 0 \/ Order[n] \in admission)
<1>1. PICK n \in 0 .. Len(Order) : Covers(n)
  BY DEF FallbackInv
<1>2. Position = n
  BY <1>1, PositionIsLast
<1>3. ASSUME UNCHANGED <<admission, attempted>> PROVE Position' = Position
  BY <1>3 DEF Position
<1>4. CASE Quiet
  <2>1. UNCHANGED <<admission, Position>>
    BY <1>3, <1>4 DEF Quiet
  <2>2. CASE stage' = "failed"
    <3>1. Verdict \in {"open", "trying"} /\ Verdict' = "abandoned"
      BY <1>4, <2>2 DEF Quiet, Verdict, Ended
    <3> QED
      BY <2>1, <3>1 DEF Contract!Next, Contract!Abandon, Contract!Decide
  <2>3. CASE stage' # "failed"
    <3>1. Verdict' = Verdict
      BY <1>4, <2>3 DEF Quiet, Verdict, Ended, Between, During
    <3> QED
      BY <2>1, <3>1 DEF Contract!vars
  <2> QED
    BY <2>2, <2>3
<1>5. CASE Engages
  <2> DEFINE A == {j \in n + 1 .. Len(Order) : Order[j] \in admission}
  <2>1. PICK i \in A : (\A j \in A : i <= j) /\ attempted' = Tried(i) /\ active' = Order[i]
    BY <1>1, <1>5, EngageMoves DEF Engages
  <2>2. admission' = admission
    BY <1>5 DEF Engages, Engage
  <2>3. i \in 1 .. Len(Order) /\ Order[i] \in admission
    BY <1>1, OrderAssumption
  <2>4. Order[i] # None
    BY <2>3, OrderAssumption
  <2>5. Verdict = "open"
    BY <1>5 DEF Engages, Verdict, Ended, FallbackInv, Between
  <2>6. Verdict' = "trying"
    BY <1>5, <2>1, <2>4 DEF Engages, Verdict, Ended
  <2>7. Position' = i
    <3>1. attempted' = Tried(i)' /\ Order[i] \in admission'
      BY <2>1, <2>2, <2>3 DEF Tried
    <3>2. i \in 0 .. Len(Order)
      BY <2>3, OrderAssumption
    <3> QED
      BY <3>1, <3>2, PositionIsLastPrimed
  <2>8. Contract!Ahead = A
    BY <1>2 DEF Contract!Ahead
  <2>9. Contract!Try
    BY <2>1, <2>2, <2>5, <2>6, <2>7, <2>8 DEF Contract!Try, Contract!IsNext
  <2> QED
    BY <2>9 DEF Contract!Next
<1>6. CASE Discards
  <2>1. UNCHANGED <<admission, Position>>
    BY <1>3, <1>6 DEF Discards
  <2>2. Verdict = "trying"
    BY <1>6 DEF Discards, Verdict, Ended, During
  <2>3. Verdict' = IF stage' = "failed" THEN "abandoned" ELSE "open"
    BY <1>6 DEF Discards, Verdict, Ended
  <2> QED
    BY <2>1, <2>2, <2>3
       DEF Contract!Next, Contract!Discard, Contract!Abandon, Contract!Decide
<1>7. CASE Accepts
  <2>1. UNCHANGED <<admission, Position>>
    BY <1>3, <1>7 DEF Accepts
  <2>2. Verdict = "trying"
    BY <1>7 DEF Accepts, Verdict, Ended, During
  <2>3. status' # "Exhausted"
    BY <1>7, OrderAssumption DEF Accepts, FallbackInv
  <2>4. Verdict' = IF stage' = "failed" THEN "abandoned" ELSE "accepted"
    BY <1>7, <2>3 DEF Accepts, Verdict, Ended
  <2> QED
    BY <2>1, <2>2, <2>4
       DEF Contract!Next, Contract!Accept, Contract!Abandon, Contract!Decide
<1>8. CASE Exhausts
  <2>1. UNCHANGED <<admission, Position>>
    BY <1>3, <1>8 DEF Exhausts
  <2>2. Verdict = "open"
    BY <1>8 DEF Exhausts, Verdict, Ended
  <2>3. Verdict' = IF stage' = "failed" THEN "abandoned" ELSE "exhausted"
    BY <1>8 DEF Exhausts, Verdict, Ended
  <2>4. Contract!Ahead = {}
    BY <1>1, <1>2, <1>8, RemainingIsAhead DEF Exhausts, Contract!Ahead
  <2> QED
    BY <2>1, <2>2, <2>3, <2>4
       DEF Contract!Next, Contract!Exhaust, Contract!Abandon, Contract!Decide
<1>9. CASE Refuses
  <2>1. UNCHANGED <<admission, Position>>
    BY <1>3, <1>9 DEF Refuses
  <2>2. Verdict = "open" /\ Verdict' = "refused"
    BY <1>9 DEF Refuses, Verdict, Ended, FallbackInv, Between
  <2>3. PICK i \in Remaining : NextProvider = Order[i] /\ \A j \in Remaining : i <= j
    BY <1>9, NextProviderIsFirst DEF Refuses
  <2>4. Remaining = Contract!Ahead
    BY <1>1, <1>2, RemainingIsAhead DEF Contract!Ahead
  <2>5. i \in Contract!Ahead /\ Contract!IsNext(i) /\ Order[i] \notin {Deterministic}
    BY <1>9, <2>3, <2>4 DEF Refuses, Contract!IsNext
  <2> QED
    BY <2>1, <2>2, <2>5 DEF Contract!Next, Contract!Refuse, Contract!Decide
<1>10. CASE UNCHANGED vars
  <2>1. UNCHANGED <<admission, Position>>
    BY <1>3, <1>10 DEF vars, runVars
  <2>2. UNCHANGED Verdict
    BY <1>10 DEF vars, runVars, Verdict
  <2> QED
    BY <2>1, <2>2 DEF Contract!vars
<1> QED
  BY <1>4, <1>5, <1>6, <1>7, <1>8, <1>9, <1>10, StepKinds

LEMMA FallbackRefinesInit == Init => Contract!Init
<1> SUFFICES ASSUME Init PROVE Contract!Init
  OBVIOUS
<1>1. Position = 0
  BY DEF Init, RunInit, Position
<1>2. Verdict = "open"
  BY DEF Init, RunInit, Verdict, Ended
<1> QED
  BY <1>1, <1>2 DEF Init, RunInit, Contract!Init

\* Provider fallback keeps its contract: the admitted providers are tried in their
\* order, none passed over and none twice, until one is accepted or all have
\* failed.  Only an error, a death or a refused reservation ends the run before
\* that, and the deterministic provider is never the one refused
\* (admit_provider, fail_with and succeed_with under run_live_with_context).
THEOREM InvestigationImplementsFallback == Spec => ImplementsFallback
<1>1. Spec => []FallbackInv
  BY FallbackInit, FallbackStep, PTL DEF Spec
<1> QED
  BY <1>1, FallbackRefinesInit, FallbackRefinesStep, PTL
     DEF Spec, ImplementsFallback, Contract!Spec

-----------------------------------------------------------------------------
(* Types *)

LEMMA RuntimeFactForms ==
    /\ PhaseStarted("Reasoning") \in RuntimeFact
    /\ PhaseFinished("Reasoning") \in RuntimeFact
    /\ \A n \in Nat : EvidenceCommitted(n) \in RuntimeFact
    /\ \A p \in Providers, r \in Result, m, n \in Nat : ToolContext(p, r, m, n) \in RuntimeFact
    /\ \A a \in Attempt : ProviderAttempt(a) \in RuntimeFact
    /\ \A p \in Providers : Terminal(p) \in RuntimeFact
<1>1. PhaseStarted("Reasoning") \in RuntimeFact /\ PhaseFinished("Reasoning") \in RuntimeFact
  BY DEF RuntimeFact, PhaseStarted, PhaseFinished
<1>2. ASSUME NEW n \in Nat PROVE EvidenceCommitted(n) \in RuntimeFact
  BY DEF RuntimeFact, EvidenceCommitted
<1>3. ASSUME NEW p \in Providers, NEW r \in Result, NEW m \in Nat, NEW n \in Nat
      PROVE  ToolContext(p, r, m, n) \in RuntimeFact
  <2>1. r.call \in Calls /\ r.class \in Outcomes
    BY DEF Result
  <2> QED
    BY <2>1 DEF RuntimeFact, ToolContext
<1>4. ASSUME NEW a \in Attempt PROVE ProviderAttempt(a) \in RuntimeFact
  BY DEF RuntimeFact, ProviderAttempt
<1>5. ASSUME NEW p \in Providers PROVE Terminal(p) \in RuntimeFact
  BY DEF RuntimeFact, Terminal
<1> QED
  BY <1>1, <1>2, <1>3, <1>4, <1>5

LEMMA DirectFactForms ==
    /\ PhaseStarted("Investigation") \in DirectFact
    /\ PhaseFinished("Investigation") \in DirectFact
    /\ \A p \in Providers, c \in CallIds, n \in Nat : ToolRequested(p, c, n) \in DirectFact
<1>1. PhaseStarted("Investigation") \in DirectFact /\ PhaseFinished("Investigation") \in DirectFact
  BY DEF DirectFact, PhaseStarted, PhaseFinished
<1>2. ASSUME NEW p \in Providers, NEW c \in CallIds, NEW n \in Nat
      PROVE  ToolRequested(p, c, n) \in DirectFact
  BY DEF DirectFact, ToolRequested
<1> QED
  BY <1>1, <1>2

\* The conjuncts of TypeOK, by what they are about.
JournalType ==
    /\ stage \in Stages
    /\ facts \in Seq(RuntimeFact)
    /\ persisted \in 0 .. Len(facts)
    /\ durable \in Seq(RuntimeFact \cup DirectFact)
BoardType ==
    /\ late \in BOOLEAN
    /\ evidence \in Seq(Queries)
    /\ board \in Seq(CallIds)
    /\ report \in 0 .. Len(evidence)
LoopType ==
    /\ calls \in Seq(Calls)
    /\ seen \subseteq CallIds
    /\ turnsUsed \in 0 .. MaxToolTurns
    /\ results \in Seq(Result)
SentType ==
    /\ asked \in Seq(Queries)
    /\ modelTurns \in 0 .. MaxModelTurns

LEMMA TypeParts == TypeOK <=> RunTypeOK /\ JournalType /\ BoardType /\ LoopType /\ SentType
  BY Zenon DEF TypeOK, JournalType, BoardType, LoopType, SentType

LEMMA TypePartsPrimed ==
    TypeOK' <=> RunTypeOK' /\ JournalType' /\ BoardType' /\ LoopType' /\ SentType'
  BY Zenon DEF TypeOK, JournalType, BoardType, LoopType, SentType

LEMMA FunctionIsSeq ==
    ASSUME NEW S, NEW n \in Nat, NEW f \in [1 .. n -> S]
    PROVE  f \in Seq(S) /\ Len(f) = n
  BY SeqDef, LenProperties

LEMMA PersistType ==
    ASSUME JournalType, NEW news \in Seq(RuntimeFact), NEW ok \in BOOLEAN, NEW next \in Stages,
           Persist(news, ok, next)
    PROVE  JournalType'
<1>1. facts' \in Seq(RuntimeFact) /\ Len(facts') = Len(facts) + Len(news)
  BY DEF JournalType, Persist
<1>2. persisted \in Nat /\ persisted <= Len(facts) /\ Len(facts) \in Nat /\ Len(news) \in Nat
  BY DEF JournalType
<1>3. SubSeq(facts', persisted + 1, Len(facts')) \in Seq(RuntimeFact)
  BY <1>1, <1>2
<1>4. CASE ok
  <2>1. durable' = durable \o SubSeq(facts', persisted + 1, Len(facts')) /\ persisted' = Len(facts')
        /\ stage' = next
    BY <1>4 DEF Persist
  <2>2. SubSeq(facts', persisted + 1, Len(facts')) \in Seq(RuntimeFact \cup DirectFact)
    BY <1>3
  <2>3. durable' \in Seq(RuntimeFact \cup DirectFact)
    BY <2>1, <2>2 DEF JournalType
  <2> QED
    BY <1>1, <1>2, <2>1, <2>3 DEF JournalType
<1>5. CASE ~ok
  <2>1. durable' = durable /\ persisted' = persisted /\ stage' = "failed"
    BY <1>5 DEF Persist
  <2> QED
    BY <1>1, <1>2, <2>1 DEF JournalType, Stages
<1> QED
  BY <1>4, <1>5

LEMMA WriteType ==
    ASSUME JournalType, NEW fact \in DirectFact, NEW ok \in BOOLEAN, NEW next \in Stages,
           Write(fact, ok, next)
    PROVE  JournalType'
<1>1. facts' = facts /\ persisted' = persisted
  BY DEF Write
<1>2. CASE ok
  BY <1>1, <1>2 DEF JournalType, Write
<1>3. CASE ~ok
  BY <1>1, <1>3 DEF JournalType, Write, Stages
<1> QED
  BY <1>2, <1>3

\* A charge keeps the totals numbers.
LEMMA ReserveQueryType ==
    ASSUME RunTypeOK, ReserveQuery
    PROVE  RunTypeOK' /\ Spent \in Nat /\ Spent' = Spent + 1
<1>1. totals \in [Resources -> Nat]
  BY DEF RunTypeOK
<1>2. \A r \in Resources : Query[r] \in Nat
  BY DEF Query
<1>3. totals' \in [Resources -> Nat]
  BY <1>1, <1>2 DEF ReserveQuery, Charge
<1>4. "evidence_queries" \in Resources
  BY DEF Resources
<1>5. totals'["evidence_queries"] = totals["evidence_queries"] + 1
  BY <1>1, <1>4 DEF ReserveQuery, Charge, Query
<1> QED
  BY <1>1, <1>3, <1>4, <1>5 DEF ReserveQuery, RunTypeOK, Spent

\* A call is at hand where one is executed, and it was charged where it is sent.
CallInv ==
    /\ stage \in {"tools", "asking", "awaiting"} => calls # <<>>
    /\ stage \in {"asking", "awaiting"} => Call \in CallIds /\ Spent > 0

LEMMA FailType ==
    ASSUME TypeOK, NEW ok \in BOOLEAN, FailProvider(ok)
    PROVE  TypeOK'
<1>1. RunTypeOK /\ JournalType /\ BoardType /\ LoopType /\ SentType
  BY TypeParts
<1>2. active \in Providers
  BY <1>1 DEF FailProvider, Fail, RunTypeOK
<1> DEFINE a == [provider |-> active, succeeded |-> FALSE]
<1>3. a \in Attempt
  BY <1>2 DEF Attempt
<1>4. attempts' = Append(attempts, a) /\ attempts \in Seq(Attempt)
  BY <1>1 DEF FailProvider, Fail, RunTypeOK
<1>5. Last(attempts') = a
  BY <1>3, <1>4 DEF Last
<1>6. RunTypeOK'
  BY <1>1, <1>3, <1>4 DEF FailProvider, Fail, RunTypeOK
<1>7. <<ProviderAttempt(Last(attempts')), PhaseFinished("Reasoning")>> \in Seq(RuntimeFact)
  BY <1>3, <1>5, RuntimeFactForms
<1>8. JournalType'
  <2>1. "admitting" \in Stages
    BY DEF Stages
  <2> QED
    BY <1>1, <1>7, <2>1, PersistType DEF FailProvider
<1>9. BoardType' /\ LoopType' /\ SentType'
  BY <1>1 DEF FailProvider, BoardType, LoopType, SentType, loopVars, sentVars
<1> QED
  BY <1>6, <1>8, <1>9, TypePartsPrimed

LEMMA FinalType ==
    ASSUME TypeOK, NEW ok \in BOOLEAN, NEW cites, Final(cites, ok)
    PROVE  TypeOK'
<1>1. CASE FailProvider(ok)
  BY <1>1, FailType
<1>2. CASE Validates(cites) /\ SucceedProvider(cites, ok)
  <2>1. RunTypeOK /\ JournalType /\ BoardType /\ LoopType /\ SentType
    BY TypeParts
  <2>2. active \in Providers
    BY <1>2, <2>1 DEF SucceedProvider, Succeed, RunTypeOK
  <2> DEFINE a == [provider |-> active, succeeded |-> TRUE]
  <2>3. a \in Attempt
    BY <2>2 DEF Attempt
  <2>4. attempts' = Append(attempts, a) /\ attempts \in Seq(Attempt)
    BY <1>2, <2>1 DEF SucceedProvider, Succeed, RunTypeOK
  <2>5. Last(attempts') = a
    BY <2>3, <2>4 DEF Last
  <2>6. RunTypeOK'
    BY <1>2, <2>1, <2>2, <2>3, <2>4 DEF SucceedProvider, Succeed, RunTypeOK
  <2>7. <<ProviderAttempt(Last(attempts')), PhaseFinished("Reasoning"), Terminal(active)>>
            \in Seq(RuntimeFact)
    BY <2>2, <2>3, <2>5, RuntimeFactForms
  <2>8. JournalType'
    <3>1. "done" \in Stages
      BY DEF Stages
    <3> QED
      BY <1>2, <2>1, <2>7, <3>1, PersistType DEF SucceedProvider
  <2>9. report' \in 0 .. Len(evidence)
    BY <1>2, <2>1 DEF SucceedProvider, Validates, BoardType
  <2>10. BoardType' /\ LoopType' /\ SentType'
    BY <1>2, <2>1, <2>9 DEF SucceedProvider, BoardType, LoopType, SentType, loopVars, sentVars
  <2> QED
    BY <2>6, <2>8, <2>10, TypePartsPrimed
<1> QED
  BY <1>1, <1>2 DEF Final

\* What recording a result does to the types of what it writes.
LEMMA RecordType ==
    ASSUME TypeOK, calls # <<>>, active \in Providers,
           NEW envelope \in Seq(Queries), envelope = <<>> \/ Len(envelope) = 1,
           NEW class \in Outcomes, NEW before \in Nat, NEW ok \in BOOLEAN,
           RecordResult(envelope, class, before, ok)
    PROVE  /\ RunTypeOK' /\ JournalType' /\ calls' \in Seq(Calls) /\ results' \in Seq(Result)
           /\ evidence' \in Seq(Queries) /\ report' \in 0 .. Len(evidence') /\ late' \in BOOLEAN
           /\ SentType'
<1>1. RunTypeOK /\ JournalType /\ BoardType /\ LoopType /\ SentType
  BY TypeParts
<1>2. Call \in Calls /\ Tail(calls) \in Seq(Calls)
  BY <1>1 DEF LoopType, Call
<1> DEFINE n == IF envelope = <<>> THEN 0 ELSE Len(evidence) + 1
           result == [call |-> Call, class |-> class, evidence |-> n]
<1>3. Len(evidence) \in Nat /\ Len(evidence') \in Nat /\ n \in Nat
  BY <1>1 DEF BoardType, RecordResult
<1>4. result \in Result
  BY <1>2, <1>3 DEF Result
<1>5. evidence' \in Seq(Queries) /\ Len(evidence) <= Len(evidence')
  BY <1>1 DEF RecordResult, BoardType
<1> DEFINE commits == [i \in 1 .. Len(envelope) |-> EvidenceCommitted(Len(evidence'))]
           context == ToolContext(active, result, before, Spent)
<1>6. commits \in Seq(RuntimeFact)
  <2>1. EvidenceCommitted(Len(evidence')) \in RuntimeFact
    BY <1>3, RuntimeFactForms
  <2>2. commits \in [1 .. Len(envelope) -> RuntimeFact]
    BY <2>1
  <2>3. Len(envelope) \in Nat
    OBVIOUS
  <2> HIDE DEF commits
  <2> QED
    BY <2>2, <2>3, FunctionIsSeq
<1>7. Spent \in Nat
  BY <1>1 DEF RunTypeOK, Spent, Resources
<1>8. context \in RuntimeFact
  BY <1>4, <1>7, RuntimeFactForms
<1>9. /\ evidence' = evidence \o envelope
      /\ results' = Append(results, result)
      /\ Persist(commits \o <<context>>, ok, "weighing")
      /\ calls' = Tail(calls)
      /\ UNCHANGED <<runVars, late, report, sentVars>>
  BY DEF RecordResult
<1> HIDE DEF commits, context, result
<1>10. commits \o <<context>> \in Seq(RuntimeFact)
  BY <1>6, <1>8
<1>11. JournalType'
  <2>1. "weighing" \in Stages
    BY DEF Stages
  <2> QED
    BY <1>1, <1>9, <1>10, <2>1, PersistType
<1>12. results' \in Seq(Result)
  BY <1>1, <1>4, <1>9 DEF LoopType
<1>13. report' \in 0 .. Len(evidence') /\ late' \in BOOLEAN
  BY <1>1, <1>3, <1>5, <1>9 DEF BoardType
<1>14. RunTypeOK'
  BY <1>1, <1>9 DEF RunTypeOK, runVars
<1>15. SentType'
  BY <1>1, <1>9 DEF SentType, sentVars
<1> QED
  BY <1>2, <1>5, <1>9, <1>11, <1>12, <1>13, <1>14, <1>15

LEMMA TypeInit == Init => TypeOK /\ CallInv
<1> SUFFICES ASSUME Init PROVE TypeOK /\ CallInv
  OBVIOUS
<1>1. RunTypeOK
  BY DEF Init, RunInit, RunTypeOK
<1>2. JournalType /\ BoardType
  <2>1. late \in BOOLEAN
    BY DEF Init
  <2>2. facts = <<>> /\ durable = <<>> /\ persisted = 0 /\ stage = "new" /\ Len(<<>>) = 0
    BY DEF Init
  <2>3. JournalType
    BY <2>2 DEF JournalType, Stages
  <2>4. evidence = <<>> /\ board = <<>> /\ report = 0
    BY DEF Init
  <2>5. BoardType
    BY <2>1, <2>2, <2>4 DEF BoardType
  <2> QED
    BY <2>3, <2>5
<1>3. LoopType /\ SentType
  BY ToolsAssumption DEF Init, LoopType, SentType
<1>4. CallInv
  BY DEF Init, CallInv
<1> QED
  BY <1>1, <1>2, <1>3, <1>4, TypeParts

\* The steps that collect the baseline.
LEMMA CollectType ==
    ASSUME TypeOK, Collect
    PROVE  TypeOK'
<1>1. RunTypeOK /\ JournalType /\ BoardType /\ LoopType /\ SentType
  BY TypeParts
<1>2. {"logs", "metrics", "collected", "admitting", "failed"} \subseteq Stages
  BY DEF Stages
<1>3. ASSUME NEW ok \in BOOLEAN, Begin(ok) PROVE TypeOK'
  <2>1. JournalType'
    BY <1>1, <1>2, <1>3, WriteType, DirectFactForms DEF Begin
  <2>2. RunTypeOK'
    BY <1>1, <1>3 DEF Begin, RunTypeOK, runVars
  <2>3. BoardType' /\ LoopType' /\ SentType'
    BY <1>1, <1>3 DEF Begin, BoardType, LoopType, SentType, loopVars, sentVars
  <2> QED
    BY <2>1, <2>2, <2>3, TypePartsPrimed
<1>4. ASSUME NEW ok \in BOOLEAN, CloseCollection(ok) PROVE TypeOK'
  <2>1. JournalType'
    BY <1>1, <1>2, <1>4, WriteType, DirectFactForms DEF CloseCollection
  <2>2. RunTypeOK'
    BY <1>1, <1>4 DEF CloseCollection, RunTypeOK, runVars
  <2>3. BoardType' /\ LoopType' /\ SentType'
    BY <1>1, <1>4 DEF CloseCollection, BoardType, LoopType, SentType, loopVars, sentVars
  <2> QED
    BY <2>1, <2>2, <2>3, TypePartsPrimed
<1>5. ASSUME NEW ok \in BOOLEAN, BaselineQuery(ok) PROVE TypeOK'
  <2>1. stage \in Queries
    BY <1>5 DEF BaselineQuery, Queries
  <2>2. evidence' \in Seq(Queries) /\ Len(evidence') = Len(evidence) + 1 /\ Len(evidence) \in Nat
    BY <1>1, <1>5, <2>1 DEF BaselineQuery, BoardType
  <2>3. <<EvidenceCommitted(Len(evidence'))>> \in Seq(RuntimeFact)
    BY <2>2, RuntimeFactForms
  <2>4. JournalType'
    <3>1. (IF stage = "logs" THEN "metrics" ELSE "collected") \in Stages
      BY <1>2
    <3> QED
      BY <1>1, <1>5, <2>3, <3>1, PersistType DEF BaselineQuery
  <2>5. RunTypeOK'
    BY <1>1, <1>5, ReserveQueryType DEF BaselineQuery
  <2>6. BoardType'
    BY <1>1, <1>5, <2>2 DEF BaselineQuery, BoardType
  <2>7. LoopType' /\ SentType'
    BY <1>1, <1>5, <2>1 DEF BaselineQuery, LoopType, SentType, loopVars
  <2> QED
    BY <2>4, <2>5, <2>6, <2>7, TypePartsPrimed
<1>6. ASSUME BaselineFails PROVE TypeOK'
  <2>1. stage \in Queries
    BY <1>6 DEF BaselineFails, Queries
  <2>2. asked' \in Seq(Queries)
    BY <1>1, <1>6, <2>1 DEF BaselineFails, SentType
  <2>3. RunTypeOK'
    <3>1. CASE UNCHANGED runVars
      BY <1>1, <3>1 DEF RunTypeOK, runVars
    <3>2. CASE ReserveQuery
      BY <1>1, <3>2, ReserveQueryType
    <3> QED
      BY <1>6, <3>1, <3>2 DEF BaselineFails, runVars
  <2>4. JournalType' /\ BoardType' /\ LoopType' /\ SentType'
    BY <1>1, <1>2, <1>6, <2>2
       DEF BaselineFails, JournalType, BoardType, LoopType, SentType, journalVars, loopVars
  <2> QED
    BY <2>3, <2>4, TypePartsPrimed
<1> QED
  BY <1>3, <1>4, <1>5, <1>6 DEF Collect

\* The steps of the providers.
LEMMA ReasonType ==
    ASSUME TypeOK, Reason
    PROVE  TypeOK'
<1>1. RunTypeOK /\ JournalType /\ BoardType /\ LoopType /\ SentType
  BY TypeParts
<1>2. {"turn", "replying", "tools", "done", "refused", "failed"} \subseteq Stages
  BY DEF Stages
<1>3. ASSUME AdmitProvider PROVE TypeOK'
  <2>1. PICK p \in Providers : Engage(p)
    <3>1. NextProvider # None /\ Engage(NextProvider)
      BY <1>3, OrderAssumption DEF AdmitProvider, AdmitDeterministic, Admit
    <3>2. PICK n \in Remaining : NextProvider = Order[n]
      BY <3>1, NextProviderIsFirst
    <3>3. NextProvider \in Providers
      BY <3>2, OrderAssumption DEF Remaining
    <3> QED
      BY <3>1, <3>3
  <2>2. totals' \in [Resources -> Nat]
    <3>1. CASE Admit
      <4>1. totals \in [Resources -> Nat] /\ Reservation \in [Resources -> Nat]
        BY <1>1, BudgetAssumption DEF RunTypeOK
      <4> QED
        BY <3>1, <4>1 DEF Admit, Charge
    <3>2. CASE AdmitDeterministic
      BY <1>1, <3>2 DEF AdmitDeterministic, RunTypeOK
    <3> QED
      BY <1>3, <3>1, <3>2 DEF AdmitProvider
  <2>3. RunTypeOK'
    BY <1>1, <2>1, <2>2 DEF Engage, RunTypeOK
  <2>4. JournalType'
    BY <1>1, <1>2, <1>3, RuntimeFactForms DEF AdmitProvider, JournalType
  <2>5. LoopType'
    BY <1>1, <1>3, ToolsAssumption DEF AdmitProvider, LoopType
  <2>6. BoardType' /\ SentType'
    BY <1>1, <1>3 DEF AdmitProvider, BoardType, SentType, sentVars
  <2> QED
    BY <2>3, <2>4, <2>5, <2>6, TypePartsPrimed
<1>4. ASSUME RefuseProvider PROVE TypeOK'
  <2>1. JournalType'
    BY <1>1, <1>2, <1>4, RuntimeFactForms DEF RefuseProvider, JournalType
  <2>2. RunTypeOK'
    BY <1>1, <1>4 DEF RefuseProvider, AdmitRefused, RunTypeOK, runVars
  <2>3. BoardType' /\ LoopType' /\ SentType'
    BY <1>1, <1>4 DEF RefuseProvider, BoardType, LoopType, SentType, loopVars, sentVars
  <2> QED
    BY <2>1, <2>2, <2>3, TypePartsPrimed
<1>5. ASSUME SendTurn PROVE TypeOK'
  <2>1. modelTurns' \in 0 .. MaxModelTurns
    BY <1>1, <1>5, ToolsAssumption DEF SendTurn, SentType
  <2>2. RunTypeOK'
    BY <1>1, <1>5 DEF SendTurn, RunTypeOK, runVars
  <2>3. JournalType' /\ BoardType' /\ LoopType' /\ SentType'
    BY <1>1, <1>2, <1>5, <2>1
       DEF SendTurn, JournalType, BoardType, LoopType, SentType, journalVars, loopVars
  <2> QED
    BY <2>2, <2>3, TypePartsPrimed
<1>6. ASSUME NEW ok \in BOOLEAN, NobodyLeft(ok) PROVE TypeOK'
  <2>1. <<PhaseStarted("Reasoning")>> \in Seq(RuntimeFact)
    BY RuntimeFactForms
  <2>2. JournalType'
    BY <1>1, <1>2, <1>6, <2>1, PersistType DEF NobodyLeft
  <2>3. RunTypeOK'
    BY <1>1, <1>6 DEF NobodyLeft, AdmitNobody, RunTypeOK
  <2>4. BoardType' /\ LoopType' /\ SentType'
    BY <1>1, <1>6 DEF NobodyLeft, BoardType, LoopType, SentType, loopVars, sentVars
  <2> QED
    BY <2>2, <2>3, <2>4, TypePartsPrimed
<1>7. ASSUME NEW ok \in BOOLEAN, DeterministicTurn(ok) PROVE TypeOK'
  BY <1>7, FinalType DEF DeterministicTurn
<1>8. ASSUME NEW ok \in BOOLEAN, TurnUnavailable(ok) \/ ReplyFails(ok) PROVE TypeOK'
  BY <1>8, FailType DEF TurnUnavailable, ReplyFails
<1>9. ASSUME NEW ok \in BOOLEAN, NEW cites, ReplyFinal(cites, ok) PROVE TypeOK'
  BY <1>9, FinalType DEF ReplyFinal
<1>10. ASSUME NEW response \in Responses, ReplyCalls(response) PROVE TypeOK'
  <2>1. PICK n \in 1 .. MaxCalls : response \in [1 .. n -> Calls]
    BY DEF Responses
  <2>2. n \in Nat
    BY ToolsAssumption
  <2>3. response \in Seq(Calls)
    BY <2>1, <2>2, FunctionIsSeq
  <2>4. RunTypeOK'
    BY <1>1, <1>10 DEF ReplyCalls, RunTypeOK, runVars
  <2>5. JournalType' /\ BoardType' /\ LoopType' /\ SentType'
    BY <1>1, <1>2, <1>10, <2>3
       DEF ReplyCalls, JournalType, BoardType, LoopType, SentType, journalVars, loopVars, sentVars
  <2> QED
    BY <2>4, <2>5, TypePartsPrimed
<1> QED
  BY <1>3, <1>4, <1>5, <1>6, <1>7, <1>8, <1>9, <1>10 DEF Reason

\* The steps of the tool calls.
LEMMA UseToolsType ==
    ASSUME TypeOK, CallInv, FallbackInv, UseTools
    PROVE  TypeOK'
<1>1. RunTypeOK /\ JournalType /\ BoardType /\ LoopType /\ SentType
  BY TypeParts
<1>2. {"turn", "tools", "asking", "awaiting", "weighing", "failed"} \subseteq Stages
  BY DEF Stages
<1>3. /\ Spent \in Nat
      /\ stage \in {"asking", "awaiting"} => Spent - 1 \in Nat
  <2>1. Spent \in Nat
    BY <1>1 DEF RunTypeOK, Spent, Resources
  <2> QED
    BY <2>1 DEF CallInv
<1>4. stage \in During => active \in Providers
  BY DEF FallbackInv
<1>5. <<>> \in Seq(Queries)
  OBVIOUS
<1>6. ASSUME ToolSend PROVE TypeOK'
  <2>1. Call \in Queries
    BY <1>6 DEF ToolSend, CallInv, Queries
  <2>2. RunTypeOK'
    BY <1>1, <1>6 DEF ToolSend, RunTypeOK, runVars
  <2>3. SentType'
    BY <1>1, <1>6, <2>1 DEF ToolSend, SentType
  <2>4. JournalType' /\ BoardType' /\ LoopType'
    BY <1>1, <1>2, <1>6 DEF ToolSend, JournalType, BoardType, LoopType, journalVars, loopVars
  <2> QED
    BY <2>2, <2>3, <2>4, TypePartsPrimed
<1>7. ASSUME ToolUncopied PROVE TypeOK'
  <2>1. board' \in Seq(CallIds)
    BY <1>1, <1>7 DEF ToolUncopied, CallInv, BoardType
  <2>2. RunTypeOK'
    BY <1>1, <1>7 DEF ToolUncopied, RunTypeOK, runVars
  <2>3. JournalType' /\ BoardType' /\ LoopType' /\ SentType'
    BY <1>1, <1>2, <1>7, <2>1
       DEF ToolUncopied, JournalType, BoardType, LoopType, SentType, journalVars, loopVars, sentVars
  <2> QED
    BY <2>2, <2>3, TypePartsPrimed
<1>8. ASSUME NextCall PROVE TypeOK'
  <2>1. stage' \in Stages
    BY <1>2, <1>8 DEF NextCall
  <2>2. RunTypeOK'
    BY <1>1, <1>8 DEF NextCall, RunTypeOK, runVars
  <2>3. JournalType' /\ BoardType' /\ LoopType' /\ SentType'
    BY <1>1, <1>8, <2>1
       DEF NextCall, JournalType, BoardType, LoopType, SentType, journalVars, loopVars, sentVars
  <2> QED
    BY <2>2, <2>3, TypePartsPrimed
<1>9. ASSUME NEW ok \in BOOLEAN, ToolRefused(ok) PROVE TypeOK'
  <2>1. Refusal \in Outcomes
    BY <1>9 DEF ToolRefused, Refusal, Outcomes
  <2>2. calls # <<>> /\ active \in Providers
    BY <1>4, <1>9 DEF ToolRefused, CallInv, During
  <2>3. RecordResult(<<>>, Refusal, Spent, ok) /\ UNCHANGED <<board, seen, turnsUsed>>
    BY <1>9 DEF ToolRefused
  <2> HIDE DEF Refusal
  <2> QED
    BY <1>1, <1>3, <1>5, <2>1, <2>2, <2>3, RecordType, TypePartsPrimed
       DEF BoardType, LoopType
<1>10. ASSUME NEW ok \in BOOLEAN, ToolUnfunded(ok) PROVE TypeOK'
  <2>1. "Exhausted" \in Outcomes
    BY DEF Outcomes
  <2>2. calls # <<>> /\ active \in Providers
    BY <1>4, <1>10 DEF ToolUnfunded, CallInv, During
  <2>3. Call \in CallIds /\ turnsUsed < MaxToolTurns
    BY <1>1, <1>10, <2>2, ToolsAssumption DEF ToolUnfunded, Refusal, Call, Calls, LoopType, None
  <2>4. seen' \subseteq CallIds /\ turnsUsed' \in 0 .. MaxToolTurns
    BY <1>1, <1>10, <2>3, ToolsAssumption DEF ToolUnfunded, LoopType
  <2>5. RecordResult(<<>>, "Exhausted", Spent, ok) /\ UNCHANGED board
    BY <1>10 DEF ToolUnfunded
  <2> QED
    BY <1>1, <1>3, <1>5, <2>1, <2>2, <2>4, <2>5, RecordType, TypePartsPrimed
       DEF BoardType, LoopType
<1>11. ASSUME NEW ok \in BOOLEAN, ToolRequest(ok) PROVE TypeOK'
  <2>1. calls # <<>> /\ active \in Providers
    BY <1>4, <1>11 DEF ToolRequest, CallInv, During
  <2>2. Call \in CallIds /\ turnsUsed < MaxToolTurns
    BY <1>1, <1>11, <2>1, ToolsAssumption DEF ToolRequest, Refusal, Call, Calls, LoopType, None
  <2>3. seen' \subseteq CallIds /\ turnsUsed' \in 0 .. MaxToolTurns
    BY <1>1, <1>11, <2>2, ToolsAssumption DEF ToolRequest, LoopType
  <2>4. ToolRequested(active, Call, Spent) \in DirectFact
    BY <1>3, <2>1, <2>2, DirectFactForms
  <2>5. JournalType'
    BY <1>1, <1>2, <1>11, <2>4, WriteType DEF ToolRequest
  <2>6. RunTypeOK'
    BY <1>1, <1>11, ReserveQueryType DEF ToolRequest
  <2>7. BoardType' /\ LoopType' /\ SentType'
    BY <1>1, <1>11, <2>3 DEF ToolRequest, BoardType, LoopType, SentType, sentVars
  <2> QED
    BY <2>5, <2>6, <2>7, TypePartsPrimed
<1>12. ASSUME NEW ok \in BOOLEAN, ToolTimesOut(ok) PROVE TypeOK'
  <2>1. "Exhausted" \in Outcomes
    BY DEF Outcomes
  <2>2. calls # <<>> /\ active \in Providers /\ Spent - 1 \in Nat
    BY <1>3, <1>4, <1>12 DEF ToolTimesOut, CallInv, During
  <2>3. RecordResult(<<>>, "Exhausted", Spent - 1, ok) /\ UNCHANGED <<board, seen, turnsUsed>>
    BY <1>12 DEF ToolTimesOut
  <2> QED
    BY <1>1, <1>5, <2>1, <2>2, <2>3, RecordType, TypePartsPrimed DEF BoardType, LoopType
<1>13. ASSUME NEW ok \in BOOLEAN, NEW class \in {"Unavailable", "Denied"}, ToolUnanswered(class, ok)
       PROVE  TypeOK'
  <2>1. class \in Outcomes
    BY DEF Outcomes
  <2>2. calls # <<>> /\ active \in Providers /\ Spent - 1 \in Nat
    BY <1>3, <1>4, <1>13 DEF ToolUnanswered, CallInv, During
  <2>3. RecordResult(<<>>, class, Spent - 1, ok) /\ UNCHANGED <<board, seen, turnsUsed>>
    BY <1>13 DEF ToolUnanswered
  <2> QED
    BY <1>1, <1>5, <2>1, <2>2, <2>3, RecordType, TypePartsPrimed DEF BoardType, LoopType
<1>14. ASSUME NEW ok \in BOOLEAN, NEW class \in {"Succeeded", "Unavailable"}, ToolAnswer(class, ok)
       PROVE  TypeOK'
  <2>1. class \in Outcomes
    BY DEF Outcomes
  <2>2. calls # <<>> /\ active \in Providers /\ Spent - 1 \in Nat /\ Call \in CallIds
    BY <1>3, <1>4, <1>14 DEF ToolAnswer, CallInv, During
  <2>3. board' = Append(board, Call) /\ board' \in Seq(CallIds)
    BY <1>1, <1>14, <2>2 DEF ToolAnswer, BoardType
  <2>4. Last(board') = Call
    BY <1>1, <2>2, <2>3 DEF BoardType, Last
  <2>5. <<Last(board')>> \in Seq(Queries) /\ Len(<<Last(board')>>) = 1
    BY <2>2, <2>4 DEF Queries
  <2>6. RecordResult(<<Last(board')>>, class, Spent - 1, ok) /\ UNCHANGED <<seen, turnsUsed>>
    BY <1>14 DEF ToolAnswer
  <2> QED
    BY <1>1, <2>1, <2>2, <2>3, <2>5, <2>6, RecordType, TypePartsPrimed DEF BoardType, LoopType
<1>15. ASSUME NEW ok \in BOOLEAN, Overflow(ok) PROVE TypeOK'
  BY <1>15, FailType DEF Overflow
<1> QED
  BY <1>6, <1>7, <1>8, <1>9, <1>10, <1>11, <1>12, <1>13, <1>14, <1>15 DEF UseTools

LEMMA TypeStep == TypeOK /\ CallInv /\ FallbackInv /\ [Next]_vars => TypeOK'
<1> SUFFICES ASSUME TypeOK, CallInv, FallbackInv, [Next]_vars PROVE TypeOK'
  OBVIOUS
<1>1. RunTypeOK /\ JournalType /\ BoardType /\ LoopType /\ SentType
  BY TypeParts
<1>2. CASE Expire
  <2>1. late' \in BOOLEAN
    BY <1>2 DEF Expire
  <2>2. RunTypeOK'
    BY <1>1, <1>2 DEF Expire, RunTypeOK, runVars
  <2>3. JournalType' /\ BoardType' /\ LoopType' /\ SentType'
    BY <1>1, <1>2, <2>1
       DEF Expire, JournalType, BoardType, LoopType, SentType, journalVars, loopVars, sentVars
  <2> QED
    BY <2>2, <2>3, TypePartsPrimed
<1>3. CASE Crash
  <2>1. stage' \in Stages
    BY <1>3 DEF Crash, Stages
  <2>2. RunTypeOK'
    BY <1>1, <1>3 DEF Crash, RunTypeOK, runVars
  <2>3. JournalType' /\ BoardType' /\ LoopType' /\ SentType'
    BY <1>1, <1>3, <2>1
       DEF Crash, JournalType, BoardType, LoopType, SentType, journalVars, loopVars, sentVars
  <2> QED
    BY <2>2, <2>3, TypePartsPrimed
<1>4. CASE UNCHANGED vars
  <2>1. RunTypeOK'
    BY <1>1, <1>4 DEF vars, RunTypeOK, runVars
  <2>2. JournalType' /\ BoardType' /\ LoopType' /\ SentType'
    BY <1>1, <1>4
       DEF vars, JournalType, BoardType, LoopType, SentType, journalVars, loopVars, sentVars
  <2> QED
    BY <2>1, <2>2, TypePartsPrimed
<1> QED
  BY <1>2, <1>3, <1>4, CollectType, ReasonType, UseToolsType DEF Next

-----------------------------------------------------------------------------
(* What a step does to the queries *)

Growing == {"new", "logs", "metrics", "asking"}

\* A step that neither sends nor charges.
Idle ==
    /\ stage \notin Ended
    /\ UNCHANGED <<asked, totals>>
    /\ \/ stage' \notin Growing \cup {"tools", "awaiting"}
       \/ stage' = stage /\ UNCHANGED calls
       \/ stage' = "tools" /\ calls' # <<>>
       \/ stage = "new" /\ stage' = "logs"

\* An admitted model's reservation.
Books ==
    /\ stage = "admitting" /\ stage' = "turn"
    /\ UNCHANGED asked
    /\ Fits(Reservation) /\ Charge(Reservation)

\* A query of the baseline, charged unless the investigation ends with it.
Collects ==
    /\ stage \in {"logs", "metrics"}
    /\ stage' \in {"failed", IF stage = "logs" THEN "metrics" ELSE "collected"}
    /\ asked' = Append(asked, stage)
    /\ Fits(Query)
    /\ ReserveQuery \/ (stage' = "failed" /\ UNCHANGED totals)

\* A tool's query is charged and checkpointed, and then sent.
Requests == \E ok \in BOOLEAN : ToolRequest(ok)

LEMMA FailIsIdle ==
    ASSUME NEW ok \in BOOLEAN, stage \notin Ended, FailProvider(ok)
    PROVE  Idle
<1>1. stage' \in {"admitting", "failed"}
  BY DEF FailProvider, Persist
<1> QED
  BY <1>1 DEF FailProvider, Fail, Idle, sentVars, Growing

LEMMA FinalIsIdle ==
    ASSUME NEW ok \in BOOLEAN, NEW cites, stage \notin Ended, Final(cites, ok)
    PROVE  Idle
<1>1. CASE FailProvider(ok)
  BY <1>1, FailIsIdle
<1>2. CASE SucceedProvider(cites, ok)
  <2>1. stage' \in {"done", "failed"}
    BY <1>2 DEF SucceedProvider, Persist
  <2> QED
    BY <1>2, <2>1 DEF SucceedProvider, Succeed, Idle, sentVars, Growing
<1> QED
  BY <1>1, <1>2 DEF Final

LEMMA QueryKinds ==
    ASSUME TypeOK, Next
    PROVE  Idle \/ Books \/ Collects \/ Requests \/ ToolSend
<1> USE DEF Ended, Growing
<1>1. CASE Collect
  <2>1. ASSUME NEW ok \in BOOLEAN, Begin(ok) PROVE Idle
    BY <2>1 DEF Begin, Write, Idle, runVars, sentVars
  <2>2. ASSUME NEW ok \in BOOLEAN, BaselineQuery(ok) PROVE Collects
    <3>1. stage' \in {"failed", IF stage = "logs" THEN "metrics" ELSE "collected"}
      BY <2>2 DEF BaselineQuery, Persist
    <3>2. ReserveQuery /\ asked' = Append(asked, stage) /\ stage \in {"logs", "metrics"}
      BY <2>2 DEF BaselineQuery
    <3>3. Fits(Query)
      BY <3>2 DEF ReserveQuery
    <3> QED
      BY <3>1, <3>2, <3>3, Zenon DEF Collects
  <2>3. ASSUME NEW ok \in BOOLEAN, CloseCollection(ok) PROVE Idle
    BY <2>3 DEF CloseCollection, Write, Idle, runVars, sentVars
  <2>4. ASSUME BaselineFails PROVE Idle \/ Collects
    <3>1. CASE UNCHANGED <<runVars, asked>>
      BY <2>4, <3>1 DEF BaselineFails, Idle, runVars
    <3>2. CASE /\ Fits(Query) /\ asked' = Append(asked, stage)
               /\ UNCHANGED runVars \/ ReserveQuery
      <4>1. stage' = "failed" /\ stage \in {"logs", "metrics"}
        BY <2>4 DEF BaselineFails
      <4>2. UNCHANGED totals \/ ReserveQuery
        BY <3>2 DEF runVars
      <4> QED
        BY <3>2, <4>1, <4>2, Zenon DEF Collects
    <3> QED
      BY <2>4, <3>1, <3>2, Zenon DEF BaselineFails
  <2> QED
    BY <1>1, <2>1, <2>2, <2>3, <2>4 DEF Collect
<1>2. CASE Reason
  <2>1. ASSUME AdmitProvider PROVE Idle \/ Books
    <3>1. CASE Admit
      BY <2>1, <3>1 DEF AdmitProvider, Admit, Books, sentVars
    <3>2. CASE AdmitDeterministic
      BY <2>1, <3>2 DEF AdmitProvider, AdmitDeterministic, Idle, sentVars
    <3> QED
      BY <2>1, <3>1, <3>2 DEF AdmitProvider
  <2>2. ASSUME RefuseProvider PROVE Idle
    BY <2>2 DEF RefuseProvider, AdmitRefused, Idle, runVars, sentVars
  <2>3. ASSUME SendTurn PROVE Idle
    BY <2>3 DEF SendTurn, Idle, runVars
  <2>4. ASSUME NEW ok \in BOOLEAN, NobodyLeft(ok) PROVE Idle
    <3>1. stage' \in {"done", "failed"}
      BY <2>4 DEF NobodyLeft, Persist
    <3> QED
      BY <2>4, <3>1 DEF NobodyLeft, AdmitNobody, Idle, sentVars
  <2>5. ASSUME NEW ok \in BOOLEAN, DeterministicTurn(ok) PROVE Idle
    BY <2>5, FinalIsIdle DEF DeterministicTurn
  <2>6. ASSUME NEW ok \in BOOLEAN, TurnUnavailable(ok) \/ ReplyFails(ok) PROVE Idle
    BY <2>6, FailIsIdle DEF TurnUnavailable, ReplyFails
  <2>7. ASSUME NEW ok \in BOOLEAN, NEW cites, ReplyFinal(cites, ok) PROVE Idle
    BY <2>7, FinalIsIdle DEF ReplyFinal
  <2>8. ASSUME NEW response \in Responses, ReplyCalls(response) PROVE Idle
    <3>1. response # <<>>
      BY <2>8 DEF ReplyCalls
    <3> QED
      BY <2>8, <3>1 DEF ReplyCalls, Idle, runVars, sentVars
  <2> QED
    BY <1>2, <2>1, <2>2, <2>3, <2>4, <2>5, <2>6, <2>7, <2>8 DEF Reason
<1>3. CASE UseTools
  <2>1. ASSUME ToolUncopied \/ NextCall PROVE Idle
    BY <2>1 DEF ToolUncopied, NextCall, Idle, runVars, sentVars
  <2>2. ASSUME NEW ok \in BOOLEAN, NEW envelope, NEW class, NEW before,
               stage \notin Ended, RecordResult(envelope, class, before, ok)
        PROVE  Idle
    <3>1. stage' \in {"weighing", "failed"}
      BY <2>2 DEF RecordResult, Persist
    <3> QED
      BY <2>2, <3>1 DEF RecordResult, Idle, runVars, sentVars
  <2>3. ASSUME NEW ok \in BOOLEAN, ToolRefused(ok) \/ ToolUnfunded(ok) \/ ToolTimesOut(ok)
        PROVE  Idle
    BY <2>2, <2>3 DEF ToolRefused, ToolUnfunded, ToolTimesOut
  <2>4. ASSUME NEW ok \in BOOLEAN, NEW class, ToolUnanswered(class, ok) \/ ToolAnswer(class, ok)
        PROVE  Idle
    BY <2>2, <2>4 DEF ToolUnanswered, ToolAnswer
  <2>5. ASSUME NEW ok \in BOOLEAN, Overflow(ok) PROVE Idle
    BY <2>5, FailIsIdle DEF Overflow
  <2> QED
    BY <1>3, <2>1, <2>3, <2>4, <2>5 DEF UseTools, Requests
<1>4. CASE Expire
  BY <1>4 DEF Expire, Idle, runVars, sentVars
<1>5. CASE Crash
  BY <1>5 DEF Crash, Idle, runVars, sentVars
<1> QED
  BY <1>1, <1>2, <1>3, <1>4, <1>5 DEF Next

LEMMA CallStep == TypeOK /\ CallInv /\ [Next]_vars => CallInv'
<1> SUFFICES ASSUME TypeOK, CallInv, [Next]_vars PROVE CallInv'
  OBVIOUS
<1> USE DEF Growing
<1>1. RunTypeOK /\ LoopType
  BY TypeParts
<1>2. CASE Idle
  BY <1>2 DEF Idle, CallInv, Call, Spent
<1>3. CASE Books
  BY <1>3 DEF Books, CallInv
<1>4. CASE Collects
  BY <1>4 DEF Collects, CallInv
<1>5. CASE Requests
  <2>1. PICK ok \in BOOLEAN : ToolRequest(ok)
    BY <1>5 DEF Requests
  <2>2. stage' \in {"asking", "failed"} /\ calls' = calls
    BY <2>1 DEF ToolRequest, Write
  <2>3. calls # <<>>
    BY <2>1 DEF ToolRequest, CallInv
  <2>4. Call \in CallIds
    BY <1>1, <2>1, <2>3 DEF ToolRequest, Refusal, Call, Calls, LoopType, None
  <2>5. Spent' > 0
    BY <1>1, <2>1, ReserveQueryType DEF ToolRequest
  <2> QED
    BY <2>2, <2>3, <2>4, <2>5 DEF CallInv, Call
<1>6. CASE ToolSend
  BY <1>6 DEF ToolSend, CallInv, Call, Spent, runVars
<1>7. CASE UNCHANGED vars
  BY <1>7 DEF vars, CallInv, Call, Spent, runVars
<1> QED
  BY <1>2, <1>3, <1>4, <1>5, <1>6, <1>7, QueryKinds

-----------------------------------------------------------------------------
(* The limit on queries *)

\* Every query sent was charged, one that waits to be sent too, and no charge
\* passes the limit.  A failed investigation may owe the charge of its last query.
ChargeInv ==
    /\ Spent <= Limits["evidence_queries"]
    /\ Len(asked) <= Limits["evidence_queries"]
    /\ stage # "failed" => Len(asked) <= Spent
    /\ stage = "asking" => Len(asked) < Spent

LEMMA ChargeStep == TypeOK /\ TypeOK' /\ ChargeInv /\ [Next]_vars => ChargeInv'
<1> SUFFICES ASSUME TypeOK, TypeOK', ChargeInv, [Next]_vars PROVE ChargeInv'
  OBVIOUS
<1> USE DEF Growing, Ended
<1> DEFINE limit == Limits["evidence_queries"]
<1>1. RunTypeOK /\ SentType
  BY TypeParts
<1>2. "evidence_queries" \in Resources /\ limit \in Nat /\ limit # Unlimited
  BY BudgetAssumption DEF Resources, Unlimited
<1>3. Spent \in Nat /\ Len(asked) \in Nat
  BY <1>1, <1>2 DEF RunTypeOK, SentType, Spent
<1>4. ASSUME Fits(Query) PROVE Spent + 1 <= limit
  BY <1>2, <1>4 DEF Fits, Query, Spent
<1>5. CASE Idle
  BY <1>5 DEF Idle, ChargeInv, Spent
<1>6. CASE Books
  <2>1. Reservation["evidence_queries"] \in Nat
    BY <1>2, BudgetAssumption
  <2>2. Spent + Reservation["evidence_queries"] <= limit
    BY <1>2, <1>6 DEF Books, Fits, Spent
  <2>3. Spent' = Spent + Reservation["evidence_queries"]
    BY <1>2, <1>6 DEF Books, Charge, Spent
  <2> QED
    BY <1>2, <1>3, <1>6, <2>1, <2>2, <2>3 DEF Books, ChargeInv
<1>7. CASE Collects
  <2>1. Len(asked') = Len(asked) + 1
    BY <1>1, <1>7 DEF Collects, SentType
  <2>2. Spent + 1 <= limit /\ Len(asked) <= Spent
    BY <1>4, <1>7 DEF Collects, ChargeInv
  <2>3. Spent' = Spent + 1 \/ (stage' = "failed" /\ Spent' = Spent)
    BY <1>1, <1>7, ReserveQueryType DEF Collects, Spent
  <2>4. stage' # "asking"
    BY <1>7 DEF Collects
  <2> QED
    BY <1>2, <1>3, <2>1, <2>2, <2>3, <2>4 DEF ChargeInv
<1>8. CASE Requests
  <2>1. PICK ok \in BOOLEAN : ToolRequest(ok)
    BY <1>8 DEF Requests
  <2>2. Spent' = Spent + 1 /\ Spent + 1 <= limit
    BY <1>1, <1>4, <2>1, ReserveQueryType DEF ToolRequest, ReserveQuery
  <2>3. asked' = asked /\ stage = "tools"
    BY <2>1 DEF ToolRequest, sentVars
  <2> QED
    BY <1>2, <1>3, <2>2, <2>3 DEF ChargeInv
<1>9. CASE ToolSend
  <2>1. Len(asked') = Len(asked) + 1 /\ Spent' = Spent /\ stage = "asking" /\ stage' = "awaiting"
    BY <1>1, <1>9 DEF ToolSend, SentType, Spent, runVars
  <2> QED
    BY <1>2, <1>3, <2>1 DEF ChargeInv
<1>10. CASE UNCHANGED vars
  BY <1>10 DEF vars, runVars, sentVars, ChargeInv, Spent
<1> QED
  BY <1>5, <1>6, <1>7, <1>8, <1>9, <1>10, QueryKinds

LEMMA ChargeInit == Init => ChargeInv
<1> SUFFICES ASSUME Init PROVE ChargeInv
  OBVIOUS
<1>1. Limits["evidence_queries"] \in Nat
  BY BudgetAssumption
<1>2. Spent = 0 /\ Len(asked) = 0 /\ stage = "new"
  BY DEF Init, RunInit, Spent, Resources
<1> QED
  BY <1>1, <1>2 DEF ChargeInv

\* Types, the provider under way and the call at hand hold each other up.
Sound == TypeOK /\ CallInv /\ FallbackInv

LEMMA SoundAlways == Spec => []Sound
<1>1. Init => Sound
  BY TypeInit, FallbackInit DEF Sound
<1>2. Sound /\ [Next]_vars => Sound'
  BY TypeStep, CallStep, FallbackStep DEF Sound
<1> QED
  BY <1>1, <1>2, PTL DEF Spec

\* The state of an investigation keeps its shape, the numbers of the board and
\* the cursor of the journal included (IncidentRuntime, persist_runtime_events).
THEOREM TypeCorrect == Spec => []TypeOK
<1>1. Sound => TypeOK
  BY DEF Sound
<1> QED
  BY <1>1, SoundAlways, PTL

\* Whatever the limits and however baseline and tools interleave with failures,
\* no more queries leave the process than evidence_queries allows (reserve,
\* called before a tool's query but after one of the baseline).
THEOREM QueriesBounded == Spec => []QueriesWithinLimit
<1>1. Sound => TypeOK
  BY DEF Sound
<1>2. ChargeInv => QueriesWithinLimit
  BY DEF ChargeInv, QueriesWithinLimit
<1> QED
  BY <1>1, <1>2, SoundAlways, ChargeInit, ChargeStep, PTL DEF Spec

-----------------------------------------------------------------------------
(* What a step does to the store, the board and the results *)

\* The store is left alone or appended to.
Logs ==
    \/ UNCHANGED durable
    \/ \E fact \in DirectFact : durable' = Append(durable, fact)
    \/ durable' = durable \o SubSeq(facts', persisted + 1, Len(facts'))

\* The results are kept, dropped or one longer.
Notes ==
    \/ results' \in {results, <<>>} /\ evidence' \in {evidence, Append(evidence, stage)}
    \/ \E envelope \in {<<>>, <<Call>>}, class \in Outcomes, before \in Nat, ok \in BOOLEAN :
        RecordResult(envelope, class, before, ok)

LEMMA PersistLogs ==
    ASSUME NEW news, NEW ok \in BOOLEAN, NEW next, Persist(news, ok, next)
    PROVE  Logs
  BY DEF Persist, Logs

LEMMA WriteLogs ==
    ASSUME NEW fact \in DirectFact, NEW ok \in BOOLEAN, NEW next, Write(fact, ok, next)
    PROVE  Logs
  BY DEF Write, Logs

LEMMA FailLogs ==
    ASSUME NEW ok \in BOOLEAN, FailProvider(ok)
    PROVE  Logs /\ Notes
  BY PersistLogs DEF FailProvider, Notes, loopVars

LEMMA FinalLogs ==
    ASSUME NEW ok \in BOOLEAN, NEW cites, Final(cites, ok)
    PROVE  Logs /\ Notes
  BY FailLogs, PersistLogs DEF Final, SucceedProvider, Notes, loopVars

LEMMA RecordLogs ==
    ASSUME NEW envelope \in {<<>>, <<Call>>}, NEW class \in Outcomes, NEW before \in Nat,
           NEW ok \in BOOLEAN, RecordResult(envelope, class, before, ok)
    PROVE  Logs /\ Notes
<1>1. Logs
  BY PersistLogs DEF RecordResult
<1> QED
  BY <1>1, Zenon DEF Notes

LEMMA StepLogs ==
    ASSUME TypeOK, CallInv, FallbackInv, Next
    PROVE  Logs /\ Notes
<1>1. RunTypeOK /\ LoopType /\ BoardType
  BY TypeParts
<1>2. Spent \in Nat
  BY <1>1 DEF RunTypeOK, Spent, Resources
<1>3. stage \in {"asking", "awaiting"} => Spent - 1 \in Nat
  BY <1>2 DEF CallInv
<1>4. CASE Collect
  <2>1. ASSUME NEW ok \in BOOLEAN, Begin(ok) \/ CloseCollection(ok) PROVE Logs /\ Notes
    BY <2>1, WriteLogs, DirectFactForms DEF Begin, CloseCollection, Notes, loopVars
  <2>2. ASSUME NEW ok \in BOOLEAN, BaselineQuery(ok) PROVE Logs /\ Notes
    BY <2>2, PersistLogs DEF BaselineQuery, Notes, loopVars
  <2>3. ASSUME BaselineFails PROVE Logs /\ Notes
    BY <2>3 DEF BaselineFails, Logs, Notes, journalVars, loopVars
  <2> QED
    BY <1>4, <2>1, <2>2, <2>3 DEF Collect
<1>5. CASE Reason
  <2>1. ASSUME AdmitProvider \/ RefuseProvider PROVE Logs /\ Notes
    BY <2>1 DEF AdmitProvider, RefuseProvider, Logs, Notes, loopVars
  <2>2. ASSUME SendTurn PROVE Logs /\ Notes
    BY <2>2 DEF SendTurn, Logs, Notes, journalVars, loopVars
  <2>3. ASSUME NEW ok \in BOOLEAN, NobodyLeft(ok) PROVE Logs /\ Notes
    BY <2>3, PersistLogs DEF NobodyLeft, Notes, loopVars
  <2>4. ASSUME NEW ok \in BOOLEAN, DeterministicTurn(ok) PROVE Logs /\ Notes
    BY <2>4, FinalLogs DEF DeterministicTurn
  <2>5. ASSUME NEW ok \in BOOLEAN, TurnUnavailable(ok) \/ ReplyFails(ok) PROVE Logs /\ Notes
    BY <2>5, FailLogs DEF TurnUnavailable, ReplyFails
  <2>6. ASSUME NEW ok \in BOOLEAN, NEW cites, ReplyFinal(cites, ok) PROVE Logs /\ Notes
    BY <2>6, FinalLogs DEF ReplyFinal
  <2>7. ASSUME NEW response, ReplyCalls(response) PROVE Logs /\ Notes
    BY <2>7 DEF ReplyCalls, Logs, Notes, journalVars, loopVars
  <2> QED
    BY <1>5, <2>1, <2>2, <2>3, <2>4, <2>5, <2>6, <2>7 DEF Reason
<1>6. CASE UseTools
  <2>1. ASSUME ToolSend \/ ToolUncopied \/ NextCall PROVE Logs /\ Notes
    BY <2>1 DEF ToolSend, ToolUncopied, NextCall, Logs, Notes, journalVars, loopVars
  <2>2. ASSUME NEW ok \in BOOLEAN, ToolRefused(ok) PROVE Logs /\ Notes
    <3>1. Refusal \in Outcomes
      BY <2>2 DEF ToolRefused, Refusal, Outcomes
    <3> QED
      BY <1>2, <2>2, <3>1, RecordLogs DEF ToolRefused
  <2>3. ASSUME NEW ok \in BOOLEAN, ToolUnfunded(ok) \/ ToolTimesOut(ok) PROVE Logs /\ Notes
    <3>1. "Exhausted" \in Outcomes
      BY DEF Outcomes
    <3> QED
      BY <1>2, <1>3, <2>3, <3>1, RecordLogs DEF ToolUnfunded, ToolTimesOut
  <2>4. ASSUME NEW ok \in BOOLEAN, ToolRequest(ok) PROVE Logs /\ Notes
    <3>1. active \in Providers
      BY <1>1, <2>4 DEF ToolRequest, FallbackInv, RunTypeOK, During
    <3>2. Call \in CallIds
      <4>1. calls # <<>>
        BY <2>4 DEF ToolRequest, CallInv
      <4> QED
        BY <1>1, <2>4, <4>1 DEF ToolRequest, Refusal, Call, Calls, LoopType, None
    <3>3. ToolRequested(active, Call, Spent) \in DirectFact
      BY <1>2, <3>1, <3>2, DirectFactForms
    <3> QED
      BY <2>4, <3>3, WriteLogs DEF ToolRequest, Notes
  <2>5. ASSUME NEW ok \in BOOLEAN, Overflow(ok) PROVE Logs /\ Notes
    BY <2>5, FailLogs DEF Overflow
  <2>6. ASSUME NEW ok \in BOOLEAN, NEW class \in {"Succeeded", "Unavailable"},
               ToolAnswer(class, ok)
        PROVE  Logs /\ Notes
    <3>1. class \in Outcomes
      BY DEF Outcomes
    <3>2. Last(board') = Call
      BY <1>1, <2>6 DEF ToolAnswer, CallInv, BoardType, Last
    <3> QED
      BY <1>3, <2>6, <3>1, <3>2, RecordLogs DEF ToolAnswer
  <2>7. ASSUME NEW ok \in BOOLEAN, NEW class \in {"Unavailable", "Denied"},
               ToolUnanswered(class, ok)
        PROVE  Logs /\ Notes
    <3>1. class \in Outcomes
      BY DEF Outcomes
    <3> QED
      BY <1>3, <2>7, <3>1, RecordLogs DEF ToolUnanswered
  <2> QED
    BY <1>6, <2>1, <2>2, <2>3, <2>4, <2>5, <2>6, <2>7 DEF UseTools
<1>7. CASE Expire \/ Crash
  BY <1>7 DEF Expire, Crash, Logs, Notes, journalVars, loopVars
<1> QED
  BY <1>4, <1>5, <1>6, <1>7 DEF Next

\* What is recorded stays recorded.
LEMMA RecordedStays ==
    ASSUME TypeOK, TypeOK', Logs, NEW c, Recorded(c)
    PROVE  Recorded(c)'
<1>1. PICK i \in 1 .. Len(durable) : durable[i].event = "ToolRequested" /\ durable[i].call = c
  BY DEF Recorded
<1>2. durable \in Seq(RuntimeFact \cup DirectFact) /\ persisted \in Nat /\ facts' \in Seq(RuntimeFact)
  BY TypeParts, TypePartsPrimed DEF JournalType
<1>3. i \in 1 .. Len(durable') /\ durable'[i] = durable[i]
  <2>1. CASE UNCHANGED durable
    BY <2>1
  <2>2. ASSUME NEW fact \in DirectFact, durable' = Append(durable, fact)
        PROVE  i \in 1 .. Len(durable') /\ durable'[i] = durable[i]
    BY <1>2, <2>2
  <2>3. CASE durable' = durable \o SubSeq(facts', persisted + 1, Len(facts'))
    <3> DEFINE news == SubSeq(facts', persisted + 1, Len(facts'))
    <3>1. news \in Seq(RuntimeFact \cup DirectFact)
      <4>1. news \in Seq(RuntimeFact)
        BY <1>2
      <4> HIDE DEF news
      <4> QED
        BY <4>1
    <3>2. durable' = durable \o news
      BY <2>3
    <3> HIDE DEF news
    <3> QED
      BY <1>2, <3>1, <3>2
  <2> QED
    BY <2>1, <2>2, <2>3 DEF Logs
<1> QED
  BY <1>1, <1>3 DEF Recorded

-----------------------------------------------------------------------------
(* No query twice *)

\* Before a baseline query nothing of its name was sent, and a tool's query
\* that waits to be sent is recorded and new.
OnceInv ==
    /\ QueriedOnce
    /\ stage \in {"new", "logs"} => asked = <<>>
    /\ stage = "metrics" => \A i \in 1 .. Len(asked) : asked[i] = "logs"
    /\ stage = "asking" => Recorded(Call) /\ \A i \in 1 .. Len(asked) : asked[i] # Call

LEMMA OnceAppend ==
    ASSUME asked \in Seq(Queries), NEW q \in Queries, asked' = Append(asked, q),
           QueriedOnce, \A i \in 1 .. Len(asked) : asked[i] # q,
           \A c : Recorded(c) => Recorded(c)',
           q \in CallIds => Recorded(q)
    PROVE  QueriedOnce'
<1>1. Len(asked') = Len(asked) + 1 /\ asked'[Len(asked')] = q /\ Len(asked) \in Nat
  OBVIOUS
<1>2. \A i \in 1 .. Len(asked) : asked'[i] = asked[i]
  OBVIOUS
<1>3. \A i \in 1 .. Len(asked') : i \in 1 .. Len(asked) \/ i = Len(asked')
  BY <1>1
<1>4. ASSUME NEW i \in 1 .. Len(asked'), NEW j \in 1 .. Len(asked'), asked'[i] = asked'[j]
      PROVE  i = j
  BY <1>1, <1>2, <1>3, <1>4 DEF QueriedOnce
<1>5. ASSUME NEW i \in 1 .. Len(asked'), NEW c \in CallIds, c = asked'[i] PROVE Recorded(c)'
  BY <1>1, <1>2, <1>3, <1>5 DEF QueriedOnce
<1> QED
  BY <1>4, <1>5 DEF QueriedOnce, Recorded

LEMMA OnceKept ==
    ASSUME asked \in Seq(Queries), asked' = asked, QueriedOnce,
           \A c : Recorded(c) => Recorded(c)'
    PROVE  QueriedOnce'
<1>1. ASSUME NEW i \in 1 .. Len(asked), NEW c \in CallIds, c = asked[i] PROVE Recorded(c)'
  BY <1>1 DEF QueriedOnce
<1> QED
  BY <1>1 DEF QueriedOnce, Recorded

LEMMA OnceStep == Sound /\ Sound' /\ OnceInv /\ [Next]_vars => OnceInv'
<1> SUFFICES ASSUME Sound, Sound', OnceInv, [Next]_vars PROVE OnceInv'
  OBVIOUS
<1> USE DEF Growing, Ended
<1>1. TypeOK /\ TypeOK' /\ CallInv /\ FallbackInv
  BY DEF Sound
<1>2. asked \in Seq(Queries) /\ durable \in Seq(RuntimeFact \cup DirectFact) /\ LoopType
  BY <1>1, TypeParts DEF SentType, JournalType
<1>3. \A c : Recorded(c) => Recorded(c)'
  <2>1. Logs
    <3>1. CASE Next
      BY <1>1, <3>1, StepLogs
    <3>2. CASE UNCHANGED vars
      BY <3>2 DEF vars, journalVars, Logs
    <3> QED
      BY <3>1, <3>2
  <2> QED
    BY <1>1, <2>1, RecordedStays
<1>4. CASE asked' = asked /\ stage' \notin Growing
  BY <1>2, <1>3, <1>4, OnceKept DEF OnceInv
<1>5. CASE Idle
  <2>1. QueriedOnce'
    BY <1>2, <1>3, <1>5, OnceKept DEF OnceInv, Idle
  <2>2. CASE stage' = stage /\ UNCHANGED calls
    <3>1. asked' = asked /\ Call' = Call
      BY <1>5, <2>2 DEF Idle, Call
    <3>2. stage = "asking" => Recorded(Call)'
      BY <1>3, <2>2 DEF OnceInv, Recorded, Call
    <3> QED
      BY <2>1, <2>2, <3>1, <3>2 DEF OnceInv
  <2> QED
    BY <1>4, <1>5, <2>1, <2>2 DEF Idle, OnceInv
<1>6. CASE Books
  BY <1>4, <1>6 DEF Books
<1>7. CASE Collects
  <2>1. stage \in Queries /\ stage \notin CallIds
    BY <1>7, ToolsAssumption DEF Collects, Queries
  <2>2. \A i \in 1 .. Len(asked) : asked[i] # stage
    BY <1>2, <1>7 DEF Collects, OnceInv
  <2>3. QueriedOnce'
    BY <1>2, <1>3, <1>7, <2>1, <2>2, OnceAppend DEF Collects, OnceInv
  <2>4. stage' \in {"failed", "metrics", "collected"}
    BY <1>7 DEF Collects
  <2>5. stage' = "metrics" => \A i \in 1 .. Len(asked') : asked'[i] = "logs"
    BY <1>2, <1>7 DEF Collects, OnceInv
  <2> QED
    BY <2>3, <2>4, <2>5 DEF OnceInv
<1>8. CASE Requests
  <2>1. PICK ok \in BOOLEAN : ToolRequest(ok)
    BY <1>8 DEF Requests
  <2>2. stage = "tools" /\ stage' \in {"asking", "failed"} /\ calls' = calls /\ asked' = asked
    BY <2>1 DEF ToolRequest, Write, sentVars
  <2>3. ~Recorded(Call) /\ Call # Blank
    BY <2>1 DEF ToolRequest, Refusal, None
  <2>4. Call \in CallIds
    BY <1>1, <1>2, <2>2, <2>3 DEF CallInv, LoopType, Call, Calls
  <2>5. \A i \in 1 .. Len(asked) : asked[i] # Call
    BY <2>3, <2>4 DEF OnceInv, QueriedOnce
  <2>6. stage' = "asking" => Recorded(Call)'
    <3> DEFINE request == ToolRequested(active, Call, Spent)
    <3>1. request.event = "ToolRequested" /\ request.call = Call
      BY DEF ToolRequested
    <3>2. stage' = "asking" => durable' = Append(durable, request)
      BY <2>1 DEF ToolRequest, Write
    <3> HIDE DEF request
    <3>3. SUFFICES ASSUME stage' = "asking" PROVE Recorded(Call)'
      OBVIOUS
    <3>4. Len(durable') \in 1 .. Len(durable') /\ durable'[Len(durable')] = request
      BY <1>1, <1>2, <3>2, <3>3
    <3>5. Call' = Call
      BY <2>2 DEF Call
    <3> QED
      BY <3>1, <3>4, <3>5 DEF Recorded
  <2>7. QueriedOnce'
    BY <1>2, <1>3, <2>2, OnceKept DEF OnceInv
  <2>8. Call' = Call
    BY <2>2 DEF Call
  <2> QED
    BY <2>2, <2>5, <2>6, <2>7, <2>8 DEF OnceInv
<1>9. CASE ToolSend
  <2>1. stage = "asking" /\ stage' = "awaiting" /\ asked' = Append(asked, Call)
    BY <1>9 DEF ToolSend
  <2>2. Call \in Queries
    BY <1>1, <2>1 DEF CallInv, Queries
  <2>3. QueriedOnce'
    BY <1>2, <1>3, <2>1, <2>2, OnceAppend DEF OnceInv
  <2> QED
    BY <2>1, <2>3 DEF OnceInv
<1>10. CASE UNCHANGED vars
  BY <1>10 DEF vars, journalVars, sentVars, OnceInv, QueriedOnce, Recorded, Call
<1> QED
  BY <1>1, <1>5, <1>6, <1>7, <1>8, <1>9, <1>10, QueryKinds

\* A query of a run is sent at most once, whichever providers ask for it and
\* wherever commits fail, and a tool's query only after its request is durable
\* (tool_request_recorded, append_checkpoint_scoped before execute).
THEOREM QueriesSentOnce == Spec => []QueriedOnce
<1>1. Init => OnceInv
  BY DEF Init, OnceInv, QueriedOnce
<1>2. OnceInv => QueriedOnce
  BY DEF OnceInv
<1> QED
  BY <1>1, <1>2, SoundAlways, OnceStep, PTL DEF Spec

-----------------------------------------------------------------------------
(* Results and their evidence *)

LEMMA ResultsStep ==
    Sound /\ Sound' /\ ResultsNameTheirEvidence /\ [Next]_vars => ResultsNameTheirEvidence'
<1> SUFFICES ASSUME Sound, Sound', ResultsNameTheirEvidence, [Next]_vars
             PROVE  ResultsNameTheirEvidence'
  OBVIOUS
<1>1. TypeOK /\ CallInv /\ FallbackInv
  BY DEF Sound
<1>2. evidence \in Seq(Queries) /\ results \in Seq(Result)
  BY <1>1, TypeParts DEF BoardType, LoopType
<1>3. \A i \in 1 .. Len(results) : results[i].evidence \in Nat
  <2>1. \A r \in Result : r.evidence \in Nat
    BY DEF Result
  <2>2. \A i \in 1 .. Len(results) : results[i] \in Result
    BY <1>2
  <2> QED
    BY <2>1, <2>2
<1>4. CASE UNCHANGED vars
  BY <1>4 DEF vars, loopVars, ResultsNameTheirEvidence
<1>5. CASE results' \in {results, <<>>} /\ evidence' \in {evidence, Append(evidence, stage)}
  <2>1. \A n \in 1 .. Len(evidence) : n <= Len(evidence') /\ evidence'[n] = evidence[n]
    BY <1>2, <1>5
  <2>2. CASE results' = <<>>
    BY <2>2 DEF ResultsNameTheirEvidence
  <2>3. CASE results' = results
    BY <1>2, <1>3, <2>1, <2>3 DEF ResultsNameTheirEvidence
  <2> QED
    BY <1>5, <2>2, <2>3
<1>6. ASSUME NEW envelope \in {<<>>, <<Call>>}, NEW class \in Outcomes, NEW before \in Nat,
             NEW ok \in BOOLEAN, RecordResult(envelope, class, before, ok)
      PROVE  ResultsNameTheirEvidence'
  <2> DEFINE n == IF envelope = <<>> THEN 0 ELSE Len(evidence) + 1
             result == [call |-> Call, class |-> class, evidence |-> n]
  <2>1. evidence' = evidence \o envelope /\ results' = Append(results, result)
    BY <1>6 DEF RecordResult
  <2>2. \A k \in 1 .. Len(evidence) : k <= Len(evidence') /\ evidence'[k] = evidence[k]
    BY <1>2, <2>1
  <2>3. n # 0 => n <= Len(evidence') /\ evidence'[n] = Call
    BY <1>2, <2>1
  <2>4. result.evidence = n /\ result.call = Call
    OBVIOUS
  <2> HIDE DEF n, result
  <2>5. ASSUME NEW i \in 1 .. Len(results'), results'[i].evidence # 0
        PROVE  /\ results'[i].evidence <= Len(evidence')
               /\ evidence'[results'[i].evidence] = results'[i].call
    <3>1. CASE i \in 1 .. Len(results)
      <4>1. results'[i] = results[i]
        BY <1>2, <2>1, <3>1
      <4>2. results[i].evidence \in 1 .. Len(evidence)
        BY <1>2, <1>3, <2>5, <3>1, <4>1 DEF ResultsNameTheirEvidence
      <4> QED
        BY <2>2, <2>5, <3>1, <4>1, <4>2 DEF ResultsNameTheirEvidence
    <3>2. CASE i = Len(results')
      <4>1. results'[i] = result
        BY <1>2, <2>1, <3>2
      <4> QED
        BY <2>3, <2>4, <2>5, <4>1
    <3>3. Len(results') = Len(results) + 1 /\ Len(results) \in Nat
      BY <1>2, <2>1
    <3> QED
      BY <3>1, <3>2, <3>3
  <2> QED
    BY <2>5 DEF ResultsNameTheirEvidence
<1>7. CASE Next
  BY <1>1, <1>5, <1>6, <1>7, StepLogs, Zenon DEF Notes
<1> QED
  BY <1>4, <1>7

\* What a model is told about a query is the evidence of that query, however
\* far the numbers of the two boards have drifted apart (record_result copies
\* the envelope and returns the runtime's number for it).
THEOREM ResultsTrue == Spec => []ResultsNameTheirEvidence
<1>1. Init => ResultsNameTheirEvidence
  BY DEF Init, ResultsNameTheirEvidence
<1> QED
  BY <1>1, SoundAlways, ResultsStep, PTL DEF Spec

-----------------------------------------------------------------------------
(* Store, requests and outcome *)

\* The store has what the runtime recorded up to the cursor; the cursor is at
\* the end where a result is at hand and where the investigation is done.
StoreInv ==
    /\ Selected(durable, RuntimeFact) = SubSeq(facts, 1, persisted)
    /\ stage \in During /\ results # <<>> => persisted = Len(facts)
    /\ stage = "done" => persisted = Len(facts)

\* A request waits for its result at the end of the store, and nothing waits
\* with it to be persisted but the start of a phase.
RequestInv ==
    /\ UnresolvedIsLast
    /\ stage \notin Ended =>
          \A i \in persisted + 1 .. Len(facts) : facts[i].event = "PhaseStarted"
    /\ stage \in {"asking", "awaiting"} =>
          durable # <<>> /\ Last(durable) = ToolRequested(active, Call, Spent - 1)
    /\ stage \notin Ended \cup {"asking", "awaiting"} /\ durable # <<>> =>
          Last(durable).event # "ToolRequested"

\* There is somebody to admit; the attempts are those of the attempted
\* providers but the one under way.
AttemptsInv ==
    /\ \E i \in 1 .. Len(Order) : Order[i] \in admission
    /\ active \in attempted \cup {None}
    /\ {attempts[i].provider : i \in 1 .. Len(attempts)} = attempted \ {active}

\* No report is accepted while no provider has succeeded.
NothingAccepted ==
    status \notin Providers =>
        /\ report = 0
        /\ \A i \in 1 .. Len(attempts) : Failed(attempts[i])
        /\ \A i \in 1 .. Len(facts) : facts[i].event # "Terminal"
        /\ \A i \in 1 .. Len(durable) : durable[i].event # "Terminal"

\* Every envelope has its fact.
EvidenceInv ==
    \A n \in 1 .. Len(evidence) : \E i \in 1 .. Len(facts) : facts[i] = EvidenceCommitted(n)

OutcomeInv == AttemptsInv /\ NothingAccepted /\ EvidenceInv /\ OutcomeAgrees
LEMMA RuntimeEvents ==
    \A f \in RuntimeFact : f.event # "ToolRequested"
  BY DEF RuntimeFact

LEMMA DirectNotRuntime ==
    /\ \A f \in DirectFact : f \notin RuntimeFact
    /\ \A f \in DirectFact : f.event # "Terminal"
<1>1. ASSUME NEW f \in DirectFact, f \in RuntimeFact PROVE FALSE
  <2>1. CASE f \in [event : {"PhaseStarted", "PhaseFinished"}, phase : {"Investigation"}]
    <3>1. f.event \in {"PhaseStarted", "PhaseFinished"} /\ f.phase = "Investigation"
      BY <2>1
    <3>2. f.phase = "Reasoning"
      BY <1>1, <3>1 DEF RuntimeFact
    <3> QED
      BY <3>1, <3>2
  <2>2. CASE f.event = "ToolRequested"
    BY <1>1, <2>2, RuntimeEvents
  <2> QED
    BY <2>1, <2>2 DEF DirectFact
<1>2. ASSUME NEW f \in DirectFact PROVE f.event # "Terminal"
  BY DEF DirectFact
<1> QED
  BY <1>1, <1>2

\* A step that records nothing and accepts nothing.
Silent ==
    /\ stage \notin Ended
    /\ UNCHANGED <<journalVars, evidence, report, results>>
    /\ UNCHANGED <<admission, attempted, active, status, attempts>>
    /\ \/ stage' = "failed"
       \/ stage' = stage /\ UNCHANGED <<calls, totals>>
       \/ stage \in {"turn", "replying", "weighing"} /\ stage' \in {"turn", "replying", "tools"}
       \/ stage = "asking" /\ stage' = "awaiting" /\ UNCHANGED <<calls, totals>>

\* The investigation's own phase begins or ends.
Opens ==
    /\ \E ok \in BOOLEAN :
          \/ stage = "new" /\ Write(PhaseStarted("Investigation"), ok, "logs")
          \/ stage = "collected" /\ Write(PhaseFinished("Investigation"), ok, "admitting")
    /\ UNCHANGED <<evidence, report, results>>
    /\ UNCHANGED <<admission, attempted, active, status, attempts>>

\* A provider is admitted or refused; the next checkpoint records its phase.
Announces ==
    /\ stage = "admitting"
    /\ facts' = Append(facts, PhaseStarted("Reasoning"))
    /\ UNCHANGED <<persisted, durable, evidence, report, admission, status, attempts>>
    /\ \/ stage' = "turn" /\ results' = <<>> /\ NextProvider # None /\ Engage(NextProvider)
       \/ stage' = "refused" /\ UNCHANGED <<attempted, active>>

Collecting == \E ok \in BOOLEAN : BaselineQuery(ok)
Exhausting == \E ok \in BOOLEAN : NobodyLeft(ok)
Failing == \E ok \in BOOLEAN : stage \in {"turn", "replying", "weighing"} /\ FailProvider(ok)
Succeeding ==
    \E ok \in BOOLEAN, cites \in Nat :
        stage \in {"turn", "replying"} /\ Validates(cites) /\ SucceedProvider(cites, ok)
Recording ==
    \E envelope \in {<<>>, <<Call>>}, class \in Outcomes, before \in Nat, ok \in BOOLEAN :
        /\ stage \in {"tools", "asking", "awaiting"}
        /\ stage # "tools" => before = Spent - 1
        /\ RecordResult(envelope, class, before, ok)

LEMMA FinalCases ==
    ASSUME NEW ok \in BOOLEAN, NEW cites \in Nat, stage \in {"turn", "replying"}, Final(cites, ok)
    PROVE  Failing \/ Succeeding
  BY DEF Final, Failing, Succeeding

\* Every step is one of these.
LEMMA StepCases ==
    ASSUME TypeOK, CallInv, FallbackInv, Next
    PROVE  \/ Silent \/ Opens \/ Announces \/ Collecting \/ Exhausting
           \/ Failing \/ Succeeding \/ Recording \/ Requests
<1>1. RunTypeOK /\ LoopType /\ BoardType
  BY TypeParts
<1>2. Spent \in Nat
  BY <1>1 DEF RunTypeOK, Spent, Resources
<1>3. stage \in {"asking", "awaiting"} => Spent - 1 \in Nat
  BY <1>2 DEF CallInv
<1>4. CASE Collect
  <2>1. ASSUME NEW ok \in BOOLEAN, Begin(ok) \/ CloseCollection(ok) PROVE Opens
    BY <2>1 DEF Begin, CloseCollection, Opens, loopVars, runVars
  <2>2. ASSUME BaselineFails PROVE Silent
    BY <2>2 DEF BaselineFails, Silent, loopVars, runVars, ReserveQuery, Ended
  <2> QED
    BY <1>4, <2>1, <2>2 DEF Collect, Collecting
<1>5. CASE Reason
  <2>1. ASSUME AdmitProvider PROVE Announces
    <3>1. CASE AdmitDeterministic
      BY <2>1, <3>1, OrderAssumption DEF AdmitProvider, AdmitDeterministic, Engage, Announces
    <3>2. CASE Admit
      BY <2>1, <3>2 DEF AdmitProvider, Admit, Engage, Announces
    <3> QED
      BY <2>1, <3>1, <3>2 DEF AdmitProvider
  <2>2. ASSUME RefuseProvider PROVE Announces
    BY <2>2 DEF RefuseProvider, AdmitRefused, runVars, Announces
  <2>3. ASSUME SendTurn PROVE Silent
    BY <2>3 DEF SendTurn, Silent, loopVars, runVars, Ended
  <2>4. ASSUME NEW ok \in BOOLEAN, NobodyLeft(ok) PROVE Exhausting
    BY <2>4 DEF Exhausting
  <2>5. ASSUME NEW ok \in BOOLEAN, DeterministicTurn(ok) PROVE Failing \/ Succeeding
    <3>1. BaselineReport \in Nat
      BY DEF BaselineReport
    <3> QED
      BY <2>5, <3>1, FinalCases DEF DeterministicTurn
  <2>6. ASSUME NEW ok \in BOOLEAN, TurnUnavailable(ok) \/ ReplyFails(ok) PROVE Failing
    BY <2>6 DEF TurnUnavailable, ReplyFails, Failing
  <2>7. ASSUME NEW ok \in BOOLEAN, NEW cites \in 0 .. Len(evidence) + 1, ReplyFinal(cites, ok)
        PROVE  Failing \/ Succeeding
    <3>1. cites \in Nat
      BY <1>1 DEF BoardType
    <3> QED
      BY <2>7, <3>1, FinalCases DEF ReplyFinal
  <2>8. ASSUME NEW response, ReplyCalls(response) PROVE Silent
    BY <2>8 DEF ReplyCalls, Silent, loopVars, runVars, Ended
  <2> QED
    BY <1>5, <2>1, <2>2, <2>3, <2>4, <2>5, <2>6, <2>7, <2>8 DEF Reason
<1>6. CASE UseTools
  <2>1. ASSUME ToolSend \/ ToolUncopied \/ NextCall PROVE Silent
    BY <2>1 DEF ToolSend, ToolUncopied, NextCall, Silent, loopVars, runVars, Ended, Spent
  <2>2. ASSUME NEW ok \in BOOLEAN, ToolRefused(ok) PROVE Recording
    <3>1. Refusal \in Outcomes
      BY <2>2 DEF ToolRefused, Refusal, Outcomes
    <3>2. stage = "tools" /\ RecordResult(<<>>, Refusal, Spent, ok)
      BY <2>2 DEF ToolRefused
    <3> QED
      BY <1>2, <3>1, <3>2, Zenon DEF Recording
  <2>3. ASSUME NEW ok \in BOOLEAN, ToolUnfunded(ok) PROVE Recording
    <3>1. "Exhausted" \in Outcomes
      BY DEF Outcomes
    <3>2. stage = "tools" /\ RecordResult(<<>>, "Exhausted", Spent, ok)
      BY <2>3 DEF ToolUnfunded
    <3> QED
      BY <1>2, <3>1, <3>2, Zenon DEF Recording
  <2>4. ASSUME NEW ok \in BOOLEAN, ToolTimesOut(ok) PROVE Recording
    <3>1. "Exhausted" \in Outcomes
      BY DEF Outcomes
    <3>2. stage \in {"asking", "awaiting"} /\ RecordResult(<<>>, "Exhausted", Spent - 1, ok)
      BY <2>4 DEF ToolTimesOut
    <3> QED
      BY <1>3, <3>1, <3>2, Zenon DEF Recording
  <2>5. ASSUME NEW ok \in BOOLEAN, NEW class \in {"Succeeded", "Unavailable"},
               ToolAnswer(class, ok)
        PROVE  Recording
    <3>1. class \in Outcomes
      BY DEF Outcomes
    <3>2. Last(board') = Call
      BY <1>1, <2>5 DEF ToolAnswer, CallInv, BoardType, Last
    <3>3. stage = "awaiting" /\ RecordResult(<<Call>>, class, Spent - 1, ok)
      BY <2>5, <3>2 DEF ToolAnswer
    <3> QED
      BY <1>3, <3>1, <3>3, Zenon DEF Recording
  <2>6. ASSUME NEW ok \in BOOLEAN, NEW class \in {"Unavailable", "Denied"},
               ToolUnanswered(class, ok)
        PROVE  Recording
    <3>1. class \in Outcomes
      BY DEF Outcomes
    <3>2. stage = "awaiting" /\ RecordResult(<<>>, class, Spent - 1, ok)
      BY <2>6 DEF ToolUnanswered
    <3> QED
      BY <1>3, <3>1, <3>2, Zenon DEF Recording
  <2>7. ASSUME NEW ok \in BOOLEAN, Overflow(ok) PROVE Failing
    BY <2>7 DEF Overflow, Failing
  <2> QED
    BY <1>6, <2>1, <2>2, <2>3, <2>4, <2>5, <2>6, <2>7 DEF UseTools, Requests
<1>7. CASE Expire \/ Crash
  BY <1>7 DEF Expire, Crash, Silent, loopVars, runVars
<1> QED
  BY <1>4, <1>5, <1>6, <1>7 DEF Next

\* What each checkpoint of the runtime takes to the store.
LEMMA CollectingNews ==
    ASSUME TypeOK, Collecting
    PROVE  \E ok \in BOOLEAN :
              LET news == <<EvidenceCommitted(Len(evidence) + 1)>> IN
              /\ news \in Seq(RuntimeFact)
              /\ stage \in {"logs", "metrics"}
              /\ Persist(news, ok, IF stage = "logs" THEN "metrics" ELSE "collected")
              /\ evidence' = Append(evidence, stage)
              /\ UNCHANGED <<report, admission, attempted, active, status, attempts>>
<1>1. PICK ok \in BOOLEAN : BaselineQuery(ok)
  BY DEF Collecting
<1>2. evidence \in Seq(Queries) /\ stage \in Queries
  BY <1>1, TypeParts DEF BoardType, BaselineQuery, Queries
<1>3. Len(evidence') = Len(evidence) + 1 /\ Len(evidence) + 1 \in Nat
  BY <1>1, <1>2 DEF BaselineQuery
<1>4. <<EvidenceCommitted(Len(evidence) + 1)>> \in Seq(RuntimeFact)
  BY <1>3, RuntimeFactForms
<1> QED
  BY <1>1, <1>3, <1>4 DEF BaselineQuery, ReserveQuery

LEMMA ExhaustingNews ==
    ASSUME Exhausting
    PROVE  \E ok \in BOOLEAN :
              LET news == <<PhaseStarted("Reasoning")>> IN
              /\ news \in Seq(RuntimeFact)
              /\ stage = "admitting"
              /\ Persist(news, ok, "done")
              /\ Remaining = {} /\ active = None /\ status' = "Exhausted"
              /\ UNCHANGED <<evidence, report, admission, attempted, active, attempts>>
<1>1. PICK ok \in BOOLEAN : NobodyLeft(ok)
  BY DEF Exhausting
<1>2. <<PhaseStarted("Reasoning")>> \in Seq(RuntimeFact)
  BY RuntimeFactForms
<1> QED
  BY <1>1, <1>2 DEF NobodyLeft, AdmitNobody

LEMMA FailingNews ==
    ASSUME TypeOK, Failing
    PROVE  \E ok \in BOOLEAN, a \in Attempt :
              LET news == <<ProviderAttempt(a), PhaseFinished("Reasoning")>> IN
              /\ news \in Seq(RuntimeFact)
              /\ stage \in {"turn", "replying", "weighing"}
              /\ Persist(news, ok, "admitting")
              /\ a.provider = active /\ Failed(a) /\ attempts' = Append(attempts, a)
              /\ active \in Providers /\ active' = None
              /\ UNCHANGED <<evidence, report, admission, attempted, status>>
<1>1. PICK ok \in BOOLEAN : stage \in {"turn", "replying", "weighing"} /\ FailProvider(ok)
  BY DEF Failing
<1>2. active \in Providers /\ attempts \in Seq(Attempt)
  BY <1>1, TypeParts DEF FailProvider, Fail, RunTypeOK
<1> DEFINE a == [provider |-> active, succeeded |-> FALSE]
<1>3. a \in Attempt /\ a.provider = active /\ Failed(a)
  BY <1>2 DEF Attempt, Failed
<1>4. attempts' = Append(attempts, a)
  BY <1>1 DEF FailProvider, Fail
<1> HIDE DEF a
<1>5. Last(attempts') = a
  BY <1>2, <1>3, <1>4 DEF Last
<1>6. <<ProviderAttempt(a), PhaseFinished("Reasoning")>> \in Seq(RuntimeFact)
  BY <1>3, RuntimeFactForms
<1>7. Persist(<<ProviderAttempt(a), PhaseFinished("Reasoning")>>, ok, "admitting")
  BY <1>1, <1>5 DEF FailProvider
<1>8. active' = None /\ UNCHANGED <<evidence, report, admission, attempted, status>>
  BY <1>1 DEF FailProvider, Fail
<1> QED
  BY <1>1, <1>2, <1>3, <1>4, <1>6, <1>7, <1>8, Zenon

LEMMA SucceedingNews ==
    ASSUME TypeOK, Succeeding
    PROVE  \E ok \in BOOLEAN, a \in Attempt :
              LET news == <<ProviderAttempt(a), PhaseFinished("Reasoning"), Terminal(active)>> IN
              /\ news \in Seq(RuntimeFact)
              /\ stage \in {"turn", "replying"}
              /\ Persist(news, ok, "done")
              /\ a = [provider |-> active, succeeded |-> TRUE] /\ attempts' = Append(attempts, a)
              /\ active \in Providers /\ active' = None /\ status' = active
              /\ report' \in 1 .. Len(evidence)
              /\ UNCHANGED <<evidence, admission, attempted>>
<1>1. PICK ok \in BOOLEAN, cites \in Nat :
         stage \in {"turn", "replying"} /\ Validates(cites) /\ SucceedProvider(cites, ok)
  BY DEF Succeeding
<1>2. active \in Providers /\ attempts \in Seq(Attempt)
  BY <1>1, TypeParts DEF SucceedProvider, Succeed, RunTypeOK
<1> DEFINE a == [provider |-> active, succeeded |-> TRUE]
<1>3. a \in Attempt
  BY <1>2 DEF Attempt
<1>4. attempts' = Append(attempts, a) /\ a = [provider |-> active, succeeded |-> TRUE]
  BY <1>1 DEF SucceedProvider, Succeed
<1> HIDE DEF a
<1>5. Last(attempts') = a
  BY <1>2, <1>3, <1>4 DEF Last
<1>6. <<ProviderAttempt(a), PhaseFinished("Reasoning"), Terminal(active)>> \in Seq(RuntimeFact)
  BY <1>2, <1>3, RuntimeFactForms
<1>7. Persist(<<ProviderAttempt(a), PhaseFinished("Reasoning"), Terminal(active)>>, ok, "done")
  BY <1>1, <1>5 DEF SucceedProvider
<1>8. /\ active' = None /\ status' = active /\ report' \in 1 .. Len(evidence)
      /\ UNCHANGED <<evidence, admission, attempted>>
  BY <1>1 DEF SucceedProvider, Succeed, Validates
<1> QED
  BY <1>1, <1>2, <1>3, <1>4, <1>6, <1>7, <1>8, Zenon

LEMMA RecordingNews ==
    ASSUME Sound, Recording
    PROVE  \E ok \in BOOLEAN, commits \in Seq(RuntimeFact), context \in RuntimeFact :
              /\ Persist(commits \o <<context>>, ok, "weighing")
              /\ \/ commits = <<>> /\ evidence' = evidence
                 \/ commits = <<EvidenceCommitted(Len(evidence) + 1)>>
                        /\ evidence' = Append(evidence, Call)
              /\ context.event = "ToolContext"
              /\ context.call = Call /\ context.provider = active
              /\ context.after = Spent
              /\ stage # "tools" => context.before = Spent - 1
              /\ stage \in {"tools", "asking", "awaiting"}
              /\ UNCHANGED <<report, admission, attempted, active, status, attempts>>
<1>1. PICK envelope \in {<<>>, <<Call>>}, class \in Outcomes, before \in Nat, ok \in BOOLEAN :
         /\ stage \in {"tools", "asking", "awaiting"}
         /\ stage # "tools" => before = Spent - 1
         /\ RecordResult(envelope, class, before, ok)
  BY Zenon DEF Recording
<1>2. /\ evidence \in Seq(Queries) /\ calls \in Seq(Calls) /\ calls # <<>>
      /\ active \in Providers /\ Spent \in Nat
  BY <1>1, TypeParts
     DEF Sound, BoardType, LoopType, CallInv, FallbackInv, During, RunTypeOK, Spent, Resources
<1>3. Call \in Calls
  BY <1>2 DEF Call
<1> DEFINE result == [call |-> Call, class |-> class,
                      evidence |-> IF envelope = <<>> THEN 0 ELSE Len(evidence) + 1]
           commits == [i \in 1 .. Len(envelope) |-> EvidenceCommitted(Len(evidence'))]
           context == ToolContext(active, result, before, Spent)
<1>4. /\ evidence' = evidence \o envelope
      /\ Persist(commits \o <<context>>, ok, "weighing")
      /\ UNCHANGED runVars /\ report' = report
  BY <1>1 DEF RecordResult
<1>5. result \in Result
  BY <1>2, <1>3 DEF Result
<1>6. context \in RuntimeFact
  BY <1>2, <1>5, RuntimeFactForms
<1>7. /\ context.event = "ToolContext" /\ context.call = Call /\ context.provider = active
      /\ context.before = before /\ context.after = Spent
  BY DEF ToolContext
<1>8. CASE envelope = <<>>
  <2>1. commits = <<>> /\ evidence' = evidence
    BY <1>2, <1>4, <1>8
  <2>2. <<>> \in Seq(RuntimeFact)
    OBVIOUS
  <2> HIDE DEF commits, context
  <2> QED
    BY <1>1, <1>4, <1>6, <1>7, <2>1, <2>2 DEF runVars
<1>9. CASE envelope = <<Call>>
  <2>1. Len(envelope) = 1 /\ Len(evidence') = Len(evidence) + 1 /\ Len(evidence) + 1 \in Nat
    BY <1>2, <1>3, <1>4, <1>9
  <2>2. evidence' = Append(evidence, Call)
    BY <1>2, <1>3, <1>4, <1>9
  <2>3. commits = <<EvidenceCommitted(Len(evidence) + 1)>>
    BY <2>1
  <2>4. <<EvidenceCommitted(Len(evidence) + 1)>> \in Seq(RuntimeFact)
    BY <2>1, RuntimeFactForms
  <2> HIDE DEF commits, context
  <2> QED
    BY <1>1, <1>4, <1>6, <1>7, <2>2, <2>3, <2>4 DEF runVars
<1> QED
  BY <1>1, <1>8, <1>9

\* The steps that persist what the runtime recorded.
Checkpoints == Collecting \/ Exhausting \/ Failing \/ Succeeding \/ Recording

LEMMA CheckpointNews ==
    ASSUME Sound, Checkpoints
    PROVE  \E news \in Seq(RuntimeFact), ok \in BOOLEAN, next \in Stages : Persist(news, ok, next)
<1>0. TypeOK /\ {"metrics", "collected", "admitting", "done", "weighing"} \subseteq Stages
  BY DEF Sound, Stages
<1>1. CASE Collecting
  BY <1>0, <1>1, CollectingNews, Zenon
<1>2. CASE Exhausting
  BY <1>0, <1>2, ExhaustingNews, Zenon
<1>3. CASE Failing
  BY <1>0, <1>3, FailingNews, Zenon
<1>4. CASE Succeeding
  BY <1>0, <1>4, SucceedingNews, Zenon
<1>5. CASE Recording
  <2>1. PICK ok \in BOOLEAN, commits \in Seq(RuntimeFact), context \in RuntimeFact :
           Persist(commits \o <<context>>, ok, "weighing")
    BY <1>5, RecordingNews, Zenon
  <2>2. commits \o <<context>> \in Seq(RuntimeFact)
    OBVIOUS
  <2> QED
    BY <1>0, <2>1, <2>2, Zenon
<1> QED
  BY <1>1, <1>2, <1>3, <1>4, <1>5 DEF Checkpoints

-----------------------------------------------------------------------------
(* The store follows the runtime *)

\* What waits of a longer sequence is what waited, then the rest.
LEMMA TailOfConcat ==
    ASSUME NEW T, NEW s \in Seq(T), NEW t \in Seq(T), NEW p \in 0 .. Len(s)
    PROVE  SubSeq(s \o t, p + 1, Len(s \o t)) = SubSeq(s, p + 1, Len(s)) \o t
<1> DEFINE a == SubSeq(s \o t, p + 1, Len(s \o t))
           b == SubSeq(s, p + 1, Len(s))
<1>1. s \o t \in Seq(T) /\ Len(s \o t) = Len(s) + Len(t) /\ Len(s) \in Nat /\ Len(t) \in Nat
  OBVIOUS
<1>2. b \in Seq(T) /\ Len(b) = Len(s) - p
  OBVIOUS
<1>3. /\ a \in Seq(T) /\ Len(a) = Len(s) + Len(t) - p
      /\ \A i \in 1 .. Len(a) : a[i] = (s \o t)[p + i]
  <2> DEFINE c == s \o t
  <2>1. c \in Seq(T) /\ Len(c) = Len(s) + Len(t)
    BY <1>1
  <2> HIDE DEF c
  <2>2. LET d == SubSeq(c, p + 1, Len(c)) IN
        d \in Seq(T) /\ Len(d) = Len(c) - p /\ \A i \in 1 .. Len(d) : d[i] = c[p + i]
    BY <1>1, <2>1
  <2> QED
    BY <2>1, <2>2 DEF c
<1>4. b \o t \in Seq(T) /\ Len(b \o t) = Len(s) - p + Len(t)
  <2> HIDE DEF b
  <2> QED
    BY <1>2
<1>5. ASSUME NEW i \in 1 .. Len(a) PROVE a[i] = (b \o t)[i]
  <2>1. a[i] = (s \o t)[p + i]
    BY <1>3
  <2>2. CASE i <= Len(s) - p
    <3>1. (s \o t)[p + i] = s[p + i] /\ b[i] = s[p + i]
      BY <1>1, <1>2, <2>2
    <3> HIDE DEF a, b
    <3> QED
      BY <1>1, <1>2, <1>3, <2>1, <2>2, <3>1
  <2>3. CASE i > Len(s) - p
    <3>1. p + i \in Len(s) + 1 .. Len(s) + Len(t)
      BY <1>1, <1>3, <2>3
    <3>2. (s \o t)[p + i] = t[p + i - Len(s)]
      BY <1>1, <3>1
    <3> HIDE DEF a, b
    <3>3. (b \o t)[i] = t[i - Len(b)] /\ i - Len(b) = p + i - Len(s)
      BY <1>1, <1>2, <1>3, <2>3
    <3> QED
      BY <2>1, <3>2, <3>3
  <2> QED
    BY <1>1, <2>2, <2>3, <1>3
<1> HIDE DEF a, b
<1>6. Len(a) = Len(b \o t)
  BY <1>1, <1>3, <1>4
<1>7. a = b \o t
  BY <1>3, <1>4, <1>5, <1>6, SeqEqual
<1> QED
  BY <1>7 DEF a, b

\* A sequence is its first part, then the rest.
LEMMA Rejoined ==
    ASSUME NEW T, NEW s \in Seq(T), NEW t \in Seq(T), NEW p \in 0 .. Len(s)
    PROVE  SubSeq(s, 1, p) \o (SubSeq(s, p + 1, Len(s)) \o t) = s \o t
<1> DEFINE a == SubSeq(s, 1, p)
           b == SubSeq(s, p + 1, Len(s))
<1>1. a \in Seq(T) /\ b \in Seq(T)
  OBVIOUS
<1>2. /\ Len(s) \in Nat /\ 1 \in 1 .. Len(s) + 1 /\ p \in 1 - 1 .. Len(s)
      /\ Len(s) \in p .. Len(s)
  OBVIOUS
<1>3. a \o b = SubSeq(s, 1, Len(s))
  BY <1>2, ConcatAdjacentSubSeq
<1> HIDE DEF a, b
<1>4. a \o b = s
  BY <1>3, SubSeqFull
<1>5. (a \o b) \o t = a \o (b \o t)
  BY <1>1, ConcatAssociative
<1> QED
  BY <1>4, <1>5 DEF a, b

\* What is of S is all selected.
LEMMA SelectedNews ==
    ASSUME NEW T, NEW s \in Seq(T), NEW S \in SUBSET T, NEW t \in Seq(S)
    PROVE  Selected(s \o t, S) = Selected(s, S) \o t
<1>1. t \in Seq(T) /\ \A i \in DOMAIN t : t[i] \in S
  OBVIOUS
<1> QED
  BY <1>1, SelectedConcat

\* A checkpoint: what waited, then the news.
LEMMA PersistTail ==
    ASSUME JournalType, NEW news \in Seq(RuntimeFact), NEW ok \in BOOLEAN, NEW next \in Stages,
           Persist(news, ok, next)
    PROVE  LET waiting == SubSeq(facts, persisted + 1, Len(facts)) IN
           /\ waiting \in Seq(RuntimeFact)
           /\ facts' = facts \o news
           /\ SubSeq(facts', persisted + 1, Len(facts')) = waiting \o news
           /\ IF ok
              THEN /\ stage' = next /\ persisted' = Len(facts')
                   /\ durable' = durable \o (waiting \o news)
              ELSE stage' = "failed" /\ persisted' = persisted /\ durable' = durable
<1> DEFINE waiting == SubSeq(facts, persisted + 1, Len(facts))
           all == SubSeq(facts \o news, persisted + 1, Len(facts \o news))
<1>1. facts \in Seq(RuntimeFact) /\ persisted \in 0 .. Len(facts)
  BY DEF JournalType
<1>2. waiting \in Seq(RuntimeFact)
  BY <1>1
<1>3. all = waiting \o news
  BY <1>1, TailOfConcat
<1>4. facts' = facts \o news
  BY DEF Persist
<1>5. all = SubSeq(facts', persisted + 1, Len(facts'))
  BY <1>4
<1> HIDE DEF waiting, all
<1>6. IF ok
      THEN stage' = next /\ persisted' = Len(facts') /\ durable' = durable \o all
      ELSE stage' = "failed" /\ persisted' = persisted /\ durable' = durable
  BY <1>5 DEF Persist
<1> QED
  BY <1>2, <1>3, <1>4, <1>5, <1>6 DEF waiting

LEMMA PersistStore ==
    ASSUME JournalType, Selected(durable, RuntimeFact) = SubSeq(facts, 1, persisted),
           NEW news \in Seq(RuntimeFact), NEW ok \in BOOLEAN, NEW next \in Stages,
           Persist(news, ok, next)
    PROVE  /\ Selected(durable', RuntimeFact) = SubSeq(facts', 1, persisted')
           /\ stage' # "failed" => persisted' = Len(facts')
<1> DEFINE waiting == SubSeq(facts, persisted + 1, Len(facts))
           rows == RuntimeFact \cup DirectFact
<1>1. /\ facts \in Seq(RuntimeFact) /\ persisted \in 0 .. Len(facts) /\ durable \in Seq(rows)
      /\ waiting \in Seq(RuntimeFact) /\ facts' = facts \o news
  BY PersistTail DEF JournalType
<1> HIDE DEF waiting
<1>2. CASE ok
  <2>1. durable' = durable \o (waiting \o news) /\ persisted' = Len(facts')
    BY <1>2, PersistTail DEF waiting
  <2> DEFINE added == waiting \o news
  <2>2. added \in Seq(RuntimeFact)
    BY <1>1
  <2> HIDE DEF added
  <2>3. RuntimeFact \in SUBSET rows
    OBVIOUS
  <2> HIDE DEF rows
  <2>4. Selected(durable \o added, RuntimeFact) = Selected(durable, RuntimeFact) \o added
    BY <1>1, <2>2, <2>3, SelectedNews
  <2>5. SubSeq(facts, 1, persisted) \o (waiting \o news) = facts \o news
    BY <1>1, Rejoined DEF waiting
  <2>6. SubSeq(facts', 1, Len(facts')) = facts'
    BY <1>1
  <2> QED
    BY <1>1, <2>1, <2>4, <2>5, <2>6 DEF added
<1>3. CASE ~ok
  <2>1. durable' = durable /\ persisted' = persisted /\ stage' = "failed"
    BY <1>3, PersistTail
  <2>2. SubSeq(facts \o news, 1, persisted) = SubSeq(facts, 1, persisted)
    BY <1>1
  <2> QED
    BY <1>1, <2>1, <2>2
<1> QED
  BY <1>2, <1>3

\* A fact of the investigation's own is none of the runtime's.
LEMMA WriteStore ==
    ASSUME JournalType, Selected(durable, RuntimeFact) = SubSeq(facts, 1, persisted),
           NEW fact \in DirectFact, NEW ok \in BOOLEAN, NEW next, Write(fact, ok, next)
    PROVE  Selected(durable', RuntimeFact) = SubSeq(facts', 1, persisted')
<1> DEFINE rows == RuntimeFact \cup DirectFact
<1>1. durable \in Seq(rows) /\ fact \in rows /\ fact \notin RuntimeFact
  BY DirectNotRuntime DEF JournalType
<1>2. facts' = facts /\ persisted' = persisted /\ durable' \in {durable, Append(durable, fact)}
  BY DEF Write
<1> HIDE DEF rows
<1>3. Selected(Append(durable, fact), RuntimeFact) = Selected(durable, RuntimeFact)
  BY <1>1, SelectedAppend
<1> QED
  BY <1>2, <1>3

\* A request is of the call at hand, and its provider the one under way.
LEMMA RequestForm ==
    ASSUME Sound, NEW ok \in BOOLEAN, ToolRequest(ok)
    PROVE  /\ ToolRequested(active, Call, Spent) \in DirectFact
           /\ stage = "tools" /\ Spent \in Nat /\ Spent' = Spent + 1 /\ Call' = Call
           /\ UNCHANGED <<evidence, report, results, facts, persisted>>
           /\ UNCHANGED <<admission, attempted, active, status, attempts>>
           /\ IF ok
              THEN /\ stage' = "asking"
                   /\ durable' = Append(durable, ToolRequested(active, Call, Spent))
              ELSE stage' = "failed" /\ durable' = durable
<1>1. RunTypeOK /\ LoopType
  BY TypeParts DEF Sound
<1>2. stage = "tools" /\ Refusal = None /\ calls' = calls
  BY DEF ToolRequest
<1>3. active \in Providers /\ calls # <<>> /\ Spent \in Nat /\ Spent' = Spent + 1
  BY <1>1, <1>2, ReserveQueryType DEF ToolRequest, Sound, CallInv, FallbackInv, During
<1>4. Call \in CallIds /\ Call' = Call
  BY <1>1, <1>2, <1>3 DEF Refusal, Call, Calls, LoopType, None
<1> QED
  BY <1>2, <1>3, <1>4, DirectFactForms DEF ToolRequest, Write, ReserveQuery

LEMMA StoreStep == Sound /\ Sound' /\ StoreInv /\ [Next]_vars => StoreInv'
<1> SUFFICES ASSUME Sound, Sound', StoreInv, [Next]_vars PROVE StoreInv'
  OBVIOUS
<1>1. /\ TypeOK /\ CallInv /\ FallbackInv /\ JournalType
      /\ Selected(durable, RuntimeFact) = SubSeq(facts, 1, persisted)
  BY TypeParts DEF Sound, StoreInv
<1>2. facts \in Seq(RuntimeFact) /\ persisted \in 0 .. Len(facts)
  BY <1>1 DEF JournalType
<1> USE DEF During
<1>3. CASE Silent
  BY <1>3 DEF Silent, StoreInv, journalVars, Ended
<1>4. CASE Opens
  <2>1. PICK ok \in BOOLEAN :
           \/ stage = "new" /\ Write(PhaseStarted("Investigation"), ok, "logs")
           \/ stage = "collected" /\ Write(PhaseFinished("Investigation"), ok, "admitting")
    BY <1>4 DEF Opens
  <2>2. Selected(durable', RuntimeFact) = SubSeq(facts', 1, persisted')
    BY <1>1, <2>1, DirectFactForms, WriteStore
  <2>3. stage' \in {"logs", "admitting", "failed"}
    BY <2>1 DEF Write
  <2> QED
    BY <2>2, <2>3 DEF StoreInv
<1>5. CASE Announces
  <2>1. SubSeq(Append(facts, PhaseStarted("Reasoning")), 1, persisted) = SubSeq(facts, 1, persisted)
    <3>1. PhaseStarted("Reasoning") \in RuntimeFact
      BY RuntimeFactForms
    <3> QED
      BY <1>2, <3>1
  <2> QED
    BY <1>1, <1>5, <2>1 DEF Announces, StoreInv
<1>6. CASE Checkpoints
  <2>1. PICK news \in Seq(RuntimeFact), ok \in BOOLEAN, next \in Stages : Persist(news, ok, next)
    BY <1>6, CheckpointNews
  <2> QED
    BY <1>1, <2>1, PersistStore DEF StoreInv
<1>7. CASE Requests
  <2>1. PICK ok \in BOOLEAN : ToolRequest(ok)
    BY <1>7 DEF Requests
  <2>2. Selected(durable', RuntimeFact) = SubSeq(facts', 1, persisted')
    BY <1>1, <2>1, RequestForm, WriteStore DEF ToolRequest
  <2> QED
    BY <2>1, <2>2, RequestForm DEF StoreInv
<1>8. CASE UNCHANGED vars
  BY <1>8 DEF vars, journalVars, loopVars, StoreInv
<1> QED
  BY <1>1, <1>3, <1>4, <1>5, <1>6, <1>7, <1>8, StepCases DEF Checkpoints

-----------------------------------------------------------------------------
(* Requests and their results *)

\* In a log, a request is followed by its own result.
Answered(d, i) ==
    \E j \in i + 1 .. Len(d) :
        /\ d[j].event = "ToolContext"
        /\ d[j].call = d[i].call
        /\ d[j].provider = d[i].provider
        /\ d[j].before = d[i].before
        /\ d[j].after = d[i].before + 1
        /\ \A k \in i + 1 .. j - 1 : d[k].event \in {"PhaseStarted", "EvidenceCommitted"}
Resolved(d) == \A i \in 1 .. Len(d) : d[i].event = "ToolRequested" => Answered(d, i)
Orderly(d) ==
    \A i \in 1 .. Len(d) : d[i].event = "ToolRequested" => i = Len(d) \/ Answered(d, i)
Settled(d) == d # <<>> => Last(d).event # "ToolRequested"

LEMMA AnsweredStays ==
    ASSUME NEW T, NEW d \in Seq(T), NEW t \in Seq(T), NEW i \in 1 .. Len(d), Answered(d, i)
    PROVE  Answered(d \o t, i)
<1> DEFINE e == d \o t
<1>1. Len(d) \in Nat /\ Len(e) \in Nat /\ Len(d) <= Len(e) /\ \A k \in 1 .. Len(d) : e[k] = d[k]
  OBVIOUS
<1> HIDE DEF e
<1>2. PICK j \in i + 1 .. Len(d) :
         /\ d[j].event = "ToolContext"
         /\ d[j].call = d[i].call
         /\ d[j].provider = d[i].provider
         /\ d[j].before = d[i].before
         /\ d[j].after = d[i].before + 1
         /\ \A k \in i + 1 .. j - 1 : d[k].event \in {"PhaseStarted", "EvidenceCommitted"}
  BY DEF Answered
<1>3. j \in i + 1 .. Len(e) /\ e[j] = d[j] /\ e[i] = d[i]
  BY <1>1
<1>4. ASSUME NEW k \in i + 1 .. j - 1 PROVE e[k].event \in {"PhaseStarted", "EvidenceCommitted"}
  <2>1. k \in 1 .. Len(d)
    BY <1>1
  <2> QED
    BY <1>1, <1>2, <2>1
<1>5. Answered(e, i)
  BY <1>2, <1>3, <1>4 DEF Answered
<1> QED
  BY <1>5 DEF e

LEMMA ResolvedIsSettled ==
    ASSUME NEW T, NEW d \in Seq(T)
    PROVE  Resolved(d) <=> Orderly(d) /\ Settled(d)
<1>1. Len(d) \in Nat /\ (d # <<>> => Len(d) \in 1 .. Len(d))
  OBVIOUS
<1>2. ~ Answered(d, Len(d))
  BY <1>1 DEF Answered
<1> QED
  BY <1>1, <1>2 DEF Resolved, Orderly, Settled, Last

LEMMA ResolvedConcat ==
    ASSUME NEW T, NEW d \in Seq(T), NEW t \in Seq(T), Resolved(d),
           \A k \in 1 .. Len(t) : t[k].event # "ToolRequested"
    PROVE  Resolved(d \o t)
<1> DEFINE e == d \o t
<1>1. /\ Len(d) \in Nat /\ Len(t) \in Nat /\ Len(e) = Len(d) + Len(t)
      /\ \A k \in 1 .. Len(d) : e[k] = d[k]
      /\ \A k \in 1 .. Len(t) : e[Len(d) + k] = t[k]
  OBVIOUS
<1> HIDE DEF e
<1>2. ASSUME NEW i \in 1 .. Len(e), e[i].event = "ToolRequested" PROVE Answered(e, i)
  <2>1. CASE i <= Len(d)
    <3>1. i \in 1 .. Len(d) /\ d[i].event = "ToolRequested"
      BY <1>1, <1>2, <2>1
    <3>2. Answered(d, i)
      BY <3>1 DEF Resolved
    <3> QED
      BY <3>1, <3>2, AnsweredStays DEF e
  <2>2. CASE i > Len(d)
    <3>1. i - Len(d) \in 1 .. Len(t) /\ Len(d) + (i - Len(d)) = i
      BY <1>1, <2>2
    <3>2. e[i] = t[i - Len(d)]
      BY <1>1, <3>1
    <3> QED
      BY <1>2, <3>1, <3>2
  <2> QED
    BY <1>1, <2>1, <2>2
<1> QED
  BY <1>2 DEF Resolved, e

LEMMA ResolvedRequest ==
    ASSUME NEW T, NEW d \in Seq(T), NEW f \in T, Resolved(d)
    PROVE  /\ Orderly(Append(d, f)) /\ Append(d, f) # <<>> /\ Last(Append(d, f)) = f
           /\ f.event # "ToolRequested" => Resolved(Append(d, f))
<1> DEFINE e == Append(d, f)
<1>1. /\ e \in Seq(T) /\ e # <<>> /\ Len(d) \in Nat /\ Len(e) = Len(d) + 1 /\ e[Len(e)] = f
      /\ e = d \o <<f>>
  OBVIOUS
<1>2. \A k \in 1 .. Len(d) : e[k] = d[k]
  OBVIOUS
<1> HIDE DEF e
<1>3. ASSUME NEW i \in 1 .. Len(e), e[i].event = "ToolRequested" PROVE i = Len(e) \/ Answered(e, i)
  <2>1. CASE i # Len(e)
    <3>1. i \in 1 .. Len(d)
      BY <1>1, <2>1
    <3>2. Answered(d, i)
      BY <1>2, <1>3, <3>1 DEF Resolved
    <3>3. <<f>> \in Seq(T)
      OBVIOUS
    <3> QED
      BY <1>1, <3>1, <3>2, <3>3, AnsweredStays
  <2> QED
    BY <2>1
<1>4. Orderly(e) /\ Last(e) = f
  BY <1>1, <1>3 DEF Orderly, Last
<1>5. f.event # "ToolRequested" => Resolved(e)
  BY <1>1, <1>4, ResolvedIsSettled DEF Settled
<1> QED
  BY <1>1, <1>4, <1>5 DEF e

\* The result of the request that is last in the log.
LEMMA ResolvedAnswer ==
    ASSUME NEW T, NEW d \in Seq(T), d # <<>>, Orderly(d), Last(d).event = "ToolRequested",
           NEW t \in Seq(T), NEW context \in T,
           \A k \in 1 .. Len(t) : t[k].event \in {"PhaseStarted", "EvidenceCommitted"},
           context.event = "ToolContext",
           context.call = Last(d).call, context.provider = Last(d).provider,
           context.before = Last(d).before, context.after = Last(d).before + 1
    PROVE  Resolved(d \o (t \o <<context>>))
<1> DEFINE e == d \o (t \o <<context>>)
           n == Len(d)
           j == Len(d) + Len(t) + 1
<1>1. /\ n \in Nat \ {0} /\ Len(t) \in Nat /\ Len(e) = j /\ j \in n + 1 .. Len(e)
      /\ \A k \in 1 .. n : e[k] = d[k]
      /\ e[j] = context
  OBVIOUS
<1>2. ASSUME NEW k \in 1 .. Len(t) PROVE e[n + k] = t[k]
  OBVIOUS
<1>3. e[n] = Last(d)
  BY <1>1 DEF Last
<1>4. t \o <<context>> \in Seq(T)
  OBVIOUS
<1> HIDE DEF e
<1>5. ASSUME NEW k \in n + 1 .. j - 1 PROVE e[k].event \in {"PhaseStarted", "EvidenceCommitted"}
  <2>1. k - n \in 1 .. Len(t) /\ n + (k - n) = k
    BY <1>1
  <2>2. e[k] = t[k - n]
    BY <1>2, <2>1
  <2> QED
    BY <2>1, <2>2
<1>6. Answered(e, n)
  BY <1>1, <1>3, <1>5 DEF Answered
<1>7. ASSUME NEW i \in 1 .. Len(e), e[i].event = "ToolRequested" PROVE Answered(e, i)
  <2>1. CASE i \in 1 .. n /\ i # n
    <3>1. Answered(d, i)
      BY <1>1, <1>7, <2>1 DEF Orderly
    <3> QED
      BY <1>4, <2>1, <3>1, AnsweredStays DEF e
  <2>2. CASE i \in n + 1 .. j - 1
    BY <1>5, <1>7, <2>2
  <2>3. CASE i = j
    BY <1>1, <1>7, <2>3
  <2> QED
    BY <1>1, <1>6, <2>1, <2>2, <2>3
<1> QED
  BY <1>7 DEF Resolved, e

\* A checkpoint that leaves the log resolved, or fails, keeps the requests in order.
LEMMA PersistRequests ==
    ASSUME Sound, NEW news \in Seq(RuntimeFact), NEW ok \in BOOLEAN,
           NEW next \in Stages \ {"asking", "awaiting"}, Persist(news, ok, next),
           UnresolvedIsLast,
           LET waiting == SubSeq(facts, persisted + 1, Len(facts)) IN
           Resolved(durable \o (waiting \o news))
    PROVE  RequestInv'
<1> DEFINE waiting == SubSeq(facts, persisted + 1, Len(facts))
           log == durable \o (waiting \o news)
           rows == RuntimeFact \cup DirectFact
<1>1. /\ JournalType /\ next \in Stages /\ facts \in Seq(RuntimeFact)
      /\ persisted \in 0 .. Len(facts) /\ durable \in Seq(rows)
  BY TypeParts DEF Sound, JournalType
<1>2. /\ waiting \in Seq(RuntimeFact)
      /\ facts' = facts \o news
      /\ IF ok
         THEN /\ stage' = next /\ persisted' = Len(facts')
              /\ durable' = log
         ELSE stage' = "failed" /\ persisted' = persisted /\ durable' = durable
  BY <1>1, PersistTail
<1>3. log \in Seq(rows) /\ facts' \in Seq(RuntimeFact)
  <2>1. waiting \o news \in Seq(RuntimeFact)
    <3> HIDE DEF waiting
    <3> QED
      BY <1>2
  <2> DEFINE added == waiting \o news
  <2>2. added \in Seq(RuntimeFact)
    BY <2>1
  <2> HIDE DEF added
  <2>3. added \in Seq(rows)
    BY <2>2
  <2>4. durable \o added \in Seq(rows)
    BY <1>1, <2>3
  <2>5. facts \o news \in Seq(RuntimeFact)
    BY <1>1
  <2> QED
    BY <1>2, <2>4, <2>5 DEF added
<1>4. Resolved(log)
  OBVIOUS
<1> HIDE DEF log, waiting, rows
<1>5. CASE ok
  <2>1. stage' = next /\ durable' = log /\ persisted' = Len(facts')
    BY <1>2, <1>5
  <2>2. Orderly(log) /\ Settled(log)
    BY <1>3, <1>4, ResolvedIsSettled
  <2>3. UnresolvedIsLast'
    BY <2>1, <2>2 DEF UnresolvedIsLast, Orderly, Answered
  <2>4. (durable' # <<>> => Last(durable').event # "ToolRequested")
    BY <2>1, <2>2 DEF Settled
  <2>5. persisted' + 1 .. Len(facts') = {}
    BY <1>3, <2>1
  <2> QED
    BY <1>1, <2>1, <2>3, <2>4, <2>5 DEF RequestInv
<1>6. CASE ~ok
  <2>1. stage' = "failed" /\ durable' = durable
    BY <1>2, <1>6
  <2>2. UnresolvedIsLast'
    BY <2>1 DEF UnresolvedIsLast
  <2> QED
    BY <2>1, <2>2 DEF RequestInv, Ended
<1> QED
  BY <1>5, <1>6

\* Where no request is open, all are resolved.
LEMMA NoneOpen ==
    ASSUME Sound, RequestInv, stage \notin Ended \cup {"asking", "awaiting"}
    PROVE  Resolved(durable) /\ durable \in Seq(RuntimeFact \cup DirectFact)
<1> DEFINE rows == RuntimeFact \cup DirectFact
<1>1. durable \in Seq(rows)
  BY TypeParts DEF Sound, JournalType
<1> HIDE DEF rows
<1>2. Orderly(durable) /\ Settled(durable)
  BY DEF RequestInv, UnresolvedIsLast, Orderly, Settled, Answered
<1> QED
  BY <1>1, <1>2, ResolvedIsSettled DEF rows

\* A checkpoint taken while no request is open.
LEMMA PersistResolved ==
    ASSUME Sound, RequestInv, stage \notin Ended \cup {"asking", "awaiting"},
           NEW news \in Seq(RuntimeFact), NEW ok \in BOOLEAN,
           NEW next \in Stages \ {"asking", "awaiting"}, Persist(news, ok, next)
    PROVE  RequestInv'
<1> DEFINE waiting == SubSeq(facts, persisted + 1, Len(facts))
           added == waiting \o news
           rows == RuntimeFact \cup DirectFact
<1>1. JournalType /\ next \in Stages
  BY TypeParts DEF Sound
<1>2. waiting \in Seq(RuntimeFact)
  BY <1>1, PersistTail
<1> HIDE DEF waiting
<1>3. added \in Seq(RuntimeFact)
  BY <1>2
<1> HIDE DEF added
<1>4. added \in Seq(rows)
  BY <1>3
<1>5. ASSUME NEW k \in 1 .. Len(added) PROVE added[k].event # "ToolRequested"
  <2>1. added[k] \in RuntimeFact
    BY <1>3
  <2> QED
    BY <2>1, RuntimeEvents
<1>6. Resolved(durable) /\ durable \in Seq(rows)
  BY NoneOpen
<1> HIDE DEF rows
<1>7. Resolved(durable \o added)
  BY <1>4, <1>5, <1>6, ResolvedConcat
<1> QED
  BY <1>7, PersistRequests DEF RequestInv, added, waiting

\* What waits with a request, as it is recorded.
LEMMA RecordRequests ==
    ASSUME Sound, RequestInv, Recording
    PROVE  RequestInv'
<1>1. PICK ok \in BOOLEAN, commits \in Seq(RuntimeFact), context \in RuntimeFact :
         /\ Persist(commits \o <<context>>, ok, "weighing")
         /\ \/ commits = <<>> /\ evidence' = evidence
            \/ commits = <<EvidenceCommitted(Len(evidence) + 1)>>
                   /\ evidence' = Append(evidence, Call)
         /\ context.event = "ToolContext"
         /\ context.call = Call /\ context.provider = active
         /\ context.after = Spent
         /\ stage # "tools" => context.before = Spent - 1
         /\ stage \in {"tools", "asking", "awaiting"}
         /\ UNCHANGED <<report, admission, attempted, active, status, attempts>>
  BY RecordingNews
<1>2. commits \o <<context>> \in Seq(RuntimeFact)
  OBVIOUS
<1>3. "weighing" \in Stages \ {"asking", "awaiting"}
  BY DEF Stages
<1>4. CASE stage = "tools"
  BY <1>1, <1>2, <1>3, <1>4, PersistResolved DEF Ended
<1>5. CASE stage \in {"asking", "awaiting"}
  <2> DEFINE waiting == SubSeq(facts, persisted + 1, Len(facts))
             t == waiting \o commits
             rows == RuntimeFact \cup DirectFact
  <2>1. /\ JournalType /\ facts \in Seq(RuntimeFact) /\ persisted \in 0 .. Len(facts)
        /\ durable \in Seq(rows) /\ "weighing" \in Stages
    BY TypeParts DEF Sound, JournalType, Stages
  <2>2. waiting \in Seq(RuntimeFact) /\ Len(waiting) = Len(facts) - persisted
    BY <2>1
  <2>3. ASSUME NEW k \in 1 .. Len(waiting) PROVE waiting[k].event = "PhaseStarted"
    <3>1. persisted + k \in persisted + 1 .. Len(facts) /\ waiting[k] = facts[persisted + k]
      BY <2>1, <2>2
    <3> QED
      BY <1>5, <3>1 DEF RequestInv, Ended
  <2> HIDE DEF waiting
  <2>4. ASSUME NEW k \in 1 .. Len(commits) PROVE commits[k].event = "EvidenceCommitted"
    BY <1>1 DEF EvidenceCommitted
  <2>5. t \in Seq(RuntimeFact)
    BY <2>2
  <2>6. ASSUME NEW k \in 1 .. Len(t) PROVE t[k].event \in {"PhaseStarted", "EvidenceCommitted"}
    <3>1. CASE k <= Len(waiting)
      <4>1. k \in 1 .. Len(waiting) /\ t[k] = waiting[k]
        BY <2>2, <3>1
      <4> QED
        BY <2>3, <4>1
    <3>2. CASE k > Len(waiting)
      <4>1. k - Len(waiting) \in 1 .. Len(commits) /\ t[k] = commits[k - Len(waiting)]
        BY <2>2, <3>2
      <4> QED
        BY <2>4, <4>1
    <3> QED
      BY <2>2, <3>1, <3>2
  <2>7. waiting \o (commits \o <<context>>) = t \o <<context>>
    <3>1. <<context>> \in Seq(RuntimeFact)
      OBVIOUS
    <3> QED
      BY <2>2, <3>1, ConcatAssociative
  <2> HIDE DEF t
  <2>8. t \in Seq(rows) /\ context \in rows
    BY <2>5
  <2>9. /\ durable # <<>> /\ UnresolvedIsLast
        /\ Last(durable) = ToolRequested(active, Call, Spent - 1)
    BY <1>5 DEF RequestInv
  <2>10. /\ Last(durable).event = "ToolRequested" /\ Last(durable).call = Call
         /\ Last(durable).provider = active /\ Last(durable).before = Spent - 1
    BY <2>9 DEF ToolRequested
  <2>11. Orderly(durable)
    BY <2>9 DEF UnresolvedIsLast, Orderly, Answered
  <2>12. context.before = Last(durable).before /\ context.after = Last(durable).before + 1
    <3>1. Spent \in Nat
      BY TypeParts DEF Sound, RunTypeOK, Spent, Resources
    <3> QED
      BY <1>1, <1>5, <2>10, <3>1
  <2>13. context.event = "ToolContext" /\ context.call = Last(durable).call
         /\ context.provider = Last(durable).provider
    BY <1>1, <2>10
  <2> HIDE DEF rows
  <2>14. Resolved(durable \o (t \o <<context>>))
    BY <2>1, <2>6, <2>8, <2>9, <2>10, <2>11, <2>12, <2>13, ResolvedAnswer
  <2>15. Resolved(durable \o (waiting \o (commits \o <<context>>)))
    BY <2>7, <2>14
  <2> QED
    BY <1>1, <1>2, <1>3, <2>9, <2>15, PersistRequests DEF waiting
<1> QED
  BY <1>1, <1>4, <1>5

LEMMA RequestStep == Sound /\ Sound' /\ RequestInv /\ [Next]_vars => RequestInv'
<1> SUFFICES ASSUME Sound, Sound', RequestInv, [Next]_vars PROVE RequestInv'
  OBVIOUS
<1> DEFINE rows == RuntimeFact \cup DirectFact
<1>1. /\ TypeOK /\ CallInv /\ FallbackInv /\ UnresolvedIsLast
      /\ facts \in Seq(RuntimeFact) /\ persisted \in 0 .. Len(facts) /\ durable \in Seq(rows)
      /\ stage \in Stages
  BY TypeParts DEF Sound, RequestInv, JournalType, TypeOK
<1>2. {"metrics", "collected", "admitting", "done"} \subseteq Stages \ {"asking", "awaiting"}
  BY DEF Stages
<1> HIDE DEF rows
<1>3. CASE Silent
  <2>1. UNCHANGED <<facts, persisted, durable, active>> /\ stage \notin Ended
    BY <1>3 DEF Silent, journalVars
  <2>2. UnresolvedIsLast'
    BY <1>1, <2>1 DEF UnresolvedIsLast
  <2>3. \/ stage' = "failed"
        \/ /\ stage' = stage \/ (stage = "asking" /\ stage' = "awaiting")
           /\ Call' = Call /\ Spent' = Spent
        \/ stage \in {"turn", "replying", "weighing"} /\ stage' \in {"turn", "replying", "tools"}
    <3>1. UNCHANGED <<calls, totals>> => Call' = Call /\ Spent' = Spent
      BY DEF Call, Spent
    <3> QED
      BY <1>3, <3>1 DEF Silent
  <2>4. stage' = "failed" \/ stage' \notin Ended
    BY <2>1, <2>3 DEF Ended
  <2>5. stage' \in {"asking", "awaiting"} =>
           /\ stage \in {"asking", "awaiting"} /\ Call' = Call /\ Spent' = Spent
    BY <2>3
  <2>6. stage' \notin Ended \cup {"asking", "awaiting"} => stage \notin {"asking", "awaiting"}
    BY <2>3 DEF Ended
  <2> QED
    BY <2>1, <2>2, <2>4, <2>5, <2>6 DEF RequestInv
<1>4. CASE Opens
  <2>1. PICK ok \in BOOLEAN :
           \/ stage = "new" /\ Write(PhaseStarted("Investigation"), ok, "logs")
           \/ stage = "collected" /\ Write(PhaseFinished("Investigation"), ok, "admitting")
    BY <1>4 DEF Opens
  <2>2. stage \notin Ended \cup {"asking", "awaiting"} /\ stage' \in {"logs", "admitting", "failed"}
    BY <2>1 DEF Write, Ended
  <2>3. Resolved(durable)
    BY <2>2, NoneOpen
  <2>4. PICK f \in rows :
           /\ f.event # "ToolRequested"
           /\ durable' \in {durable, Append(durable, f)}
           /\ UNCHANGED <<facts, persisted>>
    BY <2>1, DirectFactForms DEF Write, rows, PhaseStarted, PhaseFinished
  <2>5. Resolved(Append(durable, f)) /\ Append(durable, f) \in Seq(rows)
    BY <1>1, <2>3, <2>4, ResolvedRequest
  <2>6. PICK o : o = durable'
    OBVIOUS
  <2>7. Orderly(o) /\ Settled(o)
    BY <1>1, <2>3, <2>4, <2>5, <2>6, ResolvedIsSettled
  <2>8. UnresolvedIsLast'
    BY <2>6, <2>7 DEF UnresolvedIsLast, Orderly, Answered
  <2>9. (durable' # <<>> => Last(durable').event # "ToolRequested")
    BY <2>6, <2>7 DEF Settled
  <2> QED
    BY <2>2, <2>4, <2>8, <2>9 DEF RequestInv, Ended
<1>5. CASE Announces
  <2>1. /\ stage = "admitting" /\ stage' \in {"turn", "refused"}
        /\ UNCHANGED <<persisted, durable>> /\ facts' = Append(facts, PhaseStarted("Reasoning"))
    BY <1>5 DEF Announces
  <2>2. UnresolvedIsLast'
    BY <1>1, <2>1 DEF UnresolvedIsLast
  <2>3. ASSUME NEW i \in persisted' + 1 .. Len(facts') PROVE facts'[i].event = "PhaseStarted"
    <3>1. Len(facts') = Len(facts) + 1 /\ facts'[Len(facts) + 1] = PhaseStarted("Reasoning")
          /\ \A k \in 1 .. Len(facts) : facts'[k] = facts[k]
      <4>1. PhaseStarted("Reasoning") \in RuntimeFact
        BY RuntimeFactForms
      <4> QED
        BY <1>1, <2>1, <4>1
    <3>2. CASE i = Len(facts) + 1
      BY <3>1, <3>2 DEF PhaseStarted
    <3>3. CASE i # Len(facts) + 1
      <4>1. i \in persisted + 1 .. Len(facts) /\ i \in 1 .. Len(facts)
        BY <1>1, <2>1, <3>1, <3>3
      <4> QED
        BY <2>1, <3>1, <4>1 DEF RequestInv, Ended
    <3> QED
      BY <3>2, <3>3
  <2>4. durable # <<>> => Last(durable).event # "ToolRequested"
    BY <2>1 DEF RequestInv, Ended
  <2> QED
    BY <2>1, <2>2, <2>3, <2>4 DEF RequestInv
<1>6. CASE Collecting \/ Exhausting \/ Failing \/ Succeeding
  <2>1. PICK news \in Seq(RuntimeFact), ok \in BOOLEAN, next \in Stages \ {"asking", "awaiting"} :
           Persist(news, ok, next) /\ stage \notin Ended \cup {"asking", "awaiting"}
    <3>1. CASE Collecting
      BY <1>1, <1>2, <3>1, CollectingNews, Zenon DEF Ended
    <3>2. CASE Exhausting
      BY <1>1, <1>2, <3>2, ExhaustingNews DEF Ended
    <3>3. CASE Failing
      BY <1>1, <1>2, <3>3, FailingNews DEF Ended
    <3>4. CASE Succeeding
      BY <1>1, <1>2, <3>4, SucceedingNews DEF Ended
    <3> QED
      BY <1>6, <3>1, <3>2, <3>3, <3>4
  <2> QED
    BY <2>1, PersistResolved
<1>7. CASE Recording
  BY <1>7, RecordRequests
<1>8. CASE Requests
  <2>1. PICK ok \in BOOLEAN : ToolRequest(ok)
    BY <1>8 DEF Requests
  <2> DEFINE request == ToolRequested(active, Call, Spent)
  <2>2. /\ request \in rows
        /\ stage = "tools" /\ Spent \in Nat /\ Spent' = Spent + 1 /\ Call' = Call
        /\ UNCHANGED <<facts, persisted, active>>
        /\ IF ok THEN stage' = "asking" /\ durable' = Append(durable, request)
                 ELSE stage' = "failed" /\ durable' = durable
    BY <2>1, RequestForm DEF rows
  <2>3. Resolved(durable)
    BY <2>2, NoneOpen DEF Ended
  <2>4. Spent' - 1 = Spent
    BY <2>2
  <2>5. request = ToolRequested(active', Call', Spent' - 1)
    BY <2>2, <2>4
  <2> HIDE DEF request
  <2>6. CASE ok
    <3>1. PICK o : o = durable'
      OBVIOUS
    <3>2. Orderly(o) /\ o # <<>> /\ Last(o) = request
      BY <1>1, <2>2, <2>3, <2>6, <3>1, ResolvedRequest
    <3>3. UnresolvedIsLast'
      BY <3>1, <3>2 DEF UnresolvedIsLast, Orderly, Answered
    <3>4. durable' # <<>> /\ Last(durable') = ToolRequested(active', Call', Spent' - 1)
      BY <2>5, <3>1, <3>2
    <3>5. \A i \in persisted + 1 .. Len(facts) : facts[i].event = "PhaseStarted"
      BY <2>2 DEF RequestInv, Ended
    <3> QED
      BY <2>2, <2>6, <3>3, <3>4, <3>5 DEF RequestInv
  <2>7. CASE ~ok
    <3>1. UnresolvedIsLast'
      BY <1>1, <2>2, <2>7 DEF UnresolvedIsLast
    <3> QED
      BY <2>2, <2>7, <3>1 DEF RequestInv, Ended
  <2> QED
    BY <2>6, <2>7
<1>9. CASE UNCHANGED vars
  <2>1. UNCHANGED <<stage, facts, persisted, durable, active>> /\ Call' = Call /\ Spent' = Spent
    BY <1>9 DEF vars, journalVars, runVars, Call, Spent
  <2>2. UnresolvedIsLast'
    BY <1>1, <2>1 DEF UnresolvedIsLast
  <2> QED
    BY <2>1, <2>2 DEF RequestInv
<1> QED
  BY <1>1, <1>3, <1>4, <1>5, <1>6, <1>7, <1>8, <1>9, StepCases

-----------------------------------------------------------------------------
(* Attempts, evidence and reports *)

LEMMA AttemptsStep ==
    Sound /\ AttemptsInv /\ Next => AttemptsInv'
<1> SUFFICES ASSUME Sound, AttemptsInv, Next PROVE AttemptsInv'
  OBVIOUS
<1>1. /\ TypeOK /\ CallInv /\ FallbackInv
      /\ attempts \in Seq(Attempt) /\ attempted \subseteq Providers /\ None \notin Providers
  BY TypeParts, OrderAssumption DEF Sound, RunTypeOK
<1>2. CASE UNCHANGED <<admission, attempted, active, attempts>>
  BY <1>2 DEF AttemptsInv
<1>3. CASE Announces
  <2>1. CASE NextProvider # None /\ Engage(NextProvider) /\ UNCHANGED <<admission, attempts>>
    <3>1. active = None /\ NextProvider \notin attempted
      <4>1. PICK n \in Remaining : NextProvider = Order[n]
        BY <2>1, NextProviderIsFirst
      <4> QED
        BY <2>1, <4>1, NextProviderIsFirst DEF Remaining
    <3>2. attempted' = attempted \cup {NextProvider} /\ active' = NextProvider
      BY <2>1 DEF Engage
    <3>3. attempted' \ {active'} = attempted \ {active}
      BY <1>1, <3>1, <3>2
    <3> QED
      BY <2>1, <3>2, <3>3 DEF AttemptsInv
  <2> QED
    BY <1>2, <1>3, <2>1 DEF Announces
<1>4. ASSUME NEW a \in Attempt, a.provider = active, attempts' = Append(attempts, a),
             active \in Providers, active' = None, UNCHANGED <<admission, attempted>>
      PROVE  AttemptsInv'
  <2>1. active \in attempted
    BY <1>1, <1>4 DEF AttemptsInv
  <2>2. /\ Len(attempts') = Len(attempts) + 1 /\ Len(attempts) \in Nat
        /\ attempts'[Len(attempts) + 1] = a
        /\ \A i \in 1 .. Len(attempts) : attempts'[i] = attempts[i]
    BY <1>1, <1>4
  <2>3. {attempts'[i].provider : i \in 1 .. Len(attempts')}
           = {attempts[i].provider : i \in 1 .. Len(attempts)} \cup {active}
    <3>1. 1 .. Len(attempts') = 1 .. Len(attempts) \cup {Len(attempts) + 1}
      BY <2>2
    <3> QED
      BY <1>4, <2>2, <3>1
  <2>4. attempted' \ {active'} = (attempted \ {active}) \cup {active}
    BY <1>1, <1>4, <2>1
  <2> QED
    BY <1>4, <2>3, <2>4 DEF AttemptsInv
<1>5. CASE Silent \/ Opens \/ Requests
  BY <1>2, <1>5 DEF Silent, Opens, Requests, ToolRequest, ReserveQuery
<1>6. CASE Collecting
  BY <1>1, <1>2, <1>6, CollectingNews
<1>7. CASE Exhausting
  BY <1>1, <1>2, <1>7, ExhaustingNews
<1>8. CASE Recording
  BY <1>1, <1>2, <1>8, RecordingNews
<1>9. CASE Failing
  BY <1>1, <1>4, <1>9, FailingNews
<1>10. CASE Succeeding
  <2>1. PICK a \in Attempt :
           /\ a = [provider |-> active, succeeded |-> TRUE] /\ attempts' = Append(attempts, a)
           /\ active \in Providers /\ active' = None
           /\ UNCHANGED <<evidence, admission, attempted>>
    BY <1>1, <1>10, SucceedingNews
  <2>2. a.provider = active
    BY <2>1
  <2> QED
    BY <1>4, <2>1, <2>2
<1> QED
  BY <1>1, <1>3, <1>5, <1>6, <1>7, <1>8, <1>9, <1>10, StepCases

LEMMA EvidenceStep ==
    Sound /\ EvidenceInv /\ Next => EvidenceInv'
<1> SUFFICES ASSUME Sound, EvidenceInv, Next PROVE EvidenceInv'
  OBVIOUS
<1>1. /\ TypeOK /\ CallInv /\ FallbackInv
      /\ evidence \in Seq(Queries) /\ facts \in Seq(RuntimeFact)
  BY TypeParts DEF Sound, BoardType, JournalType
<1>2. ASSUME NEW news \in Seq(RuntimeFact), facts' = facts \o news, evidence' = evidence
      PROVE  EvidenceInv'
  <2>1. \A i \in 1 .. Len(facts) : i \in 1 .. Len(facts') /\ facts'[i] = facts[i]
    BY <1>1, <1>2
  <2> QED
    BY <1>2, <2>1 DEF EvidenceInv
<1>3. ASSUME NEW q \in Queries, NEW news \in Seq(RuntimeFact), facts' = facts \o news,
             evidence' = Append(evidence, q),
             Len(news) # 0, news[1] = EvidenceCommitted(Len(evidence) + 1)
      PROVE  EvidenceInv'
  <2>1. \A i \in 1 .. Len(facts) : i \in 1 .. Len(facts') /\ facts'[i] = facts[i]
    BY <1>1, <1>3
  <2>2. Len(facts) + 1 \in 1 .. Len(facts') /\ facts'[Len(facts) + 1] = news[1]
    BY <1>1, <1>3
  <2>3. Len(evidence') = Len(evidence) + 1 /\ Len(evidence) \in Nat
    BY <1>1, <1>3
  <2>4. ASSUME NEW n \in 1 .. Len(evidence')
        PROVE  \E i \in 1 .. Len(facts') : facts'[i] = EvidenceCommitted(n)
    <3>1. CASE n \in 1 .. Len(evidence)
      BY <2>1, <3>1 DEF EvidenceInv
    <3>2. CASE n = Len(evidence) + 1
      BY <1>3, <2>2, <3>2
    <3> QED
      BY <2>3, <3>1, <3>2
  <2> QED
    BY <2>4 DEF EvidenceInv
<1>4. CASE Silent \/ Opens \/ Requests
  <2>1. UNCHANGED <<facts, evidence>>
    BY <1>4 DEF Silent, Opens, Requests, ToolRequest, Write, journalVars
  <2> QED
    BY <2>1 DEF EvidenceInv
<1>5. CASE Announces
  <2>1. PhaseStarted("Reasoning") \in RuntimeFact
    BY RuntimeFactForms
  <2>2. /\ <<PhaseStarted("Reasoning")>> \in Seq(RuntimeFact)
        /\ Append(facts, PhaseStarted("Reasoning")) = facts \o <<PhaseStarted("Reasoning")>>
    BY <1>1, <2>1
  <2> QED
    BY <1>2, <1>5, <2>2 DEF Announces
<1>6. CASE Exhausting
  BY <1>1, <1>2, <1>6, ExhaustingNews DEF Persist
<1>7. CASE Failing
  BY <1>1, <1>2, <1>7, FailingNews DEF Persist
<1>8. CASE Succeeding
  BY <1>1, <1>2, <1>8, SucceedingNews DEF Persist
<1>9. CASE Collecting
  <2> DEFINE news == <<EvidenceCommitted(Len(evidence) + 1)>>
  <2>1. /\ news \in Seq(RuntimeFact) /\ stage \in Queries
        /\ facts' = facts \o news /\ evidence' = Append(evidence, stage)
    BY <1>1, <1>9, CollectingNews DEF Persist, Queries
  <2>2. Len(news) # 0 /\ news[1] = EvidenceCommitted(Len(evidence) + 1)
    OBVIOUS
  <2> HIDE DEF news
  <2> QED
    BY <1>3, <2>1, <2>2
<1>10. CASE Recording
  <2>1. PICK commits \in Seq(RuntimeFact), context \in RuntimeFact :
           /\ facts' = facts \o (commits \o <<context>>)
           /\ \/ evidence' = evidence
              \/ commits = <<EvidenceCommitted(Len(evidence) + 1)>>
                     /\ evidence' = Append(evidence, Call)
           /\ stage \in {"tools", "asking", "awaiting"}
    BY <1>10, RecordingNews DEF Persist
  <2> DEFINE news == commits \o <<context>>
  <2>2. news \in Seq(RuntimeFact)
    OBVIOUS
  <2>3. commits # <<>> => Len(news) # 0 /\ news[1] = commits[1]
    OBVIOUS
  <2> HIDE DEF news
  <2>4. CASE evidence' = evidence
    BY <1>2, <2>1, <2>2, <2>4 DEF news
  <2>5. CASE /\ commits = <<EvidenceCommitted(Len(evidence) + 1)>>
             /\ evidence' = Append(evidence, Call)
    <3>1. commits # <<>> /\ commits[1] = EvidenceCommitted(Len(evidence) + 1)
      BY <2>5
    <3>2. Call \in Queries
      <4>1. evidence' \in Seq(Queries)
        BY TypeStep, TypePartsPrimed, <1>1 DEF BoardType
      <4>2. evidence'[Len(evidence) + 1] = Call /\ Len(evidence') = Len(evidence) + 1
        BY <1>1, <2>5
      <4> QED
        BY <1>1, <4>1, <4>2
    <3> QED
      BY <1>3, <2>1, <2>2, <2>3, <2>5, <3>1, <3>2 DEF news
  <2> QED
    BY <2>1, <2>4, <2>5
<1> QED
  BY <1>1, <1>4, <1>5, <1>6, <1>7, <1>8, <1>9, <1>10, StepCases

\* A checkpoint without a terminal fact.
LEMMA PersistNothing ==
    ASSUME JournalType, NEW news \in Seq(RuntimeFact), NEW ok \in BOOLEAN, NEW next \in Stages,
           Persist(news, ok, next),
           \A i \in 1 .. Len(news) : news[i].event # "Terminal",
           \A i \in 1 .. Len(facts) : facts[i].event # "Terminal",
           \A i \in 1 .. Len(durable) : durable[i].event # "Terminal"
    PROVE  /\ \A i \in 1 .. Len(facts') : facts'[i].event # "Terminal"
           /\ \A i \in 1 .. Len(durable') : durable'[i].event # "Terminal"
<1> DEFINE waiting == SubSeq(facts, persisted + 1, Len(facts))
           rows == RuntimeFact \cup DirectFact
           Plain(s) == \A i \in 1 .. Len(s) : s[i].event # "Terminal"
<1>1. ASSUME NEW T, NEW s \in Seq(T), NEW t \in Seq(T), Plain(s), Plain(t) PROVE Plain(s \o t)
  <2> SUFFICES ASSUME NEW i \in 1 .. Len(s \o t) PROVE (s \o t)[i].event # "Terminal"
    OBVIOUS
  <2>1. CASE i <= Len(s)
    <3>1. i \in 1 .. Len(s) /\ (s \o t)[i] = s[i]
      BY <2>1
    <3> QED
      BY <1>1, <3>1
  <2>2. CASE i > Len(s)
    <3>1. i - Len(s) \in 1 .. Len(t) /\ (s \o t)[i] = t[i - Len(s)]
      BY <2>2
    <3> QED
      BY <1>1, <3>1
  <2>3. i \in Nat /\ Len(s) \in Nat
    OBVIOUS
  <2> QED
    BY <2>1, <2>2, <2>3
<1>2. /\ facts \in Seq(RuntimeFact) /\ persisted \in 0 .. Len(facts) /\ durable \in Seq(rows)
      /\ Plain(facts) /\ Plain(durable) /\ Plain(news)
  BY DEF JournalType
<1>3. Plain(waiting) /\ waiting \in Seq(RuntimeFact)
  <2>1. waiting \in Seq(RuntimeFact) /\ Len(waiting) = Len(facts) - persisted
    BY <1>2
  <2>2. ASSUME NEW i \in 1 .. Len(waiting)
        PROVE  persisted + i \in 1 .. Len(facts) /\ waiting[i] = facts[persisted + i]
    BY <1>2, <2>1
  <2> HIDE DEF waiting
  <2> QED
    BY <1>2, <2>1, <2>2
<1> HIDE DEF waiting, Plain
<1>4. Plain(waiting \o news) /\ waiting \o news \in Seq(RuntimeFact)
  BY <1>1, <1>2, <1>3
<1> DEFINE added == waiting \o news
<1>5. added \in Seq(rows) /\ Plain(added)
  <2>1. added \in Seq(RuntimeFact) /\ Plain(added)
    BY <1>4
  <2> HIDE DEF added
  <2> QED
    BY <2>1
<1> HIDE DEF added, rows
<1>6. Plain(durable \o added)
  BY <1>1, <1>2, <1>5
<1>7. Plain(facts \o news)
  BY <1>1, <1>2
<1>8. facts' = facts \o news /\ durable' \in {durable, durable \o added}
  BY PersistTail DEF waiting, added
<1> QED
  BY <1>2, <1>6, <1>7, <1>8 DEF Plain

LEMMA AcceptedStep ==
    Sound /\ NothingAccepted /\ Next => NothingAccepted'
<1> SUFFICES ASSUME Sound, NothingAccepted, Next PROVE NothingAccepted'
  OBVIOUS
<1> DEFINE rows == RuntimeFact \cup DirectFact
<1>1. /\ TypeOK /\ CallInv /\ FallbackInv /\ JournalType
      /\ attempts \in Seq(Attempt) /\ facts \in Seq(RuntimeFact) /\ durable \in Seq(rows)
  BY TypeParts DEF Sound, RunTypeOK, JournalType
<1>2. CASE stage \in Ended
  <2>1. FALSE
    <3>1. ~ (Silent \/ Opens \/ Announces \/ Requests)
      BY <1>2 DEF Silent, Opens, Announces, Requests, ToolRequest, Write, Ended
    <3>2. ~ (Collecting \/ Exhausting \/ Failing \/ Succeeding \/ Recording)
      BY <1>2 DEF Collecting, Exhausting, Failing, Succeeding, Recording, BaselineQuery,
                  NobodyLeft, Ended
    <3> QED
      BY <1>1, <3>1, <3>2, StepCases
  <2> QED
    BY <2>1
<1>3. CASE stage \notin Ended
  <2>1. /\ status \notin Providers
        /\ report = 0
        /\ \A i \in 1 .. Len(attempts) : Failed(attempts[i])
        /\ \A i \in 1 .. Len(facts) : facts[i].event # "Terminal"
        /\ \A i \in 1 .. Len(durable) : durable[i].event # "Terminal"
    BY <1>1, <1>3, OrderAssumption DEF FallbackInv, NothingAccepted
  <2>2. ASSUME report' = report,
               attempts' = attempts \/ \E a \in Attempt : Failed(a) /\ attempts' = Append(attempts, a),
               \A i \in 1 .. Len(facts') : facts'[i].event # "Terminal",
               \A i \in 1 .. Len(durable') : durable'[i].event # "Terminal"
        PROVE  NothingAccepted'
    <3>1. \A i \in 1 .. Len(attempts') : Failed(attempts'[i])
      <4>1. CASE attempts' = attempts
        BY <2>1, <4>1
      <4>2. ASSUME NEW a \in Attempt, Failed(a), attempts' = Append(attempts, a)
            PROVE  \A i \in 1 .. Len(attempts') : Failed(attempts'[i])
        <5>1. /\ Len(attempts') = Len(attempts) + 1 /\ Len(attempts) \in Nat
              /\ attempts'[Len(attempts) + 1] = a
              /\ \A i \in 1 .. Len(attempts) : attempts'[i] = attempts[i]
          BY <1>1, <4>2
        <5>2. \A i \in 1 .. Len(attempts') : i \in 1 .. Len(attempts) \/ i = Len(attempts) + 1
          BY <5>1
        <5> QED
          BY <2>1, <4>2, <5>1, <5>2
      <4> QED
        BY <2>2, <4>1, <4>2
    <3> QED
      BY <2>1, <2>2, <3>1 DEF NothingAccepted
  <2>3. ASSUME NEW news \in Seq(RuntimeFact), NEW ok \in BOOLEAN, NEW next \in Stages,
               Persist(news, ok, next),
               \A i \in 1 .. Len(news) : news[i].event # "Terminal"
        PROVE  /\ \A i \in 1 .. Len(facts') : facts'[i].event # "Terminal"
               /\ \A i \in 1 .. Len(durable') : durable'[i].event # "Terminal"
    BY <1>1, <2>1, <2>3, PersistNothing
  <2>4. ASSUME NEW fact \in DirectFact, facts' = facts, durable' \in {durable, Append(durable, fact)}
        PROVE  /\ \A i \in 1 .. Len(facts') : facts'[i].event # "Terminal"
               /\ \A i \in 1 .. Len(durable') : durable'[i].event # "Terminal"
    <3>1. fact.event # "Terminal" /\ fact \in rows
      BY <2>4, DirectNotRuntime
    <3> HIDE DEF rows
    <3>2. \A i \in 1 .. Len(Append(durable, fact)) : Append(durable, fact)[i].event # "Terminal"
      BY <1>1, <2>1, <3>1
    <3> QED
      BY <2>1, <2>4, <3>2
  <2>5. {"metrics", "collected", "admitting", "done", "weighing"} \subseteq Stages
    BY DEF Stages
  <2> HIDE DEF rows
  <2>6. CASE Silent
    BY <2>1, <2>2, <2>6 DEF Silent, journalVars
  <2>7. CASE Opens
    <3>1. \E fact \in DirectFact : facts' = facts /\ durable' \in {durable, Append(durable, fact)}
      BY <2>7, DirectFactForms DEF Opens, Write
    <3> QED
      BY <2>2, <2>4, <2>7, <3>1 DEF Opens
  <2>8. CASE Requests
    <3>1. PICK ok \in BOOLEAN : ToolRequest(ok)
      BY <2>8 DEF Requests
    <3>2. /\ ToolRequested(active, Call, Spent) \in DirectFact /\ facts' = facts
          /\ durable' \in {durable, Append(durable, ToolRequested(active, Call, Spent))}
          /\ report' = report /\ attempts' = attempts
      BY <3>1, RequestForm
    <3> QED
      BY <2>2, <2>4, <3>2
  <2>9. CASE Announces
    <3>1. facts' = Append(facts, PhaseStarted("Reasoning")) /\ durable' = durable
          /\ report' = report /\ attempts' = attempts
      BY <2>9 DEF Announces
    <3>2. \A i \in 1 .. Len(facts') : facts'[i].event # "Terminal"
      <4>1. PhaseStarted("Reasoning") \in RuntimeFact /\ PhaseStarted("Reasoning").event # "Terminal"
        BY RuntimeFactForms DEF PhaseStarted
      <4> QED
        BY <1>1, <2>1, <3>1, <4>1
    <3> QED
      BY <2>1, <2>2, <3>1, <3>2
  <2>10. CASE Collecting
    <3> DEFINE news == <<EvidenceCommitted(Len(evidence) + 1)>>
    <3>1. \A i \in 1 .. Len(news) : news[i].event # "Terminal"
      BY DEF EvidenceCommitted
    <3>2. PICK ok \in BOOLEAN :
             /\ news \in Seq(RuntimeFact) /\ stage \in {"logs", "metrics"}
             /\ Persist(news, ok, IF stage = "logs" THEN "metrics" ELSE "collected")
             /\ report' = report /\ attempts' = attempts
      BY <1>1, <2>10, CollectingNews
    <3> HIDE DEF news
    <3> QED
      BY <2>2, <2>3, <2>5, <3>1, <3>2
  <2>11. CASE Exhausting
    <3> DEFINE news == <<PhaseStarted("Reasoning")>>
    <3>1. \A i \in 1 .. Len(news) : news[i].event # "Terminal"
      BY DEF PhaseStarted
    <3>2. PICK ok \in BOOLEAN :
             /\ news \in Seq(RuntimeFact) /\ Persist(news, ok, "done")
             /\ report' = report /\ attempts' = attempts
      BY <2>11, ExhaustingNews
    <3> HIDE DEF news
    <3> QED
      BY <2>2, <2>3, <2>5, <3>1, <3>2
  <2>12. CASE Failing
    <3>1. PICK ok \in BOOLEAN, a \in Attempt :
             /\ <<ProviderAttempt(a), PhaseFinished("Reasoning")>> \in Seq(RuntimeFact)
             /\ Persist(<<ProviderAttempt(a), PhaseFinished("Reasoning")>>, ok, "admitting")
             /\ Failed(a) /\ attempts' = Append(attempts, a) /\ report' = report
      BY <1>1, <2>12, FailingNews
    <3> DEFINE news == <<ProviderAttempt(a), PhaseFinished("Reasoning")>>
    <3>2. \A i \in 1 .. Len(news) : news[i].event # "Terminal"
      BY DEF ProviderAttempt, PhaseFinished
    <3>3. news \in Seq(RuntimeFact) /\ Persist(news, ok, "admitting")
      BY <3>1
    <3> HIDE DEF news
    <3> QED
      BY <2>2, <2>3, <2>5, <3>1, <3>2, <3>3
  <2>13. CASE Succeeding
    <3>1. status' \in Providers
      BY <1>1, <2>13, SucceedingNews
    <3> QED
      BY <3>1 DEF NothingAccepted
  <2>14. CASE Recording
    <3>1. PICK ok \in BOOLEAN, commits \in Seq(RuntimeFact), context \in RuntimeFact :
             /\ Persist(commits \o <<context>>, ok, "weighing")
             /\ commits = <<>> \/ commits = <<EvidenceCommitted(Len(evidence) + 1)>>
             /\ context.event = "ToolContext"
             /\ report' = report /\ attempts' = attempts
      BY <2>14, RecordingNews
    <3> DEFINE news == commits \o <<context>>
    <3>2. \A i \in 1 .. Len(news) : news[i].event # "Terminal"
      BY <3>1 DEF EvidenceCommitted
    <3>3. news \in Seq(RuntimeFact) /\ Persist(news, ok, "weighing")
      BY <3>1
    <3> HIDE DEF news
    <3> QED
      BY <2>2, <2>3, <2>5, <3>1, <3>2, <3>3
  <2> QED
    BY <1>1, <2>6, <2>7, <2>8, <2>9, <2>10, <2>11, <2>12, <2>13, <2>14, StepCases
<1> QED
  BY <1>2, <1>3

\* What is durable of the evidence after a step, if nothing waits.
LEMMA EvidenceDurablePrimed ==
    ASSUME JournalType', EvidenceInv', StoreInv', persisted' = Len(facts')
    PROVE  \A n \in 1 .. Len(evidence') :
              \E i \in 1 .. Len(durable') : durable'[i] = EvidenceCommitted(n)
<1> DEFINE rows == RuntimeFact \cup DirectFact
<1>1. durable' \in Seq(rows) /\ facts' \in Seq(RuntimeFact)
  BY DEF JournalType
<1>2. PICK d, f : d = durable' /\ f = facts'
  OBVIOUS
<1>3. Selected(d, RuntimeFact) = f
  <2>1. SubSeq(f, 1, Len(f)) = f
    BY <1>1, <1>2, SubSeqFull
  <2> QED
    BY <1>2, <2>1 DEF StoreInv
<1> HIDE DEF rows
<1>4. \A i \in DOMAIN f : \E j \in DOMAIN d : f[i] = d[j]
  BY <1>1, <1>2, <1>3, SelectedMembers
<1>5. DOMAIN f = 1 .. Len(f) /\ DOMAIN d = 1 .. Len(d)
  BY <1>1, <1>2
<1> QED
  BY <1>2, <1>4, <1>5 DEF EvidenceInv

LEMMA OutcomeStep ==
    Sound /\ Sound' /\ StoreInv /\ StoreInv' /\ OutcomeInv /\ [Next]_vars => OutcomeInv'
<1> SUFFICES ASSUME Sound, Sound', StoreInv, StoreInv', OutcomeInv, [Next]_vars
             PROVE  OutcomeInv'
  OBVIOUS
<1>1. /\ TypeOK /\ CallInv /\ FallbackInv /\ JournalType /\ JournalType'
      /\ AttemptsInv /\ NothingAccepted /\ EvidenceInv /\ OutcomeAgrees
      /\ attempts \in Seq(Attempt) /\ attempts' \in Seq(Attempt)
      /\ durable' \in Seq(RuntimeFact \cup DirectFact)
      /\ facts' \in Seq(RuntimeFact) /\ attempted \subseteq Providers
      /\ None \notin Providers /\ "Exhausted" \notin Providers
  BY TypeParts, TypePartsPrimed, OrderAssumption DEF Sound, OutcomeInv, RunTypeOK, JournalType
<1>2. CASE UNCHANGED vars
  BY <1>1, <1>2 DEF vars, runVars, journalVars, OutcomeInv, AttemptsInv, NothingAccepted,
                    EvidenceInv, OutcomeAgrees
<1>3. CASE Next
  <2>1. AttemptsInv' /\ NothingAccepted' /\ EvidenceInv'
    BY <1>1, <1>3, AttemptsStep, AcceptedStep, EvidenceStep
  <2> SUFFICES OutcomeAgrees'
    BY <2>1 DEF OutcomeInv
  <2>2. ASSUME stage' # "done" PROVE OutcomeAgrees'
    BY <2>2 DEF OutcomeAgrees
  <2>3. CASE Silent \/ Opens \/ Announces \/ Requests
    <3>1. stage' # "done"
      BY <2>3 DEF Silent, Opens, Announces, Requests, ToolRequest, Write, Ended
    <3> QED
      BY <2>2, <3>1
  <2>4. CASE Collecting \/ Failing \/ Recording
    <3>1. stage' # "done"
      <4>1. CASE Collecting
        BY <1>1, <4>1, CollectingNews DEF Persist
      <4>2. CASE Failing
        BY <1>1, <4>2, FailingNews DEF Persist
      <4>3. CASE Recording
        BY <4>3, RecordingNews DEF Persist
      <4> QED
        BY <2>4, <4>1, <4>2, <4>3
    <3> QED
      BY <2>2, <3>1
  <2>5. CASE Exhausting
    <3>1. /\ stage = "admitting" /\ Remaining = {} /\ active = None /\ status' = "Exhausted"
          /\ UNCHANGED <<evidence, report, admission, attempted, active, attempts>>
      BY <2>5, ExhaustingNews
    <3>2. /\ report' = 0
          /\ \A i \in 1 .. Len(attempts') : Failed(attempts'[i])
          /\ \A i \in 1 .. Len(durable') : durable'[i].event # "Terminal"
      BY <1>1, <2>1, <3>1 DEF NothingAccepted
    <3>3. {attempts'[i].provider : i \in 1 .. Len(attempts')} = attempted'
      BY <1>1, <2>1, <3>1 DEF AttemptsInv
    <3>4. attempted = admission \cap {Order[i] : i \in 1 .. Len(Order)}
      <4>1. PICK n \in 0 .. Len(Order) : attempted = Tried(n)
        BY <1>1 DEF FallbackInv
      <4>2. attempted \subseteq admission \cap {Order[i] : i \in 1 .. Len(Order)}
        <5>1. Len(Order) \in Nat
          BY OrderAssumption
        <5>2. ASSUME NEW k \in 1 .. n PROVE k \in 1 .. Len(Order)
          BY <5>1
        <5> QED
          BY <4>1, <5>2 DEF Tried
      <4>3. ASSUME NEW i \in 1 .. Len(Order), Order[i] \in admission PROVE Order[i] \in attempted
        BY <3>1, <4>3 DEF Remaining
      <4> QED
        BY <4>2, <4>3
    <3>5. Len(attempts') \in 1 .. Len(attempts')
      <4>1. attempted # {}
        BY <1>1, <3>4 DEF AttemptsInv
      <4>2. 1 .. Len(attempts') # {}
        BY <3>1, <3>3, <4>1
      <4> QED
        BY <1>1, <4>2
    <3>6. Failed(Last(attempts'))
      BY <3>2, <3>5 DEF Last
    <3>7. \A i \in 1 .. Len(attempts') - 1 : Failed(attempts'[i])
      BY <1>1, <3>2
    <3> QED
      BY <3>1, <3>2, <3>3, <3>4, <3>6, <3>7 DEF OutcomeAgrees
  <2>6. CASE Succeeding
    <3>1. PICK ok \in BOOLEAN, a \in Attempt :
             LET news == <<ProviderAttempt(a), PhaseFinished("Reasoning"), Terminal(active)>> IN
             /\ news \in Seq(RuntimeFact)
             /\ stage \in {"turn", "replying"}
             /\ Persist(news, ok, "done")
             /\ a = [provider |-> active, succeeded |-> TRUE] /\ attempts' = Append(attempts, a)
             /\ active \in Providers /\ active' = None /\ status' = active
             /\ report' \in 1 .. Len(evidence)
             /\ UNCHANGED <<evidence, admission, attempted>>
      BY <1>1, <2>6, SucceedingNews
    <3> DEFINE news == <<ProviderAttempt(a), PhaseFinished("Reasoning"), Terminal(active)>>
               waiting == SubSeq(facts, persisted + 1, Len(facts))
               rows == RuntimeFact \cup DirectFact
    <3>2. CASE ~ok
      <4>1. stage' # "done"
        BY <3>1, <3>2 DEF Persist
      <4> QED
        BY <2>2, <4>1
    <3>3. CASE ok
      <4>0. Len(news) = 3 /\ news[3] = Terminal(active)
        OBVIOUS
      <4>1. /\ news \in Seq(RuntimeFact) /\ Persist(news, ok, "done") /\ "done" \in Stages
            /\ durable \in Seq(rows)
        BY <1>1, <3>1 DEF Stages, JournalType
      <4> HIDE DEF news
      <4>2. /\ persisted' = Len(facts') /\ durable' = durable \o (waiting \o news)
            /\ waiting \in Seq(RuntimeFact)
        BY <1>1, <3>3, <4>1, PersistTail
      <4> HIDE DEF waiting
      <4>3. Last(durable') = Terminal(active)
        <5> DEFINE added == waiting \o news
        <5>1. added \in Seq(RuntimeFact) /\ Len(added) # 0 /\ added[Len(added)] = Terminal(active)
          <6>1. added \in Seq(RuntimeFact)
            BY <4>1, <4>2
          <6>2. Len(added) = Len(waiting) + Len(news) /\ Len(waiting) \in Nat
            BY <4>1, <4>2
          <6>3. added[Len(waiting) + 3] = news[3]
            <7>1. Len(waiting) + 3 \in 1 .. Len(waiting) + Len(news)
              BY <4>0, <6>2
            <7>2. added[Len(waiting) + 3] =
                    IF Len(waiting) + 3 <= Len(waiting) THEN waiting[Len(waiting) + 3]
                    ELSE news[Len(waiting) + 3 - Len(waiting)]
              BY <4>1, <4>2, <7>1, ConcatProperties
            <7>3. Len(waiting) + 3 - Len(waiting) = 3 /\ ~ (Len(waiting) + 3 <= Len(waiting))
              BY <6>2
            <7> HIDE DEF added
            <7> QED
              BY <7>2, <7>3
          <6> HIDE DEF added
          <6> QED
            BY <4>0, <6>1, <6>2, <6>3
        <5> HIDE DEF added
        <5>2. added \in Seq(rows)
          BY <5>1
        <5> HIDE DEF rows
        <5>3. (durable \o added)[Len(durable \o added)] = added[Len(added)]
          BY <4>1, <5>1, <5>2
        <5> QED
          BY <4>2, <5>1, <5>3 DEF Last, added
      <4>4. /\ Len(attempts') = Len(attempts) + 1 /\ Len(attempts) \in Nat
            /\ Last(attempts') = a
            /\ \A i \in 1 .. Len(attempts) : attempts'[i] = attempts[i]
        BY <1>1, <3>1 DEF Last
      <4>5. status \notin Providers
        BY <1>1, <3>1 DEF FallbackInv, Ended
      <4>6. \A i \in 1 .. Len(attempts') - 1 : Failed(attempts'[i])
        BY <1>1, <4>4, <4>5 DEF NothingAccepted
      <4>7. {attempts'[i].provider : i \in 1 .. Len(attempts')} = attempted'
        <5>1. active' = None /\ attempted' \subseteq Providers
          BY <1>1, <3>1
        <5> QED
          BY <1>1, <2>1, <5>1 DEF AttemptsInv
      <4>8. \A n \in 1 .. Len(evidence') :
               \E i \in 1 .. Len(durable') : durable'[i] = EvidenceCommitted(n)
        BY <1>1, <2>1, <4>2, EvidenceDurablePrimed
      <4>9. /\ report' # 0
            /\ \A n \in 1 .. report' :
                  \E i \in 1 .. Len(durable') : durable'[i] = EvidenceCommitted(n)
        <5>1. report' \in 1 .. Len(evidence') /\ Len(evidence') \in Nat
          BY <1>1, <3>1, TypePartsPrimed DEF Sound, BoardType
        <5>2. ASSUME NEW n \in 1 .. report' PROVE n \in 1 .. Len(evidence')
          BY <5>1
        <5>3. report' # 0
          BY <5>1
        <5> QED
          BY <4>8, <5>2, <5>3
      <4>10. /\ active' = None /\ status' = active /\ status' # "Exhausted"
             /\ Last(attempts') = [provider |-> status', succeeded |-> TRUE]
             /\ Last(durable') = Terminal(status')
        BY <1>1, <3>1, <4>3, <4>4
      <4> QED
        BY <4>6, <4>7, <4>9, <4>10 DEF OutcomeAgrees
    <3> QED
      BY <3>2, <3>3
  <2> QED
    BY <1>1, <1>3, <2>3, <2>4, <2>5, <2>6, StepCases
<1> QED
  BY <1>2, <1>3

-----------------------------------------------------------------------------

LEMMA StoreInit == Init => StoreInv /\ RequestInv /\ OutcomeInv
<1> SUFFICES ASSUME Init PROVE StoreInv /\ RequestInv /\ OutcomeInv
  OBVIOUS
<1>1. /\ stage = "new" /\ facts = <<>> /\ persisted = 0 /\ durable = <<>> /\ evidence = <<>>
      /\ report = 0 /\ results = <<>> /\ attempts = <<>> /\ attempted = {} /\ active = None
      /\ \E i \in 1 .. Len(Order) : Order[i] \in admission
  BY DEF Init, RunInit
<1>2. StoreInv
  <2>1. Selected(<<>>, RuntimeFact) = <<>> /\ SubSeq(<<>>, 1, 0) = <<>>
    BY SelectedEmpty
  <2> QED
    BY <1>1, <2>1 DEF StoreInv
<1>3. RequestInv
  BY <1>1 DEF RequestInv, UnresolvedIsLast
<1>4. OutcomeInv
  BY <1>1 DEF OutcomeInv, AttemptsInv, NothingAccepted, EvidenceInv, OutcomeAgrees
<1> QED
  BY <1>2, <1>3, <1>4

LEMMA StoreAlways == Spec => []StoreInv
<1>1. Init => StoreInv
  BY StoreInit
<1> QED
  BY <1>1, SoundAlways, StoreStep, PTL DEF Spec

\* The store has what the runtime recorded, in its order, once and without
\* gaps, wherever a commit fails or the process dies; and a model resumes with
\* the results of its tools only after all of it is durable
\* (persist_runtime_events and its cursor).
THEOREM StoreInOrder == Spec => []StoreFollowsRuntime
<1>1. StoreInv => StoreFollowsRuntime
  BY DEF StoreInv, StoreFollowsRuntime, During
<1> QED
  BY <1>1, StoreAlways, PTL

\* In the store, every tool request is followed by its own result, with its own
\* counters, or is the last thing the run wrote (the checkpoint before execute
\* and record_tool_context after it).
THEOREM RequestsResolved == Spec => []UnresolvedIsLast
<1>1. Init => RequestInv
  BY StoreInit
<1>2. RequestInv => UnresolvedIsLast
  BY DEF RequestInv
<1> QED
  BY <1>1, <1>2, SoundAlways, RequestStep, PTL DEF Spec

\* An investigation that is done left a store that says the same as its answer:
\* an accepted report cites durable evidence and its terminal fact is the last,
\* and exhaustion has a recorded failure of every admitted provider
\* (succeed_provider_with_report, fail_provider, investigate_live).
THEOREM OutcomesAgree == Spec => []OutcomeAgrees
<1>1. Init => OutcomeInv
  BY StoreInit
<1>2. OutcomeInv => OutcomeAgrees
  BY DEF OutcomeInv
<1> QED
  BY <1>1, <1>2, SoundAlways, StoreAlways, OutcomeStep, PTL DEF Spec

====
