------------------------- MODULE LiveInvestigation --------------------------
(***************************************************************************)
(* One investigation: investigate_live, run_live_with_context and          *)
(* execute_model_tool of src/reasoning/investigation.rs, with              *)
(* IncidentRuntime (runtime.rs), ToolLoop (tools.rs) and the checkpoints   *)
(* of the journal store (storage.rs), around ReasoningRun.                 *)
(*                                                                         *)
(* It runs alone in its scope of the journal, since run identities are     *)
(* distinct.  stage says where it stands: at the two baseline queries, at  *)
(* a provider's turn, at a tool call, or at an end.  A commit may fail     *)
(* (ok = FALSE) and the process may die; either way the run is over and    *)
(* what is durable stays.                                                  *)
(*                                                                         *)
(* A report is represented by the last evidence it cites, 0 for none: that *)
(* decides whether it validates.  A response is the sequence of its call   *)
(* identities; Blank is a call with an empty identity or query.  A tool    *)
(* result either succeeded or did not, with or without an envelope on the  *)
(* board.  The size of a transcript is abstracted to: ResultsThatFit       *)
(* results of the largest kind fit, so fewer are never too long.           *)
(***************************************************************************)
EXTENDS ReasoningRun, SequencesExt, Selection

CONSTANTS
    CallIds,           \* identities a model gives its tool calls
    Blank,
    MaxToolTurns,      \* max_tool_turns
    MaxCalls,          \* MAX_TOOL_CALLS_PER_RESPONSE
    ResultsThatFit,    \* MAX_TOOL_RESULT_BYTES by the 16 KiB of a result
    MaxModelTurns      \* bound of the model: provider turns in a run

ASSUME ToolsAssumption ==
    /\ CallIds \cap {Blank, "logs", "metrics"} = {}
    /\ MaxToolTurns \in Nat \ {0}
    /\ MaxCalls \in Nat
    /\ ResultsThatFit \in Nat
    /\ MaxModelTurns \in Nat

VARIABLES
    stage,
    late,       \* the wall-clock budget has run out
    facts,      \* the runtime's journal
    persisted,  \* how much of it is durable
    durable,    \* the run's scope of the journal store
    evidence,   \* the runtime's board: the query behind each envelope
    board,      \* the tools' board, numbered on its own
    report,     \* last_report
    calls,      \* tool calls of the response still to be executed
    seen, turnsUsed, results,   \* ToolLoop of the attempt under way
    asked,      \* queries that left the process, in order
    modelTurns  \* turns sent to model providers

journalVars == <<facts, persisted, durable>>
loopVars == <<seen, turnsUsed, results>>
sentVars == <<asked, modelTurns>>
vars == <<runVars, stage, late, journalVars, evidence, board, report, calls, loopVars, sentVars>>

Baseline == <<"logs", "metrics">>
Calls == CallIds \cup {Blank}
Queries == CallIds \cup {"logs", "metrics"}
Outcomes == {"Succeeded", "Unavailable", "Denied", "Exhausted"}
Result == [call : Calls, class : Outcomes, evidence : Nat]

Phases == {"Investigation", "Reasoning"}
PhaseStarted(p) == [event |-> "PhaseStarted", phase |-> p]
PhaseFinished(p) == [event |-> "PhaseFinished", phase |-> p]
EvidenceCommitted(n) == [event |-> "EvidenceCommitted", evidence |-> n]
ToolRequested(p, c, n) == [event |-> "ToolRequested", provider |-> p, call |-> c, before |-> n]
ToolContext(p, r, m, n) ==
    [event |-> "ToolContext", provider |-> p, call |-> r.call, class |-> r.class,
     before |-> m, after |-> n]
ProviderAttempt(a) == [event |-> "ProviderAttempt", attempt |-> a]
Terminal(p) == [event |-> "Terminal", provider |-> p]

\* What the runtime records; the rest is written by the investigation itself.
RuntimeFact ==
    [event : {"PhaseStarted", "PhaseFinished"}, phase : {"Reasoning"}]
        \cup [event : {"EvidenceCommitted"}, evidence : Nat]
        \cup [event : {"ToolContext"}, provider : Providers, call : Calls, class : Outcomes,
              before : Nat, after : Nat]
        \cup [event : {"ProviderAttempt"}, attempt : Attempt]
        \cup [event : {"Terminal"}, provider : Providers]
DirectFact ==
    [event : {"PhaseStarted", "PhaseFinished"}, phase : {"Investigation"}]
        \cup [event : {"ToolRequested"}, provider : Providers, call : CallIds, before : Nat]

Stages ==
    {"new", "logs", "metrics", "collected", "admitting", "turn", "replying", "tools",
     "asking", "awaiting", "weighing", "done", "refused", "failed"}
Ended == {"done", "refused", "failed"}

Spent == totals["evidence_queries"]

Init ==
    /\ RunInit
    /\ stage = "new"
    /\ late = FALSE
    /\ facts = <<>>
    /\ persisted = 0
    /\ durable = <<>>
    /\ evidence = <<>>
    /\ board = <<>>
    /\ report = 0
    /\ calls = <<>>
    /\ seen = {}
    /\ turnsUsed = 0
    /\ results = <<>>
    /\ asked = <<>>
    /\ modelTurns = 0

-----------------------------------------------------------------------------
(* Commits.                                                                *)

\* append_scoped and append_checkpoint_scoped of a fact of the investigation's own.
Write(fact, ok, next) ==
    /\ durable' = IF ok THEN Append(durable, fact) ELSE durable
    /\ stage' = IF ok THEN next ELSE "failed"
    /\ UNCHANGED <<facts, persisted>>

\* Moves the cursor past the new facts only, not past what waited for them.
PersistCountingNews(news, ok, next) ==
    /\ facts' = facts \o news
    /\ durable' = IF ok THEN durable \o SubSeq(facts', persisted + 1, Len(facts')) ELSE durable
    /\ persisted' = IF ok THEN persisted + Len(news) ELSE persisted
    /\ stage' = IF ok THEN next ELSE "failed"

\* Moves the cursor one too far.
PersistOneAhead(news, ok, next) ==
    /\ facts' = facts \o news
    /\ durable' = IF ok THEN durable \o SubSeq(facts', persisted + 1, Len(facts')) ELSE durable
    /\ persisted' = IF ok THEN Len(facts') + 1 ELSE persisted
    /\ stage' = IF ok THEN next ELSE "failed"

\* The runtime records some facts and persist_runtime_events makes all that
\* is new durable in one checkpoint.
Persist(news, ok, next) ==
    /\ facts' = facts \o news
    /\ durable' = IF ok THEN durable \o SubSeq(facts', persisted + 1, Len(facts')) ELSE durable
    /\ persisted' = IF ok THEN Len(facts') ELSE persisted
    /\ stage' = IF ok THEN next ELSE "failed"

\* Looks among the requests of the provider under way only.
RecordedByActive(c) ==
    \E i \in 1 .. Len(durable) :
        durable[i].event = "ToolRequested" /\ durable[i].call = c /\ durable[i].provider = active

\* tool_request_recorded
Recorded(c) ==
    \E i \in 1 .. Len(durable) : durable[i].event = "ToolRequested" /\ durable[i].call = c

-----------------------------------------------------------------------------
(* Baseline evidence.                                                      *)

Begin(ok) ==
    /\ stage = "new"
    /\ Write(PhaseStarted("Investigation"), ok, "logs")
    /\ UNCHANGED <<runVars, late, evidence, board, report, calls, loopVars, sentVars>>

\* The query is sent, charged, committed to the board and persisted.
BaselineQuery(ok) ==
    /\ stage \in {"logs", "metrics"}
    /\ ~late
    /\ asked' = Append(asked, stage)
    /\ ReserveQuery
    /\ evidence' = Append(evidence, stage)
    /\ Persist(<<EvidenceCommitted(Len(evidence'))>>, ok,
               IF stage = "logs" THEN "metrics" ELSE "collected")
    /\ UNCHANGED <<late, board, report, calls, loopVars, modelTurns>>

\* The deadline, or a ContextBudget that has no query left, ends the run with
\* nothing sent; so does an error after it, or, once the query is charged, an
\* answer the board refuses.
BaselineFails ==
    /\ stage \in {"logs", "metrics"}
    /\ \/ UNCHANGED <<runVars, asked>>
       \/ /\ ~late /\ Fits(Query)
          /\ asked' = Append(asked, stage)
          /\ UNCHANGED runVars \/ ReserveQuery
    /\ stage' = "failed"
    /\ UNCHANGED <<late, journalVars, evidence, board, report, calls, loopVars, modelTurns>>

CloseCollection(ok) ==
    /\ stage = "collected"
    /\ Write(PhaseFinished("Investigation"), ok, "admitting")
    /\ UNCHANGED <<runVars, late, evidence, board, report, calls, loopVars, sentVars>>

-----------------------------------------------------------------------------
(* Providers.                                                              *)

\* admit_provider records the phase; the next checkpoint takes it along.
AdmitProvider ==
    /\ stage = "admitting"
    /\ AdmitDeterministic \/ Admit
    /\ facts' = Append(facts, PhaseStarted("Reasoning"))
    /\ stage' = "turn"
    /\ seen' = {}
    /\ turnsUsed' = 0
    /\ results' = <<>>
    /\ UNCHANGED <<late, persisted, durable, evidence, board, report, calls, sentVars>>

\* A reservation that does not fit ends the investigation with an error,
\* whoever comes after the model that asked for it.
RefuseProvider ==
    /\ stage = "admitting"
    /\ AdmitRefused
    /\ facts' = Append(facts, PhaseStarted("Reasoning"))
    /\ stage' = "refused"
    /\ UNCHANGED <<late, persisted, durable, evidence, board, report, calls, loopVars, sentVars>>

NobodyLeft(ok) ==
    /\ stage = "admitting"
    /\ AdmitNobody
    /\ Persist(<<PhaseStarted("Reasoning")>>, ok, "done")
    /\ UNCHANGED <<late, evidence, board, report, calls, loopVars, sentVars>>

\* fail_provider and the checkpoint after it.
FailProvider(ok) ==
    /\ Fail
    /\ Persist(<<ProviderAttempt(Last(attempts')), PhaseFinished("Reasoning")>>, ok, "admitting")
    /\ calls' = <<>>
    /\ UNCHANGED <<late, evidence, board, report, loopVars, sentVars>>

\* succeed_provider_with_report and the checkpoint after it.
SucceedProvider(cites, ok) ==
    /\ Succeed
    /\ report' = cites
    /\ Persist(<<ProviderAttempt(Last(attempts')), PhaseFinished("Reasoning"), Terminal(active)>>,
               ok, "done")
    /\ UNCHANGED <<late, evidence, board, calls, loopVars, sentVars>>

\* Takes a report without citations.
ValidatesUncited(cites) == cites <= Len(evidence)

\* validate_report: some evidence is cited, and all of it is on the board.
Validates(cites) == cites \in 1 .. Len(evidence)

Final(cites, ok) ==
    \/ Validates(cites) /\ SucceedProvider(cites, ok)
    \/ ~Validates(cites) /\ FailProvider(ok)

\* build_report is given no evidence to cite.
BaselineReport == 0

DeterministicTurn(ok) ==
    /\ stage = "turn"
    /\ active = Deterministic
    /\ ~late
    /\ Final(BaselineReport, ok)

\* provider_turn of a model, until the deadline.
SendTurn ==
    /\ stage = "turn"
    /\ active # Deterministic
    /\ ~late
    /\ modelTurns < MaxModelTurns
    /\ modelTurns' = modelTurns + 1
    /\ stage' = "replying"
    /\ UNCHANGED <<runVars, late, journalVars, evidence, board, report, calls, loopVars, asked>>

\* The provider is not configured, or the deadline has passed before the turn.
TurnUnavailable(ok) ==
    /\ stage = "turn"
    /\ late \/ active # Deterministic
    /\ FailProvider(ok)

\* A provider's turn that is awaited without a limit.
ReplyFailsByItself(ok) ==
    /\ stage = "replying"
    /\ ~late
    /\ FailProvider(ok)

\* An error of the provider, a response without calls or with too many of
\* them, or the deadline during the turn.
ReplyFails(ok) ==
    /\ stage = "replying"
    /\ FailProvider(ok)

ReplyFinal(cites, ok) ==
    /\ stage = "replying"
    /\ Final(cites, ok)

ReplyCalls(response) ==
    /\ stage = "replying"
    /\ Len(response) \in 1 .. MaxCalls
    /\ calls' = response
    /\ stage' = "tools"
    /\ UNCHANGED <<runVars, late, journalVars, evidence, board, report, loopVars, sentVars>>

-----------------------------------------------------------------------------
(* Tool calls, one at a time.                                              *)

Call == Head(calls)

\* The class of a refusal before any query, or None: a call this run has
\* already checkpointed, a blank one, one turn too many, a repeated identity.
Refusal ==
    IF Recorded(Call) THEN "Exhausted"
    ELSE IF Call = Blank THEN "Denied"
    ELSE IF turnsUsed >= MaxToolTurns THEN "Exhausted"
    ELSE IF Call \in seen THEN "Denied"
    ELSE None

\* Names the envelope by its number on the tools' board.
RecordBoardNumber(envelope, class, before, ok) ==
    LET result == [call |-> Call, class |-> class,
                   evidence |-> IF envelope = <<>> THEN 0 ELSE Len(board) + 1]
    IN  /\ evidence' = evidence \o envelope
        /\ results' = Append(results, result)
        /\ Persist([i \in 1 .. Len(envelope) |-> EvidenceCommitted(Len(evidence'))]
                      \o <<ToolContext(active, result, before, Spent)>>,
                   ok, "weighing")
        /\ calls' = Tail(calls)
        /\ UNCHANGED <<runVars, late, report, sentVars>>

\* record_result and record_tool_context, with an envelope if there is one.
RecordResult(envelope, class, before, ok) ==
    LET result == [call |-> Call, class |-> class,
                   evidence |-> IF envelope = <<>> THEN 0 ELSE Len(evidence) + 1]
    IN  /\ evidence' = evidence \o envelope
        /\ results' = Append(results, result)
        /\ Persist([i \in 1 .. Len(envelope) |-> EvidenceCommitted(Len(evidence'))]
                      \o <<ToolContext(active, result, before, Spent)>>,
                   ok, "weighing")
        /\ calls' = Tail(calls)
        /\ UNCHANGED <<runVars, late, report, sentVars>>

ToolRefused(ok) ==
    /\ stage = "tools"
    /\ Refusal # None
    /\ RecordResult(<<>>, Refusal, Spent, ok)
    /\ UNCHANGED <<board, seen, turnsUsed>>

\* ToolLoop admits the call, but the run has no query left.
ToolUnfunded(ok) ==
    /\ stage = "tools"
    /\ Refusal = None
    /\ ~Fits(Query)
    /\ seen' = seen \cup {Call}
    /\ turnsUsed' = turnsUsed + 1
    /\ RecordResult(<<>>, "Exhausted", Spent, ok)
    /\ UNCHANGED board

\* The checkpoint comes before the query.
ToolRequest(ok) ==
    /\ stage = "tools"
    /\ Refusal = None
    /\ seen' = seen \cup {Call}
    /\ turnsUsed' = turnsUsed + 1
    /\ ReserveQuery
    /\ Write(ToolRequested(active, Call, Spent), ok, "asking")
    /\ UNCHANGED <<late, evidence, board, report, calls, results, sentVars>>

ToolSend ==
    /\ stage = "asking"
    /\ ~late
    /\ asked' = Append(asked, Call)
    /\ stage' = "awaiting"
    /\ UNCHANGED <<runVars, late, journalVars, evidence, board, report, calls, loopVars, modelTurns>>

\* Leaves a timed-out call without a fact of its own.
ToolTimesOutSilently(ok) ==
    /\ stage \in {"asking", "awaiting"}
    /\ late
    /\ ok
    /\ results' = Append(results, [call |-> Call, class |-> "Exhausted", evidence |-> 0])
    /\ calls' = Tail(calls)
    /\ stage' = "weighing"
    /\ UNCHANGED <<runVars, late, journalVars, evidence, board, report, seen, turnsUsed, sentVars>>

ToolTimesOut(ok) ==
    /\ stage \in {"asking", "awaiting"}
    /\ late
    /\ RecordResult(<<>>, "Exhausted", Spent - 1, ok)
    /\ UNCHANGED <<board, seen, turnsUsed>>

\* The answer is put on the tools' board and copied to the runtime's.
ToolAnswer(class, ok) ==
    /\ stage = "awaiting"
    /\ board' = Append(board, Call)
    /\ RecordResult(<<Last(board')>>, class, Spent - 1, ok)
    /\ UNCHANGED <<seen, turnsUsed>>

\* An adapter that is missing denies the call, and one that cannot commit an
\* envelope answers without.
ToolUnanswered(class, ok) ==
    /\ stage = "awaiting"
    /\ RecordResult(<<>>, class, Spent - 1, ok)
    /\ UNCHANGED <<board, seen, turnsUsed>>

\* The runtime's board refuses the copy: the investigation ends with an error.
ToolUncopied ==
    /\ stage = "awaiting"
    /\ board' = Append(board, Call)
    /\ stage' = "failed"
    /\ UNCHANGED <<runVars, late, journalVars, evidence, report, calls, loopVars, sentVars>>

\* The transcript is too long to resume with; the rest of the calls is dropped.
Overflow(ok) ==
    /\ stage = "weighing"
    /\ Len(results) > ResultsThatFit
    /\ FailProvider(ok)

NextCall ==
    /\ stage = "weighing"
    /\ stage' = IF calls = <<>> THEN "turn" ELSE "tools"
    /\ UNCHANGED <<runVars, late, journalVars, evidence, board, report, calls, loopVars, sentVars>>

-----------------------------------------------------------------------------

\* The wall-clock budget runs out.
Expire ==
    /\ stage \notin Ended
    /\ ~late
    /\ late' = TRUE
    /\ UNCHANGED <<runVars, stage, journalVars, evidence, board, report, calls, loopVars, sentVars>>

\* The process dies.
Crash ==
    /\ stage \notin Ended
    /\ stage' = "failed"
    /\ UNCHANGED <<runVars, late, journalVars, evidence, board, report, calls, loopVars, sentVars>>

Responses == UNION {[1 .. n -> Calls] : n \in 1 .. MaxCalls}

Collect ==
    \/ \E ok \in BOOLEAN : Begin(ok) \/ BaselineQuery(ok) \/ CloseCollection(ok)
    \/ BaselineFails

Reason ==
    \/ AdmitProvider \/ RefuseProvider \/ SendTurn
    \/ \E ok \in BOOLEAN :
        \/ NobodyLeft(ok) \/ DeterministicTurn(ok) \/ TurnUnavailable(ok) \/ ReplyFails(ok)
        \/ \E cites \in 0 .. Len(evidence) + 1 : ReplyFinal(cites, ok)
    \/ \E response \in Responses : ReplyCalls(response)

UseTools ==
    \/ ToolSend \/ ToolUncopied \/ NextCall
    \/ \E ok \in BOOLEAN :
        \/ ToolRefused(ok) \/ ToolUnfunded(ok) \/ ToolRequest(ok) \/ ToolTimesOut(ok)
        \/ Overflow(ok)
        \/ \E class \in {"Succeeded", "Unavailable"} : ToolAnswer(class, ok)
        \/ \E class \in {"Unavailable", "Denied"} : ToolUnanswered(class, ok)

Next == Collect \/ Reason \/ UseTools \/ Expire \/ Crash

Spec == Init /\ [][Next]_vars

\* The steps that wait for nobody outside the process.
Unprompted ==
    \/ AdmitProvider \/ RefuseProvider \/ SendTurn \/ ToolSend \/ NextCall
    \/ \E ok \in BOOLEAN :
        \/ Begin(ok) \/ CloseCollection(ok) \/ NobodyLeft(ok) \/ DeterministicTurn(ok)
        \/ ToolRefused(ok) \/ ToolUnfunded(ok) \/ ToolRequest(ok)

\* What remaining() and timeout(remaining, ...) end once the time is spent.
CutOff ==
    /\ late
    /\ \/ BaselineFails
       \/ \E ok \in BOOLEAN : TurnUnavailable(ok) \/ ReplyFails(ok) \/ ToolTimesOut(ok)

\* The clock runs and the future is polled.  Grafana, the providers and the tools
\* need not answer, and a model over MaxModelTurns is waited for like a silent one.
Fairness == WF_vars(Expire) /\ WF_vars(Unprompted \/ CutOff)

LiveSpec == Spec /\ Fairness

-----------------------------------------------------------------------------
(* Properties.                                                             *)

TypeOK ==
    /\ RunTypeOK
    /\ stage \in Stages
    /\ late \in BOOLEAN
    /\ facts \in Seq(RuntimeFact)
    /\ persisted \in 0 .. Len(facts)
    /\ durable \in Seq(RuntimeFact \cup DirectFact)
    /\ evidence \in Seq(Queries)
    /\ board \in Seq(CallIds)
    /\ report \in 0 .. Len(evidence)
    /\ calls \in Seq(Calls)
    /\ seen \subseteq CallIds
    /\ turnsUsed \in 0 .. MaxToolTurns
    /\ results \in Seq(Result)
    /\ asked \in Seq(Queries)
    /\ modelTurns \in 0 .. MaxModelTurns

\* A run sends no more queries than its limit, the baseline's included, whose
\* adapter counts before the budget does; a restart begins a new run.
QueriesWithinLimit == Len(asked) <= Limits["evidence_queries"]

\* No query of a run is sent twice, even if another provider gives its call
\* the same identity, and a tool's query is sent only after its checkpoint.
QueriedOnce ==
    \A i \in 1 .. Len(asked) :
        /\ \A j \in 1 .. Len(asked) : asked[i] = asked[j] => i = j
        /\ asked[i] \in CallIds => Recorded(asked[i])

\* In the store, a tool request is followed by its own result, with the
\* counters one query apart and nothing between but its evidence and the start
\* of the phase, which is only persisted with the result; or an unresolved
\* request is the last thing a run wrote.
UnresolvedIsLast ==
    \A i \in 1 .. Len(durable) : durable[i].event = "ToolRequested" =>
        \/ i = Len(durable)
        \/ \E j \in i + 1 .. Len(durable) :
            /\ durable[j].event = "ToolContext"
            /\ durable[j].call = durable[i].call
            /\ durable[j].provider = durable[i].provider
            /\ durable[j].before = durable[i].before
            /\ durable[j].after = durable[i].before + 1
            /\ \A k \in i + 1 .. j - 1 :
                durable[k].event \in {"PhaseStarted", "EvidenceCommitted"}

\* The store has what the runtime recorded, in order, once and without gaps,
\* and all of it before a model resumes with the results of its tools.
StoreFollowsRuntime ==
    /\ Selected(durable, RuntimeFact) = SubSeq(facts, 1, persisted)
    /\ stage \in {"turn", "replying"} /\ results # <<>> => persisted = Len(facts)

\* A result sent to a model names the envelope of its own query, although
\* the tools' board and the runtime's number theirs differently.
ResultsNameTheirEvidence ==
    \A i \in 1 .. Len(results) :
        results[i].evidence # 0 =>
            /\ results[i].evidence <= Len(evidence)
            /\ evidence[results[i].evidence] = results[i].call

Failed(a) == ~a.succeeded

\* What investigate_live answers, what the runtime knows and what the store
\* holds agree: an accepted report cites durable evidence and the store ends
\* with its terminal fact; exhaustion means that every admitted provider has
\* a recorded failure and nothing was accepted.
OutcomeAgrees ==
    stage = "done" =>
        /\ active = None
        /\ {attempts[i].provider : i \in 1 .. Len(attempts)} = attempted
        /\ \A i \in 1 .. Len(attempts) - 1 : Failed(attempts[i])
        /\ IF status = "Exhausted"
           THEN /\ Failed(Last(attempts))
                /\ attempted = admission \cap {Order[i] : i \in 1 .. Len(Order)}
                /\ report = 0
                /\ \A i \in 1 .. Len(durable) : durable[i].event # "Terminal"
           ELSE /\ Last(attempts) = [provider |-> status, succeeded |-> TRUE]
                /\ Last(durable) = Terminal(status)
                /\ report # 0
                /\ \A n \in 1 .. report :
                    \E i \in 1 .. Len(durable) : durable[i] = EvidenceCommitted(n)

\* Where the run stands in the order of its providers.
Position ==
    IF attempted = {} THEN 0
    ELSE CHOOSE i \in 1 .. Len(Order) :
            /\ Order[i] \in attempted
            /\ \A j \in 1 .. Len(Order) : Order[j] \in attempted => j <= i

Verdict ==
    CASE stage = "failed" -> "abandoned"
      [] stage = "refused" -> "refused"
      [] stage = "done" /\ status = "Exhausted" -> "exhausted"
      [] stage = "done" /\ status # "Exhausted" -> "accepted"
      [] stage \notin Ended /\ active # None -> "trying"
      [] OTHER -> "open"

Contract ==
    INSTANCE FallbackContract WITH
        Unreserved <- {Deterministic}, at <- Position, verdict <- Verdict

\* The investigation keeps the promise of provider fallback: a provider whose turn
\* has come is passed over only if an error or a death ends the run, or if it is a
\* model and the budget refuses its reservation, which also ends the run.
ImplementsFallback == Contract!Spec

\* Every investigation ends, even if Grafana, providers and tools never answer: the
\* deadline cuts off whatever is awaited, and nobody is waited for after it.
InvestigationEnds == <>(stage \in Ended)

\* "Exhaustion shall stop further model/tool calls and publish the deterministic
\* baseline": a run whose budget refuses a model has turned to the deterministic
\* provider, if it is admitted.
RefusalEnriches ==
    stage = "refused" /\ Deterministic \in admission => Deterministic \in attempted

\* "exhaustion publishes deterministic enrichment": an investigation that may
\* use the deterministic provider ends with a report.
DeterministicPublished ==
    stage = "done" /\ Deterministic \in admission => report # 0

\* "Maximum provider calls, including fallback restarts."
ProviderCallsBounded == modelTurns <= Limits["provider_calls"]

=============================================================================
