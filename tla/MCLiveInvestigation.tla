------------------------ MODULE MCLiveInvestigation -------------------------
(* Small values for LiveInvestigation: three models before the deterministic  *)
(* provider, one more query than the two of the baseline, two tool turns; the *)
(* budget has room for one provider call or for two, of three models.         *)
EXTENDS LiveInvestigation

CONSTANTS openai, gemini, deepseek, deterministic, call1, call2, ProviderCalls, EvidenceQueries

MCProviders == {openai, gemini, deepseek, deterministic}
MCOrder == <<openai, gemini, deepseek, deterministic>>
MCCallIds == {call1, call2}
MCLimits ==
    [provider_calls |-> ProviderCalls, tokens |-> 2, evidence_queries |-> EvidenceQueries,
     cost_micro_usd |-> Unlimited]
MCReservation ==
    [provider_calls |-> 1, tokens |-> 1, evidence_queries |-> 0, cost_micro_usd |-> 1]

=============================================================================
