------------------------ MODULE MCPaidInvestigations ------------------------
(* Small values for PaidInvestigations: one cost unit for each of two paid    *)
(* providers, so a run reserves two; a day allows two runs, a month three.    *)
EXTENDS PaidInvestigations, TLC

CONSTANTS run1, run2, run3, run4, i1, i2, gemini, deepseek

MCRuns == {run1, run2, run3, run4}
MCIncidents == {i1, i2}
MCProviders == {gemini, deepseek}

MCSymmetry ==
    Permutations(MCRuns) \cup Permutations(MCIncidents) \cup Permutations(MCProviders)

=============================================================================
