-------------------------- MODULE EpisodeContract --------------------------
(***************************************************************************)
(* What the dispatcher promises of the episodes of a correlation key: they *)
(* are numbered from 1 without gaps, one is firing at a time, the next     *)
(* opens only when the last one is reported or recovered, and nothing ever *)
(* takes one back.  Restarts do not appear in it.                          *)
(***************************************************************************)
EXTENDS Naturals

CONSTANT Keys

VARIABLES
    episode,   \* the number of the last episode, 0 before the first
    phase      \* unseen, firing, reported or recovered

vars == <<episode, phase>>

Phases == {"unseen", "firing", "reported", "recovered"}

Init ==
    /\ episode = [k \in Keys |-> 0]
    /\ phase = [k \in Keys |-> "unseen"]

Open(k) ==
    /\ phase[k] # "firing"
    /\ episode' = [episode EXCEPT ![k] = @ + 1]
    /\ phase' = [phase EXCEPT ![k] = "firing"]

Report(k) ==
    /\ phase[k] = "firing"
    /\ phase' = [phase EXCEPT ![k] = "reported"]
    /\ UNCHANGED episode

Recover(k) ==
    /\ phase[k] \in {"firing", "reported"}
    /\ phase' = [phase EXCEPT ![k] = "recovered"]
    /\ UNCHANGED episode

\* A recovery of an alert nobody saw firing counts as episode 1.
RecoverUnseen(k) ==
    /\ phase[k] = "unseen"
    /\ episode' = [episode EXCEPT ![k] = 1]
    /\ phase' = [phase EXCEPT ![k] = "recovered"]

Next == \E k \in Keys : Open(k) \/ Report(k) \/ Recover(k) \/ RecoverUnseen(k)

Spec == Init /\ [][Next]_vars

=============================================================================
