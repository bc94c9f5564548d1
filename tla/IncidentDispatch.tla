-------------------------- MODULE IncidentDispatch --------------------------
(***************************************************************************)
(* IncidentDispatcher as a library: a caller that hands it signals in any  *)
(* order and any number of times, completes or gives up each incident it   *)
(* was handed whenever it likes, and may stop between any two commits.     *)
(***************************************************************************)
EXTENDS IncidentLifecycle

VARIABLE handed   \* incidents given to the caller and not yet finished

vars == <<lifecycle, journal, replayed, handed>>

Init == DispatcherInit /\ handed = {}

ProcessOpening(g) ==
    /\ StartsEpisode(g)
    /\ handed' = handed \cup {NextIncident(g)}

ProcessSettling(g) ==
    /\ Settles(g)
    /\ UNCHANGED handed

Complete(id) ==
    /\ id \in handed
    /\ MarkCompleted(id)
    /\ handed' = handed \ {id}

\* The investigation failed, or the service has no queries: the caller moves on.
GiveUp(id) ==
    /\ id \in handed
    /\ handed' = handed \ {id}
    /\ UNCHANGED dispatcherVars

\* The process stops, or is killed, and another opens the journal.
Restart ==
    /\ lifecycle' = replayed
    /\ handed' = PendingInvestigations
    /\ UNCHANGED <<journal, replayed>>

Next ==
    \/ \E g \in Signal : ProcessOpening(g)
    \/ \E g \in Signal : ProcessSettling(g)
    \/ \E id \in handed : Complete(id)
    \/ \E id \in handed : GiveUp(id)
    \/ Restart

Spec == Init /\ [][Next]_vars

-----------------------------------------------------------------------------
(* Type correctness *)

\* Every map, the journal and the caller's incidents keep their types.
TypeOK ==
    /\ lifecycle \in [Keys -> LifecycleState]
    /\ replayed \in [Keys -> LifecycleState]
    /\ journal \in Seq(JournalEvent)
    /\ handed \subseteq IncidentId

-----------------------------------------------------------------------------
(* Safety *)

Position(s) ==
    [phase |-> s.phase, episode |-> EpisodeOf(s),
     done |-> s.phase = "firing" /\ s.completed]

\* Whatever was committed before a crash, the restarted dispatcher stands on
\* the episode, phase and completion the running one stood on, and at an event
\* time that is no later (new against process_one and mark_completed).
ReplayAgreement ==
    \A k \in Keys :
        /\ Position(replayed[k]) = Position(lifecycle[k])
        /\ lifecycle[k] # Absent =>
             Millis[replayed[k].time] <= Millis[lifecycle[k].time]

\* An incident identity, which names the report page, the notification and the
\* repair attempt, is opened at most once, across restarts, completions that
\* come late and recoveries (the episode numbering of process_one).
OpenedOnce ==
    \A i, j \in DOMAIN journal :
        /\ journal[i].event = "IncidentOpened"
        /\ journal[j].event = "IncidentOpened"
        /\ journal[i].id = journal[j].id
        => i = j

\* The facts that move a key's lifecycle are in the order of their event times,
\* also when a restart lies between them (the staleness test of process_one on
\* the time that new restored).
LifecycleFactsInOrder ==
    \A i, j \in DOMAIN journal :
        /\ i < j
        /\ journal[i].event \in LifecycleEvents
        /\ journal[j].event \in LifecycleEvents
        /\ journal[i].id.key = journal[j].id.key
        => Millis[journal[i].signal.time] <= Millis[journal[j].signal.time]

\* Another event of the same key carries the same millisecond.
Tied(g) ==
    \E i \in DOMAIN journal :
        /\ journal[i].event \in LifecycleEvents
        /\ journal[i].signal.key = g.key
        /\ journal[i].signal # g
        /\ Millis[journal[i].signal.time] = Millis[g.time]

\* One firing event, however often Alertmanager sends it and whatever happens
\* between two deliveries, opens one episode: process_one takes it for a
\* repeat, a resumption or a stale event, unless another event of the key
\* shares its millisecond.
EventOpensOnce ==
    \A i, j \in DOMAIN journal :
        /\ i < j
        /\ journal[i].event = "IncidentOpened"
        /\ journal[j].event = "IncidentOpened"
        /\ journal[i].signal = journal[j].signal
        => Tied(journal[i].signal)

\* An incident is completed at most once, so a report and a notification are
\* never committed for work a restart handed out again (pending_investigations
\* against mark_completed).
CompletedOnce ==
    \A i, j \in DOMAIN journal :
        /\ journal[i].event = "IncidentCompleted"
        /\ journal[j].event = "IncidentCompleted"
        /\ journal[i].id = journal[j].id
        => i = j

-----------------------------------------------------------------------------
(* Refinement: restarts, repeats and stale events are invisible in the      *)
(* episodes of a key                                                        *)

PhaseOf(s) ==
    CASE s = Absent -> "unseen"
      [] s.phase = "resolved" -> "recovered"
      [] s.phase = "firing" /\ s.completed -> "reported"
      [] OTHER -> "firing"

Episodes ==
    INSTANCE EpisodeContract WITH
        episode <- [k \in Keys |-> EpisodeOf(lifecycle[k])],
        phase <- [k \in Keys |-> PhaseOf(lifecycle[k])]

\* The dispatcher implements EpisodeContract.
ImplementsEpisodes == Episodes!Spec

-----------------------------------------------------------------------------
(* What the plan document says of events older than a recorded one *)

\* Every event that was not recorded as out of order is at least as late as
\* the events of its key recorded before it.
AdmittedInOrder ==
    \A i, j \in DOMAIN journal :
        /\ i < j
        /\ journal[i].event \in SignalEvents \ {"AlertOutOfOrder"}
        /\ journal[j].event \in SignalEvents \ {"AlertOutOfOrder"}
        /\ journal[i].id.key = journal[j].id.key
        => Millis[journal[i].signal.time] <= Millis[journal[j].signal.time]

=============================================================================
