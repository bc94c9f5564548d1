------------------------- MODULE IncidentLifecycle -------------------------
(***************************************************************************)
(* The lifecycle map of IncidentDispatcher and the journal it is rebuilt   *)
(* from (src/reasoning/dispatcher.rs).  One action per arm of process_one, *)
(* mark_completed, and the replay that IncidentDispatcher::new performs.   *)
(* The module has no specification of its own: IncidentDispatch gives it   *)
(* an arbitrary caller and IncidentWorker the real one.                    *)
(*                                                                         *)
(* A correlation key is an Alertmanager fingerprint or a label hash, both  *)
(* hexadecimal, so incident_id and (correlation_key, episode_number) are   *)
(* inverse: an incident identity is the pair [key, episode].  An event     *)
(* time is the RFC3339 text of an alert and Millis the instant             *)
(* parse_rfc3339_millis reads from it, cut at a millisecond: two texts may *)
(* have one instant.  validate_webhook refuses a text without an instant,  *)
(* so InvalidSignal does not arise.  A source_event_id is the triple       *)
(* (identity, status, event time), all of which a signal carries.          *)
(***************************************************************************)
EXTENDS Integers, Sequences

CONSTANTS
    Keys,        \* correlation keys
    StartTimes,  \* the startsAt texts of firing alerts
    EndTimes,    \* the endsAt texts of resolved alerts
    Millis,      \* the UTC instant of each text
    MaxJournal   \* bound: entries the journal may hold

EventTimes == StartTimes \cup EndTimes

ASSUME MillisAssumption == Millis \in [EventTimes -> Int]
ASSUME JournalAssumption == MaxJournal \in Nat

VARIABLES
    lifecycle,   \* BTreeMap<String, LifecycleState>, Absent where it has no entry
    journal,     \* the entries committed to SQLite, in sequence order
    replayed     \* what a replay of journal would put in lifecycle

dispatcherVars == <<lifecycle, journal, replayed>>

-----------------------------------------------------------------------------
(* Data *)

Signal ==
    [key : Keys, status : {"firing"}, time : StartTimes]
        \cup [key : Keys, status : {"resolved"}, time : EndTimes]

IncidentId == [key : Keys, episode : Nat \ {0}]

Incident(k, n) == [key |-> k, episode |-> n]

Absent == [phase |-> "absent"]

Firing(n, done, t) ==
    [phase |-> "firing", episode |-> n, completed |-> done, time |-> t]

Resolved(n, t) == [phase |-> "resolved", episode |-> n, time |-> t]

LifecycleState ==
    {Absent}
        \cup [phase : {"firing"}, episode : Nat \ {0}, completed : BOOLEAN,
              time : EventTimes]
        \cup [phase : {"resolved"}, episode : Nat \ {0}, time : EventTimes]

SignalEvents ==
    {"IncidentOpened", "IncidentResumed", "IncidentRecovered",
     "AlertDeduplicated", "AlertOutOfOrder"}

\* The facts replay reads back; the other two are only an audit trail.
LifecycleEvents == {"IncidentOpened", "IncidentResumed", "IncidentRecovered"}

JournalEvent ==
    [event : SignalEvents, id : IncidentId, signal : Signal]
        \cup [event : {"IncidentCompleted"}, id : IncidentId]

EpisodeOf(s) == IF s = Absent THEN 0 ELSE s.episode

-----------------------------------------------------------------------------
(* IncidentDispatcher::new: one iteration of the loop over the journal *)

\* A replay that skips IncidentResumed, as it skips AlertDeduplicated.
ReplayWithoutResumed(state, entry) ==
    LET k == entry.id.key IN
    CASE entry.event = "IncidentOpened" ->
           [state EXCEPT ![k] = Firing(entry.id.episode, FALSE, entry.signal.time)]
      [] entry.event = "IncidentRecovered" ->
           [state EXCEPT ![k] = Resolved(entry.id.episode, entry.signal.time)]
      [] entry.event = "IncidentCompleted" /\ state[k].phase = "firing" ->
           [state EXCEPT ![k] = Firing(@.episode, TRUE, @.time)]
      [] OTHER -> state

ReplayEntry(state, entry) ==
    LET k == entry.id.key IN
    CASE entry.event = "IncidentOpened" ->
           [state EXCEPT ![k] = Firing(entry.id.episode, FALSE, entry.signal.time)]
      [] entry.event = "IncidentRecovered" ->
           [state EXCEPT ![k] = Resolved(entry.id.episode, entry.signal.time)]
      [] entry.event = "IncidentCompleted" /\ state[k].phase = "firing" ->
           [state EXCEPT ![k] = Firing(@.episode, TRUE, @.time)]
      [] entry.event = "IncidentResumed" /\ state[k].phase = "firing" ->
           [state EXCEPT ![k] = Firing(@.episode, @.completed, entry.signal.time)]
      [] OTHER -> state

NothingReplayed == [k \in Keys |-> Absent]

\* JournalStore::append: the transaction commits, then memory follows.  new is
\* a left fold of the journal, so one more entry is one more ReplayEntry.
Commit(entry) ==
    /\ Len(journal) < MaxJournal
    /\ journal' = Append(journal, entry)
    /\ replayed' = ReplayEntry(replayed, entry)

DispatcherInit ==
    /\ lifecycle = NothingReplayed
    /\ journal = <<>>
    /\ replayed = NothingReplayed

-----------------------------------------------------------------------------
(* IncidentDispatcher::process_one, arm by arm *)

Fact(event, id, g) == [event |-> event, id |-> id, signal |-> g]

Stale(g) ==
    /\ lifecycle[g.key] # Absent
    /\ Millis[g.time] < Millis[lifecycle[g.key].time]

\* An event older than the last one: recorded, and nothing else changes.
RejectStale(g) ==
    /\ Stale(g)
    /\ Commit(Fact("AlertOutOfOrder", Incident(g.key, 1), g))
    /\ UNCHANGED lifecycle

NeverRepeats(g) == FALSE

\* The firing event that a completed episode last recorded, once more.
Repeats(g) ==
    /\ g.status = "firing"
    /\ lifecycle[g.key].phase = "firing"
    /\ lifecycle[g.key].completed
    /\ lifecycle[g.key].time = g.time

SuppressRepeat(g) ==
    /\ ~Stale(g)
    /\ Repeats(g)
    /\ Commit(Fact("AlertDeduplicated", Incident(g.key, 1), g))
    /\ UNCHANGED lifecycle

\* A recovery of what has recovered: the map moves to the new time, and the
\* entry that replay will skip is all the journal gets.
AbsorbRecovery(g) ==
    LET s == lifecycle[g.key] IN
    /\ ~Stale(g)
    /\ g.status = "resolved"
    /\ s.phase = "resolved"
    /\ Commit(Fact("AlertDeduplicated", Incident(g.key, s.episode), g))
    /\ lifecycle' = [lifecycle EXCEPT ![g.key] = Resolved(s.episode, g.time)]

\* A firing event for an episode still under investigation: no new work.
Resume(g) ==
    LET s == lifecycle[g.key] IN
    /\ ~Stale(g)
    /\ g.status = "firing"
    /\ s.phase = "firing"
    /\ ~s.completed
    /\ Commit(Fact("IncidentResumed", Incident(g.key, s.episode), g))
    /\ lifecycle' = [lifecycle EXCEPT ![g.key] = Firing(s.episode, FALSE, g.time)]

Recover(g) ==
    LET s == lifecycle[g.key] IN
    /\ ~Stale(g)
    /\ g.status = "resolved"
    /\ s.phase = "firing"
    /\ Commit(Fact("IncidentRecovered", Incident(g.key, s.episode), g))
    /\ lifecycle' = [lifecycle EXCEPT ![g.key] = Resolved(s.episode, g.time)]

RecoverUnknown(g) ==
    /\ g.status = "resolved"
    /\ lifecycle[g.key] = Absent
    /\ Commit(Fact("IncidentRecovered", Incident(g.key, 1), g))
    /\ lifecycle' = [lifecycle EXCEPT ![g.key] = Resolved(1, g.time)]

\* What process_one answers Deduplicated, Resumed, or a recovery Accepted:
\* process_new hands nothing of it to its caller.
Settles(g) ==
    \/ RejectStale(g)
    \/ SuppressRepeat(g)
    \/ AbsorbRecovery(g)
    \/ Resume(g)
    \/ Recover(g)
    \/ RecoverUnknown(g)

\* Episodes numbered from 0.
ZeroBasedIncident(g) ==
    Incident(g.key, IF lifecycle[g.key] = Absent THEN 0 ELSE lifecycle[g.key].episode + 1)

\* A firing event after recovery or after completion opens the next episode;
\* the first event of a key opens episode 1.
NextIncident(g) == Incident(g.key, EpisodeOf(lifecycle[g.key]) + 1)

\* Any recurrence opens an episode, also during the investigation of the last.
AlwaysClosed(s) == TRUE

Closed(s) ==
    \/ s = Absent
    \/ s.phase = "resolved"
    \/ s.phase = "firing" /\ s.completed

StartsEpisode(g) ==
    /\ ~Stale(g)
    /\ g.status = "firing"
    /\ Closed(lifecycle[g.key])
    /\ ~Repeats(g)
    /\ Commit(Fact("IncidentOpened", NextIncident(g), g))
    /\ lifecycle' =
         [lifecycle EXCEPT ![g.key] = Firing(NextIncident(g).episode, FALSE, g.time)]

-----------------------------------------------------------------------------
(* mark_completed, mark_completed_with_outbox, mark_completed_with_report:  *)
(* whatever episode is firing is marked, not the one the incident names     *)

\* mark_completed that leaves the map to the next replay.
CompleteJournalOnly(id) ==
    /\ Commit([event |-> "IncidentCompleted", id |-> id])
    /\ UNCHANGED lifecycle

MarkCompleted(id) ==
    LET s == lifecycle[id.key] IN
    /\ Commit([event |-> "IncidentCompleted", id |-> id])
    /\ lifecycle' =
         IF s.phase = "firing"
         THEN [lifecycle EXCEPT ![id.key] = Firing(s.episode, TRUE, s.time)]
         ELSE lifecycle

-----------------------------------------------------------------------------
(* pending_investigations, on the state a restart rebuilds *)

Opened(k) ==
    \E i \in DOMAIN journal :
        journal[i].event = "IncidentOpened" /\ journal[i].id.key = k

\* Completions looked up by correlation key, whatever their episode.
PendingNeverCompleted ==
    {Incident(k, replayed[k].episode) :
        k \in {x \in Keys : /\ replayed[x].phase = "firing"
                            /\ Opened(x)
                            /\ \A i \in DOMAIN journal :
                                 journal[i].event = "IncidentCompleted" =>
                                     journal[i].id.key # x}}

PendingInvestigations ==
    {Incident(k, replayed[k].episode) :
        k \in {x \in Keys : /\ replayed[x].phase = "firing"
                            /\ ~replayed[x].completed
                            /\ Opened(x)}}

=============================================================================
