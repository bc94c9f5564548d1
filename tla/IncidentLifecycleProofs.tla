---------------------- MODULE IncidentLifecycleProofs -----------------------
(***************************************************************************)
(* What the proofs about the dispatcher's callers share: the forms of the  *)
(* dispatcher's data, and what every commit of process_one and             *)
(* mark_completed does to the running map and to the replayed one.         *)
(***************************************************************************)
EXTENDS IncidentLifecycle, TLAPS

-----------------------------------------------------------------------------
(* Lemmas on the data *)

\* The constructors of a lifecycle state, and how a state is taken apart.
LEMMA StateForms ==
    /\ Absent \in LifecycleState
    /\ \A n \in Nat \ {0}, b \in BOOLEAN, t \in EventTimes :
           /\ Firing(n, b, t) \in LifecycleState
           /\ Firing(n, b, t) # Absent
           /\ Firing(n, b, t).phase = "firing"
           /\ Firing(n, b, t).episode = n
           /\ Firing(n, b, t).completed = b
           /\ Firing(n, b, t).time = t
    /\ \A n \in Nat \ {0}, t \in EventTimes :
           /\ Resolved(n, t) \in LifecycleState
           /\ Resolved(n, t) # Absent
           /\ Resolved(n, t).phase = "resolved"
           /\ Resolved(n, t).episode = n
           /\ Resolved(n, t).time = t
    /\ Absent.phase = "absent"
<1>1. /\ Absent \in LifecycleState
      /\ Absent.phase = "absent"
  BY DEF Absent, LifecycleState
<1>2. ASSUME NEW n \in Nat \ {0}, NEW b \in BOOLEAN, NEW t \in EventTimes
      PROVE  /\ Firing(n, b, t) \in LifecycleState
             /\ Firing(n, b, t).phase = "firing"
             /\ Firing(n, b, t).episode = n
             /\ Firing(n, b, t).completed = b
             /\ Firing(n, b, t).time = t
  BY <1>2 DEF Firing, LifecycleState
<1>3. ASSUME NEW n \in Nat \ {0}, NEW t \in EventTimes
      PROVE  /\ Resolved(n, t) \in LifecycleState
             /\ Resolved(n, t).phase = "resolved"
             /\ Resolved(n, t).episode = n
             /\ Resolved(n, t).time = t
  BY <1>3 DEF Resolved, LifecycleState
<1> QED
  BY <1>1, <1>2, <1>3

\* The state of an episode under investigation.
LEMMA UnfinishedForm ==
    ASSUME NEW n \in Nat \ {0}, NEW t \in EventTimes
    PROVE  LET s == Firing(n, FALSE, t) IN
           /\ s \in LifecycleState
           /\ s # Absent
           /\ s.phase = "firing"
           /\ ~s.completed
           /\ s.time = t
           /\ s.episode = n
           /\ EpisodeOf(s) = n
<1> DEFINE s == Firing(n, FALSE, t)
<1>1. /\ s \in LifecycleState
      /\ s.phase = "firing"
      /\ s.time = t
      /\ s.episode = n
  BY DEF Firing, LifecycleState
<1>2. ~s.completed
  BY DEF Firing
<1>3. s # Absent
  BY <1>1, StateForms
<1>4. EpisodeOf(s) = n
  BY <1>1, <1>3 DEF EpisodeOf
<1> QED
  BY <1>1, <1>2, <1>3, <1>4

\* A state is absent, firing or resolved, with fields of their types.
LEMMA StateCases ==
    ASSUME NEW s \in LifecycleState
    PROVE  \/ s = Absent
           \/ /\ s.phase = "firing"
              /\ s # Absent
              /\ s.episode \in Nat \ {0}
              /\ s.completed \in BOOLEAN
              /\ s.time \in EventTimes
              /\ s = Firing(s.episode, s.completed, s.time)
           \/ /\ s.phase = "resolved"
              /\ s # Absent
              /\ s.episode \in Nat \ {0}
              /\ s.time \in EventTimes
              /\ s = Resolved(s.episode, s.time)
  BY DEF LifecycleState, Absent, Firing, Resolved

LEMMA SignalForm ==
    ASSUME NEW g \in Signal
    PROVE  /\ g.key \in Keys
           /\ g.time \in EventTimes
           /\ g.status \in {"firing", "resolved"}
  BY DEF Signal, EventTimes

LEMMA EntryForm ==
    ASSUME NEW e \in JournalEvent
    PROVE  /\ e.id \in IncidentId
           /\ e.id.key \in Keys
           /\ e.id.episode \in Nat \ {0}
           /\ e.event \in SignalEvents => e.signal \in Signal
           /\ e.event \in SignalEvents \cup {"IncidentCompleted"}
  BY DEF JournalEvent, IncidentId, SignalEvents

\* An update of one key.
LEMMA UpdateType ==
    ASSUME NEW m \in [Keys -> LifecycleState], NEW k \in Keys,
           NEW s \in LifecycleState
    PROVE  /\ [m EXCEPT ![k] = s] \in [Keys -> LifecycleState]
           /\ [m EXCEPT ![k] = s][k] = s
           /\ \A x \in Keys : x # k => [m EXCEPT ![k] = s][x] = m[x]
  OBVIOUS

\* One entry replayed keeps the type of the map and touches no other key.
LEMMA ReplayType ==
    ASSUME NEW m \in [Keys -> LifecycleState], NEW e \in JournalEvent
    PROVE  /\ ReplayEntry(m, e) \in [Keys -> LifecycleState]
           /\ \A k \in Keys : k # e.id.key => ReplayEntry(m, e)[k] = m[k]
<1> DEFINE k == e.id.key
           n == e.id.episode
<1>1. k \in Keys /\ n \in Nat \ {0} /\ m[k] \in LifecycleState
  BY EntryForm
<1>a. ASSUME NEW s \in LifecycleState, ReplayEntry(m, e) = [m EXCEPT ![k] = s]
      PROVE  /\ ReplayEntry(m, e) \in [Keys -> LifecycleState]
             /\ \A x \in Keys : x # k => ReplayEntry(m, e)[x] = m[x]
  BY <1>1, <1>a, UpdateType
<1>. SUFFICES \/ ReplayEntry(m, e) = m
              \/ \E s \in LifecycleState : ReplayEntry(m, e) = [m EXCEPT ![k] = s]
  BY <1>a
<1>2. CASE e.event = "IncidentOpened"
  <2>1. e.signal.time \in EventTimes
    BY <1>2, EntryForm, SignalForm DEF SignalEvents
  <2>2. ReplayEntry(m, e) = [m EXCEPT ![k] = Firing(n, FALSE, e.signal.time)]
    BY <1>2 DEF ReplayEntry
  <2>3. Firing(n, FALSE, e.signal.time) \in LifecycleState
    BY <1>1, <2>1, StateForms
  <2> QED
    BY <2>2, <2>3
<1>3. CASE e.event = "IncidentRecovered"
  <2>1. e.signal.time \in EventTimes
    BY <1>3, EntryForm, SignalForm DEF SignalEvents
  <2>2. ReplayEntry(m, e) = [m EXCEPT ![k] = Resolved(n, e.signal.time)]
    BY <1>3 DEF ReplayEntry
  <2>3. Resolved(n, e.signal.time) \in LifecycleState
    BY <1>1, <2>1, StateForms
  <2> QED
    BY <2>2, <2>3
<1>4. CASE e.event = "IncidentCompleted" /\ m[k].phase = "firing"
  <2>1. ReplayEntry(m, e) = [m EXCEPT ![k] = Firing(m[k].episode, TRUE, m[k].time)]
    BY <1>4 DEF ReplayEntry
  <2>2. m[k].episode \in Nat \ {0} /\ m[k].time \in EventTimes
    BY <1>1, <1>4, StateForms, StateCases
  <2>3. Firing(m[k].episode, TRUE, m[k].time) \in LifecycleState
    BY <2>2, StateForms
  <2> QED
    BY <2>1, <2>3
<1>5. CASE e.event = "IncidentResumed" /\ m[k].phase = "firing"
  <2>1. e.signal.time \in EventTimes
    BY <1>5, EntryForm, SignalForm DEF SignalEvents
  <2>2. ReplayEntry(m, e)
          = [m EXCEPT ![k] = Firing(m[k].episode, m[k].completed, e.signal.time)]
    BY <1>5 DEF ReplayEntry
  <2>3. Firing(m[k].episode, m[k].completed, e.signal.time) \in LifecycleState
    BY <1>1, <1>5, <2>1, StateForms, StateCases
  <2> QED
    BY <2>2, <2>3
<1>6. CASE /\ e.event \notin {"IncidentOpened", "IncidentRecovered"}
           /\ ~(e.event = "IncidentCompleted" /\ m[k].phase = "firing")
           /\ ~(e.event = "IncidentResumed" /\ m[k].phase = "firing")
  BY <1>6 DEF ReplayEntry
<1> QED
  BY <1>2, <1>3, <1>4, <1>5, <1>6

-----------------------------------------------------------------------------
(* What every step that commits an entry has in common *)

\* The types of the dispatcher's state.
MapTypes ==
    /\ lifecycle \in [Keys -> LifecycleState]
    /\ replayed \in [Keys -> LifecycleState]
    /\ journal \in Seq(JournalEvent)

\* The restored state of a key against the running one: only the time of a
\* recovery may lag, since AbsorbRecovery leaves no fact that replay reads.
Agree(r, s) ==
    /\ r.phase = s.phase
    /\ s.phase = "firing" => r = s
    /\ s.phase = "resolved" =>
         r.episode = s.episode /\ Millis[r.time] <= Millis[s.time]

Agreement == \A k \in Keys : Agree(replayed[k], lifecycle[k])

WellLabelled(e) ==
    /\ e.event \in SignalEvents => e.signal.key = e.id.key
    /\ e.event = "IncidentOpened" => e.signal.status = "firing"

\* Entry e takes a key's restored state from r to s.
Moves(e, r, s) ==
    /\ s # Absent
    /\ e.id.episode <= EpisodeOf(s)
    /\ EpisodeOf(r) <= EpisodeOf(s) /\ EpisodeOf(s) <= EpisodeOf(r) + 1
    /\ r # Absent => Millis[r.time] <= Millis[s.time]
    /\ e.event \in LifecycleEvents =>
         s.time = e.signal.time /\ s.phase = e.signal.status
    /\ e.event \notin LifecycleEvents =>
         r # Absent /\ s.time = r.time /\ s.phase = r.phase
    /\ e.event = "IncidentOpened" =>
         /\ EpisodeOf(r) < e.id.episode
         /\ e.id.episode = s.episode /\ ~s.completed
         /\ ~(r # Absent /\ Millis[e.signal.time] < Millis[r.time])
         /\ ~(r.phase = "firing" /\ r.time = e.signal.time)
    /\ e.event = "IncidentCompleted" => (s.phase = "firing" => s.completed)
    /\ s.phase = "firing" /\ ~s.completed /\ e.event # "IncidentOpened" =>
         r.phase = "firing" /\ ~r.completed /\ r.episode = s.episode
    /\ r.phase = "firing" /\ ~r.completed =>
         \/ /\ s.phase = "firing" /\ s.episode = r.episode
            /\ s.completed => e.event = "IncidentCompleted"
         \/ e.event = "IncidentRecovered" /\ e.id.episode = r.episode

Advance(e) ==
    /\ e \in JournalEvent
    /\ WellLabelled(e)
    /\ journal' = Append(journal, e)
    /\ lifecycle' \in [Keys -> LifecycleState]
    /\ replayed' \in [Keys -> LifecycleState]
    /\ \A k \in Keys \ {e.id.key} :
         lifecycle'[k] = lifecycle[k] /\ replayed'[k] = replayed[k]
    /\ Moves(e, replayed[e.id.key], replayed'[e.id.key])
    /\ Agree(replayed'[e.id.key], lifecycle'[e.id.key])

\* The state of one key, taken from the invariant.
LEMMA KeyState ==
    ASSUME MapTypes, Agreement, NEW k \in Keys
    PROVE  /\ lifecycle[k] \in LifecycleState
           /\ replayed[k] \in LifecycleState
           /\ Agree(replayed[k], lifecycle[k])
           /\ lifecycle[k] = Absent <=> replayed[k] = Absent
           /\ EpisodeOf(replayed[k]) = EpisodeOf(lifecycle[k])
           /\ EpisodeOf(lifecycle[k]) \in Nat
<1>1. lifecycle[k] \in LifecycleState /\ replayed[k] \in LifecycleState
  BY DEF MapTypes
<1>2. Agree(replayed[k], lifecycle[k])
  BY DEF Agreement
<1>3. lifecycle[k] = Absent <=> replayed[k] = Absent
  BY <1>1, <1>2, StateCases, StateForms DEF Agree
<1>4. /\ EpisodeOf(replayed[k]) = EpisodeOf(lifecycle[k])
      /\ EpisodeOf(lifecycle[k]) \in Nat
  BY <1>1, <1>2, <1>3, StateCases DEF Agree, EpisodeOf
<1> QED
  BY <1>1, <1>2, <1>3, <1>4

LEMMA Instants == \A t \in EventTimes : Millis[t] \in Int
  BY MillisAssumption

\* A journal entry built from a signal.
LEMMA FactForm ==
    ASSUME NEW ev \in SignalEvents, NEW g \in Signal, NEW n \in Nat \ {0},
           ev = "IncidentOpened" => g.status = "firing"
    PROVE  LET e == Fact(ev, Incident(g.key, n), g) IN
           /\ e \in JournalEvent
           /\ WellLabelled(e)
           /\ e.event = ev
           /\ e.id = Incident(g.key, n)
           /\ e.id.key = g.key
           /\ e.id.episode = n
           /\ e.signal = g
           /\ g.key \in Keys
           /\ g.time \in EventTimes
<1>1. g.key \in Keys /\ g.time \in EventTimes
  BY SignalForm
<1>2. Incident(g.key, n) \in IncidentId
  BY <1>1 DEF Incident, IncidentId
<1> QED
  BY <1>1, <1>2 DEF Fact, Incident, JournalEvent, WellLabelled

\* A commit that moves one key of the running map and of the replayed one.
LEMMA CommitAdvances ==
    ASSUME MapTypes, Agreement,
           NEW e \in JournalEvent, WellLabelled(e), Commit(e),
           NEW s \in LifecycleState,
           lifecycle' = [lifecycle EXCEPT ![e.id.key] = s],
           Moves(e, replayed[e.id.key], ReplayEntry(replayed, e)[e.id.key]),
           Agree(ReplayEntry(replayed, e)[e.id.key], s)
    PROVE  Advance(e)
<1>1. e.id.key \in Keys
  BY EntryForm
<1>2. /\ lifecycle' \in [Keys -> LifecycleState]
      /\ lifecycle'[e.id.key] = s
      /\ \A k \in Keys : k # e.id.key => lifecycle'[k] = lifecycle[k]
  BY <1>1, UpdateType DEF MapTypes
<1>3. replayed' = ReplayEntry(replayed, e) /\ journal' = Append(journal, e)
  BY DEF Commit
<1>4. /\ replayed' \in [Keys -> LifecycleState]
      /\ \A k \in Keys : k # e.id.key => replayed'[k] = replayed[k]
  BY <1>3, ReplayType DEF MapTypes
<1> QED
  BY <1>2, <1>3, <1>4 DEF Advance

\* The same when the running map stays.
LEMMA CommitKeepsMap ==
    ASSUME MapTypes, Agreement,
           NEW e \in JournalEvent, WellLabelled(e), Commit(e),
           UNCHANGED lifecycle,
           Moves(e, replayed[e.id.key], ReplayEntry(replayed, e)[e.id.key]),
           Agree(ReplayEntry(replayed, e)[e.id.key], lifecycle[e.id.key])
    PROVE  Advance(e)
<1>1. e.id.key \in Keys /\ lifecycle[e.id.key] \in LifecycleState
  BY EntryForm DEF MapTypes
<1>2. lifecycle' = [lifecycle EXCEPT ![e.id.key] = lifecycle[e.id.key]]
  BY <1>1 DEF MapTypes
<1> QED
  BY <1>1, <1>2, CommitAdvances

\* Replay skips the entry, and the key has a state.
LEMMA SkippedMoves ==
    ASSUME NEW r \in LifecycleState, r # Absent, NEW e \in JournalEvent,
           e.event \in {"AlertOutOfOrder", "AlertDeduplicated"},
           e.id.episode <= EpisodeOf(r)
    PROVE  Moves(e, r, r) /\ ReplayEntry(replayed, e) = replayed
<1>1. ReplayEntry(replayed, e) = replayed
  BY DEF ReplayEntry
<1>2. EpisodeOf(r) \in Nat \ {0}
  BY StateCases DEF EpisodeOf
<1>3. Millis[r.time] \in Int
  BY StateCases, Instants
<1> QED
  BY <1>1, <1>2, <1>3 DEF Moves, LifecycleEvents

\* An entry that replay skips and the running map does not follow.
LEMMA RejectStaleAdvances ==
    ASSUME MapTypes, Agreement, NEW g \in Signal, RejectStale(g)
    PROVE  Advance(Fact("AlertOutOfOrder", Incident(g.key, 1), g))
<1> DEFINE e == Fact("AlertOutOfOrder", Incident(g.key, 1), g)
           k == g.key
<1>1. /\ e \in JournalEvent /\ WellLabelled(e)
      /\ e.event = "AlertOutOfOrder"
      /\ e.id.key = k /\ e.id.episode = 1 /\ k \in Keys
  BY FactForm DEF SignalEvents
<1>2. replayed[k] # Absent /\ replayed[k] \in LifecycleState
  BY <1>1, KeyState DEF RejectStale, Stale
<1>3. 1 <= EpisodeOf(replayed[k])
  BY <1>2, StateCases DEF EpisodeOf
<1>4. /\ Moves(e, replayed[k], replayed[k])
      /\ ReplayEntry(replayed, e) = replayed
  BY <1>1, <1>2, <1>3, SkippedMoves
<1>5. Commit(e) /\ UNCHANGED lifecycle
  BY DEF RejectStale
<1> QED
  BY <1>1, <1>4, <1>5, KeyState, CommitKeepsMap

LEMMA SuppressRepeatAdvances ==
    ASSUME MapTypes, Agreement, NEW g \in Signal, SuppressRepeat(g)
    PROVE  Advance(Fact("AlertDeduplicated", Incident(g.key, 1), g))
<1> DEFINE e == Fact("AlertDeduplicated", Incident(g.key, 1), g)
           k == g.key
<1>1. /\ e \in JournalEvent /\ WellLabelled(e)
      /\ e.event = "AlertDeduplicated"
      /\ e.id.key = k /\ e.id.episode = 1 /\ k \in Keys
  BY FactForm DEF SignalEvents
<1>2. replayed[k] # Absent /\ replayed[k] \in LifecycleState
  BY <1>1, KeyState, StateForms DEF SuppressRepeat, Repeats
<1>3. 1 <= EpisodeOf(replayed[k])
  BY <1>2, StateCases DEF EpisodeOf
<1>4. /\ Moves(e, replayed[k], replayed[k])
      /\ ReplayEntry(replayed, e) = replayed
  BY <1>1, <1>2, <1>3, SkippedMoves
<1>5. Commit(e) /\ UNCHANGED lifecycle
  BY DEF SuppressRepeat
<1> QED
  BY <1>1, <1>4, <1>5, KeyState, CommitKeepsMap

\* The running map takes a time that replay will not see.
LEMMA AbsorbRecoveryAdvances ==
    ASSUME MapTypes, Agreement, NEW g \in Signal, AbsorbRecovery(g)
    PROVE  Advance(Fact("AlertDeduplicated",
                        Incident(g.key, lifecycle[g.key].episode), g))
<1> DEFINE k == g.key
           n == lifecycle[k].episode
           e == Fact("AlertDeduplicated", Incident(k, n), g)
<1>1. k \in Keys /\ g.time \in EventTimes
  BY SignalForm
<1>2. /\ lifecycle[k] # Absent /\ lifecycle[k] \in LifecycleState
      /\ lifecycle[k].phase = "resolved"
      /\ n \in Nat \ {0} /\ lifecycle[k].time \in EventTimes
  BY <1>1, KeyState, StateForms, StateCases DEF AbsorbRecovery
<1>3. /\ replayed[k] # Absent /\ replayed[k] \in LifecycleState
      /\ replayed[k].phase = "resolved" /\ replayed[k].episode = n
      /\ Millis[replayed[k].time] <= Millis[lifecycle[k].time]
      /\ replayed[k].time \in EventTimes
  BY <1>1, <1>2, KeyState, StateCases, StateForms DEF Agree
<1>4. /\ e \in JournalEvent /\ WellLabelled(e)
      /\ e.event = "AlertDeduplicated"
      /\ e.id.key = k /\ e.id.episode = n
  BY <1>2, FactForm DEF SignalEvents
<1>5. EpisodeOf(replayed[k]) = n
  BY <1>3 DEF EpisodeOf
<1>6. /\ Moves(e, replayed[k], replayed[k])
      /\ ReplayEntry(replayed, e) = replayed
  BY <1>2, <1>3, <1>4, <1>5, SkippedMoves
<1>7. Resolved(n, g.time) \in LifecycleState
  BY <1>1, <1>2, StateForms
<1>8. Agree(replayed[k], Resolved(n, g.time))
  <2>1. /\ Resolved(n, g.time).phase = "resolved"
        /\ Resolved(n, g.time).episode = n
        /\ Resolved(n, g.time).time = g.time
    BY <1>1, <1>2, StateForms
  <2>2. ~(Millis[g.time] < Millis[lifecycle[k].time])
    BY <1>2 DEF AbsorbRecovery, Stale
  <2>3. Millis[replayed[k].time] <= Millis[g.time]
    BY <1>1, <1>2, <1>3, <2>2, Instants
  <2> QED
    BY <1>3, <2>1, <2>3 DEF Agree
<1>9. Commit(e) /\ lifecycle' = [lifecycle EXCEPT ![k] = Resolved(n, g.time)]
  BY DEF AbsorbRecovery
<1> QED
  BY <1>4, <1>6, <1>7, <1>8, <1>9, CommitAdvances

\* What a lifecycle fact does to the restored state of its key.
LEMMA FactReplayed ==
    ASSUME NEW m \in [Keys -> LifecycleState], NEW e \in JournalEvent
    PROVE  /\ e.event = "IncidentOpened" =>
                ReplayEntry(m, e)[e.id.key] = Firing(e.id.episode, FALSE, e.signal.time)
           /\ e.event = "IncidentRecovered" =>
                ReplayEntry(m, e)[e.id.key] = Resolved(e.id.episode, e.signal.time)
           /\ e.event = "IncidentResumed" /\ m[e.id.key].phase = "firing" =>
                ReplayEntry(m, e)[e.id.key]
                  = Firing(m[e.id.key].episode, m[e.id.key].completed, e.signal.time)
           /\ e.event = "IncidentCompleted" /\ m[e.id.key].phase = "firing" =>
                ReplayEntry(m, e)[e.id.key]
                  = Firing(m[e.id.key].episode, TRUE, m[e.id.key].time)
           /\ e.event = "IncidentCompleted" /\ m[e.id.key].phase # "firing" =>
                ReplayEntry(m, e)[e.id.key] = m[e.id.key]
<1>1. e.id.key \in Keys
  BY EntryForm
<1> QED
  BY <1>1 DEF ReplayEntry

LEMMA ResumeAdvances ==
    ASSUME MapTypes, Agreement, NEW g \in Signal, Resume(g)
    PROVE  Advance(Fact("IncidentResumed",
                        Incident(g.key, lifecycle[g.key].episode), g))
<1> DEFINE k == g.key
           n == lifecycle[k].episode
           e == Fact("IncidentResumed", Incident(k, n), g)
           s == Firing(n, FALSE, g.time)
<1>1. k \in Keys /\ g.time \in EventTimes
  BY SignalForm
<1>2. /\ lifecycle[k] # Absent /\ lifecycle[k] \in LifecycleState
      /\ lifecycle[k].phase = "firing" /\ ~lifecycle[k].completed
      /\ n \in Nat \ {0} /\ lifecycle[k].time \in EventTimes
      /\ replayed[k] = lifecycle[k]
      /\ EpisodeOf(lifecycle[k]) = n
  BY <1>1, KeyState, StateForms, StateCases DEF Resume, Agree, EpisodeOf
<1>3. /\ e \in JournalEvent /\ WellLabelled(e)
      /\ e.event = "IncidentResumed" /\ e.signal = g
      /\ e.id.key = k /\ e.id.episode = n
  BY <1>2, FactForm DEF SignalEvents
<1>4. ReplayEntry(replayed, e)[k] = s
  <2> DEFINE c == lifecycle[k].completed
  <2>1. replayed \in [Keys -> LifecycleState]
    BY DEF MapTypes
  <2>2. /\ replayed[k].phase = "firing" /\ replayed[k].episode = n
        /\ replayed[k].completed = c
    BY <1>2
  <2>3. ReplayEntry(replayed, e)[k]
          = Firing(replayed[k].episode, replayed[k].completed, g.time)
    BY <1>3, <2>1, <2>2, FactReplayed
  <2>4. c = FALSE
    BY <1>1, <1>2, StateCases
  <2> QED
    BY <2>2, <2>3, <2>4, Zenon
<1>5. /\ s \in LifecycleState /\ s # Absent
      /\ s.phase = "firing" /\ s.time = g.time
      /\ s.episode = n /\ ~s.completed /\ EpisodeOf(s) = n
  BY <1>1, <1>2, UnfinishedForm
<1>6. Millis[lifecycle[k].time] <= Millis[g.time]
  BY <1>1, <1>2, Instants DEF Resume, Stale
<1>7. g.status = "firing"
  BY DEF Resume
<1>8. Moves(e, lifecycle[k], s)
  <2> HIDE DEF e, s
  <2> QED
    BY <1>2, <1>3, <1>5, <1>6, <1>7 DEF Moves, LifecycleEvents
<1>9. Agree(s, s)
  BY <1>5 DEF Agree
<1>10. Commit(e) /\ lifecycle' = [lifecycle EXCEPT ![k] = s]
  BY DEF Resume
<1> QED
  BY <1>2, <1>3, <1>4, <1>5, <1>8, <1>9, <1>10, CommitAdvances

LEMMA RecoverAdvances ==
    ASSUME MapTypes, Agreement, NEW g \in Signal, Recover(g)
    PROVE  Advance(Fact("IncidentRecovered",
                        Incident(g.key, lifecycle[g.key].episode), g))
<1> DEFINE k == g.key
           n == lifecycle[k].episode
           e == Fact("IncidentRecovered", Incident(k, n), g)
           s == Resolved(n, g.time)
<1>1. k \in Keys /\ g.time \in EventTimes
  BY SignalForm
<1>2. /\ lifecycle[k] # Absent /\ lifecycle[k] \in LifecycleState
      /\ lifecycle[k].phase = "firing"
      /\ n \in Nat \ {0} /\ lifecycle[k].time \in EventTimes
      /\ replayed[k] = lifecycle[k]
      /\ EpisodeOf(lifecycle[k]) = n
  BY <1>1, KeyState, StateForms, StateCases DEF Recover, Agree, EpisodeOf
<1>3. /\ e \in JournalEvent /\ WellLabelled(e)
      /\ e.event = "IncidentRecovered" /\ e.signal = g
      /\ e.id.key = k /\ e.id.episode = n
  BY <1>2, FactForm DEF SignalEvents
<1>4. ReplayEntry(replayed, e)[k] = s
  BY <1>3, FactReplayed DEF MapTypes
<1>5. /\ s \in LifecycleState /\ s # Absent
      /\ s.phase = "resolved" /\ s.time = g.time
      /\ s.episode = n /\ EpisodeOf(s) = n
  BY <1>1, <1>2, StateForms DEF EpisodeOf
<1>6. Millis[lifecycle[k].time] <= Millis[g.time]
  BY <1>1, <1>2, Instants DEF Recover, Stale
<1>7. g.status = "resolved"
  BY DEF Recover
<1>8. Moves(e, lifecycle[k], s)
  BY <1>2, <1>3, <1>5, <1>6, <1>7 DEF Moves, LifecycleEvents
<1>9. Agree(s, s)
  BY <1>1, <1>5, Instants DEF Agree
<1>10. Commit(e) /\ lifecycle' = [lifecycle EXCEPT ![k] = s]
  BY DEF Recover
<1> QED
  BY <1>2, <1>3, <1>4, <1>5, <1>8, <1>9, <1>10, CommitAdvances

LEMMA RecoverUnknownAdvances ==
    ASSUME MapTypes, Agreement, NEW g \in Signal, RecoverUnknown(g)
    PROVE  Advance(Fact("IncidentRecovered", Incident(g.key, 1), g))
<1> DEFINE k == g.key
           e == Fact("IncidentRecovered", Incident(k, 1), g)
           s == Resolved(1, g.time)
<1>1. k \in Keys /\ g.time \in EventTimes
  BY SignalForm
<1>2. /\ replayed[k] = Absent
      /\ EpisodeOf(Absent) = 0
  BY <1>1, KeyState DEF RecoverUnknown, EpisodeOf
<1>3. /\ e \in JournalEvent /\ WellLabelled(e)
      /\ e.event = "IncidentRecovered" /\ e.signal = g
      /\ e.id.key = k /\ e.id.episode = 1
  BY FactForm DEF SignalEvents
<1>4. ReplayEntry(replayed, e)[k] = s
  BY <1>3, FactReplayed DEF MapTypes
<1>5. /\ s \in LifecycleState /\ s # Absent
      /\ s.phase = "resolved" /\ s.time = g.time
      /\ s.episode = 1 /\ EpisodeOf(s) = 1
  BY <1>1, StateForms DEF EpisodeOf
<1>6. g.status = "resolved"
  BY DEF RecoverUnknown
<1>7. Moves(e, Absent, s)
  BY <1>2, <1>3, <1>5, <1>6, StateForms DEF Moves, LifecycleEvents
<1>8. Agree(s, s)
  BY <1>1, <1>5, Instants DEF Agree
<1>9. Commit(e) /\ lifecycle' = [lifecycle EXCEPT ![k] = s]
  BY DEF RecoverUnknown
<1> QED
  BY <1>2, <1>3, <1>4, <1>5, <1>7, <1>8, <1>9, CommitAdvances

\* An opening is newer than the state of its key, or ties with another event.
LEMMA StartsEpisodeAdvances ==
    ASSUME MapTypes, Agreement, NEW g \in Signal, StartsEpisode(g)
    PROVE  /\ Advance(Fact("IncidentOpened", NextIncident(g), g))
           /\ NextIncident(g) \in IncidentId
           /\ NextIncident(g).key = g.key
           /\ NextIncident(g).episode = EpisodeOf(lifecycle[g.key]) + 1
<1> DEFINE k == g.key
           r == replayed[k]
           n == NextIncident(g).episode
           e == Fact("IncidentOpened", NextIncident(g), g)
           s == Firing(n, FALSE, g.time)
<1>1. k \in Keys /\ g.time \in EventTimes /\ Millis[g.time] \in Int
  BY SignalForm, Instants
<1>2. /\ lifecycle[k] \in LifecycleState /\ r \in LifecycleState
      /\ Agree(r, lifecycle[k])
      /\ lifecycle[k] = Absent <=> r = Absent
      /\ EpisodeOf(r) = EpisodeOf(lifecycle[k])
      /\ EpisodeOf(lifecycle[k]) \in Nat
  BY <1>1, KeyState
<1>3. /\ NextIncident(g) = Incident(k, n)
      /\ n = EpisodeOf(lifecycle[k]) + 1
      /\ n \in Nat \ {0}
  BY <1>2 DEF NextIncident, Incident
<1>4. g.status = "firing" /\ ~Stale(g) /\ ~Repeats(g) /\ Closed(lifecycle[k])
  BY DEF StartsEpisode
<1>5. /\ e \in JournalEvent /\ WellLabelled(e)
      /\ e.event = "IncidentOpened" /\ e.signal = g
      /\ e.id.key = k /\ e.id.episode = n
  BY <1>3, <1>4, FactForm DEF SignalEvents
<1>6. ReplayEntry(replayed, e)[k] = s
  BY <1>5, FactReplayed DEF MapTypes
<1>7. /\ s \in LifecycleState /\ s # Absent
      /\ s.phase = "firing" /\ s.time = g.time /\ ~s.completed
      /\ s.episode = n /\ EpisodeOf(s) = n
  BY <1>1, <1>3, UnfinishedForm
<1>8. r # Absent => Millis[r.time] <= Millis[g.time]
  <2>1. SUFFICES ASSUME r # Absent
                 PROVE  Millis[r.time] <= Millis[g.time]
    OBVIOUS
  <2>2. Millis[lifecycle[k].time] <= Millis[g.time]
    BY <1>1, <1>2, <1>4, <2>1, StateCases, Instants DEF Stale
  <2>3. /\ Millis[r.time] \in Int /\ Millis[lifecycle[k].time] \in Int
    BY <1>2, <2>1, StateCases, Instants
  <2>4. Millis[r.time] <= Millis[lifecycle[k].time]
    BY <1>2, <2>1, <2>3, StateCases DEF Agree
  <2> QED
    BY <1>1, <2>2, <2>3, <2>4
<1>9. ~(r.phase = "firing" /\ r.time = g.time)
  <2>1. SUFFICES ASSUME r.phase = "firing", r.time = g.time
                 PROVE  FALSE
    OBVIOUS
  <2>2. /\ lifecycle[k] = r /\ lifecycle[k].phase = "firing"
        /\ lifecycle[k] # Absent
    BY <1>2, <2>1, StateForms, StateCases DEF Agree
  <2>3. lifecycle[k].completed
    BY <1>4, <2>2 DEF Closed
  <2> QED
    BY <1>4, <2>1, <2>2, <2>3 DEF Repeats
<1>10. ~(r # Absent /\ Millis[g.time] < Millis[r.time])
  <2>1. r # Absent => Millis[r.time] \in Int
    BY <1>2, StateCases, Instants
  <2> QED
    BY <1>1, <1>8, <2>1
<1>11. Moves(e, r, s)
  <2>1. ~(r.phase = "firing" /\ ~r.completed)
    BY <1>2, <1>4, StateForms DEF Closed, Agree
  <2> HIDE DEF e, s, n, r
  <2> QED
    BY <1>2, <1>3, <1>4, <1>5, <1>7, <1>8, <1>9, <1>10, <2>1 DEF Moves, LifecycleEvents
<1>12. Agree(s, s)
  BY <1>7 DEF Agree
<1>13. Commit(e) /\ lifecycle' = [lifecycle EXCEPT ![k] = s]
  BY DEF StartsEpisode
<1>14. Advance(e)
  BY <1>5, <1>6, <1>7, <1>11, <1>12, <1>13, CommitAdvances
<1>15. NextIncident(g) \in IncidentId /\ NextIncident(g).key = k
  BY <1>1, <1>3 DEF Incident, IncidentId
<1> QED
  BY <1>3, <1>14, <1>15

\* A completion of an incident that was opened.
LEMMA MarkCompletedAdvances ==
    ASSUME MapTypes, Agreement, NEW id \in IncidentId,
           id.episode <= EpisodeOf(replayed[id.key]), MarkCompleted(id)
    PROVE  Advance([event |-> "IncidentCompleted", id |-> id])
<1> DEFINE k == id.key
           r == replayed[k]
           e == [event |-> "IncidentCompleted", id |-> id]
<1>1. k \in Keys /\ id.episode \in Nat \ {0}
  BY DEF IncidentId
<1>2. /\ e \in JournalEvent /\ WellLabelled(e)
      /\ e.event = "IncidentCompleted" /\ e.id.key = k
      /\ e.id.episode = id.episode
  BY DEF JournalEvent, WellLabelled, SignalEvents
<1>3. /\ r \in LifecycleState /\ lifecycle[k] \in LifecycleState
      /\ Agree(r, lifecycle[k])
      /\ r # Absent
  <2>1. r \in LifecycleState /\ lifecycle[k] \in LifecycleState
        /\ Agree(r, lifecycle[k])
    BY <1>1, KeyState
  <2>2. r # Absent
    BY <1>1 DEF EpisodeOf
  <2> QED
    BY <2>1, <2>2
<1>4. Commit(e)
  BY DEF MarkCompleted
<1>5. CASE lifecycle[k].phase = "firing"
  <2> DEFINE s == Firing(r.episode, TRUE, r.time)
  <2>1. /\ r = lifecycle[k] /\ r.phase = "firing"
        /\ r.episode \in Nat \ {0} /\ r.time \in EventTimes
        /\ Millis[r.time] \in Int /\ EpisodeOf(r) = r.episode
    BY <1>3, <1>5, StateCases, StateForms, Instants DEF Agree, EpisodeOf
  <2>2. ReplayEntry(replayed, e)[k] = s
    BY <1>2, <2>1, FactReplayed DEF MapTypes
  <2>3. /\ s \in LifecycleState /\ s # Absent
        /\ s.phase = "firing" /\ s.episode = r.episode /\ s.time = r.time
    BY <2>1, StateForms DEF Firing, LifecycleState
  <2>4. s.completed
    BY DEF Firing
  <2>5. EpisodeOf(s) = EpisodeOf(r)
    BY <2>1, <2>3 DEF EpisodeOf
  <2>6. Moves(e, r, s)
    <3>1. e.id.episode <= EpisodeOf(r) /\ r # Absent
      BY <1>2, <1>3
    <3> HIDE DEF e, s, r
    <3> QED
      BY <1>2, <2>1, <2>3, <2>4, <2>5, <3>1 DEF Moves, LifecycleEvents
  <2>7. Agree(s, s)
    BY <2>3 DEF Agree
  <2>8. lifecycle' = [lifecycle EXCEPT ![k] = s]
    BY <1>5, <2>1 DEF MarkCompleted
  <2> QED
    BY <1>2, <1>4, <2>2, <2>3, <2>6, <2>7, <2>8, CommitAdvances
<1>6. CASE lifecycle[k].phase # "firing"
  <2>1. r.phase # "firing"
    BY <1>3, <1>6 DEF Agree
  <2>2. ReplayEntry(replayed, e)[k] = r
    BY <1>2, <2>1, FactReplayed DEF MapTypes
  <2>3. r.time \in EventTimes /\ Millis[r.time] \in Int /\ EpisodeOf(r) \in Nat
    BY <1>3, StateCases, Instants DEF EpisodeOf
  <2>4. Moves(e, r, r)
    BY <1>2, <1>3, <2>1, <2>3 DEF Moves, LifecycleEvents
  <2>5. UNCHANGED lifecycle
    BY <1>6 DEF MarkCompleted
  <2> QED
    BY <1>2, <1>3, <1>4, <2>2, <2>4, <2>5, CommitKeepsMap
<1> QED
  BY <1>5, <1>6

\* A settling signal advances the journal by an entry that opens nothing and
\* completes nothing.
LEMMA SettlesAdvances ==
    ASSUME MapTypes, Agreement, NEW g \in Signal, Settles(g)
    PROVE  \E e : /\ Advance(e) /\ Commit(e)
                  /\ e.event \in SignalEvents \ {"IncidentOpened"}
                  /\ e.signal = g /\ e.id.key = g.key
<1>a. ASSUME NEW ev, NEW n, Advance(Fact(ev, Incident(g.key, n), g)),
             Commit(Fact(ev, Incident(g.key, n), g)),
             ev \in SignalEvents \ {"IncidentOpened"}
      PROVE  \E e : /\ Advance(e) /\ Commit(e)
                    /\ e.event \in SignalEvents \ {"IncidentOpened"}
                    /\ e.signal = g /\ e.id.key = g.key
  <2> DEFINE e == Fact(ev, Incident(g.key, n), g)
  <2>1. e.event = ev /\ e.signal = g /\ e.id.key = g.key
    BY DEF Fact, Incident
  <2> WITNESS e
  <2> QED
    BY <1>a, <2>1
<1>b. /\ "AlertOutOfOrder" \in SignalEvents \ {"IncidentOpened"}
      /\ "AlertDeduplicated" \in SignalEvents \ {"IncidentOpened"}
      /\ "IncidentResumed" \in SignalEvents \ {"IncidentOpened"}
      /\ "IncidentRecovered" \in SignalEvents \ {"IncidentOpened"}
  BY DEF SignalEvents
<1>1. CASE RejectStale(g)
  BY <1>1, <1>a, <1>b, RejectStaleAdvances DEF RejectStale
<1>2. CASE SuppressRepeat(g)
  BY <1>2, <1>a, <1>b, SuppressRepeatAdvances DEF SuppressRepeat
<1>3. CASE AbsorbRecovery(g)
  BY <1>3, <1>a, <1>b, AbsorbRecoveryAdvances DEF AbsorbRecovery
<1>4. CASE Resume(g)
  BY <1>4, <1>a, <1>b, ResumeAdvances DEF Resume
<1>5. CASE Recover(g)
  BY <1>5, <1>a, <1>b, RecoverAdvances DEF Recover
<1>6. CASE RecoverUnknown(g)
  BY <1>6, <1>a, <1>b, RecoverUnknownAdvances DEF RecoverUnknown
<1> QED
  BY <1>1, <1>2, <1>3, <1>4, <1>5, <1>6 DEF Settles

Last == Len(journal) + 1

LEMMA EntryTypes ==
    ASSUME MapTypes, NEW i \in DOMAIN journal
    PROVE  journal[i] \in JournalEvent /\ journal[i].id.key \in Keys
<1>1. journal[i] \in JournalEvent
  BY DEF MapTypes
<1> QED
  BY <1>1, EntryForm

LEMMA JournalGrows ==
    ASSUME MapTypes, NEW e, Advance(e)
    PROVE  /\ journal' \in Seq(JournalEvent)
           /\ DOMAIN journal' = DOMAIN journal \cup {Last}
           /\ \A i \in DOMAIN journal : journal'[i] = journal[i] /\ i < Last
           /\ journal'[Last] = e
           /\ Last \in Int /\ Last \notin DOMAIN journal
           /\ DOMAIN journal \subseteq Int
<1>1. journal \in Seq(JournalEvent) /\ e \in JournalEvent
  BY DEF MapTypes, Advance
<1>2. journal' = Append(journal, e)
  BY DEF Advance
<1> QED
  BY <1>1, <1>2 DEF Last

\* The restored state of a key never goes back.
LEMMA Forward ==
    ASSUME MapTypes, NEW e, Advance(e), NEW k \in Keys
    PROVE  /\ EpisodeOf(replayed[k]) \in Nat
           /\ EpisodeOf(replayed'[k]) \in Nat
           /\ EpisodeOf(replayed[k]) <= EpisodeOf(replayed'[k])
           /\ replayed[k] # Absent =>
                /\ replayed'[k] # Absent
                /\ Millis[replayed[k].time] \in Int
                /\ Millis[replayed'[k].time] \in Int
                /\ Millis[replayed[k].time] <= Millis[replayed'[k].time]
<1>1. replayed[k] \in LifecycleState /\ replayed'[k] \in LifecycleState
  BY DEF MapTypes, Advance
<1>2. EpisodeOf(replayed[k]) \in Nat /\ EpisodeOf(replayed'[k]) \in Nat
  BY <1>1, StateCases DEF EpisodeOf
<1>3. /\ replayed[k] # Absent => Millis[replayed[k].time] \in Int
      /\ replayed'[k] # Absent => Millis[replayed'[k].time] \in Int
  BY <1>1, StateCases, Instants
<1>4. CASE k # e.id.key
  <2>1. replayed'[k] = replayed[k]
    BY <1>4 DEF Advance
  <2> QED
    BY <1>2, <1>3, <2>1
<1>5. CASE k = e.id.key
  <2>1. Moves(e, replayed[k], replayed'[k])
    BY <1>5 DEF Advance
  <2> QED
    BY <1>2, <1>3, <2>1 DEF Moves
<1> QED
  BY <1>4, <1>5

LEMMA MovedKey ==
    ASSUME NEW e, Advance(e)
    PROVE  /\ e \in JournalEvent
           /\ e.id.key \in Keys
           /\ WellLabelled(e)
           /\ Moves(e, replayed[e.id.key], replayed'[e.id.key])
           /\ \A k \in Keys : k # e.id.key => replayed'[k] = replayed[k]
<1>1. e \in JournalEvent
  BY DEF Advance
<1>2. e.id.key \in Keys
  BY <1>1, EntryForm
<1> QED
  BY <1>1, <1>2 DEF Advance

LEMMA AgreementKept ==
    ASSUME MapTypes, Agreement, NEW e, Advance(e)
    PROVE  Agreement'
<1> SUFFICES ASSUME NEW k \in Keys
             PROVE  Agree(replayed[k], lifecycle[k])'
  BY DEF Agreement
<1>1. CASE k = e.id.key
  BY <1>1 DEF Advance, Agree
<1>2. CASE k # e.id.key
  <2>1. replayed'[k] = replayed[k] /\ lifecycle'[k] = lifecycle[k]
    BY <1>2 DEF Advance
  <2>2. Agree(replayed[k], lifecycle[k])
    BY DEF Agreement
  <2> QED
    BY <2>1, <2>2 DEF Agree
<1> QED
  BY <1>1, <1>2

=============================================================================
