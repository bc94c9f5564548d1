----------------------- MODULE IncidentDispatchProofs -----------------------
(***************************************************************************)
(* Proofs about IncidentDispatch, for any keys, event times, instants and  *)
(* journal bound.                                                          *)
(***************************************************************************)
EXTENDS IncidentDispatch, IncidentLifecycleProofs

-----------------------------------------------------------------------------
(* The inductive invariant *)

\* No entry names an episode beyond the current one.
Numbering ==
    \A i \in DOMAIN journal :
        journal[i].id.episode <= EpisodeOf(replayed[journal[i].id.key])

\* No lifecycle fact is later than the time replay restores.
Horizon ==
    \A i \in DOMAIN journal :
        journal[i].event \in LifecycleEvents =>
            /\ replayed[journal[i].id.key] # Absent
            /\ Millis[journal[i].signal.time]
                 <= Millis[replayed[journal[i].id.key].time]

Labels == \A i \in DOMAIN journal : WellLabelled(journal[i])

\* The event behind an opening is tied, or past, or still the current one.
Spent(g) ==
    LET r == replayed[g.key] IN
    \/ Tied(g)
    \/ r # Absent /\ Millis[g.time] < Millis[r.time]
    \/ r.phase = "firing" /\ r.time = g.time

Openings ==
    \A i \in DOMAIN journal :
        journal[i].event = "IncidentOpened" => Spent(journal[i].signal)

Done(id) ==
    \E i \in DOMAIN journal :
        journal[i].event = "IncidentCompleted" /\ journal[i].id = id

HandedOpen ==
    \A h \in handed : h.episode <= EpisodeOf(replayed[h.key]) /\ ~Done(h)

PendingOpen ==
    \A k \in Keys :
        replayed[k].phase = "firing" /\ ~replayed[k].completed
            => ~Done(Incident(k, replayed[k].episode))

IInv ==
    /\ TypeOK
    /\ Agreement
    /\ Numbering
    /\ Horizon
    /\ Labels
    /\ Openings
    /\ HandedOpen
    /\ PendingOpen
    /\ OpenedOnce
    /\ LifecycleFactsInOrder
    /\ EventOpensOnce
    /\ CompletedOnce

-----------------------------------------------------------------------------
(* Every commit preserves the invariant *)

LEMMA TypesOfMaps == TypeOK => MapTypes
  BY DEF TypeOK, MapTypes

LEMMA NumberingKept ==
    ASSUME MapTypes, Numbering, NEW e, Advance(e)
    PROVE  Numbering'
<1> SUFFICES ASSUME NEW i \in DOMAIN journal'
             PROVE  journal'[i].id.episode <= EpisodeOf(replayed'[journal'[i].id.key])
  BY DEF Numbering, EpisodeOf
<1>1. CASE i = Last
  BY <1>1, JournalGrows, MovedKey DEF Moves
<1>2. CASE i \in DOMAIN journal
  <2> DEFINE k == journal[i].id.key
  <2>1. journal'[i] = journal[i]
    BY <1>2, JournalGrows
  <2>2. k \in Keys /\ journal[i].id.episode \in Nat
    BY <1>2, EntryTypes, EntryForm
  <2>3. journal[i].id.episode <= EpisodeOf(replayed[k])
    BY <1>2 DEF Numbering
  <2>4. /\ EpisodeOf(replayed[k]) <= EpisodeOf(replayed'[k])
        /\ EpisodeOf(replayed[k]) \in Nat /\ EpisodeOf(replayed'[k]) \in Nat
    BY <2>2, Forward
  <2>5. journal[i].id.episode <= EpisodeOf(replayed'[k])
    BY <2>2, <2>3, <2>4
  <2> QED
    BY <2>1, <2>5
<1> QED
  BY <1>1, <1>2, JournalGrows

LEMMA HorizonKept ==
    ASSUME MapTypes, Horizon, NEW e, Advance(e)
    PROVE  Horizon'
<1> SUFFICES ASSUME NEW i \in DOMAIN journal',
                    journal'[i].event \in LifecycleEvents
             PROVE  /\ replayed'[journal'[i].id.key] # Absent
                    /\ Millis[journal'[i].signal.time]
                         <= Millis[replayed'[journal'[i].id.key].time]
  BY DEF Horizon
<1>1. CASE i = Last
  <2>1. journal'[i] = e
    BY <1>1, JournalGrows
  <2>2. /\ e \in JournalEvent
        /\ Moves(e, replayed[e.id.key], replayed'[e.id.key])
    BY MovedKey
  <2>3. Millis[e.signal.time] \in Int
    BY <2>1, <2>2, EntryForm, SignalForm, Instants DEF LifecycleEvents, SignalEvents
  <2> QED
    BY <2>1, <2>2, <2>3 DEF Moves
<1>2. CASE i \in DOMAIN journal
  <2> DEFINE k == journal[i].id.key
  <2>1. journal'[i] = journal[i]
    BY <1>2, JournalGrows
  <2>2. k \in Keys /\ Millis[journal[i].signal.time] \in Int
    BY <1>2, <2>1, EntryTypes, EntryForm, SignalForm, Instants
    DEF LifecycleEvents, SignalEvents
  <2>3. /\ replayed[k] # Absent
        /\ Millis[journal[i].signal.time] <= Millis[replayed[k].time]
    BY <1>2, <2>1 DEF Horizon
  <2>4. /\ replayed'[k] # Absent
        /\ Millis[replayed[k].time] \in Int
        /\ Millis[replayed'[k].time] \in Int
        /\ Millis[replayed[k].time] <= Millis[replayed'[k].time]
    BY <2>2, <2>3, Forward
  <2>5. Millis[journal[i].signal.time] <= Millis[replayed'[k].time]
    BY <2>2, <2>3, <2>4
  <2> QED
    BY <2>1, <2>4, <2>5
<1> QED
  BY <1>1, <1>2, JournalGrows

LEMMA LabelsKept ==
    ASSUME MapTypes, Labels, NEW e, Advance(e)
    PROVE  Labels'
  BY JournalGrows, MovedKey DEF Labels, WellLabelled

\* A tie, once in the journal, stays.
LEMMA TiedStays ==
    ASSUME MapTypes, NEW e, Advance(e), NEW g \in Signal, Tied(g)
    PROVE  Tied(g)'
<1>1. PICK i \in DOMAIN journal :
         /\ journal[i].event \in LifecycleEvents
         /\ journal[i].signal.key = g.key
         /\ journal[i].signal # g
         /\ Millis[journal[i].signal.time] = Millis[g.time]
  BY DEF Tied
<1>2. i \in DOMAIN journal' /\ journal'[i] = journal[i]
  BY JournalGrows
<1> QED
  BY <1>1, <1>2 DEF Tied

\* An event still current is passed, tied or kept by the next commit.
LEMMA SpentStays ==
    ASSUME MapTypes, NEW e, Advance(e), NEW g \in Signal, g.status = "firing", Spent(g)
    PROVE  Spent(g)'
<1> DEFINE r == replayed[g.key]
           s == replayed'[g.key]
<1>1. g.key \in Keys /\ g.time \in EventTimes /\ Millis[g.time] \in Int
  BY SignalForm, Instants
<1>2. r # Absent =>
         /\ s # Absent
         /\ Millis[r.time] \in Int /\ Millis[s.time] \in Int
         /\ Millis[r.time] <= Millis[s.time]
  BY <1>1, Forward
<1>3. CASE Tied(g)
  BY <1>3, TiedStays DEF Spent
<1>4. CASE r # Absent /\ Millis[g.time] < Millis[r.time]
  <2>1. s # Absent /\ Millis[g.time] < Millis[s.time]
    BY <1>1, <1>2, <1>4
  <2> QED
    BY <2>1 DEF Spent
<1>5. CASE r.phase = "firing" /\ r.time = g.time
  <2>1. r # Absent
    BY <1>5, StateForms
  <2>2. CASE g.key # e.id.key
    BY <1>1, <1>5, <2>2, MovedKey DEF Spent
  <2>3. CASE g.key = e.id.key /\ e.event \notin LifecycleEvents
    <3>1. s.phase = r.phase /\ s.time = r.time
      BY <2>3, MovedKey DEF Moves
    <3> QED
      BY <1>5, <3>1 DEF Spent
  <2>4. CASE g.key = e.id.key /\ e.event \in LifecycleEvents
    <3>1. s.time = e.signal.time /\ s.phase = e.signal.status
      BY <2>4, MovedKey DEF Moves
    <3>2. e.signal.key = g.key
      BY <2>4, MovedKey DEF WellLabelled, LifecycleEvents, SignalEvents
    <3>3. CASE Millis[g.time] < Millis[s.time]
      BY <1>2, <2>1, <3>3 DEF Spent
    <3>4. CASE Millis[g.time] = Millis[s.time] /\ e.signal # g
      <4>1. Last \in DOMAIN journal' /\ journal'[Last] = e
        BY JournalGrows
      <4>2. Tied(g)'
        BY <2>4, <3>1, <3>2, <3>4, <4>1 DEF Tied
      <4> QED
        BY <4>2 DEF Spent
    <3>5. CASE e.signal = g
      BY <3>1, <3>5 DEF Spent
    <3> QED
      BY <1>1, <1>2, <1>5, <2>1, <3>3, <3>4, <3>5
  <2> QED
    BY <2>2, <2>3, <2>4
<1> QED
  BY <1>3, <1>4, <1>5 DEF Spent

LEMMA OpeningSignal ==
    ASSUME MapTypes, Labels, NEW i \in DOMAIN journal,
           journal[i].event = "IncidentOpened"
    PROVE  /\ journal[i].signal \in Signal
           /\ journal[i].signal.status = "firing"
           /\ journal[i].signal.key = journal[i].id.key
  BY EntryTypes, EntryForm DEF Labels, WellLabelled, SignalEvents

LEMMA OpeningsKept ==
    ASSUME MapTypes, Labels, Openings, NEW e, Advance(e)
    PROVE  Openings'
<1> SUFFICES ASSUME NEW i \in DOMAIN journal', NEW g, g = journal'[i].signal,
                    journal'[i].event = "IncidentOpened"
             PROVE  Spent(g)'
  BY Zenon DEF Openings
<1>1. CASE i = Last
  <2>1. journal'[i] = e /\ g = e.signal
    BY <1>1, JournalGrows
  <2>2. /\ g.key = e.id.key
        /\ g.status = "firing"
    BY <2>1, MovedKey DEF WellLabelled, SignalEvents
  <2>3. /\ replayed'[g.key].phase = "firing"
        /\ replayed'[g.key].time = g.time
    BY <2>1, <2>2, MovedKey DEF Moves, LifecycleEvents
  <2> QED
    BY <2>3 DEF Spent
<1>2. CASE i \in DOMAIN journal
  <2>1. journal'[i] = journal[i]
    BY <1>2, JournalGrows
  <2>2. Spent(journal[i].signal)
    BY <1>2, <2>1 DEF Openings
  <2>3. g \in Signal /\ g.status = "firing"
    BY <1>2, <2>1, OpeningSignal
  <2>4. Spent(g)
    BY <2>1, <2>2
  <2> QED
    BY <2>3, <2>4, SpentStays
<1> QED
  BY <1>1, <1>2, JournalGrows

\* A completion already in the journal is the only source of Done, but for e.
LEMMA DoneLater ==
    ASSUME MapTypes, NEW e, Advance(e), NEW id
    PROVE  /\ Done(id) => Done(id)'
           /\ Done(id)' => Done(id) \/ (e.event = "IncidentCompleted" /\ e.id = id)
  BY JournalGrows DEF Done

LEMMA PendingOpenKept ==
    ASSUME MapTypes, Numbering, PendingOpen, NEW e, Advance(e)
    PROVE  PendingOpen'
<1> SUFFICES ASSUME NEW k \in Keys, NEW id, id = Incident(k, replayed'[k].episode),
                    replayed'[k].phase = "firing", ~replayed'[k].completed,
                    Done(id)'
             PROVE  FALSE
  BY Zenon DEF PendingOpen
<1> DEFINE r == replayed[k]
           s == replayed'[k]
<1>1. r \in LifecycleState /\ s \in LifecycleState
  BY DEF MapTypes, Advance
<1>2. id.key = k /\ id.episode = s.episode
  BY DEF Incident
<1>3. Done(id) \/ (e.event = "IncidentCompleted" /\ e.id = id)
  BY DoneLater
<1>4. CASE k # e.id.key
  <2>1. s = r
    BY <1>4, MovedKey
  <2>2. ~Done(id)
    BY <2>1 DEF PendingOpen
  <2> QED
    BY <1>2, <1>3, <1>4, <2>2
<1>5. CASE k = e.id.key /\ e.event = "IncidentOpened"
  <2>1. EpisodeOf(r) < s.episode
    BY <1>5, MovedKey DEF Moves
  <2>2. PICK i \in DOMAIN journal : journal[i].id = id
    BY <1>3, <1>5 DEF Done
  <2>3. s.episode <= EpisodeOf(r)
    BY <1>2, <2>2 DEF Numbering
  <2>4. EpisodeOf(r) \in Int /\ s.episode \in Int
    BY <1>1, StateForms, StateCases DEF EpisodeOf
  <2> QED
    BY <2>1, <2>3, <2>4
<1>6. CASE k = e.id.key /\ e.event # "IncidentOpened"
  <2>1. r.phase = "firing" /\ ~r.completed /\ r.episode = s.episode
    BY <1>6, MovedKey DEF Moves
  <2>2. ~Done(id)
    BY <2>1 DEF PendingOpen
  <2>3. s.completed
    BY <1>3, <1>6, <2>2, MovedKey DEF Moves
  <2> QED
    BY <2>3
<1> QED
  BY <1>4, <1>5, <1>6

LEMMA OpenedOnceKept ==
    ASSUME MapTypes, Numbering, OpenedOnce, NEW e, Advance(e)
    PROVE  OpenedOnce'
<1>1. ASSUME NEW i \in DOMAIN journal,
             e.event = "IncidentOpened", journal[i].id = e.id
      PROVE  FALSE
  <2>1. e.id.episode <= EpisodeOf(replayed[e.id.key])
    BY <1>1 DEF Numbering
  <2>2. EpisodeOf(replayed[e.id.key]) < e.id.episode
    BY <1>1, MovedKey DEF Moves
  <2>3. EpisodeOf(replayed[e.id.key]) \in Nat /\ e.id.episode \in Nat
    BY MovedKey, Forward, EntryForm
  <2> QED
    BY <2>1, <2>2, <2>3
<1> QED
  BY <1>1, JournalGrows DEF OpenedOnce

LEMMA FactsInOrderKept ==
    ASSUME MapTypes, Horizon, LifecycleFactsInOrder, NEW e, Advance(e)
    PROVE  LifecycleFactsInOrder'
<1>1. ASSUME NEW i \in DOMAIN journal,
             journal[i].event \in LifecycleEvents, e.event \in LifecycleEvents,
             journal[i].id.key = e.id.key
      PROVE  Millis[journal[i].signal.time] <= Millis[e.signal.time]
  <2> DEFINE k == e.id.key
  <2>1. /\ replayed[k] # Absent
        /\ Millis[journal[i].signal.time] <= Millis[replayed[k].time]
    BY <1>1 DEF Horizon
  <2>2. k \in Keys /\ replayed'[k].time = e.signal.time
    BY <1>1, MovedKey DEF Moves
  <2>3. /\ Millis[replayed[k].time] \in Int
        /\ Millis[replayed'[k].time] \in Int
        /\ Millis[replayed[k].time] <= Millis[replayed'[k].time]
    BY <2>1, <2>2, Forward
  <2>4. Millis[journal[i].signal.time] \in Int
    BY <1>1, EntryTypes, EntryForm, SignalForm, Instants
    DEF LifecycleEvents, SignalEvents
  <2> QED
    BY <2>1, <2>2, <2>3, <2>4
<1> QED
  BY <1>1, JournalGrows DEF LifecycleFactsInOrder

LEMMA EventOpensOnceKept ==
    ASSUME MapTypes, Labels, Openings, EventOpensOnce, NEW e, Advance(e)
    PROVE  EventOpensOnce'
<1> SUFFICES ASSUME NEW i \in DOMAIN journal', NEW j \in DOMAIN journal', NEW g,
                    i < j,
                    journal'[i].event = "IncidentOpened",
                    journal'[j].event = "IncidentOpened",
                    journal'[i].signal = journal'[j].signal,
                    g = journal'[i].signal
             PROVE  Tied(g)'
  BY Zenon DEF EventOpensOnce
<1>1. i \in DOMAIN journal /\ journal'[i] = journal[i]
  BY JournalGrows
<1>2. g \in Signal /\ g.key = journal[i].id.key /\ g = journal[i].signal
  BY <1>1, OpeningSignal
<1>3. CASE j \in DOMAIN journal
  <2>1. journal'[j] = journal[j]
    BY <1>3, JournalGrows
  <2>2. Tied(journal[i].signal)
    BY <1>1, <1>3, <2>1 DEF EventOpensOnce
  <2>3. Tied(g)
    BY <1>2, <2>2
  <2> QED
    BY <1>2, <2>3, TiedStays
<1>4. CASE j = Last
  <2>1. e.event = "IncidentOpened" /\ e.signal = g
    BY <1>4, JournalGrows
  <2>2. g.key = e.id.key
    BY <2>1, MovedKey DEF WellLabelled, SignalEvents
  <2>3. Spent(journal[i].signal)
    BY <1>1 DEF Openings
  <2>4. Spent(g)
    BY <1>2, <2>3
  <2>5. Tied(g)
    BY <2>1, <2>2, <2>4, MovedKey DEF Spent, Moves
  <2> QED
    BY <1>2, <2>5, TiedStays
<1> QED
  BY <1>3, <1>4, JournalGrows

LEMMA CompletedOnceKept ==
    ASSUME MapTypes, CompletedOnce, NEW e, Advance(e),
           e.event = "IncidentCompleted" => ~Done(e.id)
    PROVE  CompletedOnce'
  BY JournalGrows DEF CompletedOnce, Done

\* An incident already numbered and not done stays so.
LEMMA StillOpen ==
    ASSUME MapTypes, NEW e, Advance(e), NEW h \in IncidentId,
           h.episode <= EpisodeOf(replayed[h.key]), ~Done(h),
           ~(e.event = "IncidentCompleted" /\ e.id = h)
    PROVE  h.episode <= EpisodeOf(replayed'[h.key]) /\ ~Done(h)'
<1>1. h.key \in Keys /\ h.episode \in Nat
  BY DEF IncidentId
<1>2. h.episode <= EpisodeOf(replayed'[h.key])
  BY <1>1, Forward
<1>3. ~Done(h)'
  BY DoneLater
<1> QED
  BY <1>2, <1>3

\* An opening names an incident nobody has completed.
LEMMA OpensUndone ==
    ASSUME MapTypes, Numbering, NEW e, Advance(e), e.event = "IncidentOpened"
    PROVE  e.id.episode <= EpisodeOf(replayed'[e.id.key]) /\ ~Done(e.id)'
<1>1. e.id.episode <= EpisodeOf(replayed'[e.id.key])
  BY MovedKey DEF Moves
<1>2. ASSUME Done(e.id)
      PROVE  FALSE
  <2>1. e.id.episode <= EpisodeOf(replayed[e.id.key])
    BY <1>2 DEF Numbering, Done
  <2>2. EpisodeOf(replayed[e.id.key]) < e.id.episode
    BY MovedKey DEF Moves
  <2>3. EpisodeOf(replayed[e.id.key]) \in Nat /\ e.id.episode \in Nat
    BY MovedKey, Forward, EntryForm
  <2> QED
    BY <2>1, <2>2, <2>3
<1> QED
  BY <1>1, <1>2, DoneLater

\* The invariant after a commit, but for the incidents handed out.
LEMMA CommitKeeps ==
    ASSUME IInv, NEW e, Advance(e),
           e.event = "IncidentCompleted" => ~Done(e.id),
           handed' \subseteq IncidentId, HandedOpen'
    PROVE  IInv'
<1>1. TypeOK /\ Agreement /\ Numbering /\ Horizon /\ Labels /\ Openings
      /\ PendingOpen /\ OpenedOnce /\ LifecycleFactsInOrder /\ EventOpensOnce
      /\ CompletedOnce
  BY DEF IInv
<1>2. TypeOK'
  BY <1>1, TypesOfMaps, JournalGrows DEF TypeOK, Advance
<1>3. Agreement' /\ Numbering' /\ Horizon' /\ Labels' /\ Openings' /\ PendingOpen'
  BY <1>1, TypesOfMaps, AgreementKept, NumberingKept, HorizonKept, LabelsKept, OpeningsKept,
     PendingOpenKept
<1>4. OpenedOnce' /\ LifecycleFactsInOrder' /\ EventOpensOnce' /\ CompletedOnce'
  BY <1>1, TypesOfMaps, OpenedOnceKept, FactsInOrderKept, EventOpensOnceKept, CompletedOnceKept
<1> QED
  BY <1>2, <1>3, <1>4 DEF IInv

LEMMA InitHolds ==
    ASSUME Init
    PROVE  IInv
<1>1. /\ journal = <<>> /\ DOMAIN journal = {} /\ handed = {}
      /\ lifecycle = NothingReplayed /\ replayed = NothingReplayed
  BY DEF Init, DispatcherInit
<1>2. \A k \in Keys : lifecycle[k] = Absent /\ replayed[k] = Absent
  BY <1>1 DEF NothingReplayed
<1>3. TypeOK
  BY <1>1, StateForms DEF TypeOK, NothingReplayed
<1>4. Agreement
  BY <1>2, StateForms DEF Agreement, Agree
<1>5. Numbering /\ Horizon /\ Labels /\ Openings /\ HandedOpen
  BY <1>1 DEF Numbering, Horizon, Labels, Openings, HandedOpen
<1>6. PendingOpen
  BY <1>1 DEF PendingOpen, Done
<1>7. OpenedOnce /\ LifecycleFactsInOrder /\ EventOpensOnce /\ CompletedOnce
  BY <1>1 DEF OpenedOnce, LifecycleFactsInOrder, EventOpensOnce, CompletedOnce
<1> QED
  BY <1>3, <1>4, <1>5, <1>6, <1>7 DEF IInv

LEMMA OpeningKeeps ==
    ASSUME IInv, NEW g \in Signal, ProcessOpening(g)
    PROVE  IInv'
<1> DEFINE e == Fact("IncidentOpened", NextIncident(g), g)
<1>1. /\ TypeOK /\ Agreement /\ Numbering /\ HandedOpen
  BY DEF IInv
<1>2. /\ Advance(e) /\ NextIncident(g) \in IncidentId
      /\ e.event = "IncidentOpened" /\ e.id = NextIncident(g)
  BY <1>1, TypesOfMaps, StartsEpisodeAdvances DEF ProcessOpening, Fact
<1>3. handed' = handed \cup {NextIncident(g)} /\ handed \subseteq IncidentId
  BY <1>1 DEF ProcessOpening, TypeOK
<1>4. PICK c : c = e
  OBVIOUS
<1>5. ASSUME NEW h \in handed'
      PROVE  h.episode <= EpisodeOf(replayed'[h.key]) /\ ~Done(h)'
  <2>1. CASE h \in handed
    <3>1. h.episode <= EpisodeOf(replayed[h.key]) /\ ~Done(h)
      BY <1>1, <2>1 DEF HandedOpen
    <3> QED
      BY <1>1, <1>2, <1>3, <1>4, <2>1, <3>1, TypesOfMaps, StillOpen
  <2>2. CASE h = c.id
    BY <1>1, <1>2, <1>4, <2>2, TypesOfMaps, OpensUndone
  <2> QED
    BY <1>2, <1>3, <1>4, <2>1, <2>2
<1>6. HandedOpen'
  BY <1>5 DEF HandedOpen, EpisodeOf
<1>7. Advance(c) /\ c.event # "IncidentCompleted"
  BY <1>2, <1>4
<1> QED
  BY <1>2, <1>3, <1>6, <1>7, CommitKeeps

LEMMA SettlingKeeps ==
    ASSUME IInv, NEW g \in Signal, ProcessSettling(g)
    PROVE  IInv'
<1>1. TypeOK /\ Agreement /\ HandedOpen
  BY DEF IInv
<1>2. PICK e : Advance(e) /\ e.event # "IncidentCompleted"
  BY <1>1, TypesOfMaps, SettlesAdvances DEF ProcessSettling, SignalEvents
<1>3. handed' = handed /\ handed \subseteq IncidentId
  BY <1>1 DEF ProcessSettling, TypeOK
<1>4. ASSUME NEW h \in handed'
      PROVE  h.episode <= EpisodeOf(replayed'[h.key]) /\ ~Done(h)'
  <2>1. h.episode <= EpisodeOf(replayed[h.key]) /\ ~Done(h)
    BY <1>1, <1>3 DEF HandedOpen
  <2> QED
    BY <1>1, <1>2, <1>3, <2>1, TypesOfMaps, StillOpen
<1>5. HandedOpen'
  BY <1>4 DEF HandedOpen, EpisodeOf
<1> QED
  BY <1>2, <1>3, <1>5, CommitKeeps

LEMMA CompleteKeeps ==
    ASSUME IInv, NEW id \in handed, Complete(id)
    PROVE  IInv'
<1> DEFINE e == [event |-> "IncidentCompleted", id |-> id]
<1>1. TypeOK /\ Agreement /\ HandedOpen
  BY DEF IInv
<1>2. id \in IncidentId
  BY <1>1 DEF TypeOK
<1>3. id.episode <= EpisodeOf(replayed[id.key]) /\ ~Done(id)
  BY <1>1 DEF HandedOpen
<1>4. Advance(e) /\ e.id = id
  BY <1>1, <1>2, <1>3, TypesOfMaps, MarkCompletedAdvances DEF Complete
<1>5. handed' = handed \ {id} /\ handed \subseteq IncidentId
  BY <1>1 DEF Complete, TypeOK
<1>6. ASSUME NEW h \in handed'
      PROVE  h.episode <= EpisodeOf(replayed'[h.key]) /\ ~Done(h)'
  <2>1. /\ h.episode <= EpisodeOf(replayed[h.key]) /\ ~Done(h)
        /\ h \in IncidentId /\ e.id # h
    BY <1>1, <1>4, <1>5 DEF HandedOpen
  <2> QED
    BY <1>1, <1>4, <2>1, TypesOfMaps, StillOpen
<1>7. HandedOpen'
  BY <1>6 DEF HandedOpen, EpisodeOf
<1> QED
  BY <1>3, <1>4, <1>5, <1>7, CommitKeeps

\* Steps that commit nothing.
LEMMA QuietKeeps ==
    ASSUME IInv, UNCHANGED <<journal, replayed>>,
           lifecycle' \in [Keys -> LifecycleState], Agreement',
           handed' \subseteq IncidentId, HandedOpen'
    PROVE  IInv'
<1>1. TypeOK'
  BY DEF IInv, TypeOK
<1>2. Numbering' /\ Horizon' /\ Labels'
  BY DEF IInv, Numbering, Horizon, Labels, WellLabelled, EpisodeOf
<1>3. Openings' /\ PendingOpen'
  BY DEF IInv, Openings, Spent, Tied, PendingOpen, Done
<1>4. OpenedOnce' /\ LifecycleFactsInOrder' /\ EventOpensOnce' /\ CompletedOnce'
  BY DEF IInv, OpenedOnce, LifecycleFactsInOrder, EventOpensOnce, Tied, CompletedOnce
<1> QED
  BY <1>1, <1>2, <1>3, <1>4 DEF IInv

LEMMA GiveUpKeeps ==
    ASSUME IInv, NEW id \in handed, GiveUp(id)
    PROVE  IInv'
<1>1. /\ UNCHANGED <<lifecycle, journal, replayed>>
      /\ handed' \subseteq handed
  BY DEF GiveUp, dispatcherVars
<1>2. lifecycle' \in [Keys -> LifecycleState] /\ handed' \subseteq IncidentId
  BY <1>1 DEF IInv, TypeOK
<1>3. Agreement'
  BY <1>1 DEF IInv, Agreement, Agree
<1>4. HandedOpen'
  BY <1>1 DEF IInv, HandedOpen, Done, EpisodeOf
<1> QED
  BY <1>1, <1>2, <1>3, <1>4, QuietKeeps

LEMMA StutterKeeps ==
    ASSUME IInv, UNCHANGED vars
    PROVE  IInv'
<1>1. UNCHANGED <<lifecycle, journal, replayed, handed>>
  BY DEF vars
<1>2. lifecycle' \in [Keys -> LifecycleState] /\ handed' \subseteq IncidentId
  BY <1>1 DEF IInv, TypeOK
<1>3. Agreement' /\ HandedOpen'
  BY <1>1 DEF IInv, Agreement, Agree, HandedOpen, Done, EpisodeOf
<1> QED
  BY <1>1, <1>2, <1>3, QuietKeeps

\* What a restart hands out again, nobody has completed.
LEMMA RestartKeeps ==
    ASSUME IInv, Restart
    PROVE  IInv'
<1>1. /\ lifecycle' = replayed /\ handed' = PendingInvestigations
      /\ UNCHANGED <<journal, replayed>>
  BY DEF Restart
<1>2. /\ lifecycle' \in [Keys -> LifecycleState]
      /\ \A k \in Keys : replayed[k] \in LifecycleState
  BY <1>1 DEF IInv, TypeOK
<1>3. ASSUME NEW k \in Keys
      PROVE  Agree(replayed[k], replayed[k])
  BY <1>2, StateForms, StateCases, Instants DEF Agree
<1>4. Agreement'
  BY <1>1, <1>3 DEF Agreement, Agree
<1>5. ASSUME NEW h \in PendingInvestigations
      PROVE  /\ h \in IncidentId
             /\ h.episode <= EpisodeOf(replayed[h.key])
             /\ ~Done(h)
  <2>1. PICK k \in Keys : /\ h = Incident(k, replayed[k].episode)
                          /\ replayed[k].phase = "firing"
                          /\ ~replayed[k].completed
    BY DEF PendingInvestigations
  <2>2. /\ replayed[k].episode \in Nat \ {0}
        /\ EpisodeOf(replayed[k]) = replayed[k].episode
    BY <1>2, <2>1, StateForms, StateCases DEF EpisodeOf
  <2>3. h.key = k /\ h.episode = replayed[k].episode /\ h \in IncidentId
    BY <2>1, <2>2 DEF Incident, IncidentId
  <2>4. ~Done(Incident(k, replayed[k].episode))
    BY <2>1 DEF IInv, PendingOpen
  <2>5. ~Done(h)
    BY <2>1, <2>4
  <2> QED
    BY <2>2, <2>3, <2>5
<1>6. handed' \subseteq IncidentId
  BY <1>1, <1>5
<1>7. HandedOpen'
  BY <1>1, <1>5 DEF HandedOpen, Done, EpisodeOf
<1> QED
  BY <1>1, <1>2, <1>4, <1>6, <1>7, QuietKeeps

\* The inductive invariant holds of every behaviour of the dispatcher under any
\* caller: any order and repetition of signals, completions at any later time,
\* investigations given up, and a restart between any two commits.
THEOREM InductiveInvariant == Spec => []IInv
<1>1. Init => IInv
  BY InitHolds
<1>2. IInv /\ [Next]_vars => IInv'
  <2> SUFFICES ASSUME IInv, [Next]_vars
               PROVE  IInv'
    OBVIOUS
  <2>1. ASSUME NEW g \in Signal, ProcessOpening(g)
        PROVE  IInv'
    BY <2>1, OpeningKeeps
  <2>2. ASSUME NEW g \in Signal, ProcessSettling(g)
        PROVE  IInv'
    BY <2>2, SettlingKeeps
  <2>3. ASSUME NEW id \in handed, Complete(id)
        PROVE  IInv'
    BY <2>3, CompleteKeeps
  <2>4. ASSUME NEW id \in handed, GiveUp(id)
        PROVE  IInv'
    BY <2>4, GiveUpKeeps
  <2>5. CASE Restart
    BY <2>5, RestartKeeps
  <2>6. CASE UNCHANGED vars
    BY <2>6, StutterKeeps
  <2> QED
    BY <2>1, <2>2, <2>3, <2>4, <2>5, <2>6 DEF Next
<1> QED
  BY <1>1, <1>2, PTL DEF Spec

\* The maps, the journal and the incidents handed out keep their types
\* (IncidentDispatcher's fields under process_one, mark_completed and new).
THEOREM TypeCorrect == Spec => []TypeOK
<1>1. IInv => TypeOK
  BY DEF IInv
<1> QED
  BY <1>1, InductiveInvariant, PTL

\* At every moment a restart would rebuild each key's phase, episode and
\* completion, and would restore no later an event time than the running one.
THEOREM RestartAgrees == Spec => []ReplayAgreement
<1>1. IInv => ReplayAgreement
  <2> SUFFICES ASSUME IInv, NEW k \in Keys
               PROVE  /\ Position(replayed[k]) = Position(lifecycle[k])
                      /\ lifecycle[k] # Absent =>
                           Millis[replayed[k].time] <= Millis[lifecycle[k].time]
    BY DEF ReplayAgreement
  <2> DEFINE r == replayed[k]
             s == lifecycle[k]
  <2>1. /\ s \in LifecycleState /\ r \in LifecycleState /\ Agree(r, s)
        /\ s = Absent <=> r = Absent
        /\ EpisodeOf(r) = EpisodeOf(s)
    BY TypesOfMaps, KeyState DEF IInv
  <2>2. CASE s = Absent
    BY <2>1, <2>2
  <2>3. CASE s.phase = "firing" /\ s # Absent
    BY <2>1, <2>3, StateCases, Instants DEF Agree
  <2>4. CASE s.phase = "resolved" /\ s # Absent
    BY <2>1, <2>4 DEF Agree, Position
  <2> QED
    BY <2>1, <2>2, <2>3, <2>4, StateCases
<1> QED
  BY <1>1, InductiveInvariant, PTL

\* No incident identity is opened twice (the episode numbering of process_one).
THEOREM OpenedAtMostOnce == Spec => []OpenedOnce
<1>1. IInv => OpenedOnce
  BY DEF IInv
<1> QED
  BY <1>1, InductiveInvariant, PTL

\* A key's lifecycle facts are journalled in the order of their event times
\* (the staleness test of process_one, also across restarts).
THEOREM FactsInOrder == Spec => []LifecycleFactsInOrder
<1>1. IInv => LifecycleFactsInOrder
  BY DEF IInv
<1> QED
  BY <1>1, InductiveInvariant, PTL

\* A firing event opens one episode however often it is delivered, unless
\* another event of its key shares its millisecond.
THEOREM RedeliveryOpensNothing == Spec => []EventOpensOnce
<1>1. IInv => EventOpensOnce
  BY DEF IInv
<1> QED
  BY <1>1, InductiveInvariant, PTL

\* No incident is completed twice, though a restart hands pending ones out
\* again (pending_investigations against mark_completed).
THEOREM CompletedAtMostOnce == Spec => []CompletedOnce
<1>1. IInv => CompletedOnce
  BY DEF IInv
<1> QED
  BY <1>1, InductiveInvariant, PTL

-----------------------------------------------------------------------------
(* The refinement of EpisodeContract *)

\* What the contract sees of a map in which one key has moved.
LEMMA MappedUpdate ==
    ASSUME NEW m \in [Keys -> LifecycleState], NEW k \in Keys,
           NEW s \in LifecycleState
    PROVE  /\ [x \in Keys |-> EpisodeOf([m EXCEPT ![k] = s][x])]
                = [[x \in Keys |-> EpisodeOf(m[x])] EXCEPT ![k] = EpisodeOf(s)]
           /\ [x \in Keys |-> PhaseOf([m EXCEPT ![k] = s][x])]
                = [[x \in Keys |-> PhaseOf(m[x])] EXCEPT ![k] = PhaseOf(s)]
  OBVIOUS

LEMMA Phases ==
    /\ PhaseOf(Absent) = "unseen"
    /\ \A n \in Nat \ {0}, t \in EventTimes :
           /\ PhaseOf(Resolved(n, t)) = "recovered"
           /\ PhaseOf(Firing(n, FALSE, t)) = "firing"
           /\ PhaseOf(Firing(n, TRUE, t)) = "reported"
<1>1. PhaseOf(Absent) = "unseen"
  BY StateForms DEF PhaseOf
<1>2. ASSUME NEW n \in Nat \ {0}, NEW t \in EventTimes
      PROVE  PhaseOf(Resolved(n, t)) = "recovered"
  BY StateForms DEF PhaseOf
<1>3. ASSUME NEW n \in Nat \ {0}, NEW t \in EventTimes
      PROVE  PhaseOf(Firing(n, FALSE, t)) = "firing"
  BY UnfinishedForm DEF PhaseOf
<1>4. ASSUME NEW n \in Nat \ {0}, NEW t \in EventTimes
      PROVE  PhaseOf(Firing(n, TRUE, t)) = "reported"
  <2>1. Firing(n, TRUE, t) # Absent /\ Firing(n, TRUE, t).phase = "firing"
    BY DEF Firing, Absent
  <2>2. Firing(n, TRUE, t).completed
    BY DEF Firing
  <2> QED
    BY <2>1, <2>2 DEF PhaseOf
<1> QED
  BY <1>1, <1>2, <1>3, <1>4

EpisodeMap == [k \in Keys |-> EpisodeOf(lifecycle[k])]
PhaseMap == [k \in Keys |-> PhaseOf(lifecycle[k])]

LEMMA MappedStep ==
    ASSUME TypeOK, NEW k \in Keys, NEW s \in LifecycleState,
           lifecycle' = [lifecycle EXCEPT ![k] = s]
    PROVE  /\ EpisodeMap' = [EpisodeMap EXCEPT ![k] = EpisodeOf(s)]
           /\ PhaseMap' = [PhaseMap EXCEPT ![k] = PhaseOf(s)]
           /\ EpisodeMap[k] = EpisodeOf(lifecycle[k])
           /\ PhaseMap[k] = PhaseOf(lifecycle[k])
<1>1. lifecycle \in [Keys -> LifecycleState]
  BY DEF TypeOK
<1>2. /\ EpisodeMap' = [x \in Keys |-> EpisodeOf([lifecycle EXCEPT ![k] = s][x])]
      /\ PhaseMap' = [x \in Keys |-> PhaseOf([lifecycle EXCEPT ![k] = s][x])]
  BY DEF EpisodeMap, PhaseMap, EpisodeOf, PhaseOf
<1>3. EpisodeMap[k] = EpisodeOf(lifecycle[k]) /\ PhaseMap[k] = PhaseOf(lifecycle[k])
  BY DEF EpisodeMap, PhaseMap
<1> QED
  BY <1>1, <1>2, <1>3, MappedUpdate DEF EpisodeMap, PhaseMap

\* A step that leaves a key's episode and phase is invisible.
LEMMA InvisibleStep ==
    ASSUME TypeOK, NEW k \in Keys, NEW s \in LifecycleState,
           lifecycle' = [lifecycle EXCEPT ![k] = s],
           EpisodeOf(s) = EpisodeOf(lifecycle[k]),
           PhaseOf(s) = PhaseOf(lifecycle[k])
    PROVE  UNCHANGED Episodes!vars
<1>1. EpisodeMap' = EpisodeMap /\ PhaseMap' = PhaseMap
  BY MappedStep DEF EpisodeMap, PhaseMap
<1> QED
  BY <1>1 DEF EpisodeMap, PhaseMap, Episodes!vars

\* The states PhaseOf tells apart.
LEMMA PhaseCases ==
    ASSUME NEW s \in LifecycleState
    PROVE  /\ s = Absent => PhaseOf(s) = "unseen"
           /\ s.phase = "resolved" => PhaseOf(s) = "recovered"
           /\ s.phase = "firing" /\ s.completed => PhaseOf(s) = "reported"
           /\ s.phase = "firing" /\ ~s.completed => PhaseOf(s) = "firing"
  BY StateForms DEF PhaseOf

LEMMA SettlingSimulates ==
    ASSUME TypeOK, Agreement, NEW g \in Signal, Settles(g)
    PROVE  Episodes!Next \/ UNCHANGED Episodes!vars
<1> DEFINE k == g.key
           r == lifecycle[k]
<1>1. k \in Keys /\ g.time \in EventTimes /\ r \in LifecycleState
  BY SignalForm DEF TypeOK
<1>2. CASE RejectStale(g) \/ SuppressRepeat(g)
  BY <1>2 DEF RejectStale, SuppressRepeat, Episodes!vars
<1>3. CASE AbsorbRecovery(g)
  <2> DEFINE s == Resolved(r.episode, g.time)
  <2>1. /\ r # Absent /\ r.phase = "resolved" /\ r.episode \in Nat \ {0}
        /\ lifecycle' = [lifecycle EXCEPT ![k] = s]
    BY <1>1, <1>3, StateForms, StateCases DEF AbsorbRecovery
  <2>2. s \in LifecycleState /\ PhaseOf(s) = PhaseOf(r)
    BY <1>1, <2>1, StateForms, Phases, PhaseCases
  <2>3. EpisodeOf(s) = EpisodeOf(r)
    BY <1>1, <2>1, StateForms DEF EpisodeOf
  <2> QED
    BY <1>1, <2>1, <2>2, <2>3, InvisibleStep
<1>4. CASE Resume(g)
  <2> DEFINE s == Firing(r.episode, FALSE, g.time)
  <2>1. /\ r # Absent /\ r.phase = "firing" /\ ~r.completed
        /\ r.episode \in Nat \ {0}
        /\ lifecycle' = [lifecycle EXCEPT ![k] = s]
    BY <1>1, <1>4, StateForms, StateCases DEF Resume
  <2>2. s \in LifecycleState /\ PhaseOf(s) = PhaseOf(r) /\ EpisodeOf(s) = r.episode
    BY <1>1, <2>1, UnfinishedForm, Phases, PhaseCases
  <2>3. EpisodeOf(s) = EpisodeOf(r)
    BY <2>1, <2>2 DEF EpisodeOf
  <2> QED
    BY <1>1, <2>1, <2>2, <2>3, InvisibleStep
<1>5. CASE Recover(g)
  <2> DEFINE s == Resolved(r.episode, g.time)
  <2>1. /\ r # Absent /\ r.phase = "firing" /\ r.episode \in Nat \ {0}
        /\ lifecycle' = [lifecycle EXCEPT ![k] = s]
    BY <1>1, <1>5, StateForms, StateCases DEF Recover
  <2>2. s \in LifecycleState /\ PhaseOf(s) = "recovered"
    BY <1>1, <2>1, StateForms, Phases
  <2>3. EpisodeOf(s) = EpisodeOf(r)
    BY <1>1, <2>1, StateForms DEF EpisodeOf
  <2>4. PhaseOf(r) \in {"firing", "reported"}
    BY <1>1, <2>1, PhaseCases
  <2>5. /\ EpisodeMap' = [EpisodeMap EXCEPT ![k] = EpisodeOf(s)]
        /\ PhaseMap' = [PhaseMap EXCEPT ![k] = PhaseOf(s)]
        /\ EpisodeMap[k] = EpisodeOf(r) /\ PhaseMap[k] = PhaseOf(r)
    BY <1>1, <2>1, <2>2, MappedStep
  <2>7. EpisodeMap' = EpisodeMap
    BY <2>3, <2>5 DEF EpisodeMap
  <2>6. Episodes!Recover(k)
    BY <2>2, <2>4, <2>5, <2>7 DEF Episodes!Recover, EpisodeMap, PhaseMap
  <2> QED
    BY <1>1, <2>6 DEF Episodes!Next
<1>6. CASE RecoverUnknown(g)
  <2> DEFINE s == Resolved(1, g.time)
  <2>1. r = Absent /\ lifecycle' = [lifecycle EXCEPT ![k] = s]
    BY <1>6 DEF RecoverUnknown
  <2>2. s \in LifecycleState /\ PhaseOf(s) = "recovered" /\ EpisodeOf(s) = 1
    <3>1. 1 \in Nat \ {0}
      OBVIOUS
    <3>2. s \in LifecycleState /\ s.phase = "resolved" /\ s.episode = 1
      BY <1>1, <3>1 DEF Resolved, LifecycleState
    <3>3. s # Absent /\ PhaseOf(s) = "recovered"
      BY <3>2, StateForms, PhaseCases
    <3> QED
      BY <3>2, <3>3 DEF EpisodeOf
  <2>3. /\ EpisodeMap' = [EpisodeMap EXCEPT ![k] = EpisodeOf(s)]
        /\ PhaseMap' = [PhaseMap EXCEPT ![k] = PhaseOf(s)]
        /\ PhaseMap[k] = PhaseOf(Absent)
    BY <1>1, <2>1, <2>2, MappedStep
  <2>4. Episodes!RecoverUnseen(k)
    BY <2>2, <2>3, Phases DEF Episodes!RecoverUnseen, EpisodeMap, PhaseMap
  <2> QED
    BY <1>1, <2>4 DEF Episodes!Next
<1> QED
  BY <1>2, <1>3, <1>4, <1>5, <1>6 DEF Settles

LEMMA OpeningSimulates ==
    ASSUME TypeOK, Agreement, NEW g \in Signal, StartsEpisode(g)
    PROVE  Episodes!Next
<1> DEFINE k == g.key
           n == EpisodeOf(lifecycle[k]) + 1
           s == Firing(n, FALSE, g.time)
<1>1. k \in Keys /\ g.time \in EventTimes /\ lifecycle[k] \in LifecycleState
  BY SignalForm DEF TypeOK
<1>2. n \in Nat \ {0}
  BY <1>1, StateCases DEF EpisodeOf
<1>3. lifecycle' = [lifecycle EXCEPT ![k] = s]
  BY DEF StartsEpisode, NextIncident, Incident
<1>4. s \in LifecycleState /\ PhaseOf(s) = "firing" /\ EpisodeOf(s) = n
  BY <1>1, <1>2, UnfinishedForm, Phases
<1>5. PhaseOf(lifecycle[k]) # "firing"
  BY <1>1, PhaseCases, StateForms DEF StartsEpisode, Closed
<1>6. /\ EpisodeMap' = [EpisodeMap EXCEPT ![k] = EpisodeOf(s)]
      /\ PhaseMap' = [PhaseMap EXCEPT ![k] = PhaseOf(s)]
      /\ EpisodeMap[k] = EpisodeOf(lifecycle[k])
      /\ PhaseMap[k] = PhaseOf(lifecycle[k])
  BY <1>1, <1>3, <1>4, MappedStep
<1>7. Episodes!Open(k)
  BY <1>4, <1>5, <1>6 DEF Episodes!Open, EpisodeMap, PhaseMap
<1> QED
  BY <1>1, <1>7 DEF Episodes!Next

LEMMA CompletionSimulates ==
    ASSUME TypeOK, NEW id \in IncidentId, MarkCompleted(id)
    PROVE  Episodes!Next \/ UNCHANGED Episodes!vars
<1> DEFINE k == id.key
           r == lifecycle[k]
           s == Firing(r.episode, TRUE, r.time)
<1>1. k \in Keys /\ r \in LifecycleState
  BY DEF TypeOK, IncidentId
<1>2. CASE r.phase # "firing"
  BY <1>2 DEF MarkCompleted, Episodes!vars
<1>3. CASE r.phase = "firing"
  <2>1. /\ r # Absent /\ r.episode \in Nat \ {0} /\ r.time \in EventTimes
        /\ lifecycle' = [lifecycle EXCEPT ![k] = s]
    BY <1>1, <1>3, StateForms, StateCases DEF MarkCompleted
  <2>2. s \in LifecycleState /\ PhaseOf(s) = "reported"
    BY <2>1, Phases DEF Firing, LifecycleState
  <2>3. EpisodeOf(s) = EpisodeOf(r)
    BY <2>1 DEF EpisodeOf, Firing, Absent
  <2>4. CASE r.completed
    <3>1. PhaseOf(s) = PhaseOf(r)
      BY <1>1, <1>3, <2>2, <2>4, PhaseCases
    <3> QED
      BY <1>1, <2>1, <2>2, <2>3, <3>1, InvisibleStep
  <2>5. CASE ~r.completed
    <3>1. /\ EpisodeMap' = [EpisodeMap EXCEPT ![k] = EpisodeOf(s)]
          /\ PhaseMap' = [PhaseMap EXCEPT ![k] = PhaseOf(s)]
          /\ EpisodeMap[k] = EpisodeOf(r) /\ PhaseMap[k] = PhaseOf(r)
      BY <1>1, <2>1, <2>2, MappedStep
    <3>2. EpisodeMap' = EpisodeMap
      BY <2>3, <3>1 DEF EpisodeMap
    <3>3. PhaseOf(r) = "firing"
      BY <1>1, <1>3, <2>5, PhaseCases
    <3>4. Episodes!Report(k)
      BY <2>2, <3>1, <3>2, <3>3 DEF Episodes!Report, EpisodeMap, PhaseMap
    <3> QED
      BY <1>1, <3>4 DEF Episodes!Next
  <2> QED
    BY <2>4, <2>5
<1> QED
  BY <1>2, <1>3

\* A restart shows nothing of itself in the episodes.
LEMMA RestartSimulates ==
    ASSUME TypeOK, Agreement, Restart
    PROVE  UNCHANGED Episodes!vars
<1>1. ASSUME NEW k \in Keys
      PROVE  /\ EpisodeOf(lifecycle'[k]) = EpisodeOf(lifecycle[k])
             /\ PhaseOf(lifecycle'[k]) = PhaseOf(lifecycle[k])
  <2> DEFINE r == replayed[k]
             s == lifecycle[k]
  <2>1. /\ lifecycle'[k] = r /\ r \in LifecycleState /\ s \in LifecycleState
        /\ Agree(r, s) /\ (s = Absent <=> r = Absent)
        /\ EpisodeOf(r) = EpisodeOf(s)
    BY TypesOfMaps, KeyState DEF Restart
  <2>2. PhaseOf(r) = PhaseOf(s)
    BY <2>1, StateCases, PhaseCases DEF Agree
  <2> QED
    BY <2>1, <2>2
<1>2. EpisodeMap' = EpisodeMap /\ PhaseMap' = PhaseMap
  BY <1>1 DEF EpisodeMap, PhaseMap, EpisodeOf, PhaseOf
<1> QED
  BY <1>2 DEF EpisodeMap, PhaseMap, Episodes!vars

\* IncidentDispatcher implements EpisodeContract: seen from a key, whatever the
\* caller, the repeats, the stale events and the restarts do, episodes open one
\* after another, are reported or recovered, and none is taken back.
THEOREM DispatcherImplementsEpisodes == Spec => ImplementsEpisodes
<1>1. Init => Episodes!Init
  <2> SUFFICES ASSUME Init
               PROVE  Episodes!Init
    OBVIOUS
  <2>1. \A k \in Keys : lifecycle[k] = Absent
    BY DEF Init, DispatcherInit, NothingReplayed
  <2>2. \A k \in Keys : EpisodeOf(lifecycle[k]) = 0 /\ PhaseOf(lifecycle[k]) = "unseen"
    BY <2>1, Phases DEF EpisodeOf
  <2> QED
    BY <2>2 DEF Episodes!Init
<1>2. IInv /\ [Next]_vars => [Episodes!Next]_(Episodes!vars)
  <2> SUFFICES ASSUME IInv, [Next]_vars
               PROVE  Episodes!Next \/ UNCHANGED Episodes!vars
    OBVIOUS
  <2>1. TypeOK /\ Agreement
    BY DEF IInv
  <2>2. ASSUME NEW g \in Signal, ProcessOpening(g)
        PROVE  Episodes!Next
    BY <2>1, <2>2, OpeningSimulates DEF ProcessOpening
  <2>3. ASSUME NEW g \in Signal, ProcessSettling(g)
        PROVE  Episodes!Next \/ UNCHANGED Episodes!vars
    BY <2>1, <2>3, SettlingSimulates DEF ProcessSettling
  <2>4. ASSUME NEW id \in handed, Complete(id)
        PROVE  Episodes!Next \/ UNCHANGED Episodes!vars
    BY <2>1, <2>4, CompletionSimulates DEF Complete, TypeOK
  <2>5. ASSUME NEW id \in handed, GiveUp(id)
        PROVE  UNCHANGED Episodes!vars
    BY <2>5 DEF GiveUp, dispatcherVars, Episodes!vars
  <2>6. CASE Restart
    BY <2>1, <2>6, RestartSimulates
  <2>7. CASE UNCHANGED vars
    BY <2>7 DEF vars, Episodes!vars
  <2> QED
    BY <2>2, <2>3, <2>4, <2>5, <2>6, <2>7 DEF Next
<1> QED
  BY <1>1, <1>2, InductiveInvariant, PTL DEF Spec, ImplementsEpisodes, Episodes!Spec

=============================================================================
