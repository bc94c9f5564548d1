------------------------- MODULE IncidentWorkerProofs -------------------------
(***************************************************************************)
(* The incident owner, for any keys, alerts, deliveries, capacities and    *)
(* bounds.  The inductive invariant says what the owner has in hand at     *)
(* each place (Places), that memory and replay agree (Standing) on the     *)
(* incidents in hand (Handed), that outbox and journal agree (Mailed), and *)
(* that nothing of a command is lost (Recorded).                           *)
(* That no opened incident is lost (Carried) needs DistinctAlerts as well. *)
(***************************************************************************)
EXTENDS IncidentWorker, IncidentLifecycleProofs, DataLemmas

\* What the owner has in hand at each place.
Places ==
    /\ WorkerTypeOK
    /\ Len(journal) <= MaxJournal
    /\ pc \in {"down", "idle"} => todo = <<>>
    /\ pc = "investigating" => todo # <<>>
    /\ pc = "dispatching" => command \in Command
    /\ published # {} => pc = "draining" /\ sending # <<>>

\* Memory and replay stand on the same episode, and the journal has room for it.
Standing ==
    /\ Agreement
    /\ \A k \in Keys : EpisodeOf(lifecycle[k]) <= Len(journal)

\* The incidents in hand are distinct, and none is of an episode yet to come.
Handed ==
    /\ \A i, j \in DOMAIN todo : todo[i] = todo[j] => i = j
    /\ \A i \in DOMAIN todo : todo[i].episode <= EpisodeOf(lifecycle[todo[i].key])

\* What is sent, accepted and marked is in the outbox.
Mailed ==
    /\ CompletionCarriesNotice
    /\ Members(sending) \subseteq Members(outbox)
    /\ published \subseteq Members(outbox)
    /\ published \subseteq received
    /\ MarkedIsReceived

\* The alert is in a journal.
Journaled(log, g) ==
    \E j \in DOMAIN log : log[j].event \in SignalEvents /\ log[j].signal = g

\* The alerts of a command are in the journal or still to dispatch.
Accounted(log, h, remaining) ==
    \A i \in DOMAIN Batch[h] : Journaled(log, Batch[h][i]) \/ Batch[h][i] \in Members(remaining)

\* An answered command is in the journal, the one in hand as far as it was dispatched.
Recorded ==
    /\ AnsweredIsDurable
    /\ pc = "dispatching" => Accounted(journal, command.hook, rest)

\* An incident in hand is the one that is under investigation, if one of its key is.
Current ==
    \A i \in DOMAIN todo :
        lifecycle[todo[i].key].phase = "firing" /\ ~lifecycle[todo[i].key].completed =>
            lifecycle[todo[i].key].episode = todo[i].episode

\* The alerts still to dispatch are of other keys than the incidents in hand.
Apart ==
    pc = "dispatching" =>
        /\ \A i, j \in DOMAIN rest : rest[i].key = rest[j].key => i = j
        /\ \A i \in DOMAIN todo, j \in DOMAIN rest : todo[i].key # rest[j].key

\* What Alertmanager does, which puts an alert into a group by its labels, and
\* validate_webhook does not ask for: a delivery names an alert once.
DistinctAlerts ==
    \A h \in Hooks : \A i, j \in DOMAIN Batch[h] : Batch[h][i].key = Batch[h][j].key => i = j

\* No opened incident is lost.
Carried == UnfinishedIsPending /\ Current /\ Apart

\* The inductive invariant.
WorkerInv == Places /\ Standing /\ Handed /\ Mailed /\ Recorded

-----------------------------------------------------------------------------
(* Sequences and their members *)

LEMMA MembersAppend ==
    ASSUME NEW S, NEW s \in Seq(S), NEW x \in S
    PROVE  /\ Append(s, x) \in Seq(S)
           /\ Members(Append(s, x)) = Members(s) \cup {x}
           /\ DOMAIN Append(s, x) = DOMAIN s \cup {Len(s) + 1}
           /\ \A i \in DOMAIN s : Append(s, x)[i] = s[i]
           /\ Append(s, x)[Len(s) + 1] = x
           /\ Len(s) + 1 \notin DOMAIN s
<1>1. /\ Append(s, x) \in Seq(S)
      /\ DOMAIN Append(s, x) = DOMAIN s \cup {Len(s) + 1}
      /\ \A i \in DOMAIN s : Append(s, x)[i] = s[i]
      /\ Append(s, x)[Len(s) + 1] = x
      /\ Len(s) + 1 \notin DOMAIN s
  OBVIOUS
<1> QED
  BY <1>1 DEF Members

LEMMA MembersTail ==
    ASSUME NEW S, NEW s \in Seq(S), s # <<>>
    PROVE  /\ Tail(s) \in Seq(S)
           /\ Head(s) \in S /\ Head(s) = s[1] /\ 1 \in DOMAIN s
           /\ \A i \in DOMAIN Tail(s) : i \in Nat \ {0} /\ i + 1 \in DOMAIN s /\ Tail(s)[i] = s[i + 1]
           /\ Members(s) = {Head(s)} \cup Members(Tail(s))
<1>1. /\ Tail(s) \in Seq(S)
      /\ Head(s) \in S /\ Head(s) = s[1] /\ 1 \in DOMAIN s
      /\ \A i \in DOMAIN Tail(s) : i \in Nat \ {0} /\ i + 1 \in DOMAIN s /\ Tail(s)[i] = s[i + 1]
      /\ \A i \in DOMAIN s : i # 1 => i - 1 \in DOMAIN Tail(s) /\ Tail(s)[i - 1] = s[i]
  OBVIOUS
<1>2. ASSUME NEW x \in Members(s) PROVE x \in {Head(s)} \cup Members(Tail(s))
  <2>1. PICK i \in DOMAIN s : x = s[i]
    BY DEF Members
  <2> QED
    BY <1>1, <2>1 DEF Members
<1>3. ASSUME NEW x \in {Head(s)} \cup Members(Tail(s)) PROVE x \in Members(s)
  BY <1>1 DEF Members
<1> QED
  BY <1>1, <1>2, <1>3

\* A sequence without repetitions loses its head with its first place.
LEMMA DistinctTail ==
    ASSUME NEW S, NEW s \in Seq(S), s # <<>>,
           \A i, j \in DOMAIN s : s[i] = s[j] => i = j
    PROVE  /\ \A i, j \in DOMAIN Tail(s) : Tail(s)[i] = Tail(s)[j] => i = j
           /\ Members(Tail(s)) = Members(s) \ {Head(s)}
<1> DEFINE t == Tail(s)
<1>0. /\ Head(s) = s[1] /\ 1 \in DOMAIN s
      /\ \A i \in DOMAIN t : i \in Nat \ {0} /\ i + 1 \in DOMAIN s /\ t[i] = s[i + 1]
      /\ Members(s) = {Head(s)} \cup Members(t)
  BY MembersTail
<1> HIDE DEF t
<1>1. ASSUME NEW i \in DOMAIN t, NEW j \in DOMAIN t, t[i] = t[j] PROVE i = j
  <2>1. i + 1 = j + 1
    BY <1>0, <1>1
  <2> QED
    BY <1>0, <2>1
<1>2. Head(s) \notin Members(t)
  <2>1. SUFFICES ASSUME NEW i \in DOMAIN t, t[i] = Head(s) PROVE FALSE
    BY DEF Members
  <2>2. i + 1 = 1
    BY <1>0, <2>1
  <2> QED
    BY <1>0, <2>2
<1> QED
  BY <1>0, <1>1, <1>2 DEF t

LEMMA DistinctAppend ==
    ASSUME NEW S, NEW s \in Seq(S), NEW x \in S, x \notin Members(s),
           \A i, j \in DOMAIN s : s[i] = s[j] => i = j
    PROVE  \A i, j \in DOMAIN Append(s, x) : Append(s, x)[i] = Append(s, x)[j] => i = j
<1> DEFINE t == Append(s, x)
<1>1. /\ DOMAIN t = DOMAIN s \cup {Len(s) + 1}
      /\ \A i \in DOMAIN s : t[i] = s[i] /\ s[i] # x
      /\ t[Len(s) + 1] = x
  BY MembersAppend DEF Members
<1> HIDE DEF t
<1>2. \A i, j \in DOMAIN t : t[i] = t[j] => i = j
  BY <1>1
<1> QED
  BY <1>2 DEF t

\* The orders of a finite set list each of its members once.
LEMMA OrdersForm ==
    ASSUME NEW S, IsFiniteSet(S), NEW s \in Orders(S)
    PROVE  /\ s \in Seq(S)
           /\ Members(s) = S
           /\ \A i, j \in DOMAIN s : s[i] = s[j] => i = j
<1> DEFINE n == Cardinality(S)
<1>1. n \in Nat
  BY FS_CardinalityType
<1>2. s \in [1 .. n -> S] /\ Members(s) = S
  BY DEF Orders
<1>3. s \in Surjection(1 .. n, S)
  BY <1>2 DEF Surjection, Members
<1>4. IsFiniteSet(1 .. n) /\ Cardinality(1 .. n) = n
  BY <1>1, FS_Interval
<1>5. s \in Injection(1 .. n, S)
  BY <1>3, <1>4, FS_SurjSameCardinalityImpliesInj
<1>6. s \in Seq(S)
  BY <1>1, <1>2
<1> QED
  BY <1>2, <1>5, <1>6 DEF Injection, IsInjective

-----------------------------------------------------------------------------
(* The outbox and the pending investigations *)

\* pending_outbox lists messages of the outbox.
LEMMA UndeliveredForm ==
    ASSUME NEW s \in Seq(IncidentId)
    PROVE  /\ Undelivered(s) \in Seq(IncidentId)
           /\ Members(Undelivered(s)) \subseteq Members(s)
  BY SelectedMembers DEF Undelivered, Members

\* pending_investigations is finite: its keys are keys of journal entries.
LEMMA PendingForm ==
    ASSUME MapTypes
    PROVE  IsFiniteSet(PendingInvestigations) /\ PendingInvestigations \subseteq IncidentId
<1> DEFINE Place(i) == Incident(journal[i].id.key, replayed[journal[i].id.key].episode)
           f == [i \in DOMAIN journal |-> Place(i)]
           T == {Place(i) : i \in DOMAIN journal}
<1>1. IsFiniteSet(DOMAIN journal)
  <2>1. DOMAIN journal = 1 .. Len(journal) /\ Len(journal) \in Nat
    BY DEF MapTypes
  <2> QED
    BY <2>1, FS_Interval
<1>2. f \in Surjection(DOMAIN journal, T)
  BY DEF Surjection
<1>3. IsFiniteSet(T)
  <2> HIDE DEF f, T
  <2> QED
    BY <1>1, <1>2, FS_Surjection
<1>4. ASSUME NEW id \in PendingInvestigations PROVE id \in T /\ id \in IncidentId
  <2>1. PICK k \in Keys : /\ id = Incident(k, replayed[k].episode)
                          /\ replayed[k].phase = "firing" /\ Opened(k)
    BY DEF PendingInvestigations
  <2>2. PICK i \in DOMAIN journal : journal[i].id.key = k
    BY <2>1 DEF Opened
  <2>3. replayed[k].episode \in Nat \ {0}
    BY <2>1, StateCases, StateForms DEF MapTypes
  <2> QED
    BY <2>1, <2>2, <2>3 DEF Incident, IncidentId
<1>5. PendingInvestigations \subseteq T
  BY <1>4
<1> HIDE DEF T
<1> QED
  BY <1>3, <1>4, <1>5, FS_Subset

-----------------------------------------------------------------------------
(* Commits *)

LEMMA TypesGiven == Places => MapTypes
  BY DEF Places, WorkerTypeOK, MapTypes

\* States that agree are of one episode.
LEMMA SameEpisode ==
    ASSUME NEW r \in LifecycleState, NEW s \in LifecycleState, Agree(r, s)
    PROVE  /\ EpisodeOf(r) = EpisodeOf(s) /\ EpisodeOf(s) \in Nat
           /\ s # Absent => EpisodeOf(s) = s.episode /\ r.episode = s.episode
           /\ s.phase = "firing" => s # Absent /\ r = s
           /\ r.phase = "firing" => s # Absent /\ r = s
<1>1. s = Absent <=> r = Absent
  BY StateCases, StateForms DEF Agree
<1>2. s.phase = "firing" \/ r.phase = "firing" => s # Absent /\ r = s
  BY StateCases, StateForms DEF Agree
<1> QED
  BY <1>1, <1>2, StateCases DEF Agree, EpisodeOf

\* An entry is one more in the journal, and memory and replay still agree.
LEMMA EntryKeepsStanding ==
    ASSUME Places, Standing, NEW e, Advance(e), Commit(e)
    PROVE  /\ MapTypes' /\ Standing'
           /\ Len(journal') = Len(journal) + 1 /\ Len(journal') <= MaxJournal
           /\ Len(journal) \in Nat
<1>1. MapTypes /\ Agreement
  BY TypesGiven DEF Standing
<1>2. /\ journal' \in Seq(JournalEvent) /\ journal \in Seq(JournalEvent)
      /\ Len(journal') = Len(journal) + 1 /\ Len(journal) \in Nat
      /\ Len(journal) < MaxJournal
  BY <1>1, JournalGrows DEF Advance, Commit, MapTypes
<1>3. MapTypes' /\ Agreement'
  BY <1>1, <1>2, AgreementKept DEF MapTypes, Advance
<1>4. ASSUME NEW k \in Keys PROVE EpisodeOf(lifecycle'[k]) <= Len(journal')
  <2>1. /\ EpisodeOf(lifecycle'[k]) = EpisodeOf(replayed'[k])
        /\ EpisodeOf(lifecycle[k]) = EpisodeOf(replayed[k])
        /\ EpisodeOf(lifecycle'[k]) \in Nat /\ EpisodeOf(lifecycle[k]) \in Nat
    BY <1>1, <1>3, SameEpisode DEF MapTypes, Agreement, Agree
  <2>2. EpisodeOf(lifecycle[k]) <= Len(journal)
    BY DEF Standing
  <2>3. EpisodeOf(replayed'[k]) <= EpisodeOf(replayed[k]) + 1
    BY <2>1, MovedKey DEF Moves
  <2> QED
    BY <1>2, <2>1, <2>2, <2>3
<1>5. Len(journal') <= MaxJournal
  BY <1>2, JournalAssumption
<1> QED
  BY <1>2, <1>3, <1>4, <1>5 DEF Standing, EpisodeOf

\* process_new opens an incident: its alert, its entry and its identity.
LEMMA OpeningEntry ==
    ASSUME Places, Standing, DispatchOpening
    PROVE  \E g, e :
               /\ g \in Signal
               /\ g = Head(rest) /\ Advance(e) /\ Commit(e)
               /\ e.event = "IncidentOpened" /\ e.signal = g
               /\ e.id = Incident(g.key, EpisodeOf(lifecycle[g.key]) + 1)
               /\ e.id.key = g.key /\ e.id.episode = EpisodeOf(lifecycle[g.key]) + 1
               /\ e.id \in IncidentId
               /\ todo' = Append(todo, e.id)
<1> DEFINE g == Head(rest)
           e == Fact("IncidentOpened", NextIncident(g), g)
<1>1. g \in Signal
  BY DEF Places, WorkerTypeOK, DispatchOpening
<1>2. StartsEpisode(g) /\ todo' = Append(todo, NextIncident(g))
  BY DEF DispatchOpening
<1>3. /\ Advance(e) /\ NextIncident(g) \in IncidentId
      /\ NextIncident(g).key = g.key
      /\ NextIncident(g).episode = EpisodeOf(lifecycle[g.key]) + 1
  BY <1>1, <1>2, TypesGiven, StartsEpisodeAdvances DEF Standing
<1>4. Commit(e)
  BY <1>2 DEF StartsEpisode
<1>5. /\ e.event = "IncidentOpened" /\ e.signal = g /\ e.id = NextIncident(g)
      /\ e.id = Incident(g.key, EpisodeOf(lifecycle[g.key]) + 1)
  BY DEF Fact, NextIncident
<1> HIDE DEF e, g
<1> QED
  BY <1>1, <1>2, <1>3, <1>4, <1>5 DEF g

\* process_new takes an alert that opens nothing.
LEMMA SettlingEntry ==
    ASSUME Places, Standing, DispatchSettling
    PROVE  \E g, e :
               /\ g \in Signal
               /\ g = Head(rest) /\ Advance(e) /\ Commit(e)
               /\ e.event \in SignalEvents \ {"IncidentOpened"} /\ e.signal = g
               /\ e.id.key = g.key
<1>1. Head(rest) \in Signal /\ Settles(Head(rest))
  BY DEF Places, WorkerTypeOK, DispatchSettling
<1> QED
  BY <1>1, TypesGiven, SettlesAdvances DEF Standing

\* mark_completed_with_report records the incident in hand.
LEMMA CompletingEntry ==
    ASSUME Places, Standing, Handed, Complete
    PROVE  \E id, e :
               /\ id \in IncidentId
               /\ todo # <<>> /\ id = Head(todo) /\ Advance(e) /\ Commit(e)
               /\ e.event = "IncidentCompleted" /\ e.id = id
<1> DEFINE id == Head(todo)
           e == [event |-> "IncidentCompleted", id |-> id]
<1>1. todo # <<>> /\ todo \in Seq(IncidentId)
  BY DEF Places, WorkerTypeOK, Complete
<1>2. id \in IncidentId /\ id = todo[1] /\ 1 \in DOMAIN todo
  BY <1>1, MembersTail
<1>3. id.key \in Keys
  BY <1>2 DEF IncidentId
<1>4. id.episode <= EpisodeOf(replayed[id.key])
  <2>1. EpisodeOf(lifecycle[id.key]) = EpisodeOf(replayed[id.key])
    BY <1>3, TypesGiven, KeyState DEF Standing
  <2> QED
    BY <1>2, <2>1 DEF Handed
<1>5. MarkCompleted(id) /\ Commit(e)
  BY DEF Complete, MarkCompleted
<1>6. Advance(e)
  BY <1>2, <1>4, <1>5, TypesGiven, MarkCompletedAdvances DEF Standing
<1>7. e.event = "IncidentCompleted" /\ e.id = id
  OBVIOUS
<1> HIDE DEF e
<1> QED
  BY <1>1, <1>2, <1>5, <1>6, <1>7

-----------------------------------------------------------------------------
(* What the owner has in hand *)

\* The steps that commit nothing and replay nothing.
Quiet ==
    \/ \E h \in Hooks : Deliver(h) \/ Enqueue(h) \/ TimeOut(h)
    \/ Receive \/ Acknowledge \/ Fail \/ Skip \/ Tick \/ Publish \/ PublishFails
    \/ Mark(TRUE) \/ Mark(FALSE) \/ Drained \/ Crash

LEMMA QuietSteps == Quiet => UNCHANGED dispatcherVars
  BY DEF Quiet, Deliver, Enqueue, TimeOut, Receive, Acknowledge, Fail, Skip, Tick, Publish,
     PublishFails, Mark, Drained, Crash

LEMMA NextCases ==
    Next => Quiet \/ Start \/ DispatchOpening \/ DispatchSettling \/ Complete
  BY DEF Next, Quiet, Dispatching, Investigation, Marking

\* A state of a handler.
HandlerState == [state : {"unsent", "sending", "waiting", "accepted"}, attempt : Attempts]

LEMMA HandlerForm ==
    ASSUME hook \in [Hooks -> HandlerState], NEW h \in Hooks
    PROVE  /\ hook[h].attempt \in Attempts /\ hook[h].attempt \in Nat
           /\ \A s \in {"unsent", "sending", "waiting", "accepted"} :
                  /\ Moved(h, s) \in [Hooks -> HandlerState]
                  /\ [hook[h] EXCEPT !.state = s] \in HandlerState
<1>1. hook[h] \in HandlerState
  OBVIOUS
<1>2. Attempts \subseteq Nat
  BY WorkerBounds DEF Attempts
<1> QED
  BY <1>1, <1>2 DEF HandlerState, Moved

\* The parts of WorkerTypeOK that a step can leave alone.
OwnerTypes ==
    /\ pc \in {"down", "draining", "idle", "dispatching", "investigating"}
    /\ command \in Command \cup {<<>>}
    /\ rest \in Seq(Signal)
    /\ todo \in Seq(IncidentId)
    /\ setAside \subseteq IncidentId

OutboxTypes ==
    /\ outbox \in Seq(IncidentId)
    /\ delivered \subseteq Members(outbox)
    /\ sending \in Seq(IncidentId)
    /\ published \subseteq IncidentId
    /\ received \subseteq IncidentId

HandlerTypes ==
    /\ hook \in [Hooks -> HandlerState]
    /\ queue \in Seq(Command) /\ Len(queue) <= QueueCap

LEMMA TypeParts ==
    WorkerTypeOK <=> /\ MapTypes /\ HandlerTypes /\ OwnerTypes /\ OutboxTypes
                     /\ crashes \in 0 .. MaxCrashes
  BY DEF WorkerTypeOK, MapTypes, HandlerTypes, OwnerTypes, OutboxTypes, HandlerState

\* The places of Places.
InHand ==
    /\ pc \in {"down", "idle"} => todo = <<>>
    /\ pc = "investigating" => todo # <<>>
    /\ pc = "dispatching" => command \in Command
    /\ published # {} => pc = "draining" /\ sending # <<>>

LEMMA PlacesParts ==
    Places <=> /\ MapTypes /\ HandlerTypes /\ OwnerTypes /\ OutboxTypes
               /\ crashes \in 0 .. MaxCrashes
               /\ Len(journal) <= MaxJournal /\ InHand
  BY TypeParts DEF Places, InHand

LEMMA HandlersKeepPlaces ==
    ASSUME Places, NEW h \in Hooks, Deliver(h) \/ Enqueue(h) \/ TimeOut(h)
    PROVE  Places'
<1>1. /\ MapTypes /\ HandlerTypes /\ OwnerTypes /\ OutboxTypes
      /\ crashes \in 0 .. MaxCrashes
      /\ Len(journal) <= MaxJournal /\ InHand
  BY PlacesParts
<1>2. UNCHANGED <<dispatcherVars, pc, command, rest, todo, setAside, outboxVars, crashes>>
  BY DEF Deliver, Enqueue, TimeOut
<1>3. /\ MapTypes' /\ OwnerTypes' /\ OutboxTypes' /\ crashes' \in 0 .. MaxCrashes
      /\ Len(journal') <= MaxJournal /\ InHand'
  BY <1>1, <1>2 DEF MapTypes, OwnerTypes, OutboxTypes, InHand, dispatcherVars, outboxVars, Members
<1>4. HandlerTypes'
  <2>1. CASE Deliver(h)
    <3>0. /\ hook[h].attempt \in Nat /\ MaxAttempts[h] \in Nat
          /\ hook[h].attempt < MaxAttempts[h]
          /\ hook' = [hook EXCEPT ![h] = [state |-> "sending", attempt |-> hook[h].attempt + 1]]
      BY <1>1, <2>1, WorkerBounds, HandlerForm DEF Deliver, HandlerTypes
    <3>1. hook[h].attempt + 1 \in Attempts
      BY <3>0 DEF Attempts
    <3> QED
      BY <1>1, <2>1, <3>0, <3>1 DEF Deliver, HandlerTypes, HandlerState
  <2>2. CASE Enqueue(h)
    <3>1. [hook |-> h, attempt |-> hook[h].attempt] \in Command
      BY <1>1, HandlerForm DEF Command, HandlerTypes
    <3>2. queue' \in Seq(Command) /\ Len(queue') <= QueueCap
      BY <1>1, <2>2, <3>1, WorkerBounds DEF Enqueue, HandlerTypes
    <3>3. hook' \in [Hooks -> HandlerState]
      BY <1>1, <2>2, HandlerForm DEF Enqueue, HandlerTypes
    <3> QED
      BY <3>2, <3>3 DEF HandlerTypes
  <2>3. CASE TimeOut(h)
    <3>1. hook' \in [Hooks -> HandlerState]
      BY <1>1, <2>3, HandlerForm DEF TimeOut, HandlerTypes
    <3> QED
      BY <1>1, <2>3, <3>1 DEF TimeOut, HandlerTypes
  <2> QED
    BY <2>1, <2>2, <2>3
<1> QED
  BY <1>3, <1>4 DEF Places, WorkerTypeOK, MapTypes, HandlerTypes, OwnerTypes, OutboxTypes,
     HandlerState, InHand

LEMMA MapsKept ==
    ASSUME Places, UNCHANGED dispatcherVars
    PROVE  MapTypes' /\ Len(journal') <= MaxJournal
  BY PlacesParts DEF MapTypes, dispatcherVars

LEMMA ReceiveKeepsPlaces ==
    ASSUME Places, Receive
    PROVE  Places'
<1>1. /\ MapTypes /\ HandlerTypes /\ OwnerTypes /\ OutboxTypes
      /\ crashes \in 0 .. MaxCrashes
      /\ Len(journal) <= MaxJournal /\ InHand
  BY PlacesParts
<1>2. MapTypes' /\ Len(journal') <= MaxJournal
  BY QuietSteps, MapsKept DEF Quiet
<1>3. /\ Head(queue) \in Command /\ Head(queue).hook \in Hooks /\ Tail(queue) \in Seq(Command)
      /\ Len(Tail(queue)) <= QueueCap
  <2>1. queue \in Seq(Command) /\ queue # <<>> /\ Len(queue) <= QueueCap /\ QueueCap \in Nat
    BY <1>1, WorkerBounds DEF HandlerTypes, Receive
  <2>2. Head(queue) \in Command /\ Tail(queue) \in Seq(Command) /\ Len(Tail(queue)) <= QueueCap
    BY <2>1
  <2> QED
    BY <2>2 DEF Command
<1>4. HandlerTypes' /\ OutboxTypes' /\ crashes' \in 0 .. MaxCrashes
  BY <1>1, <1>3 DEF Receive, HandlerTypes, OutboxTypes, outboxVars, Members
<1>5. OwnerTypes' /\ InHand'
  BY <1>1, <1>3, BatchAssumption DEF Receive, OwnerTypes, InHand, outboxVars
<1> QED
  BY <1>2, <1>3, <1>4, <1>5 DEF Places, WorkerTypeOK, MapTypes, HandlerTypes, OwnerTypes, OutboxTypes,
     HandlerState, InHand

LEMMA AcknowledgeKeepsPlaces ==
    ASSUME Places, Acknowledge
    PROVE  Places'
<1>1. /\ MapTypes /\ HandlerTypes /\ OwnerTypes /\ OutboxTypes
      /\ crashes \in 0 .. MaxCrashes
      /\ Len(journal) <= MaxJournal /\ InHand
  BY PlacesParts
<1>2. MapTypes' /\ Len(journal') <= MaxJournal
  BY QuietSteps, MapsKept DEF Quiet
<1>3. command.hook \in Hooks
  BY <1>1 DEF InHand, Acknowledge, Command
<1>4. HandlerTypes' /\ OutboxTypes' /\ crashes' \in 0 .. MaxCrashes
  <2>1. Answered(command) \in [Hooks -> HandlerState]
    BY <1>1, <1>3, HandlerForm DEF Answered, HandlerTypes
  <2> QED
    BY <1>1, <2>1 DEF Acknowledge, HandlerTypes, OutboxTypes, outboxVars, Members
<1>5. OwnerTypes' /\ InHand'
  BY <1>1 DEF Acknowledge, OwnerTypes, InHand, NextStage, outboxVars
<1> QED
  BY <1>2, <1>3, <1>4, <1>5 DEF Places, WorkerTypeOK, MapTypes, HandlerTypes, OwnerTypes, OutboxTypes,
     HandlerState, InHand

LEMMA FailureKeepsPlaces ==
    ASSUME Places, Fail \/ Skip
    PROVE  Places'
<1>1. /\ MapTypes /\ HandlerTypes /\ OwnerTypes /\ OutboxTypes
      /\ crashes \in 0 .. MaxCrashes
      /\ Len(journal) <= MaxJournal /\ InHand
  BY PlacesParts
<1>2. MapTypes' /\ Len(journal') <= MaxJournal
  BY QuietSteps, MapsKept DEF Quiet
<1>3. /\ Head(todo) \in IncidentId /\ Tail(todo) \in Seq(IncidentId)
      /\ Unsent \in Seq(IncidentId)
  BY <1>1, MembersTail, UndeliveredForm DEF OwnerTypes, OutboxTypes, InHand, Fail, Skip, Unsent
<1>4. HandlerTypes' /\ OutboxTypes' /\ crashes' \in 0 .. MaxCrashes
  BY <1>1, <1>3 DEF Fail, Skip, HandlerTypes, OutboxTypes, handlerVars, outboxVars, Members
<1>5. OwnerTypes' /\ InHand'
  <2>1. CASE Fail
    <3>1. published' = published /\ pc' = "draining" /\ sending' = Unsent /\ pc = "investigating"
      BY <2>1 DEF Fail
    <3>2. published = {}
      BY <1>1, <3>1 DEF InHand
    <3> QED
      BY <1>1, <1>3, <2>1, <3>1, <3>2 DEF Fail, OwnerTypes, InHand
  <2>2. CASE Skip
    BY <1>1, <1>3, <2>2 DEF Skip, OwnerTypes, InHand, NextStage, outboxVars
  <2> QED
    BY <2>1, <2>2
<1> QED
  BY <1>2, <1>3, <1>4, <1>5 DEF Places, WorkerTypeOK, MapTypes, HandlerTypes, OwnerTypes, OutboxTypes,
     HandlerState, InHand

LEMMA DrainKeepsPlaces ==
    ASSUME Places, Tick \/ Publish \/ PublishFails \/ Drained
    PROVE  Places'
<1>1. /\ MapTypes /\ HandlerTypes /\ OwnerTypes /\ OutboxTypes
      /\ crashes \in 0 .. MaxCrashes
      /\ Len(journal) <= MaxJournal /\ InHand
  BY PlacesParts
<1>2. MapTypes' /\ Len(journal') <= MaxJournal
  BY QuietSteps, MapsKept DEF Quiet
<1>3. HandlerTypes' /\ crashes' \in 0 .. MaxCrashes
  BY <1>1 DEF Tick, Publish, PublishFails, Drained, HandlerTypes, handlerVars
<1>4. OutboxTypes'
  <2>1. Unsent \in Seq(IncidentId)
    BY <1>1, UndeliveredForm DEF OutboxTypes, Unsent
  <2>2. sending # <<>> => Head(sending) \in IncidentId /\ Tail(sending) \in Seq(IncidentId)
    BY <1>1, MembersTail DEF OutboxTypes
  <2> QED
    BY <1>1, <2>1, <2>2 DEF Tick, Publish, PublishFails, Drained, OutboxTypes, outboxVars, Members
<1>5. OwnerTypes' /\ InHand'
  <2>1. OwnerTypes'
    BY <1>1 DEF Tick, Publish, PublishFails, Drained, OwnerTypes, NextStage
  <2>2. CASE Tick
    BY <1>1, <2>1, <2>2 DEF Tick, InHand
  <2>3. CASE Publish
    BY <1>1, <2>1, <2>3 DEF Publish, InHand
  <2>4. CASE PublishFails
    BY <1>1, <2>1, <2>4 DEF PublishFails, InHand
  <2>5. CASE Drained
    BY <1>1, <2>1, <2>5 DEF Drained, InHand, NextStage, outboxVars
  <2> QED
    BY <2>1, <2>2, <2>3, <2>4, <2>5
<1> QED
  BY <1>2, <1>3, <1>4, <1>5 DEF Places, WorkerTypeOK, MapTypes, HandlerTypes, OwnerTypes, OutboxTypes,
     HandlerState, InHand

LEMMA MarkKeepsPlaces ==
    ASSUME Places, Mailed, NEW done \in BOOLEAN, Mark(done)
    PROVE  Places'
<1>1. /\ MapTypes /\ HandlerTypes /\ OwnerTypes /\ OutboxTypes
      /\ crashes \in 0 .. MaxCrashes
      /\ Len(journal) <= MaxJournal /\ InHand
  BY PlacesParts
<1>2. MapTypes' /\ Len(journal') <= MaxJournal
  BY MapsKept DEF Mark
<1>3. HandlerTypes' /\ crashes' \in 0 .. MaxCrashes
  BY <1>1 DEF Mark, HandlerTypes, handlerVars
<1>4. OutboxTypes'
  <2>1. sending # <<>>
    BY <1>1 DEF InHand, Mark
  <2>2. Tail(sending) \in Seq(IncidentId)
    BY <1>1, <2>1, MembersTail DEF OutboxTypes
  <2> QED
    BY <1>1, <2>2 DEF Mark, OutboxTypes, Mailed, Members
<1>5. OwnerTypes' /\ InHand'
  BY <1>1 DEF Mark, OwnerTypes, InHand
<1> QED
  BY <1>2, <1>3, <1>4, <1>5 DEF Places, WorkerTypeOK, MapTypes, HandlerTypes, OwnerTypes, OutboxTypes,
     HandlerState, InHand

LEMMA CrashKeepsPlaces ==
    ASSUME Places, Crash
    PROVE  Places'
<1>1. /\ MapTypes /\ HandlerTypes /\ OwnerTypes /\ OutboxTypes
      /\ crashes \in 0 .. MaxCrashes
      /\ Len(journal) <= MaxJournal /\ InHand
  BY PlacesParts
<1>2. MapTypes' /\ Len(journal') <= MaxJournal
  BY QuietSteps, MapsKept DEF Quiet
<1>3. HandlerTypes' /\ crashes' \in 0 .. MaxCrashes
  <2>1. hook' \in [Hooks -> HandlerState]
    <3>1. \A h \in Hooks : [hook[h] EXCEPT !.state = "unsent"] \in HandlerState
      BY <1>1, HandlerForm DEF HandlerTypes
    <3> QED
      BY <1>1, <3>1 DEF HandlerTypes, Crash
  <2>2. crashes' \in 0 .. MaxCrashes
    BY <1>1, WorkerBounds DEF Crash
  <2>3. queue' \in Seq(Command) /\ Len(queue') <= QueueCap
    <3>1. queue' = <<>> /\ QueueCap \in Nat
      BY WorkerBounds DEF Crash
    <3> QED
      BY <3>1
  <2> QED
    BY <2>1, <2>2, <2>3 DEF HandlerTypes
<1>4. OutboxTypes'
  BY <1>1 DEF Crash, OutboxTypes, Members
<1>5. OwnerTypes' /\ InHand'
  BY DEF Crash, OwnerTypes, InHand
<1> QED
  BY <1>2, <1>3, <1>4, <1>5 DEF Places, WorkerTypeOK, MapTypes, HandlerTypes, OwnerTypes, OutboxTypes,
     HandlerState, InHand

LEMMA StartKeepsPlaces ==
    ASSUME Places, Mailed, Start
    PROVE  Places'
<1>1. /\ MapTypes /\ HandlerTypes /\ OwnerTypes /\ OutboxTypes
      /\ crashes \in 0 .. MaxCrashes
      /\ Len(journal) <= MaxJournal /\ InHand
  BY PlacesParts
<1>2. MapTypes' /\ Len(journal') <= MaxJournal
  BY <1>1 DEF Start, MapTypes
<1>3. HandlerTypes' /\ crashes' \in 0 .. MaxCrashes
  BY <1>1 DEF Start, HandlerTypes, handlerVars
<1>4. OutboxTypes'
  <2>1. Unsent \in Seq(IncidentId)
    BY <1>1, UndeliveredForm DEF OutboxTypes, Unsent
  <2> QED
    BY <1>1, <2>1 DEF Start, OutboxTypes, Members
<1>5. OwnerTypes' /\ InHand'
  <2>1. todo' \in Seq(PendingInvestigations) /\ PendingInvestigations \subseteq IncidentId
    BY <1>1, PendingForm, OrdersForm DEF Start
  <2>2. todo' \in Seq(IncidentId)
    BY <2>1
  <2> QED
    BY <1>1, <2>2 DEF Start, OwnerTypes, InHand
<1> QED
  BY <1>2, <1>3, <1>4, <1>5 DEF Places, WorkerTypeOK, MapTypes, HandlerTypes, OwnerTypes, OutboxTypes,
     HandlerState, InHand

LEMMA DispatchKeepsPlaces ==
    ASSUME Places, Standing, DispatchOpening \/ DispatchSettling
    PROVE  Places'
<1>1. /\ MapTypes /\ HandlerTypes /\ OwnerTypes /\ OutboxTypes
      /\ crashes \in 0 .. MaxCrashes
      /\ Len(journal) <= MaxJournal /\ InHand
  BY PlacesParts
<1>2. MapTypes' /\ Len(journal') <= MaxJournal
  BY OpeningEntry, SettlingEntry, EntryKeepsStanding
<1>3. HandlerTypes' /\ crashes' \in 0 .. MaxCrashes
  BY <1>1 DEF DispatchOpening, DispatchSettling, HandlerTypes, handlerVars
<1>4. OutboxTypes'
  BY <1>1 DEF DispatchOpening, DispatchSettling, OutboxTypes, outboxVars, Members
<1>5. OwnerTypes' /\ InHand'
  <2>1. todo' \in Seq(IncidentId)
    <3>1. CASE DispatchOpening
      BY <1>1, <3>1, OpeningEntry, MembersAppend DEF OwnerTypes
    <3>2. CASE DispatchSettling
      BY <1>1, <3>2 DEF DispatchSettling, OwnerTypes
    <3> QED
      BY <3>1, <3>2
  <2>2. rest' \in Seq(Signal)
    <3>1. rest \in Seq(Signal) /\ rest # <<>> /\ rest' = Tail(rest)
      BY <1>1 DEF DispatchOpening, DispatchSettling, OwnerTypes
    <3> QED
      BY <3>1, MembersTail
  <2>3. UNCHANGED <<pc, command, setAside, outboxVars>> /\ pc = "dispatching"
    BY DEF DispatchOpening, DispatchSettling
  <2> QED
    BY <1>1, <2>1, <2>2, <2>3 DEF OwnerTypes, InHand, outboxVars
<1> QED
  BY <1>2, <1>3, <1>4, <1>5 DEF Places, WorkerTypeOK, MapTypes, HandlerTypes, OwnerTypes, OutboxTypes,
     HandlerState, InHand

LEMMA CompleteKeepsPlaces ==
    ASSUME Places, Standing, Handed, Mailed, Complete
    PROVE  Places'
<1>1. /\ MapTypes /\ HandlerTypes /\ OwnerTypes /\ OutboxTypes
      /\ crashes \in 0 .. MaxCrashes
      /\ Len(journal) <= MaxJournal /\ InHand
  BY PlacesParts
<1>2. MapTypes' /\ Len(journal') <= MaxJournal
  BY CompletingEntry, EntryKeepsStanding
<1>3. HandlerTypes' /\ crashes' \in 0 .. MaxCrashes
  BY <1>1 DEF Complete, HandlerTypes, handlerVars
<1>6. /\ Head(todo) \in IncidentId /\ Tail(todo) \in Seq(IncidentId)
  BY <1>1, MembersTail DEF OwnerTypes, InHand, Complete
<1>7. outbox' \in Seq(IncidentId) /\ Members(outbox) \subseteq Members(outbox')
  <2>1. outbox \in Seq(IncidentId) /\ outbox' = WithNotice(Head(todo))
    BY <1>1 DEF OutboxTypes, Complete
  <2>2. CASE Head(todo) \in Members(outbox)
    BY <2>1, <2>2 DEF WithNotice
  <2>3. CASE Head(todo) \notin Members(outbox)
    BY <1>6, <2>1, <2>3, MembersAppend DEF WithNotice
  <2> QED
    BY <2>2, <2>3
<1>8. sending' \in Seq(IncidentId)
  <2>1. PICK o : o = outbox'
    OBVIOUS
  <2>2. Undelivered(o) \in Seq(IncidentId) /\ sending' = Undelivered(o)
    BY <1>7, <2>1, UndeliveredForm DEF Complete
  <2> QED
    BY <2>2
<1>4. OutboxTypes'
  <2>1. delivered' \subseteq Members(outbox') /\ UNCHANGED <<published, received>>
    BY <1>1, <1>7 DEF OutboxTypes, Complete
  <2> QED
    BY <1>1, <1>7, <1>8, <2>1 DEF OutboxTypes, Members
<1>5. OwnerTypes' /\ InHand'
  BY <1>1, <1>6 DEF Complete, OwnerTypes, InHand
<1> QED
  BY <1>2, <1>3, <1>4, <1>5 DEF Places, WorkerTypeOK, MapTypes, HandlerTypes, OwnerTypes, OutboxTypes,
     HandlerState, InHand

\* Every step keeps what the owner has in hand.
LEMMA PlacesKept ==
    ASSUME Places, Standing, Handed, Mailed, [Next]_vars
    PROVE  Places'
<1>1. CASE Quiet
  <2>1. CASE Mark(TRUE) \/ Mark(FALSE)
    BY <2>1, MarkKeepsPlaces
  <2> QED
    BY <1>1, <2>1, HandlersKeepPlaces, ReceiveKeepsPlaces, AcknowledgeKeepsPlaces,
       FailureKeepsPlaces, DrainKeepsPlaces, CrashKeepsPlaces DEF Quiet
<1>2. CASE UNCHANGED vars
  BY <1>2 DEF vars, dispatcherVars, handlerVars, outboxVars, Places, WorkerTypeOK, Members
<1> QED
  BY <1>1, <1>2, NextCases, StartKeepsPlaces, DispatchKeepsPlaces, CompleteKeepsPlaces

\* Every step keeps memory and replay in agreement.
LEMMA StandingKept ==
    ASSUME Places, Standing, Handed, [Next]_vars
    PROVE  Standing'
<1>1. CASE UNCHANGED dispatcherVars
  BY <1>1 DEF dispatcherVars, Standing, Agreement, Agree, EpisodeOf
<1>2. CASE Start
  <2>1. lifecycle' = replayed /\ UNCHANGED <<journal, replayed>>
    BY <1>2 DEF Start
  <2>2. ASSUME NEW k \in Keys
        PROVE  Agree(replayed[k], replayed[k]) /\ EpisodeOf(replayed[k]) <= Len(journal)
    <3>1. /\ lifecycle[k] \in LifecycleState /\ replayed[k] \in LifecycleState
          /\ Agree(replayed[k], lifecycle[k])
      BY TypesGiven DEF MapTypes, Standing, Agreement
    <3>2. replayed[k].phase = "resolved" => Millis[replayed[k].time] \in Int
      BY <3>1, StateCases, StateForms, Instants
    <3> QED
      BY <3>1, <3>2, SameEpisode DEF Agree, Standing
  <2> QED
    BY <2>1, <2>2 DEF Standing, Agreement, Agree, EpisodeOf
<1>3. CASE DispatchOpening \/ DispatchSettling \/ Complete
  BY <1>3, OpeningEntry, SettlingEntry, CompletingEntry, EntryKeepsStanding
<1> QED
  BY <1>1, <1>2, <1>3, NextCases, QuietSteps DEF vars

-----------------------------------------------------------------------------
(* The incidents in hand *)

\* No entry takes a key back to an earlier episode.
LEMMA MemoryForward ==
    ASSUME Places, Standing, NEW e, Advance(e), Commit(e), NEW k \in Keys
    PROVE  /\ EpisodeOf(lifecycle[k]) \in Nat /\ EpisodeOf(lifecycle'[k]) \in Nat
           /\ EpisodeOf(lifecycle[k]) <= EpisodeOf(lifecycle'[k])
           /\ EpisodeOf(lifecycle'[k]) = EpisodeOf(replayed'[k])
           /\ lifecycle[k].phase = "firing" \/ replayed[k].phase = "firing" =>
                 lifecycle[k] = replayed[k]
           /\ lifecycle'[k].phase = "firing" \/ replayed'[k].phase = "firing" =>
                 lifecycle'[k] = replayed'[k]
<1>1. /\ lifecycle[k] \in LifecycleState /\ lifecycle'[k] \in LifecycleState
      /\ replayed[k] \in LifecycleState /\ replayed'[k] \in LifecycleState
      /\ Agree(replayed[k], lifecycle[k]) /\ Agree(replayed'[k], lifecycle'[k])
  BY TypesGiven, EntryKeepsStanding DEF MapTypes, Standing, Agreement, Agree
<1>2. EpisodeOf(replayed[k]) <= EpisodeOf(replayed'[k])
  BY TypesGiven, Forward
<1> QED
  BY <1>1, <1>2, SameEpisode

LEMMA HandedShrinks ==
    ASSUME Places, Handed, todo # <<>>, todo' = Tail(todo),
           \A k \in Keys : /\ EpisodeOf(lifecycle[k]) \in Nat /\ EpisodeOf(lifecycle'[k]) \in Nat
                           /\ EpisodeOf(lifecycle[k]) <= EpisodeOf(lifecycle'[k])
    PROVE  Handed'
<1>1. todo \in Seq(IncidentId)
  BY DEF Places, WorkerTypeOK
<1>2. \A i, j \in DOMAIN todo' : todo'[i] = todo'[j] => i = j
  BY <1>1, DistinctTail DEF Handed
<1>3. ASSUME NEW i \in DOMAIN todo'
      PROVE  todo'[i].episode <= EpisodeOf(lifecycle'[todo'[i].key])
  <2>1. i + 1 \in DOMAIN todo /\ todo'[i] = todo[i + 1]
    BY <1>1, MembersTail
  <2>2. todo[i + 1] \in IncidentId
    BY <1>1, <2>1
  <2>3. todo[i + 1].key \in Keys /\ todo[i + 1].episode \in Nat
    BY <2>2 DEF IncidentId
  <2>4. todo[i + 1].episode <= EpisodeOf(lifecycle[todo[i + 1].key])
    BY <2>1 DEF Handed
  <2> QED
    BY <2>1, <2>3, <2>4
<1> QED
  BY <1>2, <1>3 DEF Handed, EpisodeOf

LEMMA OpeningKeepsHanded ==
    ASSUME Places, Standing, Handed, DispatchOpening
    PROVE  Handed'
<1>1. PICK g, e :
               /\ g \in Signal
               /\ g = Head(rest) /\ Advance(e) /\ Commit(e)
               /\ e.event = "IncidentOpened" /\ e.signal = g
               /\ e.id.key = g.key /\ e.id.episode = EpisodeOf(lifecycle[g.key]) + 1
               /\ e.id \in IncidentId
               /\ todo' = Append(todo, e.id)
  BY OpeningEntry
<1>2. todo \in Seq(IncidentId)
  BY DEF Places, WorkerTypeOK
<1>3. /\ DOMAIN todo' = DOMAIN todo \cup {Len(todo) + 1}
      /\ \A i \in DOMAIN todo : todo'[i] = todo[i]
      /\ todo'[Len(todo) + 1] = e.id
  BY <1>1, <1>2, MembersAppend
<1>4. ASSUME NEW i \in DOMAIN todo
      PROVE  /\ todo[i].key \in Keys /\ todo[i].episode \in Nat
             /\ todo[i].episode <= EpisodeOf(lifecycle[todo[i].key])
  <2>1. todo[i] \in IncidentId
    BY <1>2
  <2> QED
    BY <2>1 DEF Handed, IncidentId
<1>5. e.id \notin Members(todo)
  <2>1. SUFFICES ASSUME NEW i \in DOMAIN todo, todo[i] = e.id PROVE FALSE
    BY DEF Members
  <2>2. e.id.key \in Keys /\ EpisodeOf(lifecycle[g.key]) \in Nat
    BY <1>1, MemoryForward, SignalForm
  <2> QED
    BY <1>1, <1>4, <2>1, <2>2
<1>6. \A i, j \in DOMAIN todo' : todo'[i] = todo'[j] => i = j
  BY <1>1, <1>2, <1>5, DistinctAppend DEF Handed
<1>7. ASSUME NEW i \in DOMAIN todo'
      PROVE  todo'[i].episode <= EpisodeOf(lifecycle'[todo'[i].key])
  <2>1. CASE i \in DOMAIN todo
    <3>1. /\ EpisodeOf(lifecycle[todo[i].key]) <= EpisodeOf(lifecycle'[todo[i].key])
          /\ EpisodeOf(lifecycle[todo[i].key]) \in Nat /\ EpisodeOf(lifecycle'[todo[i].key]) \in Nat
      BY <1>1, <1>4, <2>1, MemoryForward
    <3> QED
      BY <1>3, <1>4, <2>1, <3>1
  <2>2. CASE i = Len(todo) + 1
    <3>1. g.key \in Keys
      BY <1>1, SignalForm
    <3>2. Moves(e, replayed[g.key], replayed'[g.key])
      BY <1>1, MovedKey
    <3>3. e.id.episode <= EpisodeOf(replayed'[g.key])
      BY <3>2 DEF Moves
    <3>4. EpisodeOf(replayed'[g.key]) = EpisodeOf(lifecycle'[g.key])
      BY <1>1, <3>1, MemoryForward
    <3> QED
      BY <1>1, <1>3, <2>2, <3>3, <3>4
  <2> QED
    BY <1>3, <2>1, <2>2
<1> QED
  BY <1>6, <1>7 DEF Handed, EpisodeOf

\* What a restart takes up, place by place.
LEMMA RestartTakes ==
    ASSUME Places, Start, NEW i \in DOMAIN todo'
    PROVE  \E k \in Keys :
               /\ todo'[i] = Incident(k, replayed[k].episode)
               /\ todo'[i].key = k /\ todo'[i].episode = replayed[k].episode
               /\ replayed[k].phase = "firing" /\ lifecycle'[k] = replayed[k]
               /\ EpisodeOf(replayed[k]) = replayed[k].episode
               /\ replayed[k].episode \in Nat
<1>1. todo' \in Seq(PendingInvestigations) /\ lifecycle' = replayed
  BY TypesGiven, PendingForm, OrdersForm DEF Start
<1>2. todo'[i] \in PendingInvestigations
  BY <1>1
<1>3. PICK k \in Keys : /\ todo'[i] = Incident(k, replayed[k].episode)
                        /\ replayed[k].phase = "firing"
  BY <1>2 DEF PendingInvestigations
<1>4. EpisodeOf(replayed[k]) = replayed[k].episode /\ replayed[k].episode \in Nat
  BY <1>3, TypesGiven, StateCases, StateForms DEF MapTypes, EpisodeOf
<1>5. todo'[i].key = k /\ todo'[i].episode = replayed[k].episode
  BY <1>3 DEF Incident
<1> QED
  BY <1>1, <1>3, <1>4, <1>5

LEMMA StartKeepsHanded ==
    ASSUME Places, Start
    PROVE  Handed'
<1>1. \A i, j \in DOMAIN todo' : todo'[i] = todo'[j] => i = j
  BY TypesGiven, PendingForm, OrdersForm DEF Start
<1>2. ASSUME NEW i \in DOMAIN todo'
      PROVE  todo'[i].episode <= EpisodeOf(lifecycle'[todo'[i].key])
  BY RestartTakes
<1> QED
  BY <1>1, <1>2 DEF Handed, EpisodeOf

LEMMA HandedKept ==
    ASSUME Places, Standing, Handed, [Next]_vars
    PROVE  Handed'
<1>0. ASSUME NEW k \in Keys PROVE EpisodeOf(lifecycle[k]) \in Nat
  BY TypesGiven, KeyState DEF Standing
<1>1. CASE UNCHANGED <<lifecycle, todo>>
  BY <1>1 DEF Handed, EpisodeOf
<1>2. CASE Fail \/ Skip
  <2>1. todo # <<>> /\ todo' = Tail(todo) /\ UNCHANGED lifecycle
    BY <1>2 DEF Fail, Skip, Places, dispatcherVars
  <2> QED
    BY <1>0, <2>1, HandedShrinks
<1>3. CASE Crash
  BY <1>3 DEF Crash, Handed
<1>4. CASE DispatchSettling
  <2>1. PICK e : Advance(e) /\ Commit(e)
    BY <1>4, SettlingEntry
  <2>2. UNCHANGED todo
    BY <1>4 DEF DispatchSettling
  <2>3. ASSUME NEW i \in DOMAIN todo
        PROVE  todo[i].episode <= EpisodeOf(lifecycle'[todo[i].key])
    <3>1. todo[i] \in IncidentId
      BY DEF Places, WorkerTypeOK
    <3>2. todo[i].key \in Keys /\ todo[i].episode \in Nat
      BY <3>1 DEF IncidentId
    <3> QED
      BY <2>1, <3>2, MemoryForward DEF Handed
  <2> QED
    BY <2>2, <2>3 DEF Handed, EpisodeOf
<1>5. CASE Complete
  <2>1. PICK e : Advance(e) /\ Commit(e)
    BY <1>5, CompletingEntry
  <2>2. todo # <<>> /\ todo' = Tail(todo)
    BY <1>5 DEF Complete, Places
  <2> QED
    BY <2>1, <2>2, MemoryForward, HandedShrinks
<1>6. CASE Quiet
  <2>1. CASE \E h \in Hooks : Deliver(h) \/ Enqueue(h) \/ TimeOut(h)
    BY <1>1, <2>1 DEF Deliver, Enqueue, TimeOut, dispatcherVars
  <2>2. CASE Receive \/ Acknowledge \/ Tick \/ Publish \/ PublishFails \/ Mark(TRUE) \/ Mark(FALSE)
             \/ Drained
    BY <1>1, <2>2 DEF Receive, Acknowledge, Tick, Publish, PublishFails, Mark, Drained,
       dispatcherVars
  <2> QED
    BY <1>2, <1>3, <1>6, <2>1, <2>2 DEF Quiet
<1> QED
  BY <1>1, <1>4, <1>5, <1>6, NextCases, StartKeepsHanded, OpeningKeepsHanded
     DEF vars, dispatcherVars

-----------------------------------------------------------------------------
(* The outbox *)

LEMMA CompletedGrow ==
    ASSUME MapTypes, NEW e, Advance(e)
    PROVE  CompletedIncidents' =
               CompletedIncidents \cup (IF e.event = "IncidentCompleted" THEN {e.id} ELSE {})
<1>1. /\ DOMAIN journal' = DOMAIN journal \cup {Last}
      /\ \A i \in DOMAIN journal : journal'[i] = journal[i]
      /\ journal'[Last] = e
  BY JournalGrows
<1> QED
  BY <1>1 DEF CompletedIncidents

\* The outbox after mark_completed_with_report.
LEMMA NoticeAdded ==
    ASSUME Places, Mailed, Complete
    PROVE  /\ Head(todo) \in IncidentId
           /\ outbox' \in Seq(IncidentId)
           /\ Members(outbox') = Members(outbox) \cup {Head(todo)}
           /\ \A i, j \in DOMAIN outbox' : outbox'[i] = outbox'[j] => i = j
           /\ Members(sending') \subseteq Members(outbox')
<1>1. /\ outbox \in Seq(IncidentId) /\ outbox' = WithNotice(Head(todo))
      /\ Head(todo) \in IncidentId
      /\ \A i, j \in DOMAIN outbox : outbox[i] = outbox[j] => i = j
  <2>1. todo # <<>> /\ todo \in Seq(IncidentId)
    BY DEF Places, WorkerTypeOK, Complete
  <2> QED
    BY <2>1, MembersTail DEF Places, WorkerTypeOK, Complete, Mailed, CompletionCarriesNotice
<1>2. /\ outbox' \in Seq(IncidentId)
      /\ Members(outbox') = Members(outbox) \cup {Head(todo)}
      /\ \A i, j \in DOMAIN outbox' : outbox'[i] = outbox'[j] => i = j
  <2>1. CASE Head(todo) \in Members(outbox)
    BY <1>1, <2>1 DEF WithNotice
  <2>2. CASE Head(todo) \notin Members(outbox)
    <3>1. outbox' = Append(outbox, Head(todo))
      BY <1>1, <2>2 DEF WithNotice
    <3>2. /\ Append(outbox, Head(todo)) \in Seq(IncidentId)
          /\ Members(Append(outbox, Head(todo))) = Members(outbox) \cup {Head(todo)}
      BY <1>1, MembersAppend
    <3>3. PICK o : o = Append(outbox, Head(todo))
      OBVIOUS
    <3>4. \A i, j \in DOMAIN o : o[i] = o[j] => i = j
      BY <1>1, <2>2, <3>3, DistinctAppend
    <3> QED
      BY <3>1, <3>2, <3>3, <3>4
  <2> QED
    BY <2>1, <2>2
<1>3. PICK o : o = outbox'
  OBVIOUS
<1>4. Members(Undelivered(o)) \subseteq Members(o) /\ sending' = Undelivered(o)
  BY <1>2, <1>3, UndeliveredForm DEF Complete
<1> QED
  BY <1>1, <1>2, <1>3, <1>4

\* Steps of the outbox that leave the journal and the messages alone.
LEMMA MailedMoves ==
    ASSUME Mailed, UNCHANGED <<journal, outbox>>,
           Members(sending') \subseteq Members(outbox),
           published' \subseteq Members(outbox), published' \subseteq received',
           received \subseteq received', delivered' \subseteq received'
    PROVE  Mailed'
<1>1. Members(outbox') = Members(outbox)
  OBVIOUS
<1>2. CompletedIncidents' = CompletedIncidents
  BY DEF CompletedIncidents
<1>3. CompletionCarriesNotice'
  BY <1>1, <1>2 DEF Mailed, CompletionCarriesNotice, Members
<1> QED
  BY <1>1, <1>3 DEF Mailed, MarkedIsReceived, Members

LEMMA MailedKept ==
    ASSUME Places, Standing, Handed, Mailed, [Next]_vars
    PROVE  Mailed'
<1>0. /\ outbox \in Seq(IncidentId) /\ sending \in Seq(IncidentId)
      /\ Members(sending) \subseteq Members(outbox)
      /\ published \subseteq Members(outbox) /\ published \subseteq received
      /\ delivered \subseteq received
      /\ sending # <<>> => /\ Head(sending) \in Members(outbox)
                           /\ Members(Tail(sending)) \subseteq Members(outbox)
      /\ Members(Unsent) \subseteq Members(outbox)
      /\ Members(<<>>) = {}
  <2>1. outbox \in Seq(IncidentId) /\ sending \in Seq(IncidentId)
    BY DEF Places, WorkerTypeOK
  <2>2. Members(<<>>) = {}
    BY DEF Members
  <2> QED
    BY <2>1, <2>2, MembersTail, UndeliveredForm DEF Mailed, MarkedIsReceived, Unsent
<1>1. CASE UNCHANGED <<journal, outbox, sending, published, received, delivered>>
  BY <1>0, <1>1, MailedMoves
<1>2. CASE Fail \/ Tick \/ Start
  <2>1. UNCHANGED <<journal, outbox, published, received, delivered>> /\ sending' = Unsent
    BY <1>2 DEF Fail, Tick, Start, dispatcherVars
  <2> QED
    BY <1>0, <2>1, MailedMoves
<1>3. CASE Publish
  <2>1. /\ UNCHANGED <<journal, outbox, sending, delivered>> /\ published' = {Head(sending)}
        /\ received' = received \cup {Head(sending)} /\ sending # <<>>
    BY <1>3 DEF Publish, dispatcherVars
  <2> QED
    BY <1>0, <2>1, MailedMoves
<1>4. CASE PublishFails
  <2>1. /\ UNCHANGED <<journal, outbox, published, received, delivered>>
        /\ sending' = Tail(sending) /\ sending # <<>>
    BY <1>4 DEF PublishFails, dispatcherVars
  <2> QED
    BY <1>0, <2>1, MailedMoves
<1>5. ASSUME NEW done \in BOOLEAN, Mark(done) PROVE Mailed'
  <2>1. /\ UNCHANGED <<journal, outbox, received>> /\ sending' = Tail(sending) /\ sending # <<>>
        /\ published' = {} /\ delivered' \subseteq delivered \cup published
    BY <1>5 DEF Mark, Places, dispatcherVars
  <2> QED
    BY <1>0, <2>1, MailedMoves
<1>6. CASE Crash
  <2>1. /\ UNCHANGED <<journal, outbox, received, delivered>>
        /\ published' = {} /\ sending' = <<>>
    BY <1>6 DEF Crash, dispatcherVars
  <2> QED
    BY <1>0, <2>1, MailedMoves
<1>7. CASE DispatchOpening \/ DispatchSettling
  <2>1. PICK e : Advance(e) /\ e.event # "IncidentCompleted"
    BY <1>7, OpeningEntry, SettlingEntry DEF SignalEvents
  <2>2. CompletedIncidents' = CompletedIncidents
    BY <2>1, TypesGiven, CompletedGrow
  <2>3. UNCHANGED outboxVars
    BY <1>7 DEF DispatchOpening, DispatchSettling
  <2> QED
    BY <2>2, <2>3 DEF outboxVars, Mailed, MarkedIsReceived, CompletionCarriesNotice, Members
<1>8. CASE Complete
  <2>1. PICK e : Advance(e) /\ e.event = "IncidentCompleted" /\ e.id = Head(todo)
    BY <1>8, CompletingEntry
  <2>2. CompletedIncidents' = CompletedIncidents \cup {Head(todo)}
    BY <2>1, TypesGiven, CompletedGrow
  <2>3. /\ Members(outbox') = Members(outbox) \cup {Head(todo)}
        /\ \A i, j \in DOMAIN outbox' : outbox'[i] = outbox'[j] => i = j
        /\ Members(sending') \subseteq Members(outbox')
    BY <1>8, NoticeAdded
  <2>4. UNCHANGED <<delivered, published, received>>
    BY <1>8 DEF Complete
  <2> QED
    BY <1>0, <2>2, <2>3, <2>4 DEF Mailed, MarkedIsReceived, CompletionCarriesNotice, Members
<1>9. CASE Quiet
  <2>1. CASE \E h \in Hooks : Deliver(h) \/ Enqueue(h) \/ TimeOut(h)
    BY <1>1, <2>1 DEF Deliver, Enqueue, TimeOut, dispatcherVars, outboxVars
  <2>2. CASE Receive \/ Acknowledge \/ Skip \/ Drained
    BY <1>1, <2>2 DEF Receive, Acknowledge, Skip, Drained, dispatcherVars, outboxVars
  <2> QED
    BY <1>2, <1>3, <1>4, <1>5, <1>6, <1>9, <2>1, <2>2 DEF Quiet
<1> QED
  BY <1>1, <1>2, <1>7, <1>8, <1>9, NextCases DEF vars, dispatcherVars, outboxVars

-----------------------------------------------------------------------------
(* The alerts of a command *)

\* What is in the journal stays there.
LEMMA JournalKeeps ==
    ASSUME Places, Standing, Handed, [Next]_vars
    PROVE  \A g : Journaled(journal, g) => Journaled(journal', g)
<1>1. CASE UNCHANGED journal
  BY <1>1
<1>2. CASE DispatchOpening \/ DispatchSettling \/ Complete
  <2>1. PICK e : Advance(e)
    BY <1>2, OpeningEntry, SettlingEntry, CompletingEntry
  <2>2. /\ DOMAIN journal \subseteq DOMAIN journal'
        /\ \A i \in DOMAIN journal : journal'[i] = journal[i]
    BY <2>1, TypesGiven, JournalGrows
  <2> QED
    BY <2>2 DEF Journaled
<1>3. Start => UNCHANGED journal
  BY DEF Start
<1> QED
  BY <1>1, <1>2, <1>3, NextCases, QuietSteps DEF vars, dispatcherVars

\* Answers given before the step.
LEMMA AnswersStay ==
    ASSUME AnsweredIsDurable, \A g : Journaled(journal, g) => Journaled(journal', g),
           \A h \in Hooks : hook'[h].state = "accepted" => hook[h].state = "accepted"
    PROVE  AnsweredIsDurable'
<1>1. SUFFICES ASSUME NEW h \in Hooks, hook'[h].state = "accepted", NEW i \in DOMAIN Batch[h]
               PROVE  Journaled(journal', Batch[h][i])
  BY DEF AnsweredIsDurable, InState, Journaled
<1>2. Journaled(journal, Batch[h][i])
  BY <1>1 DEF AnsweredIsDurable, InState, Journaled
<1> QED
  BY <1>2

\* Steps that take no command and answer none.
LEMMA RecordedStays ==
    ASSUME Recorded, \A g : Journaled(journal, g) => Journaled(journal', g),
           \A h \in Hooks : hook'[h].state = "accepted" => hook[h].state = "accepted",
           pc' = "dispatching" => pc = "dispatching" /\ UNCHANGED <<command, rest>>
    PROVE  Recorded'
<1>1. AnsweredIsDurable'
  BY AnswersStay DEF Recorded
<1>2. ASSUME pc' = "dispatching" PROVE Accounted(journal', command'.hook, rest')
  BY <1>2 DEF Recorded, Accounted
<1> QED
  BY <1>1, <1>2 DEF Recorded

LEMMA DispatchRecords ==
    ASSUME Places, Standing, Handed, Recorded, DispatchOpening \/ DispatchSettling,
           \A g : Journaled(journal, g) => Journaled(journal', g)
    PROVE  Recorded'
<1>1. PICK e : Advance(e) /\ e.event \in SignalEvents /\ e.signal = Head(rest)
  BY OpeningEntry, SettlingEntry DEF SignalEvents
<1>2. Journaled(journal', Head(rest))
  <2>1. Last \in DOMAIN journal' /\ journal'[Last] = e
    BY <1>1, TypesGiven, JournalGrows
  <2> QED
    BY <1>1, <2>1 DEF Journaled
<1>3. /\ UNCHANGED <<hook, command>> /\ rest' = Tail(rest) /\ rest # <<>>
      /\ pc = "dispatching" /\ rest \in Seq(Signal)
  BY DEF DispatchOpening, DispatchSettling, handlerVars, Places, WorkerTypeOK
<1>4. Members(rest) = {Head(rest)} \cup Members(rest')
  BY <1>3, MembersTail
<1>5. AnsweredIsDurable'
  BY <1>3, AnswersStay DEF Recorded
<1>6. Accounted(journal', command.hook, rest')
  <2>1. SUFFICES ASSUME NEW i \in DOMAIN Batch[command.hook]
                 PROVE  \/ Journaled(journal', Batch[command.hook][i])
                        \/ Batch[command.hook][i] \in Members(rest')
    BY DEF Accounted
  <2>2. \/ Journaled(journal, Batch[command.hook][i])
        \/ Batch[command.hook][i] \in Members(rest)
    BY <1>3 DEF Recorded, Accounted
  <2> QED
    BY <1>2, <1>4, <2>2
<1> QED
  BY <1>3, <1>5, <1>6 DEF Recorded

LEMMA AcknowledgeRecords ==
    ASSUME Places, Recorded, Acknowledge
    PROVE  Recorded'
<1>1. /\ UNCHANGED journal /\ pc = "dispatching" /\ rest = <<>> /\ hook' = Answered(command)
      /\ pc' # "dispatching" /\ command.hook \in Hooks /\ hook \in [Hooks -> HandlerState]
  BY PlacesParts DEF Acknowledge, NextStage, dispatcherVars, InHand, Command, HandlerTypes
<1>2. ASSUME NEW h \in Hooks, hook'[h].state = "accepted", NEW i \in DOMAIN Batch[h]
      PROVE  Journaled(journal, Batch[h][i])
  <2>1. CASE hook[h].state = "accepted"
    BY <2>1 DEF Recorded, AnsweredIsDurable, InState, Journaled
  <2>2. CASE hook[h].state # "accepted"
    <3>1. h = command.hook
      BY <1>1, <1>2, <2>2 DEF Answered, Moved
    <3> QED
      BY <1>1, <3>1 DEF Recorded, Accounted, Members
  <2> QED
    BY <2>1, <2>2
<1>3. AnsweredIsDurable'
  BY <1>1, <1>2 DEF AnsweredIsDurable, InState, Journaled
<1> QED
  BY <1>1, <1>3 DEF Recorded

LEMMA RecordedKept ==
    ASSUME Places, Standing, Handed, Recorded, [Next]_vars
    PROVE  Recorded'
<1>0. /\ \A g : Journaled(journal, g) => Journaled(journal', g)
      /\ hook \in [Hooks -> HandlerState]
  BY JournalKeeps, PlacesParts DEF HandlerTypes
<1>1. CASE UNCHANGED <<hook, pc, command, rest>>
  BY <1>0, <1>1, RecordedStays
<1>2. ASSUME NEW h \in Hooks, Deliver(h) \/ Enqueue(h) \/ TimeOut(h) PROVE Recorded'
  <2>1. UNCHANGED <<pc, command, rest>>
    BY <1>2 DEF Deliver, Enqueue, TimeOut
  <2>2. ASSUME NEW x \in Hooks, hook'[x].state = "accepted" PROVE hook[x].state = "accepted"
    BY <1>0, <1>2, <2>2 DEF Deliver, Enqueue, TimeOut, Moved, HandlerState
  <2> QED
    BY <1>0, <2>1, <2>2, RecordedStays
<1>3. CASE Receive
  <2>1. /\ UNCHANGED hook /\ pc' = "dispatching" /\ rest' = Batch[command'.hook]
    BY <1>3 DEF Receive
  <2>2. AnsweredIsDurable'
    BY <1>0, <2>1, AnswersStay DEF Recorded
  <2>3. Accounted(journal', command'.hook, rest')
    BY <2>1 DEF Accounted, Members
  <2> QED
    BY <2>2, <2>3 DEF Recorded
<1>4. CASE Crash
  <2>1. ASSUME NEW x \in Hooks, hook'[x].state = "accepted" PROVE hook[x].state = "accepted"
    BY <1>0, <1>4, <2>1 DEF Crash, InState, HandlerState
  <2>2. pc' # "dispatching"
    BY <1>4 DEF Crash
  <2> QED
    BY <1>0, <2>1, <2>2, RecordedStays
<1>5. CASE Fail \/ Skip \/ Complete \/ Start \/ Tick \/ Drained
  <2>1. UNCHANGED hook /\ pc' # "dispatching"
    BY <1>5 DEF Fail, Skip, Complete, Start, Tick, Drained, NextStage, handlerVars
  <2> QED
    BY <1>0, <2>1, RecordedStays
<1>6. CASE Publish \/ PublishFails \/ Mark(TRUE) \/ Mark(FALSE)
  BY <1>1, <1>6 DEF Publish, PublishFails, Mark, handlerVars
<1> QED
  BY <1>0, <1>1, <1>2, <1>3, <1>4, <1>5, <1>6, NextCases, DispatchRecords, AcknowledgeRecords
     DEF vars, handlerVars, Quiet

-----------------------------------------------------------------------------
(* The incidents that were opened *)

LEMMA RecoveredGrow ==
    ASSUME MapTypes, NEW e, Advance(e)
    PROVE  RecoveredIncidents' =
               RecoveredIncidents \cup (IF e.event = "IncidentRecovered" THEN {e.id} ELSE {})
<1>1. /\ DOMAIN journal' = DOMAIN journal \cup {Last}
      /\ \A i \in DOMAIN journal : journal'[i] = journal[i]
      /\ journal'[Last] = e
  BY JournalGrows
<1> QED
  BY <1>1 DEF RecoveredIncidents

\* A key that a restart takes up.
Awaiting(k) == replayed[k].phase = "firing" /\ ~replayed[k].completed /\ Opened(k)

LEMMA PendingKey ==
    /\ \A k \in Keys : Awaiting(k) => Incident(k, replayed[k].episode) \in PendingInvestigations
    /\ \A id \in PendingInvestigations :
           \E k \in Keys : Awaiting(k) /\ id = Incident(k, replayed[k].episode)
  BY DEF PendingInvestigations, Awaiting

\* An entry leaves a pending incident pending, or is its completion or its recovery.
LEMMA PendingFollowed ==
    ASSUME Places, Standing, NEW e, Advance(e), NEW k \in Keys, Awaiting(k),
           e.event = "IncidentCompleted" /\ e.id.key = k => e.id.episode = replayed[k].episode
    PROVE  Incident(k, replayed[k].episode) \in
               (CompletedIncidents \cup RecoveredIncidents \cup PendingInvestigations)'
<1> DEFINE id == Incident(k, replayed[k].episode)
<1>1. Opened(k)'
  BY TypesGiven, JournalGrows DEF Awaiting, Opened
<1>2. CASE k # e.id.key
  <2>1. replayed'[k] = replayed[k]
    BY <1>2, MovedKey
  <2>2. id \in PendingInvestigations'
    BY <1>1, <2>1 DEF Awaiting, PendingInvestigations
  <2> QED
    BY <2>2
<1>3. CASE k = e.id.key
  <2>1. Moves(e, replayed[k], replayed'[k]) /\ e.id \in IncidentId
    BY <1>3, MovedKey, EntryForm
  <2>2. e.id.episode = replayed[k].episode => e.id = id
    BY <1>3, <2>1 DEF IncidentId, Incident
  <2>3. \/ /\ replayed'[k].phase = "firing" /\ replayed'[k].episode = replayed[k].episode
           /\ replayed'[k].completed => e.event = "IncidentCompleted"
        \/ e.event = "IncidentRecovered" /\ e.id.episode = replayed[k].episode
    BY <2>1 DEF Moves, Awaiting
  <2>4. CASE e.event = "IncidentCompleted"
    BY <1>3, <2>2, <2>4, TypesGiven, CompletedGrow
  <2>5. CASE e.event = "IncidentRecovered" /\ e.id.episode = replayed[k].episode
    BY <2>2, <2>5, TypesGiven, RecoveredGrow
  <2>6. CASE /\ replayed'[k].phase = "firing" /\ replayed'[k].episode = replayed[k].episode
             /\ ~replayed'[k].completed
    <3>1. id \in PendingInvestigations'
      BY <1>1, <2>6 DEF PendingInvestigations
    <3> QED
      BY <3>1
  <2> QED
    BY <2>3, <2>4, <2>5, <2>6
<1> QED
  BY <1>2, <1>3

\* An incident just opened is pending.
LEMMA OpenedPending ==
    ASSUME Places, Standing, NEW e, Advance(e), e.event = "IncidentOpened"
    PROVE  e.id \in PendingInvestigations'
<1>1. e \in JournalEvent /\ e.id.key \in Keys /\ e.id \in IncidentId
  BY MovedKey, EntryForm
<1> DEFINE k == e.id.key
<1>2. Moves(e, replayed[k], replayed'[k]) /\ WellLabelled(e)
  BY MovedKey
<1>3. /\ replayed'[k].phase = "firing" /\ ~replayed'[k].completed
      /\ replayed'[k].episode = e.id.episode
  BY <1>2 DEF Moves, WellLabelled, LifecycleEvents
<1>4. Opened(k)'
  BY TypesGiven, JournalGrows DEF Opened
<1>5. e.id = Incident(k, e.id.episode)
  BY <1>1 DEF IncidentId, Incident
<1> QED
  BY <1>1, <1>3, <1>4, <1>5 DEF PendingInvestigations

\* Any entry that completes the firing episode of its key, or none, loses no incident.
LEMMA EntryKeepsUnfinished ==
    ASSUME Places, Standing, UnfinishedIsPending, NEW e, Advance(e),
           e.event = "IncidentCompleted" /\ Awaiting(e.id.key) =>
               e.id.episode = replayed[e.id.key].episode
    PROVE  UnfinishedIsPending'
<1>1. /\ DOMAIN journal' = DOMAIN journal \cup {Last}
      /\ \A i \in DOMAIN journal : journal'[i] = journal[i]
      /\ journal'[Last] = e
  BY TypesGiven, JournalGrows
<1>2. SUFFICES ASSUME NEW i \in DOMAIN journal', journal'[i].event = "IncidentOpened"
               PROVE  journal'[i].id \in
                   CompletedIncidents' \cup RecoveredIncidents' \cup PendingInvestigations'
  BY DEF UnfinishedIsPending
<1>3. CASE i = Last
  BY <1>1, <1>2, <1>3, OpenedPending
<1>4. CASE i \in DOMAIN journal
  <2>1. journal'[i].id = journal[i].id
    BY <1>1, <1>4
  <2>2. journal[i].id \in CompletedIncidents \cup RecoveredIncidents \cup PendingInvestigations
    BY <1>1, <1>2, <1>4 DEF UnfinishedIsPending
  <2>3. CASE journal[i].id \in CompletedIncidents \cup RecoveredIncidents
    BY <2>1, <2>3, TypesGiven, CompletedGrow, RecoveredGrow
  <2>4. CASE journal[i].id \in PendingInvestigations
    <3>1. PICK k \in Keys : Awaiting(k) /\ journal[i].id = Incident(k, replayed[k].episode)
      BY <2>4, PendingKey
    <3> QED
      BY <2>1, <3>1, PendingFollowed
  <2> QED
    BY <2>2, <2>3, <2>4
<1> QED
  BY <1>1, <1>3, <1>4

\* The incidents in hand after a step that only takes the first.
LEMMA ShorterStaysCurrent ==
    ASSUME Places, Current, todo # <<>>, todo' = Tail(todo), UNCHANGED lifecycle
    PROVE  Current'
<1>1. \A i \in DOMAIN todo' : i + 1 \in DOMAIN todo /\ todo'[i] = todo[i + 1]
  BY MembersTail DEF Places, WorkerTypeOK
<1> QED
  BY <1>1 DEF Current

LEMMA OpeningCarries ==
    ASSUME Places, Standing, Handed, Carried, DispatchOpening
    PROVE  Carried'
<1>1. PICK g, e :
               /\ g \in Signal
               /\ g = Head(rest) /\ Advance(e) /\ Commit(e)
               /\ e.event = "IncidentOpened" /\ e.signal = g
               /\ e.id.key = g.key /\ e.id \in IncidentId
               /\ todo' = Append(todo, e.id)
  BY OpeningEntry
<1>2. /\ todo \in Seq(IncidentId) /\ rest \in Seq(Signal) /\ rest # <<>> /\ rest' = Tail(rest)
      /\ pc = "dispatching"
  BY DEF Places, WorkerTypeOK, DispatchOpening
<1>3. /\ DOMAIN todo' = DOMAIN todo \cup {Len(todo) + 1}
      /\ \A i \in DOMAIN todo : todo'[i] = todo[i] /\ todo[i] \in IncidentId
      /\ todo'[Len(todo) + 1] = e.id
  BY <1>1, <1>2, MembersAppend
<1>4. /\ g = rest[1] /\ 1 \in DOMAIN rest
      /\ \A i \in DOMAIN rest' : i \in Nat \ {0} /\ i + 1 \in DOMAIN rest /\ rest'[i] = rest[i + 1]
  BY <1>1, <1>2, MembersTail
<1>5. \A i \in DOMAIN todo : todo[i].key \in Keys /\ todo[i].key # g.key
  BY <1>2, <1>3, <1>4 DEF Carried, Apart, IncidentId
<1>6. UnfinishedIsPending'
  BY <1>1, EntryKeepsUnfinished DEF Carried
<1>7. Current'
  <2>1. ASSUME NEW i \in DOMAIN todo',
               lifecycle'[todo'[i].key].phase = "firing", ~lifecycle'[todo'[i].key].completed
        PROVE  lifecycle'[todo'[i].key].episode = todo'[i].episode
    <3>1. CASE i \in DOMAIN todo
      <4>1. todo'[i] = todo[i] /\ lifecycle'[todo[i].key] = lifecycle[todo[i].key]
        BY <1>1, <1>3, <1>5, <3>1 DEF Advance
      <4> QED
        BY <2>1, <3>1, <4>1 DEF Carried, Current
    <3>2. CASE i = Len(todo) + 1
      <4>1. g.key \in Keys /\ Moves(e, replayed[g.key], replayed'[g.key])
        BY <1>1, MovedKey
      <4>2. replayed'[g.key].episode = e.id.episode
        BY <1>1, <4>1 DEF Moves
      <4>3. lifecycle'[g.key] = replayed'[g.key]
        BY <1>1, <1>3, <2>1, <3>2, <4>1, MemoryForward
      <4> QED
        BY <1>1, <1>3, <3>2, <4>2, <4>3
    <3> QED
      BY <1>3, <3>1, <3>2
  <2> QED
    BY <2>1 DEF Current
<1>8. Apart'
  <2>1. ASSUME NEW i \in DOMAIN rest', NEW j \in DOMAIN rest', rest'[i].key = rest'[j].key
        PROVE  i = j
    <3>1. i + 1 = j + 1
      BY <1>2, <1>4, <2>1 DEF Carried, Apart
    <3> QED
      BY <1>4, <3>1
  <2>2. ASSUME NEW i \in DOMAIN todo', NEW j \in DOMAIN rest' PROVE todo'[i].key # rest'[j].key
    <3>1. CASE i \in DOMAIN todo
      BY <1>2, <1>3, <1>4, <3>1 DEF Carried, Apart
    <3>2. CASE i = Len(todo) + 1
      <4>1. j + 1 # 1 /\ j + 1 \in DOMAIN rest
        BY <1>4
      <4>2. rest[1].key # rest[j + 1].key
        BY <1>2, <1>4, <4>1 DEF Carried, Apart
      <4> QED
        BY <1>1, <1>3, <1>4, <3>2, <4>2
    <3> QED
      BY <1>3, <3>1, <3>2
  <2> QED
    BY <2>1, <2>2 DEF Apart
<1> QED
  BY <1>6, <1>7, <1>8 DEF Carried

LEMMA SettlingCarries ==
    ASSUME Places, Standing, Handed, Carried, DispatchSettling
    PROVE  Carried'
<1>1. PICK g, e :
               /\ g \in Signal
               /\ g = Head(rest) /\ Advance(e) /\ Commit(e)
               /\ e.event \in SignalEvents \ {"IncidentOpened"} /\ e.signal = g
               /\ e.id.key = g.key
  BY SettlingEntry
<1>2. /\ todo \in Seq(IncidentId) /\ rest \in Seq(Signal) /\ rest # <<>> /\ rest' = Tail(rest)
      /\ pc = "dispatching" /\ UNCHANGED todo
  BY DEF Places, WorkerTypeOK, DispatchSettling
<1>3. \A i \in DOMAIN todo : todo[i] \in IncidentId
  BY <1>2
<1>4. /\ g = rest[1] /\ 1 \in DOMAIN rest
      /\ \A i \in DOMAIN rest' : i \in Nat \ {0} /\ i + 1 \in DOMAIN rest /\ rest'[i] = rest[i + 1]
  BY <1>1, <1>2, MembersTail
<1>5. \A i \in DOMAIN todo : todo[i].key \in Keys /\ todo[i].key # g.key
  BY <1>2, <1>3, <1>4 DEF Carried, Apart, IncidentId
<1>6. UnfinishedIsPending'
  BY <1>1, EntryKeepsUnfinished DEF Carried, SignalEvents
<1>7. Current'
  <2>1. \A i \in DOMAIN todo : lifecycle'[todo[i].key] = lifecycle[todo[i].key]
    BY <1>1, <1>5 DEF Advance
  <2> QED
    BY <1>2, <2>1 DEF Current, Carried
<1>8. Apart'
  <2>1. ASSUME NEW i \in DOMAIN rest', NEW j \in DOMAIN rest', rest'[i].key = rest'[j].key
        PROVE  i = j
    <3>1. i + 1 = j + 1
      BY <1>2, <1>4, <2>1 DEF Carried, Apart
    <3> QED
      BY <1>4, <3>1
  <2>2. ASSUME NEW i \in DOMAIN todo', NEW j \in DOMAIN rest' PROVE todo'[i].key # rest'[j].key
    BY <1>2, <1>4 DEF Carried, Apart
  <2> QED
    BY <2>1, <2>2 DEF Apart
<1> QED
  BY <1>6, <1>7, <1>8 DEF Carried

LEMMA CompleteCarries ==
    ASSUME Places, Standing, Handed, Carried, Complete
    PROVE  Carried'
<1>1. PICK id, e :
               /\ id \in IncidentId
               /\ todo # <<>> /\ id = Head(todo) /\ Advance(e) /\ Commit(e)
               /\ e.event = "IncidentCompleted" /\ e.id = id
  BY CompletingEntry
<1>2. todo \in Seq(IncidentId) /\ todo' = Tail(todo) /\ pc' = "draining"
  BY DEF Places, WorkerTypeOK, Complete
<1>3. /\ id = todo[1] /\ 1 \in DOMAIN todo
      /\ \A i \in DOMAIN todo' : i + 1 \in DOMAIN todo /\ todo'[i] = todo[i + 1]
  BY <1>1, <1>2, MembersTail
<1>4. \A i \in DOMAIN todo : todo[i] \in IncidentId
  BY <1>2
<1>5. UnfinishedIsPending'
  <2>1. ASSUME Awaiting(id.key) PROVE id.episode = replayed[id.key].episode
    <3>1. id.key \in Keys
      BY <1>1 DEF IncidentId
    <3>2. lifecycle[id.key] = replayed[id.key]
      BY <1>1, <2>1, <3>1, MemoryForward DEF Awaiting
    <3> QED
      BY <1>3, <2>1, <3>2 DEF Carried, Current, Awaiting
  <2> QED
    BY <1>1, <2>1, EntryKeepsUnfinished DEF Carried
<1>6. Current'
  <2>1. SUFFICES ASSUME NEW i \in DOMAIN todo', lifecycle'[todo'[i].key].phase = "firing",
                        ~lifecycle'[todo'[i].key].completed
                 PROVE  lifecycle'[todo'[i].key].episode = todo'[i].episode
    BY DEF Current
  <2> DEFINE k == todo[i + 1].key
  <2>2. k \in Keys
    BY <1>3, <1>4 DEF IncidentId
  <2>3. CASE k = id.key
    <3>1. lifecycle'[k] = replayed'[k]
      BY <1>1, <1>3, <2>1, <2>2, MemoryForward
    <3>2. Moves(e, replayed[k], replayed'[k])
      BY <1>1, <2>3, MovedKey
    <3> QED
      BY <1>1, <1>3, <2>1, <3>1, <3>2 DEF Moves
  <2>4. CASE k # id.key
    <3>1. lifecycle'[k] = lifecycle[k]
      BY <1>1, <2>2, <2>4 DEF Advance
    <3> QED
      BY <1>3, <2>1, <3>1 DEF Carried, Current
  <2> QED
    BY <2>3, <2>4
<1>7. Apart'
  BY <1>2 DEF Apart
<1> QED
  BY <1>5, <1>6, <1>7 DEF Carried

LEMMA UnfinishedStays ==
    ASSUME UnfinishedIsPending, UNCHANGED <<journal, replayed>>
    PROVE  UnfinishedIsPending'
  BY DEF UnfinishedIsPending, CompletedIncidents, RecoveredIncidents, PendingInvestigations,
     Opened

LEMMA CarriedKept ==
    ASSUME DistinctAlerts, Places, Standing, Handed, Carried, [Next]_vars
    PROVE  Carried'
<1>1. CASE UNCHANGED <<lifecycle, journal, replayed, todo, pc, rest>>
  BY <1>1, UnfinishedStays DEF Carried, Current, Apart
<1>2. CASE UNCHANGED <<lifecycle, journal, replayed, todo>> /\ pc' # "dispatching"
  BY <1>2, UnfinishedStays DEF Carried, Current, Apart
<1>3. CASE Fail \/ Skip
  <2>1. /\ UNCHANGED <<lifecycle, journal, replayed>> /\ todo' = Tail(todo) /\ todo # <<>>
        /\ pc' # "dispatching"
    BY <1>3 DEF Fail, Skip, NextStage, dispatcherVars, Places
  <2> QED
    BY <2>1, UnfinishedStays, ShorterStaysCurrent DEF Carried, Apart
<1>4. CASE Receive
  <2>1. /\ UNCHANGED <<lifecycle, journal, replayed, todo>> /\ todo = <<>>
        /\ rest' = Batch[Head(queue).hook] /\ queue # <<>> /\ queue \in Seq(Command)
    BY <1>4 DEF Receive, dispatcherVars, Places, WorkerTypeOK
  <2>2. Head(queue).hook \in Hooks
    <3>1. Head(queue) \in Command
      BY <2>1, MembersTail
    <3> QED
      BY <3>1 DEF Command
  <2>3. \A i, j \in DOMAIN rest' : rest'[i].key = rest'[j].key => i = j
    BY <2>1, <2>2 DEF DistinctAlerts
  <2> QED
    BY <2>1, <2>3, UnfinishedStays DEF Carried, Current, Apart
<1>5. CASE Crash
  <2>1. UNCHANGED <<journal, replayed>> /\ todo' = <<>> /\ pc' = "down"
    BY <1>5 DEF Crash, dispatcherVars
  <2> QED
    BY <2>1, UnfinishedStays DEF Carried, Current, Apart
<1>6. CASE Start
  <2>1. UNCHANGED <<journal, replayed>> /\ pc' = "draining"
    BY <1>6 DEF Start
  <2>2. Current'
    BY <1>6, RestartTakes DEF Current
  <2> QED
    BY <2>1, <2>2, UnfinishedStays DEF Carried, Apart
<1>7. CASE Quiet
  <2>1. CASE \E h \in Hooks : Deliver(h) \/ Enqueue(h) \/ TimeOut(h)
    BY <1>1, <2>1 DEF Deliver, Enqueue, TimeOut, dispatcherVars
  <2>2. CASE Acknowledge \/ Tick \/ Drained
    BY <1>2, <2>2 DEF Acknowledge, Tick, Drained, NextStage, dispatcherVars
  <2>3. CASE Publish \/ PublishFails \/ Mark(TRUE) \/ Mark(FALSE)
    BY <1>1, <2>3 DEF Publish, PublishFails, Mark, dispatcherVars
  <2> QED
    BY <1>3, <1>4, <1>5, <1>7, <2>1, <2>2, <2>3 DEF Quiet
<1> QED
  BY <1>1, <1>6, <1>7, NextCases, OpeningCarries, SettlingCarries, CompleteCarries
     DEF vars, dispatcherVars

-----------------------------------------------------------------------------
(* The theorems *)

LEMMA InitHolds == Init => WorkerInv /\ Carried
<1> SUFFICES ASSUME Init PROVE WorkerInv /\ Carried
  OBVIOUS
<1>1. /\ journal = <<>> /\ todo = <<>> /\ outbox = <<>> /\ sending = <<>> /\ queue = <<>>
      /\ rest = <<>> /\ command = <<>> /\ pc = "down" /\ crashes = 0
      /\ setAside = {} /\ delivered = {} /\ published = {} /\ received = {}
      /\ lifecycle = [k \in Keys |-> Absent] /\ replayed = [k \in Keys |-> Absent]
      /\ hook = [h \in Hooks |-> [state |-> "unsent", attempt |-> 0]]
  BY DEF Init, DispatcherInit, NothingReplayed
<1>2. MapTypes
  BY <1>1, StateForms DEF MapTypes
<1>3. HandlerTypes
  <2>1. \A h \in Hooks : 0 \in Attempts
    BY WorkerBounds DEF Attempts
  <2>2. hook \in [Hooks -> HandlerState]
    BY <1>1, <2>1 DEF HandlerState
  <2> QED
    BY <1>1, <2>2, WorkerBounds DEF HandlerTypes
<1>4. OwnerTypes /\ OutboxTypes /\ InHand /\ crashes \in 0 .. MaxCrashes
      /\ Len(journal) <= MaxJournal
  BY <1>1, WorkerBounds, JournalAssumption DEF OwnerTypes, OutboxTypes, InHand, Members
<1>5. Places
  BY <1>2, <1>3, <1>4, PlacesParts
<1>6. Standing
  <2>1. \A k \in Keys : lifecycle[k] = Absent /\ replayed[k] = Absent
    BY <1>1
  <2>2. Absent.phase = "absent" /\ EpisodeOf(Absent) = 0 /\ Len(journal) = 0
    BY <1>1, StateForms DEF EpisodeOf
  <2> QED
    BY <2>1, <2>2 DEF Standing, Agreement, Agree
<1>7. Members(<<>>) = {} /\ CompletedIncidents = {}
  BY <1>1 DEF Members, CompletedIncidents
<1>8. Handed /\ Mailed /\ Carried
  BY <1>1, <1>7 DEF Handed, Mailed, Carried, CompletionCarriesNotice, MarkedIsReceived,
     UnfinishedIsPending, Current, Apart
<1>9. Recorded
  BY <1>1 DEF Recorded, AnsweredIsDurable, InState
<1> QED
  BY <1>5, <1>6, <1>8, <1>9 DEF WorkerInv

\* The invariant holds of the incident owner: serve_until with its handlers and its
\* outbox, across crashes.
THEOREM WorkerInvariant == Spec => []WorkerInv
<1>1. WorkerInv /\ [Next]_vars => WorkerInv'
  BY PlacesKept, StandingKept, HandedKept, MailedKept, RecordedKept DEF WorkerInv
<1> QED
  BY <1>1, InitHolds, PTL DEF Spec

\* Handlers, owner and outbox keep their types, and the intake channel its capacity.
THEOREM WorkerTypesHold == Spec => []WorkerTypeOK
<1>1. WorkerInv => WorkerTypeOK
  BY DEF WorkerInv, Places
<1> QED
  BY <1>1, WorkerInvariant, PTL

\* What was answered 202 is in the journal: serve_until answers after process_new has
\* committed every alert, and no crash undoes a commit.
THEOREM AnsweredStaysDurable == Spec => []AnsweredIsDurable
<1>1. WorkerInv => AnsweredIsDurable
  BY DEF WorkerInv, Recorded
<1> QED
  BY <1>1, WorkerInvariant, PTL

\* pending_investigations takes up every opened incident that has neither completed nor
\* recovered, although mark_completed marks whatever episode is firing: if no delivery
\* names an alert twice, the incident it completes is that episode.
THEOREM NoIncidentLost == DistinctAlerts => (Spec => []UnfinishedIsPending)
<1> SUFFICES ASSUME DistinctAlerts PROVE Spec => []UnfinishedIsPending
  OBVIOUS
<1>1. WorkerInv /\ Carried /\ [Next]_vars => Carried'
  BY CarriedKept DEF WorkerInv
<1>2. Carried => UnfinishedIsPending
  BY DEF Carried
<1> QED
  BY <1>1, <1>2, InitHolds, WorkerInvariant, PTL DEF Spec

\* One notification for each completion, and none without one (append_with_outbox_and_report).
THEOREM NoticePerCompletion == Spec => []CompletionCarriesNotice
<1>1. WorkerInv => CompletionCarriesNotice
  BY DEF WorkerInv, Mailed
<1> QED
  BY <1>1, WorkerInvariant, PTL

\* drain_outbox marks only what ntfy has accepted.
THEOREM MarkedWasReceived == Spec => []MarkedIsReceived
<1>1. WorkerInv => MarkedIsReceived
  BY DEF WorkerInv, Mailed
<1> QED
  BY <1>1, WorkerInvariant, PTL

-----------------------------------------------------------------------------
(* Refinement *)

\* The data of the dispatcher is the same on both sides.
LEMMA SeenData ==
    /\ Dispatch!Absent = Absent
    /\ \A k, n : Dispatch!Incident(k, n) = Incident(k, n)
    /\ \A n, b, t : Dispatch!Firing(n, b, t) = Firing(n, b, t)
    /\ \A n, t : Dispatch!Resolved(n, t) = Resolved(n, t)
    /\ \A ev, id, g : Dispatch!Fact(ev, id, g) = Fact(ev, id, g)
    /\ \A s : Dispatch!EpisodeOf(s) = EpisodeOf(s)
    /\ \A s : Dispatch!Closed(s) <=> Closed(s)
    /\ Dispatch!Signal = Signal
  BY DEF Dispatch!Absent, Dispatch!Incident, Dispatch!Firing, Dispatch!Resolved, Dispatch!Fact,
     Dispatch!EpisodeOf, Dispatch!Closed, Dispatch!Signal, Absent, Incident, Firing, Resolved,
     Fact, EpisodeOf, Closed, Signal

LEMMA SeenCommit == \A e : Commit(e) => Dispatch!Commit(e)
<1>1. \A m, e : Dispatch!ReplayEntry(m, e) = ReplayEntry(m, e)
  BY DEF Dispatch!ReplayEntry, ReplayEntry, Dispatch!Firing, Firing, Dispatch!Resolved, Resolved
<1> QED
  BY <1>1 DEF Dispatch!Commit, Commit

LEMMA SeenPending == Dispatch!PendingInvestigations = PendingInvestigations
  BY DEF Dispatch!PendingInvestigations, PendingInvestigations, Dispatch!Opened, Opened,
     Dispatch!Incident, Incident

\* While the process runs, the conditions of process_one are the same.
LEMMA SeenGuards ==
    ASSUME pc # "down", NEW g
    PROVE  /\ Dispatch!Stale(g) <=> Stale(g)
           /\ Dispatch!Repeats(g) <=> Repeats(g)
           /\ Dispatch!NextIncident(g) = NextIncident(g)
  BY SeenData DEF Dispatch!Stale, Stale, Dispatch!Repeats, Repeats, Dispatch!NextIncident,
     NextIncident

LEMMA OpeningRefines ==
    ASSUME Places, DispatchOpening
    PROVE  Dispatch!Next
<1> DEFINE g == Head(rest)
<1>1. /\ pc # "down" /\ pc' # "down" /\ StartsEpisode(g)
      /\ todo' = Append(todo, NextIncident(g)) /\ rest \in Seq(Signal) /\ rest # <<>>
      /\ todo \in Seq(IncidentId)
  BY DEF DispatchOpening, Places, WorkerTypeOK
<1>2. g \in Signal
  BY <1>1, MembersTail
<1> HIDE DEF g
<1>3. Dispatch!StartsEpisode(g)
  BY <1>1, SeenGuards, SeenData, SeenCommit DEF StartsEpisode, Dispatch!StartsEpisode
<1>4. Members(todo') = Members(todo) \cup {NextIncident(g)}
  <2>1. PICK S : todo \in Seq(S) /\ NextIncident(g) \in S
    <3>1. todo \in Seq(IncidentId \cup {NextIncident(g)})
      BY <1>1
    <3> QED
      BY <3>1
  <2> QED
    BY <1>1, <2>1, MembersAppend
<1>5. Dispatch!ProcessOpening(g)
  BY <1>1, <1>3, <1>4, SeenGuards DEF Dispatch!ProcessOpening
<1> QED
  BY <1>2, <1>5, SeenData DEF Dispatch!Next

LEMMA SettlingRefines ==
    ASSUME Places, DispatchSettling
    PROVE  Dispatch!Next
<1> DEFINE g == Head(rest)
<1>1. /\ pc # "down" /\ pc' # "down" /\ Settles(g) /\ UNCHANGED todo
      /\ rest \in Seq(Signal) /\ rest # <<>>
  BY DEF DispatchSettling, Places, WorkerTypeOK
<1>2. g \in Signal
  BY <1>1, MembersTail
<1> HIDE DEF g
<1>3. Dispatch!Settles(g)
  <2>1. RejectStale(g) => Dispatch!RejectStale(g)
    BY <1>1, SeenGuards, SeenData, SeenCommit DEF RejectStale, Dispatch!RejectStale
  <2>2. SuppressRepeat(g) => Dispatch!SuppressRepeat(g)
    BY <1>1, SeenGuards, SeenData, SeenCommit DEF SuppressRepeat, Dispatch!SuppressRepeat
  <2>3. AbsorbRecovery(g) => Dispatch!AbsorbRecovery(g)
    BY <1>1, SeenGuards, SeenData, SeenCommit DEF AbsorbRecovery, Dispatch!AbsorbRecovery
  <2>4. Resume(g) => Dispatch!Resume(g)
    BY <1>1, SeenGuards, SeenData, SeenCommit DEF Resume, Dispatch!Resume
  <2>5. Recover(g) => Dispatch!Recover(g)
    BY <1>1, SeenGuards, SeenData, SeenCommit DEF Recover, Dispatch!Recover
  <2>6. RecoverUnknown(g) => Dispatch!RecoverUnknown(g)
    BY <1>1, SeenGuards, SeenData, SeenCommit DEF RecoverUnknown, Dispatch!RecoverUnknown
  <2> QED
    BY <1>1, <2>1, <2>2, <2>3, <2>4, <2>5, <2>6 DEF Settles, Dispatch!Settles
<1>4. Dispatch!ProcessSettling(g)
  BY <1>1, <1>3 DEF Dispatch!ProcessSettling, Members
<1> QED
  BY <1>2, <1>4, SeenData DEF Dispatch!Next

LEMMA CompleteRefines ==
    ASSUME Places, Handed, Complete
    PROVE  Dispatch!Next
<1> DEFINE id == Head(todo)
<1>1. /\ pc # "down" /\ pc' # "down" /\ MarkCompleted(id) /\ todo' = Tail(todo)
      /\ todo \in Seq(IncidentId) /\ todo # <<>>
  BY DEF Complete, Places, WorkerTypeOK
<1>2. /\ id \in Members(todo)
      /\ Members(todo') = Members(todo) \ {id}
  BY <1>1, MembersTail, DistinctTail DEF Handed
<1> HIDE DEF id
<1>3. Dispatch!MarkCompleted(id)
  BY <1>1, SeenData, SeenCommit DEF MarkCompleted, Dispatch!MarkCompleted
<1>4. Dispatch!Complete(id)
  BY <1>1, <1>2, <1>3 DEF Dispatch!Complete
<1> QED
  BY <1>1, <1>2, <1>4 DEF Dispatch!Next

LEMMA GivingUpRefines ==
    ASSUME Places, Handed, Fail \/ Skip
    PROVE  Dispatch!Next
<1> DEFINE id == Head(todo)
<1>1. /\ pc # "down" /\ pc' # "down" /\ UNCHANGED dispatcherVars /\ todo' = Tail(todo)
      /\ todo \in Seq(IncidentId) /\ todo # <<>>
  BY DEF Fail, Skip, NextStage, Places, WorkerTypeOK
<1>2. /\ id \in Members(todo)
      /\ Members(todo') = Members(todo) \ {id}
  BY <1>1, MembersTail, DistinctTail DEF Handed
<1> HIDE DEF id
<1>3. Dispatch!GiveUp(id)
  BY <1>1, <1>2 DEF Dispatch!GiveUp, Dispatch!dispatcherVars, dispatcherVars
<1> QED
  BY <1>1, <1>2, <1>3 DEF Dispatch!Next

\* The process ends, and what it leaves is what the next one starts from.
LEMMA CrashRefines ==
    ASSUME Crash
    PROVE  Dispatch!Next
<1>1. pc' = "down" /\ UNCHANGED <<lifecycle, journal, replayed>>
  BY DEF Crash, dispatcherVars
<1>2. PendingInvestigations' = PendingInvestigations
  BY <1>1 DEF PendingInvestigations, Opened
<1>3. Dispatch!Restart
  BY <1>1, <1>2, SeenPending DEF Dispatch!Restart
<1> QED
  BY <1>3 DEF Dispatch!Next

\* The next process finds it.
LEMMA StartStutters ==
    ASSUME Places, Start
    PROVE  UNCHANGED Dispatch!vars
<1>1. /\ pc = "down" /\ pc' = "draining" /\ lifecycle' = replayed
      /\ UNCHANGED <<journal, replayed>> /\ todo' \in Orders(PendingInvestigations)
  BY DEF Start
<1>2. Members(todo') = PendingInvestigations
  BY <1>1, TypesGiven, PendingForm, OrdersForm
<1> QED
  BY <1>1, <1>2 DEF Dispatch!vars

\* What concerns handlers and outbox is nothing to the dispatcher.
LEMMA OtherStutters ==
    ASSUME UNCHANGED <<lifecycle, journal, replayed, todo>>, pc # "down", pc' # "down"
    PROVE  UNCHANGED Dispatch!vars
  BY DEF Dispatch!vars, Members

LEMMA StutterStutters ==
    ASSUME UNCHANGED <<lifecycle, journal, replayed, todo, pc>>
    PROVE  UNCHANGED Dispatch!vars
<1>1. PendingInvestigations' = PendingInvestigations
  BY DEF PendingInvestigations, Opened
<1> QED
  BY <1>1 DEF Dispatch!vars, Members

LEMMA DispatchInit == Init => Dispatch!Init
<1> SUFFICES ASSUME Init PROVE Dispatch!Init
  OBVIOUS
<1>1. /\ pc = "down" /\ journal = <<>> /\ replayed = NothingReplayed
  BY DEF Init, DispatcherInit
<1>2. PendingInvestigations = {}
  BY <1>1 DEF PendingInvestigations, Opened
<1> QED
  BY <1>1, <1>2 DEF Dispatch!Init, Dispatch!DispatcherInit, Dispatch!NothingReplayed,
     NothingReplayed, Dispatch!Absent, Absent

LEMMA DispatchStep ==
    ASSUME WorkerInv, [Next]_vars
    PROVE  [Dispatch!Next]_(Dispatch!vars)
<1>0. Places /\ Handed
  BY DEF WorkerInv
<1>1. CASE UNCHANGED <<lifecycle, journal, replayed, todo, pc>>
  BY <1>1, StutterStutters
<1>2. CASE Receive \/ Acknowledge \/ Tick \/ Drained
  <2>1. UNCHANGED <<lifecycle, journal, replayed, todo>> /\ pc # "down" /\ pc' # "down"
    BY <1>2 DEF Receive, Acknowledge, Tick, Drained, NextStage, dispatcherVars
  <2> QED
    BY <2>1, OtherStutters
<1>3. CASE Publish \/ PublishFails \/ Mark(TRUE) \/ Mark(FALSE)
  BY <1>1, <1>3 DEF Publish, PublishFails, Mark, dispatcherVars
<1>4. CASE \E h \in Hooks : Deliver(h) \/ Enqueue(h) \/ TimeOut(h)
  BY <1>1, <1>4 DEF Deliver, Enqueue, TimeOut, dispatcherVars
<1>5. CASE Quiet
  BY <1>0, <1>2, <1>3, <1>4, <1>5, GivingUpRefines, CrashRefines DEF Quiet
<1> QED
  BY <1>0, <1>1, <1>5, NextCases, OpeningRefines, SettlingRefines, CompleteRefines, StartStutters
     DEF vars, dispatcherVars

\* The incident owner implements IncidentDispatch: whatever it does, restarts included, is
\* what the dispatcher expects of a caller, so the theorems of IncidentDispatch hold in it.
THEOREM WorkerRefinesDispatch == Spec => ImplementsDispatch
  BY DispatchInit, DispatchStep, WorkerInvariant, PTL DEF Spec, ImplementsDispatch, Dispatch!Spec

=============================================================================
