--------------------------- MODULE RepairContract ---------------------------
(***************************************************************************)
(* What manual repair promises: an incident has at most one automatic      *)
(* validation attempt, whatever restarts and recoveries come between; a    *)
(* request is sent only once it is recorded, an artifact is offered only   *)
(* for an answered request, and once, and picked up only when offered.     *)
(***************************************************************************)
CONSTANT IncidentOf(_)    \* the incident of a request or of an artifact offered

VARIABLES
    reserved, sent, answered,   \* requests
    offered, acknowledged       \* artifacts

vars == <<reserved, sent, answered, offered, acknowledged>>

Init ==
    /\ reserved = {} /\ sent = {} /\ answered = {}
    /\ offered = {} /\ acknowledged = {}

Reserve(q) ==
    /\ \A p \in reserved : IncidentOf(p) # IncidentOf(q)
    /\ reserved' = reserved \cup {q}
    /\ UNCHANGED <<sent, answered, offered, acknowledged>>

Send(q) ==
    /\ q \in reserved \ sent
    /\ sent' = sent \cup {q}
    /\ UNCHANGED <<reserved, answered, offered, acknowledged>>

Answer(q) ==
    /\ q \in sent \ answered
    /\ answered' = answered \cup {q}
    /\ UNCHANGED <<reserved, sent, offered, acknowledged>>

Offer(h) ==
    /\ \E q \in answered : IncidentOf(q) = IncidentOf(h)
    /\ \A g \in offered : IncidentOf(g) # IncidentOf(h)
    /\ offered' = offered \cup {h}
    /\ UNCHANGED <<reserved, sent, answered, acknowledged>>

Acknowledge(h) ==
    /\ h \in offered \ acknowledged
    /\ acknowledged' = acknowledged \cup {h}
    /\ UNCHANGED <<reserved, sent, answered, offered>>

Next ==
    \/ \E q \in reserved' : Reserve(q) \/ Send(q) \/ Answer(q)
    \/ \E h \in offered' : Offer(h) \/ Acknowledge(h)

Spec == Init /\ [][Next]_vars

=============================================================================
