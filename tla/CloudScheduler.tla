---------------------------- MODULE CloudScheduler ----------------------------
(***************************************************************************)
(* The cloud's download scheduler (src/cloud/DownloadManager.py and          *)
(* EdgeDownloadAssignment.py, with DownloadDispatcher.py and the request     *)
(* handlers of CVCloudServer.py).                                           *)
(*                                                                         *)
(* For the contacts a trip makes with edge nodes, in order, the cloud       *)
(*   picks the segments the radio can deliver during the contact,           *)
(*   asks its oracle where the node should fetch each of them,              *)
(*   keeps those the node's backhaul can fetch before the vehicle arrives,  *)
(*   offers them to the node, which commits to a prefix, and                *)
(*   books what was committed; the rest goes to the next contact.           *)
(*                                                                         *)
(* The handlers never await, so that one request is handled at a time; what *)
(* happens between an offer and its answer happens at the nodes.            *)
(* A video is its list of segments 1..VideoLength, one second each.         *)
(***************************************************************************)
EXTENDS Integers, Sequences, SequencesExt, FiniteSets, FiniteSetsExt, CloudNodes

CONSTANTS
    Default,        \* defaultSource: the origin server
    Routes,         \* requests, each under a token of its own
    Trip,           \* per request: playback start, timestamp and contacts
    VideoLength,    \* number of segments
    Offset,         \* bytes before and including each segment
    TimePerByte,    \* per node and source, the time its backhaul needs
    ShareMode,      \* Bench2Mode
    BookKeeping,    \* BookKeepingMode
    MaxClients      \* max_client_per_node

Segments == 1..VideoLength
Sources == Configured \cup {Default}
Contacts == UNION {ToSet(Trip[r].contacts) : r \in Routes}

ASSUME CloudAssumption ==
    /\ Default \notin Nodes
    /\ VideoLength \in Nat /\ MaxClients \in Nat
    /\ Offset \in [0..VideoLength -> Nat]
    /\ \A s \in Segments : Offset[s - 1] < Offset[s]
    /\ TimePerByte \in [Configured -> [Sources -> Nat \ {0}]]
    /\ Nodes \cap Segments = {}
    /\ \A r \in Routes :
          /\ Trip[r].start \in Nat /\ Trip[r].timestamp \in Nat
          /\ Trip[r].contacts \in
                 Seq([node : Nodes, arrival : Nat, duration : Nat, bytes : Nat])
          \* One contact ends before the next begins.
          /\ \A i, j \in DOMAIN Trip[r].contacts :
                i < j => LET c == Trip[r].contacts[i]
                         IN  c.arrival + c.duration <= Trip[r].contacts[j].arrival

VARIABLES
    handled,        \* requests received
    handling,       \* the one being handled
    contacts,       \* routeInfos: per token, the contacts that serve it
    schedule,       \* per node, the downloads booked on its backhaul
    busyUntil,      \* per node, max_dlc_time
    segmentMap,     \* oracle: the nodes believed to hold each segment
    neighbours,     \* oracle: per node, the nodes of routes through it
    promised,       \* what nodes agreed to hold for a contact
    forwarded       \* missed segments passed on, and the contact that missed them

vars == <<handled, handling, contacts, schedule, busyUntil, segmentMap,
          neighbours, promised, forwarded>>

NoRequest == [step |-> "idle"]
Booking == [start : Nat, finish : Nat, arrival : Nat]

Init ==
    /\ handled = {} /\ handling = NoRequest
    /\ contacts = [r \in Routes |-> <<>>]
    /\ schedule = [n \in Configured |-> <<>>]
    /\ busyUntil = [n \in Configured |-> 0]
    /\ segmentMap = [s \in Segments |-> {}]
    /\ neighbours = [n \in Configured |-> {}]
    /\ promised = {} /\ forwarded = {}

Size(s) == Offset[s] - Offset[s - 1]

-----------------------------------------------------------------------------
(* EdgeDownloadAssignment: one node's backhaul as the cloud sees it.       *)

\* What candidate k (its segment, source and deadline) takes to fetch.
SegmentTime(n, k) == Size(k.segment) * TimePerByte[n][k.source]

\* add, first half: drop the downloads that ended before the request was made.
Live(n, now) == {s \in DOMAIN schedule[n] : schedule[n][s].finish >= now}

\* Mistakes: start at once; start without regard to max_dlc_time.
StartWhenRequested(n, now) == now
StartAfterLive(n, now) == Max({0} \cup {schedule[n][s].finish : s \in Live(n, now)})

\* Where k would go: after all the downloads left.
Start(n, now) == Max({busyUntil[n]} \cup {schedule[n][s].finish : s \in Live(n, now)})
Finish(n, k, now) == Start(n, now) + SegmentTime(n, k)
InTime(n, k, now) == Finish(n, k, now) < k.arrival

\* add: book k if it can be fetched before the vehicle arrives.
Add(n, k, now) ==
    /\ schedule' = [schedule EXCEPT ![n] =
           [s \in Live(n, now) \cup (IF InTime(n, k, now) THEN {k.segment} ELSE {}) |->
               IF s = k.segment /\ InTime(n, k, now)
               THEN [start |-> Start(n, now), finish |-> Finish(n, k, now), arrival |-> k.arrival]
               ELSE @[s]]]
    /\ busyUntil' = IF InTime(n, k, now) THEN [busyUntil EXCEPT ![n] = Finish(n, k, now)]
                    ELSE busyUntil

\* isDownloadPossible: `count` is the number of leading candidates that can be
\* fetched in time, one after the other, from when the downloads due before
\* `deadline` are over.
IsDownloadPossible(n, deadline, cs, count) ==
    LET due == {s \in DOMAIN schedule[n] : schedule[n][s].finish < deadline}
        ready[i \in 0..Len(cs)] ==
            IF i = 0 THEN Max({0} \cup {schedule[n][s].finish : s \in due})
            ELSE ready[i - 1] + SegmentTime(n, cs[i])
    IN  /\ \A i \in 1..count : ready[i] < cs[i].arrival
        /\ count < Len(cs) => ready[count + 1] >= cs[count + 1].arrival

-----------------------------------------------------------------------------
(* Oracle: where a node should fetch a segment from.                       *)

\* findOptimalSourceNode: the nodes it may answer, or the origin.
OptimalSources(s, n, order) ==
    LET holders == segmentMap[s]
        among == CASE n \in holders \/ ShareMode = "local" -> {n}
                   [] ShareMode = "all2all" -> holders
                   [] ShareMode = "curRouteNbr" -> holders \cap order
                   [] ShareMode = "allRouteNbr" -> holders \cap (neighbours[n] \cup order)
                   [] OTHER -> {}
    IN  IF among = {} THEN {Default} ELSE among

\* remove: what is looked for among the segments is the node.
OracleRemove(n, s) ==
    IF n \in DOMAIN segmentMap THEN segmentMap[s] \ {n} ELSE segmentMap[s]

\* update, which the dispatcher calls with each reply when bookkeeping is tracking.
OracleUpdate(n, evicted) ==
    [s \in Segments |-> IF BookKeeping = "tracking" /\ s \in evicted
                        THEN OracleRemove(n, s) ELSE segmentMap[s]]

-----------------------------------------------------------------------------
(* getDownloadAssignment.                                                  *)

Overlap(c, d) ==
    /\ c.arrival < d.arrival + d.duration
    /\ c.arrival + c.duration > d.arrival

\* has_overlap: enough contacts are being served at the same time as c.
HasOverlap(c) ==
    Cardinality({p \in UNION {{r} \X DOMAIN contacts[r] : r \in Routes} :
                    Overlap(c, contacts[p[1]][p[2]])}) >= MaxClients

\* Start with the contacts that are not overbooked.
HandleVideoRequest(r) ==
    /\ handling = NoRequest /\ r \notin handled
    /\ handled' = handled \cup {r}
    /\ contacts' = [contacts EXCEPT ![r] = <<>>]
    /\ handling' = [step |-> "contact", route |-> r, now |-> Trip[r].timestamp,
                    at |-> 1, next |-> 0,
                    open |-> {i \in DOMAIN Trip[r].contacts : ~HasOverlap(Trip[r].contacts[i])},
                    assigned |-> [n \in Configured |-> {}]]
    /\ UNCHANGED <<schedule, busyUntil, segmentMap, neighbours, promised, forwarded>>

CurrentContact == Trip[handling.route].contacts[handling.at]
\* A mistake: the contacts themselves are taken for their nodes.
RouteContacts == {Trip[handling.route].contacts[i] : i \in handling.open}

RouteNodes == {Trip[handling.route].contacts[i].node : i \in handling.open}

\* `count` segments from `first` (0-based) on fit in the bytes of contact c.
FitInContact(first, c, count) ==
    /\ count > 0 => /\ first + count <= VideoLength
                    /\ Offset[first + count] - Offset[first] <= c.bytes
    /\ first + count < VideoLength => Offset[first + count + 1] - Offset[first] > c.bytes

\* One round of the loop over the contacts, up to the offer.  The oracle takes
\* the node for a holder of all that fits.  When the backhaul is too busy for any
\* of it, nothing is offered and the segments are not given to the next contact.
Offer ==
    /\ handling.step = "contact" /\ handling.at \in handling.open
    /\ CurrentContact.node \in Configured
    /\ handling.next # VideoLength
    /\ LET n == CurrentContact.node
           playback == CurrentContact.arrival - Trip[handling.route].start
           first == IF handling.next < playback THEN playback ELSE handling.next
       IN  \E fit, count \in 0..VideoLength :
           /\ FitInContact(first, CurrentContact, fit)
           /\ \E source \in [1..fit -> Sources] :
                /\ \A i \in 1..fit : source[i] \in OptimalSources(first + i, n, RouteNodes)
                /\ LET tentative == [i \in 1..fit |->
                                       [segment |-> first + i, source |-> source[i],
                                        arrival |-> CurrentContact.arrival]]
                   IN  /\ count <= fit
                       /\ IsDownloadPossible(n, CurrentContact.arrival, tentative, count)
                       /\ handling' = IF count = 0
                            THEN [handling EXCEPT !.at = @ + 1, !.next = first + fit]
                            ELSE [step |-> "reply", route |-> handling.route, now |-> handling.now,
                                  at |-> handling.at, next |-> first + fit,
                                  open |-> handling.open, assigned |-> handling.assigned,
                                  offer |-> SubSeq(tentative, 1, count), tentative |-> fit]
           /\ segmentMap' = [s \in Segments |-> IF s \in first + 1..first + fit
                                                THEN segmentMap[s] \cup {n} ELSE segmentMap[s]]
           /\ neighbours' = IF /\ ShareMode = "allRouteNbr"
                               /\ \E i \in 1..fit : n \notin segmentMap[first + i]
                            THEN [neighbours EXCEPT ![n] = @ \cup RouteNodes] ELSE neighbours
    /\ UNCHANGED <<handled, contacts, schedule, busyUntil, promised, forwarded>>

\* An overbooked node, or one the cloud has no model of, is passed over.
SkipContact ==
    /\ handling.step = "contact" /\ handling.at <= Len(Trip[handling.route].contacts)
    /\ handling.at \notin handling.open \/ CurrentContact.node \notin Configured
    /\ handling' = [handling EXCEPT !.at = @ + 1]
    /\ UNCHANGED <<handled, contacts, schedule, busyUntil, segmentMap, neighbours,
                   promised, forwarded>>

Promises(cs) ==
    {[route |-> handling.route, contact |-> CurrentContact, segment |-> k.segment] : k \in ToSet(cs)}

\* A mistake: what was not committed is skipped.
EdgeReplySkips(count, evicted) ==
    /\ handling.step = "reply" /\ count <= Len(handling.offer)
    /\ LET committed == SubSeq(handling.offer, 1, count)
       IN  /\ handling' = [step |-> "book", route |-> handling.route, now |-> handling.now,
                           at |-> handling.at,
                           next |-> handling.next - handling.tentative,
                           open |-> handling.open, assigned |-> handling.assigned,
                           committed |-> committed, left |-> committed]
           /\ promised' = promised \cup Promises(committed)
    /\ segmentMap' = OracleUpdate(CurrentContact.node, evicted)
    /\ UNCHANGED <<handled, contacts, schedule, busyUntil, neighbours, forwarded>>

\* The node commits to the first `count` segments offered and reports evictions.
EdgeReply(count, evicted) ==
    /\ handling.step = "reply" /\ count <= Len(handling.offer)
    /\ LET committed == SubSeq(handling.offer, 1, count)
       IN  /\ handling' = [step |-> "book", route |-> handling.route, now |-> handling.now,
                           at |-> handling.at,
                           next |-> handling.next - (handling.tentative - count),
                           open |-> handling.open, assigned |-> handling.assigned,
                           committed |-> committed, left |-> committed]
           /\ promised' = promised \cup Promises(committed)
    /\ segmentMap' = OracleUpdate(CurrentContact.node, evicted)
    /\ UNCHANGED <<handled, contacts, schedule, busyUntil, neighbours, forwarded>>

\* The call fails, before or after the node committed: the request is abandoned
\* where it stands.
EdgeFails(count) ==
    /\ handling.step = "reply" /\ count <= Len(handling.offer)
    /\ promised' = promised \cup Promises(SubSeq(handling.offer, 1, count))
    /\ handling' = NoRequest
    /\ UNCHANGED <<handled, contacts, schedule, busyUntil, segmentMap, neighbours, forwarded>>

\* Book the next committed segment, or find that it cannot be: the states drift.
BookSegment ==
    /\ handling.step = "book" /\ handling.left # <<>>
    /\ LET n == CurrentContact.node
           k == Head(handling.left)
       IN  /\ Add(n, k, handling.now)
           /\ segmentMap' = IF BookKeeping = "recent" /\ InTime(n, k, handling.now)
                            THEN [segmentMap EXCEPT ![k.segment] = {n}] ELSE segmentMap
    /\ handling' = [handling EXCEPT !.left = Tail(@)]
    /\ UNCHANGED <<handled, contacts, neighbours, promised, forwarded>>

\* On to the next contact.  What was committed replaces what the node had been
\* assigned on an earlier contact of the route.
ContactDone ==
    /\ handling.step = "book" /\ handling.left = <<>>
    /\ LET n == CurrentContact.node
           some == handling.committed # <<>>
       IN  /\ contacts' = IF some THEN [contacts EXCEPT ![handling.route] = Append(@, CurrentContact)]
                          ELSE contacts
           /\ handling' = [step |-> "contact", route |-> handling.route, now |-> handling.now,
                           at |-> handling.at + 1, next |-> handling.next, open |-> handling.open,
                           assigned |-> IF some
                                        THEN [handling.assigned EXCEPT ![n] =
                                                 {k.segment : k \in ToSet(handling.committed)}]
                                        ELSE handling.assigned]
    /\ UNCHANGED <<handled, schedule, busyUntil, segmentMap, neighbours, promised, forwarded>>

\* The contacts or the segments are used up.
RequestDone ==
    /\ handling.step = "contact"
    /\ \/ handling.at > Len(Trip[handling.route].contacts)
       \/ /\ handling.next = VideoLength
          /\ handling.at \in handling.open /\ CurrentContact.node \in Configured
    /\ handling' = NoRequest
    /\ UNCHANGED <<handled, contacts, schedule, busyUntil, segmentMap, neighbours,
                   promised, forwarded>>

-----------------------------------------------------------------------------
(* handleMissedDelivery: contact `missed` of route r ended with `segments`  *)
(* not fetched.  They are booked at the contact after the first one with    *)
(* the same node, up to the first that does not fit, and sent there.        *)

HandleMissedDelivery(r, missed, segments) ==
    /\ handling = NoRequest
    /\ \A f \in forwarded : ~(f.route = r /\ f.missed = missed)
    /\ \E i \in DOMAIN contacts[r] :
          /\ contacts[r][i].node = missed.node
          /\ \A j \in 1..i - 1 : contacts[r][j].node # missed.node
          /\ i < Len(contacts[r])
          /\ handling' = [step |-> "missed", route |-> r, missed |-> missed,
                          now |-> missed.arrival + missed.duration,
                          contact |-> contacts[r][i + 1], left |-> segments]
    /\ UNCHANGED <<handled, contacts, schedule, busyUntil, segmentMap, neighbours,
                   promised, forwarded>>

\* The next of the segments, which come in any order.
ForwardSegment(s) ==
    /\ handling.step = "missed" /\ s \in handling.left
    /\ LET n == handling.contact.node
           k == [segment |-> s, source |-> handling.missed.node,
                 arrival |-> handling.contact.arrival]
       IN  /\ Add(n, k, handling.now)
           /\ IF InTime(n, k, handling.now)
              THEN /\ handling' = [handling EXCEPT !.left = @ \ {s}]
                   /\ forwarded' = forwarded \cup
                         {[route |-> handling.route, contact |-> handling.contact,
                           segment |-> s, missed |-> handling.missed]}
              ELSE /\ handling' = [handling EXCEPT !.left = {}]
                   /\ UNCHANGED forwarded
    /\ UNCHANGED <<handled, contacts, segmentMap, neighbours, promised>>

\* What could be booked is sent; of the reply only the evictions are read.
MissedDone(evicted) ==
    /\ handling.step = "missed" /\ handling.left = {}
    /\ segmentMap' = IF \E f \in forwarded : f.route = handling.route /\ f.missed = handling.missed
                     THEN OracleUpdate(handling.contact.node, evicted) ELSE segmentMap
    /\ handling' = NoRequest
    /\ UNCHANGED <<handled, contacts, schedule, busyUntil, neighbours, promised, forwarded>>

\* The evictions a reply may report: only tracking looks at them.
Reported == IF BookKeeping = "tracking" THEN SUBSET Segments ELSE {{}}

Next ==
    \/ \E r \in Routes : HandleVideoRequest(r)
    \/ Offer \/ SkipContact \/ BookSegment \/ ContactDone \/ RequestDone
    \/ \E count \in 0..VideoLength :
          EdgeFails(count) \/ \E evicted \in Reported : EdgeReply(count, evicted)
    \/ \E r \in Routes, missed \in Contacts :
          LET held == {p.segment : p \in {q \in promised : q.route = r /\ q.contact = missed}}
          IN  \E S \in SUBSET held \ {{}} : HandleMissedDelivery(r, missed, S)
    \/ \E s \in Segments : ForwardSegment(s)
    \/ \E evicted \in Reported : MissedDone(evicted)

Spec == Init /\ [][Next]_vars

-----------------------------------------------------------------------------
(* Properties.                                                             *)

Candidate == [segment : Segments, source : Sources, arrival : Nat]

ConfiguredContacts == {c \in Contacts : c.node \in Configured}
Assignments == [Configured -> SUBSET Segments]

\* The request being handled, in each step.
AtContact == [step : {"contact"}, route : Routes, now : Nat, at : Nat, next : Nat,
              open : SUBSET Nat, assigned : Assignments]
AtReply == [step : {"reply"}, route : Routes, now : Nat, at : Nat, next : Nat,
            open : SUBSET Nat, assigned : Assignments,
            offer : Seq(Candidate), tentative : Nat]
AtBook == [step : {"book"}, route : Routes, now : Nat, at : Nat, next : Nat,
           open : SUBSET Nat, assigned : Assignments,
           committed : Seq(Candidate), left : Seq(Candidate)]
AtMissed == [step : {"missed"}, route : Routes, now : Nat, missed : ConfiguredContacts,
             contact : ConfiguredContacts, left : SUBSET Segments]

HandlingType ==
    /\ handling \in {NoRequest} \cup AtContact \cup AtReply \cup AtBook \cup AtMissed
    /\ handling.step \in {"contact", "reply", "book"} =>
          /\ handling.open \subseteq DOMAIN Trip[handling.route].contacts
          /\ handling.at \in 1..Len(Trip[handling.route].contacts) + 1
    /\ handling.step \in {"reply", "book"} =>
          handling.at \in handling.open /\ CurrentContact.node \in Configured
    /\ handling.step = "reply" => handling.tentative \in Len(handling.offer)..handling.next

ScheduleType ==
    /\ DOMAIN schedule = Configured
    /\ \A n \in Configured :
          DOMAIN schedule[n] \subseteq Segments /\ Range(schedule[n]) \subseteq Booking
    /\ busyUntil \in [Configured -> Nat]

TypeOK ==
    /\ HandlingType /\ ScheduleType
    /\ handled \subseteq Routes
    /\ contacts \in [Routes -> Seq(ConfiguredContacts)]
    /\ segmentMap \in [Segments -> SUBSET Configured]
    /\ neighbours \in [Configured -> SUBSET Nodes]
    /\ \A p \in promised \cup forwarded :
          p.route \in Routes /\ p.contact \in Contacts /\ p.segment \in Segments

\* A node's backhaul is booked for one download at a time, and each ends before
\* its vehicle arrives, whatever the order in which requests, commitments and
\* missed deliveries came in.
NoDoubleBooking ==
    \A n \in Configured : \A s \in DOMAIN schedule[n] :
        /\ schedule[n][s].finish < schedule[n][s].arrival
        /\ \A t \in DOMAIN schedule[n] \ {s} :
              \/ schedule[n][s].finish <= schedule[n][t].start
              \/ schedule[n][t].finish <= schedule[n][s].start

\* The nodes along a route are promised its segments in the order of playback, each
\* to one node only and none that has already been played when the vehicle comes
\* by: after any mixture of full, partial and refused commitments.
PromisedInOrder ==
    \A p \in promised :
        /\ p.segment > p.contact.arrival - Trip[p.route].start
        /\ \A q \in promised :
              p.route = q.route /\ p.contact.arrival < q.contact.arrival
                  => p.segment < q.segment

\* A booking leaves a node's schedule only when it ended before the request being
\* handled was made, or for a later booking of the same segment; and the time up
\* to which a node is busy never goes back.
BookingsKept ==
    [][\A n \in Configured :
         /\ busyUntil'[n] >= busyUntil[n]
         /\ \A s \in DOMAIN schedule[n] :
               \/ /\ s \in DOMAIN schedule'[n]
                  /\ schedule'[n][s].finish >= schedule[n][s].finish
               \/ handling # NoRequest /\ schedule[n][s].finish < handling.now]_vars
=============================================================================
