------------------------------ MODULE CloudProofs ------------------------------
(***************************************************************************)
(* Proofs about the cloud: its scheduler, for any nodes, trips and video,    *)
(* and its contacts and estimates, for any routes and model files.          *)
(*                                                                         *)
(* NoDoubleBooking is not inductive: that a new booking clashes with none   *)
(* depends on max_dlc_time, which no booking may overrun (NoneLater).  With *)
(* that, the maximum that `add` takes over the bookings left is             *)
(* max_dlc_time itself, whatever was dropped.                               *)
(*                                                                         *)
(* What the loops over a route compute is shown by induction over its        *)
(* points, and that in the form of a lemma about sets of numbers.           *)
(***************************************************************************)
EXTENDS CloudScheduler, RadioModels, SequenceTheorems, FiniteSetTheorems, TLAPS

\* No booking of a node ends after the time up to which the node is busy.
NoneLater ==
    \A n \in Configured : \A s \in DOMAIN schedule[n] : schedule[n][s].finish <= busyUntil[n]

ScheduleInv == ScheduleType /\ NoDoubleBooking /\ NoneLater

CloudInv == TypeOK /\ ScheduleInv

-----------------------------------------------------------------------------
\* Fetching a segment takes time.
LEMMA SegmentTimeType ==
    ASSUME NEW n \in Configured, NEW k \in Candidate
    PROVE  SegmentTime(n, k) \in Nat
<1>1. k.segment \in Segments /\ k.source \in Sources
  BY DEF Candidate
<1>2. Offset[k.segment] \in Nat /\ Offset[k.segment - 1] \in Nat
  <2>1. k.segment \in 0..VideoLength /\ k.segment - 1 \in 0..VideoLength
    BY <1>1, CloudAssumption DEF CloudAssumption, Segments
  <2>2. Offset \in [0..VideoLength -> Nat]
    BY CloudAssumption DEF CloudAssumption
  <2> QED
    BY <2>1, <2>2
<1>3. Offset[k.segment - 1] < Offset[k.segment]
  BY <1>1, CloudAssumption DEF CloudAssumption
<1>4. Size(k.segment) \in Nat
  BY <1>2, <1>3 DEF Size
<1>5. TimePerByte[n][k.source] \in Nat
  BY <1>1, CloudAssumption DEF CloudAssumption
<1> QED
  BY <1>4, <1>5 DEF SegmentTime

\* What `add` finds to be the end of the last booking is max_dlc_time.
LEMMA StartIsBusyUntil ==
    ASSUME ScheduleInv, NEW n \in Configured, NEW now
    PROVE  Start(n, now) = busyUntil[n]
<1> DEFINE ends == {schedule[n][s].finish : s \in Live(n, now)}
<1>1. \A e \in ends : e \in Nat /\ e <= busyUntil[n]
  BY DEF Live, ScheduleInv, ScheduleType, NoneLater, Range, Booking
<1>2. busyUntil[n] \in Nat
  BY DEF ScheduleInv, ScheduleType
<1>3. \A x \in {busyUntil[n]} \cup ends :
          (\A y \in {busyUntil[n]} \cup ends : x >= y) <=> x = busyUntil[n]
  BY <1>1, <1>2
<1> HIDE DEF ends
<1>4. Max({busyUntil[n]} \cup ends) = busyUntil[n]
  BY <1>3 DEF Max
<1> QED
  BY <1>4 DEF Start, ends

\* Booking keeps the schedules in order, moves max_dlc_time forward only, and
\* drops only what ended before `now`.
LEMMA AddInv ==
    ASSUME ScheduleInv, NEW n \in Configured, NEW k \in Candidate, NEW now \in Nat,
           Add(n, k, now)
    PROVE  /\ ScheduleInv'
           /\ \A m \in Configured :
                /\ busyUntil'[m] >= busyUntil[m]
                /\ \A s \in DOMAIN schedule[m] :
                      \/ /\ s \in DOMAIN schedule'[m]
                         /\ schedule'[m][s].finish >= schedule[m][s].finish
                      \/ schedule[m][s].finish < now
<1> DEFINE busy == busyUntil[n]
           done == busyUntil[n] + SegmentTime(n, k)
           new == [start |-> busy, finish |-> done, arrival |-> k.arrival]
<1>1. SegmentTime(n, k) \in Nat /\ busy \in Nat /\ k.segment \in Segments /\ k.arrival \in Nat
  BY SegmentTimeType DEF ScheduleInv, ScheduleType, Candidate
<1>2. Start(n, now) = busy
  BY StartIsBusyUntil
<1>3. Finish(n, k, now) = done
  BY <1>2 DEF Finish
<1>4. \A m \in Configured : \A s \in DOMAIN schedule[m] :
          /\ s \in Segments /\ schedule[m][s] \in Booking
          /\ schedule[m][s].finish <= busyUntil[m]
          /\ schedule[m][s].finish \in Nat
  BY DEF ScheduleInv, ScheduleType, NoneLater, Range, Booking
<1>5. /\ DOMAIN schedule' = Configured
      /\ \A m \in Configured \ {n} : schedule'[m] = schedule[m] /\ busyUntil'[m] = busyUntil[m]
  BY DEF Add, ScheduleInv, ScheduleType
<1>6. CASE done < k.arrival
  <2>1. InTime(n, k, now)
    BY <1>3, <1>6 DEF InTime
  <2>2. /\ DOMAIN schedule'[n] = Live(n, now) \cup {k.segment}
        /\ \A s \in Live(n, now) : s # k.segment => schedule'[n][s] = schedule[n][s]
        /\ schedule'[n][k.segment] = new
    BY <2>1, <1>2, <1>3 DEF Add, ScheduleInv, ScheduleType
  <2>3. busyUntil' = [busyUntil EXCEPT ![n] = done]
    BY <2>1, <1>3 DEF Add
  <2>4. busyUntil' \in [Configured -> Nat] /\ busyUntil'[n] = done /\ done >= busy
    BY <2>3, <1>1 DEF ScheduleInv, ScheduleType
  <2>5. new \in Booking
    BY <1>1 DEF Booking
  <2>6. \A s \in DOMAIN schedule'[n] : s # k.segment =>
            s \in DOMAIN schedule[n] /\ schedule'[n][s] = schedule[n][s]
    BY <2>2 DEF Live
  <2>7. ScheduleType'
    BY <2>2, <2>4, <2>5, <2>6, <1>1, <1>4, <1>5 DEF ScheduleType, Range
  <2>8. NoneLater'
    BY <2>2, <2>4, <2>6, <1>1, <1>4, <1>5 DEF NoneLater
  <2>9. NoDoubleBooking'
    <3> SUFFICES ASSUME NEW m \in Configured, NEW s \in DOMAIN schedule'[m]
                 PROVE  /\ schedule'[m][s].finish < schedule'[m][s].arrival
                        /\ \A t \in DOMAIN schedule'[m] \ {s} :
                              \/ schedule'[m][s].finish <= schedule'[m][t].start
                              \/ schedule'[m][t].finish <= schedule'[m][s].start
      BY DEF NoDoubleBooking
    <3>1. CASE m # n
      BY <3>1, <1>5 DEF ScheduleInv, NoDoubleBooking
    <3>2. CASE m = n /\ s = k.segment
      BY <3>2, <2>2, <2>6, <1>4, <1>6
    <3>3. CASE m = n /\ s # k.segment
      <4>1. s \in DOMAIN schedule[n] /\ schedule'[n][s] = schedule[n][s]
        BY <3>3, <2>6
      <4>2. schedule[n][s].finish <= new.start
        BY <4>1, <1>4
      <4> QED
        BY <3>3, <4>1, <4>2, <2>2, <2>6 DEF ScheduleInv, NoDoubleBooking
    <3> QED
      BY <3>1, <3>2, <3>3
  <2>10. \A s \in DOMAIN schedule[n] :
            \/ s \in DOMAIN schedule'[n] /\ schedule'[n][s].finish >= schedule[n][s].finish
            \/ schedule[n][s].finish < now
    BY <2>2, <2>4, <1>1, <1>4 DEF Live
  <2> QED
    BY <2>4, <2>7, <2>8, <2>9, <2>10, <1>4, <1>5 DEF ScheduleInv, ScheduleType
<1>7. CASE ~(done < k.arrival)
  <2>1. ~InTime(n, k, now)
    BY <1>3, <1>7 DEF InTime
  <2>2. /\ DOMAIN schedule'[n] = Live(n, now)
        /\ \A s \in Live(n, now) : schedule'[n][s] = schedule[n][s]
    BY <2>1 DEF Add, ScheduleInv, ScheduleType
  <2>3. busyUntil' = busyUntil
    BY <2>1 DEF Add
  <2>4. ScheduleType' /\ NoneLater'
    BY <2>2, <2>3, <1>4, <1>5 DEF ScheduleInv, ScheduleType, NoneLater, Range, Live
  <2>5. NoDoubleBooking'
    BY <2>2, <1>5 DEF ScheduleInv, NoDoubleBooking, Live
  <2>6. \A s \in DOMAIN schedule[n] :
            \/ s \in DOMAIN schedule'[n] /\ schedule'[n][s].finish >= schedule[n][s].finish
            \/ schedule[n][s].finish < now
    BY <2>2, <1>4 DEF Live
  <2> QED
    BY <2>3, <2>4, <2>5, <2>6, <1>4, <1>5 DEF ScheduleInv, ScheduleType
<1> QED
  BY <1>6, <1>7

-----------------------------------------------------------------------------
\* At first nothing is booked.
LEMMA InitInv == Init => CloudInv
<1> SUFFICES ASSUME Init PROVE CloudInv
  OBVIOUS
<1>1. HandlingType
  BY DEF Init, HandlingType, NoRequest
<1>2. ScheduleType /\ NoDoubleBooking /\ NoneLater
  BY DEF Init, ScheduleType, NoDoubleBooking, NoneLater, Range
<1>3. contacts \in [Routes -> Seq(ConfiguredContacts)]
  BY DEF Init
<1> QED
  BY <1>1, <1>2, <1>3 DEF Init, CloudInv, TypeOK, ScheduleInv

\* Steps that leave the schedules alone.
LEMMA ScheduleStays ==
    ASSUME ScheduleInv, UNCHANGED <<schedule, busyUntil>>
    PROVE  /\ ScheduleInv'
           /\ \A m \in Configured :
                /\ busyUntil'[m] >= busyUntil[m]
                /\ \A s \in DOMAIN schedule[m] :
                      /\ s \in DOMAIN schedule'[m]
                      /\ schedule'[m][s].finish >= schedule[m][s].finish
  BY DEF ScheduleInv, ScheduleType, NoDoubleBooking, NoneLater, Range, Booking

\* The trips are sequences of contacts.
LEMMA TripType ==
    ASSUME NEW r \in Routes
    PROVE  /\ Trip[r].contacts \in Seq([node : Nodes, arrival : Nat, duration : Nat, bytes : Nat])
           /\ Trip[r].timestamp \in Nat /\ Trip[r].start \in Nat
           /\ Len(Trip[r].contacts) \in Nat
           /\ DOMAIN Trip[r].contacts = 1..Len(Trip[r].contacts)
           /\ \A i \in DOMAIN Trip[r].contacts :
                 /\ Trip[r].contacts[i] \in Contacts
                 /\ Trip[r].contacts[i].node \in Nodes
                 /\ Trip[r].contacts[i].arrival \in Nat /\ Trip[r].contacts[i].duration \in Nat
<1>1. /\ Trip[r].contacts \in Seq([node : Nodes, arrival : Nat, duration : Nat, bytes : Nat])
      /\ Trip[r].timestamp \in Nat /\ Trip[r].start \in Nat
  BY CloudAssumption DEF CloudAssumption
<1>2. \A i \in DOMAIN Trip[r].contacts : Trip[r].contacts[i] \in Contacts
  BY DEF Contacts, ToSet
<1>3. /\ Len(Trip[r].contacts) \in Nat
      /\ DOMAIN Trip[r].contacts = 1..Len(Trip[r].contacts)
      /\ \A i \in DOMAIN Trip[r].contacts :
            Trip[r].contacts[i] \in [node : Nodes, arrival : Nat, duration : Nat, bytes : Nat]
  <2> DEFINE R == [node : Nodes, arrival : Nat, duration : Nat, bytes : Nat]
             cs == Trip[r].contacts
  <2>1. cs \in Seq(R)
    BY <1>1
  <2> HIDE DEF R, cs
  <2>2. Len(cs) \in Nat /\ DOMAIN cs = 1..Len(cs) /\ \A i \in DOMAIN cs : cs[i] \in R
    BY <2>1, LenProperties, ElementOfSeq
  <2> QED
    BY <2>2 DEF R, cs
<1> QED
  BY <1>1, <1>2, <1>3

\* What is known of the contact under way.
LEMMA CurrentType ==
    ASSUME HandlingType, handling.step \in {"contact", "reply", "book"},
           handling.at \in handling.open
    PROVE  /\ CurrentContact \in Contacts /\ CurrentContact.node \in Nodes
           /\ CurrentContact.arrival \in Nat
           /\ handling.at \in 1..Len(Trip[handling.route].contacts)
<1>1. handling.route \in Routes /\ handling.at \in DOMAIN Trip[handling.route].contacts
  BY DEF HandlingType, NoRequest, AtContact, AtReply, AtBook, AtMissed
<1> QED
  BY <1>1, TripType DEF CurrentContact

\* A request starts.
LEMMA HandleVideoRequestInv ==
    ASSUME CloudInv, NEW r \in Routes, HandleVideoRequest(r)
    PROVE  CloudInv'
<1>1. contacts' \in [Routes -> Seq(ConfiguredContacts)]
  BY DEF CloudInv, TypeOK, HandleVideoRequest
<1>2. HandlingType'
  <2>1. /\ Trip[r].timestamp \in Nat /\ Len(Trip[r].contacts) \in Nat
        /\ DOMAIN Trip[r].contacts = 1..Len(Trip[r].contacts)
    BY TripType
  <2>2. handling' \in AtContact
    BY <2>1 DEF HandleVideoRequest, AtContact, Assignments
  <2> QED
    BY <2>1, <2>2 DEF HandleVideoRequest, HandlingType
<1>3. ScheduleInv'
  BY ScheduleStays DEF HandleVideoRequest, CloudInv
<1> QED
  BY <1>1, <1>2, <1>3 DEF HandleVideoRequest, CloudInv, TypeOK, ScheduleInv

\* A contact is passed over, or the request is over.
LEMMA MoveOnInv ==
    ASSUME CloudInv, SkipContact \/ RequestDone
    PROVE  CloudInv'
<1>1. HandlingType'
  <2>1. CASE SkipContact
    <3>1. handling \in AtContact
      BY <2>1 DEF SkipContact, CloudInv, TypeOK, HandlingType, NoRequest, AtReply, AtBook, AtMissed
    <3>2. handling' \in AtContact /\ handling' = [handling EXCEPT !.at = handling.at + 1]
      BY <2>1, <3>1 DEF SkipContact, AtContact
    <3>3. Len(Trip[handling.route].contacts) \in Nat
      BY <3>1, TripType DEF AtContact
    <3>4. /\ handling'.route = handling.route /\ handling'.open = handling.open
          /\ handling'.at = handling.at + 1 /\ handling'.step = "contact"
      BY <3>1, <3>2 DEF AtContact
    <3>5. /\ handling.open \subseteq DOMAIN Trip[handling.route].contacts
          /\ handling.at \in 1..Len(Trip[handling.route].contacts)
      BY <2>1, <3>3 DEF SkipContact, CloudInv, TypeOK, HandlingType
    <3> QED
      BY <3>2, <3>3, <3>4, <3>5 DEF HandlingType
  <2>2. CASE RequestDone
    BY <2>2 DEF RequestDone, HandlingType, NoRequest
  <2> QED
    BY <2>1, <2>2
<1>2. ScheduleInv'
  BY ScheduleStays DEF SkipContact, RequestDone, CloudInv
<1> QED
  BY <1>1, <1>2 DEF SkipContact, RequestDone, CloudInv, TypeOK, ScheduleInv

\* After an offer, or when nothing can be fetched in time: segmentIdx has not gone
\* back, and what is offered follows it without a gap, from what is playing on.
OfferMoves ==
    /\ handling'.route = handling.route
    /\ \/ /\ handling'.step = "contact"
          /\ handling'.at = handling.at + 1 /\ handling'.next >= handling.next
       \/ /\ handling'.step = "reply" /\ handling'.at = handling.at
          /\ LET before == handling'.next - handling'.tentative
             IN  /\ before >= handling.next
                 /\ before >= CurrentContact.arrival - Trip[handling.route].start
                 /\ \A i \in 1..Len(handling'.offer) : handling'.offer[i].segment = before + i

\* What fits in a contact is offered, or nothing can be fetched in time.
LEMMA OfferInv ==
    ASSUME CloudInv, Offer
    PROVE  CloudInv' /\ OfferMoves
<1>1. handling \in AtContact /\ handling.at \in handling.open
  BY DEF Offer, CloudInv, TypeOK, HandlingType, NoRequest, AtReply, AtBook, AtMissed
<1>2. /\ handling.route \in Routes /\ handling.now \in Nat /\ handling.next \in Nat
      /\ handling.at \in Nat /\ handling.open \in SUBSET Nat /\ handling.assigned \in Assignments
  BY <1>1 DEF AtContact
<1>3. /\ CurrentContact \in Contacts /\ CurrentContact.node \in Configured
      /\ CurrentContact.arrival \in Nat
      /\ handling.at \in 1..Len(Trip[handling.route].contacts)
      /\ handling.open \subseteq DOMAIN Trip[handling.route].contacts
  BY <1>1, CurrentType DEF AtContact, Offer, CloudInv, TypeOK, HandlingType
<1>4. Len(Trip[handling.route].contacts) \in Nat /\ Trip[handling.route].start \in Nat
  BY <1>2, TripType
<1> DEFINE n == CurrentContact.node
           playback == CurrentContact.arrival - Trip[handling.route].start
           first == IF handling.next < playback THEN playback ELSE handling.next
<1>5. first \in Nat
  BY <1>2, <1>3, <1>4
<1> DEFINE Tentative(fit, source) ==
             [i \in 1..fit |-> [segment |-> first + i, source |-> source[i],
                               arrival |-> CurrentContact.arrival]]
           Passed(fit) == [handling EXCEPT !.at = @ + 1, !.next = first + fit]
           Offered(fit, count, source) ==
             [step |-> "reply", route |-> handling.route, now |-> handling.now,
              at |-> handling.at, next |-> first + fit,
              open |-> handling.open, assigned |-> handling.assigned,
              offer |-> SubSeq(Tentative(fit, source), 1, count), tentative |-> fit]
           Chosen(fit, count, source) ==
             /\ FitInContact(first, CurrentContact, fit) /\ count <= fit
             /\ handling' = IF count = 0 THEN Passed(fit) ELSE Offered(fit, count, source)
             /\ segmentMap' = [s \in Segments |-> IF s \in first + 1..first + fit
                                                  THEN segmentMap[s] \cup {n} ELSE segmentMap[s]]
             /\ \/ neighbours' = [neighbours EXCEPT ![n] = @ \cup RouteNodes]
                \/ neighbours' = neighbours
<1>6. \E fit, count \in 0..VideoLength : \E source \in [1..fit -> Sources] :
          Chosen(fit, count, source)
  BY DEF Offer
<1> HIDE DEF Chosen
<1>7. PICK fit \in 0..VideoLength, count \in 0..VideoLength :
          \E source \in [1..fit -> Sources] : Chosen(fit, count, source)
  BY <1>6
<1>8. PICK source \in [1..fit -> Sources] : Chosen(fit, count, source)
  BY <1>7
<1> DEFINE tentative == Tentative(fit, source)
<1>9. /\ FitInContact(first, CurrentContact, fit) /\ count <= fit
      /\ handling' = IF count = 0 THEN Passed(fit) ELSE Offered(fit, count, source)
      /\ segmentMap' = [s \in Segments |-> IF s \in first + 1..first + fit
                                           THEN segmentMap[s] \cup {n} ELSE segmentMap[s]]
      /\ \/ neighbours' = [neighbours EXCEPT ![n] = @ \cup RouteNodes]
         \/ neighbours' = neighbours
  BY <1>8 DEF Chosen
<1>10. VideoLength \in Nat /\ fit \in Nat /\ count \in Nat
  BY CloudAssumption DEF CloudAssumption
<1>11. \A i \in 1..count : tentative[i] \in Candidate
  <2> SUFFICES ASSUME NEW i \in 1..count PROVE tentative[i] \in Candidate
    OBVIOUS
  <2>1. i \in 1..fit /\ source[i] \in Sources
    BY <1>9, <1>10
  <2>2. first + i \in Segments
    BY <1>5, <1>9, <1>10, <2>1 DEF FitInContact, Segments
  <2> QED
    BY <1>3, <2>1, <2>2 DEF Candidate
<1>12. HandlingType'
  <2>1. CASE count = 0
    <3>1. handling' = [handling EXCEPT !.at = handling.at + 1, !.next = first + fit]
      BY <1>9, <2>1
    <3> HIDE DEF first
    <3>3. handling' \in AtContact
      <4> DEFINE a == handling.at + 1
                 b == first + fit
      <4>1. a \in Nat /\ b \in Nat /\ handling' = [handling EXCEPT !.at = a, !.next = b]
        BY <1>2, <1>5, <1>10, <3>1
      <4> HIDE DEF a, b
      <4> QED
        BY <1>1, <4>1 DEF AtContact
    <3>2. /\ handling'.route = handling.route /\ handling'.open = handling.open
          /\ handling'.at = handling.at + 1 /\ handling'.step = "contact"
      BY <1>1, <3>1 DEF AtContact
    <3> QED
      BY <1>3, <1>4, <3>3, <3>2 DEF HandlingType
  <2>2. CASE count # 0
    <3>1. handling' = [step |-> "reply", route |-> handling.route, now |-> handling.now,
                       at |-> handling.at, next |-> first + fit,
                       open |-> handling.open, assigned |-> handling.assigned,
                       offer |-> SubSeq(tentative, 1, count), tentative |-> fit]
      BY <1>9, <2>2
    <3> HIDE DEF first, tentative
    <3>2. SubSeq(tentative, 1, count) \in Seq(Candidate) /\ Len(SubSeq(tentative, 1, count)) = count
      BY <1>10, <1>11, <2>2, SubSeqProperties
    <3>3. handling' \in AtReply
      BY <1>2, <1>5, <1>10, <3>1, <3>2 DEF AtReply
    <3>4. CurrentContact' = CurrentContact
      BY <3>1 DEF CurrentContact
    <3>5. fit \in count..first + fit
      BY <1>5, <1>9, <1>10
    <3>6. /\ handling'.step = "reply" /\ handling'.route = handling.route
          /\ handling'.at = handling.at /\ handling'.open = handling.open
          /\ handling'.tentative \in Len(handling'.offer)..handling'.next
      BY <3>1, <3>2, <3>5
    <3>7. handling.at \in 1..Len(Trip[handling.route].contacts) + 1
      BY <1>3, <1>4
    <3> QED
      BY <1>1, <1>3, <3>3, <3>4, <3>6, <3>7 DEF HandlingType
  <2> QED
    BY <2>1, <2>2
<1>13. ScheduleInv'
  BY ScheduleStays DEF Offer, CloudInv
<1>14. segmentMap' \in [Segments -> SUBSET Configured]
  BY <1>3, <1>9 DEF CloudInv, TypeOK
<1>15. neighbours' \in [Configured -> SUBSET Nodes]
  <2>1. RouteNodes \subseteq Nodes
    BY <1>2, <1>3, TripType DEF RouteNodes
  <2> QED
    BY <1>3, <1>9, <2>1 DEF CloudInv, TypeOK
<1>16. OfferMoves
  <2>1. first >= handling.next /\ first >= playback
    BY <1>2, <1>3, <1>4
  <2>2. CASE count = 0
    <3>1. handling' = [handling EXCEPT !.at = handling.at + 1, !.next = first + fit]
      BY <1>9, <2>2
    <3> HIDE DEF first
    <3>2. /\ handling'.route = handling.route /\ handling'.step = "contact"
          /\ handling'.at = handling.at + 1 /\ handling'.next = first + fit
      BY <1>1, <3>1 DEF AtContact
    <3> QED
      BY <1>2, <1>5, <1>10, <2>1, <3>2 DEF OfferMoves
  <2>3. CASE count # 0
    <3>1. \A i \in 1..count : tentative[i].segment = first + i
      BY <1>9, <1>10
    <3>2. handling' = [step |-> "reply", route |-> handling.route, now |-> handling.now,
                       at |-> handling.at, next |-> first + fit,
                       open |-> handling.open, assigned |-> handling.assigned,
                       offer |-> SubSeq(tentative, 1, count), tentative |-> fit]
      BY <1>9, <2>3
    <3> HIDE DEF first, tentative
    <3>3. /\ Len(SubSeq(tentative, 1, count)) = count
          /\ \A i \in 1..count : SubSeq(tentative, 1, count)[i] = tentative[i]
      BY <1>10, <1>11, <2>3, SubSeqProperties
    <3>4. /\ Len(handling'.offer) = count
          /\ \A i \in 1..count : handling'.offer[i].segment = first + i
      BY <3>1, <3>2, <3>3
    <3>5. handling'.next - handling'.tentative = first
      BY <1>5, <1>10, <3>2
    <3> QED
      BY <2>1, <3>2, <3>4, <3>5 DEF OfferMoves
  <2> QED
    BY <2>2, <2>3
<1> QED
  BY <1>12, <1>13, <1>14, <1>15, <1>16 DEF Offer, CloudInv, TypeOK, ScheduleInv

\* What may be promised is a segment of the video, to a contact of the route.
LEMMA PromisesType ==
    ASSUME CloudInv, handling.step = "reply", NEW count \in 0..VideoLength,
           count <= Len(handling.offer)
    PROVE  /\ handling \in AtReply
           /\ SubSeq(handling.offer, 1, count) \in Seq(Candidate)
           /\ \A p \in Promises(SubSeq(handling.offer, 1, count)) :
                 p.route \in Routes /\ p.contact \in Contacts /\ p.segment \in Segments
<1>1. handling \in AtReply /\ handling.at \in handling.open
  BY DEF CloudInv, TypeOK, HandlingType, NoRequest, AtContact, AtBook, AtMissed
<1>2. handling.offer \in Seq(Candidate) /\ handling.route \in Routes
  BY <1>1 DEF AtReply
<1>3. CurrentContact \in Contacts
  BY <1>1, CurrentType DEF CloudInv, TypeOK
<1> DEFINE cs == SubSeq(handling.offer, 1, count)
<1>4. cs \in Seq(Candidate)
  <2>1. \A i \in 1..count : handling.offer[i] \in Candidate
    BY <1>2, CloudAssumption, ElementOfSeq, LenProperties DEF CloudAssumption
  <2> QED
    BY <2>1, SubSeqProperties, CloudAssumption DEF CloudAssumption
<1> HIDE DEF cs
<1>5. \A k \in ToSet(cs) : k \in Candidate
  BY <1>4, ElementOfSeq, LenProperties DEF ToSet
<1>6. \A k \in ToSet(cs) : k.segment \in Segments
  BY <1>5 DEF Candidate
<1> QED
  BY <1>1, <1>2, <1>3, <1>4, <1>6 DEF Promises, cs

\* Reading evictions leaves the oracle well-typed.
LEMMA OracleUpdateType ==
    ASSUME segmentMap \in [Segments -> SUBSET Configured], NEW n, NEW evicted
    PROVE  OracleUpdate(n, evicted) \in [Segments -> SUBSET Configured]
  BY DEF OracleUpdate, OracleRemove

\* A node answers, or the call fails.
LEMMA ReplyInv ==
    ASSUME CloudInv, NEW count \in 0..VideoLength, NEW evicted,
           EdgeReply(count, evicted) \/ EdgeFails(count)
    PROVE  CloudInv'
<1>1. handling.step = "reply" /\ count <= Len(handling.offer)
  BY DEF EdgeReply, EdgeFails
<1> DEFINE committed == SubSeq(handling.offer, 1, count)
<1>2. /\ handling \in AtReply /\ committed \in Seq(Candidate)
      /\ \A p \in Promises(committed) :
            p.route \in Routes /\ p.contact \in Contacts /\ p.segment \in Segments
  BY <1>1, PromisesType
<1>3. promised' = promised \cup Promises(committed)
  BY DEF EdgeReply, EdgeFails
<1> HIDE DEF committed
<1>4. HandlingType'
  <2>1. CASE EdgeReply(count, evicted)
    <3> DEFINE next == handling.next - (handling.tentative - count)
    <3>1. handling' = [step |-> "book", route |-> handling.route, now |-> handling.now,
                       at |-> handling.at, next |-> next,
                       open |-> handling.open, assigned |-> handling.assigned,
                       committed |-> committed, left |-> committed]
      BY <2>1 DEF EdgeReply, committed
    <3>2. next \in Nat
      <4>1. /\ handling.next \in Nat /\ handling.tentative \in Nat
            /\ handling.tentative <= handling.next
        BY <1>1, <1>2 DEF AtReply, CloudInv, TypeOK, HandlingType
      <4> QED
        BY <4>1
    <3> HIDE DEF next
    <3>3. handling' \in AtBook
      BY <1>2, <3>1, <3>2 DEF AtReply, AtBook
    <3>4. CurrentContact' = CurrentContact
      BY <3>1, <2>1 DEF CurrentContact
    <3>5. /\ handling.open \subseteq DOMAIN Trip[handling.route].contacts
          /\ handling.at \in 1..Len(Trip[handling.route].contacts) + 1
          /\ handling.at \in handling.open /\ CurrentContact.node \in Configured
      BY <1>1 DEF CloudInv, TypeOK, HandlingType
    <3> QED
      BY <3>1, <3>3, <3>4, <3>5 DEF HandlingType
  <2>2. CASE EdgeFails(count)
    BY <2>2 DEF EdgeFails, HandlingType, NoRequest
  <2> QED
    BY <2>1, <2>2
<1>5. ScheduleInv'
  BY ScheduleStays DEF EdgeReply, EdgeFails, CloudInv
<1>6. segmentMap' \in [Segments -> SUBSET Configured]
  BY OracleUpdateType DEF EdgeReply, EdgeFails, CloudInv, TypeOK
<1> QED
  BY <1>2, <1>3, <1>4, <1>5, <1>6 DEF EdgeReply, EdgeFails, CloudInv, TypeOK, ScheduleInv

\* A committed segment is booked, or is not.
LEMMA BookSegmentInv ==
    ASSUME CloudInv, BookSegment
    PROVE  /\ CloudInv'
           /\ \E n \in Configured, k \in Candidate : Add(n, k, handling.now)
<1>1. handling \in AtBook /\ handling.at \in handling.open /\ CurrentContact.node \in Configured
  BY DEF BookSegment, CloudInv, TypeOK, HandlingType, NoRequest, AtContact, AtReply, AtMissed
<1>2. handling.left \in Seq(Candidate) /\ handling.now \in Nat /\ handling.left # <<>>
  BY <1>1 DEF AtBook, BookSegment
<1>3. Head(handling.left) \in Candidate /\ Tail(handling.left) \in Seq(Candidate)
  BY <1>2, HeadTailProperties
<1>4. Add(CurrentContact.node, Head(handling.left), handling.now)
  BY DEF BookSegment
<1>5. ScheduleInv'
  BY <1>1, <1>2, <1>3, <1>4, AddInv DEF CloudInv
<1>6. HandlingType'
  <2> DEFINE rest == Tail(handling.left)
  <2>1. handling' = [handling EXCEPT !.left = rest]
    BY DEF BookSegment
  <2>2. rest \in Seq(Candidate)
    BY <1>3
  <2> HIDE DEF rest
  <2>3. /\ handling' \in AtBook /\ handling'.step = "book" /\ handling'.route = handling.route
        /\ handling'.at = handling.at /\ handling'.open = handling.open
    BY <1>1, <2>1, <2>2 DEF AtBook
  <2>4. CurrentContact' = CurrentContact
    BY <2>3, <1>4 DEF CurrentContact
  <2> QED
    BY <1>1, <2>3, <2>4 DEF CloudInv, TypeOK, HandlingType, AtBook
<1>7. segmentMap' \in [Segments -> SUBSET Configured]
  BY <1>1 DEF BookSegment, CloudInv, TypeOK
<1> QED
  BY <1>1, <1>3, <1>4, <1>5, <1>6, <1>7 DEF BookSegment, CloudInv, TypeOK, ScheduleInv

\* All that was committed has been dealt with.
LEMMA ContactDoneInv ==
    ASSUME CloudInv, ContactDone
    PROVE  CloudInv'
<1>1. handling \in AtBook /\ handling.at \in handling.open /\ CurrentContact.node \in Configured
  BY DEF ContactDone, CloudInv, TypeOK, HandlingType, NoRequest, AtContact, AtReply, AtMissed
<1>2. CurrentContact \in ConfiguredContacts /\ handling.route \in Routes
      /\ handling.at \in 1..Len(Trip[handling.route].contacts)
  BY <1>1, CurrentType DEF CloudInv, TypeOK, ConfiguredContacts, AtBook
<1>3. contacts' \in [Routes -> Seq(ConfiguredContacts)]
  <2>1. contacts \in [Routes -> Seq(ConfiguredContacts)]
    BY DEF CloudInv, TypeOK
  <2>2. Append(contacts[handling.route], CurrentContact) \in Seq(ConfiguredContacts)
    BY <1>2, <2>1, AppendProperties
  <2>3. contacts' = contacts \/
        contacts' = [contacts EXCEPT ![handling.route] =
                        Append(contacts[handling.route], CurrentContact)]
    BY DEF ContactDone
  <2> QED
    BY <1>2, <2>1, <2>2, <2>3
<1>4. HandlingType'
  <2> DEFINE given == IF handling.committed # <<>>
                      THEN [handling.assigned EXCEPT ![CurrentContact.node] =
                               {k.segment : k \in ToSet(handling.committed)}]
                      ELSE handling.assigned
  <2>1. given \in Assignments
    <3>1. handling.assigned \in Assignments /\ handling.committed \in Seq(Candidate)
      BY <1>1 DEF AtBook
    <3>2. \A k \in ToSet(handling.committed) : k \in Candidate
      BY <3>1, ElementOfSeq, LenProperties DEF ToSet
    <3>3. {k.segment : k \in ToSet(handling.committed)} \subseteq Segments
      BY <3>2 DEF Candidate
    <3> QED
      BY <1>1, <3>1, <3>3 DEF Assignments
  <2>2. handling' = [step |-> "contact", route |-> handling.route, now |-> handling.now,
                     at |-> handling.at + 1, next |-> handling.next, open |-> handling.open,
                     assigned |-> given]
    BY DEF ContactDone
  <2> HIDE DEF given
  <2>3. handling' \in AtContact
    BY <1>1, <2>1, <2>2 DEF AtBook, AtContact
  <2>4. /\ Len(Trip[handling.route].contacts) \in Nat
        /\ handling.open \subseteq DOMAIN Trip[handling.route].contacts
    BY <1>1, <1>2, TripType DEF CloudInv, TypeOK, HandlingType, AtBook
  <2> QED
    BY <1>2, <2>2, <2>3, <2>4 DEF HandlingType
<1>5. ScheduleInv'
  BY ScheduleStays DEF ContactDone, CloudInv
<1> QED
  BY <1>3, <1>4, <1>5 DEF ContactDone, CloudInv, TypeOK, ScheduleInv

\* Missed segments come in.
LEMMA HandleMissedDeliveryInv ==
    ASSUME CloudInv, NEW r \in Routes, NEW missed \in Contacts, NEW S \in SUBSET Segments,
           HandleMissedDelivery(r, missed, S)
    PROVE  CloudInv'
<1>1. PICK i \in DOMAIN contacts[r] :
          /\ contacts[r][i].node = missed.node /\ i < Len(contacts[r])
          /\ handling' = [step |-> "missed", route |-> r, missed |-> missed,
                          now |-> missed.arrival + missed.duration,
                          contact |-> contacts[r][i + 1], left |-> S]
  BY DEF HandleMissedDelivery
<1>2. contacts[r] \in Seq(ConfiguredContacts)
  BY DEF CloudInv, TypeOK
<1>3. /\ i \in 1..Len(contacts[r]) /\ i + 1 \in 1..Len(contacts[r])
      /\ contacts[r][i] \in ConfiguredContacts /\ contacts[r][i + 1] \in ConfiguredContacts
  BY <1>1, <1>2, ElementOfSeq, LenProperties
<1>4. missed \in ConfiguredContacts /\ missed.arrival + missed.duration \in Nat
  <2>1. missed.arrival \in Nat /\ missed.duration \in Nat
    <3>1. PICK q \in Routes : \E j \in DOMAIN Trip[q].contacts : missed = Trip[q].contacts[j]
      BY DEF Contacts, ToSet
    <3> QED
      BY <3>1, TripType
  <2> QED
    BY <1>1, <1>3, <2>1 DEF ConfiguredContacts
<1>5. HandlingType'
  <2> DEFINE now == missed.arrival + missed.duration
             next == contacts[r][i + 1]
  <2>1. now \in Nat /\ next \in ConfiguredContacts
    BY <1>3, <1>4
  <2>2. handling' = [step |-> "missed", route |-> r, missed |-> missed, now |-> now,
                     contact |-> next, left |-> S]
    BY <1>1
  <2> HIDE DEF now, next
  <2>3. handling' \in AtMissed
    BY <1>4, <2>1, <2>2 DEF AtMissed
  <2> QED
    BY <2>2, <2>3 DEF HandlingType
<1>6. ScheduleInv'
  BY ScheduleStays DEF HandleMissedDelivery, CloudInv
<1> QED
  BY <1>5, <1>6 DEF HandleMissedDelivery, CloudInv, TypeOK, ScheduleInv

\* A missed segment is booked at the next node, or is not.
LEMMA ForwardSegmentInv ==
    ASSUME CloudInv, NEW s \in Segments, ForwardSegment(s)
    PROVE  /\ CloudInv'
           /\ \E n \in Configured, k \in Candidate : Add(n, k, handling.now)
<1>1. handling \in AtMissed
  BY DEF ForwardSegment, CloudInv, TypeOK, HandlingType, NoRequest, AtContact, AtReply, AtBook
<1> DEFINE n == handling.contact.node
           k == [segment |-> s, source |-> handling.missed.node,
                 arrival |-> handling.contact.arrival]
<1>2. /\ handling.route \in Routes /\ handling.now \in Nat /\ handling.left \in SUBSET Segments
      /\ handling.contact \in ConfiguredContacts /\ handling.missed \in ConfiguredContacts
  BY <1>1 DEF AtMissed
<1>3. /\ n \in Configured /\ handling.contact \in Contacts
      /\ handling.missed.node \in Sources /\ handling.contact.arrival \in Nat
  <2>1. handling.contact \in Contacts /\ n \in Configured /\ handling.missed.node \in Configured
    BY <1>2 DEF ConfiguredContacts
  <2>2. PICK r \in Routes :
            \E i \in DOMAIN Trip[r].contacts : handling.contact = Trip[r].contacts[i]
    BY <2>1 DEF Contacts, ToSet
  <2>3. handling.contact.arrival \in Nat
    BY <2>2, TripType
  <2> QED
    BY <2>1, <2>3 DEF Sources
<1>4. k \in Candidate
  BY <1>3 DEF Candidate
<1>5. Add(n, k, handling.now)
  BY DEF ForwardSegment
<1>6. ScheduleInv'
  BY <1>2, <1>3, <1>4, <1>5, AddInv DEF CloudInv
<1>7. HandlingType'
  <2>1. PICK rest \in SUBSET Segments : handling' = [handling EXCEPT !.left = rest]
    <3>1. handling' = [handling EXCEPT !.left = handling.left \ {s}]
          \/ handling' = [handling EXCEPT !.left = {}]
      BY DEF ForwardSegment
    <3> QED
      BY <3>1, <1>2
  <2>2. handling' \in AtMissed /\ handling'.step = "missed"
    BY <1>1, <2>1 DEF AtMissed
  <2> QED
    BY <2>2 DEF HandlingType
<1>8. \A p \in forwarded' :
          p.route \in Routes /\ p.contact \in Contacts /\ p.segment \in Segments
  <2>1. forwarded' = forwarded \/ forwarded' = forwarded \cup
            {[route |-> handling.route, contact |-> handling.contact,
              segment |-> s, missed |-> handling.missed]}
    BY DEF ForwardSegment
  <2> QED
    BY <1>2, <1>3, <2>1 DEF CloudInv, TypeOK
<1> QED
  BY <1>3, <1>4, <1>5, <1>6, <1>7, <1>8 DEF ForwardSegment, CloudInv, TypeOK, ScheduleInv

\* What could be booked has been sent.
LEMMA MissedDoneInv ==
    ASSUME CloudInv, NEW evicted, MissedDone(evicted)
    PROVE  CloudInv'
<1>1. HandlingType'
  BY DEF MissedDone, HandlingType, NoRequest
<1>2. ScheduleInv'
  BY ScheduleStays DEF MissedDone, CloudInv
<1>3. segmentMap' \in [Segments -> SUBSET Configured]
  BY OracleUpdateType DEF MissedDone, CloudInv, TypeOK
<1> QED
  BY <1>1, <1>2, <1>3 DEF MissedDone, CloudInv, TypeOK, ScheduleInv

-----------------------------------------------------------------------------
\* Every step keeps the invariant, and books or leaves the schedules alone.
LEMMA NextInv ==
    ASSUME CloudInv, [Next]_vars
    PROVE  /\ CloudInv'
           /\ \/ UNCHANGED <<schedule, busyUntil>>
              \/ /\ handling # NoRequest /\ handling.now \in Nat
                 /\ \E n \in Configured, k \in Candidate : Add(n, k, handling.now)
<1>1. CASE UNCHANGED vars
  <2>1. HandlingType'
    BY <1>1 DEF vars, CloudInv, TypeOK, HandlingType, CurrentContact
  <2>2. ScheduleInv'
    BY <1>1, ScheduleStays DEF vars, CloudInv
  <2> QED
    BY <1>1, <2>1, <2>2 DEF vars, CloudInv, TypeOK, ScheduleInv
<1>2. CASE \E r \in Routes : HandleVideoRequest(r)
  BY <1>2, HandleVideoRequestInv DEF HandleVideoRequest
<1>3. CASE Offer
  BY <1>3, OfferInv DEF Offer
<1>4. CASE SkipContact \/ RequestDone
  BY <1>4, MoveOnInv DEF SkipContact, RequestDone
<1>5. CASE BookSegment
  <2>1. handling \in AtBook
    BY <1>5 DEF BookSegment, CloudInv, TypeOK, HandlingType, NoRequest, AtContact, AtReply, AtMissed
  <2>2. handling # NoRequest /\ handling.now \in Nat
    BY <2>1 DEF AtBook, NoRequest
  <2> QED
    BY <1>5, <2>2, BookSegmentInv
<1>6. CASE ContactDone
  BY <1>6, ContactDoneInv DEF ContactDone
<1>7. ASSUME NEW count \in 0..VideoLength,
             EdgeFails(count) \/ \E evicted \in Reported : EdgeReply(count, evicted)
      PROVE  CloudInv' /\ UNCHANGED <<schedule, busyUntil>>
  BY <1>7, ReplyInv DEF EdgeFails, EdgeReply
<1>8. ASSUME NEW r \in Routes, NEW missed \in Contacts,
             NEW S \in SUBSET {p.segment : p \in {q \in promised : /\ q.route = r
                                                                       /\ q.contact = missed}},
             HandleMissedDelivery(r, missed, S)
      PROVE  CloudInv' /\ UNCHANGED <<schedule, busyUntil>>
  <2>1. S \in SUBSET Segments
    BY DEF CloudInv, TypeOK
  <2> QED
    BY <1>8, <2>1, HandleMissedDeliveryInv DEF HandleMissedDelivery
<1>9. ASSUME NEW s \in Segments, ForwardSegment(s)
      PROVE  /\ CloudInv' /\ handling # NoRequest /\ handling.now \in Nat
             /\ \E n \in Configured, k \in Candidate : Add(n, k, handling.now)
  <2>1. handling \in AtMissed
    BY <1>9 DEF ForwardSegment, CloudInv, TypeOK, HandlingType, NoRequest,
                AtContact, AtReply, AtBook
  <2>2. handling # NoRequest /\ handling.now \in Nat
    BY <2>1 DEF AtMissed, NoRequest
  <2> QED
    BY <1>9, <2>2, ForwardSegmentInv
<1>10. ASSUME NEW evicted \in Reported, MissedDone(evicted)
       PROVE  CloudInv' /\ UNCHANGED <<schedule, busyUntil>>
  BY <1>10, MissedDoneInv DEF MissedDone
<1> QED
  BY <1>1, <1>2, <1>3, <1>4, <1>5, <1>6, <1>7, <1>8, <1>9, <1>10 DEF Next

\* The inductive invariant holds of every behaviour of the scheduler.
THEOREM Invariance == Spec => []CloudInv
<1>1. Init => CloudInv
  BY InitInv
<1>2. CloudInv /\ [Next]_vars => CloudInv'
  BY NextInv
<1> QED
  BY <1>1, <1>2, PTL DEF Spec

\* Every variable keeps its type: among others, giving back what a node did not
\* commit never takes segmentIdx below zero (DownloadManager.py:376), and a node
\* is busy until a time that exists.
THEOREM TypeCorrect == Spec => []TypeOK
<1>1. CloudInv => TypeOK
  BY DEF CloudInv
<1> QED
  BY <1>1, Invariance, PTL

\* A node's backhaul is never booked for two downloads at a time, nor for one that
\* would end after its vehicle has come (EdgeDownloadAssignment.py:36-67).
THEOREM BackhaulNeverDoubleBooked == Spec => []NoDoubleBooking
<1>1. CloudInv => NoDoubleBooking
  BY DEF CloudInv, ScheduleInv
<1> QED
  BY <1>1, Invariance, PTL

\* A booking is dropped only when it ended before the request at hand was made, and
\* max_dlc_time only grows (EdgeDownloadAssignment.py:50-64).
THEOREM BookingsNeverLost == Spec => BookingsKept
<1>1. CloudInv /\ [Next]_vars =>
        [\A n \in Configured :
         /\ busyUntil'[n] >= busyUntil[n]
         /\ \A s \in DOMAIN schedule[n] :
               \/ /\ s \in DOMAIN schedule'[n]
                  /\ schedule'[n][s].finish >= schedule[n][s].finish
               \/ handling # NoRequest /\ schedule[n][s].finish < handling.now]_vars
  <2> SUFFICES ASSUME CloudInv, [Next]_vars
      PROVE \A n \in Configured :
         /\ busyUntil'[n] >= busyUntil[n]
         /\ \A s \in DOMAIN schedule[n] :
               \/ /\ s \in DOMAIN schedule'[n]
                  /\ schedule'[n][s].finish >= schedule[n][s].finish
               \/ handling # NoRequest /\ schedule[n][s].finish < handling.now
    OBVIOUS
  <2>1. ScheduleInv
    BY DEF CloudInv
  <2>2. CASE UNCHANGED <<schedule, busyUntil>>
    BY <2>1, <2>2, ScheduleStays
  <2>3. ASSUME handling # NoRequest, handling.now \in Nat,
               NEW n \in Configured, NEW k \in Candidate, Add(n, k, handling.now)
        PROVE  \A m \in Configured :
                 /\ busyUntil'[m] >= busyUntil[m]
                 /\ \A s \in DOMAIN schedule[m] :
                       \/ /\ s \in DOMAIN schedule'[m]
                          /\ schedule'[m][s].finish >= schedule[m][s].finish
                       \/ handling # NoRequest /\ schedule[m][s].finish < handling.now
    BY <2>1, <2>3, AddInv
  <2> QED
    BY <2>2, <2>3, NextInv
<1> QED
  BY <1>1, Invariance, PTL DEF Spec, BookingsKept

-----------------------------------------------------------------------------
(* The order of promises.  It is kept by segmentIdx, which no promise of the *)
(* route being handled has passed, except what the answer to an offer will   *)
(* add; and a route is handled once.                                        *)

\* Of the promises P, those for route r are of the first `last` segments, to contacts
\* among the first `upTo` of the trip.
PromisedUpTo(P, r, last, upTo) ==
    \A p \in P : p.route = r =>
        /\ p.segment <= last
        /\ \E i \in 1..upTo : p.contact = Trip[r].contacts[i]

\* What is offered follows what was promised, and is still to be played.
OfferFollows ==
    LET before == handling.next - handling.tentative
    IN  /\ PromisedUpTo(promised, handling.route, before, handling.at - 1)
        /\ before >= CurrentContact.arrival - Trip[handling.route].start
        /\ \A i \in 1..Len(handling.offer) : handling.offer[i].segment = before + i

OrderInv ==
    /\ PromisedInOrder
    /\ \A p \in promised : p.route \in handled
    /\ handling.step \in {"contact", "reply", "book"} => handling.route \in handled
    /\ handling.step = "contact" =>
          PromisedUpTo(promised, handling.route, handling.next, handling.at - 1)
    /\ handling.step = "reply" => OfferFollows
    /\ handling.step = "book" =>
          PromisedUpTo(promised, handling.route, handling.next, handling.at)

\* At first nothing is offered or promised.
LEMMA InitOrder == Init => OrderInv
  BY DEF Init, OrderInv, PromisedInOrder, NoRequest

\* The contacts of a trip come one after the other.
LEMMA InTurn ==
    ASSUME NEW r \in Routes, NEW i \in DOMAIN Trip[r].contacts, NEW j \in DOMAIN Trip[r].contacts,
           Trip[r].contacts[j].arrival < Trip[r].contacts[i].arrival
    PROVE  j < i
<1> DEFINE c == Trip[r].contacts[i]
           d == Trip[r].contacts[j]
<1>1. c.arrival \in Nat /\ c.duration \in Nat /\ d.arrival \in Nat
  BY TripType
<1>3. i \in Nat /\ j \in Nat
  <2>1. DOMAIN Trip[r].contacts = 1..Len(Trip[r].contacts) /\ Len(Trip[r].contacts) \in Nat
    BY TripType
  <2>2. i \in 1..Len(Trip[r].contacts) /\ j \in 1..Len(Trip[r].contacts)
    BY <2>1
  <2> QED
    BY <2>1, <2>2
<1>2. i < j => c.arrival + c.duration <= d.arrival
  BY CloudAssumption DEF CloudAssumption
<1> QED
  BY <1>1, <1>2, <1>3

\* Steps that promise nothing and move on to no other contact.
LEMMA OrderStays ==
    ASSUME OrderInv, UNCHANGED <<handled, promised>>,
           handling' = handling \/ handling'.step \in {"idle", "missed"}
    PROVE  OrderInv'
<1>1. /\ PromisedInOrder' /\ \A p \in promised' : p.route \in handled'
  BY DEF OrderInv, PromisedInOrder
<1>2. CASE handling' = handling
  BY <1>1, <1>2 DEF OrderInv, PromisedUpTo, OfferFollows, CurrentContact
<1>3. CASE handling'.step \in {"idle", "missed"}
  BY <1>1, <1>3 DEF OrderInv
<1> QED
  BY <1>2, <1>3

\* A request that comes in has been promised nothing.
LEMMA OrderOfRequest ==
    ASSUME OrderInv, NEW r \in Routes, HandleVideoRequest(r)
    PROVE  OrderInv'
<1>1. handling'.step = "contact" /\ handling'.route = r /\ handled' = handled \cup {r}
  BY DEF HandleVideoRequest
<1>2. promised' = promised /\ \A p \in promised : p.route # r
  BY DEF HandleVideoRequest, OrderInv
<1> QED
  BY <1>1, <1>2 DEF OrderInv, PromisedInOrder, PromisedUpTo

\* The promises stay behind when the scheduler moves on.
LEMMA MovedOn ==
    ASSUME NEW P, NEW r, NEW l \in Int, NEW u \in Int, NEW k \in Int, NEW v \in Int,
           l <= k, u <= v, PromisedUpTo(P, r, l, u), \A p \in P : p.segment \in Int
    PROVE  PromisedUpTo(P, r, k, v)
<1> SUFFICES ASSUME NEW p \in P, p.route = r
             PROVE  p.segment <= k /\ \E i \in 1..v : p.contact = Trip[r].contacts[i]
  BY DEF PromisedUpTo
<1>1. p.segment <= l /\ p.segment \in Int
  BY DEF PromisedUpTo
<1>2. PICK i \in 1..u : p.contact = Trip[r].contacts[i]
  BY DEF PromisedUpTo
<1>3. i \in 1..v
  OBVIOUS
<1> QED
  BY <1>1, <1>2, <1>3

\* A contact is passed over, a committed segment is booked, or all have been.
LEMMA OrderOfMove ==
    ASSUME CloudInv, OrderInv, SkipContact \/ BookSegment \/ ContactDone
    PROVE  OrderInv'
<1>1. promised' = promised /\ handled' = handled /\ \A p \in promised : p.segment \in Int
  BY DEF SkipContact, BookSegment, ContactDone, CloudInv, TypeOK, Segments
<1>2. PromisedInOrder' /\ \A p \in promised' : p.route \in handled'
  BY <1>1 DEF OrderInv, PromisedInOrder
<1>3. CASE SkipContact
  <2>1. handling \in AtContact
    BY <1>3 DEF SkipContact, CloudInv, TypeOK, HandlingType, NoRequest, AtReply, AtBook, AtMissed
  <2>2. /\ handling'.step = "contact" /\ handling'.route = handling.route
        /\ handling'.at = handling.at + 1 /\ handling'.next = handling.next
        /\ handling.at \in Int /\ handling.next \in Int
    BY <1>3, <2>1 DEF SkipContact, AtContact
  <2>3. /\ PromisedUpTo(promised, handling.route, handling.next, handling.at - 1)
        /\ handling.route \in handled
    BY <2>1 DEF OrderInv, AtContact
  <2>4. PromisedUpTo(promised', handling'.route, handling'.next, handling'.at - 1)
    BY <1>1, <2>2, <2>3, MovedOn
  <2> QED
    BY <1>1, <1>2, <2>2, <2>3, <2>4 DEF OrderInv
<1>4. CASE BookSegment \/ ContactDone
  <2>1. handling \in AtBook
    BY <1>4 DEF BookSegment, ContactDone, CloudInv, TypeOK, HandlingType, NoRequest, AtContact,
       AtReply, AtMissed
  <2>2. /\ PromisedUpTo(promised, handling.route, handling.next, handling.at)
        /\ handling.route \in handled
    BY <2>1 DEF OrderInv, AtBook
  <2>3. handling.at \in Int /\ handling.next \in Int
    BY <2>1 DEF AtBook
  <2>4. handling'.route = handling.route /\ handling'.next = handling.next
    BY <1>4, <2>1 DEF BookSegment, ContactDone, AtBook
  <2>5. \/ handling'.step = "book" /\ handling'.at = handling.at
        \/ handling'.step = "contact" /\ handling'.at = handling.at + 1
    BY <1>4, <2>1 DEF BookSegment, ContactDone, AtBook
  <2>6. /\ handling'.step = "book" =>
              PromisedUpTo(promised', handling'.route, handling'.next, handling'.at)
        /\ handling'.step = "contact" =>
              PromisedUpTo(promised', handling'.route, handling'.next, handling'.at - 1)
    BY <1>1, <2>2, <2>3, <2>4, <2>5, MovedOn
  <2> QED
    BY <1>1, <1>2, <2>2, <2>4, <2>5, <2>6 DEF OrderInv
<1> QED
  BY <1>3, <1>4

\* What is offered follows what was promised.
LEMMA OrderOfOffer ==
    ASSUME CloudInv, OrderInv, Offer
    PROVE  OrderInv'
<1>1. promised' = promised /\ handled' = handled /\ \A p \in promised : p.segment \in Int
  BY DEF Offer, CloudInv, TypeOK, Segments
<1>2. PromisedInOrder' /\ \A p \in promised' : p.route \in handled'
  BY <1>1 DEF OrderInv, PromisedInOrder
<1>3. handling \in AtContact
  BY DEF Offer, CloudInv, TypeOK, HandlingType, NoRequest, AtReply, AtBook, AtMissed
<1>4. handling.at \in Int /\ handling.next \in Int
  BY <1>3 DEF AtContact
<1>5. /\ PromisedUpTo(promised, handling.route, handling.next, handling.at - 1)
      /\ handling.route \in handled
  BY <1>3 DEF OrderInv, AtContact
<1>6. CloudInv' /\ OfferMoves
  BY OfferInv
<1>7. CASE handling'.step = "contact"
  <2>1. handling' \in AtContact
    BY <1>6, <1>7 DEF CloudInv, TypeOK, HandlingType, NoRequest, AtReply, AtBook, AtMissed
  <2>2. /\ handling'.at = handling.at + 1 /\ handling'.next >= handling.next
        /\ handling'.next \in Int /\ handling'.route = handling.route
    BY <1>6, <1>7, <2>1 DEF OfferMoves, AtContact
  <2>3. PromisedUpTo(promised', handling'.route, handling'.next, handling'.at - 1)
    <3>1. handling'.at - 1 \in Int /\ handling.at - 1 \in Int /\ handling.at - 1 <= handling'.at - 1
      BY <1>4, <2>2
    <3> QED
      BY <1>1, <1>4, <1>5, <2>2, <3>1, MovedOn
  <2> QED
    BY <1>1, <1>2, <1>5, <1>7, <2>2, <2>3 DEF OrderInv
<1>8. CASE handling'.step = "reply"
  <2> DEFINE before == handling'.next - handling'.tentative
  <2>1. handling' \in AtReply
    BY <1>6, <1>8 DEF CloudInv, TypeOK, HandlingType, NoRequest, AtContact, AtBook, AtMissed
  <2>2. /\ handling'.at = handling.at /\ handling'.route = handling.route
        /\ before >= handling.next
        /\ before >= CurrentContact.arrival - Trip[handling.route].start
        /\ \A i \in 1..Len(handling'.offer) : handling'.offer[i].segment = before + i
    BY <1>6, <1>8 DEF OfferMoves
  <2>3. before \in Int
    BY <2>1 DEF AtReply
  <2>4. PromisedUpTo(promised', handling'.route, before, handling'.at - 1)
    <3> HIDE DEF before
    <3> QED
      BY <1>1, <1>4, <1>5, <2>2, <2>3, MovedOn
  <2>5. CurrentContact' = CurrentContact
    BY <2>2 DEF CurrentContact
  <2>6. OfferFollows'
    BY <2>2, <2>4, <2>5 DEF OfferFollows
  <2> QED
    BY <1>1, <1>2, <1>5, <1>8, <2>2, <2>6 DEF OrderInv
<1> QED
  BY <1>6, <1>7, <1>8 DEF OfferMoves

\* What a node commits to comes after what it and the others were promised.
LEMMA OrderOfReply ==
    ASSUME CloudInv, OrderInv, NEW count \in 0..VideoLength, NEW evicted,
           EdgeReply(count, evicted) \/ EdgeFails(count)
    PROVE  OrderInv'
<1> DEFINE before == handling.next - handling.tentative
           r == handling.route
           new == Promises(SubSeq(handling.offer, 1, count))
<1>1. handling.step = "reply" /\ count <= Len(handling.offer)
  BY DEF EdgeReply, EdgeFails
<1>2. handling \in AtReply /\ count \in Nat
  BY <1>1, PromisesType, CloudAssumption DEF CloudAssumption
<1>3. /\ r \in Routes /\ handling.at \in handling.open /\ handling.at \in DOMAIN Trip[r].contacts
      /\ handling.at \in Nat /\ before \in Int /\ handling.offer \in Seq(Candidate)
  BY <1>1, <1>2 DEF CloudInv, TypeOK, HandlingType, AtReply
<1>4. OfferFollows /\ r \in handled
  BY <1>1 DEF OrderInv
<1>5. promised' = promised \cup new /\ handled' = handled
  BY DEF EdgeReply, EdgeFails
<1>6. \A p \in new : /\ p.route = r /\ p.contact = CurrentContact
                     /\ p.segment \in before + 1..before + count
  <2> DEFINE cs == SubSeq(handling.offer, 1, count)
  <2>1. Len(cs) = count /\ \A i \in 1..count : cs[i] = handling.offer[i]
    <3>1. handling.offer \in Seq(Candidate) /\ Len(handling.offer) \in Nat
      BY <1>3, LenProperties
    <3>2. \A i \in 1..count : handling.offer[i] \in Candidate
      BY <1>1, <1>2, <3>1, ElementOfSeq
    <3> QED
      BY <1>2, <3>2, SubSeqProperties
  <2>2. DOMAIN cs = 1..count
    <3>1. cs \in Seq(Candidate)
      BY <1>1, PromisesType
    <3> HIDE DEF cs
    <3> QED
      BY <2>1, <3>1, LenProperties
  <2>3. \A i \in 1..count : handling.offer[i].segment = before + i
    <3>1. Len(handling.offer) \in Nat
      BY <1>3, LenProperties
    <3> QED
      BY <1>1, <1>2, <1>4, <3>1 DEF OfferFollows
  <2> HIDE DEF cs, before
  <2>4. \A k \in ToSet(cs) : k.segment \in before + 1..before + count
    BY <1>2, <1>3, <2>1, <2>2, <2>3 DEF ToSet
  <2> QED
    BY <2>4 DEF Promises, cs
<1>7. /\ CurrentContact = Trip[r].contacts[handling.at]
      /\ before >= CurrentContact.arrival - Trip[r].start
      /\ CurrentContact.arrival \in Nat /\ Trip[r].start \in Nat
  BY <1>3, <1>4, TripType DEF OfferFollows, CurrentContact
<1>8. \A p \in promised : p.route = r =>
          /\ p.segment \in Int /\ p.segment <= before
          /\ \E i \in 1..handling.at - 1 : p.contact = Trip[r].contacts[i]
  <2>1. PromisedUpTo(promised, r, before, handling.at - 1)
    BY <1>4 DEF OfferFollows
  <2>2. \A p \in promised : p.segment \in Segments
    BY DEF CloudInv, TypeOK
  <2>3. \A p \in promised : p.segment \in Int
    BY <2>2 DEF Segments
  <2> QED
    BY <2>1, <2>3 DEF PromisedUpTo
<1> HIDE DEF new, before, r
<1>9. \A p \in promised : p.route = r => ~(CurrentContact.arrival < p.contact.arrival)
  <2> SUFFICES ASSUME NEW p \in promised, p.route = r, CurrentContact.arrival < p.contact.arrival
               PROVE  FALSE
    OBVIOUS
  <2>1. PICK i \in 1..handling.at - 1 : p.contact = Trip[r].contacts[i]
    BY <1>8
  <2>2. i \in DOMAIN Trip[r].contacts
    <3>1. DOMAIN Trip[r].contacts = 1..Len(Trip[r].contacts) /\ Len(Trip[r].contacts) \in Nat
      BY <1>3, TripType
    <3>2. handling.at \in 1..Len(Trip[r].contacts)
      BY <1>3, <3>1
    <3> QED
      BY <1>3, <2>1, <3>1, <3>2
  <2>3. handling.at < i
    BY <1>3, <1>7, <2>1, <2>2, InTurn
  <2> QED
    BY <1>3, <2>1, <2>3
<1>10. PromisedInOrder'
  <2> SUFFICES ASSUME NEW p \in promised \cup new
               PROVE  /\ p.segment > p.contact.arrival - Trip[p.route].start
                      /\ \A q \in promised \cup new :
                            p.route = q.route /\ p.contact.arrival < q.contact.arrival
                                => p.segment < q.segment
    BY <1>5 DEF PromisedInOrder
  <2>1. CASE p \in promised
    <3>1. /\ p.segment > p.contact.arrival - Trip[p.route].start
          /\ \A q \in promised : p.route = q.route /\ p.contact.arrival < q.contact.arrival
                => p.segment < q.segment
      BY <2>1 DEF OrderInv, PromisedInOrder
    <3>2. \A q \in new : p.route = q.route => p.segment < q.segment
      BY <1>2, <1>3, <1>6, <1>8, <2>1
    <3> QED
      BY <3>1, <3>2
  <2>2. CASE p \in new
    <3>1. p.segment > p.contact.arrival - Trip[p.route].start
      <4>1. /\ p.route = r /\ p.contact.arrival = CurrentContact.arrival
            /\ p.segment \in before + 1..before + count
        BY <1>6, <2>2
      <4>2. p.segment > before /\ p.segment \in Int
        BY <1>2, <1>3, <4>1
      <4>3. before >= CurrentContact.arrival - Trip[p.route].start
            /\ CurrentContact.arrival - Trip[p.route].start \in Int
        BY <1>7, <4>1
      <4> DEFINE played == CurrentContact.arrival - Trip[p.route].start
      <4>4. p.contact.arrival - Trip[p.route].start = played
        BY <4>1
      <4>5. before >= played /\ played \in Int
        BY <4>3
      <4> HIDE DEF played
      <4>6. p.segment > played
        BY <1>3, <4>2, <4>5
      <4> QED
        BY <4>4, <4>6
    <3>2. \A q \in promised \cup new : p.route = q.route => ~(p.contact.arrival < q.contact.arrival)
      BY <1>6, <1>7, <1>9, <2>2
    <3> QED
      BY <3>1, <3>2
  <2> QED
    BY <2>1, <2>2
<1>11. \A p \in promised' : p.route \in handled'
  BY <1>4, <1>5, <1>6 DEF OrderInv
<1>12. CASE EdgeFails(count)
  BY <1>10, <1>11, <1>12 DEF EdgeFails, NoRequest, OrderInv
<1>13. CASE EdgeReply(count, evicted)
  <2>1. /\ handling'.step = "book" /\ handling'.route = r /\ handling'.at = handling.at
        /\ handling'.next = handling.next - (handling.tentative - count)
    BY <1>13 DEF EdgeReply, r
  <2>2. handling'.next = before + count
    BY <1>2, <2>1 DEF AtReply, before
  <2>3. PromisedUpTo(promised', handling'.route, before + count, handling.at)
    <3> SUFFICES ASSUME NEW p \in promised \cup new, p.route = r
                 PROVE  /\ p.segment <= before + count
                        /\ \E i \in 1..handling.at : p.contact = Trip[r].contacts[i]
      BY <1>5, <2>1 DEF PromisedUpTo
    <3>1. CASE p \in promised
      BY <1>2, <1>3, <1>8, <3>1
    <3>2. CASE p \in new
      <4>1. p.segment <= before + count
        BY <1>2, <1>3, <1>6, <3>2
      <4>2. handling.at \in 1..handling.at
        <5>1. DOMAIN Trip[r].contacts = 1..Len(Trip[r].contacts)
          BY <1>3, TripType
        <5>2. handling.at \in 1..Len(Trip[r].contacts)
          BY <1>3, <5>1
        <5> QED
          BY <1>3, <5>2
      <4> QED
        BY <1>6, <1>7, <3>2, <4>1, <4>2
    <3> QED
      BY <3>1, <3>2
  <2> QED
    BY <1>4, <1>5, <1>10, <1>11, <2>1, <2>2, <2>3 DEF OrderInv
<1> QED
  BY <1>12, <1>13

\* Every step keeps the order.
LEMMA NextOrder ==
    ASSUME CloudInv, OrderInv, [Next]_vars
    PROVE  OrderInv'
<1>1. CASE UNCHANGED vars
  BY <1>1, OrderStays DEF vars
<1>2. CASE \E r \in Routes : HandleVideoRequest(r)
  BY <1>2, OrderOfRequest
<1>3. CASE Offer
  BY <1>3, OrderOfOffer
<1>4. CASE SkipContact \/ BookSegment \/ ContactDone
  BY <1>4, OrderOfMove
<1>5. CASE RequestDone
  BY <1>5, OrderStays DEF RequestDone, NoRequest
<1>6. CASE \E count \in 0..VideoLength :
              EdgeFails(count) \/ \E evicted \in Reported : EdgeReply(count, evicted)
  BY <1>6, OrderOfReply
<1>7. CASE \E r \in Routes, missed \in Contacts :
              LET held == {p.segment : p \in {q \in promised : q.route = r /\ q.contact = missed}}
              IN  \E S \in SUBSET held \ {{}} : HandleMissedDelivery(r, missed, S)
  BY <1>7, OrderStays DEF HandleMissedDelivery
<1>8. CASE \E s \in Segments : ForwardSegment(s)
  <2>1. PICK s \in Segments : ForwardSegment(s)
    BY <1>8
  <2>2. handling \in AtMissed
    BY <2>1 DEF ForwardSegment, CloudInv, TypeOK, HandlingType, NoRequest,
                AtContact, AtReply, AtBook
  <2>3. handling'.step = "missed" /\ handled' = handled /\ promised' = promised
    BY <2>1, <2>2 DEF ForwardSegment, AtMissed
  <2> QED
    BY <2>3, OrderStays
<1>9. CASE \E evicted \in Reported : MissedDone(evicted)
  BY <1>9, OrderStays DEF MissedDone, NoRequest
<1> QED
  BY <1>1, <1>2, <1>3, <1>4, <1>5, <1>6, <1>7, <1>8, <1>9 DEF Next

\* Along a route the promises go up with the contacts, and none is of a segment that
\* has been played when its contact comes: what a node does not commit to is given
\* back, so that the next node's share starts where the last one's ended
\* (DownloadManager.py:309-383).
THEOREM PromisesInOrder == Spec => []PromisedInOrder
<1>1. Init => OrderInv
  BY InitOrder
<1>2. CloudInv /\ OrderInv /\ [Next]_vars => OrderInv'
  BY NextOrder
<1>3. OrderInv => PromisedInOrder
  BY DEF OrderInv
<1> QED
  BY <1>1, <1>2, <1>3, Invariance, PTL DEF Spec

-----------------------------------------------------------------------------
(* Induction, and functions defined by recursion over numbers.             *)

\* A set of naturals that has 0 and, with each number, the next, has them all: the
\* numbers up to which none is missing cannot be finitely many.
LEMMA Induction ==
    ASSUME NEW A \in SUBSET Nat, 0 \in A, \A n \in A : n + 1 \in A
    PROVE  A = Nat
<1> DEFINE D == {n \in Nat : \A k \in 0..n : k \in A}
           E == D \ {0}
           f == [n \in D |-> n + 1]
<1>1. 0 \in D
  OBVIOUS
<1>2. \A n \in D : n + 1 \in D
  <2> SUFFICES ASSUME NEW n \in D, NEW k \in 0..n + 1
               PROVE  k \in A
    OBVIOUS
  <2>1. CASE k = n + 1
    BY <2>1
  <2>2. CASE k # n + 1
    BY <2>2
  <2> QED
    BY <2>1, <2>2
<1>3. SUFFICES ASSUME NEW m \in Nat, m \notin A
               PROVE  FALSE
  OBVIOUS
<1>4. IsFiniteSet(D)
  <2>1. D \in SUBSET Nat /\ \A n \in D : n <= m
    BY <1>3
  <2> HIDE DEF D
  <2> QED
    BY <2>1, FS_BoundedSetOfNaturals
<1>5. IsFiniteSet(E) /\ Cardinality(E) = Cardinality(D) - 1 /\ Cardinality(D) \in Nat
  <2> HIDE DEF D
  <2> QED
    BY <1>1, <1>4, FS_RemoveElement, FS_CardinalityType
<1>6. f \in [D -> E]
  <2> SUFFICES ASSUME NEW n \in D
               PROVE  n + 1 \in E
    OBVIOUS
  <2> QED
    BY <1>2
<1>7. PICK x \in D, y \in D : x # y /\ f[x] = f[y]
  <2> HIDE DEF D, E, f
  <2> QED
    BY <1>4, <1>5, <1>6, FS_PigeonHole
<1> QED
  BY <1>7

\* Every set of naturals has a least element.
LEMMA Least ==
    ASSUME NEW S \in SUBSET Nat, S # {}
    PROVE  \E m \in S : \A x \in S : m <= x
<1> SUFFICES ASSUME \A m \in S : \E x \in S : x < m
             PROVE  FALSE
  OBVIOUS
<1> DEFINE A == {n \in Nat : \A x \in S : n < x}
<1>1. 0 \in A
  OBVIOUS
<1>2. \A n \in A : n + 1 \in A
  <2> SUFFICES ASSUME NEW n \in Nat, \A x \in S : n < x, NEW y \in S, ~(n + 1 < y)
               PROVE  FALSE
    OBVIOUS
  <2>1. PICK z \in S : z < y
    OBVIOUS
  <2> QED
    BY <2>1
<1>3. A = Nat
  <2> HIDE DEF A
  <2> QED
    BY <1>1, <1>2, Induction DEF A
<1>4. PICK y \in S : y \in A
  <2> HIDE DEF A
  <2> QED
    BY <1>3
<1>5. y < y /\ y \in Nat
  BY <1>4
<1> QED
  BY <1>5

\* And, when it is bounded, a greatest one.
LEMMA Greatest ==
    ASSUME NEW S \in SUBSET Nat, S # {}, NEW b \in Nat, \A x \in S : x <= b
    PROVE  \E m \in S : \A x \in S : x <= m
<1> DEFINE T == {b - x : x \in S}
<1>1. T \in SUBSET Nat /\ T # {}
  <2>1. \A x \in S : b - x \in Nat
    OBVIOUS
  <2> QED
    BY <2>1
<1>2. PICK t \in T : \A y \in T : t <= y
  <2> HIDE DEF T
  <2> QED
    BY <1>1, Least
<1>3. PICK m \in S : t = b - m
  OBVIOUS
<1>4. \A x \in S : b - m <= b - x
  BY <1>2, <1>3
<1> QED
  BY <1>4

\* So what Min and Max are defined to be, they are.
LEMMA MinIsLeast ==
    ASSUME NEW S \in SUBSET Nat, S # {}
    PROVE  Min(S) \in S /\ \A x \in S : Min(S) <= x
  BY Least DEF Min

\* For Max the set has to be bounded.
LEMMA MaxIsGreatest ==
    ASSUME NEW S \in SUBSET Nat, S # {}, NEW b \in Nat, \A x \in S : x <= b
    PROVE  Max(S) \in S /\ \A x \in S : x <= Max(S)
  BY Greatest DEF Max

\* A function is defined by its first value and a step from each value to the next.
Built(a, b, n, F, g) == g = [i \in b..n |-> IF i = b THEN a ELSE F[<<g[i - 1], i>>]]

Closed(V, b, n, F) == \A v \in V, i \in b..n : i # b => F[<<v, i>>] \in V

\* There is such a function, and its values are in V when the first one is and each step
\* stays in V.
LEMMA Recursion ==
    ASSUME NEW V, NEW a \in V, NEW b \in Nat, NEW n \in Nat, b <= n,
           NEW F, Closed(V, b, n, F)
    PROVE  \E g \in [b..n -> V] : Built(a, b, n, F, g)
<1> USE DEF Closed, Built
<1> DEFINE Upto(k) == \E g \in [b..b + k -> V] :
                         g = [i \in b..b + k |-> IF i = b THEN a ELSE F[<<g[i - 1], i>>]]
           A == {k \in Nat : b + k <= n => Upto(k)}
<1>1. 0 \in A
  <2> DEFINE g == [i \in b..b + 0 |-> a]
  <2>1. g \in [b..b + 0 -> V] /\ g = [i \in b..b + 0 |-> IF i = b THEN a ELSE F[<<g[i - 1], i>>]]
    OBVIOUS
  <2> QED
    BY <2>1
<1>2. \A k \in A : k + 1 \in A
  <2> SUFFICES ASSUME NEW k \in Nat, k \in A, b + (k + 1) <= n
               PROVE  Upto(k + 1)
    <3> HIDE DEF Upto
    <3> QED
      OBVIOUS
  <2>1. Upto(k)
    <3> HIDE DEF Upto
    <3> QED
      OBVIOUS
  <2>2. PICK g \in [b..b + k -> V] :
               g = [i \in b..b + k |-> IF i = b THEN a ELSE F[<<g[i - 1], i>>]]
    BY <2>1
  <2> DEFINE h == [i \in b..b + (k + 1) |-> IF i = b + (k + 1) THEN F[<<g[b + k], i>>] ELSE g[i]]
  <2>3. h \in [b..b + (k + 1) -> V]
    BY <2>2
  <2>4. \A i \in b..b + (k + 1) : h[i] = IF i = b THEN a ELSE F[<<h[i - 1], i>>]
    <3> SUFFICES ASSUME NEW i \in b..b + (k + 1)
                 PROVE  h[i] = IF i = b THEN a ELSE F[<<h[i - 1], i>>]
      OBVIOUS
    <3>1. CASE i = b
      BY <2>2, <3>1
    <3>2. CASE i # b
      <4>1. i - 1 \in b..b + k /\ h[i - 1] = g[i - 1]
        BY <3>2
      <4>2. CASE i = b + (k + 1)
        BY <3>2, <4>1, <4>2
      <4>3. CASE i # b + (k + 1)
        <5>1. i \in b..b + k /\ h[i] = g[i]
          BY <4>3
        <5> QED
          BY <2>2, <3>2, <4>1, <5>1
      <4> QED
        BY <4>2, <4>3
    <3> QED
      BY <3>1, <3>2
  <2>5. h = [i \in b..b + (k + 1) |-> IF i = b THEN a ELSE F[<<h[i - 1], i>>]]
    BY <2>4
  <2> QED
    BY <2>3, <2>5
<1>3. A = Nat
  <2> HIDE DEF A
  <2> QED
    BY <1>1, <1>2, Induction DEF A
<1>4. n - b \in Nat /\ b + (n - b) = n
  OBVIOUS
<1>5. Upto(n - b)
  <2> HIDE DEF Upto
  <2> QED
    BY <1>3, <1>4
<1> QED
  BY <1>4, <1>5

-----------------------------------------------------------------------------
(* Contacts.                                                               *)

Interval == [node : Nodes, first : Nat, last : Nat]

\* Extended changes the end of the last interval and nothing else.
LEMMA ExtendedIs ==
    ASSUME NEW so \in Seq(Interval), so # <<>>, NEW i \in Nat
    PROVE  /\ Extended(so, i) \in Seq(Interval) /\ Len(Extended(so, i)) = Len(so)
           /\ \A k \in 1..Len(so) : /\ Extended(so, i)[k].node = so[k].node
                                    /\ Extended(so, i)[k].first = so[k].first
                                    /\ Extended(so, i)[k].last = IF k = Len(so) THEN i
                                                                ELSE so[k].last
<1> DEFINE n == Len(so)
           e == [node |-> so[n].node, first |-> so[n].first, last |-> i]
<1>1. so \in [1..n -> Interval] /\ n \in Nat /\ n \in 1..n
  BY EmptySeq, LenProperties
<1>2. so[n] \in Interval
  BY <1>1
<1>3. e \in Interval /\ [so[n] EXCEPT !.last = i] = e
  BY <1>1, <1>2 DEF Interval
<1>4. e.node = so[n].node /\ e.first = so[n].first /\ e.last = i
  OBVIOUS
<1>5. Extended(so, i) = [so EXCEPT ![n] = e]
  BY <1>1, <1>3 DEF Extended
<1> HIDE DEF n, e
<1>6. Extended(so, i) \in Seq(Interval) /\ Len(Extended(so, i)) = n
      /\ \A k \in 1..n : Extended(so, i)[k] = IF k = n THEN e ELSE so[k]
  BY <1>1, <1>3, <1>5, ExceptSeq DEF n
<1> QED
  BY <1>4, <1>6 DEF n

\* How the intervals up to a point cover it: each is of points with its node, they are
\* in order, no point with a node is left out, and the last one is still going on.
Cover(drive, so, i) ==
    /\ so \in Seq(Interval)
    /\ \A k \in 1..Len(so) :
          /\ 1 <= so[k].first /\ so[k].first <= so[k].last /\ so[k].last <= i
          /\ \A p \in so[k].first..so[k].last : drive[p].node = so[k].node
    /\ \A k, l \in 1..Len(so) : k < l => so[k].last < so[l].first
    /\ \A p \in 1..i : drive[p].node # None =>
          \E k \in 1..Len(so) : p \in so[k].first..so[k].last
    /\ i > 0 /\ drive[i].node # None => so # <<>> /\ so[Len(so)].last = i

\* What Append gives.
LEMMA AppendIs ==
    ASSUME NEW S, NEW so \in Seq(S), NEW e \in S
    PROVE  /\ Append(so, e) \in Seq(S) /\ Len(Append(so, e)) = Len(so) + 1
           /\ \A k \in 1..Len(so) : Append(so, e)[k] = so[k]
           /\ Append(so, e)[Len(so) + 1] = e /\ Append(so, e) # <<>>
  OBVIOUS

\* Another point, with the last interval extended or another one begun, keeps the cover.
LEMMA CoverStep ==
    ASSUME NEW drive \in Seq(RoutePoint), NEW i \in 1..Len(drive), NEW so,
           Cover(drive, so, i - 1)
    PROVE  Cover(drive, WithPoint(drive, so, i), i)
<1>0. so \in Seq(Interval) /\ Len(so) \in Nat /\ i \in Nat
      /\ \A k \in 1..Len(so) : so[k] \in Interval
  BY LenProperties, ElementOfSeq DEF Cover
<1>1. drive[i] \in RoutePoint /\ (i > 1 => drive[i - 1] \in RoutePoint)
  BY ElementOfSeq, LenProperties
<1>5. \A p \in 1..i - 1 : drive[p].node # None =>
         \E k \in 1..Len(so) : p \in so[k].first..so[k].last
  BY DEF Cover
<1>2. CASE drive[i].node = None
  <2>1. WithPoint(drive, so, i) = so
    BY <1>2 DEF WithPoint
  <2>2. \A k \in 1..Len(so) : so[k].last \in Nat /\ (so[k].last <= i - 1 => so[k].last <= i)
    BY <1>0 DEF Interval
  <2>3. \A p \in 1..i : drive[p].node # None => p \in 1..i - 1
    BY <1>0, <1>2
  <2> QED
    BY <1>0, <1>2, <2>1, <2>2, <2>3 DEF Cover
<1>3. CASE drive[i].node # None /\ i > 1 /\ drive[i].node = drive[i - 1].node
  <2> DEFINE t == Extended(so, i)
  <2>1. so # <<>> /\ so[Len(so)].last = i - 1 /\ Len(so) \in 1..Len(so)
    BY <1>0, <1>3, EmptySeq DEF Cover
  <2>2. /\ t \in Seq(Interval) /\ Len(t) = Len(so) /\ t # <<>>
        /\ \A k \in 1..Len(so) : /\ t[k].node = so[k].node /\ t[k].first = so[k].first
                                 /\ t[k].last = IF k = Len(so) THEN i ELSE so[k].last
    <3>1. t \in Seq(Interval) /\ Len(t) = Len(so)
      BY <1>0, <2>1, ExtendedIs
    <3>2. t # <<>>
      <4> HIDE DEF t
      <4> QED
        BY <1>0, <2>1, <3>1
    <3> QED
      BY <1>0, <2>1, <3>1, <3>2, ExtendedIs
  <2>3. WithPoint(drive, so, i) = t
    BY <1>3 DEF WithPoint
  <2> HIDE DEF t
  <2>4. \A k \in 1..Len(t) : /\ 1 <= t[k].first /\ t[k].first <= t[k].last /\ t[k].last <= i
                            /\ \A p \in t[k].first..t[k].last : drive[p].node = t[k].node
    <3> SUFFICES ASSUME NEW k \in 1..Len(t)
                 PROVE  /\ 1 <= t[k].first /\ t[k].first <= t[k].last /\ t[k].last <= i
                        /\ \A p \in t[k].first..t[k].last : drive[p].node = t[k].node
      OBVIOUS
    <3>1. so[k].first \in Nat /\ so[k].last \in Nat
      BY <1>0, <2>2 DEF Interval
    <3>2. CASE k # Len(so)
      BY <1>0, <2>2, <3>1, <3>2 DEF Cover
    <3>3. CASE k = Len(so)
      <4>1. /\ 1 <= so[k].first /\ so[k].first <= i - 1
            /\ \A p \in so[k].first..i - 1 : drive[p].node = so[k].node
        BY <1>0, <2>1, <2>2, <3>3 DEF Cover
      <4>2. drive[i].node = so[k].node
        BY <1>0, <1>3, <3>1, <4>1
      <4>3. t[k].last = i /\ t[k].first = so[k].first /\ t[k].node = so[k].node
        BY <2>2, <3>3
      <4>4. \A p \in so[k].first..i : p = i \/ p \in so[k].first..i - 1
        BY <1>0, <3>1
      <4> QED
        BY <1>0, <3>1, <4>1, <4>2, <4>3, <4>4
    <3> QED
      BY <3>2, <3>3
  <2>5. \A k, l \in 1..Len(t) : k < l => t[k].last < t[l].first
    BY <1>0, <2>2 DEF Cover
  <2>6. ASSUME NEW p \in 1..i, drive[p].node # None
        PROVE  \E k \in 1..Len(t) : p \in t[k].first..t[k].last
    <3>1. CASE p = i
      <4>1. t[Len(t)].last = i /\ t[Len(t)].first <= i /\ t[Len(t)].first \in Nat
        BY <1>0, <2>1, <2>2, <2>4 DEF Interval
      <4> QED
        BY <2>1, <2>2, <3>1, <4>1, <1>0
    <3>2. CASE p # i
      <4>0. p \in 1..i - 1
        BY <1>0, <3>2
      <4>1. PICK k \in 1..Len(so) : p \in so[k].first..so[k].last
        BY <1>5, <2>6, <4>0
      <4>2. so[k].last \in Nat /\ so[k].first \in Nat /\ so[k].last <= i
        <5>1. so[k].last \in Nat /\ so[k].first \in Nat /\ so[k].last <= i - 1
          BY <1>0 DEF Cover, Interval
        <5> QED
          BY <1>0, <5>1
      <4>3. so[k].last <= t[k].last /\ t[k].first = so[k].first /\ t[k].last \in Nat
        BY <1>0, <2>2, <4>2
      <4> QED
        BY <2>2, <4>1, <4>2, <4>3
    <3> QED
      BY <3>1, <3>2
  <2> QED
    BY <2>1, <2>2, <2>3, <2>4, <2>5, <2>6 DEF Cover
<1>4. CASE drive[i].node # None /\ ~(i > 1 /\ drive[i].node = drive[i - 1].node)
  <2> DEFINE e == [node |-> drive[i].node, first |-> i, last |-> i]
             t == Append(so, e)
  <2>1. e \in Interval /\ e.first = i /\ e.last = i /\ e.node = drive[i].node
    BY <1>0, <1>1, <1>4 DEF Interval, RoutePoint
  <2>2. WithPoint(drive, so, i) = t
    BY <1>4 DEF WithPoint
  <2> HIDE DEF e
  <2>3. /\ t \in Seq(Interval) /\ Len(t) = Len(so) + 1 /\ t # <<>>
        /\ \A k \in 1..Len(so) : t[k] = so[k]
        /\ t[Len(so) + 1] = e
    BY <1>0, <2>1, AppendIs
  <2> HIDE DEF t
  <2>4. \A k \in 1..Len(t) : k # Len(so) + 1 => k \in 1..Len(so)
    BY <1>0, <2>3
  <2>5. \A k \in 1..Len(so) : 
           /\ 1 <= so[k].first /\ so[k].first <= so[k].last /\ so[k].last <= i - 1
           /\ so[k].first \in Nat /\ so[k].last \in Nat
           /\ \A p \in so[k].first..so[k].last : drive[p].node = so[k].node
    BY <1>0 DEF Cover, Interval
  <2>6. \A k \in 1..Len(t) : /\ 1 <= t[k].first /\ t[k].first <= t[k].last /\ t[k].last <= i
                            /\ \A p \in t[k].first..t[k].last : drive[p].node = t[k].node
    <3> SUFFICES ASSUME NEW k \in 1..Len(t)
                 PROVE  /\ 1 <= t[k].first /\ t[k].first <= t[k].last /\ t[k].last <= i
                        /\ \A p \in t[k].first..t[k].last : drive[p].node = t[k].node
      OBVIOUS
    <3>1. CASE k = Len(so) + 1
      <4>1. t[k].first = i /\ t[k].last = i /\ t[k].node = drive[i].node
        BY <2>1, <2>3, <3>1
      <4>2. 1 <= i /\ \A p \in i..i : p = i
        BY <1>0
      <4> QED
        BY <1>0, <4>1, <4>2
    <3>2. CASE k # Len(so) + 1
      <4>1. k \in 1..Len(so) /\ t[k] = so[k]
        BY <2>3, <2>4, <3>2
      <4>2. so[k].last \in Nat /\ so[k].last <= i - 1
        BY <2>5, <4>1
      <4>3. so[k].last <= i
        BY <1>0, <4>2
      <4> QED
        BY <2>5, <4>1, <4>3
    <3> QED
      BY <3>1, <3>2
  <2>7. \A k, l \in 1..Len(t) : k < l => t[k].last < t[l].first
    <3> SUFFICES ASSUME NEW k \in 1..Len(t), NEW l \in 1..Len(t), k < l
                 PROVE  t[k].last < t[l].first
      OBVIOUS
    <3>1. k \in 1..Len(so)
      BY <1>0, <2>3
    <3>2. CASE l = Len(so) + 1
      BY <1>0, <2>1, <2>3, <2>5, <3>1, <3>2
    <3>3. CASE l # Len(so) + 1
      BY <1>0, <2>3, <2>4, <3>1, <3>3 DEF Cover
    <3> QED
      BY <3>2, <3>3
  <2>8. ASSUME NEW p \in 1..i, drive[p].node # None
        PROVE  \E k \in 1..Len(t) : p \in t[k].first..t[k].last
    <3>1. CASE p = i
      <4>1. Len(so) + 1 \in 1..Len(t) /\ i \in t[Len(so) + 1].first..t[Len(so) + 1].last
        BY <1>0, <2>1, <2>3
      <4> QED
        BY <3>1, <4>1
    <3>2. CASE p # i
      <4>0. p \in 1..i - 1
        BY <1>0, <3>2
      <4>1. PICK k \in 1..Len(so) : p \in so[k].first..so[k].last
        BY <1>5, <2>8, <4>0
      <4>2. k \in 1..Len(t) /\ t[k] = so[k]
        BY <1>0, <2>3
      <4> QED
        BY <4>1, <4>2
    <3> QED
      BY <3>1, <3>2
  <2>9. t[Len(t)].last = i
    BY <2>1, <2>3
  <2> QED
    BY <2>2, <2>3, <2>6, <2>7, <2>8, <2>9 DEF Cover
<1> QED
  BY <1>2, <1>3, <1>4
\* The intervals of the whole route, and of each part of it.
LEMMA ExtendedEmpty ==
    ASSUME NEW i
    PROVE  Extended(<<>>, i) \in Seq(Interval)
<1> DEFINE e == <<>>
<1>1. e \in Seq(Interval) /\ Len(e) = 0
  BY EmptySeq
<1>2. e \in [1..0 -> Interval]
  BY <1>1, LenProperties
<1>3. 1..0 = {}
  OBVIOUS
<1> HIDE DEF e
<1>4. Extended(e, i) \in [1..0 -> Interval]
  BY <1>2, <1>3 DEF Extended
<1>5. Extended(e, i) = e
  BY <1>2, <1>3, <1>4
<1> QED
  BY <1>1, <1>5 DEF e

\* The recursion of Intervals, unfolded: the function that it defines exists.
LEMMA IntervalsFollow ==
    ASSUME NEW drive \in Seq(RoutePoint)
    PROVE  /\ IntervalsUpTo(drive)[0] = <<>>
           /\ \A i \in 1..Len(drive) :
                 IntervalsUpTo(drive)[i] = WithPoint(drive, IntervalsUpTo(drive)[i - 1], i)
<1> DEFINE V == Seq(Interval)
           n == Len(drive)
           F == [p \in V \X (0..n) |-> IF p[2] = 0 THEN <<>> ELSE WithPoint(drive, p[1], p[2])]
           IsIt(f) == f = [i \in 0..n |-> IF i = 0 THEN <<>> ELSE WithPoint(drive, f[i - 1], i)]
<1>1. n \in Nat /\ <<>> \in V
  BY LenProperties, EmptySeq
<1>2. \A v \in V, i \in 0..n : i # 0 => F[<<v, i>>] = WithPoint(drive, v, i)
  OBVIOUS
<1>3. \A v \in V, i \in 0..n : i # 0 => WithPoint(drive, v, i) \in V
  <2> SUFFICES ASSUME NEW v \in V, NEW i \in 1..n
               PROVE  WithPoint(drive, v, i) \in V
    BY <1>1
  <2>1. drive[i] \in RoutePoint /\ i \in Nat
    BY ElementOfSeq
  <2>2. CASE drive[i].node = None
    BY <2>2 DEF WithPoint
  <2>3. CASE drive[i].node # None
    <3>1. [node |-> drive[i].node, first |-> i, last |-> i] \in Interval
      BY <2>1, <2>3 DEF Interval, RoutePoint
    <3>2. v # <<>> => Extended(v, i) \in V
      BY <2>1, ExtendedIs
    <3>3. v = <<>> => Extended(v, i) \in V
      BY <1>1, ExtendedEmpty
    <3> QED
      BY <2>3, <3>1, <3>2, <3>3, AppendIs DEF WithPoint
  <2> QED
    BY <2>2, <2>3
<1>4. PICK g \in [0..n -> V] : Built(<<>>, 0, n, F, g)
  <2>1. Closed(V, 0, n, F)
    BY <1>2, <1>3 DEF Closed
  <2>2. 0 \in Nat /\ 0 <= n
    BY <1>1
  <2> HIDE DEF F, V, n
  <2> QED
    BY <1>1, <2>1, <2>2, Recursion
<1>5. IsIt(g)
  <2>1. \A i \in 0..n : g[i] = IF i = 0 THEN <<>> ELSE WithPoint(drive, g[i - 1], i)
    <3> SUFFICES ASSUME NEW i \in 0..n, i # 0
                 PROVE  g[i] = WithPoint(drive, g[i - 1], i)
      BY <1>4 DEF Built
    <3> HIDE DEF F, V, n
    <3>1. i - 1 \in 0..n /\ g[i - 1] \in V
      BY <1>1, <1>4
    <3> QED
      BY <1>2, <1>4, <3>1 DEF Built
  <2> HIDE DEF F, V
  <2> QED
    BY <1>4, <2>1
<1>6. IntervalsUpTo(drive) = CHOOSE f : IsIt(f)
  BY DEF IntervalsUpTo
<1>7. IsIt(IntervalsUpTo(drive))
  <2> HIDE DEF IsIt
  <2> QED
    BY <1>5, <1>6
<1> HIDE DEF n
<1>8. \A i \in 0..n : IntervalsUpTo(drive)[i] =
          IF i = 0 THEN <<>> ELSE WithPoint(drive, IntervalsUpTo(drive)[i - 1], i)
  <2> DEFINE f == IntervalsUpTo(drive)
  <2>1. f = [i \in 0..n |-> IF i = 0 THEN <<>> ELSE WithPoint(drive, f[i - 1], i)]
    BY <1>7
  <2> HIDE DEF f
  <2> QED
    BY <2>1 DEF f
<1> QED
  BY <1>1, <1>8 DEF n

\* The intervals of a route cover it.
LEMMA IntervalsCover ==
    ASSUME NEW drive \in Seq(RoutePoint)
    PROVE  Cover(drive, Intervals(drive), Len(drive))
<1> DEFINE n == Len(drive)
           A == {i \in Nat : i <= n => Cover(drive, IntervalsUpTo(drive)[i], i)}
<1>1. n \in Nat
  BY LenProperties
<1>2. 0 \in A
  <2> DEFINE e == IntervalsUpTo(drive)[0]
  <2>1. e \in Seq(Interval) /\ Len(e) = 0
    BY EmptySeq, IntervalsFollow
  <2> HIDE DEF e
  <2>2. Cover(drive, e, 0)
    BY <2>1 DEF Cover
  <2> QED
    BY <2>2 DEF e
<1>3. \A i \in A : i + 1 \in A
  <2> SUFFICES ASSUME NEW i \in Nat, i + 1 <= n, Cover(drive, IntervalsUpTo(drive)[i], i)
               PROVE  Cover(drive, IntervalsUpTo(drive)[i + 1], i + 1)
    BY <1>1
  <2>1. i + 1 \in 1..n /\ (i + 1) - 1 = i
    BY <1>1
  <2>2. IntervalsUpTo(drive)[i + 1] = WithPoint(drive, IntervalsUpTo(drive)[i], i + 1)
    BY <2>1, IntervalsFollow
  <2> QED
    BY <2>1, <2>2, CoverStep
<1>4. A = Nat
  <2> HIDE DEF A
  <2> QED
    BY <1>2, <1>3, Induction DEF A
<1> QED
  BY <1>1, <1>4 DEF Intervals

\* What a cover says of each interval.
LEMMA CoverFacts ==
    ASSUME NEW drive, NEW ivs, NEW n, Cover(drive, ivs, n)
    PROVE  /\ ivs \in Seq(Interval) /\ Len(ivs) \in Nat
           /\ \A j \in 1..Len(ivs) :
                 /\ ivs[j] \in Interval /\ ivs[j].first \in Nat /\ ivs[j].last \in Nat
                 /\ 1 <= ivs[j].first /\ ivs[j].first <= ivs[j].last /\ ivs[j].last <= n
                 /\ \A p \in ivs[j].first..ivs[j].last : drive[p].node = ivs[j].node
<1>1. ivs \in Seq(Interval) /\ Len(ivs) \in Nat
  BY LenProperties DEF Cover
<1>2. ASSUME NEW j \in 1..Len(ivs)
      PROVE  ivs[j] \in Interval /\ ivs[j].first \in Nat /\ ivs[j].last \in Nat
  <2>1. ivs[j] \in Interval
    BY <1>1, ElementOfSeq
  <2> QED
    BY <2>1 DEF Interval
<1> QED
  BY <1>1, <1>2 DEF Cover

\* Between two intervals no point has a node.
LEMMA Gap ==
    ASSUME NEW drive, NEW n \in Nat, NEW ivs, Cover(drive, ivs, n),
           NEW k \in 2..Len(ivs), NEW p \in Nat, ivs[k - 1].last < p, p < ivs[k].first
    PROVE  drive[p].node = None
<1>1. ivs \in Seq(Interval) /\ Len(ivs) \in Nat
      /\ \A j \in 1..Len(ivs) : /\ ivs[j].first \in Nat /\ ivs[j].last \in Nat
                                /\ ivs[j].first <= ivs[j].last /\ ivs[j].last <= n
  BY CoverFacts
<1>2. SUFFICES ASSUME drive[p].node # None
               PROVE  FALSE
  OBVIOUS
<1>3. k \in 1..Len(ivs) /\ k - 1 \in 1..Len(ivs) /\ k \in Nat
  BY <1>1
<1>4. p \in 1..n
  <2>1. /\ ivs[k].first \in Nat /\ ivs[k].last \in Nat /\ ivs[k].first <= ivs[k].last
        /\ ivs[k].last <= n /\ ivs[k - 1].last \in Nat
    BY <1>1, <1>3
  <2> QED
    BY <2>1
<1>5. PICK j \in 1..Len(ivs) : p \in ivs[j].first..ivs[j].last
  BY <1>2, <1>4 DEF Cover
<1>6. CASE j < k - 1
  <2> DEFINE a == ivs[j].last  b == ivs[k - 1].first  c == ivs[k - 1].last
  <2>1. a < b
    BY <1>3, <1>6 DEF Cover
  <2>2. a \in Nat /\ b \in Nat /\ c \in Nat /\ b <= c
    BY <1>1, <1>3
  <2>3. p <= a /\ c < p
    BY <1>1, <1>5
  <2> HIDE DEF a, b, c
  <2> QED
    BY <2>1, <2>2, <2>3
<1>7. CASE j > k
  <2>1. ivs[k].last < ivs[j].first
    BY <1>3, <1>7 DEF Cover
  <2>2. /\ ivs[j].first \in Nat /\ ivs[j].last \in Nat /\ ivs[k].first \in Nat
        /\ ivs[k].last \in Nat /\ ivs[k].first <= ivs[k].last
    BY <1>1, <1>3
  <2> QED
    BY <1>5, <2>1, <2>2
<1>8. CASE j = k - 1 \/ j = k
  <2>1. ivs[j].first \in Nat /\ ivs[j].last \in Nat
    BY <1>1
  <2> QED
    BY <1>5, <1>8, <2>1
<1> QED
  BY <1>3, <1>6, <1>7, <1>8

\* How the first k intervals, merged, cover them: each is of points with its node or
\* none, begins and ends with its node, two in succession differ, and the last of them
\* ends where the last interval did.
MergedCover(drive, ivs, so, k) ==
    /\ so \in Seq(Interval)
    /\ \A m \in 1..Len(so) :
          /\ 1 <= so[m].first /\ so[m].first <= so[m].last /\ so[m].last <= ivs[k].last
          /\ drive[so[m].first].node = so[m].node /\ drive[so[m].last].node = so[m].node
          /\ \A p \in so[m].first..so[m].last : drive[p].node \in {so[m].node, None}
    /\ \A l, m \in 1..Len(so) : l < m => so[l].last < so[m].first
    /\ \A m \in 2..Len(so) : so[m - 1].node # so[m].node
    /\ k = 0 => so = <<>>
    /\ k > 0 => so # <<>> /\ so[Len(so)].last = ivs[k].last /\ so[Len(so)].node = ivs[k].node
    /\ \A j \in 1..k : \E m \in 1..Len(so) :
          so[m].first <= ivs[j].first /\ ivs[j].last <= so[m].last

\* What this says of each merged interval.
LEMMA MergedFacts ==
    ASSUME NEW drive, NEW ivs, NEW so, NEW k, MergedCover(drive, ivs, so, k)
    PROVE  /\ so \in Seq(Interval) /\ Len(so) \in Nat
           /\ \A m \in 1..Len(so) :
                 /\ so[m] \in Interval /\ so[m].first \in Nat /\ so[m].last \in Nat
                 /\ 1 <= so[m].first /\ so[m].first <= so[m].last /\ so[m].last <= ivs[k].last
                 /\ drive[so[m].first].node = so[m].node /\ drive[so[m].last].node = so[m].node
                 /\ \A p \in so[m].first..so[m].last : drive[p].node \in {so[m].node, None}
<1>1. so \in Seq(Interval) /\ Len(so) \in Nat
  BY LenProperties DEF MergedCover
<1>2. ASSUME NEW m \in 1..Len(so)
      PROVE  so[m] \in Interval /\ so[m].first \in Nat /\ so[m].last \in Nat
  <2>1. so[m] \in Interval
    BY <1>1, ElementOfSeq
  <2> QED
    BY <2>1 DEF Interval
<1> QED
  BY <1>1, <1>2 DEF MergedCover

\* An interval with the node of the last merged one extends that.
LEMMA MergeExtends ==
    ASSUME NEW drive, NEW n \in Nat, NEW ivs, Cover(drive, ivs, n),
           NEW k \in 1..Len(ivs), NEW so, MergedCover(drive, ivs, so, k - 1),
           so # <<>>, so[Len(so)].node = ivs[k].node
    PROVE  MergedCover(drive, ivs, Extended(so, ivs[k].last), k)
<1> DEFINE t == Extended(so, ivs[k].last)
           L == Len(so)
<1>1. so \in Seq(Interval) /\ ivs \in Seq(Interval) /\ k \in Nat /\ Len(ivs) \in Nat
  BY LenProperties DEF Cover, MergedCover
<1>2. k - 1 \in 1..Len(ivs) /\ k \in 2..Len(ivs)
  BY <1>1 DEF MergedCover
<1>3. L \in Nat /\ L \in 1..L
  BY <1>1, EmptySeq
<1>4. \A j \in 1..Len(ivs) :
         /\ ivs[j].first \in Nat /\ ivs[j].last \in Nat
         /\ 1 <= ivs[j].first /\ ivs[j].first <= ivs[j].last /\ ivs[j].last <= n
         /\ \A p \in ivs[j].first..ivs[j].last : drive[p].node = ivs[j].node
  BY CoverFacts
<1>5. \A m \in 1..L :
         /\ so[m].first \in Nat /\ so[m].last \in Nat
         /\ 1 <= so[m].first /\ so[m].first <= so[m].last /\ so[m].last <= ivs[k - 1].last
         /\ drive[so[m].first].node = so[m].node /\ drive[so[m].last].node = so[m].node
         /\ \A p \in so[m].first..so[m].last : drive[p].node \in {so[m].node, None}
  BY MergedFacts
<1>6. so[L].last = ivs[k - 1].last /\ ivs[k - 1].last < ivs[k].first
  <2>1. k - 1 > 0 /\ k - 1 < k /\ k \in 1..Len(ivs)
    BY <1>1, <1>2
  <2>2. so[L].last = ivs[k - 1].last
    BY <2>1 DEF MergedCover
  <2>3. ivs[k - 1].last < ivs[k].first
    BY <1>2, <2>1 DEF Cover
  <2> QED
    BY <2>2, <2>3
<1>7. /\ t \in Seq(Interval) /\ Len(t) = L
      /\ \A m \in 1..L : /\ t[m].node = so[m].node /\ t[m].first = so[m].first
                         /\ t[m].last = IF m = L THEN ivs[k].last ELSE so[m].last
  BY <1>1, <1>2, <1>4, ExtendedIs
<1> HIDE DEF t, L
<1>8. ASSUME NEW m \in 1..L
      PROVE  /\ 1 <= t[m].first /\ t[m].first <= t[m].last /\ t[m].last <= ivs[k].last
             /\ drive[t[m].first].node = t[m].node /\ drive[t[m].last].node = t[m].node
             /\ \A p \in t[m].first..t[m].last : drive[p].node \in {t[m].node, None}
  <2>1. CASE m # L
    <3>1. t[m].node = so[m].node /\ t[m].first = so[m].first /\ t[m].last = so[m].last
      BY <1>7, <2>1
    <3>2. so[m].last <= ivs[k].last
      <4> DEFINE a == so[m].last  b == ivs[k - 1].last  c == ivs[k].first  d == ivs[k].last
      <4>1. c \in Nat /\ d \in Nat /\ c <= d
        BY <1>4
      <4>2. b \in Nat
        BY <1>2, <1>4
      <4>3. a \in Nat /\ a <= b
        BY <1>5
      <4>4. b < c
        BY <1>6
      <4> HIDE DEF a, b, c, d
      <4>5. a <= d
        BY <4>1, <4>2, <4>3, <4>4
      <4> QED
        BY <4>5 DEF a, d
    <3> QED
      BY <1>5, <3>1, <3>2
  <2>2. CASE m = L
    <3>1. t[m].node = so[m].node /\ t[m].first = so[m].first /\ t[m].last = ivs[k].last
          /\ so[m].node = ivs[k].node
      BY <1>7, <2>2 DEF L
    <3>2. /\ 1 <= so[m].first /\ so[m].first <= ivs[k].last /\ so[m].first \in Nat
          /\ drive[so[m].first].node = so[m].node /\ drive[ivs[k].last].node = so[m].node
      <4>1. so[m].last = ivs[k - 1].last
        BY <1>6, <2>2
      <4>2. ivs[k].last \in ivs[k].first..ivs[k].last
        BY <1>4
      <4>3. drive[ivs[k].last].node = so[m].node
        BY <1>4, <3>1, <4>2
      <4>4. /\ ivs[k].first \in Nat /\ ivs[k].last \in Nat /\ ivs[k].first <= ivs[k].last
            /\ ivs[k - 1].last \in Nat /\ ivs[k - 1].last < ivs[k].first
        BY <1>2, <1>4, <1>6
      <4>5. /\ so[m].first \in Nat /\ so[m].last \in Nat
            /\ 1 <= so[m].first /\ so[m].first <= so[m].last
            /\ drive[so[m].first].node = so[m].node
        BY <1>5
      <4>6. so[m].first <= ivs[k].last
        <5> DEFINE a == so[m].first  b == ivs[k - 1].last  c == ivs[k].first  d == ivs[k].last
        <5>1. a \in Nat /\ b \in Nat /\ c \in Nat /\ d \in Nat
          BY <4>4, <4>5
        <5>2. a <= b
          BY <4>1, <4>5
        <5>3. b < c /\ c <= d
          BY <4>4
        <5> HIDE DEF a, b, c, d
        <5>4. a <= d
          BY <5>1, <5>2, <5>3
        <5> QED
          BY <5>4 DEF a, d
      <4> QED
        BY <4>3, <4>5, <4>6
    <3>3. ASSUME NEW p \in so[m].first..ivs[k].last
          PROVE  drive[p].node \in {so[m].node, None}
      <4>1. p \in Nat /\ ivs[k - 1].last \in Nat /\ ivs[k].first \in Nat
        BY <1>2, <1>4, <3>2
      <4>2. CASE p <= ivs[k - 1].last
        BY <1>5, <1>6, <2>2, <4>1, <4>2
      <4>3. CASE ivs[k - 1].last < p /\ p < ivs[k].first
        BY <1>2, <4>1, <4>3, Gap
      <4>4. CASE ivs[k].first <= p
        BY <1>2, <1>4, <3>1, <4>1, <4>4
      <4> QED
        BY <4>1, <4>2, <4>3, <4>4
    <3> QED
      BY <3>1, <3>2, <3>3, <1>2, <1>4
  <2> QED
    BY <2>1, <2>2
<1>9. ASSUME NEW l \in 1..L, NEW m \in 1..L, l < m
      PROVE  t[l].last < t[m].first
  <2>1. l # L
    BY <1>3, <1>9
  <2> QED
    BY <1>7, <1>9, <2>1 DEF MergedCover, L
<1>10. \A m \in 2..L : t[m - 1].node # t[m].node
  <2> SUFFICES ASSUME NEW m \in 2..L
               PROVE  t[m - 1].node # t[m].node
    OBVIOUS
  <2>1. m \in 1..L /\ m - 1 \in 1..L
    BY <1>3
  <2> QED
    BY <1>7, <2>1 DEF MergedCover, L
<1>11. t # <<>> /\ t[L].last = ivs[k].last /\ t[L].node = ivs[k].node
  <2>1. t # <<>>
    BY <1>3, <1>7, EmptySeq
  <2> QED
    BY <1>3, <1>7, <2>1 DEF L
<1>12. ASSUME NEW j \in 1..k
       PROVE  \E m \in 1..L : t[m].first <= ivs[j].first /\ ivs[j].last <= t[m].last
  <2>1. CASE j = k
    <3>1. so[L].first <= ivs[k].first
      <4> DEFINE a == so[L].first  b == so[L].last  c == ivs[k].first
      <4>1. a \in Nat /\ b \in Nat /\ a <= b
        BY <1>3, <1>5
      <4>2. b < c
        BY <1>6
      <4>3. c \in Nat
        BY <1>4
      <4> HIDE DEF a, b, c
      <4>4. a <= c
        BY <4>1, <4>2, <4>3
      <4> QED
        BY <4>4 DEF a, c
    <3>2. t[L].first = so[L].first /\ t[L].last = ivs[k].last
      BY <1>3, <1>7
    <3>3. ivs[j].last <= ivs[k].last
      BY <1>4, <2>1
    <3> QED
      BY <1>3, <2>1, <3>1, <3>2, <3>3
  <2>2. CASE j # k
    <3>1. j \in 1..k - 1
      BY <1>1, <2>2
    <3>2. PICK m \in 1..L : so[m].first <= ivs[j].first /\ ivs[j].last <= so[m].last
      BY <3>1 DEF MergedCover, L
    <3>3. t[m].first = so[m].first
      BY <1>7
    <3>4. so[m].last <= t[m].last /\ so[m].last \in Nat /\ t[m].last \in Nat
      <4>1. so[m].last \in Nat /\ ivs[k].last \in Nat
        BY <1>4, <1>5
      <4>2. m = L => so[m].last <= ivs[k].last
        BY <1>2, <1>4, <1>6
      <4> QED
        BY <1>7, <4>1, <4>2
    <3>5. ivs[j].last \in Nat
      <4>1. j \in 1..Len(ivs)
        BY <1>1
      <4> QED
        BY <1>4, <4>1
    <3>6. ivs[j].last <= t[m].last
      <4> DEFINE a == ivs[j].last  b == so[m].last  c == t[m].last
      <4>1. a <= b
        BY <3>2
      <4>2. a \in Nat /\ b \in Nat /\ c \in Nat /\ b <= c
        BY <3>4, <3>5
      <4> HIDE DEF a, b, c
      <4>3. a <= c
        BY <4>1, <4>2
      <4> QED
        BY <4>3 DEF a, c
    <3> QED
      BY <3>2, <3>3, <3>6
  <2> QED
    BY <2>1, <2>2
<1> QED
  <2>1. k # 0 /\ k > 0
    BY <1>1
  <2> QED
    BY <1>7, <1>8, <1>9, <1>10, <1>11, <1>12, <2>1 DEF MergedCover, t

\* One with another node is added.
LEMMA MergeAppends ==
    ASSUME NEW drive, NEW n \in Nat, NEW ivs, Cover(drive, ivs, n),
           NEW k \in 1..Len(ivs), NEW so, MergedCover(drive, ivs, so, k - 1),
           so # <<>> => so[Len(so)].node # ivs[k].node
    PROVE  MergedCover(drive, ivs, Append(so, ivs[k]), k)
<1> DEFINE t == Append(so, ivs[k])
           L == Len(so)
           e == ivs[k]
<1>1. so \in Seq(Interval) /\ ivs \in Seq(Interval) /\ k \in Nat /\ Len(ivs) \in Nat
      /\ L \in Nat /\ e \in Interval
  BY LenProperties, ElementOfSeq DEF Cover, MergedCover
<1>2. \A j \in 1..Len(ivs) :
         /\ ivs[j].first \in Nat /\ ivs[j].last \in Nat
         /\ 1 <= ivs[j].first /\ ivs[j].first <= ivs[j].last /\ ivs[j].last <= n
         /\ \A p \in ivs[j].first..ivs[j].last : drive[p].node = ivs[j].node
  BY CoverFacts
<1>3. ASSUME NEW m \in 1..L
      PROVE  /\ so[m].first \in Nat /\ so[m].last \in Nat
             /\ 1 <= so[m].first /\ so[m].first <= so[m].last /\ so[m].last < e.first
             /\ drive[so[m].first].node = so[m].node /\ drive[so[m].last].node = so[m].node
             /\ \A p \in so[m].first..so[m].last : drive[p].node \in {so[m].node, None}
  <2>1. k - 1 \in 1..Len(ivs)
    <3>1. k - 1 # 0
      BY <1>1, EmptySeq DEF MergedCover
    <3> QED
      BY <1>1, <3>1
  <2>2. ivs[k - 1].last < e.first /\ ivs[k - 1].last \in Nat /\ e.first \in Nat
    BY <1>1, <1>2, <2>1 DEF Cover
  <2>3. /\ so[m].first \in Nat /\ so[m].last \in Nat
        /\ 1 <= so[m].first /\ so[m].first <= so[m].last /\ so[m].last <= ivs[k - 1].last
        /\ drive[so[m].first].node = so[m].node /\ drive[so[m].last].node = so[m].node
        /\ \A p \in so[m].first..so[m].last : drive[p].node \in {so[m].node, None}
    BY MergedFacts
  <2>4. so[m].last < e.first
    BY <2>2, <2>3
  <2> QED
    BY <2>3, <2>4
<1>4. /\ t \in Seq(Interval) /\ Len(t) = L + 1 /\ t # <<>>
      /\ \A m \in 1..L : t[m] = so[m]
      /\ t[L + 1] = e
  BY <1>1, AppendIs
<1>5. /\ e.first \in Nat /\ e.last \in Nat /\ 1 <= e.first /\ e.first <= e.last
      /\ \A p \in e.first..e.last : drive[p].node = e.node
  BY <1>2
<1> HIDE DEF t, L, e
<1>6. ASSUME NEW m \in 1..Len(t)
      PROVE  /\ 1 <= t[m].first /\ t[m].first <= t[m].last /\ t[m].last <= e.last
             /\ drive[t[m].first].node = t[m].node /\ drive[t[m].last].node = t[m].node
             /\ \A p \in t[m].first..t[m].last : drive[p].node \in {t[m].node, None}
  <2>1. CASE m = L + 1
    <3>1. t[m] = e
      BY <1>4, <2>1
    <3>2. e.last <= e.last /\ e.first \in e.first..e.last /\ e.last \in e.first..e.last
      BY <1>5
    <3>3. drive[e.first].node = e.node /\ drive[e.last].node = e.node
      BY <1>5, <3>2
    <3>4. \A p \in e.first..e.last : drive[p].node \in {e.node, None}
      BY <1>5
    <3> QED
      BY <1>5, <3>1, <3>2, <3>3, <3>4
  <2>2. CASE m # L + 1
    <3>1. m \in 1..L /\ t[m] = so[m]
      BY <1>1, <1>4, <2>2
    <3>2. so[m].last \in Nat /\ so[m].last < e.first
      BY <1>3, <3>1
    <3>3. so[m].last <= e.last
      BY <1>5, <3>2
    <3> QED
      BY <1>3, <3>1, <3>3
  <2> QED
    BY <2>1, <2>2
<1>7. ASSUME NEW l \in 1..Len(t), NEW m \in 1..Len(t), l < m
      PROVE  t[l].last < t[m].first
  <2>1. l \in 1..L /\ t[l] = so[l]
    BY <1>1, <1>4, <1>7
  <2>2. CASE m = L + 1
    BY <1>3, <1>4, <2>1, <2>2
  <2>3. CASE m # L + 1
    <3>1. m \in 1..L /\ t[m] = so[m]
      BY <1>1, <1>4, <2>3
    <3> QED
      BY <1>7, <2>1, <3>1 DEF MergedCover, L
  <2> QED
    BY <2>2, <2>3
<1>8. ASSUME NEW m \in 2..Len(t)
      PROVE  t[m - 1].node # t[m].node
  <2>1. m - 1 \in 1..L /\ t[m - 1] = so[m - 1]
    BY <1>1, <1>4
  <2>2. CASE m = L + 1
    <3>1. so # <<>>
      BY <2>1, EmptySeq DEF L
    <3> QED
      BY <1>1, <1>4, <2>1, <2>2, <3>1 DEF L, e
  <2>3. CASE m # L + 1
    <3>1. m \in 2..L /\ t[m] = so[m]
      BY <1>1, <1>4, <2>3
    <3> QED
      BY <2>1, <3>1 DEF MergedCover, L
  <2> QED
    BY <2>2, <2>3
<1>9. ASSUME NEW j \in 1..k
      PROVE  \E m \in 1..Len(t) : t[m].first <= ivs[j].first /\ ivs[j].last <= t[m].last
  <2>1. CASE j = k
    <3>1. L + 1 \in 1..Len(t)
      BY <1>1, <1>4
    <3>2. t[L + 1].first <= ivs[j].first /\ ivs[j].last <= t[L + 1].last
      BY <1>4, <1>5, <2>1 DEF e
    <3> QED
      BY <3>1, <3>2
  <2>2. CASE j # k
    <3>1. j \in 1..k - 1
      BY <1>1, <2>2
    <3>2. PICK m \in 1..L : so[m].first <= ivs[j].first /\ ivs[j].last <= so[m].last
      BY <3>1 DEF MergedCover, L
    <3>3. m \in 1..Len(t) /\ t[m] = so[m]
      BY <1>1, <1>4
    <3> QED
      BY <3>2, <3>3
  <2> QED
    BY <2>1, <2>2
<1> QED
  <2>1. k # 0 /\ k > 0
    BY <1>1
  <2>2. t[Len(t)].last = ivs[k].last /\ t[Len(t)].node = ivs[k].node
    BY <1>1, <1>4 DEF e
  <2> QED
    BY <1>4, <1>6, <1>7, <1>8, <1>9, <2>1, <2>2 DEF MergedCover, e, t

\* The merged intervals of all of them, and of each part.
LEMMA MergedFollow ==
    ASSUME NEW ivs \in Seq(Interval)
    PROVE  /\ MergedUpTo(ivs)[0] = <<>>
           /\ \A i \in 1..Len(ivs) :
                 MergedUpTo(ivs)[i] = WithInterval(ivs, MergedUpTo(ivs)[i - 1], i)
<1> DEFINE V == Seq(Interval)
           n == Len(ivs)
           F == [p \in V \X (0..n) |-> IF p[2] = 0 THEN <<>> ELSE WithInterval(ivs, p[1], p[2])]
           IsIt(f) == f = [i \in 0..n |-> IF i = 0 THEN <<>> ELSE WithInterval(ivs, f[i - 1], i)]
<1>1. n \in Nat /\ <<>> \in V
  BY LenProperties, EmptySeq
<1>2. \A v \in V, i \in 0..n : i # 0 => F[<<v, i>>] = WithInterval(ivs, v, i)
  OBVIOUS
<1>3. \A v \in V, i \in 0..n : i # 0 => WithInterval(ivs, v, i) \in V
  <2> SUFFICES ASSUME NEW v \in V, NEW i \in 1..n
               PROVE  WithInterval(ivs, v, i) \in V
    BY <1>1
  <2>1. ivs[i] \in Interval
    BY ElementOfSeq
  <2>2. ivs[i].last \in Nat
    BY <2>1 DEF Interval
  <2>3. v # <<>> => Extended(v, ivs[i].last) \in V
    BY <2>2, ExtendedIs
  <2> QED
    BY <2>1, <2>3, AppendIs DEF WithInterval
<1>4. PICK g \in [0..n -> V] : Built(<<>>, 0, n, F, g)
  <2>1. Closed(V, 0, n, F)
    BY <1>2, <1>3 DEF Closed
  <2>2. 0 \in Nat /\ 0 <= n
    BY <1>1
  <2> HIDE DEF F, V, n
  <2> QED
    BY <1>1, <2>1, <2>2, Recursion
<1>5. IsIt(g)
  <2>1. \A i \in 0..n : g[i] = IF i = 0 THEN <<>> ELSE WithInterval(ivs, g[i - 1], i)
    <3> SUFFICES ASSUME NEW i \in 0..n, i # 0
                 PROVE  g[i] = WithInterval(ivs, g[i - 1], i)
      BY <1>4 DEF Built
    <3> HIDE DEF F, V, n
    <3>1. i - 1 \in 0..n /\ g[i - 1] \in V
      BY <1>1, <1>4
    <3> QED
      BY <1>2, <1>4, <3>1 DEF Built
  <2> HIDE DEF F, V
  <2> QED
    BY <1>4, <2>1
<1>6. MergedUpTo(ivs) = CHOOSE f : IsIt(f)
  BY DEF MergedUpTo
<1>7. IsIt(MergedUpTo(ivs))
  <2> HIDE DEF IsIt
  <2> QED
    BY <1>5, <1>6
<1> HIDE DEF n
<1>8. \A i \in 0..n : MergedUpTo(ivs)[i] =
          IF i = 0 THEN <<>> ELSE WithInterval(ivs, MergedUpTo(ivs)[i - 1], i)
  <2> DEFINE f == MergedUpTo(ivs)
  <2>1. f = [i \in 0..n |-> IF i = 0 THEN <<>> ELSE WithInterval(ivs, f[i - 1], i)]
    BY <1>7
  <2> HIDE DEF f
  <2> QED
    BY <2>1 DEF f
<1> QED
  BY <1>1, <1>8 DEF n

\* So all intervals merged cover them all.
LEMMA MergedCovers ==
    ASSUME NEW drive, NEW n \in Nat, NEW ivs, Cover(drive, ivs, n)
    PROVE  MergedCover(drive, ivs, Merged(ivs), Len(ivs))
<1> DEFINE K == Len(ivs)
           A == {k \in Nat : k <= K => MergedCover(drive, ivs, MergedUpTo(ivs)[k], k)}
<1>1. ivs \in Seq(Interval) /\ K \in Nat
  BY CoverFacts
<1>2. 0 \in A
  <2> DEFINE e == MergedUpTo(ivs)[0]
  <2>1. e \in Seq(Interval) /\ Len(e) = 0 /\ e = <<>>
    BY <1>1, EmptySeq, MergedFollow
  <2> HIDE DEF e
  <2>2. MergedCover(drive, ivs, e, 0)
    BY <2>1 DEF MergedCover
  <2> QED
    BY <2>2 DEF e
<1>3. \A k \in A : k + 1 \in A
  <2> SUFFICES ASSUME NEW k \in Nat, k + 1 <= K, MergedCover(drive, ivs, MergedUpTo(ivs)[k], k)
               PROVE  MergedCover(drive, ivs, MergedUpTo(ivs)[k + 1], k + 1)
    BY <1>1
  <2> DEFINE so == MergedUpTo(ivs)[k]
  <2>1. k + 1 \in 1..K /\ (k + 1) - 1 = k
    BY <1>1
  <2>2. MergedUpTo(ivs)[k + 1] = WithInterval(ivs, so, k + 1)
    BY <1>1, <2>1, MergedFollow
  <2> HIDE DEF so
  <2>3. MergedCover(drive, ivs, so, (k + 1) - 1)
    BY <2>1 DEF so
  <2>4. CASE so # <<>> /\ so[Len(so)].node = ivs[k + 1].node
    BY <2>1, <2>2, <2>3, <2>4, MergeExtends DEF WithInterval
  <2>5. CASE ~(so # <<>> /\ so[Len(so)].node = ivs[k + 1].node)
    BY <2>1, <2>2, <2>3, <2>5, MergeAppends DEF WithInterval
  <2> QED
    BY <2>4, <2>5
<1>4. A = Nat
  <2> HIDE DEF A
  <2> QED
    BY <1>2, <1>3, Induction DEF A
<1> QED
  BY <1>1, <1>4 DEF Merged

\* What a route is in contact with, and when: runs of points with one node or none that
\* begin and end with it, in order, no two in succession with the same, and no point
\* with a node is left out.
Runs(drive, runs) ==
    /\ runs \in Seq(Interval)
    /\ \A m \in 1..Len(runs) :
          /\ 1 <= runs[m].first /\ runs[m].first <= runs[m].last /\ runs[m].last <= Len(drive)
          /\ drive[runs[m].first].node = runs[m].node /\ drive[runs[m].last].node = runs[m].node
          /\ \A p \in runs[m].first..runs[m].last : drive[p].node \in {runs[m].node, None}
    /\ \A l, m \in 1..Len(runs) : l < m => runs[l].last < runs[m].first
    /\ \A m \in 2..Len(runs) : runs[m - 1].node # runs[m].node
    /\ \A p \in 1..Len(drive) : drive[p].node # None =>
          \E m \in 1..Len(runs) : p \in runs[m].first..runs[m].last

\* The merged intervals of a route are its runs.
LEMMA MergedAreRuns ==
    ASSUME NEW drive \in Seq(RoutePoint)
    PROVE  Runs(drive, Merged(Intervals(drive)))
<1> DEFINE ivs == Intervals(drive)
           runs == Merged(ivs)
           n == Len(drive)
<1>1. n \in Nat /\ Cover(drive, ivs, n)
  BY IntervalsCover, LenProperties
<1>2. MergedCover(drive, ivs, runs, Len(ivs))
  BY <1>1, MergedCovers
<1> HIDE DEF ivs, runs, n
<1>3. /\ Len(ivs) \in Nat
      /\ \A j \in 1..Len(ivs) : /\ ivs[j].first \in Nat /\ ivs[j].last \in Nat
                                /\ ivs[j].last <= n
  BY <1>1, CoverFacts
<1>4. /\ runs \in Seq(Interval) /\ Len(runs) \in Nat
      /\ \A m \in 1..Len(runs) :
            /\ runs[m].first \in Nat /\ runs[m].last \in Nat
            /\ 1 <= runs[m].first /\ runs[m].first <= runs[m].last
            /\ runs[m].last <= ivs[Len(ivs)].last
            /\ drive[runs[m].first].node = runs[m].node /\ drive[runs[m].last].node = runs[m].node
            /\ \A p \in runs[m].first..runs[m].last : drive[p].node \in {runs[m].node, None}
  BY <1>2, MergedFacts
<1>5. ASSUME NEW m \in 1..Len(runs)
      PROVE  runs[m].last <= n
  <2>1. Len(ivs) # 0
    BY <1>2, <1>4, EmptySeq DEF MergedCover
  <2>2. Len(ivs) \in 1..Len(ivs)
    BY <1>3, <2>1
  <2>3. ivs[Len(ivs)].last \in Nat /\ ivs[Len(ivs)].last <= n
    BY <1>3, <2>2
  <2> QED
    BY <1>1, <1>4, <2>3
<1>6. ASSUME NEW p \in 1..n, drive[p].node # None
      PROVE  \E m \in 1..Len(runs) : p \in runs[m].first..runs[m].last
  <2>1. PICK j \in 1..Len(ivs) : p \in ivs[j].first..ivs[j].last
    BY <1>1, <1>6 DEF Cover
  <2>2. PICK m \in 1..Len(runs) : runs[m].first <= ivs[j].first /\ ivs[j].last <= runs[m].last
    BY <1>2 DEF MergedCover
  <2>3. p \in Nat /\ ivs[j].first <= p /\ p <= ivs[j].last
    BY <2>1, <1>3
  <2>4. runs[m].first <= p /\ p <= runs[m].last
    BY <1>3, <1>4, <2>2, <2>3
  <2> QED
    BY <1>4, <2>3, <2>4
<1>7. /\ \A l, m \in 1..Len(runs) : l < m => runs[l].last < runs[m].first
      /\ \A m \in 2..Len(runs) : runs[m - 1].node # runs[m].node
  BY <1>2 DEF MergedCover
<1> QED
  BY <1>4, <1>5, <1>6, <1>7 DEF Runs, n, ivs, runs

\* What runs are, one for one.
LEMMA RunsFacts ==
    ASSUME NEW drive \in Seq(RoutePoint), NEW runs, Runs(drive, runs)
    PROVE  /\ Len(drive) \in Nat /\ DOMAIN drive = 1..Len(drive)
           /\ runs \in Seq(Interval) /\ Len(runs) \in Nat /\ DOMAIN runs = 1..Len(runs)
           /\ \A m \in 1..Len(runs) :
                 /\ runs[m].first \in Nat /\ runs[m].last \in Nat
                 /\ runs[m].first \in 1..Len(drive) /\ runs[m].last \in 1..Len(drive)
                 /\ runs[m].first <= runs[m].last /\ runs[m].node # None
                 /\ drive[runs[m].first].node = runs[m].node
                 /\ drive[runs[m].last].node = runs[m].node
<1>1. /\ Len(drive) \in Nat /\ DOMAIN drive = 1..Len(drive)
      /\ runs \in Seq(Interval) /\ Len(runs) \in Nat /\ DOMAIN runs = 1..Len(runs)
  BY LenProperties DEF Runs
<1>2. ASSUME NEW m \in 1..Len(runs)
      PROVE  /\ runs[m].first \in Nat /\ runs[m].last \in Nat /\ runs[m].node # None
  <2>1. runs[m] \in Interval
    BY <1>1, ElementOfSeq
  <2> QED
    BY <2>1, NoneAssumption DEF Interval
<1>3. ASSUME NEW m \in 1..Len(runs)
      PROVE  runs[m].first \in 1..Len(drive) /\ runs[m].last \in 1..Len(drive)
  BY <1>1, <1>2 DEF Runs
<1> QED
  BY <1>1, <1>2, <1>3 DEF Runs

\* Each run is a stay.
LEMMA RunIsStay ==
    ASSUME NEW drive \in Seq(RoutePoint), NEW runs, Runs(drive, runs), NEW m \in 1..Len(runs)
    PROVE  IsStay(drive, runs[m].first, runs[m].last)
<1> DEFINE i == runs[m].first
           j == runs[m].last
           node == runs[m].node
           others == {k \in DOMAIN drive : drive[k].node # None}
<1>1. /\ Len(drive) \in Nat /\ DOMAIN drive = 1..Len(drive) /\ Len(runs) \in Nat
      /\ \A l \in 1..Len(runs) :
            /\ runs[l].first \in Nat /\ runs[l].last \in Nat
            /\ runs[l].first \in 1..Len(drive) /\ runs[l].last \in 1..Len(drive)
            /\ runs[l].first <= runs[l].last /\ runs[l].node # None
            /\ drive[runs[l].first].node = runs[l].node
            /\ drive[runs[l].last].node = runs[l].node
  BY RunsFacts
<1>2. /\ i \in Nat /\ j \in Nat /\ i <= j /\ drive[i].node = node /\ drive[j].node = node
      /\ node # None
  BY <1>1
<1>3. \A k \in others : k \in i..j => drive[k].node = node
  BY DEF Runs
<1>4. \A l \in 1..Len(runs) : runs[l].first \in others /\ runs[l].last \in others
  BY <1>1
<1>5. ASSUME NEW k \in others, k < i, \A l \in others : l < i => l <= k
      PROVE  drive[k].node # node
  <2>1. k \in Nat /\ drive[k].node # None /\ k \in 1..Len(drive)
    BY <1>1
  <2>2. PICK a \in 1..Len(runs) : k \in runs[a].first..runs[a].last
    BY <2>1 DEF Runs
  <2>3. a < m
    <3>1. CASE a = m
      BY <1>2, <1>5, <2>1, <2>2, <3>1
    <3>2. CASE m < a
      <4>1. j < runs[a].first
        BY <3>2 DEF Runs
      <4> QED
        BY <1>1, <1>2, <1>5, <2>1, <2>2, <4>1
    <3> QED
      BY <3>1, <3>2
  <2>4. m - 1 \in 1..Len(runs) /\ m \in 2..Len(runs) /\ m - 1 < m
    BY <1>1, <2>3
  <2>5. runs[m - 1].last < i
    BY <2>4 DEF Runs
  <2>6. runs[m - 1].last <= k
    BY <1>4, <1>5, <2>4, <2>5
  <2>7. a = m - 1
    <3> SUFFICES ASSUME a < m - 1
                 PROVE  FALSE
      BY <1>1, <2>3, <2>4
    <3>1. runs[a].last < runs[m - 1].first
      BY <2>4 DEF Runs
    <3>2. /\ runs[a].last \in Nat /\ runs[m - 1].first \in Nat /\ runs[m - 1].last \in Nat
          /\ runs[m - 1].first <= runs[m - 1].last
      BY <1>1, <2>4
    <3> QED
      BY <2>1, <2>2, <2>6, <3>1, <3>2
  <2>8. drive[k].node = runs[m - 1].node
    BY <2>1, <2>2, <2>7 DEF Runs
  <2> QED
    BY <2>4, <2>8 DEF Runs
<1>6. ASSUME NEW k \in others, k > j, \A l \in others : l > j => l >= k
      PROVE  drive[k].node # node
  <2>1. k \in Nat /\ drive[k].node # None /\ k \in 1..Len(drive)
    BY <1>1
  <2>2. PICK a \in 1..Len(runs) : k \in runs[a].first..runs[a].last
    BY <2>1 DEF Runs
  <2>3. m < a
    <3>1. CASE a = m
      BY <1>2, <1>6, <2>1, <2>2, <3>1
    <3>2. CASE a < m
      <4>1. runs[a].last < i
        BY <3>2 DEF Runs
      <4> QED
        BY <1>1, <1>2, <1>6, <2>1, <2>2, <4>1
    <3> QED
      BY <3>1, <3>2
  <2>4. m + 1 \in 1..Len(runs) /\ m + 1 \in 2..Len(runs) /\ m < m + 1 /\ (m + 1) - 1 = m
    BY <1>1, <2>3
  <2>5. j < runs[m + 1].first
    BY <2>4 DEF Runs
  <2>6. k <= runs[m + 1].first
    BY <1>1, <1>2, <1>4, <1>6, <2>1, <2>4, <2>5
  <2>7. a = m + 1
    <3> SUFFICES ASSUME m + 1 < a
                 PROVE  FALSE
      BY <1>1, <2>3, <2>4
    <3>1. runs[m + 1].last < runs[a].first
      BY <2>4 DEF Runs
    <3>2. /\ runs[a].first \in Nat /\ runs[m + 1].first \in Nat /\ runs[m + 1].last \in Nat
          /\ runs[m + 1].first <= runs[m + 1].last
      BY <1>1, <2>4
    <3> QED
      BY <2>1, <2>2, <2>6, <3>1, <3>2
  <2>8. drive[k].node = runs[m + 1].node
    BY <2>1, <2>2, <2>7 DEF Runs
  <2>9. runs[(m + 1) - 1].node # runs[m + 1].node
    BY <2>4 DEF Runs
  <2> QED
    BY <2>4, <2>8, <2>9
<1> HIDE DEF i, j, node, others
<1>7. IsStay(drive, i, j)
  BY <1>2, <1>3, <1>5, <1>6 DEF IsStay, others
<1> QED
  BY <1>7 DEF i, j

\* And each stay is a run.
LEMMA StayIsRun ==
    ASSUME NEW drive \in Seq(RoutePoint), NEW runs, Runs(drive, runs),
           NEW i \in DOMAIN drive, NEW j \in DOMAIN drive, IsStay(drive, i, j)
    PROVE  \E m \in 1..Len(runs) : runs[m].first = i /\ runs[m].last = j
<1> DEFINE node == drive[i].node
           others == {k \in DOMAIN drive : drive[k].node # None}
<1>1. /\ Len(drive) \in Nat /\ DOMAIN drive = 1..Len(drive) /\ Len(runs) \in Nat
      /\ \A l \in 1..Len(runs) :
            /\ runs[l].first \in Nat /\ runs[l].last \in Nat
            /\ runs[l].first \in 1..Len(drive) /\ runs[l].last \in 1..Len(drive)
            /\ runs[l].first <= runs[l].last /\ runs[l].node # None
            /\ drive[runs[l].first].node = runs[l].node
            /\ drive[runs[l].last].node = runs[l].node
  BY RunsFacts
<1>2. /\ node # None /\ drive[j].node = node /\ i <= j
      /\ \A k \in others : k \in i..j => drive[k].node = node
      /\ \A k \in others : k < i /\ (\A l \in others : l < i => l <= k) => drive[k].node # node
      /\ \A k \in others : k > j /\ (\A l \in others : l > j => l >= k) => drive[k].node # node
  BY DEF IsStay
<1>3. i \in Nat /\ j \in Nat /\ i \in 1..Len(drive) /\ j \in 1..Len(drive)
  BY <1>1
<1>4. PICK m \in 1..Len(runs) : i \in runs[m].first..runs[m].last
  BY <1>2, <1>3 DEF Runs
<1>5. PICK q \in 1..Len(runs) : j \in runs[q].first..runs[q].last
  BY <1>2, <1>3 DEF Runs
<1>6. runs[m].node = node
  BY <1>2, <1>4 DEF Runs
<1>7. \A l \in 1..Len(runs) : runs[l].first \in others /\ runs[l].last \in others
  BY <1>1
<1>8. q = m
  <2>1. CASE q < m
    <3>1. runs[q].last < runs[m].first
      BY <2>1 DEF Runs
    <3> QED
      BY <1>1, <1>2, <1>3, <1>4, <1>5, <3>1
  <2>2. CASE m < q
    <3>1. m + 1 \in 1..Len(runs) /\ m + 1 \in 2..Len(runs) /\ m < m + 1 /\ (m + 1) - 1 = m
          /\ m + 1 <= q
      BY <1>1, <2>2
    <3>2. runs[m].last < runs[m + 1].first
      BY <3>1 DEF Runs
    <3>3. runs[m + 1].first <= runs[q].first
      <4>1. CASE m + 1 = q
        BY <1>1, <4>1
      <4>2. CASE m + 1 < q
        <5>1. runs[m + 1].last < runs[q].first
          BY <3>1, <4>2 DEF Runs
        <5> QED
          BY <1>1, <3>1, <5>1
      <4> QED
        BY <1>1, <3>1, <4>1, <4>2
    <3>4. runs[m + 1].first \in i..j
      <4>1. runs[m].last \in Nat /\ runs[m + 1].first \in Nat /\ runs[q].first \in Nat
        BY <1>1, <3>1
      <4>2. i <= runs[m].last
        BY <1>1, <1>3, <1>4
      <4>3. runs[q].first <= j
        BY <1>1, <1>3, <1>5
      <4>4. i \in Nat /\ j \in Nat
        BY <1>3
      <4> DEFINE a == runs[m].last  b == runs[m + 1].first  c == runs[q].first
      <4>5. a \in Nat /\ b \in Nat /\ c \in Nat /\ i <= a /\ c <= j
        BY <4>1, <4>2, <4>3
      <4>6. a < b /\ b <= c
        BY <3>2, <3>3
      <4> HIDE DEF a, b, c
      <4>7. b \in i..j
        BY <4>4, <4>5, <4>6
      <4> QED
        BY <4>7 DEF b
    <3>5. runs[m + 1].node = node
      BY <1>1, <1>2, <1>7, <3>1, <3>4
    <3>6. runs[(m + 1) - 1].node # runs[m + 1].node
      BY <3>1 DEF Runs
    <3> QED
      BY <1>6, <3>1, <3>5, <3>6
  <2> QED
    BY <1>1, <2>1, <2>2
<1>9. runs[m].first = i
  <2> SUFFICES ASSUME runs[m].first < i
               PROVE  FALSE
    BY <1>1, <1>3, <1>4
  <2> DEFINE S == {l \in others : l < i}
  <2>1. S \in SUBSET Nat /\ runs[m].first \in S /\ \A l \in S : l <= i
    BY <1>1, <1>3, <1>7
  <2>2. PICK k \in S : \A l \in S : l <= k
    <3> HIDE DEF S
    <3> QED
      BY <1>3, <2>1, Greatest
  <2>3. k \in others /\ k < i /\ runs[m].first <= k /\ k \in Nat /\ drive[k].node # None
    BY <2>1, <2>2
  <2>4. k \in runs[m].first..runs[m].last
    BY <1>1, <1>3, <1>4, <2>3
  <2>5. drive[k].node = node
    BY <1>6, <2>3, <2>4 DEF Runs
  <2> QED
    BY <1>2, <2>2, <2>3, <2>5
<1>10. runs[m].last = j
  <2> SUFFICES ASSUME j < runs[m].last
               PROVE  FALSE
    BY <1>1, <1>3, <1>5, <1>8
  <2> DEFINE S == {l \in others : l > j}
  <2>1. S \in SUBSET Nat /\ runs[m].last \in S
    BY <1>1, <1>3, <1>7
  <2>2. PICK k \in S : \A l \in S : k <= l
    <3> HIDE DEF S
    <3> QED
      BY <2>1, Least
  <2>3. k \in others /\ k > j /\ k <= runs[m].last /\ k \in Nat /\ drive[k].node # None
    BY <2>1, <2>2
  <2>4. k \in runs[m].first..runs[m].last
    BY <1>1, <1>3, <1>5, <1>8, <2>3
  <2>5. drive[k].node = node
    BY <1>6, <2>3, <2>4 DEF Runs
  <2>6. \A l \in others : l > j => l >= k
    BY <1>1, <2>2, <2>3
  <2> QED
    BY <1>2, <2>3, <2>5, <2>6
<1> QED
  BY <1>9, <1>10

\* The points of a contact: some, in the order of their times.
Points(points) ==
    /\ points \in Seq(RoutePoint) /\ points # <<>>
    /\ \A p, q \in 1..Len(points) : p <= q => points[p].time <= points[q].time

\* What the points of a contact are, one for one.
LEMMA PointsFacts ==
    ASSUME NEW points, Points(points)
    PROVE  /\ Len(points) \in Nat /\ 1 <= Len(points) /\ DOMAIN points = 1..Len(points)
           /\ \A i \in 1..Len(points) :
                 /\ points[i].time \in Nat /\ points[i].dist \in Nat
                 /\ points[1].time <= points[i].time
                 /\ points[i].time <= points[Len(points)].time
<1>1. Len(points) \in Nat /\ 1 <= Len(points) /\ DOMAIN points = 1..Len(points)
  BY EmptySeq, LenProperties DEF Points
<1>2. ASSUME NEW i \in 1..Len(points)
      PROVE  points[i].time \in Nat /\ points[i].dist \in Nat
  <2>1. points[i] \in RoutePoint
    BY ElementOfSeq DEF Points
  <2> QED
    BY <2>1 DEF RoutePoint
<1>3. \A i \in 1..Len(points) : 1 \in 1..Len(points) /\ Len(points) \in 1..Len(points)
                               /\ 1 <= i /\ i <= Len(points)
  BY <1>1
<1> QED
  BY <1>1, <1>2, <1>3 DEF Points

\* The times of a route go up, or stay.
InOrder(drive) == \A p, q \in 1..Len(drive) : p <= q => drive[p].time <= drive[q].time

\* A list written as a function.
LEMMA LenIs ==
    ASSUME NEW n \in Nat, NEW s, NEW S, s \in [1..n -> S]
    PROVE  s \in Seq(S) /\ Len(s) = n /\ DOMAIN s = 1..n
  OBVIOUS

Info(drive, run) ==
    [node |-> run.node, points |-> SubSeq(drive, run.first, run.last),
     arrival |-> drive[run.first].time,
     duration |-> drive[run.last].time - drive[run.first].time]

\* The contacts are the runs of the route.
LEMMA InfosAreRuns ==
    ASSUME NEW drive \in Seq(RoutePoint)
    PROVE  LET runs == Merged(Intervals(drive))
               infos == NodeInfos(drive)
           IN  /\ Runs(drive, runs) /\ Len(infos) = Len(runs) /\ Len(infos) \in Nat
               /\ DOMAIN infos = 1..Len(infos)
               /\ \A i \in 1..Len(infos) : infos[i] = Info(drive, runs[i])
<1> DEFINE runs == Merged(Intervals(drive))
           infos == NodeInfos(drive)
           K == Len(runs)
<1>1. Runs(drive, runs)
  BY MergedAreRuns
<1>2. K \in Nat /\ DOMAIN runs = 1..K
  BY <1>1, RunsFacts
<1> HIDE DEF runs
<1>3. infos = [i \in 1..K |-> Info(drive, runs[i])]
  BY <1>2 DEF NodeInfos, Info, runs
<1>4. infos \in [1..K -> {Info(drive, runs[i]) : i \in 1..K}]
  BY <1>3
<1> HIDE DEF infos, K
<1>5. Len(infos) = K /\ DOMAIN infos = 1..K
  BY <1>2, <1>4, LenIs
<1> QED
  BY <1>1, <1>2, <1>3, <1>5 DEF runs, infos, K

\* The points of a contact.
LEMMA InfoPoints ==
    ASSUME NEW drive \in Seq(RoutePoint), InOrder(drive), NEW i \in 1..Len(NodeInfos(drive))
    PROVE  Points(NodeInfos(drive)[i].points)
<1> DEFINE runs == Merged(Intervals(drive))
           a == runs[i].first
           b == runs[i].last
           s == SubSeq(drive, a, b)
<1>1. /\ Runs(drive, runs) /\ i \in 1..Len(runs)
      /\ NodeInfos(drive)[i] = Info(drive, runs[i])
  BY InfosAreRuns
<1> HIDE DEF runs
<1>2. /\ Len(drive) \in Nat /\ a \in 1..Len(drive) /\ b \in 1..Len(drive) /\ a <= b
  BY <1>1, RunsFacts
<1>3. NodeInfos(drive)[i].points = s
  <2> DEFINE info == NodeInfos(drive)[i]
             run == runs[i]
  <2>1. info = Info(drive, run)
    BY <1>1
  <2> HIDE DEF info, run
  <2>2. info.points = SubSeq(drive, run.first, run.last)
    BY <2>1 DEF Info
  <2> QED
    BY <2>2 DEF info, run
<1> HIDE DEF a, b
<1>4. a \in Int /\ b \in Int /\ \A p \in a..b : drive[p] \in RoutePoint /\ p \in 1..Len(drive)
  BY <1>2, ElementOfSeq
<1>5. /\ s \in Seq(RoutePoint) /\ Len(s) = b - a + 1
      /\ \A p \in 1..b - a + 1 : s[p] = drive[a + p - 1]
  <2>1. /\ s \in Seq(RoutePoint) /\ Len(s) = IF a <= b THEN b - a + 1 ELSE 0
        /\ \A p \in 1..b - a + 1 : s[p] = drive[a + p - 1]
    BY <1>4, SubSeqProperties
  <2> HIDE DEF s
  <2> QED
    BY <1>2, <2>1
<1> HIDE DEF s
<1>6. s # <<>>
  BY <1>2, <1>5
<1>7. ASSUME NEW p \in 1..Len(s), NEW q \in 1..Len(s), p <= q
      PROVE  s[p].time <= s[q].time
  <2>1. /\ a + p - 1 \in 1..Len(drive) /\ a + q - 1 \in 1..Len(drive)
        /\ a + p - 1 <= a + q - 1
    BY <1>2, <1>5, <1>7
  <2>2. s[p] = drive[a + p - 1] /\ s[q] = drive[a + q - 1]
    BY <1>5
  <2> QED
    BY <2>1, <2>2 DEF InOrder
<1> QED
  BY <1>3, <1>5, <1>6, <1>7 DEF Points

\* A contact begins and ends within the node's range.
LEMMA InfoEnds ==
    ASSUME NEW drive \in Seq(RoutePoint), NEW i \in 1..Len(NodeInfos(drive))
    PROVE  LET points == NodeInfos(drive)[i].points
           IN  points[1].node # None /\ points[Len(points)].node # None
<1> DEFINE runs == Merged(Intervals(drive))
           run == runs[i]
           a == run.first
           b == run.last
           s == SubSeq(drive, a, b)
           info == NodeInfos(drive)[i]
<1>1. Runs(drive, runs) /\ i \in 1..Len(runs) /\ info = Info(drive, run)
  BY InfosAreRuns
<1> HIDE DEF runs, info
<1>2. /\ a \in 1..Len(drive) /\ b \in 1..Len(drive) /\ a <= b /\ Len(drive) \in Nat
      /\ drive[a].node # None /\ drive[b].node # None
  BY <1>1, RunsFacts
<1> HIDE DEF run
<1>3. info.points = s
  BY <1>1 DEF Info
<1> HIDE DEF a, b
<1>4. a \in Int /\ b \in Int /\ \A p \in a..b : drive[p] \in RoutePoint
  BY <1>2, ElementOfSeq
<1>5. /\ Len(s) = IF a <= b THEN b - a + 1 ELSE 0
      /\ \A p \in 1..b - a + 1 : s[p] = drive[a + p - 1]
  BY <1>4, SubSeqProperties
<1> HIDE DEF s
<1>6. 1 \in 1..b - a + 1 /\ b - a + 1 \in 1..b - a + 1 /\ a + 1 - 1 = a /\ a + (b - a + 1) - 1 = b
  BY <1>2
<1>7. Len(s) = b - a + 1
  BY <1>2, <1>5
<1>8. s[1] = drive[a] /\ s[Len(s)] = drive[b]
  BY <1>5, <1>6, <1>7
<1> QED
  BY <1>2, <1>3, <1>8 DEF info

StaysOf(drive) == {ij \in (DOMAIN drive) \X (DOMAIN drive) : IsStay(drive, ij[1], ij[2])}

\* The contacts are the stays, once each, and in order.
LEMMA ContactsAre ==
    ASSUME NEW drive \in Seq(RoutePoint), InOrder(drive)
    PROVE  LET infos == NodeInfos(drive)
           IN  /\ {<<infos[i].node, infos[i].points>> : i \in DOMAIN infos}
                     = {<<drive[ij[1]].node, SubSeq(drive, ij[1], ij[2])>> : ij \in StaysOf(drive)}
               /\ Len(infos) = Cardinality(StaysOf(drive))
               /\ \A i \in 1..Len(infos) - 1 :
                     infos[i].arrival + infos[i].duration <= infos[i + 1].arrival
<1> DEFINE runs == Merged(Intervals(drive))
           infos == NodeInfos(drive)
           K == Len(infos)
           f == [m \in 1..K |-> <<runs[m].first, runs[m].last>>]
           stays == StaysOf(drive)
<1>1. /\ Runs(drive, runs) /\ Len(infos) = Len(runs) /\ K \in Nat /\ DOMAIN infos = 1..K
      /\ \A i \in 1..K : infos[i] = Info(drive, runs[i])
  BY InfosAreRuns
<1> HIDE DEF runs, infos
<1>2. /\ Len(drive) \in Nat /\ DOMAIN drive = 1..Len(drive)
      /\ \A m \in 1..K :
            /\ runs[m].first \in Nat /\ runs[m].last \in Nat
            /\ runs[m].first \in 1..Len(drive) /\ runs[m].last \in 1..Len(drive)
            /\ runs[m].first <= runs[m].last
            /\ drive[runs[m].first].node = runs[m].node
  BY <1>1, RunsFacts
<1>3. /\ \A m \in 1..K : f[m] \in stays /\ f[m][1] = runs[m].first /\ f[m][2] = runs[m].last
      /\ \A ij \in stays : \E m \in 1..K : f[m] = ij
  <2>1. ASSUME NEW m \in 1..K
        PROVE  f[m] \in stays /\ f[m][1] = runs[m].first /\ f[m][2] = runs[m].last
    <3>1. IsStay(drive, runs[m].first, runs[m].last)
      BY <1>1, RunIsStay
    <3> QED
      BY <1>2, <3>1 DEF StaysOf
  <2>2. ASSUME NEW ij \in stays
        PROVE  \E m \in 1..K : f[m] = ij
    <3>1. PICK i \in DOMAIN drive, j \in DOMAIN drive : ij = <<i, j>> /\ IsStay(drive, i, j)
      BY DEF StaysOf
    <3>2. PICK m \in 1..Len(runs) : runs[m].first = i /\ runs[m].last = j
      BY <1>1, <3>1, StayIsRun
    <3> QED
      BY <1>1, <3>1, <3>2
  <2> QED
    BY <2>1, <2>2
<1>4. ASSUME NEW m \in 1..K
      PROVE  <<infos[m].node, infos[m].points>> =
                 <<drive[f[m][1]].node, SubSeq(drive, f[m][1], f[m][2])>>
  <2>1. infos[m].node = runs[m].node /\ infos[m].points = SubSeq(drive, runs[m].first, runs[m].last)
    BY <1>1 DEF Info
  <2> QED
    BY <1>2, <1>3, <2>1
<1> HIDE DEF f, stays
<1>5. {<<infos[i].node, infos[i].points>> : i \in DOMAIN infos}
          = {<<drive[ij[1]].node, SubSeq(drive, ij[1], ij[2])>> : ij \in stays}
  <2> DEFINE P(m) == <<infos[m].node, infos[m].points>>
             Q(ij) == <<drive[ij[1]].node, SubSeq(drive, ij[1], ij[2])>>
  <2>1. \A m \in 1..K : f[m] \in stays /\ P(m) = Q(f[m])
    BY <1>3, <1>4
  <2>2. \A ij \in stays : \E m \in 1..K : f[m] = ij
    BY <1>3
  <2> HIDE DEF P, Q
  <2>3. {P(m) : m \in 1..K} = {Q(ij) : ij \in stays}
    BY <2>1, <2>2
  <2> QED
    BY <1>1, <2>3 DEF P, Q
<1>6. K = Cardinality(stays)
  <2>1. f \in [1..K -> stays] /\ \A ij \in stays : \E m \in 1..K : f[m] = ij
    BY <1>3 DEF f
  <2>2. ASSUME NEW l \in 1..K, NEW m \in 1..K, f[l] = f[m]
        PROVE  l = m
    <3>1. runs[l].first = runs[m].first
      BY <1>3, <2>2
    <3>2. ASSUME NEW p \in 1..K, NEW q \in 1..K, p < q
          PROVE  runs[p].first # runs[q].first
      <4>1. runs[p].last < runs[q].first
        BY <1>1, <3>2 DEF Runs
      <4> QED
        BY <1>2, <4>1
    <3> QED
      BY <1>1, <3>1, <3>2
  <2>3. f \in Bijection(1..K, stays)
    BY <2>1, <2>2 DEF Bijection, Injection, Surjection, IsInjective
  <2>4. ExistsBijection(1..K, stays)
    BY <2>3 DEF ExistsBijection
  <2>5. IsFiniteSet(1..K) /\ Cardinality(1..K) = K
    <3> HIDE DEF K
    <3>1. 1 \in Int /\ K \in Int
      BY <1>1
    <3>2. IsFiniteSet(1..K) /\ Cardinality(1..K) = IF 1 > K THEN 0 ELSE K - 1 + 1
      BY <3>1, FS_Interval
    <3> QED
      BY <1>1, <3>2
  <2> QED
    BY <2>4, <2>5, FS_Bijection
<1>7. ASSUME NEW i \in 1..K - 1
      PROVE  infos[i].arrival + infos[i].duration <= infos[i + 1].arrival
  <2>1. i \in 1..K /\ i + 1 \in 1..K /\ i < i + 1
    BY <1>1
  <2> DEFINE a == runs[i].first
             b == runs[i].last
             c == runs[i + 1].first
  <2>2. a \in 1..Len(drive) /\ b \in 1..Len(drive) /\ c \in 1..Len(drive) /\ b <= c
    <3>1. b < c
      BY <1>1, <2>1 DEF Runs
    <3> QED
      BY <1>2, <2>1, <3>1
  <2>3. /\ infos[i].arrival = drive[a].time
        /\ infos[i].duration = drive[b].time - drive[a].time
        /\ infos[i + 1].arrival = drive[c].time
    BY <1>1, <2>1 DEF Info
  <2> HIDE DEF a, b, c
  <2>4. drive[a].time \in Nat /\ drive[b].time \in Nat /\ drive[c].time \in Nat
    <3>1. drive[a] \in RoutePoint /\ drive[b] \in RoutePoint /\ drive[c] \in RoutePoint
      BY <2>2, ElementOfSeq
    <3> QED
      BY <3>1 DEF RoutePoint
  <2>5. drive[b].time <= drive[c].time
    BY <2>2 DEF InOrder
  <2> QED
    BY <2>3, <2>4, <2>5
<1> QED
  BY <1>5, <1>6, <1>7 DEF stays, infos

-----------------------------------------------------------------------------
(* Bits.                                                                   *)

\* A finite set of naturals is bounded.
LEMMA FiniteBounded ==
    ASSUME NEW S \in SUBSET Nat, IsFiniteSet(S)
    PROVE  \E b \in Nat : \A x \in S : x <= b
<1> DEFINE Bounded(T) == \E b \in Nat : \A x \in T : x <= b
           A == {n \in Nat :
                    \A T \in SUBSET Nat : IsFiniteSet(T) /\ Cardinality(T) = n => Bounded(T)}
<1>1. 0 \in A
  <2> SUFFICES ASSUME NEW T \in SUBSET Nat, IsFiniteSet(T), Cardinality(T) = 0
               PROVE  Bounded(T)
    OBVIOUS
  <2>1. T = {}
    BY FS_EmptySet
  <2> QED
    BY <2>1
<1>2. \A n \in A : n + 1 \in A
  <2> SUFFICES ASSUME NEW n \in Nat,
                      \A T \in SUBSET Nat : IsFiniteSet(T) /\ Cardinality(T) = n => Bounded(T),
                      NEW T \in SUBSET Nat, IsFiniteSet(T), Cardinality(T) = n + 1
               PROVE  Bounded(T)
    <3> HIDE DEF Bounded
    <3> QED
      OBVIOUS
  <2>1. PICK y \in T : TRUE
    <3>1. T # {}
      BY FS_EmptySet
    <3> QED
      BY <3>1
  <2>2. IsFiniteSet(T \ {y}) /\ Cardinality(T \ {y}) = n
    <3>1. IsFiniteSet(T \ {y}) /\ Cardinality(T \ {y}) = (n + 1) - 1
      BY <2>1, FS_RemoveElement
    <3> QED
      BY <3>1
  <2>3. Bounded(T \ {y})
    BY <2>2
  <2>4. PICK b \in Nat : \A x \in T \ {y} : x <= b
    BY <2>3
  <2>5. \A x \in T : x <= b + y
    <3> SUFFICES ASSUME NEW x \in T
                 PROVE  x <= b + y
      OBVIOUS
    <3>1. CASE x = y
      BY <3>1
    <3>2. CASE x # y
      BY <2>4, <3>2
    <3> QED
      BY <3>1, <3>2
  <2>6. b + y \in Nat
    OBVIOUS
  <2> QED
    BY <2>5, <2>6
<1>3. A = Nat
  <2> HIDE DEF A
  <2> QED
    BY <1>1, <1>2, Induction DEF A
<1>4. Cardinality(S) \in A
  <2> HIDE DEF A
  <2> QED
    BY <1>3, FS_CardinalityType
<1> QED
  BY <1>4

\* What a model file is: bits per second for some distances.
Radio(speed) ==
    /\ DOMAIN speed \in SUBSET Nat /\ DOMAIN speed # {} /\ IsFiniteSet(DOMAIN speed)
    /\ \A d \in DOMAIN speed : speed[d] \in Nat

\* The model distance is in the table.
LEMMA ModelDistType ==
    ASSUME NEW speed, Radio(speed), NEW d \in Nat
    PROVE  ModelDist(speed, d) \in DOMAIN speed
<1> DEFINE D == DOMAIN speed
           below == {e \in D : e < d}
           above == {e \in D : e >= d}
<1>1. PICK b \in Nat : \A e \in D : e <= b
  BY FiniteBounded DEF Radio
<1>2. Max(D) \in D
  BY <1>1, MaxIsGreatest DEF Radio
<1>3. above # {} => Min(above) \in above
  BY MinIsLeast DEF Radio
<1>4. below # {} => Max(below) \in below
  <2>1. \A e \in below : e <= b
    BY <1>1
  <2> QED
    BY <2>1, MaxIsGreatest DEF Radio
<1> QED
  BY <1>2, <1>3, <1>4 DEF ModelDist

\* And the nearest in it.
LEMMA ModelDistNearest ==
    ASSUME NEW speed, Radio(speed), NEW d \in Nat
    PROVE  Nearest(speed, d) = ModelDist(speed, d)
<1> DEFINE D == DOMAIN speed
           m == ModelDist(speed, d)
           below == {e \in D : e < d}
           above == {e \in D : e >= d}
           Best(e) ==
               \A f \in D : Apart(d, e) < Apart(d, f) \/ (Apart(d, e) = Apart(d, f) /\ e <= f)
<1>1. PICK b \in Nat : \A e \in D : e <= b
  BY FiniteBounded DEF Radio
<1>2. D \in SUBSET Nat /\ D # {} /\ below \in SUBSET Nat /\ above \in SUBSET Nat
  BY DEF Radio
<1>3. Max(D) \in D /\ \A e \in D : e <= Max(D)
  BY <1>1, <1>2, MaxIsGreatest
<1>4. above # {} => Min(above) \in above /\ \A e \in above : Min(above) <= e
  BY <1>2, MinIsLeast
<1>5. below # {} => Max(below) \in below /\ \A e \in below : e <= Max(below)
  <2>1. \A e \in below : e <= b
    BY <1>1
  <2> QED
    BY <1>1, <1>2, <2>1, MaxIsGreatest
<1>6. \A e \in D : e \in below \/ e \in above
  BY <1>2
<1>7. Best(m)
  <2>1. CASE above = {}
    <3>1. m = Max(D) /\ \A e \in D : e < d
      BY <1>2, <2>1 DEF ModelDist
    <3> QED
      BY <1>2, <1>3, <3>1 DEF Apart
  <2>2. CASE above # {} /\ below = {}
    <3>1. m = Min(above) /\ \A e \in D : e \in above
      BY <1>6, <2>2 DEF ModelDist
    <3> QED
      BY <1>2, <1>4, <2>2, <3>1 DEF Apart
  <2>3. CASE above # {} /\ below # {}
    <3> DEFINE u == Min(above)
               l == Max(below)
    <3>1. m = IF Apart(d, u) < Apart(d, l) THEN u ELSE l
      BY <2>3 DEF ModelDist
    <3>2. u \in D /\ u >= d /\ l \in D /\ l < d
      BY <1>4, <1>5, <2>3
    <3>3. \A e \in D : (e < d /\ e <= l) \/ (e >= d /\ u <= e)
      BY <1>4, <1>5, <1>6, <2>3
    <3> HIDE DEF u, l, m
    <3> QED
      BY <1>2, <3>1, <3>2, <3>3 DEF Apart
  <2> QED
    BY <2>1, <2>2, <2>3
<1>8. m \in D
  BY ModelDistType
<1>9. \A e \in D : Best(e) => e = m
  <2> SUFFICES ASSUME NEW e \in D, Best(e)
               PROVE  e = m
    OBVIOUS
  <2> HIDE DEF m
  <2>1. Apart(d, e) < Apart(d, m) \/ (Apart(d, e) = Apart(d, m) /\ e <= m)
    BY <1>8
  <2>2. Apart(d, m) < Apart(d, e) \/ (Apart(d, m) = Apart(d, e) /\ m <= e)
    BY <1>7
  <2> QED
    BY <1>2, <1>8, <2>1, <2>2 DEF Apart
<1>10. Nearest(speed, d) = CHOOSE e \in D : Best(e)
  BY DEF Nearest
<1> HIDE DEF Best, m
<1> QED
  BY <1>7, <1>8, <1>9, <1>10 DEF m

\* A vehicle asks for distances in the table, and gets what the table says.
LEMMA SpeedOfModelDist ==
    ASSUME NEW speed, Radio(speed), NEW d \in DOMAIN speed
    PROVE  DownloadSpeed(speed, d) = speed[d]
<1> DEFINE above == {e \in DOMAIN speed : e >= d}
<1>1. above \in SUBSET Nat /\ d \in above /\ d \in Nat
  BY DEF Radio
<1>2. Min(above) \in above /\ \A e \in above : Min(above) <= e
  BY <1>1, MinIsLeast
<1>3. Min(above) = d
  BY <1>1, <1>2
<1> QED
  BY <1>1, <1>3 DEF DownloadSpeed, NextDist

BitsSoFar(speed) == [bits : Nat, time : Nat, dist : DOMAIN speed]

\* The recursion of DownloadBits, unfolded.
LEMMA BitsFollow ==
    ASSUME NEW speed, Radio(speed), NEW points, Points(points)
    PROVE  /\ BitsUpTo(speed, points)[1] = FirstBits(speed, points)
           /\ \A i \in 2..Len(points) :
                 BitsUpTo(speed, points)[i] =
                     AddBits(speed, points, BitsUpTo(speed, points)[i - 1], i)
           /\ \A i \in 1..Len(points) : BitsUpTo(speed, points)[i] \in BitsSoFar(speed)
<1> DEFINE V == BitsSoFar(speed)
           n == Len(points)
           a == FirstBits(speed, points)
           F == [p \in V \X (1..n) |-> AddBits(speed, points, p[1], p[2])]
           IsIt(f) == f = [i \in 1..n |-> IF i = 1 THEN a ELSE AddBits(speed, points, f[i - 1], i)]
<1>1. n \in Nat /\ 1 <= n /\ \A i \in 1..n : points[i].time \in Nat /\ points[i].dist \in Nat
  BY PointsFacts
<1>2. a \in V
  BY <1>1, ModelDistType DEF FirstBits, BitsSoFar
<1>3. ASSUME NEW v \in V, NEW i \in 1..n
      PROVE  AddBits(speed, points, v, i) \in V
  <2> DEFINE t == points[i].time
             d == ModelDist(speed, points[i].dist)
             more == IF t > v.time THEN speed[v.dist] * (t - v.time) ELSE 0
  <2>1. t \in Nat /\ d \in DOMAIN speed
    BY <1>1, ModelDistType
  <2>2. v.bits \in Nat /\ v.time \in Nat /\ v.dist \in DOMAIN speed
    BY DEF BitsSoFar
  <2>3. more \in Nat
    <3>1. speed[v.dist] \in Nat
      BY <2>2 DEF Radio
    <3>2. CASE t > v.time
      <4>1. t - v.time \in Nat
        BY <2>1, <2>2, <3>2
      <4> HIDE DEF t
      <4> QED
        BY <3>1, <3>2, <4>1
    <3> QED
      BY <3>2
  <2> HIDE DEF more, d, t
  <2>4. [bits |-> v.bits + more, time |-> t, dist |-> d] \in V
    BY <2>1, <2>2, <2>3 DEF BitsSoFar
  <2> QED
    BY <2>4 DEF AddBits, more, d, t
<1>4. PICK g \in [1..n -> V] : Built(a, 1, n, F, g)
  <2>1. Closed(V, 1, n, F)
    BY <1>3 DEF Closed
  <2> HIDE DEF F, V, n, a
  <2> QED
    BY <1>1, <1>2, <2>1, Recursion
<1>5. IsIt(g)
  <2>1. \A i \in 1..n : g[i] = IF i = 1 THEN a ELSE AddBits(speed, points, g[i - 1], i)
    <3> SUFFICES ASSUME NEW i \in 1..n, i # 1
                 PROVE  g[i] = AddBits(speed, points, g[i - 1], i)
      BY <1>4 DEF Built
    <3>1. i - 1 \in 1..n /\ g[i - 1] \in V
      <4> HIDE DEF V, n
      <4> QED
        BY <1>1, <1>4
    <3>2. F[<<g[i - 1], i>>] = AddBits(speed, points, g[i - 1], i)
      BY <3>1
    <3> HIDE DEF F, V, n, a
    <3> QED
      BY <1>4, <3>2 DEF Built
  <2> HIDE DEF F, V, a
  <2> QED
    BY <1>4, <2>1
<1>6. BitsUpTo(speed, points) = CHOOSE f : IsIt(f)
  BY DEF BitsUpTo
<1>7. IsIt(BitsUpTo(speed, points))
  <2> HIDE DEF IsIt
  <2> QED
    BY <1>5, <1>6
<1> HIDE DEF n, a
<1> DEFINE f == BitsUpTo(speed, points)
<1>8. f = [i \in 1..n |-> IF i = 1 THEN a ELSE AddBits(speed, points, f[i - 1], i)]
  BY <1>7
<1> HIDE DEF f
<1>9. f[1] = a /\ \A i \in 2..n : f[i] = AddBits(speed, points, f[i - 1], i)
  BY <1>1, <1>8
<1>10. \A i \in 1..n : f[i] \in V
  <2> DEFINE A == {k \in Nat : k + 1 <= n => f[k + 1] \in V}
  <2>1. 0 \in A
    BY <1>2, <1>9
  <2>2. \A k \in A : k + 1 \in A
    <3> SUFFICES ASSUME NEW k \in Nat, (k + 1) + 1 <= n, f[k + 1] \in V
                 PROVE  f[(k + 1) + 1] \in V
      BY <1>1
    <3>1. (k + 1) + 1 \in 2..n /\ (k + 1) + 1 \in 1..n /\ ((k + 1) + 1) - 1 = k + 1
      BY <1>1
    <3> HIDE DEF V
    <3> QED
      BY <1>3, <1>9, <3>1
  <2>3. A = Nat
    <3> HIDE DEF A
    <3> QED
      BY <2>1, <2>2, Induction DEF A
  <2> SUFFICES ASSUME NEW i \in 1..n
               PROVE  f[i] \in V
    OBVIOUS
  <2>4. i - 1 \in A /\ (i - 1) + 1 = i
    <3> HIDE DEF A
    <3> QED
      BY <2>3
  <2> QED
    BY <1>1, <2>4
<1> QED
  BY <1>9, <1>10 DEF f, n, a

\* Of the points of the latest time up to t, the first.
LEMMA PointInIs ==
    ASSUME NEW points, Points(points), NEW t \in Nat, NEW f \in 1..Len(points),
           points[f].time <= t,
           \A j \in 1..Len(points) : points[j].time <= t => points[j].time <= points[f].time,
           \A g \in 1..Len(points) : g < f => points[g].time < points[f].time
    PROVE  PointIn(points, t) = f
<1> DEFINE n == Len(points)
           S == {i \in DOMAIN points : /\ points[i].time <= t
                                       /\ \A j \in DOMAIN points : points[j].time <= t =>
                                              points[j].time <= points[i].time}
<1>1. n \in Nat /\ DOMAIN points = 1..n /\ \A i \in 1..n : points[i].time \in Nat
  BY PointsFacts
<1>2. S \in SUBSET Nat /\ f \in S
  BY <1>1
<1>3. \A i \in S : f <= i
  <2> SUFFICES ASSUME NEW i \in S, i < f
               PROVE  FALSE
    BY <1>1
  <2>1. points[i].time < points[f].time /\ points[f].time <= points[i].time
    BY <1>1
  <2> QED
    BY <1>1, <2>1
<1>4. Min(S) \in S /\ \A i \in S : Min(S) <= i
  <2> HIDE DEF S
  <2> QED
    BY <1>2, MinIsLeast
<1>5. Min(S) = f
  <2>1. Min(S) \in Nat /\ f \in Nat
    BY <1>1, <1>4
  <2>2. f <= Min(S) /\ Min(S) <= f
    BY <1>2, <1>3, <1>4
  <2> HIDE DEF S
  <2> QED
    BY <2>1, <2>2
<1> QED
  BY <1>5 DEF PointIn

\* From the first point's time on there is a point that the vehicle came to last.
LEMMA PointInType ==
    ASSUME NEW points, Points(points), NEW t \in Nat, points[1].time <= t
    PROVE  PointIn(points, t) \in 1..Len(points)
<1> DEFINE n == Len(points)
           S == {i \in 1..n : points[i].time <= t}
           T == {points[i].time : i \in S}
<1>1. n \in Nat /\ 1 \in 1..n /\ \A i \in 1..n : points[i].time \in Nat
  BY PointsFacts
<1>2. T \in SUBSET Nat /\ T # {} /\ \A x \in T : x <= t
  BY <1>1
<1>3. PICK x \in T : \A y \in T : y <= x
  <2> HIDE DEF T
  <2> QED
    BY <1>2, Greatest
<1> DEFINE L == {i \in 1..n : points[i].time = x}
<1>4. L \in SUBSET Nat /\ L # {}
  BY <1>1
<1>5. PICK f \in L : \A i \in L : f <= i
  <2> HIDE DEF L
  <2> QED
    BY <1>4, Least
<1>6. f \in 1..n /\ points[f].time = x /\ x <= t
  BY <1>2
<1>7. \A j \in 1..n : points[j].time <= t => points[j].time <= points[f].time
  BY <1>3, <1>6
<1>8. \A g \in 1..n : g < f => points[g].time < points[f].time
  <2> SUFFICES ASSUME NEW g \in 1..n, g < f
               PROVE  points[g].time < points[f].time
    OBVIOUS
  <2>1. points[g].time # x
    BY <1>1, <1>5, <1>6
  <2>2. points[g].time <= points[f].time
    BY <1>1, <1>6 DEF Points
  <2> QED
    BY <1>1, <1>6, <2>1, <2>2
<1> HIDE DEF n
<1>9. PointIn(points, t) = f
  BY <1>6, <1>7, <1>8, PointInIs DEF n
<1> QED
  BY <1>6, <1>9 DEF n

\* What is carried in a second is a number of bits.
LEMMA CarriedType ==
    ASSUME NEW speed, Radio(speed), NEW points, Points(points),
           NEW t \in Nat, points[1].time <= t
    PROVE  Carried(speed, points, t) \in Nat
<1>1. PointIn(points, t) \in 1..Len(points)
  BY PointInType
<1>2. points[PointIn(points, t)].dist \in Nat
  BY <1>1, PointsFacts
<1>3. Nearest(speed, points[PointIn(points, t)].dist) \in DOMAIN speed
  BY <1>2, ModelDistNearest, ModelDistType
<1> QED
  BY <1>3 DEF Carried, Radio

\* The recursion of CarriedBits, unfolded.
LEMMA CarriedFollow ==
    ASSUME NEW speed, Radio(speed), NEW points, Points(points)
    PROVE  \A t \in points[1].time..points[Len(points)].time :
              /\ CarriedUpTo(speed, points)[t] \in Nat
              /\ CarriedUpTo(speed, points)[t] =
                    Carried(speed, points, t) +
                    IF t = points[1].time THEN 0 ELSE CarriedUpTo(speed, points)[t - 1]
<1> DEFINE b == points[1].time
           n == points[Len(points)].time
           a == Carried(speed, points, b)
           F == [p \in Nat \X (b..n) |-> Carried(speed, points, p[2]) + p[1]]
           IsIt(f) == f = [t \in b..n |-> Carried(speed, points, t) +
                                          IF t = b THEN 0 ELSE f[t - 1]]
<1>1. b \in Nat /\ n \in Nat /\ b <= n
  <2>1. 1 \in 1..Len(points) /\ Len(points) \in 1..Len(points)
    BY PointsFacts
  <2> QED
    BY <2>1, PointsFacts
<1>2. \A t \in b..n : Carried(speed, points, t) \in Nat
  <2> SUFFICES ASSUME NEW t \in b..n
               PROVE  Carried(speed, points, t) \in Nat
    OBVIOUS
  <2>1. t \in Nat /\ b <= t
    BY <1>1
  <2> QED
    BY <2>1, CarriedType
<1> HIDE DEF b, n
<1>3. a \in Nat
  BY <1>1, <1>2
<1>4. PICK g \in [b..n -> Nat] : Built(a, b, n, F, g)
  <2>1. Closed(Nat, b, n, F)
    BY <1>2 DEF Closed
  <2> HIDE DEF F, a
  <2> QED
    BY <1>1, <1>3, <2>1, Recursion
<1>5. IsIt(g)
  <2>1. \A t \in b..n : g[t] = Carried(speed, points, t) + IF t = b THEN 0 ELSE g[t - 1]
    <3> SUFFICES ASSUME NEW t \in b..n
                 PROVE  g[t] = Carried(speed, points, t) + IF t = b THEN 0 ELSE g[t - 1]
      OBVIOUS
    <3>1. CASE t = b
      <4>1. g[t] = a
        <5> HIDE DEF a
        <5> QED
          BY <1>4, <3>1 DEF Built
      <4> QED
        BY <1>3, <3>1, <4>1
    <3>2. CASE t # b
      <4>1. t - 1 \in b..n /\ g[t - 1] \in Nat
        BY <1>1, <1>4, <3>2
      <4>2. F[<<g[t - 1], t>>] = Carried(speed, points, t) + g[t - 1]
        BY <4>1
      <4> HIDE DEF F, a
      <4> QED
        BY <1>4, <3>2, <4>2 DEF Built
    <3> QED
      BY <3>1, <3>2
  <2> HIDE DEF F, a
  <2> QED
    BY <1>4, <2>1
<1>6. CarriedUpTo(speed, points) = CHOOSE f : IsIt(f)
  BY DEF CarriedUpTo, b, n
<1>7. IsIt(CarriedUpTo(speed, points))
  <2> HIDE DEF IsIt
  <2> QED
    BY <1>5, <1>6
<1> DEFINE f == CarriedUpTo(speed, points)
<1>8. f = [t \in b..n |-> Carried(speed, points, t) + IF t = b THEN 0 ELSE f[t - 1]]
  BY <1>7
<1> HIDE DEF f
<1>9. \A t \in b..n : f[t] = Carried(speed, points, t) + IF t = b THEN 0 ELSE f[t - 1]
  BY <1>8
<1>10. \A t \in b..n : f[t] \in Nat
  <2> DEFINE A == {k \in Nat : b + k <= n => f[b + k] \in Nat}
  <2>1. 0 \in A
    BY <1>1, <1>2, <1>9
  <2>2. \A k \in A : k + 1 \in A
    <3> SUFFICES ASSUME NEW k \in Nat, b + (k + 1) <= n, f[b + k] \in Nat
                 PROVE  f[b + (k + 1)] \in Nat
      BY <1>1
    <3>1. b + (k + 1) \in b..n /\ b + (k + 1) # b /\ (b + (k + 1)) - 1 = b + k
      BY <1>1
    <3> QED
      BY <1>2, <1>9, <3>1
  <2>3. A = Nat
    <3> HIDE DEF A
    <3> QED
      BY <2>1, <2>2, Induction DEF A
  <2> SUFFICES ASSUME NEW t \in b..n
               PROVE  f[t] \in Nat
    OBVIOUS
  <2>4. t - b \in Nat /\ b + (t - b) = t /\ t <= n
    BY <1>1
  <2>5. t - b \in A
    <3> HIDE DEF A
    <3> QED
      BY <2>3, <2>4
  <2> QED
    BY <2>4, <2>5
<1> QED
  BY <1>9, <1>10 DEF f, b, n

AtMost(u, b, m, r) == \A k \in 1..m : u[b + k] <= u[b + k - 1] + r
Always(u, b, m, r) == \A k \in 1..m : u[b + k] = u[b + k - 1] + r
Counts(u, b, m) == \A k \in 0..m : u[b + k] \in Nat

\* What grows by at most r in each of m seconds grows by at most r * m.
LEMMA Growth ==
    ASSUME NEW u, NEW b \in Int, NEW m \in Nat, NEW r \in Nat, NEW c \in Nat,
           Counts(u, b, m), u[b] <= c, AtMost(u, b, m, r)
    PROVE  /\ u[b + m] <= c + r * m
           /\ u[b] = c /\ Always(u, b, m, r) => u[b + m] = c + r * m
<1> USE DEF AtMost, Always, Counts
<1> DEFINE exact == u[b] = c /\ Always(u, b, m, r)
           Holds(k) == u[b + k] <= c + r * k /\ (exact => u[b + k] = c + r * k)
           A == {k \in Nat : k <= m => Holds(k)}
<1>1. 0 \in A
  BY b + 0 = b
<1>2. \A k \in A : k + 1 \in A
  <2> SUFFICES ASSUME NEW k \in Nat, k + 1 <= m, Holds(k)
               PROVE  Holds(k + 1)
    <3> HIDE DEF Holds
    <3> QED
      OBVIOUS
  <2>1. k + 1 \in 1..m /\ b + (k + 1) - 1 = b + k /\ k \in 0..m /\ k + 1 \in 0..m
    OBVIOUS
  <2>2. u[b + (k + 1)] <= u[b + k] + r /\ (exact => u[b + (k + 1)] = u[b + k] + r)
    BY <2>1
  <2>3. u[b + k] \in Nat /\ u[b + (k + 1)] \in Nat
    BY <2>1
  <2>4. r * (k + 1) = r * k + r /\ r * k \in Nat
    OBVIOUS
  <2> HIDE DEF exact
  <2> QED
    BY <2>2, <2>3, <2>4
<1>3. A = Nat
  <2> HIDE DEF A
  <2> QED
    BY <1>1, <1>2, Induction DEF A
<1>4. Holds(m)
  <2> HIDE DEF Holds
  <2> QED
    BY <1>3
<1> QED
  BY <1>4

\* What was carried up to second t, also before the contact.
CarriedTo(speed, points) ==
    [t \in Int |-> IF t < points[1].time THEN 0 ELSE CarriedUpTo(speed, points)[t]]

InRange(points) == \A p \in 1..Len(points) : points[p].node # None

\* The estimate up to point i goes to its time, with the distance of the first point of
\* that time, and is what was carried before that time, or more.
EstimateSoFar(speed, points, i) ==
    LET so == BitsUpTo(speed, points)[i]
        before == CarriedTo(speed, points)[points[i].time - 1]
    IN  /\ so.time = points[i].time
        /\ \E f \in 1..i :
              /\ points[f].time = points[i].time
              /\ \A g \in 1..i : g < f => points[g].time < points[f].time
              /\ so.dist = ModelDist(speed, points[f].dist)
        /\ before <= so.bits /\ (InRange(points) => before = so.bits)

\* It is a number of bits, and each second of the contact adds what it carries.
LEMMA CarriedToType ==
    ASSUME NEW speed, Radio(speed), NEW points, Points(points),
           NEW t \in Int, t <= points[Len(points)].time
    PROVE  /\ CarriedTo(speed, points)[t] \in Nat
           /\ points[1].time <= t =>
                 CarriedTo(speed, points)[t] =
                     Carried(speed, points, t) + CarriedTo(speed, points)[t - 1]
<1> DEFINE b == points[1].time
           n == points[Len(points)].time
           f == CarriedUpTo(speed, points)
           u == CarriedTo(speed, points)
<1>1. b \in Nat /\ n \in Nat
  BY PointsFacts
<1>2. \A s \in b..n :
         f[s] \in Nat /\ f[s] = Carried(speed, points, s) + IF s = b THEN 0 ELSE f[s - 1]
  BY CarriedFollow
<1>3. \A s \in Int : u[s] = IF s < b THEN 0 ELSE f[s]
  BY DEF CarriedTo
<1>4. b <= t => t \in b..n
  BY <1>1
<1>5. t - 1 \in Int
  OBVIOUS
<1> HIDE DEF b, n, f, u
<1>6. u[t] \in Nat
  BY <1>1, <1>2, <1>3, <1>4
<1>7. ASSUME b <= t
      PROVE  u[t] = Carried(speed, points, t) + u[t - 1]
  <2>1. u[t] = f[t]
    BY <1>1, <1>3, <1>7
  <2>2. CASE t = b
    <3>1. u[t - 1] = 0
      BY <1>1, <1>3, <1>5, <2>2
    <3> QED
      BY <1>2, <1>4, <1>7, <2>1, <2>2, <3>1
  <2>3. CASE t # b
    <3>1. u[t - 1] = f[t - 1]
      BY <1>1, <1>3, <1>5, <1>7, <2>3
    <3> QED
      BY <1>2, <1>4, <1>7, <2>1, <2>3, <3>1
  <2> QED
    BY <2>2, <2>3
<1> QED
  BY <1>6, <1>7 DEF b, u

\* From point i on the radio carries no more than the estimate's distance gives, until
\* the next point of a later time.
LEMMA Rate ==
    ASSUME NEW speed, Radio(speed), NEW points, Points(points), NEW i \in 1..Len(points),
           EstimateSoFar(speed, points, i), NEW t \in Nat, points[i].time <= t,
           \A j \in 1..Len(points) : j > i => points[j].time > t
    PROVE  LET r == speed[BitsUpTo(speed, points)[i].dist]
           IN  /\ r \in Nat /\ Carried(speed, points, t) <= r
               /\ InRange(points) => Carried(speed, points, t) = r
<1> DEFINE n == Len(points)
           so == BitsUpTo(speed, points)[i]
<1>1. /\ n \in Nat /\ i \in Nat
      /\ \A j \in 1..n : points[j].time \in Nat /\ points[j].dist \in Nat
  BY PointsFacts
<1> HIDE DEF so
<1>2. PICK f \in 1..i : /\ points[f].time = points[i].time
                        /\ \A g \in 1..i : g < f => points[g].time < points[f].time
                        /\ so.dist = ModelDist(speed, points[f].dist)
  BY DEF EstimateSoFar, so
<1>3. f \in 1..n /\ points[f].dist \in Nat
  BY <1>1
<1>4. PointIn(points, t) = f
  <2>1. points[f].time <= t
    BY <1>2
  <2>2. \A j \in 1..n : points[j].time <= t => points[j].time <= points[f].time
    <3> SUFFICES ASSUME NEW j \in 1..n, points[j].time <= t
                 PROVE  points[j].time <= points[f].time
      OBVIOUS
    <3>1. j <= i
      BY <1>1
    <3> QED
      BY <1>2, <3>1 DEF Points
  <2>3. \A g \in 1..n : g < f => points[g].time < points[f].time
    <3> SUFFICES ASSUME NEW g \in 1..n, g < f
                 PROVE  points[g].time < points[f].time
      OBVIOUS
    <3>1. g \in 1..i
      BY <1>1
    <3> QED
      BY <1>2, <3>1
  <2> QED
    BY <1>3, <2>1, <2>2, <2>3, PointInIs
<1>5. /\ Nearest(speed, points[f].dist) = ModelDist(speed, points[f].dist)
      /\ ModelDist(speed, points[f].dist) \in DOMAIN speed
  BY <1>3, ModelDistNearest, ModelDistType
<1>6. so.dist = Nearest(speed, points[f].dist) /\ so.dist \in DOMAIN speed
  BY <1>2, <1>5
<1>7. speed[so.dist] \in Nat
  BY <1>6 DEF Radio
<1>8. Carried(speed, points, t) = IF points[f].node = None THEN 0 ELSE speed[so.dist]
  BY <1>4, <1>6 DEF Carried
<1> QED
  BY <1>3, <1>7, <1>8 DEF InRange, so

\* At the first point nothing was carried and nothing is estimated.
LEMMA EstimateBegins ==
    ASSUME NEW speed, Radio(speed), NEW points, Points(points)
    PROVE  EstimateSoFar(speed, points, 1)
<1> DEFINE so == BitsUpTo(speed, points)[1]
           T == points[1].time
<1>1. T \in Nat /\ 1 \in 1..Len(points)
  BY PointsFacts
<1>2. so = FirstBits(speed, points)
  BY BitsFollow
<1>3. so.bits = 0 /\ so.time = T /\ so.dist = ModelDist(speed, points[1].dist)
  BY <1>2 DEF FirstBits
<1>4. CarriedTo(speed, points)[T - 1] = 0
  BY <1>1 DEF CarriedTo
<1> HIDE DEF so
<1> QED
  BY <1>1, <1>3, <1>4 DEF EstimateSoFar, so

\* A point of the same time changes nothing; up to one of a later time the seconds in
\* between are added, each with what the radio carries in it at most.
LEMMA EstimateStep ==
    ASSUME NEW speed, Radio(speed), NEW points, Points(points), NEW i \in Nat,
           1 <= i, i < Len(points), EstimateSoFar(speed, points, i)
    PROVE  EstimateSoFar(speed, points, i + 1)
<1> DEFINE n == Len(points)
           so == BitsUpTo(speed, points)[i]
           next == BitsUpTo(speed, points)[i + 1]
           u == CarriedTo(speed, points)
           T == points[i].time
           L == points[i + 1].time
           r == speed[so.dist]
<1>1. /\ n \in Nat /\ i \in 1..n /\ i + 1 \in 1..n /\ i + 1 \in 2..n /\ (i + 1) - 1 = i
      /\ \A j \in 1..n : /\ points[j].time \in Nat /\ points[j].dist \in Nat
                         /\ points[1].time <= points[j].time
                         /\ points[j].time <= points[n].time
  BY PointsFacts
<1>2. next = AddBits(speed, points, so, i + 1) /\ so \in BitsSoFar(speed)
  BY <1>1, BitsFollow
<1>3. /\ T \in Nat /\ L \in Nat /\ T <= L /\ points[1].time <= T /\ L <= points[n].time
      /\ \A j \in 1..n : j > i => L <= points[j].time
  <2>1. T <= L
    BY <1>1 DEF Points
  <2>2. ASSUME NEW j \in 1..n, j > i
        PROVE  L <= points[j].time
    <3>1. i + 1 <= j
      BY <2>2
    <3> QED
      BY <1>1, <3>1 DEF Points
  <2> QED
    BY <1>1, <2>1, <2>2
<1>4. so.time = T /\ so.bits \in Nat /\ so.dist \in DOMAIN speed
  BY <1>2 DEF EstimateSoFar, BitsSoFar
<1>5. /\ u[T - 1] \in Nat /\ u[T - 1] <= so.bits
      /\ InRange(points) => u[T - 1] = so.bits
  <2>1. T - 1 \in Int /\ T - 1 <= points[n].time
    BY <1>1, <1>3
  <2>2. u[T - 1] \in Nat
    BY <2>1, CarriedToType
  <2> QED
    BY <2>2 DEF EstimateSoFar
<1>6. PICK f \in 1..i : /\ points[f].time = T
                        /\ \A g \in 1..i : g < f => points[g].time < points[f].time
                        /\ so.dist = ModelDist(speed, points[f].dist)
  BY DEF EstimateSoFar
<1>7. CASE L = T
  <2>1. next = so
    BY <1>2, <1>4, <1>7 DEF AddBits
  <2>2. f \in 1..i + 1 /\ \A g \in 1..i + 1 : g < f => g \in 1..i
    OBVIOUS
  <2>3. /\ next.time = L
        /\ points[f].time = L
        /\ \A g \in 1..i + 1 : g < f => points[g].time < points[f].time
        /\ next.dist = ModelDist(speed, points[f].dist)
        /\ u[L - 1] <= next.bits /\ (InRange(points) => u[L - 1] = next.bits)
    BY <1>4, <1>5, <1>6, <1>7, <2>1, <2>2
  <2> HIDE DEF next, u, L
  <2> QED
    BY <2>2, <2>3 DEF EstimateSoFar, next, u, L
<1>8. CASE L # T
  <2>1. T < L
    BY <1>3, <1>8
  <2> DEFINE m == L - T
             b == T - 1
             d == ModelDist(speed, points[i + 1].dist)
  <2>2. /\ next.bits = so.bits + r * m /\ next.time = L /\ next.dist = d
    <3>1. L # so.time /\ L > so.time /\ L - so.time = m
      BY <1>3, <1>4, <2>1
    <3> DEFINE more == r * (L - so.time)
    <3>2. next = [bits |-> so.bits + (IF L > so.time THEN more ELSE 0), time |-> L, dist |-> d]
      <4> HIDE DEF next, so
      <4> QED
        BY <1>2, <3>1 DEF AddBits
    <3>3. next = [bits |-> so.bits + more, time |-> L, dist |-> d]
      <4> HIDE DEF next, so, more, L, d
      <4> QED
        BY <3>1, <3>2
    <3>4. more = r * m
      <4> HIDE DEF r, L, m
      <4> QED
        BY <3>1
    <3> HIDE DEF next, so, more, L, d, m, r
    <3> QED
      BY <3>3, <3>4
  <2>3. m \in Nat /\ b \in Int /\ b + m = L - 1
    BY <1>3, <2>1
  <2>4. r \in Nat
    BY <1>4 DEF Radio
  <2> HIDE DEF L, T, n
  <2>5. ASSUME NEW k \in 1..m
        PROVE  /\ u[b + k] <= u[b + k - 1] + r
               /\ InRange(points) => u[b + k] = u[b + k - 1] + r
    <3> DEFINE t == b + k
    <3>1. t \in Nat /\ T <= t /\ t < L /\ t - 1 \in Int
      BY <1>3, <2>1
    <3> HIDE DEF t, b, m
    <3>2. t <= points[n].time /\ points[1].time <= t
      BY <1>1, <1>3, <3>1
    <3>3. \A j \in 1..n : j > i => points[j].time > t
      BY <1>1, <1>3, <3>1
    <3>4. /\ Carried(speed, points, t) <= r
          /\ InRange(points) => Carried(speed, points, t) = r
      <4>1. /\ i \in 1..Len(points) /\ points[i].time <= t
            /\ \A j \in 1..Len(points) : j > i => points[j].time > t
        BY <1>1, <3>1, <3>3 DEF n, T
      <4> QED
        BY <3>1, <4>1, Rate
    <3>5. t - 1 <= points[n].time
      <4>1. points[n].time \in Nat
        BY <1>1
      <4> QED
        BY <3>1, <3>2, <4>1
    <3>6. u[t - 1] \in Nat /\ u[t] = Carried(speed, points, t) + u[t - 1]
      BY <3>1, <3>2, <3>5, CarriedToType DEF n
    <3>7. Carried(speed, points, t) \in Nat
      BY <3>1, <3>2, CarriedType
    <3> HIDE DEF u, r
    <3>8. u[t] <= u[t - 1] + r /\ (InRange(points) => u[t] = u[t - 1] + r)
      BY <2>4, <3>4, <3>6, <3>7
    <3> QED
      BY <2>3, <3>1, <3>8 DEF t
  <2>6. \A k \in 0..m : u[b + k] \in Nat
    <3> SUFFICES ASSUME NEW k \in 0..m
                 PROVE  u[b + k] \in Nat
      OBVIOUS
    <3>1. b + k \in Int /\ b + k <= points[n].time
      <4>1. b + k \in Int /\ b + k <= L - 1 /\ L \in Nat /\ L <= points[n].time
        <5> HIDE DEF b, m
        <5> QED
          BY <1>3, <2>3
      <4>2. points[n].time \in Nat
        BY <1>1
      <4> HIDE DEF b
      <4> QED
        BY <4>1, <4>2
    <3> HIDE DEF b
    <3> QED
      BY <3>1, CarriedToType DEF n
  <2>7. u[b] <= so.bits /\ (InRange(points) => u[b] = so.bits)
    BY <1>5
  <2> HIDE DEF u, r, m, b
  <2>8. u[b + m] <= so.bits + r * m /\ (InRange(points) => u[b + m] = so.bits + r * m)
    <3> DEFINE c == so.bits
    <3>1. c \in Nat /\ u[b] <= c
      BY <1>4, <2>7
    <3>2. AtMost(u, b, m, r) /\ (InRange(points) => u[b] = c /\ Always(u, b, m, r))
      BY <2>5, <2>7 DEF AtMost, Always
    <3>3. Counts(u, b, m)
      BY <2>6 DEF Counts
    <3> HIDE DEF c
    <3>4. /\ u[b + m] <= c + r * m
          /\ u[b] = c /\ Always(u, b, m, r) => u[b + m] = c + r * m
      BY <2>3, <2>4, <3>1, <3>2, <3>3, Growth
    <3> QED
      BY <3>2, <3>4 DEF c
  <2>9. /\ next.time = L
        /\ u[L - 1] <= next.bits /\ (InRange(points) => u[L - 1] = next.bits)
    BY <2>2, <2>3, <2>8
  <2>10. /\ i + 1 \in 1..i + 1
         /\ \A g \in 1..i + 1 : g < i + 1 => points[g].time < L
    <3> SUFFICES ASSUME NEW g \in 1..i + 1, g < i + 1
                 PROVE  points[g].time < L
      OBVIOUS
    <3>1. g \in 1..n /\ g <= i
      BY <1>1
    <3>2. points[g].time <= T
      BY <1>1, <3>1 DEF Points, T, n
    <3> QED
      BY <1>1, <1>3, <2>1, <3>1, <3>2
  <2> HIDE DEF next
  <2>11. /\ next.time = points[i + 1].time
         /\ \E h \in 1..i + 1 :
               /\ points[h].time = points[i + 1].time
               /\ \A g \in 1..i + 1 : g < h => points[g].time < points[h].time
               /\ next.dist = ModelDist(speed, points[h].dist)
    BY <2>2, <2>10 DEF L
  <2> QED
    BY <2>9, <2>11 DEF EstimateSoFar, next, u, L
<1> QED
  BY <1>7, <1>8

\* The estimate of a contact is what the radio carries in it, or more; not more when
\* the vehicle stays in range.
LEMMA EstimateIsCarried ==
    ASSUME NEW speed, Radio(speed), NEW points, Points(points)
    PROVE  /\ CarriedBits(speed, points) \in Nat /\ DownloadBits(speed, points) \in Nat
           /\ CarriedBits(speed, points) <= DownloadBits(speed, points)
           /\ InRange(points) => CarriedBits(speed, points) = DownloadBits(speed, points)
<1> DEFINE n == Len(points)
           A == {k \in Nat : k + 1 <= n => EstimateSoFar(speed, points, k + 1)}
           so == BitsUpTo(speed, points)[n]
           T == points[n].time
           r == speed[so.dist]
           u == CarriedTo(speed, points)
<1>1. /\ n \in Nat /\ 1 <= n /\ n \in 1..n /\ T \in Nat /\ points[1].time \in Nat
      /\ points[1].time <= T
  BY PointsFacts
<1>2. 0 \in A
  BY EstimateBegins
<1>3. \A k \in A : k + 1 \in A
  <2> SUFFICES ASSUME NEW k \in Nat, (k + 1) + 1 <= n, EstimateSoFar(speed, points, k + 1)
               PROVE  EstimateSoFar(speed, points, (k + 1) + 1)
    BY <1>1
  <2>1. k + 1 \in Nat /\ 1 <= k + 1 /\ k + 1 < n
    BY <1>1
  <2> QED
    BY <2>1, EstimateStep
<1>4. A = Nat
  <2> HIDE DEF A
  <2> QED
    BY <1>2, <1>3, Induction DEF A
<1>5. EstimateSoFar(speed, points, n)
  <2> DEFINE k == n - 1
  <2>1. k \in Nat /\ k + 1 = n
    BY <1>1
  <2>2. k \in A
    <3> HIDE DEF A, k
    <3> QED
      BY <1>4, <2>1
  <2> HIDE DEF k, n
  <2> QED
    BY <1>1, <2>1, <2>2
<1> HIDE DEF A
<1>6. /\ u[T - 1] \in Nat /\ u[T - 1] <= so.bits
      /\ InRange(points) => u[T - 1] = so.bits
  <2>1. T - 1 \in Int /\ T - 1 <= T
    BY <1>1
  <2>2. u[T - 1] \in Nat
    BY <2>1, CarriedToType
  <2> QED
    BY <1>5, <2>2 DEF EstimateSoFar
<1>7. so.bits \in Nat /\ so.dist \in DOMAIN speed
  BY <1>1, BitsFollow DEF BitsSoFar
<1>8. /\ r \in Nat /\ Carried(speed, points, T) <= r
      /\ InRange(points) => Carried(speed, points, T) = r
  <2>1. \A j \in 1..n : j > n => points[j].time > T
    BY <1>1
  <2>2. points[n].time <= T
    BY <1>1
  <2> QED
    BY <1>1, <1>5, <2>1, <2>2, Rate
<1>9. CarriedBits(speed, points) = Carried(speed, points, T) + u[T - 1]
  <2>1. u[T] = Carried(speed, points, T) + u[T - 1]
    <3>1. T \in Int /\ T <= points[n].time
      BY <1>1
    <3> QED
      BY <1>1, <3>1, CarriedToType
  <2>2. u[T] = CarriedUpTo(speed, points)[T]
    BY <1>1 DEF CarriedTo
  <2> QED
    BY <2>1, <2>2 DEF CarriedBits
<1>10. Carried(speed, points, T) \in Nat
  BY <1>1, CarriedType
<1>11. DownloadBits(speed, points) = so.bits + r
  BY DEF DownloadBits
<1> HIDE DEF so, T, r, u
<1> QED
  BY <1>6, <1>7, <1>8, <1>9, <1>10, <1>11

CreditSoFar(speed) ==
    [total : Int, inContact : BOOLEAN, bits : Int, since : Nat, dist : DOMAIN speed]

\* What the steps of a credit make of it, field by field.
LEMMA CreditSteps ==
    ASSUME NEW speed, Radio(speed), NEW v \in CreditSoFar(speed), NEW p \in RoutePoint
    PROVE  /\ ContactOver(speed, v) \in CreditSoFar(speed)
           /\ NextContact(speed, v, p) \in CreditSoFar(speed)
           /\ NextDistance(speed, v, p) \in CreditSoFar(speed)
           /\ ContactOver(speed, v).total = v.total + v.bits + speed[v.dist]
           /\ NextDistance(speed, v, p).bits =
                  v.bits + speed[v.dist] * (IF p.time = v.since THEN 1 ELSE p.time - v.since)
<1> DEFINE r == speed[v.dist]
           d == ModelDist(speed, p.dist)
           time == p.time - v.since
           s == IF time = 0 THEN 1 ELSE time
<1>1. /\ v.total \in Int /\ v.bits \in Int /\ v.since \in Nat /\ v.dist \in DOMAIN speed
      /\ v.inContact \in BOOLEAN
  BY DEF CreditSoFar
<1>2. p.time \in Nat /\ p.dist \in Nat
  BY DEF RoutePoint
<1>3. d \in DOMAIN speed /\ r \in Nat /\ DownloadSpeed(speed, v.dist) = r
  BY <1>1, <1>2, ModelDistType, SpeedOfModelDist DEF Radio
<1>4. s \in Int /\ (time = 0 <=> p.time = v.since)
  BY <1>1, <1>2
<1> DEFINE more == r * s
<1>5. more \in Int
  <2> HIDE DEF r, s
  <2> QED
    BY <1>3, <1>4
<1>6. /\ ContactOver(speed, v) = [v EXCEPT !.inContact = FALSE, !.total = @ + v.bits + r]
      /\ NextContact(speed, v, p) =
             [v EXCEPT !.inContact = TRUE, !.bits = 0, !.dist = d, !.since = p.time]
      /\ NextDistance(speed, v, p) =
             [v EXCEPT !.bits = @ + more, !.dist = d, !.since = p.time]
  BY <1>3 DEF ContactOver, NextContact, NextDistance
<1> HIDE DEF more, r, s, d
<1>7. v.total + v.bits + r \in Int /\ v.bits + more \in Int
  BY <1>1, <1>3, <1>5
<1>8. /\ ContactOver(speed, v) \in CreditSoFar(speed)
      /\ NextContact(speed, v, p) \in CreditSoFar(speed)
      /\ NextDistance(speed, v, p) \in CreditSoFar(speed)
  <2>1. ContactOver(speed, v) \in CreditSoFar(speed)
    BY <1>6, <1>7 DEF CreditSoFar
  <2>2. NextContact(speed, v, p) \in CreditSoFar(speed)
    <3>1. v = [total |-> v.total, inContact |-> v.inContact, bits |-> v.bits,
               since |-> v.since, dist |-> v.dist]
      BY DEF CreditSoFar
    <3> DEFINE w == [total |-> v.total, inContact |-> TRUE, bits |-> 0,
                     since |-> p.time, dist |-> d]
    <3>2. NextContact(speed, v, p) = w
      BY <1>6, <3>1
    <3>3. w \in CreditSoFar(speed)
      BY <1>1, <1>2, <1>3 DEF CreditSoFar
    <3> QED
      BY <3>2, <3>3
  <2>3. NextDistance(speed, v, p) \in CreditSoFar(speed)
    BY <1>2, <1>3, <1>6, <1>7 DEF CreditSoFar
  <2> QED
    BY <2>1, <2>2, <2>3
<1>9. /\ ContactOver(speed, v).total = v.total + v.bits + r
      /\ NextDistance(speed, v, p).bits = v.bits + r * s
  <2>1. DOMAIN v = {"total", "inContact", "bits", "since", "dist"}
    BY DEF CreditSoFar
  <2> QED
    BY <1>6, <2>1 DEF more
<1>10. s = IF p.time = v.since THEN 1 ELSE p.time - v.since
  BY <1>4 DEF s
<1> QED
  BY <1>8, <1>9, <1>10 DEF r

\* The recursion of CreditedBits, unfolded.
LEMMA CreditFollow ==
    ASSUME NEW speed, Radio(speed), NEW points, Points(points), NEW direct \in BOOLEAN
    PROVE  /\ CreditUpTo(speed, points, direct)[1] = FirstCredit(speed, points, direct)
           /\ \A i \in 2..Len(points) :
                 CreditUpTo(speed, points, direct)[i] =
                     AddCredit(speed, points, CreditUpTo(speed, points, direct)[i - 1], i)
           /\ \A i \in 1..Len(points) :
                 CreditUpTo(speed, points, direct)[i] \in CreditSoFar(speed)
<1> DEFINE V == CreditSoFar(speed)
           n == Len(points)
           a == FirstCredit(speed, points, direct)
           F == [p \in V \X (1..n) |-> AddCredit(speed, points, p[1], p[2])]
           IsIt(f) ==
               f = [i \in 1..n |-> IF i = 1 THEN a ELSE AddCredit(speed, points, f[i - 1], i)]
<1>1. /\ n \in Nat /\ 1 <= n /\ \A i \in 1..n : points[i].time \in Nat /\ points[i].dist \in Nat
      /\ \A i \in 1..n : points[i] \in RoutePoint
  BY PointsFacts DEF Points
<1>2. a \in V
  <2> DEFINE d == ModelDist(speed, points[1].dist)
  <2>1. d \in DOMAIN speed /\ d \in Nat /\ points[1].time \in Nat
    <3>1. d \in DOMAIN speed /\ points[1].time \in Nat
      BY <1>1, ModelDistType
    <3> HIDE DEF d
    <3> QED
      BY <3>1 DEF Radio
  <2>2. a = [total |-> 0, inContact |-> TRUE, bits |-> 0, dist |-> d,
             since |-> IF direct THEN d ELSE points[1].time]
    BY DEF FirstCredit
  <2> HIDE DEF d, a
  <2> QED
    BY <2>1, <2>2 DEF CreditSoFar
<1>3. ASSUME NEW v \in V, NEW i \in 1..n
      PROVE  AddCredit(speed, points, v, i) \in V
  <2>1. points[i] \in RoutePoint
    BY <1>1
  <2> HIDE DEF n
  <2> QED
    BY <2>1, CreditSteps DEF AddCredit
<1>4. PICK g \in [1..n -> V] : Built(a, 1, n, F, g)
  <2>1. Closed(V, 1, n, F)
    BY <1>3 DEF Closed
  <2> HIDE DEF F, V, n, a
  <2> QED
    BY <1>1, <1>2, <2>1, Recursion
<1>5. IsIt(g)
  <2>1. \A i \in 1..n : g[i] = IF i = 1 THEN a ELSE AddCredit(speed, points, g[i - 1], i)
    <3> SUFFICES ASSUME NEW i \in 1..n, i # 1
                 PROVE  g[i] = AddCredit(speed, points, g[i - 1], i)
      BY <1>4 DEF Built
    <3>1. i - 1 \in 1..n /\ g[i - 1] \in V
      <4> HIDE DEF V, n
      <4> QED
        BY <1>1, <1>4
    <3>2. F[<<g[i - 1], i>>] = AddCredit(speed, points, g[i - 1], i)
      BY <3>1
    <3> HIDE DEF F, V, n, a
    <3> QED
      BY <1>4, <3>2 DEF Built
  <2> HIDE DEF F, V, a
  <2> QED
    BY <1>4, <2>1
<1>6. CreditUpTo(speed, points, direct) = CHOOSE f : IsIt(f)
  BY DEF CreditUpTo
<1>7. IsIt(CreditUpTo(speed, points, direct))
  <2> HIDE DEF IsIt
  <2> QED
    BY <1>5, <1>6
<1> HIDE DEF n, a
<1> DEFINE f == CreditUpTo(speed, points, direct)
<1>8. f = [i \in 1..n |-> IF i = 1 THEN a ELSE AddCredit(speed, points, f[i - 1], i)]
  BY <1>7
<1> HIDE DEF f
<1>9. f[1] = a /\ \A i \in 2..n : f[i] = AddCredit(speed, points, f[i - 1], i)
  BY <1>1, <1>8
<1>10. \A i \in 1..n : f[i] \in V
  <2> DEFINE A == {k \in Nat : k + 1 <= n => f[k + 1] \in V}
  <2>1. 0 \in A
    BY <1>2, <1>9
  <2>2. \A k \in A : k + 1 \in A
    <3> SUFFICES ASSUME NEW k \in Nat, (k + 1) + 1 <= n, f[k + 1] \in V
                 PROVE  f[(k + 1) + 1] \in V
      BY <1>1
    <3>1. (k + 1) + 1 \in 2..n /\ (k + 1) + 1 \in 1..n /\ ((k + 1) + 1) - 1 = k + 1
      BY <1>1
    <3> HIDE DEF V
    <3> QED
      BY <1>3, <1>9, <3>1
  <2>3. A = Nat
    <3> HIDE DEF A
    <3> QED
      BY <2>1, <2>2, Induction DEF A
  <2> SUFFICES ASSUME NEW i \in 1..n
               PROVE  f[i] \in V
    OBVIOUS
  <2>4. i - 1 \in A /\ (i - 1) + 1 = i
    <3> HIDE DEF A
    <3> QED
      BY <2>3
  <2> QED
    BY <1>1, <2>4
<1> QED
  BY <1>9, <1>10 DEF f, n, a

OneEachSecond(points) ==
    \A p, q \in 1..Len(points) : points[p].time = points[q].time => p = q

\* What the contacts up to point i were credited with, and in a contact what its last
\* distance has given since, is no more than the estimate up to there.
CreditFits(speed, points, i) ==
    LET b == BitsUpTo(speed, points)[i]
        c == CreditUpTo(speed, points, FALSE)[i]
    IN  /\ b.time = points[i].time
        /\ c.inContact <=> points[i].node # None
        /\ ~c.inContact => c.total <= b.bits
        /\ c.inContact =>
               /\ b.dist = c.dist /\ c.since <= points[i].time
               /\ c.total + c.bits + speed[c.dist] * (points[i].time - c.since) <= b.bits

\* It fits at the first point.
LEMMA CreditBegins ==
    ASSUME NEW speed, Radio(speed), NEW points, Points(points), points[1].node # None
    PROVE  CreditFits(speed, points, 1)
<1> DEFINE T == points[1].time
           d == ModelDist(speed, points[1].dist)
           b == BitsUpTo(speed, points)[1]
           c == CreditUpTo(speed, points, FALSE)[1]
<1>1. T \in Nat /\ d \in DOMAIN speed
  BY PointsFacts, ModelDistType
<1>2. /\ b = [bits |-> 0, time |-> T, dist |-> d]
      /\ c = [total |-> 0, inContact |-> TRUE, bits |-> 0, dist |-> d, since |-> T]
  BY BitsFollow, CreditFollow DEF FirstBits, FirstCredit
<1>3. /\ b.bits = 0 /\ b.time = T /\ b.dist = d
      /\ c.total = 0 /\ c.inContact /\ c.bits = 0 /\ c.since = T /\ c.dist = d
  <2> HIDE DEF b, c, T, d
  <2> QED
    BY <1>2
<1>4. speed[d] \in Nat
  BY <1>1 DEF Radio
<1>5. speed[d] * (T - T) = 0
  <2> HIDE DEF T, d
  <2> QED
    BY <1>1, <1>4
<1>6. c.total + c.bits + speed[c.dist] * (points[1].time - c.since) <= b.bits
  <2> HIDE DEF b, c, d
  <2> QED
    BY <1>3, <1>5
<1>7. CreditFits(speed, points, 1) <=>
          /\ b.time = points[1].time
          /\ c.inContact <=> points[1].node # None
          /\ ~c.inContact => c.total <= b.bits
          /\ c.inContact =>
                 /\ b.dist = c.dist /\ c.since <= points[1].time
                 /\ c.total + c.bits + speed[c.dist] * (points[1].time - c.since) <= b.bits
  BY DEF CreditFits
<1> HIDE DEF b, c, d
<1> QED
  BY <1>1, <1>3, <1>6, <1>7

\* Sums of what a rate gives over a time and the time after it.
LEMMA TimesAdd ==
    ASSUME NEW r \in Nat, NEW s \in Nat, NEW T \in Nat, NEW L \in Nat, s <= T, T < L
    PROVE  /\ r * (L - s) = r * (T - s) + r * (L - T)
           /\ r * (T - s) \in Nat /\ r * (L - T) \in Nat /\ r <= r * (L - T)
<1>1. T - s \in Nat /\ L - T \in Nat /\ 1 <= L - T
  OBVIOUS
<1>2. \A x, y \in Nat : x * y \in Nat /\ (1 <= y => x <= x * y)
  OBVIOUS
<1>3. r * (L - s) = r * (T - s) + r * (L - T)
  OBVIOUS
<1> QED
  BY <1>1, <1>2, <1>3

\* What fits still does when both grow alike.
LEMMA SumsFit ==
    ASSUME NEW t \in Int, NEW u \in Int, NEW w \in Int, NEW x \in Nat, NEW y \in Nat,
           NEW r \in Nat, r <= x, t + u + y <= w
    PROVE  t + u + (y + x) <= w + x /\ t + u + r <= w + x
  OBVIOUS

\* The order of a sum.
LEMMA SumsAssociate ==
    ASSUME NEW t \in Int, NEW u \in Int, NEW z \in Int
    PROVE  t + (u + z) = t + u + z /\ t + u + z \in Int
  OBVIOUS

\* And at the next when it did: with one point a second the estimate adds the time since
\* the last point, the credit the time since the last change of distance, or one second
\* when the contact is over.
LEMMA CreditStep ==
    ASSUME NEW speed, Radio(speed), NEW points, Points(points), OneEachSecond(points),
           NEW i \in Nat, 1 <= i, i < Len(points), CreditFits(speed, points, i)
    PROVE  CreditFits(speed, points, i + 1)
<1> DEFINE n == Len(points)
           b == BitsUpTo(speed, points)[i]
           c == CreditUpTo(speed, points, FALSE)[i]
           bb == BitsUpTo(speed, points)[i + 1]
           cc == CreditUpTo(speed, points, FALSE)[i + 1]
           p == points[i + 1]
           T == points[i].time
           L == p.time
           d == ModelDist(speed, p.dist)
           q == speed[b.dist]
           r == speed[c.dist]
<1>1. /\ n \in Nat /\ i \in 1..n /\ i + 1 \in 1..n /\ i + 1 \in 2..n /\ (i + 1) - 1 = i
      /\ T \in Nat /\ L \in Nat /\ p.dist \in Nat /\ p \in RoutePoint
  BY PointsFacts DEF Points
<1>2. bb = AddBits(speed, points, b, i + 1) /\ b \in BitsSoFar(speed)
  BY <1>1, BitsFollow
<1>3. cc = AddCredit(speed, points, c, i + 1) /\ c \in CreditSoFar(speed)
  BY <1>1, CreditFollow
<1>4. T < L
  <2>1. T <= L /\ T # L
    BY <1>1 DEF Points, OneEachSecond
  <2> QED
    BY <1>1, <2>1
<1>5. d \in DOMAIN speed /\ speed[d] \in Nat
  BY <1>1, ModelDistType DEF Radio
<1>6. /\ b.bits \in Nat /\ b.time = T /\ b.dist \in DOMAIN speed
      /\ c.total \in Int /\ c.bits \in Int /\ c.since \in Nat /\ c.dist \in DOMAIN speed
      /\ c.inContact \in BOOLEAN
  BY <1>2, <1>3 DEF BitsSoFar, CreditSoFar, CreditFits
<1>7. q \in Nat /\ r \in Nat
  BY <1>6 DEF Radio
<1>8. /\ ~c.inContact => c.total <= b.bits
      /\ c.inContact => /\ b.dist = c.dist /\ c.since <= T
                        /\ c.total + c.bits + r * (T - c.since) <= b.bits
  BY DEF CreditFits
<1>9. /\ ContactOver(speed, c).total = c.total + c.bits + r
      /\ NextDistance(speed, c, p).bits =
             c.bits + r * (IF L = c.since THEN 1 ELSE L - c.since)
  BY <1>1, <1>3, CreditSteps
<1> HIDE DEF b, c, bb, cc, T, L, d, q, r, p
<1>10. q * (L - T) \in Nat
  BY <1>1, <1>4, <1>7, TimesAdd
<1>11. bb.bits = b.bits + q * (L - T) /\ bb.time = L /\ bb.dist = d
  <2>1. L # b.time /\ L > b.time
    BY <1>1, <1>4, <1>6
  <2>2. bb = [bits |-> b.bits + (IF L > b.time THEN q * (L - b.time) ELSE 0),
              time |-> L, dist |-> d]
    BY <1>2, <1>6, <2>1 DEF AddBits, L, d, q, p
  <2> QED
    BY <1>6, <2>1, <2>2
<1>12. DOMAIN c = {"total", "inContact", "bits", "since", "dist"}
  BY <1>3 DEF CreditSoFar
<1>13. c.inContact =>
           /\ c.total + c.bits + r * (L - c.since) <= bb.bits
           /\ c.total + c.bits + r <= bb.bits
  <2> SUFFICES ASSUME c.inContact
               PROVE  /\ c.total + c.bits + r * (L - c.since) <= bb.bits
                      /\ c.total + c.bits + r <= bb.bits
    OBVIOUS
  <2> DEFINE x == r * (L - T)
             y == r * (T - c.since)
             z == r * (L - c.since)
  <2>1. x \in Nat /\ y \in Nat /\ z = y + x /\ r <= x
    <3>1. c.since \in Nat /\ c.since <= T
      BY <1>6, <1>8
    <3> QED
      BY <1>1, <1>4, <1>7, <3>1, TimesAdd
  <2>2. c.total + c.bits + y <= b.bits /\ bb.bits = b.bits + x
    BY <1>8, <1>11 DEF q, r
  <2> HIDE DEF x, y, z
  <2>3. c.total + c.bits + z <= bb.bits /\ c.total + c.bits + r <= bb.bits
    <3> DEFINE t == c.total
               u == c.bits
               w == b.bits
    <3>1. t \in Int /\ u \in Int /\ w \in Int /\ t + u + y <= w /\ bb.bits = w + x
      BY <1>6, <2>2
    <3> HIDE DEF t, u, w
    <3>2. t + u + (y + x) <= w + x /\ t + u + r <= w + x
      BY <1>7, <2>1, <3>1, SumsFit
    <3> QED
      BY <2>1, <3>1, <3>2 DEF t, u
  <2> QED
    BY <2>3 DEF z
<1>14. CASE p.node = None /\ c.inContact
  <2>1. cc = ContactOver(speed, c)
    BY <1>3, <1>14 DEF AddCredit, p
  <2>2. ~cc.inContact
    BY <1>12, <2>1 DEF ContactOver
  <2>3. cc.total <= bb.bits
    BY <1>9, <1>13, <1>14, <2>1
  <2> QED
    BY <1>11, <1>14, <2>2, <2>3 DEF CreditFits, bb, cc, L, p
<1>15. CASE p.node = None /\ ~c.inContact
  <2>1. cc = c
    BY <1>3, <1>15 DEF AddCredit, p
  <2>2. cc.total <= bb.bits
    BY <1>6, <1>8, <1>10, <1>11, <1>15, <2>1
  <2> QED
    BY <1>11, <1>15, <2>1, <2>2 DEF CreditFits, bb, cc, L, p
<1>16. speed[d] * (L - L) = 0
  BY <1>1, <1>5
<1>17. CASE p.node # None /\ ~c.inContact
  <2>1. cc = NextContact(speed, c, p)
    BY <1>3, <1>17 DEF AddCredit, p
  <2>2. cc.total = c.total /\ cc.inContact /\ cc.bits = 0 /\ cc.since = L /\ cc.dist = d
    BY <1>12, <2>1 DEF NextContact, L, d
  <2>3. /\ bb.dist = cc.dist /\ cc.since <= L
        /\ cc.total + cc.bits + speed[cc.dist] * (L - cc.since) <= bb.bits
    <3>1. c.total <= bb.bits
      BY <1>6, <1>8, <1>10, <1>11, <1>17
    <3>2. speed[cc.dist] * (L - cc.since) = 0
      BY <1>16, <2>2
    <3> QED
      BY <1>1, <1>6, <1>11, <2>2, <3>1, <3>2
  <2> QED
    BY <1>11, <1>17, <2>2, <2>3 DEF CreditFits, bb, cc, L, p
<1>18. CASE p.node # None /\ c.inContact /\ d = c.dist
  <2>1. cc = c
    BY <1>3, <1>18 DEF AddCredit, d, p
  <2>2. /\ bb.dist = cc.dist /\ cc.since <= L
        /\ cc.total + cc.bits + speed[cc.dist] * (L - cc.since) <= bb.bits
    <3>1. cc.since <= L
      BY <1>1, <1>4, <1>6, <1>8, <1>18, <2>1
    <3> QED
      BY <1>11, <1>13, <1>18, <2>1, <3>1 DEF r
  <2> QED
    BY <1>11, <1>18, <2>1, <2>2 DEF CreditFits, bb, cc, L, p
<1>19. CASE p.node # None /\ c.inContact /\ d # c.dist
  <2>1. cc = NextDistance(speed, c, p)
    BY <1>3, <1>19 DEF AddCredit, d, p
  <2>2. cc.total = c.total /\ cc.inContact /\ cc.since = L /\ cc.dist = d
    BY <1>12, <1>19, <2>1 DEF NextDistance, L, d
  <2>3. cc.bits = c.bits + r * (L - c.since)
    <3>1. L # c.since
      BY <1>1, <1>4, <1>6, <1>8, <1>19
    <3> QED
      BY <1>9, <2>1, <3>1
  <2>4. /\ bb.dist = cc.dist /\ cc.since <= L
        /\ cc.total + cc.bits + speed[cc.dist] * (L - cc.since) <= bb.bits
    <3> DEFINE z == r * (L - c.since)
    <3>1. c.total + c.bits + z <= bb.bits
      BY <1>13, <1>19
    <3>2. z \in Int
      <4>1. L - c.since \in Int
        BY <1>1, <1>6
      <4> DEFINE s == L - c.since
      <4> HIDE DEF s
      <4>2. r * s \in Int
        BY <1>7, <4>1 DEF s
      <4> QED
        BY <4>2 DEF s
    <3> HIDE DEF z
    <3>3. cc.bits = c.bits + z
      BY <2>3 DEF z
    <3>4. cc.total + cc.bits = c.total + c.bits + z /\ c.total + c.bits + z \in Int
      BY <1>6, <2>2, <3>2, <3>3, SumsAssociate
    <3>5. speed[cc.dist] * (L - cc.since) = 0
      BY <1>16, <2>2
    <3> QED
      BY <1>1, <1>11, <2>2, <3>1, <3>4, <3>5
  <2> QED
    BY <1>11, <1>19, <2>2, <2>4 DEF CreditFits, bb, cc, L, p
<1> QED
  BY <1>6, <1>14, <1>15, <1>17, <1>18, <1>19

\* With one point a second, a vehicle that came from out of range credits itself with the
\* estimate at most, however often it leaves the node's range and comes back.
LEMMA CreditIsWithin ==
    ASSUME NEW speed, Radio(speed), NEW points, Points(points), OneEachSecond(points),
           points[1].node # None, points[Len(points)].node # None
    PROVE  CreditedBits(speed, points, FALSE) <= DownloadBits(speed, points)
<1> DEFINE n == Len(points)
           A == {k \in Nat : k + 1 <= n => CreditFits(speed, points, k + 1)}
           b == BitsUpTo(speed, points)[n]
           c == CreditUpTo(speed, points, FALSE)[n]
           T == points[n].time
           r == speed[c.dist]
<1>1. n \in Nat /\ 1 <= n /\ n \in 1..n /\ T \in Nat /\ points[n] \in RoutePoint
  BY PointsFacts DEF Points
<1>2. 0 \in A
  BY CreditBegins
<1>3. \A k \in A : k + 1 \in A
  <2> SUFFICES ASSUME NEW k \in Nat, (k + 1) + 1 <= n, CreditFits(speed, points, k + 1)
               PROVE  CreditFits(speed, points, (k + 1) + 1)
    BY <1>1
  <2>1. k + 1 \in Nat /\ 1 <= k + 1 /\ k + 1 < n
    BY <1>1
  <2> QED
    BY <2>1, CreditStep
<1>4. A = Nat
  <2> HIDE DEF A
  <2> QED
    BY <1>2, <1>3, Induction DEF A
<1>5. CreditFits(speed, points, n)
  <2> DEFINE k == n - 1
  <2>1. k \in Nat /\ k + 1 = n
    BY <1>1
  <2>2. k \in A
    <3> HIDE DEF A, k
    <3> QED
      BY <1>4, <2>1
  <2> HIDE DEF k, n
  <2> QED
    BY <1>1, <2>1, <2>2
<1>6. /\ c.total \in Int /\ c.bits \in Int /\ c.since \in Nat /\ c.dist \in DOMAIN speed
      /\ c \in CreditSoFar(speed) /\ b.bits \in Nat
  BY <1>1, CreditFollow, BitsFollow DEF CreditSoFar, BitsSoFar
<1>7. b.dist = c.dist /\ c.since <= T
  BY <1>5 DEF CreditFits
<1>8. r \in Nat
  BY <1>6 DEF Radio
<1>9. /\ CreditedBits(speed, points, FALSE) = c.total + c.bits + r
      /\ DownloadBits(speed, points) = b.bits + r
  BY <1>1, <1>6, <1>7, CreditSteps DEF CreditedBits, DownloadBits
<1>10. c.total + c.bits + r * (T - c.since) <= b.bits
  BY <1>5 DEF CreditFits
<1> HIDE DEF A, b, c, T, r
<1> DEFINE s == T - c.since
<1>11. s \in Nat
  BY <1>1, <1>6, <1>7
<1> HIDE DEF s
<1> DEFINE x == r * s
           t == c.total
           u == c.bits
           w == b.bits
<1>12. x \in Nat
  BY <1>8, <1>11
<1>13. t \in Int /\ u \in Int /\ w \in Int /\ t + u + x <= w
  BY <1>6, <1>10 DEF s
<1> HIDE DEF x, t, u, w
<1>14. t + u + r <= w + r
  BY <1>8, <1>12, <1>13
<1> QED
  BY <1>9, <1>14 DEF t, u, w

-----------------------------------------------------------------------------
(* The radio models and what is made of them.                              *)

\* A node's estimate is with the whole table of its model file.
EstimatesOfRoute ==
    \A i \in 1..Len(estimates) :
        LET info == nodeInfos[i]
            whole == ModelFile[info.node]
        IN  info.node \in Configured =>
                estimates[i] = [bits |-> DownloadBits(whole, info.points), table |-> whole]

RadioInv ==
    /\ RadioTypeOK
    /\ InOrder(route)
    /\ nodeInfos = IF step = "drive" THEN <<>> ELSE NodeInfos(route)
    /\ EstimatesOfRoute

\* Model files are tables that one can look distances up in.
LEMMA ModelFiles ==
    ASSUME NEW n \in Configured
    PROVE  Radio(ModelFile[n]) /\ ModelFile[n] \in [DOMAIN ModelFile[n] -> Nat]
  BY RadioAssumption DEF RadioAssumption, Radio

\* What is known of the contacts once the route is.
LEMMA InfosOfRoute ==
    ASSUME RadioInv
    PROVE  /\ Len(nodeInfos) \in Nat /\ DOMAIN nodeInfos = 1..Len(nodeInfos)
           /\ \A i \in 1..Len(nodeInfos) : Points(nodeInfos[i].points)
<1>1. route \in Seq(RoutePoint) /\ InOrder(route)
  BY DEF RadioInv, RadioTypeOK
<1>2. CASE step = "drive"
  <2>1. nodeInfos = <<>>
    BY <1>2 DEF RadioInv
  <2> QED
    BY <2>1
<1>3. CASE step # "drive"
  <2> DEFINE infos == NodeInfos(route)
  <2>1. nodeInfos = infos
    BY <1>3 DEF RadioInv
  <2>2. Len(infos) \in Nat /\ DOMAIN infos = 1..Len(infos)
    BY <1>1, InfosAreRuns
  <2>3. \A i \in 1..Len(infos) : Points(infos[i].points)
    BY <1>1, InfoPoints
  <2> HIDE DEF infos
  <2> QED
    BY <2>1, <2>2, <2>3
<1> QED
  BY <1>2, <1>3

\* At first the tables are empty and nothing is known of the route.
LEMMA RadioBegins == RadioInit => RadioInv
<1> SUFFICES ASSUME RadioInit
             PROVE  RadioInv
  OBVIOUS
<1> USE DEF RadioInit
<1>1. route = <<>> /\ estimates = <<>> /\ nodeInfos = <<>> /\ step = "drive"
  OBVIOUS
<1>2. /\ <<>> \in Seq(RoutePoint) /\ <<>> \in Seq(Estimated) /\ Len(<<>>) = 0
  OBVIOUS
<1>3. Empty \in [DOMAIN Empty -> Nat] /\ DOMAIN Empty = {}
  BY DEF Empty
<1>4. RadioTypeOK
  <2>1. toCopy \in [Configured -> SUBSET Nat] /\ \A n \in Configured : toCopy[n] = {}
    OBVIOUS
  <2>2. DOMAIN table = Configured /\ \A n \in Configured : table[n] = Empty
    OBVIOUS
  <2>3. 0 <= MaxPoints
    BY RadioAssumption DEF RadioAssumption
  <2> QED
    BY <1>1, <1>2, <1>3, <2>1, <2>2, <2>3 DEF RadioTypeOK
<1>5. InOrder(route)
  BY <1>1, <1>2 DEF InOrder
<1>6. EstimatesOfRoute
  BY <1>1, <1>2 DEF EstimatesOfRoute
<1> QED
  BY <1>1, <1>4, <1>5, <1>6 DEF RadioInv

\* What the monitoring of the radios does to the cloud's tables.
TablesOK ==
    /\ DOMAIN table = Configured /\ toCopy \in [Configured -> SUBSET Nat]
    /\ \A n \in Configured :
          /\ DOMAIN table[n] \subseteq DOMAIN ModelFile[n]
          /\ table[n] \in [DOMAIN table[n] -> Nat]
          /\ \A d \in DOMAIN table[n] : table[n][d] = ModelFile[n][d]
          /\ DOMAIN table[n] \cup toCopy[n] \in {{}, DOMAIN ModelFile[n]}
          /\ toCopy[n] # {} => n \in locked
    /\ locked \subseteq Configured /\ posting \subseteq Configured

\* Posts, their copying and their failures keep the tables to the model files, and are
\* none of the request's business.
LEMMA MonitoringStep ==
    ASSUME TablesOK, NEW n \in Configured, Monitoring(n) \/ PostFails(n)
    PROVE  TablesOK' /\ UNCHANGED requestVars
<1> USE DEF TablesOK
<1>1. DOMAIN ModelFile[n] \in SUBSET Nat /\ ModelFile[n] \in [DOMAIN ModelFile[n] -> Nat]
  BY RadioAssumption DEF RadioAssumption
<1>2. CASE Post(n)
  BY <1>1, <1>2 DEF Post
<1>3. CASE PostDone(n)
  BY <1>3 DEF PostDone
<1>4. CASE PostFails(n)
  BY <1>4 DEF PostFails
<1>5. ASSUME NEW d \in DOMAIN ModelFile[n], CopyDistance(n, d)
      PROVE  TablesOK' /\ UNCHANGED requestVars
  <2> DEFINE t == table[n]
             more == [e \in DOMAIN t \cup {d} |-> IF e = d THEN ModelFile[n][d] ELSE t[e]]
  <2>1. /\ n \in locked /\ d \in toCopy[n] /\ UNCHANGED <<locked, posting, requestVars>>
        /\ toCopy' = [toCopy EXCEPT ![n] = toCopy[n] \ {d}]
        /\ table' = [table EXCEPT ![n] = more]
    BY <1>5 DEF CopyDistance
  <2>2. /\ DOMAIN more = DOMAIN t \cup {d} /\ more \in [DOMAIN more -> Nat]
        /\ \A e \in DOMAIN more : more[e] = ModelFile[n][e]
    BY <1>1, <1>5
  <2> HIDE DEF more
  <2>3. /\ DOMAIN table' = Configured /\ table'[n] = more
        /\ \A m \in Configured : m # n => table'[m] = table[m]
    BY <2>1
  <2>4. /\ toCopy' \in [Configured -> SUBSET Nat] /\ toCopy'[n] = toCopy[n] \ {d}
        /\ \A m \in Configured : m # n => toCopy'[m] = toCopy[m]
    BY <2>1
  <2>5. DOMAIN more \subseteq DOMAIN ModelFile[n]
    BY <1>5, <2>2
  <2>6. DOMAIN more \cup (toCopy[n] \ {d}) = DOMAIN t \cup toCopy[n]
    BY <2>1, <2>2
  <2>7. ASSUME NEW m \in Configured
        PROVE  /\ DOMAIN table'[m] \subseteq DOMAIN ModelFile[m]
               /\ table'[m] \in [DOMAIN table'[m] -> Nat]
               /\ \A e \in DOMAIN table'[m] : table'[m][e] = ModelFile[m][e]
               /\ DOMAIN table'[m] \cup toCopy'[m] \in {{}, DOMAIN ModelFile[m]}
               /\ toCopy'[m] # {} => m \in locked'
    <3>1. CASE m = n
      BY <2>1, <2>2, <2>3, <2>4, <2>5, <2>6, <3>1
    <3>2. CASE m # n
      BY <2>1, <2>3, <2>4, <3>2
    <3> QED
      BY <3>1, <3>2
  <2> QED
    BY <2>1, <2>3, <2>4, <2>7
<1> QED
  BY <1>2, <1>3, <1>4, <1>5 DEF Monitoring

\* Another estimate: of the whole table.
LEMMA EstimateAdded ==
    ASSUME RadioInv, step = "estimate", Len(estimates) < Len(nodeInfos), NEW e \in Estimated,
           estimates' = Append(estimates, e), UNCHANGED <<monitoringVars, route, nodeInfos, step>>,
           NextInfo.node \in Configured =>
               e = [bits |-> DownloadBits(ModelFile[NextInfo.node], NextInfo.points),
                    table |-> ModelFile[NextInfo.node]]
    PROVE  RadioInv'
<1> USE DEF RadioInv, radioVars, monitoringVars
<1>1. Len(nodeInfos) \in Nat /\ estimates \in Seq(Estimated) /\ Len(estimates) \in Nat
  BY InfosOfRoute DEF RadioTypeOK
<1>2. /\ estimates' \in Seq(Estimated) /\ Len(estimates') = Len(estimates) + 1
      /\ \A i \in 1..Len(estimates) : estimates'[i] = estimates[i]
      /\ estimates'[Len(estimates) + 1] = e
  BY <1>1
<1>3. RadioTypeOK'
  BY <1>1, <1>2 DEF RadioTypeOK
<1>4. EstimatesOfRoute'
  <2> SUFFICES ASSUME NEW i \in 1..Len(estimates'), nodeInfos[i].node \in Configured
               PROVE  estimates'[i] = [bits |-> DownloadBits(ModelFile[nodeInfos[i].node],
                                                              nodeInfos[i].points),
                                       table |-> ModelFile[nodeInfos[i].node]]
    BY DEF EstimatesOfRoute
  <2>1. CASE i = Len(estimates) + 1
    BY <1>2, <2>1 DEF NextInfo
  <2>2. CASE i # Len(estimates) + 1
    <3>1. i \in 1..Len(estimates)
      BY <1>1, <1>2, <2>2
    <3> QED
      BY <1>2, <3>1 DEF EstimatesOfRoute
  <2> QED
    BY <2>1, <2>2
<1>5. InOrder(route)'
  BY DEF InOrder
<1> QED
  BY <1>3, <1>4, <1>5

\* Another point of the route comes no earlier than the last.
LEMMA PointAdded ==
    ASSUME RadioInv, NextPoint
    PROVE  RadioInv'
<1> USE DEF NextPoint, monitoringVars
<1>1. PICK p \in Steps :
         route' = Append(route, [time |-> p.later + (IF route = <<>> THEN 0
                                                     ELSE route[Len(route)].time),
                                 node |-> p.node, dist |-> p.dist])
  OBVIOUS
<1> DEFINE n == Len(route)
           last == IF route = <<>> THEN 0 ELSE route[n].time
           e == [time |-> p.later + last, node |-> p.node, dist |-> p.dist]
<1>2. route \in Seq(RoutePoint) /\ n \in Nat /\ n < MaxPoints /\ MaxPoints \in Nat
  BY RadioAssumption DEF RadioAssumption, RadioInv, RadioTypeOK
<1>3. last \in Nat /\ \A q \in 1..n : route[q].time \in Nat /\ route[q].time <= last
  <2>1. \A q \in 1..n : route[q].time \in Nat
    <3> SUFFICES ASSUME NEW q \in 1..n
                 PROVE  route[q].time \in Nat
      OBVIOUS
    <3>1. route[q] \in RoutePoint
      BY <1>2, ElementOfSeq
    <3> QED
      BY <3>1 DEF RoutePoint
  <2>2. CASE route = <<>>
    <3>1. n = 0 /\ last = 0
      BY <2>2
    <3> QED
      BY <3>1
  <2>3. CASE route # <<>>
    <3>1. n \in 1..n /\ last = route[n].time
      BY <1>2, <2>3, EmptySeq
    <3>2. \A q \in 1..n : route[q].time <= route[n].time
      BY <3>1 DEF RadioInv, InOrder
    <3> QED
      BY <2>1, <3>1, <3>2
  <2> QED
    BY <2>2, <2>3
<1>4. p \in [later : Nat, node : Nodes \cup {None}, dist : Nat]
  BY RadioAssumption DEF RadioAssumption
<1> HIDE DEF last
<1>5. e \in RoutePoint /\ e.time \in Nat /\ last <= e.time
  BY <1>3, <1>4 DEF RoutePoint
<1>6. route' = Append(route, e)
  BY <1>1 DEF last
<1> HIDE DEF e, n
<1>7. /\ route' \in Seq(RoutePoint) /\ Len(route') = n + 1
      /\ \A q \in 1..n : route'[q] = route[q]
      /\ route'[n + 1] = e
  BY <1>2, <1>5, <1>6, AppendIs DEF n
<1>8. RadioTypeOK'
  <2>1. Len(route') <= MaxPoints
    BY <1>2, <1>7 DEF n
  <2>2. UNCHANGED <<table, toCopy, locked, posting, step, nodeInfos, estimates>>
    OBVIOUS
  <2> QED
    BY ONLY <1>7, <2>1, <2>2, RadioInv DEF RadioInv, RadioTypeOK
<1>9. InOrder(route)'
  <2> SUFFICES ASSUME NEW q \in 1..n + 1, NEW r \in 1..n + 1, q <= r
               PROVE  route'[q].time <= route'[r].time
    BY <1>7 DEF InOrder
  <2>1. CASE r = n + 1
    <3>1. CASE q = n + 1
      BY <1>5, <1>7, <2>1, <3>1
    <3>2. CASE q # n + 1
      <4>1. q \in 1..n
        BY <1>2, <3>2
      <4> QED
        BY <1>3, <1>5, <1>7, <2>1, <4>1
    <3> QED
      BY <3>1, <3>2
  <2>2. CASE r # n + 1
    <3>1. q \in 1..n /\ r \in 1..n
      BY <1>2, <2>2
    <3> QED
      BY <1>7, <3>1 DEF RadioInv, InOrder, n
  <2> QED
    BY <2>1, <2>2
<1>10. EstimatesOfRoute'
  BY DEF RadioInv, EstimatesOfRoute
<1> QED
  BY <1>8, <1>9, <1>10 DEF RadioInv

\* The request has the contacts of the route, and no estimates yet.
LEMMA Requested ==
    ASSUME RadioInv, Request
    PROVE  RadioInv'
<1> USE DEF Request, monitoringVars
<1>1. Len(nodeInfos) = 0 /\ Len(estimates) \in Nat /\ Len(estimates) <= 0
  BY DEF RadioInv, RadioTypeOK
<1>2. route \in Seq(RoutePoint) /\ InOrder(route)
  BY DEF RadioInv, RadioTypeOK
<1>3. nodeInfos' = NodeInfos(route) /\ Len(NodeInfos(route)) \in Nat
  BY <1>2, InfosAreRuns
<1>4. step' = "estimate"
  OBVIOUS
<1>5. RadioTypeOK'
  BY <1>1, <1>3, <1>4 DEF RadioInv, RadioTypeOK
<1>6. EstimatesOfRoute'
  BY <1>1 DEF EstimatesOfRoute
<1>7. InOrder(route)'
  BY <1>2 DEF InOrder
<1>8. nodeInfos' = IF step' = "drive" THEN <<>> ELSE NodeInfos(route')
  BY <1>3, <1>4
<1> QED
  BY <1>5, <1>6, <1>7, <1>8 DEF RadioInv

\* When the mutex is free, the cloud has all of a node's table or nothing.
LEMMA WholeTable ==
    ASSUME RadioInv, NEW n \in Configured, n \notin locked, DOMAIN table[n] # {}
    PROVE  table[n] = ModelFile[n]
<1> DEFINE t == table[n]
           m == ModelFile[n]
<1>1. m \in [DOMAIN m -> Nat]
  BY ModelFiles
<1>2. t \in [DOMAIN t -> Nat] /\ DOMAIN t = DOMAIN m /\ \A d \in DOMAIN t : t[d] = m[d]
  BY DEF RadioInv, RadioTypeOK
<1> HIDE DEF t, m
<1>3. t = m
  BY <1>1, <1>2
<1> QED
  BY <1>3 DEF t, m

\* getDownloadBytes, with the mutex: it fails, or adds an estimate with the whole table.
LEMMA EstimateStepOK ==
    ASSUME RadioInv, Estimate
    PROVE  RadioInv'
<1> DEFINE n == NextInfo.node
           e == [bits |-> DownloadBits(table[n], NextInfo.points), table |-> table[n]]
<1>1. /\ step = "estimate" /\ Len(estimates) < Len(nodeInfos)
      /\ n \in Configured /\ n \notin locked
      /\ UNCHANGED <<monitoringVars, route, nodeInfos>>
      /\ \/ DOMAIN table[n] = {} /\ step' = "failed" /\ UNCHANGED estimates
         \/ DOMAIN table[n] # {} /\ estimates' = Append(estimates, e) /\ UNCHANGED step
  BY DEF Estimate
<1>2. CASE DOMAIN table[n] = {} /\ step' = "failed" /\ UNCHANGED estimates
  <2>1. RadioTypeOK' /\ InOrder(route)' /\ EstimatesOfRoute'
    BY <1>1, <1>2 DEF RadioInv, RadioTypeOK, InOrder, EstimatesOfRoute, monitoringVars
  <2>2. nodeInfos = NodeInfos(route)
    BY <1>1 DEF RadioInv
  <2> QED
    BY <1>1, <1>2, <2>1, <2>2 DEF RadioInv
<1>3. CASE DOMAIN table[n] # {} /\ estimates' = Append(estimates, e) /\ UNCHANGED step
  <2> DEFINE whole == ModelFile[n]
             points == NextInfo.points
  <2>1. table[n] = whole
    BY <1>1, <1>3, WholeTable
  <2>2. Len(estimates) + 1 \in 1..Len(nodeInfos)
    <3>1. Len(estimates) \in Nat /\ Len(nodeInfos) \in Nat
      BY InfosOfRoute DEF RadioInv, RadioTypeOK
    <3> QED
      BY <1>1, <3>1
  <2>3. Points(points)
    BY <2>2, InfosOfRoute DEF NextInfo
  <2>4. DownloadBits(whole, points) \in Nat
    BY <1>1, <2>3, ModelFiles, EstimateIsCarried
  <2>5. e = [bits |-> DownloadBits(whole, points), table |-> whole]
    BY <2>1
  <2>6. e \in Estimated
    <3> HIDE DEF points, e
    <3> QED
      BY <1>1, <2>4, <2>5 DEF Estimated
  <2> HIDE DEF e
  <2> QED
    BY <1>1, <1>3, <2>5, <2>6, EstimateAdded
<1> QED
  BY <1>1, <1>2, <1>3

\* And of a node without a model an empty one.
LEMMA NoEstimateOK ==
    ASSUME RadioInv, NoEstimate
    PROVE  RadioInv'
<1> DEFINE e == [bits |-> 0, table |-> Empty]
<1>1. /\ step = "estimate" /\ Len(estimates) < Len(nodeInfos) /\ NextInfo.node \notin Configured
      /\ estimates' = Append(estimates, e)
      /\ UNCHANGED <<monitoringVars, route, nodeInfos, step>>
  BY DEF NoEstimate, monitoringVars
<1>2. e \in Estimated
  BY DEF Estimated
<1> HIDE DEF e
<1> QED
  BY <1>1, <1>2, EstimateAdded

\* RadioInv is inductive.
THEOREM RadioInductive == RadioInv /\ [RadioNext]_radioVars => RadioInv'
<1> SUFFICES ASSUME RadioInv, [RadioNext]_radioVars
             PROVE  RadioInv'
  OBVIOUS
<1>1. ASSUME NEW n \in Configured, Monitoring(n) \/ PostFails(n)
      PROVE  RadioInv'
  <2>1. TablesOK
    BY DEF RadioInv, RadioTypeOK, TablesOK
  <2>2. TablesOK' /\ UNCHANGED requestVars
    BY <1>1, <2>1, MonitoringStep
  <2>3. RadioTypeOK'
    BY <2>2 DEF RadioInv, RadioTypeOK, TablesOK, requestVars
  <2>4. /\ InOrder(route)' /\ EstimatesOfRoute'
        /\ nodeInfos' = nodeInfos /\ route' = route /\ step' = step
    BY <2>2 DEF RadioInv, InOrder, EstimatesOfRoute, requestVars
  <2> QED
    BY <2>3, <2>4 DEF RadioInv
<1>2. CASE EstimatesDone
  <2> USE <1>2 DEF EstimatesDone, monitoringVars
  <2>1. RadioTypeOK' /\ InOrder(route)' /\ EstimatesOfRoute'
    BY DEF RadioInv, RadioTypeOK, InOrder, EstimatesOfRoute
  <2>2. nodeInfos = NodeInfos(route)
    BY DEF RadioInv
  <2> QED
    BY <2>1, <2>2 DEF RadioInv
<1>3. CASE UNCHANGED radioVars
  <2> USE <1>3 DEF radioVars, monitoringVars, requestVars
  <2>1. RadioTypeOK' /\ InOrder(route)' /\ EstimatesOfRoute'
    BY DEF RadioInv, RadioTypeOK, InOrder, EstimatesOfRoute
  <2> QED
    BY <2>1 DEF RadioInv
<1> QED
  BY <1>1, <1>2, <1>3, PointAdded, Requested, EstimateStepOK, NoEstimateOK DEF RadioNext

\* So the invariant holds of every behaviour.
THEOREM RadioInvariance == RadioSpec => []RadioInv
  BY RadioBegins, RadioInductive, PTL DEF RadioSpec

\* Type correctness of the radio models: the cloud's copy of a table has nothing the node's
\* model file has not, and what a post has yet to copy is missing only while it has the mutex.
THEOREM RadioTypeCorrect == RadioSpec => []RadioTypeOK
<1>1. RadioInv => RadioTypeOK
  BY DEF RadioInv
<1> QED
  BY <1>1, RadioInvariance, PTL

\* The points of an estimate are of a contact with a node the cloud knows, and so is its
\* table.
LEMMA EstimateFacts ==
    ASSUME RadioInv, NEW i \in DOMAIN estimates, nodeInfos[i].node \in Configured
    PROVE  LET points == nodeInfos[i].points
               whole == ModelFile[nodeInfos[i].node]
           IN  /\ Radio(whole) /\ Points(points) /\ DOMAIN points = 1..Len(points)
               /\ estimates[i].table = whole /\ estimates[i].bits = DownloadBits(whole, points)
<1>1. /\ i \in 1..Len(estimates) /\ Len(estimates) \in Nat /\ Len(estimates) <= Len(nodeInfos)
  BY DEF RadioInv, RadioTypeOK
<1>2. i \in 1..Len(nodeInfos) /\ Points(nodeInfos[i].points)
  BY <1>1, InfosOfRoute
<1>3. DOMAIN nodeInfos[i].points = 1..Len(nodeInfos[i].points)
  BY <1>2, PointsFacts
<1>4. estimates[i] = [bits |-> DownloadBits(ModelFile[nodeInfos[i].node], nodeInfos[i].points),
                      table |-> ModelFile[nodeInfos[i].node]]
  BY <1>1 DEF RadioInv, EstimatesOfRoute
<1> QED
  BY <1>2, <1>3, <1>4, ModelFiles

\* So does the contact of an estimate.
LEMMA StayEnds ==
    ASSUME RadioInv, NEW i \in DOMAIN estimates
    PROVE  LET points == nodeInfos[i].points
           IN  points[1].node # None /\ points[Len(points)].node # None
<1>1. i \in 1..Len(estimates) /\ Len(estimates) \in Nat /\ Len(estimates) <= Len(nodeInfos)
  BY DEF RadioInv, RadioTypeOK
<1>2. i \in 1..Len(nodeInfos)
  BY <1>1, InfosOfRoute
<1>3. step # "drive"
  <2> SUFFICES ASSUME step = "drive"
               PROVE  FALSE
    OBVIOUS
  <2>1. nodeInfos = <<>>
    BY DEF RadioInv
  <2> QED
    BY <1>2, <2>1
<1>4. nodeInfos = NodeInfos(route) /\ route \in Seq(RoutePoint)
  BY <1>3 DEF RadioInv, RadioTypeOK
<1>5. i \in 1..Len(NodeInfos(route))
  BY <1>2, <1>4
<1> DEFINE infos == NodeInfos(route)
<1>6. infos[i].points[1].node # None /\ infos[i].points[Len(infos[i].points)].node # None
  BY <1>4, <1>5, InfoEnds
<1> HIDE DEF infos
<1>7. nodeInfos = infos
  BY <1>4 DEF infos
<1> QED
  BY <1>6, <1>7

\* getDownloadBytes never uses a table that is only partly copied, whenever posts, their
\* failures and the request come.
THEOREM WholeTables == RadioSpec => []EstimatesFromOnePost
<1>1. RadioInv => EstimatesFromOnePost
  <2> SUFFICES ASSUME RadioInv, NEW i \in DOMAIN estimates, nodeInfos[i].node \in Configured
               PROVE  estimates[i].table = ModelFile[nodeInfos[i].node]
    BY DEF EstimatesFromOnePost
  <2> QED
    BY EstimateFacts
<1> QED
  BY <1>1, RadioInvariance, PTL

\* processNearestNodesResponse finds each stay of any route once, whole and in order.
THEOREM StaysFound == RadioSpec => []ContactsAreStays
<1>1. RadioInv => ContactsAreStays
  <2> SUFFICES ASSUME RadioInv
               PROVE  ContactsAreStays
    OBVIOUS
  <2>1. route \in Seq(RoutePoint) /\ InOrder(route)
    BY DEF RadioInv, RadioTypeOK
  <2> QED
    BY <2>1, ContactsAre DEF ContactsAreStays, StaysOf
<1> QED
  BY <1>1, RadioInvariance, PTL

\* getDownloadBytes gives what the radio carries second for second, for any route and table;
\* more only where the route left the node's range in between.
THEOREM EstimatesCarried == RadioSpec => []EstimateIsWhatRadioCarries
<1>1. RadioInv => EstimateIsWhatRadioCarries
  <2> SUFFICES ASSUME RadioInv, NEW i \in DOMAIN estimates, nodeInfos[i].node \in Configured
               PROVE  LET points == nodeInfos[i].points
                          carried == CarriedBits(estimates[i].table, points)
                      IN  /\ estimates[i].bits >= carried
                          /\ (\A p \in DOMAIN points : points[p].node # None) =>
                                 estimates[i].bits = carried
    BY DEF EstimateIsWhatRadioCarries
  <2> DEFINE points == nodeInfos[i].points
             whole == ModelFile[nodeInfos[i].node]
  <2>1. /\ Radio(whole) /\ Points(points) /\ DOMAIN points = 1..Len(points)
        /\ estimates[i].table = whole /\ estimates[i].bits = DownloadBits(whole, points)
    BY EstimateFacts
  <2> HIDE DEF points, whole
  <2>2. /\ CarriedBits(whole, points) \in Nat /\ DownloadBits(whole, points) \in Nat
        /\ CarriedBits(whole, points) <= DownloadBits(whole, points)
        /\ InRange(points) => CarriedBits(whole, points) = DownloadBits(whole, points)
    BY <2>1, EstimateIsCarried
  <2> QED
    BY <2>1, <2>2 DEF InRange, points
<1> QED
  BY <1>1, RadioInvariance, PTL

\* A vehicle never credits itself with more than the cloud planned for, for any table and
\* any route of one point a second, in the stays it did not come to directly from another
\* node.
THEOREM CreditBounded == RadioSpec => []CreditWithinEstimate
<1>1. RadioInv => CreditWithinEstimate
  <2> SUFFICES ASSUME RadioInv, NEW i \in DOMAIN estimates, nodeInfos[i].node \in Configured,
                      ~EnteredDirectly(route, Merged(Intervals(route))[i].first),
                      LET points == nodeInfos[i].points
                      IN  \A p, q \in DOMAIN points : points[p].time = points[q].time => p = q
               PROVE  CreditedBits(estimates[i].table, nodeInfos[i].points,
                                   EnteredDirectly(route, Merged(Intervals(route))[i].first))
                          <= estimates[i].bits
    BY DEF CreditWithinEstimate
  <2> DEFINE points == nodeInfos[i].points
             whole == ModelFile[nodeInfos[i].node]
  <2>1. /\ Radio(whole) /\ Points(points) /\ DOMAIN points = 1..Len(points)
        /\ estimates[i].table = whole /\ estimates[i].bits = DownloadBits(whole, points)
    BY EstimateFacts
  <2>2. \A p, q \in DOMAIN points : points[p].time = points[q].time => p = q
    OBVIOUS
  <2>3. points[1].node # None /\ points[Len(points)].node # None
    BY StayEnds
  <2>4. EnteredDirectly(route, Merged(Intervals(route))[i].first) = FALSE
    BY DEF EnteredDirectly
  <2> HIDE DEF points, whole
  <2>5. CreditedBits(whole, points, FALSE) <= DownloadBits(whole, points)
    BY <2>1, <2>2, <2>3, CreditIsWithin DEF OneEachSecond
  <2> QED
    BY <2>1, <2>4, <2>5 DEF points
<1> QED
  BY <1>1, RadioInvariance, PTL
=============================================================================
