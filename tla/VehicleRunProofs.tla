---------------------------- MODULE VehicleRunProofs ----------------------------
(***************************************************************************)
(* Proofs about a simulation run, for any trajectories, video and nodes.    *)
(*                                                                         *)
(* A client that is done has collected its last contact because a goroutine *)
(* only runs for a client that is not done (RunningNotDone) and ends with   *)
(* the call that completes the video, which is one that has given the       *)
(* contact up.  Each call is summed up by CallInv.                          *)
(***************************************************************************)
EXTENDS VehicleRun, TLAPS

Good(k) ==
    /\ k \in Client
    /\ k.fromEdge + k.fromCloud = TotalSize[k.buffered]
    /\ 1..k.completed \subseteq k.buffered

GoodClients == \A c \in Clients : Good(client[c]) /\ client[c].at <= Len(Trajectory[c]) + 1

\* A goroutine runs for a client that is registered, on its way and not done.
RunningNotDone ==
    \A c \in running :
        client[c].registered /\ ~IsDone(c) /\ StartTime(c) < timestamp

\* A client that is not registered has done nothing.
UnregisteredIdle ==
    \A c \in Clients : ~client[c].registered => client[c].completed = 0 /\ client[c].contact = None

\* Goroutines run while the clients' turn lasts.
RunningInTurn == phase # "clients" => running = {}

\* During a tick the nodes that are not behind have its time.
ReachedInStep ==
    phase = "edges" => \A n \in Nodes \ behind : edgeTime[n] = curTime

RunInv ==
    /\ TypeOK /\ GoodClients /\ RunningNotDone /\ UnregisteredIdle
    /\ RunningInTurn /\ DoneIsDisconnected /\ ReachedInStep /\ EdgesInStep

-----------------------------------------------------------------------------
(* One client.                                                             *)

\* The larger of two numbers, and the smaller.
LEMMA MaxOfTwo ==
    ASSUME NEW a \in Int, NEW b \in Int
    PROVE  Max({a, b}) = IF a < b THEN b ELSE a
<1>1. \A x \in {a, b} : (\A y \in {a, b} : x >= y) <=> x = IF a < b THEN b ELSE a
  OBVIOUS
<1> QED
  BY <1>1 DEF Max

\* The smaller of two numbers.
LEMMA MinOfTwo ==
    ASSUME NEW a \in Int, NEW b \in Int
    PROVE  Min({a, b}) = IF a < b THEN a ELSE b
<1>1. \A x \in {a, b} : (\A y \in {a, b} : x <= y) <=> x = IF a < b THEN a ELSE b
  OBVIOUS
<1> QED
  BY <1>1 DEF Min

\* A product of naturals is one.
LEMMA ProductNat == ASSUME NEW a \in Nat, NEW b \in Nat PROVE a * b \in Nat
  OBVIOUS

\* The bits of a contact are a number, whatever the times.
LEMMA CarriedType ==
    ASSUME NEW k \in Client, NEW bw \in Nat, NEW time \in Int
    PROVE  Carried(k, bw, time) \in Nat
<1>1. CASE time > 0
  <2>1. bw * time \in Nat
    BY <1>1, ProductNat
  <2> QED
    BY <1>1, <2>1 DEF Carried, Client
<1>2. CASE ~(time > 0)
  BY <1>2 DEF Carried, Client
<1> QED
  BY <1>1, <1>2

\* Adding to a set what it lacks adds the bytes of that.
LEMMA SizeOfUnion ==
    ASSUME NEW S \in SUBSET Segments, NEW T \in SUBSET Segments
    PROVE  TotalSize[S \cup T] = TotalSize[S] + TotalSize[T \ S]
<1>1. S \cup T = S \cup (T \ S) /\ S \cap (T \ S) = {}
  OBVIOUS
<1> QED
  BY <1>1, RunSizeAssumption DEF RunSizeAssumption

\* An edge request keeps the books, ends the contact, and leaves alone what the
\* client counts as downloaded.
LEMMA EdgeRequestGood ==
    ASSUME NEW k, Good(k), NEW bytes, NEW r \in MakeEdgeRequest(k, bytes)
    PROVE  /\ Good(r) /\ r.contact = None
           /\ r.completed = k.completed /\ r.at = k.at /\ r.registered = k.registered
<1>1. PICK got \in SUBSET (Segments \ k.buffered) :
          r = [k EXCEPT !.buffered = @ \cup got, !.fromEdge = @ + TotalSize[got],
                        !.contact = None]
  BY DEF MakeEdgeRequest
<1>2. k \in Client
  BY DEF Good
<1>3. got \ k.buffered = got /\ got \in SUBSET Segments /\ k.buffered \in SUBSET Segments
  BY <1>1, <1>2 DEF Client
<1>4. TotalSize[k.buffered \cup got] = TotalSize[k.buffered] + TotalSize[got]
  BY <1>3, SizeOfUnion
<1>5. TotalSize[got] \in Nat /\ TotalSize[k.buffered] \in Nat
  BY <1>3, RunSizeAssumption DEF RunSizeAssumption
<1>6. r \in Client
  <2> DEFINE buffered == k.buffered \cup got
             fromEdge == k.fromEdge + TotalSize[got]
  <2>1. buffered \in SUBSET Segments /\ fromEdge \in Nat
    BY <1>2, <1>3, <1>5 DEF Client
  <2>2. r = [k EXCEPT !.buffered = buffered, !.fromEdge = fromEdge, !.contact = None]
    BY <1>1, <1>2 DEF Client
  <2> HIDE DEF buffered, fromEdge
  <2> QED
    BY <1>2, <2>1, <2>2 DEF Client
<1>7. /\ r.buffered = k.buffered \cup got /\ r.fromEdge = k.fromEdge + TotalSize[got]
      /\ r.fromCloud = k.fromCloud /\ r.completed = k.completed /\ r.contact = None
      /\ r.at = k.at /\ r.registered = k.registered
  BY <1>1, <1>2 DEF Client
<1>8. k.fromEdge \in Nat /\ k.fromCloud \in Nat
  BY <1>2 DEF Client
<1> QED
  BY <1>4, <1>5, <1>6, <1>7, <1>8 DEF Good

\* So does the loop that fetches from the cloud, which leaves the contact alone.
LEMMA CloudFetchGood ==
    ASSUME NEW k, Good(k)
    PROVE  /\ Good(FetchFromCloud(k)) /\ FetchFromCloud(k).contact = k.contact
           /\ FetchFromCloud(k).at = k.at /\ FetchFromCloud(k).registered = k.registered
<1> DEFINE upTo == Min({VideoLength, Max({k.completed, k.playback + 1})})
           due == k.completed + 1..upTo
           r == FetchFromCloud(k)
<1>1. /\ k \in Client /\ k.completed \in 0..VideoLength /\ k.playback \in Nat
      /\ VideoLength \in Nat /\ k.buffered \in SUBSET Segments
      /\ k.fromEdge \in Nat /\ k.fromCloud \in Nat
  BY RunAssumption DEF Good, Client, RunAssumption
<1>2. upTo \in 0..VideoLength /\ k.completed <= upTo
  BY <1>1, MaxOfTwo, MinOfTwo
<1> HIDE DEF upTo
<1>3. due \in SUBSET Segments /\ 1..upTo \subseteq 1..k.completed \cup due
  BY <1>1, <1>2 DEF Segments
<1>4. TotalSize[k.buffered \cup due] = TotalSize[k.buffered] + TotalSize[due \ k.buffered]
  BY <1>1, <1>3, SizeOfUnion
<1>5. due \ k.buffered \in SUBSET Segments
  BY <1>3
<1>6. TotalSize[due \ k.buffered] \in Nat /\ TotalSize[k.buffered] \in Nat
  BY <1>1, <1>5, RunSizeAssumption DEF RunSizeAssumption
<1> HIDE DEF due
<1>7. r = [k EXCEPT !.completed = upTo, !.buffered = @ \cup due,
                    !.fromCloud = @ + TotalSize[due \ k.buffered]]
  BY DEF FetchFromCloud, upTo, due
<1> HIDE DEF r
<1>8. r \in Client
  <2> DEFINE buffered == k.buffered \cup due
             fromCloud == k.fromCloud + TotalSize[due \ k.buffered]
  <2>1. buffered \in SUBSET Segments /\ fromCloud \in Nat
    BY <1>1, <1>3, <1>6
  <2>2. r = [k EXCEPT !.completed = upTo, !.buffered = buffered, !.fromCloud = fromCloud]
    BY <1>1, <1>7 DEF Client
  <2> HIDE DEF buffered, fromCloud
  <2> QED
    BY <1>1, <1>2, <2>1, <2>2 DEF Client
<1>9. /\ r.buffered = k.buffered \cup due /\ r.fromEdge = k.fromEdge
      /\ r.fromCloud = k.fromCloud + TotalSize[due \ k.buffered]
      /\ r.completed = upTo /\ r.contact = k.contact
      /\ r.at = k.at /\ r.registered = k.registered
  BY <1>1, <1>7 DEF Client
<1>10. Good(r)
  BY <1>1, <1>3, <1>4, <1>6, <1>8, <1>9 DEF Good
<1> QED
  BY <1>9, <1>10 DEF r

\* Playing changes the playback only.
LEMMA PlayedGood ==
    ASSUME NEW c, NEW k, Good(k)
    PROVE  /\ Good(Played(c, k)) /\ Played(c, k).contact = k.contact
           /\ Played(c, k).completed = k.completed
           /\ Played(c, k).at = k.at /\ Played(c, k).registered = k.registered
<1>1. k \in Client
  BY DEF Good
<1>2. [k EXCEPT !.playback = @ + 1] \in Client
  BY <1>1 DEF Client
<1> QED
  BY <1>1, <1>2 DEF Played, Good, Client

\* A goroutine runs at a time that is one, and has a point to go to or to stop at.
LEMMA RunningFacts ==
    ASSUME RunInv, NEW c \in running
    PROVE  /\ c \in Clients /\ Good(client[c]) /\ client[c].registered
           /\ timestamp \in Nat
           /\ client[c].at \in 1..Len(Trajectory[c])
           /\ client[c].at < Len(Trajectory[c]) => Here(c) \in Point
<1>1. /\ c \in Clients /\ Good(client[c]) /\ client[c].registered
      /\ timestamp \in Nat \cup {-1} /\ StartTime(c) < timestamp /\ ~HasEnded(c)
  BY DEF RunInv, TypeOK, GoodClients, RunningNotDone, IsDone
<1>2. /\ Trajectory[c] \in Seq(Point) /\ Trajectory[c] # <<>>
  BY <1>1, RunAssumption DEF RunAssumption
<1>3. Len(Trajectory[c]) \in Nat /\ Trajectory[c][1] \in Point
  BY <1>2
<1>4. StartTime(c) \in Nat
  BY <1>3 DEF StartTime, Point
<1>5. timestamp \in Nat
  BY <1>1, <1>4
<1>6. client[c].at \in 1..Len(Trajectory[c])
  <2>1. client[c].at \in Nat \ {0}
    BY <1>1 DEF Good, Client
  <2>2. ~(client[c].at > Len(Trajectory[c]))
    BY <1>1 DEF HasEnded
  <2> QED
    BY <1>3, <2>1, <2>2
<1>7. ASSUME client[c].at < Len(Trajectory[c]) PROVE Here(c) \in Point
  BY <1>2, <1>3, <1>6, <1>7 DEF Here
<1> QED
  BY <1>1, <1>5, <1>6, <1>7

\* A client that moves on has its books in order, one point further.
LEMMA MovedGood ==
    ASSUME RunInv, NEW c \in running
    PROVE  /\ Good(Moved(c)) /\ Moved(c).at = client[c].at + 1
           /\ Moved(c).contact = client[c].contact
           /\ Moved(c).completed = client[c].completed
           /\ Moved(c).registered = client[c].registered
<1>1. Good(client[c])
  BY RunningFacts
<1>2. client[c].at + 1 \in Nat \ {0}
  BY <1>1 DEF Good, Client
<1>3. Moved(c) \in Client
  BY <1>1, <1>2 DEF Moved, Good, Client
<1> QED
  BY <1>1, <1>3 DEF Moved, Good, Client

\* Good states stay so when the contact changes.
LEMMA ContactGood ==
    ASSUME NEW c, Here(c) \in Point, timestamp \in Nat, NEW k, Good(k)
    PROVE  /\ Good(Contact(c, k)) /\ Contact(c, k).completed = k.completed
           /\ Contact(c, k).at = k.at /\ Contact(c, k).registered = k.registered
<1> DEFINE node == Here(c).node
           bw == Here(c).bw
<1>1. node \in Nodes \cup {None} /\ bw \in Nat
  BY DEF Point
<1>2. Contact(c, k) = [k EXCEPT !.contact = node, !.available = 0,
                               !.lastContact = timestamp, !.lastBw = bw]
  BY DEF Contact
<1> HIDE DEF node, bw
<1>3. k \in Client
  BY DEF Good
<1>4. [k EXCEPT !.contact = node, !.available = 0,
                !.lastContact = timestamp, !.lastBw = bw] \in Client
  BY <1>1, <1>3 DEF Client
<1> QED
  BY <1>2, <1>3, <1>4 DEF Good, Client

\* What one call does to its client.
Called(c, r) ==
    /\ client' = [client EXCEPT ![c] = r]
    /\ Good(r) /\ r.at = client[c].at + 1 /\ r.registered = client[c].registered
    /\ client[c].at = Len(Trajectory[c]) => r.contact = None
    /\ \/ r.completed = client[c].completed
       \/ client[c].at < Len(Trajectory[c]) /\ TimeMoved(c) /\ r.contact = None

\* A call of FetchSegments is one of five kinds and leaves the client's books in order.
LEMMA CallInv ==
    ASSUME RunInv, NEW c \in running, FetchSegments(c)
    PROVE  \E r : Called(c, r)
<1> DEFINE k0 == client[c]
<1>1. /\ c \in Clients /\ Good(k0) /\ timestamp \in Nat
      /\ k0.at \in 1..Len(Trajectory[c])
      /\ k0.at < Len(Trajectory[c]) => Here(c) \in Point
  BY RunningFacts
<1>2. /\ Good(Moved(c)) /\ Moved(c).at = k0.at + 1 /\ Moved(c).contact = k0.contact
      /\ Moved(c).completed = k0.completed /\ Moved(c).registered = k0.registered
  BY MovedGood
<1>3. k0.lastBw \in Nat /\ timestamp - k0.lastContact \in Int /\ k0 \in Client
  BY <1>1 DEF Good, Client
<1>4. CASE FinishTrip(c)
  <2>1. PICK r \in IF k0.contact = None THEN {Moved(c)}
                   ELSE MakeEdgeRequest(Moved(c), k0.available \div 8) :
            client' = [client EXCEPT ![c] = r]
    BY <1>4 DEF FinishTrip
  <2>2. /\ Good(r) /\ r.contact = None /\ r.at = k0.at + 1
        /\ r.completed = k0.completed /\ r.registered = k0.registered
    BY <1>2, <2>1, EdgeRequestGood
  <2> QED
    BY <2>1, <2>2 DEF Called
<1>5. CASE OutOfRange(c)
  <2> DEFINE bits == Carried(k0, k0.lastBw, timestamp - k0.lastContact)
             m == [Moved(c) EXCEPT !.available = bits]
  <2>1. k0.at < Len(Trajectory[c])
    BY <1>5 DEF OutOfRange
  <2>2. bits \in Nat
    BY <1>3, CarriedType
  <2>3. PICK k \in IF k0.contact = None THEN {Moved(c)} ELSE MakeEdgeRequest(m, bits \div 8) :
            client' = [client EXCEPT ![c] =
                          Played(c, IF TimeMoved(c) THEN FetchFromCloud(k) ELSE k)]
    BY <1>5 DEF OutOfRange
  <2> HIDE DEF bits
  <2>4. /\ Good(m) /\ m.at = k0.at + 1 /\ m.completed = k0.completed
        /\ m.registered = k0.registered
    BY <1>2, <2>2 DEF Good, Client
  <2> HIDE DEF m
  <2>5. /\ Good(k) /\ k.contact = None /\ k.at = k0.at + 1
        /\ k.completed = k0.completed /\ k.registered = k0.registered
    BY <1>2, <2>3, <2>4, EdgeRequestGood
  <2> DEFINE f == IF TimeMoved(c) THEN FetchFromCloud(k) ELSE k
             r == Played(c, f)
  <2>6. /\ Good(f) /\ f.contact = None /\ f.at = k0.at + 1
        /\ f.registered = k0.registered
        /\ f.completed = k0.completed \/ TimeMoved(c)
    BY <2>5, CloudFetchGood
  <2>7. client' = [client EXCEPT ![c] = r]
    BY <2>3
  <2> HIDE DEF f
  <2>8. /\ Good(r) /\ r.contact = None /\ r.at = k0.at + 1
        /\ r.registered = k0.registered
        /\ r.completed = k0.completed \/ TimeMoved(c)
    BY <2>6, PlayedGood
  <2> HIDE DEF r
  <2> QED
    BY <1>1, <2>1, <2>7, <2>8 DEF Called
<1>6. CASE NewContact(c)
  <2> DEFINE k == Contact(c, Moved(c))
             r == Played(c, k)
  <2>1. k0.at < Len(Trajectory[c]) /\ client' = [client EXCEPT ![c] = r]
    BY <1>6 DEF NewContact
  <2>3. /\ Good(k) /\ k.completed = Moved(c).completed /\ k.at = Moved(c).at
        /\ k.registered = Moved(c).registered
    BY <1>1, <1>2, <2>1, ContactGood
  <2> HIDE DEF k
  <2>4. /\ Good(r) /\ r.completed = k0.completed /\ r.at = k0.at + 1
        /\ r.registered = k0.registered
    BY <1>2, <2>3, PlayedGood
  <2> HIDE DEF r
  <2>5. Called(c, r)
    BY <1>1, <2>1, <2>4 DEF Called
  <2> QED
    BY <2>5
<1>7. CASE ChangeContact(c)
  <2> DEFINE bits == Carried(k0, Here(c).bw, timestamp - k0.lastContact)
  <2>1. k0.at < Len(Trajectory[c])
    BY <1>7 DEF ChangeContact
  <2>2. PICK k \in MakeEdgeRequest(Moved(c), bits \div 8) :
            client' = [client EXCEPT ![c] = Played(c, Contact(c, k))]
    BY <1>7 DEF ChangeContact
  <2> HIDE DEF bits
  <2>4. /\ Good(k) /\ k.completed = k0.completed /\ k.at = k0.at + 1
        /\ k.registered = k0.registered
    BY <1>2, <2>2, EdgeRequestGood
  <2> DEFINE n == Contact(c, k)
             r == Played(c, n)
  <2>5. /\ Good(n) /\ n.completed = k.completed /\ n.at = k.at
        /\ n.registered = k.registered
    BY <1>1, <2>1, <2>4, ContactGood
  <2>6. client' = [client EXCEPT ![c] = r]
    BY <2>2
  <2> HIDE DEF n
  <2>7. /\ Good(r) /\ r.completed = k0.completed /\ r.at = k0.at + 1
        /\ r.registered = k0.registered
    BY <2>4, <2>5, PlayedGood
  <2> HIDE DEF r
  <2>8. Called(c, r)
    BY <1>1, <2>1, <2>6, <2>7 DEF Called
  <2> QED
    BY <2>8
<1>8. CASE KeepContact(c)
  <2> DEFINE bits == Carried(k0, Here(c).bw, timestamp - k0.lastContact)
             k == [Moved(c) EXCEPT !.available = bits, !.lastContact = timestamp,
                                   !.lastBw = Here(c).bw]
             r == Played(c, k)
  <2>1. k0.at < Len(Trajectory[c]) /\ client' = [client EXCEPT ![c] = r]
    BY <1>8 DEF KeepContact
  <2>2. Here(c).bw \in Nat
    BY <1>1, <2>1 DEF Point
  <2>3. bits \in Nat
    BY <1>3, <2>2, CarriedType
  <2> HIDE DEF bits
  <2>4. /\ Good(k) /\ k.completed = k0.completed /\ k.at = k0.at + 1
        /\ k.registered = k0.registered
    BY <1>1, <1>2, <2>2, <2>3 DEF Good, Client
  <2> HIDE DEF k
  <2>5. /\ Good(r) /\ r.completed = k0.completed /\ r.at = k0.at + 1
        /\ r.registered = k0.registered
    BY <2>4, PlayedGood
  <2> HIDE DEF r
  <2>6. Called(c, r)
    BY <1>1, <2>1, <2>5 DEF Called
  <2> QED
    BY <2>6
<1> QED
  BY <1>4, <1>5, <1>6, <1>7, <1>8 DEF FetchSegments

-----------------------------------------------------------------------------
(* The invariant.                                                          *)

\* The invariant holds at first ...
LEMMA RunInit == Init => RunInv
<1> SUFFICES ASSUME Init PROVE RunInv
  OBVIOUS
<1>1. /\ None \notin Nodes /\ VideoLength \in Nat \ {0} /\ NumClients \in Nat
      /\ MaxFailures \in Nat
      /\ \A c \in Clients : Len(Trajectory[c]) \in Nat /\ Len(Trajectory[c]) >= 1
  BY RunAssumption DEF RunAssumption
<1>2. NewClient \in Client
  BY <1>1 DEF NewClient, Client
<1>3. Good(NewClient)
  BY <1>2, RunSizeAssumption DEF Good, NewClient, RunSizeAssumption
<1>4. \A c \in Clients : client[c] = NewClient
  BY DEF Init
<1>5. TypeOK
  BY <1>1, <1>2 DEF Init, TypeOK, NewClient, Clients
<1>6. GoodClients
  <2>1. NewClient.at = 1
    BY DEF NewClient
  <2> QED
    BY <1>1, <1>3, <1>4, <2>1 DEF GoodClients
<1>7. UnregisteredIdle /\ DoneIsDisconnected
  BY <1>4 DEF UnregisteredIdle, DoneIsDisconnected, NewClient
<1> QED
  BY <1>5, <1>6, <1>7 DEF Init, RunInv, RunningNotDone, RunningInTurn, ReachedInStep, EdgesInStep

\* Where no goroutine is left, what the clients are is not touched by the clock.
LEMMA ClientsIdle ==
    ASSUME RunInv, client' = client, running' = {}
    PROVE  /\ GoodClients' /\ RunningNotDone' /\ UnregisteredIdle'
           /\ RunningInTurn' /\ DoneIsDisconnected'
<1>1. GoodClients /\ UnregisteredIdle /\ DoneIsDisconnected
  BY DEF RunInv
<1>2. GoodClients'
  BY <1>1 DEF GoodClients
<1>3. UnregisteredIdle'
  BY <1>1 DEF UnregisteredIdle
<1>4. DoneIsDisconnected'
  BY <1>1 DEF DoneIsDisconnected, IsDone, HasEnded
<1> QED
  BY <1>2, <1>3, <1>4 DEF RunningNotDone, RunningInTurn

\* A step that leaves the clock and the time alone leaves the edges in step.
LEMMA ClockUnchanged ==
    ASSUME RunInv, phase = "clients", UNCHANGED <<clockState, phase, timestamp>>
    PROVE  ReachedInStep' /\ EdgesInStep'
  BY DEF RunInv, ReachedInStep, EdgesInStep, clockState

\* ... and is kept by each step of the clock ...
LEMMA AdvanceInv == RunInv /\ Advance => RunInv'
<1> SUFFICES ASSUME RunInv, Advance PROVE RunInv'
  OBVIOUS
<1>1. running = {} /\ client' = client /\ running' = {}
  BY DEF RunInv, RunningInTurn, Advance
<1>2. TypeOK'
  <2>1. curTime + TimeIncr \in Nat
    BY RunAssumption DEF RunInv, TypeOK, RunAssumption
  <2> QED
    BY <2>1 DEF RunInv, TypeOK, Advance
<1>3. ReachedInStep' /\ EdgesInStep'
  BY DEF Advance, ReachedInStep, EdgesInStep
<1> QED
  BY <1>1, <1>2, <1>3, ClientsIdle DEF RunInv

\* The clock reaches one edge node more.
LEMMA AdvanceEdgeInv == ASSUME NEW n \in Nodes PROVE RunInv /\ AdvanceEdge(n) => RunInv'
<1> SUFFICES ASSUME RunInv, AdvanceEdge(n) PROVE RunInv'
  OBVIOUS
<1>1. running = {} /\ client' = client /\ running' = {}
  BY DEF RunInv, RunningInTurn, AdvanceEdge
<1>2. TypeOK'
  BY DEF RunInv, TypeOK, AdvanceEdge
<1>3. ReachedInStep'
  BY DEF RunInv, TypeOK, AdvanceEdge, ReachedInStep
<1>4. EdgesInStep'
  BY DEF AdvanceEdge, EdgesInStep
<1> QED
  BY <1>1, <1>2, <1>3, <1>4, ClientsIdle DEF RunInv

\* A failing call of the clock reaches no further edge.
LEMMA AdvanceFailsInv == RunInv /\ AdvanceFails => RunInv'
<1> SUFFICES ASSUME RunInv, AdvanceFails PROVE RunInv'
  OBVIOUS
<1>1. running = {} /\ client' = client /\ running' = {}
  BY DEF RunInv, RunningInTurn, AdvanceFails
<1>2. TypeOK'
  BY RunAssumption DEF RunInv, TypeOK, AdvanceFails, RunAssumption
<1>3. ReachedInStep' /\ EdgesInStep'
  BY DEF AdvanceFails, ReachedInStep, EdgesInStep
<1> QED
  BY <1>1, <1>2, <1>3, ClientsIdle DEF RunInv

\* The clock answers when it has reached every edge.
LEMMA AdvanceReturnsInv == RunInv /\ AdvanceReturns => RunInv'
<1> SUFFICES ASSUME RunInv, AdvanceReturns PROVE RunInv'
  OBVIOUS
<1>1. running = {} /\ client' = client /\ running' = {}
  BY DEF RunInv, RunningInTurn, AdvanceReturns
<1>2. TypeOK'
  BY RunAssumption DEF RunInv, TypeOK, AdvanceReturns, RunAssumption, clockState
<1>3. ReachedInStep' /\ EdgesInStep'
  BY DEF RunInv, AdvanceReturns, ReachedInStep, EdgesInStep, clockState
<1> QED
  BY <1>1, <1>2, <1>3, ClientsIdle DEF RunInv

\* A tick ends when no goroutine is on its way.
LEMMA EndTickInv == RunInv /\ EndTick => RunInv'
<1> SUFFICES ASSUME RunInv, EndTick PROVE RunInv'
  OBVIOUS
<1>1. client' = client /\ running' = {}
  BY DEF EndTick
<1>2. TypeOK'
  BY DEF RunInv, TypeOK, EndTick, clockState
<1>3. ReachedInStep' /\ EdgesInStep'
  BY DEF EndTick, ReachedInStep, EdgesInStep
<1> QED
  BY <1>1, <1>2, <1>3, ClientsIdle DEF RunInv

\* A client that registers is not on its way.
LEMMA RegisterInv == ASSUME NEW c \in Clients PROVE RunInv /\ Register(c) => RunInv'
<1> SUFFICES ASSUME RunInv, Register(c) PROVE RunInv'
  OBVIOUS
<1> DEFINE k == client[c]
<1>1. /\ phase = "clients" /\ UNCHANGED <<clockState, phase, timestamp, running>>
      /\ ~k.registered /\ c = next /\ next' = next + 1
      /\ \/ failures' = failures
         \/ failures < MaxFailures /\ failures' = failures + 1
  BY DEF Register, MustRegister, clockState
<1>2. /\ Good(k) /\ k.at <= Len(Trajectory[c]) + 1
      /\ k.completed = 0 /\ k.contact = None /\ c \notin running
  BY <1>1 DEF RunInv, GoodClients, UnregisteredIdle, RunningNotDone
<1>3. PICK r \in {k, [k EXCEPT !.registered = TRUE]} : client' = [client EXCEPT ![c] = r]
  <2>1. CASE client' = [client EXCEPT ![c].registered = TRUE]
    BY <2>1
  <2>2. CASE client' = client
    <3>1. client = [client EXCEPT ![c] = k]
      BY DEF RunInv, TypeOK
    <3> QED
      BY <2>2, <3>1
  <2> QED
    BY <2>1, <2>2 DEF Register
<1>4. /\ Good(r) /\ r.at = k.at /\ r.completed = 0 /\ r.contact = None
  BY <1>2 DEF Good, Client
<1>5. /\ client' \in [Clients -> Client] /\ client'[c] = r
      /\ \A d \in Clients \ {c} : client'[d] = client[d]
  BY <1>3, <1>4 DEF RunInv, TypeOK, Good
<1> HIDE DEF k
<1>6. GoodClients'
  BY <1>2, <1>4, <1>5 DEF RunInv, GoodClients
<1>7. TypeOK'
  <2>1. next' \in 1..NumClients + 1
    BY <1>1, RunAssumption DEF Clients, RunAssumption
  <2>2. failures' \in 0..MaxFailures
    <3>1. failures \in 0..MaxFailures
      BY DEF RunInv, TypeOK
    <3>2. MaxFailures \in Nat
      BY RunAssumption DEF RunAssumption
    <3> QED
      BY <1>1, <3>1, <3>2
  <2> QED
    BY <1>1, <1>5, <1>6, <2>1, <2>2 DEF RunInv, TypeOK, GoodClients, clockState
<1>8. RunningNotDone'
  <2> SUFFICES ASSUME NEW d \in running
               PROVE  client'[d] = client[d]
    BY <1>1 DEF RunInv, RunningNotDone, IsDone, HasEnded
  <2> QED
    BY <1>2, <1>5 DEF RunInv, TypeOK
<1>9. UnregisteredIdle'
  BY <1>4, <1>5 DEF RunInv, UnregisteredIdle
<1>10. DoneIsDisconnected'
  BY <1>4, <1>5 DEF RunInv, DoneIsDisconnected, IsDone, HasEnded
<1>11. RunningInTurn' /\ ReachedInStep' /\ EdgesInStep'
  BY <1>1, ClockUnchanged DEF RunningInTurn
<1> QED
  BY <1>6, <1>7, <1>8, <1>9, <1>10, <1>11 DEF RunInv

\* ... and by each of the runner and of its goroutines.
LEMMA StartClientInv == ASSUME NEW c \in Clients PROVE RunInv /\ StartClient(c) => RunInv'
<1> SUFFICES ASSUME RunInv, StartClient(c) PROVE RunInv'
  OBVIOUS
<1>1. /\ phase = "clients" /\ UNCHANGED <<clockState, phase, timestamp, client, failures>>
      /\ c = next /\ next' = next + 1 /\ ~MustRegister(c)
      /\ running' = IF MayFetch(c) THEN running \cup {c} ELSE running
  BY DEF StartClient
<1>2. TypeOK'
  <2>1. next' \in 1..NumClients + 1
    BY <1>1, RunAssumption DEF Clients, RunAssumption
  <2> QED
    BY <1>1, <2>1 DEF RunInv, TypeOK, clockState
<1>3. GoodClients' /\ UnregisteredIdle' /\ DoneIsDisconnected'
  BY <1>1 DEF RunInv, GoodClients, UnregisteredIdle, DoneIsDisconnected, IsDone, HasEnded
<1>4. RunningNotDone'
  <2>1. ASSUME MayFetch(c)
        PROVE  client[c].registered /\ ~IsDone(c) /\ StartTime(c) < timestamp
    <3>1. ~IsDone(c) /\ StartTime(c) < timestamp
      BY <2>1 DEF MayFetch
    <3>2. StartTime(c) \in Int /\ timestamp \in Int /\ Lead \in Nat
      <4>1. Trajectory[c] \in Seq(Point) /\ Trajectory[c] # <<>> /\ Lead \in Nat
        BY RunAssumption DEF RunAssumption
      <4>2. Trajectory[c][1] \in Point
        BY <4>1
      <4> QED
        BY <4>1, <4>2 DEF StartTime, Point, RunInv, TypeOK
    <3>3. StartTime(c) < timestamp + Lead
      BY <3>1, <3>2
    <3> QED
      BY <1>1, <3>1, <3>3 DEF MustRegister
  <2> QED
    BY <1>1, <2>1 DEF RunInv, RunningNotDone, IsDone, HasEnded
<1>5. RunningInTurn' /\ ReachedInStep' /\ EdgesInStep'
  BY <1>1, ClockUnchanged DEF RunningInTurn
<1> QED
  BY <1>2, <1>3, <1>4, <1>5 DEF RunInv

\* A goroutine's call keeps its client's books, and it stays or ends.
LEMMA FetchSegmentsInv ==
    ASSUME NEW c \in Clients PROVE RunInv /\ FetchSegments(c) => RunInv'
<1> SUFFICES ASSUME RunInv, FetchSegments(c) PROVE RunInv'
  OBVIOUS
<1> DEFINE len == Len(Trajectory[c])
<1>1. /\ c \in running /\ UNCHANGED <<clockState, phase, timestamp, next, failures>>
      /\ running' = IF client[c].at = len \/ TimeMoved(c) THEN running \ {c} ELSE running
  BY DEF FetchSegments
<1>2. PICK r : Called(c, r)
  BY <1>1, CallInv
<1>3. phase = "clients"
  BY <1>1 DEF RunInv, RunningInTurn
<1>4. /\ client[c].registered /\ client[c].completed # VideoLength
      /\ client[c].at \in 1..len /\ len \in Nat /\ StartTime(c) < timestamp
  <2>1. client[c].at \in 1..Len(Trajectory[c])
    BY <1>1, RunningFacts
  <2>2. len \in Nat
    BY RunAssumption DEF RunAssumption
  <2> QED
    BY <1>1, <2>1, <2>2 DEF RunInv, RunningNotDone, IsDone
<1>5. /\ client' \in [Clients -> Client] /\ client'[c] = r
      /\ \A d \in Clients \ {c} : client'[d] = client[d]
  BY <1>2 DEF Called, RunInv, TypeOK, Good
<1>6. /\ Good(r) /\ r.at = client[c].at + 1 /\ r.registered
      /\ client[c].at = len => r.contact = None
      /\ \/ r.completed = client[c].completed
         \/ client[c].at < len /\ TimeMoved(c) /\ r.contact = None
  BY <1>2, <1>4 DEF Called
<1> HIDE DEF len
<1>7. GoodClients'
  BY <1>4, <1>5, <1>6 DEF RunInv, GoodClients, len
<1>8. TypeOK'
  BY <1>1, <1>5, <1>7 DEF RunInv, TypeOK, GoodClients, clockState
<1>9. RunningNotDone'
  <2> SUFFICES ASSUME NEW d \in running'
               PROVE  (client[d].registered /\ ~IsDone(d) /\ StartTime(d) < timestamp)'
    BY DEF RunningNotDone
  <2>1. CASE d = c
    <3>1. client[c].at # len /\ ~TimeMoved(c)
      BY <1>1, <2>1
    <3>2. r.at <= len /\ r.completed # VideoLength
      BY <1>4, <1>6, <3>1
    <3> QED
      BY <1>1, <1>4, <1>5, <1>6, <2>1, <3>2 DEF IsDone, HasEnded, StartTime, len
  <2>2. CASE d # c
    <3>1. d \in running /\ client'[d] = client[d]
      BY <1>1, <1>5, <2>2 DEF RunInv, TypeOK
    <3> QED
      BY <1>1, <3>1 DEF RunInv, RunningNotDone, IsDone, HasEnded, StartTime
  <2> QED
    BY <2>1, <2>2
<1>10. UnregisteredIdle'
  BY <1>5, <1>6 DEF RunInv, UnregisteredIdle
<1>11. DoneIsDisconnected'
  <2> SUFFICES ASSUME NEW d \in Clients, IsDone(d)' PROVE client'[d].contact = None
    BY DEF DoneIsDisconnected
  <2>1. CASE d = c
    <3>1. CASE r.completed = VideoLength
      BY <1>4, <1>5, <1>6, <2>1, <3>1
    <3>2. CASE r.at > len
      <4>1. client[c].at = len
        BY <1>4, <1>6, <3>2
      <4> QED
        BY <1>5, <1>6, <2>1, <4>1
    <3> QED
      BY <1>5, <2>1, <3>1, <3>2 DEF IsDone, HasEnded, len
  <2>2. CASE d # c
    BY <1>5, <2>2 DEF RunInv, DoneIsDisconnected, IsDone, HasEnded
  <2> QED
    BY <2>1, <2>2
<1>12. RunningInTurn' /\ ReachedInStep' /\ EdgesInStep'
  BY <1>1, <1>3, ClockUnchanged DEF RunningInTurn
<1> QED
  BY <1>7, <1>8, <1>9, <1>10, <1>11, <1>12 DEF RunInv

\* Nothing changes when nothing happens.
LEMMA StutterInv == RunInv /\ UNCHANGED vars => RunInv'
  BY DEF RunInv, TypeOK, GoodClients, RunningNotDone, UnregisteredIdle, RunningInTurn,
         DoneIsDisconnected, ReachedInStep, EdgesInStep, IsDone, HasEnded, vars, clockState

-----------------------------------------------------------------------------
(* The theorems.                                                           *)

\* RunInv holds in every reachable state.
THEOREM RunInvariance == Spec => []RunInv
<1>1. RunInv /\ [Next]_vars => RunInv'
  BY AdvanceInv, AdvanceEdgeInv, AdvanceFailsInv, AdvanceReturnsInv, EndTickInv,
     RegisterInv, StartClientInv, FetchSegmentsInv, StutterInv DEF Next
<1> QED
  BY <1>1, RunInit, PTL DEF Spec

\* The variables have their types whatever the trajectories: a client reads its
\* trajectory at its points or one past the last (trajectory.go:28).
THEOREM RunTypeCorrect == Spec => []TypeOK
<1>1. RunInv => TypeOK
  BY DEF RunInv
<1> QED
  BY <1>1, RunInvariance, PTL

\* The byte counts of the log (client.go:347, 378, 452) add up to the buffer's.
THEOREM BytesAlwaysAccounted == Spec => []BytesAccounted
<1>1. RunInv => BytesAccounted
  BY DEF RunInv, GoodClients, Good, BytesAccounted
<1> QED
  BY <1>1, RunInvariance, PTL

\* A segment counted as downloaded (client.go:440) is in the buffer.
THEOREM CompletedAlwaysBuffered == Spec => []CompletedIsBuffered
<1>1. RunInv => CompletedIsBuffered
  BY DEF RunInv, GoodClients, Good, CompletedIsBuffered
<1> QED
  BY <1>1, RunInvariance, PTL

\* A client the runner is finished with has collected its contacts, however its
\* trajectory and its video end (client.go:387).
THEOREM DoneAlwaysDisconnected == Spec => []DoneIsDisconnected
<1>1. RunInv => DoneIsDisconnected
  BY DEF RunInv
<1> QED
  BY <1>1, RunInvariance, PTL

\* The runner's time, where it is one, is every edge node's (clock.py:92).
THEOREM EdgesAlwaysInStep == Spec => []EdgesInStep
<1>1. RunInv => EdgesInStep
  BY DEF RunInv
<1> QED
  BY <1>1, RunInvariance, PTL

-----------------------------------------------------------------------------
(* No stalls outside contacts.  The call that lets time pass without a     *)
(* contact fetches one segment more than what is played.                   *)

\* The loop that fetches from the cloud stops one segment ahead of what is played, or
\* at the end of the video.
LEMMA CloudKeepsAhead ==
    ASSUME NEW k, Good(k)
    PROVE  LET f == FetchFromCloud(k)
           IN  /\ Good(f) /\ f.contact = k.contact /\ f.playback = k.playback
               /\ f.completed >= k.playback + 1 \/ f.completed = VideoLength
<1> DEFINE upTo == Min({VideoLength, Max({k.completed, k.playback + 1})})
           f == FetchFromCloud(k)
<1>1. k \in Client /\ k.completed \in 0..VideoLength /\ k.playback \in Nat /\ VideoLength \in Nat
  BY RunAssumption DEF Good, Client, RunAssumption
<1>2. upTo >= k.playback + 1 \/ upTo = VideoLength
  BY <1>1, MaxOfTwo, MinOfTwo
<1>3. f.completed = upTo /\ f.playback = k.playback
  BY <1>1 DEF FetchFromCloud, Client
<1> QED
  BY <1>2, <1>3, CloudFetchGood

\* A client whose call leaves it in no contact has been served by the cloud: it has
\* what it plays next, or all there is.
LEMMA CallEffect ==
    ASSUME RunInv, NEW c \in running, client[c].at < Len(Trajectory[c]), TimeMoved(c),
           FetchSegments(c), client'[c].contact = None
    PROVE  client'[c].playback <= client'[c].completed \/ client'[c].completed = VideoLength
<1>1. /\ c \in Clients /\ timestamp \in Nat /\ Here(c) \in Point
      /\ client[c].lastBw \in Nat /\ timestamp - client[c].lastContact \in Int
      /\ client \in [Clients -> Client]
  <2>1. c \in Clients /\ Good(client[c]) /\ timestamp \in Nat /\ Here(c) \in Point
    BY RunningFacts
  <2>2. client[c] \in Client
    BY <2>1 DEF Good
  <2>3. client[c].lastBw \in Nat /\ client[c].lastContact \in Int
    BY <2>2 DEF Client
  <2>4. client \in [Clients -> Client]
    BY DEF RunInv, TypeOK
  <2> QED
    BY <2>1, <2>3, <2>4
<1>2. Good(Moved(c))
  BY MovedGood
<1>3. ASSUME NEW k, Good(k), InRange(c), client' = [client EXCEPT ![c] = Played(c, k)],
             k.contact = Here(c).node
      PROVE  FALSE
  <2>1. client'[c].contact = Here(c).node
    BY <1>1, <1>3, PlayedGood
  <2> QED
    BY <1>3, <2>1 DEF InRange
<1>4. CASE FinishTrip(c)
  BY <1>1, <1>4 DEF FinishTrip
<1>5. CASE OutOfRange(c)
  <2> DEFINE bits == Carried(client[c], client[c].lastBw, timestamp - client[c].lastContact)
             m == [Moved(c) EXCEPT !.available = bits]
  <2>1. PICK k \in IF client[c].contact = None THEN {Moved(c)}
                   ELSE MakeEdgeRequest(m, bits \div 8) :
            client' = [client EXCEPT ![c] = Played(c, FetchFromCloud(k))]
    BY <1>5 DEF OutOfRange
  <2>2. bits \in Nat
    <3>1. client[c] \in Client
      BY <1>1
    <3> QED
      BY <1>1, <3>1, CarriedType
  <2> HIDE DEF bits
  <2>3. Good(m)
    BY <1>2, <2>2 DEF Good, Client
  <2> HIDE DEF m
  <2>4. Good(k)
    BY <1>2, <2>1, <2>3, EdgeRequestGood
  <2> DEFINE f == FetchFromCloud(k)
             r == Played(c, f)
  <2>5. /\ Good(f) /\ f.playback = k.playback
        /\ f.completed >= k.playback + 1 \/ f.completed = VideoLength
    BY <2>4, CloudKeepsAhead
  <2>6. client'[c] = r
    BY <1>1, <2>1
  <2> HIDE DEF f
  <2>7. f.playback \in Nat /\ f.completed \in Nat /\ f \in Client
    BY <2>5, RunAssumption DEF Good, Client, RunAssumption
  <2>8. r.completed = f.completed /\ r.playback \in {f.playback, f.playback + 1}
    BY <2>7 DEF Played, Client
  <2> HIDE DEF r
  <2> QED
    BY <2>5, <2>6, <2>7, <2>8
<1>6. CASE NewContact(c)
  <2> DEFINE k == Contact(c, Moved(c))
  <2>1. Good(k) /\ k.contact = Here(c).node
    <3>1. Moved(c) \in Client
      BY <1>2 DEF Good
    <3> QED
      BY <1>1, <1>2, <3>1, ContactGood DEF Contact, Client
  <2>2. InRange(c) /\ client' = [client EXCEPT ![c] = Played(c, k)]
    BY <1>6 DEF NewContact
  <2> HIDE DEF k
  <2> QED
    BY <1>3, <2>1, <2>2
<1>7. CASE ChangeContact(c)
  <2> DEFINE bits == Carried(client[c], Here(c).bw, timestamp - client[c].lastContact)
  <2>1. PICK j \in MakeEdgeRequest(Moved(c), bits \div 8) :
            client' = [client EXCEPT ![c] = Played(c, Contact(c, j))]
    BY <1>7 DEF ChangeContact
  <2> HIDE DEF bits
  <2>2. Good(j)
    BY <1>2, <2>1, EdgeRequestGood
  <2> DEFINE k == Contact(c, j)
  <2>3. Good(k) /\ k.contact = Here(c).node
    <3>1. j \in Client
      BY <2>2 DEF Good
    <3> QED
      BY <1>1, <2>2, <3>1, ContactGood DEF Contact, Client
  <2>4. InRange(c) /\ client' = [client EXCEPT ![c] = Played(c, k)]
    BY <1>7, <2>1 DEF ChangeContact
  <2> HIDE DEF k
  <2> QED
    BY <1>3, <2>3, <2>4
<1>8. CASE KeepContact(c)
  <2> DEFINE bits == Carried(client[c], Here(c).bw, timestamp - client[c].lastContact)
             k == [Moved(c) EXCEPT !.available = bits, !.lastContact = timestamp,
                                   !.lastBw = Here(c).bw]
  <2>1. Here(c).bw \in Nat
    BY <1>1 DEF Point
  <2>2. bits \in Nat
    <3>1. client[c] \in Client
      BY <1>1
    <3> QED
      BY <1>1, <2>1, <3>1, CarriedType
  <2>3. InRange(c) /\ client' = [client EXCEPT ![c] = Played(c, k)]
    BY <1>8 DEF KeepContact
  <2> HIDE DEF bits
  <2>4. Good(k) /\ k.contact = client[c].contact
    BY <1>1, <1>2, <2>1, <2>2, MovedGood DEF Good, Client
  <2>5. k.contact = Here(c).node
    BY <1>8, <2>4 DEF KeepContact
  <2> HIDE DEF k
  <2> QED
    BY <1>3, <2>3, <2>4, <2>5
<1> QED
  BY <1>4, <1>5, <1>6, <1>7, <1>8 DEF FetchSegments

\* Every step keeps the clients that are out of contact ahead of what they play.
LEMMA NoStallStep ==
    ASSUME RunInv, RunInv', NoStallOutsideContacts, [Next]_vars
    PROVE  NoStallOutsideContacts'
<1>1. CASE client' = client /\ (running \subseteq running' \/ running = {})
  BY <1>1 DEF NoStallOutsideContacts, HasEnded
<1>2. ASSUME NEW c \in Clients, Register(c)
      PROVE  NoStallOutsideContacts'
  <2>1. CASE client' = client
    BY <1>2, <2>1 DEF Register, NoStallOutsideContacts, HasEnded
  <2>2. CASE client' = [client EXCEPT ![c].registered = TRUE]
    <3>1. \A d \in Clients :
            /\ client'[d].contact = client[d].contact /\ client'[d].at = client[d].at
            /\ client'[d].playback = client[d].playback
            /\ client'[d].completed = client[d].completed
      <4>1. client \in [Clients -> Client]
        BY DEF RunInv, TypeOK
      <4>2. client[c] \in Client /\ client'[c] = [client[c] EXCEPT !.registered = TRUE]
        BY <2>2, <4>1
      <4>3. \A d \in Clients \ {c} : client'[d] = client[d]
        BY <2>2, <4>1
      <4>4. /\ client'[c].contact = client[c].contact /\ client'[c].at = client[c].at
            /\ client'[c].playback = client[c].playback
            /\ client'[c].completed = client[c].completed
        BY <4>2 DEF Client
      <4> QED
        BY <4>3, <4>4
    <3>2. running' = running
      BY <1>2 DEF Register
    <3> QED
      BY <3>1, <3>2 DEF NoStallOutsideContacts, HasEnded
  <2> QED
    BY <1>2, <2>1, <2>2 DEF Register
<1>3. ASSUME NEW c \in Clients, FetchSegments(c)
      PROVE  NoStallOutsideContacts'
  <2> SUFFICES ASSUME NEW d \in Clients \ running', client'[d].contact = None, ~HasEnded(d)'
               PROVE  client'[d].playback <= client'[d].completed
                      \/ client'[d].completed = VideoLength
    BY DEF NoStallOutsideContacts
  <2>1. PICK r : Called(c, r)
    BY <1>3, CallInv DEF FetchSegments
  <2>2. /\ client'[c] = r /\ r.at = client[c].at + 1
        /\ \A e \in Clients \ {c} : client'[e] = client[e]
    BY <2>1 DEF Called, RunInv, TypeOK
  <2>3. CASE d = c
    <3>1. client[c].at = Len(Trajectory[c]) \/ TimeMoved(c)
      BY <1>3, <2>3 DEF FetchSegments
    <3>2. client[c].at \in 1..Len(Trajectory[c]) /\ Len(Trajectory[c]) \in Nat
      <4>1. client[c].at \in 1..Len(Trajectory[c])
        BY <1>3, RunningFacts DEF FetchSegments
      <4> QED
        BY <4>1, RunAssumption DEF RunAssumption
    <3>3. client[c].at # Len(Trajectory[c])
      BY <2>2, <2>3, <3>2 DEF HasEnded
    <3> QED
      BY <1>3, <2>3, <3>1, <3>2, <3>3, CallEffect DEF FetchSegments
  <2>4. CASE d # c
    <3>1. d \notin running /\ client'[d] = client[d]
      BY <1>3, <2>2, <2>4 DEF FetchSegments
    <3> QED
      BY <3>1 DEF NoStallOutsideContacts, HasEnded
  <2> QED
    BY <2>3, <2>4
<1> QED
  BY <1>1, <1>2, <1>3
  DEF Next, Advance, AdvanceFails, AdvanceReturns, EndTick, AdvanceEdge, StartClient, vars

\* Out of contact a client has what it has played, and has caught up with what it
\* missed during contacts (client.go:438), whatever the nodes served.
THEOREM NoStalls == Spec => []NoStallOutsideContacts
<1>1. Init => NoStallOutsideContacts
  BY DEF Init, NewClient, NoStallOutsideContacts
<1> QED
  BY <1>1, RunInvariance, NoStallStep, PTL DEF Spec
=============================================================================
