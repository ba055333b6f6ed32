------------------------- MODULE ClientSimulationProofs -------------------------
(***************************************************************************)
(* Proofs about the Python simulation, for any number of clients, any        *)
(* trajectories, videos, radio models and sizes, and any contents the edge   *)
(* nodes may list.                                                          *)
(*                                                                         *)
(* Two invariants are needed that no run names: every call keeps a client's  *)
(* books (Good), and before a client's turn its next point may be of the     *)
(* present second while after it that point lies ahead (OnTime).             *)
(***************************************************************************)
EXTENDS ClientSimulation, SequenceTheorems, TLAPS

\* A client in order: what it played and buffered is of its video, a contact has a
\* distance that counts, and its bytes are those of its buffer.
Good(k) ==
    /\ k \in Client
    /\ k.playback <= NumUrls(k) /\ k.buffer <= NumUrls(k)
    /\ k.node # None => k.dist \in Dists
    /\ k.fromEdge + k.fromCloud = TotalSize[k.bufferSet]

\* What the calls leave alone.
Same(r, k) == r.idx = k.idx /\ r.video = k.video /\ r.complete = k.complete

\* A client whose trip goes on has no point behind it, and none of the present
\* second either once its turn is over.
OnTime(c) ==
    /\ turn # c => ~AtEnd(c)
    /\ ~AtEnd(c) => Here(c).time >= curTime
    /\ turn \notin 1..c => Here(c).time > curTime

LoopInv ==
    /\ status = "running" => curTime < EndOfTime
    /\ \A c \in Clients : Drivable(c) /\ ~client[c].complete => OnTime(c)

SimulationInv == TypeOK /\ BytesAccounted /\ LoopInv

-----------------------------------------------------------------------------
(* The data: sizes, videos, speeds and trajectories.                       *)

\* Adding to a set what it lacks adds the bytes of that.
LEMMA SizeOfUnion ==
    ASSUME NEW S \in SUBSET Segments, NEW T \in SUBSET Segments
    PROVE  /\ TotalSize[S \cup T] = TotalSize[S] + TotalSize[T \ S]
           /\ TotalSize[S] \in Nat /\ TotalSize[T \ S] \in Nat
<1>1. S \cup T = S \cup (T \ S) /\ S \cap (T \ S) = {} /\ T \ S \in SUBSET Segments
  OBVIOUS
<1> QED
  BY <1>1, ClientSizeAssumption DEF ClientSizeAssumption

\* A client's video has so many segments, none as long as it has no video.
LEMMA VideoType ==
    ASSUME NEW k \in Client
    PROVE  /\ NumUrls(k) \in Nat
           /\ \A i \in 1..NumUrls(k) : Urls[k.video][i] \in Segments
<1>1. k.video \in Videos \cup {NoVideo}
  BY DEF Client
<1>2. CASE k.video = NoVideo
  BY <1>2 DEF NumUrls
<1>3. CASE k.video # NoVideo
  <2>1. Urls[k.video] \in Seq(Segments)
    BY <1>1, <1>3, ClientAssumption DEF ClientAssumption
  <2>2. Len(Urls[k.video]) \in Nat
        /\ \A i \in 1..Len(Urls[k.video]) : Urls[k.video][i] \in Segments
    BY <2>1, ElementOfSeq, LenProperties
  <2> QED
    BY <1>3, <2>2 DEF NumUrls
<1> QED
  BY <1>2, <1>3

\* The radio models give naturals.
LEMMA SpeedType ==
    ASSUME NEW n \in Nodes, NEW d \in Dists
    PROVE  Speed[n][d] \in Nat
  BY ClientAssumption DEF ClientAssumption

\* A trajectory is a list of points, the first of which exists.
LEMMA TrajectoryType ==
    ASSUME NEW c \in Clients
    PROVE  /\ Len(Trajectory[c]) \in Nat \ {0}
           /\ DOMAIN Trajectory[c] = 1..Len(Trajectory[c])
           /\ \A i \in 1..Len(Trajectory[c]) :
                 /\ Trajectory[c][i] \in Point /\ Trajectory[c][i].time \in Nat
                 /\ Trajectory[c][i].dist \in Dists /\ Trajectory[c][i].dist \in Nat
                 /\ Trajectory[c][i].node \in Nodes \cup {None}
<1>1. Trajectory[c] \in Seq(Point) /\ Trajectory[c] # <<>>
  BY ClientAssumption DEF ClientAssumption
<1> DEFINE t == Trajectory[c]
<1>2. Len(t) \in Nat /\ Len(t) # 0 /\ DOMAIN t = 1..Len(t) /\ \A i \in 1..Len(t) : t[i] \in Point
  <2> HIDE DEF t
  <2> SUFFICES ASSUME t \in Seq(Point), t # <<>>
               PROVE  /\ Len(t) \in Nat /\ Len(t) # 0 /\ DOMAIN t = 1..Len(t)
                      /\ \A i \in 1..Len(t) : t[i] \in Point
    BY <1>1 DEF t
  <2> QED
    BY ElementOfSeq, LenProperties, EmptySeq
<1>3. \A i \in 1..Len(t) : t[i].dist \in Nat
  BY <1>2, ClientAssumption DEF ClientAssumption, Point
<1> QED
  BY <1>2, <1>3 DEF Point

-----------------------------------------------------------------------------
(* What a client gets at a point keeps its books.                          *)

\* So does asking the edge node at the end of a contact.
LEMMA EdgeActionsGood ==
    ASSUME NEW k, Good(k), k.node # None, NEW r \in CompleteEdgeActions(k)
    PROVE  Good(r) /\ Same(r, k)
<1> DEFINE bits == k.bits + Speed[k.node][k.dist]
<1>1. PICK got \in SUBSET (Segments \ k.bufferSet) :
          r = [k EXCEPT !.bits = bits, !.bufferSet = @ \cup got, !.fromEdge = @ + TotalSize[got]]
  BY DEF CompleteEdgeActions
<1>2. k \in Client /\ k.bits \in Int /\ k.node \in Nodes /\ k.dist \in Dists
      /\ k.bufferSet \in SUBSET Segments /\ k.fromEdge \in Nat /\ k.fromCloud \in Nat
  BY DEF Good, Client
<1>3. bits \in Int
  BY <1>2, SpeedType
<1> HIDE DEF bits
<1>4. got \ k.bufferSet = got /\ got \in SUBSET Segments
  BY <1>1
<1>5. /\ TotalSize[k.bufferSet \cup got] = TotalSize[k.bufferSet] + TotalSize[got]
      /\ TotalSize[k.bufferSet] \in Nat /\ TotalSize[got] \in Nat
  BY <1>2, <1>4, SizeOfUnion
<1> DEFINE held == k.bufferSet \cup got
           fromEdge == k.fromEdge + TotalSize[got]
<1>6. held \in SUBSET Segments /\ fromEdge \in Nat
  BY <1>2, <1>4, <1>5
<1>7. r = [k EXCEPT !.bits = bits, !.bufferSet = held, !.fromEdge = fromEdge]
  BY <1>1, <1>2 DEF Client
<1>8. fromEdge + k.fromCloud = TotalSize[held]
  BY <1>2, <1>5 DEF Good
<1> HIDE DEF held, fromEdge
<1>9. r \in Client
  BY <1>2, <1>3, <1>6, <1>7 DEF Client
<1>10. /\ r.video = k.video /\ r.idx = k.idx /\ r.complete = k.complete
       /\ r.playback = k.playback /\ r.buffer = k.buffer /\ r.node = k.node /\ r.dist = k.dist
       /\ r.bufferSet = held /\ r.fromEdge = fromEdge /\ r.fromCloud = k.fromCloud
  BY <1>2, <1>7 DEF Client
<1> QED
  BY <1>8, <1>9, <1>10 DEF Good, Same, NumUrls

\* And the loop that fetches what is due from the cloud.
LEMMA FillGood ==
    ASSUME NEW k, Good(k)
    PROVE  Good(FillFromCloud(k)) /\ Same(FillFromCloud(k), k)
<1> DEFINE r == FillFromCloud(k)
           upTo == FilledUpTo(k)
           due == Due(k)
<1>1. k \in Client /\ k.playback \in Nat /\ k.buffer \in Nat /\ k.buffer <= NumUrls(k)
      /\ k.bufferSet \in SUBSET Segments /\ k.fromEdge \in Nat /\ k.fromCloud \in Nat
  BY DEF Good, Client
<1>2. NumUrls(k) \in Nat /\ \A i \in 1..NumUrls(k) : Urls[k.video][i] \in Segments
  BY <1>1, VideoType
<1>3. upTo \in Nat /\ upTo <= NumUrls(k)
  BY <1>1, <1>2, ClientAssumption DEF ClientAssumption, FilledUpTo
<1> HIDE DEF upTo
<1>4. due \in SUBSET Segments
  BY <1>1, <1>2, <1>3 DEF Due, upTo
<1> DEFINE held == k.bufferSet \cup due
           fromCloud == k.fromCloud + TotalSize[due \ k.bufferSet]
<1>5. r = [k EXCEPT !.buffer = upTo, !.bufferSet = held, !.fromCloud = fromCloud]
  BY <1>1 DEF FillFromCloud, upTo, Client
<1> HIDE DEF due, r
<1>6. /\ TotalSize[held] = TotalSize[k.bufferSet] + TotalSize[due \ k.bufferSet]
      /\ TotalSize[k.bufferSet] \in Nat /\ TotalSize[due \ k.bufferSet] \in Nat
  BY <1>1, <1>4, SizeOfUnion
<1>7. held \in SUBSET Segments /\ fromCloud \in Nat /\ k.fromEdge + fromCloud = TotalSize[held]
  BY <1>1, <1>4, <1>6 DEF Good
<1> HIDE DEF held, fromCloud
<1>8. r \in Client
  BY <1>1, <1>3, <1>5, <1>7 DEF Client
<1>9. /\ r.video = k.video /\ r.idx = k.idx /\ r.complete = k.complete
      /\ r.playback = k.playback /\ r.buffer = upTo /\ r.node = k.node /\ r.dist = k.dist
      /\ r.bufferSet = held /\ r.fromEdge = k.fromEdge /\ r.fromCloud = fromCloud
  BY <1>1, <1>5 DEF Client
<1>10. Good(r) /\ Same(r, k)
  BY <1>3, <1>7, <1>8, <1>9 DEF Good, Same, NumUrls
<1> QED
  BY <1>10 DEF r

\* Being in another contact, or in none, does not touch the books.
LEMMA ContactGood ==
    ASSUME NEW k, Good(k), NEW n \in Nodes \cup {None}, NEW d \in Dists \cup {0},
           n # None => d \in Dists, NEW s \in Nat, NEW b \in Int, NEW m \in Int,
           NEW r, r = [k EXCEPT !.node = n, !.dist = d, !.since = s, !.bits = b, !.maxEdge = m]
    PROVE  Good(r) /\ Same(r, k)
<1>1. k \in Client
  BY DEF Good
<1>2. r \in Client
  BY <1>1 DEF Client
<1>3. /\ r.video = k.video /\ r.idx = k.idx /\ r.complete = k.complete
      /\ r.playback = k.playback /\ r.buffer = k.buffer /\ r.node = n /\ r.dist = d
      /\ r.bufferSet = k.bufferSet /\ r.fromEdge = k.fromEdge /\ r.fromCloud = k.fromCloud
  BY <1>1 DEF Client
<1> QED
  BY <1>2, <1>3 DEF Good, Same, NumUrls

\* Whatever a client finds at a point, its books are kept.
LEMMA PointGood ==
    ASSUME NEW k, Good(k), NEW p \in Point, p.time \in Nat, p.dist \in Dists, p.dist \in Nat,
           p.node \in Nodes \cup {None},
           NEW r \in OutOfRange(k, p) \cup NewContact(k, p)
                     \cup ChangeContact(k, p) \cup KeepContact(k, p)
    PROVE  Good(r) /\ Same(r, k)
<1>1. \A j : Good(j) => /\ j \in Client /\ j.dist \in Dists \cup {0} /\ j.since \in Nat
                        /\ j.bits \in Int /\ j.maxEdge \in Int /\ j.node \in Nodes \cup {None}
  BY DEF Good, Client
<1>2. CASE r \in OutOfRange(k, p)
  <2>1. CASE k.node = None
    BY <1>2, <2>1, FillGood DEF OutOfRange
  <2>2. CASE k.node # None
    <3>1. PICK j \in CompleteEdgeActions(k) : r = FillFromCloud([j EXCEPT !.node = None])
      BY <1>2, <2>2 DEF OutOfRange
    <3>2. Good(j) /\ Same(j, k)
      BY <2>2, EdgeActionsGood
    <3> DEFINE left == [j EXCEPT !.node = None]
    <3>3. left = [j EXCEPT !.node = None, !.dist = j.dist, !.since = j.since,
                           !.bits = j.bits, !.maxEdge = j.maxEdge]
      BY <1>1, <3>2 DEF Client
    <3>4. /\ j.dist \in Dists \cup {0} /\ j.since \in Nat /\ j.bits \in Int /\ j.maxEdge \in Int
      BY <1>1, <3>2
    <3>5. r = FillFromCloud(left)
      BY <3>1
    <3> HIDE DEF left
    <3>6. Good(left) /\ Same(left, j)
      BY <3>2, <3>3, <3>4, ContactGood
    <3>7. Good(r) /\ Same(r, left)
      BY <3>5, <3>6, FillGood
    <3> QED
      BY <3>2, <3>6, <3>7 DEF Same
  <2> QED
    BY <2>1, <2>2
<1>3. CASE r \in NewContact(k, p)
  <2> DEFINE n == p.node
             d == p.dist
             s == p.time
             m == k.maxEdge
             zero == 0
  <2>1. r = [k EXCEPT !.node = n, !.dist = d, !.since = s, !.bits = 0]
    BY <1>3 DEF NewContact
  <2>2. n \in Nodes \cup {None} /\ d \in Dists /\ s \in Nat /\ m \in Int /\ zero \in Int
    BY <1>1
  <2>3. r = [k EXCEPT !.node = n, !.dist = d, !.since = s, !.bits = zero, !.maxEdge = m]
    BY <1>1, <2>1 DEF Client
  <2> HIDE DEF n, d, s, m, zero
  <2> QED
    BY <2>2, <2>3, ContactGood
<1>4. CASE r \in ChangeContact(k, p)
  <2>1. PICK j \in CompleteEdgeActions(k) :
            r = [j EXCEPT !.node = p.node, !.dist = p.dist, !.since = p.dist, !.bits = 0]
    BY <1>4 DEF ChangeContact
  <2>2. Good(j) /\ Same(j, k)
    BY <1>4, EdgeActionsGood DEF ChangeContact
  <2> DEFINE n == p.node
             d == p.dist
             m == j.maxEdge
             zero == 0
  <2>3. n \in Nodes \cup {None} /\ d \in Dists /\ d \in Nat /\ m \in Int /\ zero \in Int
    BY <1>1, <2>2
  <2>4. r = [j EXCEPT !.node = n, !.dist = d, !.since = d, !.bits = zero, !.maxEdge = m]
    BY <1>1, <2>1, <2>2 DEF Client
  <2> HIDE DEF n, d, m, zero
  <2>5. Good(r) /\ Same(r, j)
    BY <2>2, <2>3, <2>4, ContactGood
  <2> QED
    BY <2>2, <2>5 DEF Same
<1>5. CASE r \in KeepContact(k, p)
  <2>1. k.node = p.node /\ p.node \in Nodes
    BY <1>5 DEF KeepContact
  <2>2. CASE p.dist = k.dist
    BY <1>5, <2>1, <2>2 DEF KeepContact, Same
  <2>3. CASE p.dist # k.dist
    <3> DEFINE bits == Speed[k.node][k.dist] * (IF p.time = k.since THEN 1 ELSE p.time - k.since)
    <3>1. r = [Accumulated(k, p.time) EXCEPT !.dist = p.dist, !.since = p.time]
      BY <1>5, <2>1, <2>3 DEF KeepContact
    <3>2. Accumulated(k, p.time) = [k EXCEPT !.bits = @ + bits, !.maxEdge = @ + bits]
      BY DEF Accumulated
    <3>3. bits \in Int
      <4>1. k.node # None
        BY <2>1, ClientAssumption DEF ClientAssumption
      <4>2. k.node \in Nodes /\ k.dist \in Dists
        BY <2>1, <4>1 DEF Good
      <4>3. Speed[k.node][k.dist] \in Int
        BY <4>2, SpeedType
      <4>4. (IF p.time = k.since THEN 1 ELSE p.time - k.since) \in Int
        BY <1>1
      <4> DEFINE a == Speed[k.node][k.dist]
                 b == IF p.time = k.since THEN 1 ELSE p.time - k.since
      <4>5. a \in Int /\ b \in Int
        BY <4>3, <4>4
      <4> HIDE DEF a, b
      <4>6. a * b \in Int
        BY <4>5
      <4> QED
        BY <4>6 DEF a, b
    <3> HIDE DEF bits
    <3> DEFINE carried == k.bits + bits
               most == k.maxEdge + bits
    <3>4. carried \in Int /\ most \in Int
      BY <1>1, <3>3
    <3>5. r = [k EXCEPT !.node = p.node, !.dist = p.dist, !.since = p.time,
                        !.bits = carried, !.maxEdge = most]
      BY <1>1, <2>1, <3>1, <3>2 DEF Client
    <3> HIDE DEF carried, most
    <3> QED
      BY <3>4, <3>5, ContactGood
  <2> QED
    BY <2>2, <2>3
<1> QED
  BY <1>2, <1>3, <1>4, <1>5

-----------------------------------------------------------------------------
(* The steps.                                                              *)

\* What TypeOK and BytesAccounted say of each client.
LEMMA EachGood ==
    TypeOK /\ BytesAccounted
        <=> /\ curTime \in 0..EndOfTime /\ turn \in 0..NumClients + 1
            /\ status \in {"running", "saved", "clockEnded", "crashed"}
            /\ client \in [Clients -> Client]
            /\ \A c \in Clients : Good(client[c]) /\ client[c].idx <= Len(Trajectory[c]) + 1
  BY DEF TypeOK, BytesAccounted, Good

\* A client's step touches no other's state: it is enough that the client stays in
\* order and on its trajectory.
LEMMA ClientStep ==
    ASSUME TypeOK, BytesAccounted, NEW c \in Clients, NEW r, Good(r),
           r.idx <= Len(Trajectory[c]) + 1, client' = [client EXCEPT ![c] = r],
           UNCHANGED <<curTime, status>>, turn' \in 0..NumClients + 1
    PROVE  (TypeOK /\ BytesAccounted)'
<1>1. /\ curTime' \in 0..EndOfTime
      /\ status' \in {"running", "saved", "clockEnded", "crashed"}
      /\ client \in [Clients -> Client]
      /\ \A d \in Clients : Good(client[d]) /\ client[d].idx <= Len(Trajectory[d]) + 1
  BY DEF TypeOK, BytesAccounted, Good
<1>2. r \in Client
  BY DEF Good
<1>3. client' \in [Clients -> Client]
  BY <1>1, <1>2
<1>4. \A d \in Clients : client'[d] = IF d = c THEN r ELSE client[d]
  BY <1>1
<1>5. \A d \in Clients : Good(client'[d]) /\ client'[d].idx <= Len(Trajectory[d]) + 1
  BY <1>1, <1>4
<1> QED
  BY <1>1, <1>3, <1>5 DEF TypeOK, BytesAccounted, Good, NumUrls

\* What is known of a client that moves.
LEMMA MovingFacts ==
    ASSUME SimulationInv, NEW c \in Clients
    PROVE  /\ Good(client[c]) /\ client[c] \in Client
           /\ client \in [Clients -> Client]
           /\ c \in Nat \ {0} /\ c <= NumClients /\ NumClients \in Nat
           /\ client[c].idx \in 1..Len(Trajectory[c]) + 1
           /\ Len(Trajectory[c]) \in Nat \ {0}
           /\ ~AtEnd(c) => /\ client[c].idx \in 1..Len(Trajectory[c])
                           /\ Here(c) \in Point /\ Here(c).time \in Nat
                           /\ Here(c).dist \in Dists /\ Here(c).dist \in Nat
                           /\ Here(c).node \in Nodes \cup {None}
<1>1. Good(client[c]) /\ client[c].idx <= Len(Trajectory[c]) + 1 /\ client \in [Clients -> Client]
  BY EachGood DEF SimulationInv
<1>2. client[c].idx \in Nat \ {0} /\ client[c] \in Client
  BY <1>1 DEF Good, Client
<1>3. NumClients \in Nat
  BY ClientAssumption DEF ClientAssumption
<1>4. c \in Nat \ {0} /\ c <= NumClients
  BY <1>3 DEF Clients
<1>5. Len(Trajectory[c]) \in Nat \ {0}
  BY TrajectoryType
<1>6. client[c].idx \in 1..Len(Trajectory[c]) + 1
  BY <1>1, <1>2, <1>5
<1>7. ~AtEnd(c) => client[c].idx \in 1..Len(Trajectory[c])
  BY <1>2, <1>5 DEF AtEnd
<1> QED
  BY <1>1, <1>2, <1>3, <1>4, <1>5, <1>6, <1>7, TrajectoryType DEF Here

\* At the start every client is new and before its first point.
LEMMA InitInv == Init => SimulationInv
<1> SUFFICES ASSUME Init PROVE SimulationInv
  OBVIOUS
<1>1. EndOfTime \in Nat \ {0} /\ NumClients \in Nat /\ NoVideo \notin Videos /\ TotalSize[{}] = 0
  BY ClientAssumption, ClientSizeAssumption DEF ClientAssumption, ClientSizeAssumption
<1>2. NewClient \in Client
  BY DEF NewClient, Client
<1>3. /\ NumUrls(NewClient) = 0 /\ NewClient.playback = 0 /\ NewClient.buffer = 0
      /\ NewClient.node = None /\ NewClient.fromEdge = 0 /\ NewClient.fromCloud = 0
      /\ NewClient.bufferSet = {} /\ NewClient.idx = 1
  BY DEF NewClient, NumUrls
<1>4. Good(NewClient)
  BY <1>1, <1>2, <1>3 DEF Good
<1>5. curTime = 0 /\ turn = 0 /\ status \in {"running", "crashed"} /\ client = [c \in Clients |-> NewClient]
  BY DEF Init, SimulationInit
<1>6. TypeOK /\ BytesAccounted
  <2>1. curTime \in 0..EndOfTime /\ turn \in 0..NumClients + 1
    BY <1>1, <1>5
  <2>2. client \in [Clients -> Client]
    BY <1>2, <1>5
  <2>3. \A c \in Clients : Good(client[c]) /\ client[c].idx <= Len(Trajectory[c]) + 1
    BY <1>3, <1>4, <1>5, TrajectoryType
  <2> QED
    BY <1>5, <2>1, <2>2, <2>3, EachGood
<1>7. ASSUME NEW c \in Clients, Drivable(c)
      PROVE  OnTime(c)
  <2>1. client[c].idx = 1
    BY <1>3, <1>5
  <2>2. ~AtEnd(c) /\ Here(c).time > curTime /\ Here(c).time \in Nat
    BY <1>5, <1>7, <2>1, TrajectoryType DEF Drivable, StartTime, AtEnd, Here
  <2> QED
    BY <1>5, <2>2 DEF OnTime
<1> QED
  BY <1>1, <1>5, <1>6, <1>7 DEF SimulationInv, LoopInv


\* The clock moves on: every client gets its turn again.
LEMMA AdvanceInv ==
    ASSUME SimulationInv, Advance
    PROVE  SimulationInv'
<1>1. EndOfTime \in Nat /\ NumClients \in Nat /\ curTime \in Nat /\ curTime < EndOfTime
  BY ClientAssumption DEF ClientAssumption, Advance, SimulationInv, TypeOK, LoopInv
<1>2. /\ curTime' = curTime + 1 /\ turn' = 1 /\ turn = 0 /\ client' = client
      /\ status' = IF curTime' = EndOfTime THEN "clockEnded" ELSE "running"
  BY DEF Advance
<1>3. (TypeOK /\ BytesAccounted)'
  <2>1. curTime' \in 0..EndOfTime /\ turn' \in 0..NumClients + 1
    BY <1>1, <1>2
  <2> QED
    BY <1>2, <2>1 DEF SimulationInv, TypeOK, BytesAccounted
<1>4. status' = "running" => curTime' < EndOfTime'
  BY <1>1, <1>2
<1>5. ASSUME NEW c \in Clients, Drivable(c), ~client[c].complete
      PROVE  OnTime(c)'
  <2>1. OnTime(c) /\ c \in Nat \ {0}
    BY <1>5, MovingFacts DEF SimulationInv, LoopInv
  <2>2. ~AtEnd(c) /\ Here(c).time > curTime
    BY <1>2, <2>1 DEF OnTime
  <2>3. Here(c).time \in Nat
    BY <2>2, MovingFacts
  <2>4. Here(c).time >= curTime + 1 /\ 1 \in 1..c
    BY <1>1, <2>1, <2>2, <2>3
  <2>5. AtEnd(c)' = AtEnd(c) /\ Here(c)' = Here(c)
    BY <1>2 DEF AtEnd, Here
  <2> QED
    BY <1>2, <2>2, <2>4, <2>5 DEF OnTime
<1>6. \A c \in Clients : Drivable(c)' = Drivable(c)
  BY DEF Drivable, StartTime
<1> QED
  BY <1>2, <1>3, <1>4, <1>5, <1>6 DEF SimulationInv, LoopInv

\* The check for the end, or a call that fails, leaves the clients alone.
LEMMA EndOrFailInv ==
    ASSUME SimulationInv, CheckEnd \/ CallFails
    PROVE  SimulationInv'
<1>1. NumClients \in Nat
  BY ClientAssumption DEF ClientAssumption
<1>2. /\ curTime' = curTime /\ client' = client /\ status = "running"
      /\ \/ turn = NumClients + 1 /\ turn' = 0 /\ status' \in {"running", "saved"}
         \/ turn' = turn /\ status' = "crashed"
  BY DEF CheckEnd, CallFails
<1>3. (TypeOK /\ BytesAccounted)'
  BY <1>1, <1>2 DEF SimulationInv, TypeOK, BytesAccounted
<1>4. ASSUME NEW c \in Clients, Drivable(c), ~client[c].complete
      PROVE  OnTime(c)'
  <2>1. OnTime(c) /\ c \in Nat \ {0} /\ c <= NumClients
    BY <1>4, MovingFacts DEF SimulationInv, LoopInv
  <2>2. AtEnd(c)' = AtEnd(c) /\ Here(c)' = Here(c)
    BY <1>2 DEF AtEnd, Here
  <2>3. CASE turn' = turn
    BY <1>2, <2>1, <2>2, <2>3 DEF OnTime
  <2>4. CASE turn = NumClients + 1 /\ turn' = 0
    <3>1. turn # c /\ turn \notin 1..c
      BY <1>1, <2>1, <2>4
    <3> QED
      BY <1>2, <2>1, <2>2, <3>1 DEF OnTime
  <2> QED
    BY <1>2, <2>3, <2>4
<1>5. \A c \in Clients : Drivable(c)' = Drivable(c)
  BY DEF Drivable, StartTime
<1> QED
  BY <1>2, <1>3, <1>4, <1>5 DEF SimulationInv, LoopInv

\* In a client's turn it is enough that this client stays in order and on time.
LEMMA MoveInv ==
    ASSUME SimulationInv, NEW c \in Clients, Moving(c), NEW r, Good(r),
           r.idx <= Len(Trajectory[c]) + 1, client' = [client EXCEPT ![c] = r],
           UNCHANGED <<curTime, status>>, turn' \in {c, c + 1},
           Drivable(c) /\ ~r.complete => OnTime(c)'
    PROVE  SimulationInv'
<1>1. c \in Nat \ {0} /\ c <= NumClients /\ NumClients \in Nat /\ turn = c
  BY MovingFacts DEF Moving
<1>2. turn' \in 0..NumClients + 1
  BY <1>1
<1>3. (TypeOK /\ BytesAccounted)'
  BY <1>2, ClientStep DEF SimulationInv
<1>4. client'[c] = r /\ \A d \in Clients \ {c} : client'[d] = client[d]
  BY MovingFacts
<1>5. ASSUME NEW d \in Clients \ {c}, Drivable(d), ~client[d].complete
      PROVE  OnTime(d)'
  <2>1. OnTime(d) /\ d \in Nat \ {0}
    BY <1>5, MovingFacts DEF SimulationInv, LoopInv
  <2>2. AtEnd(d)' = AtEnd(d) /\ Here(d)' = Here(d) /\ curTime' = curTime
    BY <1>4 DEF AtEnd, Here
  <2>3. turn # d
    BY <1>1
  <2>4. turn' \notin 1..d => turn \notin 1..d
    BY <1>1, <2>1
  <2> QED
    BY <2>1, <2>2, <2>3, <2>4 DEF OnTime
<1>6. \A d \in Clients : Drivable(d)' = Drivable(d)
  BY DEF Drivable, StartTime
<1>7. (status = "running" => curTime < EndOfTime)'
  BY DEF SimulationInv, LoopInv
<1> QED
  BY <1>3, <1>4, <1>5, <1>6, <1>7 DEF SimulationInv, LoopInv

\* The cloud names the segments of the video: nothing was played or buffered before.
LEMMA RegisterInv ==
    ASSUME SimulationInv, NEW c \in Clients, Register(c)
    PROVE  SimulationInv'
<1> DEFINE k == client[c]
<1>1. PICK v \in Choice[c] : client' = [client EXCEPT ![c].video = v]
  BY DEF Register
<1>2. v \in Videos
  BY ClientAssumption DEF ClientAssumption
<1> DEFINE r == [k EXCEPT !.video = v]
<1>3. client' = [client EXCEPT ![c] = r]
  BY <1>1
<1>4. /\ Good(k) /\ k \in Client /\ k.video = NoVideo /\ k.idx <= Len(Trajectory[c]) + 1
      /\ client \in [Clients -> Client]
  BY MovingFacts, EachGood DEF Register, MustRegister, SimulationInv
<1>5. k.playback = 0 /\ k.buffer = 0
  BY <1>4 DEF Good, Client, NumUrls
<1> HIDE DEF k
<1>6. r \in Client
  BY <1>2, <1>4 DEF Client
<1>7. /\ r.idx = k.idx /\ r.complete = k.complete /\ r.playback = 0 /\ r.buffer = 0
      /\ r.node = k.node /\ r.dist = k.dist /\ r.bufferSet = k.bufferSet
      /\ r.fromEdge = k.fromEdge /\ r.fromCloud = k.fromCloud
  BY <1>4, <1>5 DEF Client
<1> HIDE DEF r
<1>8. NumUrls(r) \in Nat
  BY <1>6, VideoType
<1>9. Good(r)
  BY <1>4, <1>6, <1>7, <1>8 DEF Good
<1>10. Moving(c) /\ curTime' = curTime /\ turn' = turn /\ status' = status /\ turn = c
  BY DEF Register, Moving
<1>11. Drivable(c) /\ ~r.complete => OnTime(c)'
  <2>1. client'[c].idx = client[c].idx
    BY <1>3, <1>4, <1>7 DEF k
  <2>2. AtEnd(c)' = AtEnd(c) /\ Here(c)' = Here(c)
    BY <2>1 DEF AtEnd, Here
  <2>3. Drivable(c) /\ ~r.complete => OnTime(c)
    BY <1>7 DEF SimulationInv, LoopInv, k
  <2> QED
    BY <1>10, <2>2, <2>3 DEF OnTime
<1> QED
  BY <1>3, <1>4, <1>7, <1>9, <1>10, <1>11, MoveInv

\* On to the next point, which a trajectory that can be followed has no earlier than
\* this one.
LEMMA NextPointInv ==
    ASSUME SimulationInv, NEW c \in Clients, AtPoint(c), NEW j, Good(j), Same(j, client[c]),
           client' = [client EXCEPT ![c] = [j EXCEPT !.idx = @ + 1]],
           UNCHANGED <<curTime, turn, status>>
    PROVE  SimulationInv'
<1>1. /\ Moving(c) /\ turn = c /\ ~AtEnd(c) /\ Here(c).time = curTime
      /\ ~client[c].complete
  BY DEF AtPoint, Moving
<1>2. /\ client[c].idx \in 1..Len(Trajectory[c]) /\ Len(Trajectory[c]) \in Nat
      /\ client \in [Clients -> Client]
  BY <1>1, MovingFacts
<1>3. j \in Client /\ j.idx = client[c].idx
  BY DEF Good, Same
<1> DEFINE idx == j.idx + 1
           r == [j EXCEPT !.idx = idx]
<1>4. idx \in Nat \ {0} /\ idx <= Len(Trajectory[c]) + 1
  BY <1>2, <1>3
<1>5. client' = [client EXCEPT ![c] = r]
  BY <1>3 DEF Client
<1> HIDE DEF idx
<1>6. r \in Client
  BY <1>3, <1>4 DEF Client
<1>7. /\ r.video = j.video /\ r.idx = idx /\ r.playback = j.playback /\ r.buffer = j.buffer
      /\ r.node = j.node /\ r.dist = j.dist /\ r.bufferSet = j.bufferSet
      /\ r.fromEdge = j.fromEdge /\ r.fromCloud = j.fromCloud
  BY <1>3 DEF Client
<1> HIDE DEF r
<1>8. Good(r)
  BY <1>6, <1>7 DEF Good, NumUrls
<1>9. Drivable(c) => OnTime(c)'
  <2> SUFFICES ASSUME Drivable(c) PROVE OnTime(c)'
    OBVIOUS
  <2>1. client'[c].idx = client[c].idx + 1
    BY <1>2, <1>3, <1>5, <1>7 DEF idx
  <2>2. turn' = c /\ c \in 1..c
    BY <1>1, MovingFacts
  <2>3. ~AtEnd(c)' => Here(c)'.time >= curTime
    <3> SUFFICES ASSUME ~AtEnd(c)' PROVE Here(c)'.time >= curTime
      OBVIOUS
    <3> DEFINE i == client[c].idx
    <3>1. i \in DOMAIN Trajectory[c] /\ i + 1 \in DOMAIN Trajectory[c] /\ i \in Nat
      BY <1>2, <2>1, TrajectoryType DEF AtEnd
    <3>2. /\ Here(c)' = Trajectory[c][i + 1] /\ Here(c) = Trajectory[c][i]
      BY <2>1 DEF Here
    <3>3. Trajectory[c][i].time <= Trajectory[c][i + 1].time
      BY <3>1 DEF Drivable
    <3>4. Trajectory[c][i].time \in Nat /\ Trajectory[c][i + 1].time \in Nat
      BY <3>1, TrajectoryType
    <3> QED
      BY <1>1, <3>2, <3>3, <3>4
  <2> QED
    BY <2>2, <2>3 DEF OnTime
<1> QED
  BY <1>1, <1>4, <1>5, <1>7, <1>8, <1>9, MoveInv

\* The client's turn is over, and no point of the present second is left.
LEMMA EndMoveInv ==
    ASSUME SimulationInv, NEW c \in Clients, EndMove(c)
    PROVE  SimulationInv'
<1> DEFINE k == client[c]
           over == k.complete \/ AtEnd(c)
           played == IF curTime < StartTime(c) \/ k.playback >= NumUrls(k) THEN k.playback
                     ELSE k.playback + 1
           r == [k EXCEPT !.complete = over, !.playback = played]
<1>1. /\ Good(k) /\ k \in Client /\ client \in [Clients -> Client]
      /\ k.idx <= Len(Trajectory[c]) + 1 /\ c \in Nat \ {0}
  BY MovingFacts, EachGood DEF SimulationInv
<1>2. k.playback \in Nat /\ NumUrls(k) \in Nat /\ k.playback <= NumUrls(k) /\ k.complete \in BOOLEAN
  BY <1>1, VideoType DEF Good, Client
<1>3. played \in Nat /\ played <= NumUrls(k)
  BY <1>2
<1>4. over \in BOOLEAN
  BY <1>2 DEF AtEnd
<1>5. client' = [client EXCEPT ![c] = r]
  <2>1. client' = [client EXCEPT ![c] = IF curTime < StartTime(c) \/ k.playback >= NumUrls(k)
                                        THEN [k EXCEPT !.complete = over]
                                        ELSE [k EXCEPT !.complete = over, !.playback = played]]
    BY <1>1 DEF EndMove, Played, Client, NumUrls
  <2> QED
    BY <1>1, <2>1 DEF Client
<1>6. k.complete \/ AtEnd(c) \/ Here(c).time # curTime
  BY DEF EndMove, AtPoint
<1> HIDE DEF played, over, k
<1>7. r \in Client
  BY <1>1, <1>3, <1>4 DEF Client
<1>8. /\ r.video = k.video /\ r.idx = k.idx /\ r.playback = played /\ r.buffer = k.buffer
      /\ r.node = k.node /\ r.dist = k.dist /\ r.bufferSet = k.bufferSet
      /\ r.fromEdge = k.fromEdge /\ r.fromCloud = k.fromCloud /\ r.complete = over
  BY <1>1 DEF Client
<1> HIDE DEF r
<1>9. Good(r)
  BY <1>1, <1>3, <1>7, <1>8 DEF Good, NumUrls
<1>10. Moving(c) /\ turn = c /\ turn' = c + 1 /\ curTime' = curTime /\ status' = status
  BY DEF EndMove, Moving
<1>11. Drivable(c) /\ ~r.complete => OnTime(c)'
  <2> SUFFICES ASSUME Drivable(c), ~r.complete PROVE OnTime(c)'
    OBVIOUS
  <2>1. ~client[c].complete /\ ~AtEnd(c)
    BY <1>8 DEF over, k
  <2>2. Here(c).time >= curTime /\ Here(c).time # curTime /\ Here(c).time \in Nat /\ curTime \in Nat
    BY <1>6, <2>1, MovingFacts DEF SimulationInv, LoopInv, OnTime, k, TypeOK
  <2>3. Here(c).time > curTime
    BY <2>2
  <2>4. AtEnd(c)' = AtEnd(c) /\ Here(c)' = Here(c)
    <3>1. client'[c].idx = client[c].idx
      BY <1>1, <1>5, <1>8 DEF k
    <3> QED
      BY <3>1 DEF AtEnd, Here
  <2> QED
    BY <1>10, <2>1, <2>2, <2>3, <2>4 DEF OnTime
<1> QED
  BY <1>1, <1>5, <1>8, <1>9, <1>10, <1>11, MoveInv

-----------------------------------------------------------------------------
\* Every step keeps the invariant.
LEMMA NextInv ==
    ASSUME SimulationInv, [Next]_vars
    PROVE  SimulationInv'
<1>1. CASE UNCHANGED vars
  BY <1>1 DEF vars, SimulationInv, TypeOK, BytesAccounted, LoopInv, OnTime, AtEnd, Here, NumUrls,
     Drivable, StartTime
<1>2. CASE Advance
  BY <1>2, AdvanceInv
<1>3. CASE CheckEnd \/ CallFails
  BY <1>3, EndOrFailInv
<1>4. ASSUME NEW c \in Clients, Register(c)
      PROVE  SimulationInv'
  BY <1>4, RegisterInv
<1>5. ASSUME NEW c \in Clients, GetSegments(c)
      PROVE  SimulationInv'
  <2> DEFINE p == Here(c)
             k == client[c]
  <2>1. AtPoint(c) /\ ~AtEnd(c) /\ UNCHANGED <<curTime, turn, status>>
    BY <1>5 DEF GetSegments, AtPoint
  <2>2. PICK j \in OutOfRange(k, p) \cup NewContact(k, p)
                     \cup ChangeContact(k, p) \cup KeepContact(k, p) :
            client' = [client EXCEPT ![c] = [j EXCEPT !.idx = @ + 1]]
    BY <1>5 DEF GetSegments
  <2>3. /\ Good(k) /\ p \in Point /\ p.time \in Nat /\ p.dist \in Dists /\ p.dist \in Nat
        /\ p.node \in Nodes \cup {None}
    BY <2>1, MovingFacts
  <2>4. Good(j) /\ Same(j, client[c])
    BY <2>2, <2>3, PointGood
  <2> QED
    BY <2>1, <2>2, <2>4, NextPointInv
<1>6. ASSUME NEW c \in Clients, PassPoint(c)
      PROVE  SimulationInv'
  <2> DEFINE k == client[c]
  <2>1. AtPoint(c) /\ UNCHANGED <<curTime, turn, status>>
    BY <1>6 DEF PassPoint
  <2>2. client' = [client EXCEPT ![c] = [k EXCEPT !.idx = @ + 1]]
    BY <1>6, MovingFacts DEF PassPoint, Client
  <2>3. Good(k) /\ Same(k, client[c])
    BY MovingFacts DEF Same
  <2> HIDE DEF k
  <2> QED
    BY <2>1, <2>2, <2>3, NextPointInv
<1>7. ASSUME NEW c \in Clients, EndMove(c)
      PROVE  SimulationInv'
  BY <1>7, EndMoveInv
<1> QED
  BY <1>1, <1>2, <1>3, <1>4, <1>5, <1>6, <1>7 DEF Next, Move

\* The inductive invariant holds of every run of the simulation.
THEOREM Invariance == Spec => []SimulationInv
<1>1. Init => SimulationInv
  BY InitInv
<1>2. SimulationInv /\ [Next]_vars => SimulationInv'
  BY NextInv
<1> QED
  BY <1>1, <1>2, PTL DEF Spec

\* Every variable keeps its type: no client reads behind the end of its trajectory,
\* plays or buffers more than its video has, or asks a radio model for a distance it
\* does not have (client_actions.py:139-194, 343-410).
THEOREM TypeCorrect == Spec => []TypeOK
<1>1. SimulationInv => TypeOK
  BY DEF SimulationInv
<1> QED
  BY <1>1, Invariance, PTL

\* What a client reports from the edge and from the cloud adds up to its buffer, in
\* whatever order the two delivered (client_actions.py:270-334, 366-375).
THEOREM BytesAddUp == Spec => []BytesAccounted
<1>1. SimulationInv => BytesAccounted
  BY DEF SimulationInv
<1> QED
  BY <1>1, Invariance, PTL

\* The loop over the points of the present second misses none of them: whenever a
\* client's turn is over, its next point lies ahead or its trip has ended
\* (client_actions.py:139-151).
THEOREM NobodyLeftBehind == Spec => []NotLeftBehind
<1>1. SimulationInv => NotLeftBehind
  BY DEF SimulationInv, LoopInv, OnTime, NotLeftBehind
<1> QED
  BY <1>1, Invariance, PTL
================================================================================
