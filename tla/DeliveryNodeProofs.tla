--------------------------- MODULE DeliveryNodeProofs ---------------------------
(***************************************************************************)
(* Proofs about the Python edge node, for any requests, vehicles and times.  *)
(*                                                                         *)
(* The routes are an ordered dictionary, of which every step that changes it *)
(* makes another (Replaced, Removed, Struck).  FetchedIsNoticed is inductive *)
(* with that.  NeverGivesUpEarly rests on MonitorInStep: the monitor is       *)
(* ahead of the clock by no more than it counted since the last multiple of  *)
(* SyncThreshold.                                                          *)
(***************************************************************************)
EXTENDS DeliveryNode, TLAPS

Routes == {rs \in Seq(Route) :
              \A i, j \in DOMAIN rs : rs[i].token = rs[j].token => i = j}

\* A queue that is not empty, and one of its elements.
LEMMA QueueHead ==
    ASSUME NEW S, NEW q \in Seq(S), q # <<>>
    PROVE  Head(q) \in S /\ Head(q) = q[1] /\ Tail(q) \in Seq(S)
  OBVIOUS

\* A route in the dictionary has a vehicle's token and known segments.
LEMMA RouteElement ==
    ASSUME NEW rs \in Routes, NEW i \in DOMAIN rs
    PROVE  rs[i] \in Route /\ rs[i].token \in Vehicles /\ rs[i].left \subseteq Segments
<1>1. rs \in Seq(Route) /\ DOMAIN rs = 1..Len(rs)
  BY DEF Routes
<1>2. rs[i] \in Route
  BY <1>1
<1> QED
  BY <1>2 DEF Route

\* One route per token.
LEMMA Replaced ==
    ASSUME NEW rs \in Routes, NEW new \in Route
    PROVE  /\ WithRoute(rs, new) \in Routes
           /\ \A i \in DOMAIN rs : rs[i].token \in Tokens(WithRoute(rs, new))
           /\ \A i \in DOMAIN WithRoute(rs, new) :
                 \/ WithRoute(rs, new)[i] = new
                 \/ i \in DOMAIN rs /\ WithRoute(rs, new)[i] = rs[i] /\ rs[i].token # new.token
<1> DEFINE ws == WithRoute(rs, new)
<1>1. rs \in Seq(Route) /\ DOMAIN rs = 1..Len(rs) /\ Len(rs) \in Nat
  BY DEF Routes
<1>2. CASE new.token \in Tokens(rs)
  <2>1. ws = [i \in 1..Len(rs) |-> IF rs[i].token = new.token THEN new ELSE rs[i]]
    BY <1>1, <1>2 DEF WithRoute
  <2>2. ws \in Seq(Route)
    BY <1>1, <2>1
  <2>3. DOMAIN ws = 1..Len(rs) /\ \A i \in 1..Len(rs) : ws[i].token = rs[i].token
    BY <1>1, <2>1
  <2> QED
    BY <1>1, <2>1, <2>2, <2>3 DEF Routes, Tokens
<1>3. CASE new.token \notin Tokens(rs)
  <2>1. ws = Append(rs, new)
    BY <1>3 DEF WithRoute
  <2>2. ws \in Seq(Route) /\ DOMAIN ws = 1..Len(rs) + 1 /\ ws[Len(rs) + 1] = new
        /\ \A i \in 1..Len(rs) : ws[i] = rs[i]
    BY <1>1, <2>1
  <2>3. \A i \in 1..Len(rs) : rs[i].token # new.token
    BY <1>1, <1>3 DEF Tokens
  <2> QED
    BY <1>1, <2>2, <2>3 DEF Routes, Tokens
<1> QED
  BY <1>2, <1>3

\* Popping a route keeps all the others.
LEMMA Removed ==
    ASSUME NEW rs \in Routes, NEW i \in DOMAIN rs
    PROVE  /\ Without(rs, i) \in Routes
           /\ \A j \in DOMAIN rs : j # i => rs[j].token \in Tokens(Without(rs, i))
           /\ \A j \in DOMAIN Without(rs, i) : \E k \in DOMAIN rs : Without(rs, i)[j] = rs[k]
<1> DEFINE ws == Without(rs, i)
<1>1. rs \in Seq(Route) /\ DOMAIN rs = 1..Len(rs) /\ Len(rs) \in Nat /\ i \in 1..Len(rs)
  BY DEF Routes
<1>2. /\ ws = [j \in 1..Len(rs) - 1 |-> IF j < i THEN rs[j] ELSE rs[j + 1]]
      /\ \A j \in 1..Len(rs) - 1 : j \in 1..Len(rs) /\ j + 1 \in 1..Len(rs)
  BY <1>1 DEF Without
<1>3. ws \in Seq(Route) /\ DOMAIN ws = 1..Len(rs) - 1
  BY <1>1, <1>2
<1>4. \A j, k \in DOMAIN ws : ws[j].token = ws[k].token => j = k
  BY <1>1, <1>2 DEF Routes
<1>5. ASSUME NEW j \in DOMAIN rs, j # i
      PROVE  rs[j].token \in Tokens(ws)
  <2>1. CASE j < i
    BY <1>1, <1>2, <1>5, <2>1 DEF Tokens
  <2>2. CASE j > i
    <3>1. j - 1 \in DOMAIN ws /\ ws[j - 1] = rs[j]
      BY <1>1, <1>2, <1>5, <2>2
    <3> QED
      BY <3>1 DEF Tokens
  <2> QED
    BY <1>1, <1>5, <2>1, <2>2
<1> QED
  BY <1>1, <1>2, <1>3, <1>4, <1>5 DEF Routes

\* Striking a fetched segment off takes it from its own route only.
LEMMA Struck ==
    ASSUME NEW rs \in Routes, NEW n \in [token : Vehicles, segment : Segments]
    PROVE  /\ Delivered(rs, n) \in Routes /\ DOMAIN Delivered(rs, n) = DOMAIN rs
           /\ \A i \in DOMAIN rs :
                 /\ Delivered(rs, n)[i].token = rs[i].token
                 /\ \A s : s \in Delivered(rs, n)[i].left
                             <=> s \in rs[i].left /\ ~(rs[i].token = n.token /\ s = n.segment)
<1> DEFINE ws == Delivered(rs, n)
<1>1. rs \in Seq(Route) /\ DOMAIN rs = 1..Len(rs) /\ Len(rs) \in Nat
  BY DEF Routes
<1>2. ws = [i \in 1..Len(rs) |-> IF rs[i].token = n.token
                                 THEN [rs[i] EXCEPT !.left = @ \ {n.segment}] ELSE rs[i]]
  BY <1>1 DEF Delivered
<1>3. ASSUME NEW i \in 1..Len(rs)
      PROVE  /\ ws[i] \in Route /\ ws[i].token = rs[i].token
             /\ \A s : s \in ws[i].left
                         <=> s \in rs[i].left /\ ~(rs[i].token = n.token /\ s = n.segment)
  <2>1. rs[i] \in Route
    BY <1>1
  <2>2. CASE rs[i].token = n.token
    BY <1>2, <2>1, <2>2 DEF Route
  <2>3. CASE rs[i].token # n.token
    BY <1>2, <2>1, <2>3
  <2> QED
    BY <2>2, <2>3
<1>4. ws \in Seq(Route) /\ DOMAIN ws = 1..Len(rs)
  BY <1>1, <1>2, <1>3
<1> QED
  BY <1>1, <1>3, <1>4 DEF Routes

-----------------------------------------------------------------------------
(* Type correctness.                                                       *)

\* The types of the steps' parameters, and of what the constants give.
LEMMA NewRoute ==
    ASSUME NEW r \in Requests
    PROVE  [token |-> Token[r], left |-> Wanted[r],
            deadline |-> LeavesAt[r] + MissedThreshold] \in Route
BY DeliveryAssumption DEF Route

\* Every step keeps the types.
LEMMA TypeNext ==
    ASSUME TypeOK, [Next]_vars
    PROVE  TypeOK'
<1> USE DEF TypeOK, daemonVars, contentVars, monitorVars
<1>0. routes \in Routes
  BY DEF Routes
<1>1. CASE Tick
  BY <1>1, DeliveryAssumption DEF Tick
<1>2. ASSUME NEW r \in Requests, AddRoute(r)
      PROVE  TypeOK'
  <2>1. routes' \in Routes
    BY <1>0, <1>2, NewRoute, Replaced DEF AddRoute
  <2>2. /\ unstored' \subseteq Segments /\ taken' \subseteq Requests
        /\ since' \in [Vehicles -> SUBSET Segments] /\ holder' = "daemon"
    BY <1>2, DeliveryAssumption DEF AddRoute
  <2> QED
    BY <1>2, <2>1, <2>2 DEF AddRoute, Routes
<1>3. ASSUME NEW s \in Segments, AddSegment(s)
      PROVE  TypeOK'
  BY <1>3 DEF AddSegment
<1>4. CASE RouteAdded
  BY <1>4 DEF RouteAdded
<1>5. ASSUME NEW v \in Vehicles, ListSegments(v)
      PROVE  TypeOK'
  BY <1>5 DEF ListSegments
<1>6. ASSUME NEW v \in Vehicles, Reset(v)
      PROVE  TypeOK'
  BY <1>6 DEF Reset
<1>7. ASSUME NEW v \in Vehicles, NEW s \in Segments, FetchSegment(v, s)
      PROVE  TypeOK'
  <2>1. /\ fetched' \in [Vehicles -> SUBSET Segments] /\ since' \in [Vehicles -> SUBSET Segments]
    BY <1>7 DEF FetchSegment
  <2>2. notices' \in Seq([token : Vehicles, segment : Segments])
    BY <1>7 DEF FetchSegment
  <2> QED
    BY <1>7, <2>1, <2>2 DEF FetchSegment
<1>8. CASE Listen
  <2>1. Head(notices) \in [token : Vehicles, segment : Segments]
        /\ notices' \in Seq([token : Vehicles, segment : Segments])
    BY <1>8, QueueHead DEF Listen
  <2>2. routes' \in Routes
    BY <1>0, <1>8, <2>1, Struck DEF Listen
  <2> QED
    BY <1>8, <2>1, <2>2 DEF Listen, Routes
<1>9. CASE MonitorTick
  BY <1>9, DeliveryAssumption DEF MonitorTick, SyncedTime
<1>10. CASE NothingOverdue
  BY <1>10 DEF NothingOverdue
<1>11. CASE GetOverdue
  <2>1. PICK i \in DOMAIN routes : routes' = Without(routes, i) /\ missed' = routes[i]
    BY <1>11 DEF GetOverdue
  <2>2. routes' \in Routes /\ missed' \in Route
    BY <1>0, <2>1, Removed DEF Routes
  <2> QED
    BY <1>11, <2>2 DEF GetOverdue, Routes
<1>12. CASE SendMissed
  BY <1>12 DEF SendMissed
<1>13. CASE CleanUpRoute
  <2>1. routes' \in Routes
    BY <1>0, <1>13, Removed DEF CleanUpRoute
  <2> QED
    BY <1>13, <2>1 DEF CleanUpRoute, Routes
<1>14. CASE UNCHANGED vars
  BY <1>14 DEF vars
<1> QED
  BY <1>1, <1>2, <1>3, <1>4, <1>5, <1>6, <1>7, <1>8, <1>9, <1>10, <1>11, <1>12, <1>13, <1>14
  DEF Next, Daemon, ContentServer, Monitor

\* The variables keep their types, and no two routes have the same token.
THEOREM TypeCorrect == Spec => []TypeOK
<1>1. Init => TypeOK
  BY DeliveryAssumption DEF Init, TypeOK
<1> QED
  BY <1>1, TypeNext, PTL DEF Spec

-----------------------------------------------------------------------------
(* Notices.                                                                *)

\* Every step keeps what was fetched noticed.
LEMMA NoticedNext ==
    ASSUME TypeOK, FetchedIsNoticed, [Next]_vars
    PROVE  FetchedIsNoticed'
<1> USE DEF daemonVars, contentVars, monitorVars
<1> DEFINE Notice(v, s) == [token |-> v, segment |-> s]
           Noticed(ns, v, s) == \E k \in DOMAIN ns : ns[k] = Notice(v, s)
<1>0. routes \in Routes /\ notices \in Seq([token : Vehicles, segment : Segments])
  BY DEF Routes, TypeOK
<1>1. ASSUME NEW r \in Requests, AddRoute(r)
      PROVE  FetchedIsNoticed'
  <2>1. since' = [since EXCEPT ![Token[r]] = {}] /\ Token[r] \in Vehicles /\ notices' = notices
    BY <1>1, DeliveryAssumption DEF AddRoute
  <2>2. ASSUME NEW i \in DOMAIN routes', NEW s \in routes'[i].left \cap since'[routes'[i].token]
        PROVE  Noticed(notices, routes'[i].token, s)
    <3>1. routes'[i].token # Token[r]
      BY <2>1, <2>2 DEF TypeOK
    <3>2. i \in DOMAIN routes /\ routes'[i] = routes[i]
      BY <1>0, <1>1, <3>1, NewRoute, Replaced DEF AddRoute
    <3>3. s \in routes[i].left \cap since[routes[i].token]
      <4>1. routes[i].token \in Vehicles
        BY <1>0, <3>2, RouteElement
      <4> QED
        BY <2>1, <2>2, <3>1, <3>2, <4>1 DEF TypeOK
    <3> QED
      BY <3>2, <3>3 DEF FetchedIsNoticed
  <2> QED
    BY <2>1, <2>2 DEF FetchedIsNoticed
<1>2. ASSUME NEW v \in Vehicles, NEW t \in Segments, FetchSegment(v, t)
      PROVE  FetchedIsNoticed'
  <2>1. /\ since' = [since EXCEPT ![v] = @ \cup {t}] /\ routes' = routes
        /\ notices' = Append(notices, Notice(v, t))
    BY <1>2 DEF FetchSegment
  <2>2. /\ DOMAIN notices' = 1..Len(notices) + 1 /\ notices'[Len(notices) + 1] = Notice(v, t)
        /\ \A k \in DOMAIN notices : k \in DOMAIN notices' /\ notices'[k] = notices[k]
    BY <1>0, <2>1
  <2>3. ASSUME NEW i \in DOMAIN routes, NEW s \in routes[i].left \cap since'[routes[i].token]
        PROVE  Noticed(notices', routes[i].token, s)
    <3>1. CASE s \in since[routes[i].token]
      BY <2>2, <2>3, <3>1 DEF FetchedIsNoticed
    <3>2. CASE s \notin since[routes[i].token]
      <4>1. routes[i].token \in Vehicles
        BY <1>0, RouteElement
      <4>2. routes[i].token = v /\ s = t
        BY <2>1, <2>3, <3>2, <4>1 DEF TypeOK
      <4>3. Len(notices) + 1 \in DOMAIN notices'
        BY <1>0, <2>2
      <4> QED
        BY <2>2, <4>2, <4>3
    <3> QED
      BY <3>1, <3>2
  <2> QED
    BY <2>1, <2>3 DEF FetchedIsNoticed
<1>3. CASE Listen
  <2> DEFINE n == Head(notices)
  <2>1. /\ n \in [token : Vehicles, segment : Segments] /\ notices # <<>> /\ n = notices[1]
        /\ notices' = Tail(notices) /\ routes' = Delivered(routes, n) /\ since' = since
    BY <1>0, <1>3, QueueHead DEF Listen
  <2>2. ASSUME NEW i \in DOMAIN routes', NEW s \in routes'[i].left \cap since[routes'[i].token]
        PROVE  Noticed(notices', routes'[i].token, s)
    <3>1. /\ i \in DOMAIN routes /\ routes'[i].token = routes[i].token
          /\ \A q : q \in routes'[i].left
                      <=> q \in routes[i].left /\ ~(routes[i].token = n.token /\ q = n.segment)
      <4>1. /\ DOMAIN routes' = DOMAIN routes
            /\ \A k \in DOMAIN routes :
                  /\ routes'[k].token = routes[k].token
                  /\ \A q : q \in routes'[k].left
                              <=> q \in routes[k].left /\ ~(routes[k].token = n.token /\ q = n.segment)
        BY <1>0, <2>1, Struck
      <4>2. i \in DOMAIN routes
        BY <2>2, <4>1
      <4> QED
        BY <4>1, <4>2
    <3>2. s \in routes[i].left /\ ~(routes[i].token = n.token /\ s = n.segment)
      BY <2>2, <3>1
    <3>3. PICK k \in DOMAIN notices : notices[k] = Notice(routes[i].token, s)
      BY <2>2, <3>1, <3>2 DEF FetchedIsNoticed
    <3>4. k # 1
      BY <2>1, <3>2, <3>3
    <3>5. k - 1 \in DOMAIN notices' /\ notices'[k - 1] = notices[k]
      BY <1>0, <2>1, <3>4
    <3> QED
      BY <3>1, <3>3, <3>5
  <2> QED
    BY <2>1, <2>2 DEF FetchedIsNoticed
<1>4. ASSUME NEW i \in DOMAIN routes, routes' = Without(routes, i),
             notices' = notices, since' = since
      PROVE  FetchedIsNoticed'
  BY <1>0, <1>4, Removed DEF FetchedIsNoticed
<1>5. CASE GetOverdue
  BY <1>4, <1>5 DEF GetOverdue
<1>6. CASE UNCHANGED <<routes, notices, since>>
  BY <1>6 DEF FetchedIsNoticed
<1>7. CASE CleanUpRoute
  BY <1>4, <1>6, <1>7 DEF CleanUpRoute
<1> QED
  BY <1>1, <1>2, <1>3, <1>5, <1>6, <1>7
  DEF Next, Daemon, ContentServer, Monitor, Tick, AddSegment, RouteAdded, ListSegments, Reset,
      MonitorTick, NothingOverdue, SendMissed, vars

\* A segment that was fetched is struck off its route or noticed.
THEOREM FetchedNoticed == Spec => []FetchedIsNoticed
<1>1. Init => FetchedIsNoticed
  BY DEF Init, FetchedIsNoticed
<1> QED
  BY <1>1, TypeCorrect, NoticedNext, PTL DEF Spec
-----------------------------------------------------------------------------
(* Who gives up a route, and when.                                         *)

\* A route whose token is no longer in the dictionary was taken out by the monitor,
\* either as overdue or, once nothing was left of it, when it cleaned up.
LEMMA WhoRemoves ==
    ASSUME TypeOK, [Next]_vars, NEW i \in DOMAIN routes,
           routes[i].token \notin Tokens(routes')
    PROVE  \/ GetOverdue /\ missed' = routes[i] /\ Overdue(routes[i])
           \/ CleanUpRoute /\ routes[i].left = {}
<1> USE DEF daemonVars, contentVars, monitorVars
<1>0. routes \in Routes
  BY DEF Routes, TypeOK
<1>1. routes' # routes
  BY DEF Tokens
<1>2. ASSUME NEW r \in Requests, AddRoute(r)
      PROVE  FALSE
  BY <1>0, <1>2, NewRoute, Replaced DEF AddRoute
<1>3. CASE Listen
  <2>1. Head(notices) \in [token : Vehicles, segment : Segments]
    BY <1>3, QueueHead DEF Listen, TypeOK
  <2> DEFINE n == Head(notices)
  <2>2. n \in [token : Vehicles, segment : Segments] /\ routes' = Delivered(routes, n)
    BY <1>3, <2>1 DEF Listen
  <2> HIDE DEF n
  <2>3. /\ DOMAIN Delivered(routes, n) = DOMAIN routes
        /\ \A k \in DOMAIN routes : Delivered(routes, n)[k].token = routes[k].token
    BY <1>0, <2>2, Struck
  <2> QED
    BY <2>2, <2>3 DEF Tokens
<1>4. CASE GetOverdue
  <2>1. PICK j \in DOMAIN routes :
           Overdue(routes[j]) /\ routes' = Without(routes, j) /\ missed' = routes[j]
    BY <1>4 DEF GetOverdue, FirstOverdue
  <2>2. i = j
    BY <1>0, <2>1, Removed
  <2> QED
    BY <1>4, <2>1, <2>2
<1>5. CASE CleanUpRoute
  <2> DEFINE j == CHOOSE k \in DOMAIN routes : MayRemove(routes[k])
  <2>1. j \in DOMAIN routes /\ MayRemove(routes[j]) /\ routes' = Without(routes, j)
    BY <1>1, <1>5 DEF CleanUpRoute
  <2>2. i = j
    BY <1>0, <2>1, Removed
  <2> QED
    BY <1>5, <2>1, <2>2 DEF MayRemove
<1> QED
  BY <1>1, <1>2, <1>3, <1>4, <1>5
  DEF Next, Daemon, ContentServer, Monitor, Tick, AddSegment, RouteAdded, ListSegments, Reset,
      FetchSegment, MonitorTick, NothingOverdue, SendMissed, vars

\* A route with undelivered segments goes only into the hands of the monitor.
THEOREM UndeliveredKept == Spec => UndeliveredIsKept
<1>1. TypeOK /\ [Next]_vars
      => [\A i \in DOMAIN routes :
             routes[i].left # {} /\ routes[i].token \notin Tokens(routes')
                 => missed' = routes[i]]_vars
  BY WhoRemoves
<1> QED
  BY <1>1, TypeCorrect, PTL DEF Spec, UndeliveredIsKept

\* The monitor's own time has gone past the clock by what it counted since a multiple of
\* SyncThreshold, at most.
MonitorInStep == monTime <= clock + (monTime % SyncThreshold)

\* The remainder of a sum of multiples and a remainder.
LEMMA Remainder ==
    ASSUME NEW s \in Nat \ {0}, NEW q \in Nat, NEW r \in 0..s - 1
    PROVE  ((s * q) + r) % s = r
OBVIOUS

\* The remainder goes up by one from one synchronisation to the next.
LEMMA CountsUp ==
    ASSUME NEW s \in Nat \ {0}, NEW m \in Nat, (m + 1) % s # 0
    PROVE  (m + 1) % s = (m % s) + 1
<1> DEFINE q == m \div s
           r == m % s
<1>1. m = (s * q) + r /\ r \in 0..s - 1 /\ q \in Nat
  OBVIOUS
<1>2. r # s - 1
  <2>1. SUFFICES ASSUME r = s - 1
                 PROVE  FALSE
    OBVIOUS
  <2>2. m + 1 = s * (q + 1)
    BY <1>1, <2>1
  <2>3. (s * (q + 1)) % s = 0
    BY <1>1
  <2> QED
    BY <2>2, <2>3
<1>3. r + 1 \in 0..s - 1 /\ m + 1 = (s * q) + (r + 1)
  BY <1>1, <1>2
<1> HIDE DEF q, r
<1>4. ((s * q) + (r + 1)) % s = r + 1
  BY <1>1, <1>3, Remainder
<1> QED
  BY <1>3, <1>4 DEF r

\* Every step keeps the monitor's time in step with the simulation's.
LEMMA InStepNext ==
    ASSUME TypeOK, MonitorInStep, [Next]_vars
    PROVE  MonitorInStep'
<1> USE DEF daemonVars, contentVars, monitorVars
<1>0. /\ monTime \in Nat /\ clock \in Nat /\ SyncThreshold \in Nat \ {0}
      /\ \A m \in Nat : m % SyncThreshold \in Nat
  BY DeliveryAssumption DEF TypeOK
<1>1. CASE Tick
  BY <1>0, <1>1 DEF Tick, MonitorInStep
<1>2. CASE MonitorTick
  <2>1. CASE (monTime + 1) % SyncThreshold = 0
    <3>1. monTime' \in {0, clock} /\ clock' = clock
      BY <1>2, <2>1 DEF MonitorTick, SyncedTime
    <3>2. monTime' \in Nat /\ monTime' <= clock
      BY <1>0, <3>1
    <3>3. monTime' % SyncThreshold \in Nat
      BY <1>0, <3>2
    <3>4. \A k \in Nat : monTime' <= clock' + k
      BY <1>0, <3>1, <3>2
    <3> QED
      BY <1>0, <3>3, <3>4 DEF MonitorInStep
  <2>2. CASE (monTime + 1) % SyncThreshold # 0
    <3>1. monTime' = monTime + 1 /\ clock' = clock
      BY <1>2, <2>2 DEF MonitorTick
    <3>2. monTime' % SyncThreshold = (monTime % SyncThreshold) + 1
      BY <1>0, <2>2, <3>1, CountsUp
    <3> QED
      BY <1>0, <3>1, <3>2 DEF MonitorInStep
  <2> QED
    BY <2>1, <2>2
<1>3. CASE UNCHANGED <<clock, monTime>>
  BY <1>3 DEF MonitorInStep
<1> QED
  BY <1>1, <1>2, <1>3
  DEF Next, Daemon, ContentServer, Monitor, AddRoute, AddSegment, RouteAdded, ListSegments,
      Reset, FetchSegment, Listen, NothingOverdue, GetOverdue, SendMissed, CleanUpRoute, vars

\* A route leaves the dictionary with undelivered segments only when it is overdue.
LEMMA NotEarlyStep ==
    ASSUME TypeOK, MonitorInStep, [Next]_vars, NEW i \in DOMAIN routes,
           routes[i].left # {}, routes[i].token \notin Tokens(routes')
    PROVE  clock + SyncThreshold > routes[i].deadline + 1
<1>1. monTime > routes[i].deadline
  BY WhoRemoves DEF Overdue
<1>2. routes[i].deadline \in Nat
  <2>1. routes[i] \in Route
    BY RouteElement DEF TypeOK, Routes
  <2> QED
    BY <2>1 DEF Route
<1>3. /\ monTime \in Nat /\ clock \in Nat /\ SyncThreshold \in Nat \ {0}
      /\ monTime % SyncThreshold \in 0..SyncThreshold - 1
  BY DeliveryAssumption DEF TypeOK
<1> QED
  BY <1>1, <1>2, <1>3 DEF MonitorInStep

\* However often the synchronisation fails, no route is given up more than
\* SyncThreshold - 2 before its deadline has passed.
THEOREM NotGivenUpEarly == Spec => NeverGivesUpEarly
<1>1. Init => MonitorInStep
  BY DeliveryAssumption DEF Init, MonitorInStep
<1>2. TypeOK /\ MonitorInStep /\ [Next]_vars
      => [\A i \in DOMAIN routes :
             routes[i].left # {} /\ routes[i].token \notin Tokens(routes')
                 => clock + SyncThreshold > routes[i].deadline + 1]_vars
  BY NotEarlyStep
<1> QED
  BY <1>1, <1>2, TypeCorrect, InStepNext, PTL DEF Spec, NeverGivesUpEarly
=============================================================================
