------------------------------ MODULE DeliveryNode ------------------------------
(***************************************************************************)
(* The Python edge node (src/edge): the daemon that takes in what the cloud  *)
(* asks for, the content server (a process of its own), the listener thread  *)
(* that learns from it what vehicles fetched, and the delivery monitor       *)
(* thread that tells the cloud what they did not.                           *)
(*                                                                         *)
(*   cloud -> HandleDownloadRequest -> routes and store (redis)             *)
(*   vehicle -> content server -> notices (a redis channel) -> listener     *)
(*   delivery monitor: routes past their deadline -> cloud                  *)
(*                                                                         *)
(* `holder` has the metadata manager's mutex between two of its steps; who   *)
(* takes and releases it within one step only needs it to be free.  Nothing  *)
(* is ever removed from the store.  All vehicles ask for the same video.     *)
(***************************************************************************)
EXTENDS Integers, Sequences, FiniteSets

CONSTANTS
    Vehicles,       \* known by the tokens of their trips
    Segments,
    Requests,       \* download requests from the cloud
    Token,          \* per request, the vehicle
    Wanted,         \* per request, the segments
    LeavesAt,       \* per request, arrival_time + contact_time
    Stay,           \* per vehicle, when its contact starts and ends
    Buffered,       \* per vehicle, the segments it has from elsewhere
    MissedThreshold,\* missedDeliveryThreshold
    SyncThreshold,  \* sync_threshold: the monitor's clock is set so often (5)
    MayFail,        \* whether calls to the clock server and the cloud may fail
    MaxTime         \* bound on the simulation's clock

ASSUME DeliveryAssumption ==
    /\ Token \in [Requests -> Vehicles]
    /\ Wanted \in [Requests -> SUBSET Segments]
    /\ LeavesAt \in [Requests -> Nat]
    /\ Stay \in [Vehicles -> [start : 0..99, end : 0..99]]
    /\ Buffered \in [Vehicles -> SUBSET Segments]
    /\ MayFail \in BOOLEAN /\ MissedThreshold \in Nat /\ SyncThreshold \in Nat \ {0} /\ MaxTime \in Nat

VARIABLES
    routes,     \* an ordered dictionary: per token, deadline and undelivered segments
    store,      \* segments in redis
    unstored,   \* what the daemon has still to write
    holder,     \* of the mutex: "none", "daemon", "monitor"
    taken,      \* requests taken in
    notices,    \* messages in the channel: who fetched what
    contacts,   \* contact_history: the vehicles in it
    fetched,    \* per vehicle, what it has
    since,      \* per vehicle, what it fetched since its route was last registered
    clock,      \* of the simulation
    monTime,    \* the monitor's own
    monitor,    \* where its loop stands: "tick", "check", "send", "clean", "dead"
    missed      \* the route it reports, or none

daemonVars == <<store, unstored, taken>>
contentVars == <<contacts, fetched>>
monitorVars == <<monTime, monitor, missed>>
vars == <<routes, holder, notices, since, clock, daemonVars, contentVars, monitorVars>>

Route == [token : Vehicles, deadline : Nat, left : SUBSET Segments]
NoRoute == [token |-> "none"]
Tokens(rs) == {rs[i].token : i \in DOMAIN rs}
Without(rs, i) == [j \in 1..Len(rs) - 1 |-> IF j < i THEN rs[j] ELSE rs[j + 1]]

Init ==
    /\ routes = <<>> /\ store = {} /\ unstored = {} /\ holder = "none" /\ taken = {}
    /\ notices = <<>> /\ contacts = {}
    /\ fetched = Buffered /\ since = [v \in Vehicles |-> {}]
    /\ clock = 0 /\ monTime = 0 /\ monitor = "tick" /\ missed = NoRoute

Tick ==
    /\ clock < MaxTime
    /\ clock' = clock + 1
    /\ UNCHANGED <<routes, holder, notices, since, daemonVars, contentVars, monitorVars>>

-----------------------------------------------------------------------------
(* The daemon.  HandleDownloadRequest commits to all it is asked for.      *)

\* A mistake: a dictionary that keeps both.
WithBothRoutes(rs, new) == Append(rs, new)

\* A route takes the place of an older one under the same token, where that is.
WithRoute(rs, new) ==
    IF new.token \in Tokens(rs)
    THEN [i \in DOMAIN rs |-> IF rs[i].token = new.token THEN new ELSE rs[i]]
    ELSE Append(rs, new)

AddRoute(r) ==
    /\ r \notin taken /\ holder = "none"
    /\ taken' = taken \cup {r}
    /\ routes' = WithRoute(routes, [token |-> Token[r], left |-> Wanted[r],
                                    deadline |-> LeavesAt[r] + MissedThreshold])
    /\ since' = [since EXCEPT ![Token[r]] = {}]
    /\ holder' = "daemon" /\ unstored' = Wanted[r]
    /\ UNCHANGED <<notices, clock, store, contentVars, monitorVars>>

\* addSegments, one by one and with the mutex held.
AddSegment(s) ==
    /\ holder = "daemon" /\ s \in unstored
    /\ unstored' = unstored \ {s} /\ store' = store \cup {s}
    /\ UNCHANGED <<routes, holder, notices, since, clock, taken, contentVars, monitorVars>>

RouteAdded ==
    /\ holder = "daemon" /\ unstored = {}
    /\ holder' = "none"
    /\ UNCHANGED <<routes, notices, since, clock, daemonVars, contentVars, monitorVars>>

-----------------------------------------------------------------------------
(* The content server.                                                     *)

\* Times arrive as strings and are compared as such: "9" > "10".
AsString(n) == IF n < 10 THEN 11 * n ELSE n + n \div 10 + 1
Before(s, t) == AsString(s) < AsString(t)
Overlap(v, w) == Before(Stay[w].start, Stay[v].end) /\ Before(Stay[v].start, Stay[w].end)

\* can_make_contact counts all contacts there have been, its own among them.
CanMakeContact(v) == Cardinality({w \in contacts : Overlap(v, w)}) < 2

\* do_GET with a key: at the end of its contact a vehicle asks what is here; without
\* CanMakeContact it is told that the node is busy.
ListSegments(v) ==
    /\ Stay[v].end <= clock
    /\ CanMakeContact(v)
    /\ contacts' = contacts \cup {v}
    /\ UNCHANGED <<routes, holder, notices, since, clock, daemonVars, fetched, monitorVars>>

\* do_GET with a segment: hand it out and publish that.  A vehicle asks for what it was
\* listed and lacks.
FetchSegment(v, s) ==
    /\ v \in contacts /\ s \in store \ fetched[v]
    /\ fetched' = [fetched EXCEPT ![v] = @ \cup {s}]
    /\ since' = [since EXCEPT ![v] = @ \cup {s}]
    /\ notices' = Append(notices, [token |-> v, segment |-> s])
    /\ UNCHANGED <<routes, holder, clock, daemonVars, contacts, monitorVars>>

\* do_GET with a reset: the vehicle found nothing it lacks.
Reset(v) ==
    /\ v \in contacts
    /\ contacts' = contacts \ {v}
    /\ UNCHANGED <<routes, holder, notices, since, clock, daemonVars, fetched, monitorVars>>

-----------------------------------------------------------------------------
(* The listener thread.                                                    *)

\* updateDeliveryForRoute; a notice for a route that is not known is dropped.
Delivered(rs, n) ==
    [i \in DOMAIN rs |-> IF rs[i].token = n.token
                         THEN [rs[i] EXCEPT !.left = @ \ {n.segment}] ELSE rs[i]]

\* A mistake: a notice is read without waiting for the mutex, and lost if it is held.
ListenOrLose ==
    /\ notices # <<>>
    /\ routes' = IF holder = "none" THEN Delivered(routes, Head(notices)) ELSE routes
    /\ notices' = Tail(notices)
    /\ UNCHANGED <<holder, since, clock, daemonVars, contentVars, monitorVars>>

Listen ==
    /\ notices # <<>> /\ holder = "none"
    /\ routes' = Delivered(routes, Head(notices))
    /\ notices' = Tail(notices)
    /\ UNCHANGED <<holder, since, clock, daemonVars, contentVars, monitorVars>>

-----------------------------------------------------------------------------
(* The delivery monitor thread.                                            *)

\* A mistake: without an answer from the clock server the monitor's own time goes on.
OwnTimeOr(t) == {monTime + 1, t}

\* synchronize_time: the server's time, or 0 if it does not answer.
SyncedTime(t) == {t} \cup IF MayFail THEN {0} ELSE {}

\* The monitor counts by itself and asks for the time at multiples of SyncThreshold.
MonitorTick ==
    /\ monitor = "tick"
    /\ monTime' \in IF (monTime + 1) % SyncThreshold = 0 THEN SyncedTime(clock) ELSE {monTime + 1}
    /\ monitor' = "check"
    /\ UNCHANGED <<routes, holder, notices, since, clock, daemonVars, contentVars, missed>>

Overdue(route) == route.left # {} /\ monTime > route.deadline
FirstOverdue(i) == Overdue(routes[i]) /\ \A j \in 1..i - 1 : ~Overdue(routes[j])

NothingOverdue ==
    /\ monitor = "check" /\ holder = "none"
    /\ \A i \in DOMAIN routes : ~Overdue(routes[i])
    /\ monitor' = "tick"
    /\ UNCHANGED <<routes, holder, notices, since, clock, daemonVars, contentVars,
                   monTime, missed>>

\* A mistake: the exception leaves the mutex locked.
GetOverdueKeepsLock ==
    /\ monitor = "check" /\ holder = "none"
    /\ \E i \in DOMAIN routes :
          /\ FirstOverdue(i)
          /\ routes' = Without(routes, i)
          /\ missed' = routes[i]
          /\ monitor' = IF i = Len(routes) THEN "send" ELSE "dead"
          /\ holder' = IF i = Len(routes) THEN "none" ELSE "monitor"
    /\ UNCHANGED <<notices, since, clock, daemonVars, contentVars, monTime>>

\* getOverdueSegments takes the first overdue route out of the dictionary it iterates
\* over.  Unless that is the last one, the iteration goes on and raises; the mutex is
\* released, the route is gone and the thread ends.
GetOverdue ==
    /\ monitor = "check" /\ holder = "none"
    /\ \E i \in DOMAIN routes :
          /\ FirstOverdue(i)
          /\ routes' = Without(routes, i)
          /\ missed' = routes[i]
          /\ monitor' = IF i = Len(routes) THEN "send" ELSE "dead"
    /\ UNCHANGED <<holder, notices, since, clock, daemonVars, contentVars, monTime>>

\* makeRequest tells the cloud how many segments were missed (the messages added for
\* them stay empty).  If the cloud does not answer the thread ends.
SendMissed ==
    /\ monitor = "send"
    /\ monitor' = "clean" \/ (MayFail /\ monitor' = "dead")
    /\ UNCHANGED <<routes, holder, notices, since, clock, daemonVars, contentVars, monTime, missed>>

\* A mistake: whatever is left of it.
MayRemoveAny(route) == route.token = missed.token

\* cleanUpRoute, of the route that is gone, or of the one that came in its place.
MayRemove(route) == route.token = missed.token /\ route.left = {}

CleanUpRoute ==
    /\ monitor = "clean" /\ holder = "none"
    /\ routes' = IF \E i \in DOMAIN routes : MayRemove(routes[i])
                 THEN Without(routes, CHOOSE i \in DOMAIN routes : MayRemove(routes[i]))
                 ELSE routes
    /\ missed' = NoRoute /\ monitor' = "tick"
    /\ UNCHANGED <<holder, notices, since, clock, daemonVars, contentVars, monTime>>

-----------------------------------------------------------------------------
Daemon == (\E r \in Requests : AddRoute(r)) \/ (\E s \in Segments : AddSegment(s)) \/ RouteAdded
ContentServer ==
    \E v \in Vehicles : ListSegments(v) \/ Reset(v) \/ \E s \in Segments : FetchSegment(v, s)
Monitor == MonitorTick \/ NothingOverdue \/ GetOverdue \/ SendMissed \/ CleanUpRoute

Next == Tick \/ Daemon \/ ContentServer \/ Listen \/ Monitor
Spec == Init /\ [][Next]_vars

\* The threads go on whenever they can, the daemon finishes what it began, and the
\* simulation's clock runs.
FairSpec ==
    /\ Spec
    /\ WF_vars(Tick) /\ WF_vars(Listen) /\ WF_vars(Monitor)
    /\ WF_vars((\E s \in Segments : AddSegment(s)) \/ RouteAdded)

-----------------------------------------------------------------------------
(* Properties.                                                             *)

TypeOK ==
    /\ routes \in Seq(Route)
    /\ \A i, j \in DOMAIN routes : routes[i].token = routes[j].token => i = j
    /\ store \subseteq Segments /\ unstored \subseteq Segments /\ taken \subseteq Requests
    /\ holder \in {"none", "daemon"}
    /\ notices \in Seq([token : Vehicles, segment : Segments])
    /\ contacts \subseteq Vehicles
    /\ fetched \in [Vehicles -> SUBSET Segments] /\ since \in [Vehicles -> SUBSET Segments]
    /\ clock \in 0..MaxTime /\ monTime \in Nat
    /\ monitor \in {"tick", "check", "send", "clean", "dead"}
    /\ missed \in Route \cup {NoRoute}

\* What a vehicle has fetched since its route was registered is struck off the route,
\* or the notice of it is on its way: a segment that was delivered is reported missed
\* only if the listener has not got to it yet.
FetchedIsNoticed ==
    \A i \in DOMAIN routes : \A s \in routes[i].left \cap since[routes[i].token] :
        \E k \in DOMAIN notices : notices[k] = [token |-> routes[i].token, segment |-> s]

\* However the monitor's clock runs on its own between two synchronisations, and
\* whether they succeed, it gives up a route at most SyncThreshold - 1 before it may.
NeverGivesUpEarly ==
    [][\A i \in DOMAIN routes :
          routes[i].left # {} /\ routes[i].token \notin Tokens(routes')
              => clock + SyncThreshold > routes[i].deadline + 1]_vars

\* A route with undelivered segments leaves the dictionary only into the hands of the
\* monitor, also when the cloud asked again while its predecessor was being reported.
UndeliveredIsKept ==
    [][\A i \in DOMAIN routes :
          routes[i].left # {} /\ routes[i].token \notin Tokens(routes') => missed' = routes[i]]_vars

\* Every notice is dealt with: nobody, not even a thread that dies, keeps the mutex.
NoticesHandled == notices # <<>> ~> notices = <<>>

\* EdgeMetadataManager.py:145 "clean up routeInfo post overdue calculation": a route
\* that is overdue is reported, in the end, or delivered after all.
OverdueReported ==
    \A v \in Vehicles : \A s \in Segments :
        (\E i \in DOMAIN routes : /\ routes[i].token = v /\ s \in routes[i].left
                                  /\ clock > routes[i].deadline)
            ~> (s \in since[v] \/ (monitor = "clean" /\ missed.token = v))
=============================================================================
