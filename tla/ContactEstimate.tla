---------------------------- MODULE ContactEstimate ----------------------------
(***************************************************************************)
(* What the cloud makes of a vehicle's route: the contacts with edge nodes   *)
(* (src/cloud/CloudMetadataClient.py) and the bits the radio will carry in   *)
(* each (src/cloud/DownloadManager.py); and what the vehicle credits itself  *)
(* with on the way (src/client/client_actions.py).                          *)
(*                                                                         *)
(* A route is a sequence of points: its time, the nearest node in range as   *)
(* the metadata service names it, or None, and the distance to that, 0 for   *)
(* None.  A table gives bits per second for some distances.                  *)
(***************************************************************************)
EXTENDS Integers, Sequences, FiniteSets, FiniteSetsExt, CloudNodes

CONSTANT None

ASSUME NoneAssumption == None \notin Nodes

Apart(d, e) == IF d < e THEN e - d ELSE d - e

\* A mistake: the next distance in the table, whichever is nearer.
NextDist(table, d) ==
    LET above == {e \in DOMAIN table : e >= d}
    IN  IF above = {} THEN Max(DOMAIN table) ELSE Min(above)

\* get_model_dist: bisect_left, then the nearer neighbour.
ModelDist(table, d) ==
    LET below == {e \in DOMAIN table : e < d}
        above == {e \in DOMAIN table : e >= d}
    IN  IF above = {} THEN Max(DOMAIN table)
        ELSE IF below = {} THEN Min(above)
        ELSE IF Apart(d, Min(above)) < Apart(d, Max(below)) THEN Min(above) ELSE Max(below)

\* get_download_speed of shared/ModelReader.py takes the next distance instead; the
\* vehicle only asks it for distances in the table.
DownloadSpeed(table, d) == table[NextDist(table, d)]

-----------------------------------------------------------------------------
(* Contacts.                                                               *)

Extended(intervals, last) == [intervals EXCEPT ![Len(intervals)].last = last]

\* The intervals of points with a node, in order: a point goes on with the interval
\* of the point before it, or begins one.
WithPoint(route, so, i) ==
    IF route[i].node = None THEN so
    ELSE IF i > 1 /\ route[i].node = route[i - 1].node THEN Extended(so, i)
    ELSE Append(so, [node |-> route[i].node, first |-> i, last |-> i])

IntervalsUpTo(route) ==
    LET upTo[i \in 0..Len(route)] == IF i = 0 THEN <<>> ELSE WithPoint(route, upTo[i - 1], i)
    IN  upTo
Intervals(route) == IntervalsUpTo(route)[Len(route)]

\* A mistake: two contacts with a gap between them are two.
NotMerged(intervals) == intervals

\* Intervals of the same node in succession are merged.
WithInterval(intervals, so, i) ==
    IF so # <<>> /\ so[Len(so)].node = intervals[i].node THEN Extended(so, intervals[i].last)
    ELSE Append(so, intervals[i])

MergedUpTo(intervals) ==
    LET upTo[i \in 0..Len(intervals)] ==
            IF i = 0 THEN <<>> ELSE WithInterval(intervals, upTo[i - 1], i)
    IN  upTo
Merged(intervals) == MergedUpTo(intervals)[Len(intervals)]

\* processNearestNodesResponse.
NodeInfos(route) ==
    LET merged == Merged(Intervals(route))
    IN  [i \in DOMAIN merged |->
            [node |-> merged[i].node, points |-> SubSeq(route, merged[i].first, merged[i].last),
             arrival |-> route[merged[i].first].time,
             duration |-> route[merged[i].last].time - route[merged[i].first].time]]

-----------------------------------------------------------------------------
(* Bits.                                                                   *)

\* getDownloadBytes: each distance until the time of the next point, the last one for
\* a second.  Of points of the same time the first counts.
FirstBits(table, points) ==
    [bits |-> 0, time |-> points[1].time, dist |-> ModelDist(table, points[1].dist)]

AddBits(table, points, so, i) ==
    IF points[i].time = so.time THEN so
    ELSE [bits |-> so.bits + (IF points[i].time > so.time
                              THEN table[so.dist] * (points[i].time - so.time) ELSE 0),
          time |-> points[i].time, dist |-> ModelDist(table, points[i].dist)]

BitsUpTo(table, points) ==
    LET upTo[i \in 1..Len(points)] ==
            IF i = 1 THEN FirstBits(table, points) ELSE AddBits(table, points, upTo[i - 1], i)
    IN  upTo

DownloadBits(table, points) ==
    LET so == BitsUpTo(table, points)[Len(points)]
    IN  so.bits + table[so.dist]

\* get_segments and complete_edge_actions in one stay, which is a contact of the vehicle's
\* for each time it comes into range.  In a contact a distance counts when it changes, and
\* for at least a second; the contact's last one counts a second when it is over.  The
\* first counts from its point's time, but if the vehicle came directly from another
\* node, from a time that is the distance itself.
EnteredDirectly(route, first) == first > 1 /\ route[first - 1].node # None

FirstCredit(table, points, direct) ==
    LET dist == ModelDist(table, points[1].dist)
    IN  [total |-> 0, inContact |-> TRUE, bits |-> 0, dist |-> dist,
         since |-> IF direct THEN dist ELSE points[1].time]

\* A mistake: the bits of the contact before are not reset.
ContactGoesOn(table, so, p) ==
    [so EXCEPT !.inContact = TRUE, !.dist = ModelDist(table, p.dist), !.since = p.time]

NextContact(table, so, p) ==
    [so EXCEPT !.inContact = TRUE, !.bits = 0, !.dist = ModelDist(table, p.dist),
               !.since = p.time]

NextDistance(table, so, p) ==
    LET time == p.time - so.since
        bits == DownloadSpeed(table, so.dist) * (IF time = 0 THEN 1 ELSE time)
    IN  [so EXCEPT !.bits = @ + bits, !.dist = ModelDist(table, p.dist), !.since = p.time]

ContactOver(table, so) ==
    [so EXCEPT !.inContact = FALSE, !.total = @ + so.bits + DownloadSpeed(table, so.dist)]

AddCredit(table, points, so, i) ==
    LET p == points[i]
    IN  IF p.node = None THEN IF so.inContact THEN ContactOver(table, so) ELSE so
        ELSE IF ~so.inContact THEN NextContact(table, so, p)
        ELSE IF ModelDist(table, p.dist) = so.dist THEN so ELSE NextDistance(table, so, p)

CreditUpTo(table, points, direct) ==
    LET upTo[i \in 1..Len(points)] ==
            IF i = 1 THEN FirstCredit(table, points, direct)
            ELSE AddCredit(table, points, upTo[i - 1], i)
    IN  upTo

\* What all contacts of a stay were credited with, when the last one is over.
CreditedBits(table, points, direct) ==
    ContactOver(table, CreditUpTo(table, points, direct)[Len(points)]).total

-----------------------------------------------------------------------------
(* What these should be.                                                   *)

\* The points from i to j are a stay with a node: all points with a node are with this
\* one, as are no others around them.
IsStay(route, i, j) ==
    LET n == route[i].node
        others == {k \in DOMAIN route : route[k].node # None}
    IN  /\ n # None /\ route[j].node = n /\ i <= j
        /\ \A k \in others : k \in i..j => route[k].node = n
        /\ \A k \in others : k < i /\ (\A l \in others : l < i => l <= k) => route[k].node # n
        /\ \A k \in others : k > j /\ (\A l \in others : l > j => l >= k) => route[k].node # n

\* The distance of the table that is nearest to d, the smaller of two.
Nearest(table, d) ==
    CHOOSE e \in DOMAIN table :
        \A f \in DOMAIN table : Apart(d, e) < Apart(d, f) \/ (Apart(d, e) = Apart(d, f) /\ e <= f)

\* The vehicle in second t of the contact: where it came to last, when it got there.
PointIn(points, t) ==
    Min({i \in DOMAIN points : /\ points[i].time <= t
                               /\ \A j \in DOMAIN points : points[j].time <= t =>
                                      points[j].time <= points[i].time})

\* What is carried in second t: nothing while the node is out of range.
Carried(table, points, t) ==
    LET p == points[PointIn(points, t)]
    IN  IF p.node = None THEN 0 ELSE table[Nearest(table, p.dist)]

\* The sum of it, second for second.
CarriedUpTo(table, points) ==
    LET upTo[t \in points[1].time..points[Len(points)].time] ==
            Carried(table, points, t) + IF t = points[1].time THEN 0 ELSE upTo[t - 1]
    IN  upTo

CarriedBits(table, points) == CarriedUpTo(table, points)[points[Len(points)].time]
=============================================================================
