--------------------------- MODULE MCCloudScheduler ---------------------------
(* Three requests for one video of four segments, along two nodes the cloud *)
(* knows and one it does not.                                              *)
EXTENDS CloudScheduler

CONSTANTS na, nb, nx, cdn, ra, rb, rc

C(n, arrival, duration, bytes) ==
    [node |-> n, arrival |-> arrival, duration |-> duration, bytes |-> bytes]
T(start, timestamp, cs) == [start |-> start, timestamp |-> timestamp, contacts |-> cs]

MCNodes == {na, nb, nx}
MCConfigured == {na, nb}
MCRoutes == {ra, rb, rc}
MCOffset == [i \in 0..4 |-> i]
\* The origin is slower than a neighbour, a neighbour as slow as the node itself.
MCTimePerByte == [n \in MCConfigured |-> [s \in MCConfigured \cup {cdn} |-> IF s = cdn THEN 2 ELSE 1]]

\* The second request passes the same node twice.
MCTrip ==
    ra :> T(4, 1, <<C(na, 4, 2, 2), C(nb, 7, 2, 2)>>) @@
    rb :> T(4, 3, <<C(na, 4, 1, 2), C(nb, 6, 1, 3), C(na, 7, 2, 2)>>) @@
    rc :> T(5, 5, <<C(nx, 5, 1, 2), C(nb, 7, 4, 3)>>)
=============================================================================
