----------------------------- MODULE MCVehicleRun -----------------------------
(* Two vehicles on a clock that ends while the second is on its way.  The  *)
(* first passes from one node's range into another's and then into none;    *)
(* the second has two points in one second and ends its trip in range.      *)
EXTENDS VehicleRun

CONSTANTS na, nb, none

P(time, node, bw) == [time |-> time, node |-> node, bw |-> bw]

MCNodes == {na, nb}
MCSize(s) == IF s = 2 THEN 2 ELSE 1
MCTotalSize == [S \in SUBSET (1..VideoLength) |-> MapThenSumSet(MCSize, S)]
MCTrajectory ==
    << <<P(2, none, 0), P(3, na, 16), P(4, na, 24), P(5, nb, 16), P(6, nb, 8), P(7, none, 0), P(8, none, 0)>>,
       <<P(1, none, 0), P(2, none, 0), P(2, na, 16), P(3, na, 8), P(4, none, 0), P(5, nb, 24)>> >>
=============================================================================
