--------------------------- MODULE MCClientSimulation ---------------------------
(* Two clients and two videos with a segment in common.  The first client's *)
(* trajectory passes from one node to the other and into none, with a second *)
(* that has two points and one that has none; the second client's ends in    *)
(* range of a node.                                                        *)
EXTENDS ClientSimulation

CONSTANTS na, nb, none, va, vb

P(time, node, dist) == [time |-> time, node |-> node, dist |-> dist]

MCSpeed == [n \in {na, nb} |-> [d \in {5, 9} |-> IF d = 5 THEN 24 ELSE 8]]
MCUrls == [v \in {va, vb} |-> IF v = va THEN <<1, 2, 3, 4, 5, 6>> ELSE <<7, 2>>]
MCSize(s) == IF s = 2 THEN 2 ELSE 1
MCTotalSize == [S \in SUBSET (1..7) |-> MapThenSumSet(MCSize, S)]
MCTrajectory ==
    << <<P(1, none, 5), P(2, na, 9), P(3, na, 5), P(3, na, 9), P(4, nb, 5), P(5, nb, 9), P(7, none, 5), P(8, none, 5)>>,
       <<P(1, none, 5), P(3, none, 5), P(4, nb, 9), P(5, nb, 5), P(6, nb, 9), P(7, na, 5)>> >>
MCChoice == <<{va, vb}, {va}>>
=============================================================================
