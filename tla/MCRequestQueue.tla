--------------------------- MODULE MCRequestQueue ---------------------------
(* Four requests, two more than the smallest interesting channel has room   *)
(* for: with two tokens in it, one with the worker and one being sent the   *)
(* adder and the worker wait for each other.  The third request is for a    *)
(* vehicle that arrives before the others, so that it can overtake them.    *)
EXTENDS RequestQueue

CONSTANTS ra, rb, rc, rd

MCRequests == {ra, rb, rc, rd}
MCArrivalTime == [r \in MCRequests |-> IF r = rc THEN 1 ELSE 3]
=============================================================================
