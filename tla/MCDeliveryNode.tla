----------------------------- MODULE MCDeliveryNode -----------------------------
(* Instances of DeliveryNode for TLC: three requests, the last of them for the  *)
(* vehicle of the first, whose contact ends when the clock gains a digit.       *)
EXTENDS DeliveryNode, TLC

CONSTANTS v1, v2, v3, s1, s2, r1, r2, r3

MCToken == (r1 :> v1) @@ (r2 :> v2) @@ (r3 :> v1)
MCWanted == (r1 :> {s1, s2}) @@ (r2 :> {s1}) @@ (r3 :> {s1})
MCLeavesAt == (r1 :> 0) @@ (r2 :> 2) @@ (r3 :> 1)
MCStay == (v1 :> [start |-> 0, end |-> 1]) @@ (v2 :> [start |-> 0, end |-> 2])
          @@ (v3 :> [start |-> 0, end |-> 2])
MCBuffered == (v1 :> {}) @@ (v2 :> {s2}) @@ (v3 :> {s1, s2})
=============================================================================
