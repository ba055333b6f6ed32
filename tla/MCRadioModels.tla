----------------------------- MODULE MCRadioModels -----------------------------
(* Two nodes the cloud knows, one of them with a table of two distances, and   *)
(* one it does not; points may share a second or be two apart.                *)
EXTENDS RadioModels, TLC

CONSTANTS na, nb, nc, none

S(later, node, dist) == [later |-> later, node |-> node, dist |-> dist]

MCModelFile == (na :> ((3 :> 4) @@ (6 :> 1))) @@ (nb :> (3 :> 2))
MCSteps == {S(1, none, 0), S(0, na, 2), S(1, na, 4), S(2, na, 8), S(1, nb, 3), S(1, nc, 3)}
=============================================================================
