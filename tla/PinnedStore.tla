----------------------------- MODULE PinnedStore -----------------------------
(***************************************************************************)
(* What the edge node's cache promises its users, whatever its eviction     *)
(* policy: a store of bounded size that takes a segment in or refuses it,   *)
(* makes room by dropping segments nobody needs, and keeps a segment from   *)
(* the moment a route needs it until that route releases it.                *)
(***************************************************************************)
EXTENDS Integers

CONSTANTS Segments, Routes, TotalSize, Capacity

VARIABLES
    held,       \* the segments in the store
    needs       \* per segment, the routes it is kept for

store == <<held, needs>>

Unneeded == {s \in held : needs[s] = {}}

StoreInit ==
    /\ held = {}
    /\ needs = [s \in Segments |-> {}]

\* Take s in for route r, dropping some unneeded segments D.
Take(s, r) ==
    \E D \in SUBSET Unneeded :
        /\ held' = (held \ D) \cup {s}
        /\ TotalSize[held'] <= Capacity
        /\ needs' = [needs EXCEPT ![s] = @ \cup {r}]

\* Route r is done with s; the store may keep it.
Release(s, r) ==
    /\ s \in held /\ r \in needs[s]
    /\ needs' = [needs EXCEPT ![s] = @ \ {r}]
    /\ UNCHANGED held

StoreNext == \E s \in Segments, r \in Routes : Take(s, r) \/ Release(s, r)

StoreSpec == StoreInit /\ [][StoreNext]_store
=============================================================================
