----------------------------- MODULE MCEdgeNode -----------------------------
(* Two requests that share a segment; the cache holds two of the three     *)
(* segments.                                                               *)
EXTENDS EdgeNode

CONSTANTS ra, rb, sa, sb, sc, t1, t2

MCRequests == {ra, rb}
MCArrivalTime == ra :> 1 @@ rb :> 0
MCSegments == {sa, sb, sc}
MCTotalSize == [S \in SUBSET MCSegments |-> Cardinality(S)]
MCSegmentsOf == ra :> <<sa, sb>> @@ rb :> <<sb, sc>>
MCTokens == {t1, t2}
MCTokenId == ra :> t1 @@ rb :> t2
=============================================================================
