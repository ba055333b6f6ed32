--------------------------- MODULE MCSegmentCache ---------------------------
(* Four segments, one of them twice as large as the others, and a capacity *)
(* of one less than all of them: three segments can be in the eviction     *)
(* list together (where the insertion point matters), and the large one    *)
(* may have to evict two.                                                  *)
EXTENDS SegmentCache, FiniteSetsExt

CONSTANTS sa, sb, sc, sd

MCSegments == {sa, sb, sc, sd}
MCSize == sa :> 1 @@ sb :> 1 @@ sc :> 1 @@ sd :> 2
MCTotalSize == [S \in SUBSET MCSegments |-> MapThenSumSet(LAMBDA s : MCSize[s], S)]
=============================================================================
