---------------------------- MODULE SegmentCache ----------------------------
(***************************************************************************)
(* The segment cache of a Go edge node (src/edge_go/segmentcache.go).       *)
(*                                                                         *)
(* A cached segment is tagged with the routes that still need it.  When    *)
(* the last of them is gone the segment joins `evictable`, from whose head *)
(* later additions take the space they are short of.  Every exported       *)
(* method of the source holds cache.mu throughout, so that each is one     *)
(* action here, the eviction loop included.                                *)
(*                                                                         *)
(* Sizes enter through the constant TotalSize, the size in bytes of a set  *)
(* of segments; the size of one segment is that of its singleton.          *)
(***************************************************************************)
EXTENDS Integers, Sequences, SequencesExt

CONSTANTS
    Segments,       \* segment identifiers
    Routes,         \* route identifiers (tokens)
    TotalSize,      \* size in bytes of every set of segments
    Capacity,       \* cache.size
    CachePolicy,    \* "lru" or "lfu"
    MaxTimestamp    \* bound on the logical clock of the cache

LRU == "lru"
LFU == "lfu"

\* TotalSize is a measure: what two disjoint sets occupy together is the sum
\* of what they occupy separately.
ASSUME SizeAssumption ==
    /\ TotalSize \in [SUBSET Segments -> Nat]
    /\ \A S, T \in SUBSET Segments :
          S \cap T = {} => TotalSize[S \cup T] = TotalSize[S] + TotalSize[T]

ASSUME ConfigAssumption ==
    /\ Capacity \in Nat
    /\ MaxTimestamp \in Nat
    /\ CachePolicy \in {LRU, LFU}

VARIABLES
    cached,             \* the keys of segmentRouteMap
    routeIdSet,         \* per segment, the routes that need it
    timestamp,          \* per segment, the logical time of its last touch
    popularity,         \* per segment, how often it was added again
    evictable,          \* the eviction list, next victim first
    currentSize,        \* bytes held
    evictableSize,      \* bytes held by evictable segments
    currentTimestamp    \* the logical clock

vars == <<cached, routeIdSet, timestamp, popularity, evictable,
          currentSize, evictableSize, currentTimestamp>>

SizeOf(s) == TotalSize[{s}]

Init ==
    /\ cached = {}
    /\ routeIdSet = [s \in Segments |-> {}]
    /\ timestamp = [s \in Segments |-> 0]
    /\ popularity = [s \in Segments |-> 0]
    /\ evictable = <<>>
    /\ currentSize = 0
    /\ evictableSize = 0
    /\ currentTimestamp = 0

-----------------------------------------------------------------------------
(* Queries.                                                                *)

HasSegment(s) == s \in cached

\* A segment that is not cached counts as delivered, whatever the reason.
DeliveredSegment(s, r) == s \in cached => r \notin routeIdSet[s]

GetAvailableFreeSpace == Capacity - currentSize + evictableSize

-----------------------------------------------------------------------------
(* Eviction.  Victims(k) are the segments that k calls of pop remove.      *)

Victims(k) == {evictable[i] : i \in 1..k}

\* isSegmentCacheFull, the answer given before anything is popped: even
\* without all the unused segments there is no room.
HopelesslyFull(excess) ==
    /\ currentSize + excess > Capacity
    /\ currentSize - evictableSize + excess > Capacity

\* A mistake: the room is measured without the segment to be added.
FitsAfterIgnoringNew(k, excess) == currentSize - TotalSize[Victims(k)] <= Capacity

\* After k pops `excess` more bytes fit.
FitsAfter(k, excess) == currentSize - TotalSize[Victims(k)] + excess <= Capacity

\* isSegmentCacheFull, the loop: it stops at the first k that makes room, or
\* when pop has nothing left to evict.
EvictionCount(k, excess) ==
    /\ k \in 0..Len(evictable)
    /\ \A j \in 0..(k - 1) : ~FitsAfter(j, excess)
    /\ FitsAfter(k, excess) \/ k = Len(evictable)

\* k calls of pop: the entries of the victims are deleted.
Pop(k) ==
    /\ evictable' = SubSeq(evictable, k + 1, Len(evictable))
    /\ evictableSize' = evictableSize - TotalSize[Victims(k)]

\* What a metadata field holds after the victims' entries are deleted.
Forget(field, k, blank) ==
    [s \in Segments |-> IF s \in Victims(k) THEN blank ELSE field[s]]

-----------------------------------------------------------------------------
(* AddSegment: evict, then add or touch.                                   *)

AddRefused(s) ==
    /\ HopelesslyFull(SizeOf(s))
    /\ UNCHANGED vars

\* A mistake: the new entry is tagged with the segment, not with the route.
PushSwapped(s, r, k) ==
    /\ s \notin cached \ Victims(k)
    /\ Pop(k)
    /\ cached' = (cached \ Victims(k)) \cup {s}
    /\ currentSize' = currentSize - TotalSize[Victims(k)] + SizeOf(s)
    /\ routeIdSet' = [Forget(routeIdSet, k, {}) EXCEPT ![s] = {s}]
    /\ popularity' = [Forget(popularity, k, 0) EXCEPT ![s] = 0]

\* The segment is not cached, or was itself just evicted: a new entry.
Push(s, r, k) ==
    /\ s \notin cached \ Victims(k)
    /\ Pop(k)
    /\ cached' = (cached \ Victims(k)) \cup {s}
    /\ currentSize' = currentSize - TotalSize[Victims(k)] + SizeOf(s)
    /\ routeIdSet' = [Forget(routeIdSet, k, {}) EXCEPT ![s] = {r}]
    /\ popularity' = [Forget(popularity, k, 0) EXCEPT ![s] = 0]

\* updateEvictable: a touched segment leaves the list, if it is in it.
Promote(s, list, size) ==
    \/ /\ s \notin ToSet(list)
       /\ evictable' = list
       /\ evictableSize' = size
    \/ \E i \in DOMAIN list :
        /\ list[i] = s /\ \A j \in 1..(i - 1) : list[j] # s
        /\ evictable' = RemoveAt(list, i)
        /\ evictableSize' = size - SizeOf(s)

\* The segment is still cached: one more route needs it.
Touch(s, r, k) ==
    /\ s \in cached \ Victims(k)
    /\ Promote(s, SubSeq(evictable, k + 1, Len(evictable)),
               evictableSize - TotalSize[Victims(k)])
    /\ cached' = cached \ Victims(k)
    /\ currentSize' = currentSize - TotalSize[Victims(k)]
    /\ routeIdSet' = [Forget(routeIdSet, k, {}) EXCEPT ![s] = @ \cup {r}]
    /\ popularity' = [Forget(popularity, k, 0) EXCEPT ![s] = @ + 1]

Admit(s, r, k) ==
    /\ Push(s, r, k) \/ Touch(s, r, k)
    /\ timestamp' = [Forget(timestamp, k, 0) EXCEPT ![s] = currentTimestamp + 1]
    /\ currentTimestamp' = currentTimestamp + 1

\* pop failed: the victims are gone, and the caller only sees an error.
RunOut(k) ==
    /\ Pop(k)
    /\ cached' = cached \ Victims(k)
    /\ currentSize' = currentSize - TotalSize[Victims(k)]
    /\ routeIdSet' = Forget(routeIdSet, k, {})
    /\ timestamp' = Forget(timestamp, k, 0)
    /\ popularity' = Forget(popularity, k, 0)
    /\ UNCHANGED currentTimestamp

AddSegment(s, r) ==
    /\ currentTimestamp < MaxTimestamp
    /\ \/ AddRefused(s)
       \/ /\ ~HopelesslyFull(SizeOf(s))
          /\ \E k \in 0..Len(evictable) :
                /\ EvictionCount(k, SizeOf(s))
                /\ IF FitsAfter(k, SizeOf(s)) THEN Admit(s, r, k) ELSE RunOut(k)

-----------------------------------------------------------------------------
(* UpdateSegmentStatus: route r no longer needs segment s.                 *)

\* What the policy sorts by.
Rank(s) == IF CachePolicy = LRU THEN timestamp[s] ELSE popularity[s]

\* addToEvictable goes in front of the first segment of a greater rank, and in
\* front of everything (idx keeps its initial 0) when there is none.
Outranked(s, i) == Rank(s) < Rank(evictable[i])
InsertsAt(s, i) ==
    \/ i \in DOMAIN evictable /\ Outranked(s, i) /\ \A j \in 1..(i - 1) : ~Outranked(s, j)
    \/ i = 1 /\ \A j \in DOMAIN evictable : ~Outranked(s, j)

\* A mistake: the bytes that became evictable are not counted.
AddToEvictableUncounted(s) ==
    /\ \E i \in 1..(Len(evictable) + 1) :
          InsertsAt(s, i) /\ evictable' = InsertAt(evictable, i, s)
    /\ UNCHANGED evictableSize

AddToEvictable(s) ==
    /\ \E i \in 1..(Len(evictable) + 1) :
          InsertsAt(s, i) /\ evictable' = InsertAt(evictable, i, s)
    /\ evictableSize' = evictableSize + SizeOf(s)

\* Mistakes: evictable although another route needs it; every route forgotten.
UnpinTooEarly(s, r) ==
    /\ s \in cached /\ r \in routeIdSet[s]
    /\ routeIdSet' = [routeIdSet EXCEPT ![s] = @ \ {r}]
    /\ AddToEvictable(s)
    /\ UNCHANGED <<cached, timestamp, popularity, currentSize, currentTimestamp>>

UnpinAll(s, r) ==
    /\ s \in cached /\ r \in routeIdSet[s]
    /\ routeIdSet' = [routeIdSet EXCEPT ![s] = {}]
    /\ AddToEvictable(s)
    /\ UNCHANGED <<cached, timestamp, popularity, currentSize, currentTimestamp>>

UpdateSegmentStatus(s, r) ==
    \/ /\ s \notin cached \/ r \notin routeIdSet[s]
       /\ UNCHANGED vars
    \/ /\ s \in cached /\ r \in routeIdSet[s]
       /\ routeIdSet' = [routeIdSet EXCEPT ![s] = @ \ {r}]
       /\ IF routeIdSet[s] = {r}
          THEN AddToEvictable(s)
          ELSE UNCHANGED <<evictable, evictableSize>>
       /\ UNCHANGED <<cached, timestamp, popularity, currentSize,
                      currentTimestamp>>

Next ==
    \E s \in Segments, r \in Routes : AddSegment(s, r) \/ UpdateSegmentStatus(s, r)

Spec == Init /\ [][Next]_vars

-----------------------------------------------------------------------------
(* Properties.                                                             *)

TypeOK ==
    /\ cached \subseteq Segments
    /\ routeIdSet \in [Segments -> SUBSET Routes]
    /\ timestamp \in [Segments -> Nat]
    /\ popularity \in [Segments -> Nat]
    /\ evictable \in Seq(Segments)
    /\ currentSize \in Int
    /\ evictableSize \in Int
    /\ currentTimestamp \in Nat

Unused == {s \in cached : routeIdSet[s] = {}}

\* The eviction list holds exactly the cached segments that no route needs
\* (segmentcache.go:43), and each of them once: a needed one in it would be
\* evicted under a client, a missing one would never be reclaimed, and a second
\* copy would make pop dereference a deleted entry.
EvictableIsUnused ==
    /\ ToSet(evictable) = Unused
    /\ IsInjective(evictable)

\* Deleting an entry deletes its route tags.
OnlyCachedNeeded == \A s \in Segments \ cached : routeIdSet[s] = {}

\* The two counters the admission check trusts equal what is really held.
SizesAccounted ==
    /\ currentSize = TotalSize[cached]
    /\ evictableSize = TotalSize[Unused]

\* The cache never holds more than its capacity.
CapacityRespected == TotalSize[cached] <= Capacity

\* Admission is decided by two counters kept apart from the map they summarise
\* (segmentcache.go:150-172): they are exact after any mixture of additions, hits,
\* evictions and releases, and so the capacity is never exceeded.
SpaceAccounted == SizesAccounted /\ CapacityRespected

\* No step, however many victims it takes, evicts a segment a route needs.
PinnedNeverEvicted ==
    [][\A s \in cached : routeIdSet[s] # {} => s \in cached']_vars

\* The cache implements the store its users rely on: what is cached is held, and
\* the routes a segment is tagged with are those it is kept for.
Store == INSTANCE PinnedStore WITH held <- cached, needs <- routeIdSet
ImplementsPinnedStore == Store!StoreSpec
=============================================================================
