------------------------- MODULE SegmentCacheProofs -------------------------
(***************************************************************************)
(* Proofs about SegmentCache for every set of segments and routes, every    *)
(* assignment of sizes, every capacity and both policies.                   *)
(***************************************************************************)
EXTENDS SegmentCache, SequenceTheorems, TLAPS

-----------------------------------------------------------------------------
(* Lists without repetitions: what dropping a prefix, removing an element   *)
(* and inserting one do to the set of elements.                             *)

\* Dropping the first k elements of a list without repetitions.
LEMMA DropPrefix ==
    ASSUME NEW S, NEW q \in Seq(S), IsInjective(q), NEW k \in 0..Len(q)
    PROVE  LET rest == SubSeq(q, k + 1, Len(q))
           IN  /\ rest \in Seq(S)
               /\ IsInjective(rest)
               /\ ToSet(rest) = ToSet(q) \ {q[i] : i \in 1..k}
<1> DEFINE rest == SubSeq(q, k + 1, Len(q))
<1>1. q \in [1..Len(q) -> S] /\ Len(q) \in Nat /\ DOMAIN q = 1..Len(q)
  BY LenProperties
<1>2. /\ rest \in Seq(S)
      /\ Len(rest) = Len(q) - k
      /\ \A i \in 1..(Len(q) - k) : rest[i] = q[k + i]
  <2>1. \A i \in (k + 1)..Len(q) : q[i] \in S
    BY <1>1
  <2> QED
    BY <1>1, <2>1, SubSeqProperties
<1> HIDE DEF rest
<1>3. DOMAIN rest = 1..(Len(q) - k)
  BY <1>2, LenProperties
<1>4. IsInjective(rest)
  <2> SUFFICES ASSUME NEW a \in DOMAIN rest, NEW b \in DOMAIN rest, rest[a] = rest[b]
               PROVE  a = b
    BY DEF IsInjective
  <2>1. a \in 1..(Len(q) - k) /\ b \in 1..(Len(q) - k)
    BY <1>3
  <2>2. k + a \in DOMAIN q /\ k + b \in DOMAIN q
    BY <1>1, <2>1
  <2>3. q[k + a] = q[k + b]
    BY <1>2, <2>1
  <2>4. k + a = k + b
    BY <2>2, <2>3 DEF IsInjective
  <2> QED
    BY <1>1, <2>1, <2>4
<1>5. ToSet(rest) = ToSet(q) \ {q[i] : i \in 1..k}
  <2>1. ASSUME NEW x \in ToSet(rest)
        PROVE  x \in ToSet(q) \ {q[i] : i \in 1..k}
    <3>1. PICK a \in DOMAIN rest : x = rest[a]
      BY DEF ToSet
    <3>2. k + a \in DOMAIN q /\ x = q[k + a]
      BY <1>1, <1>2, <1>3, <3>1
    <3>3. \A i \in 1..k : q[i] # x
      <4> SUFFICES ASSUME NEW i \in 1..k, q[i] = q[k + a] PROVE FALSE
        BY <3>2
      <4>1. i = k + a
        BY <1>1, <3>2 DEF IsInjective
      <4> QED
        BY <1>3, <4>1, <1>1
    <3> QED
      BY <3>2, <3>3 DEF ToSet
  <2>2. ASSUME NEW x \in ToSet(q), x \notin {q[i] : i \in 1..k}
        PROVE  x \in ToSet(rest)
    <3>1. PICK a \in DOMAIN q : x = q[a]
      BY DEF ToSet
    <3>2. a \in (k + 1)..Len(q)
      BY <1>1, <2>2, <3>1
    <3>3. a - k \in DOMAIN rest /\ rest[a - k] = q[a]
      BY <1>1, <1>2, <1>3, <3>2
    <3> QED
      BY <3>1, <3>3 DEF ToSet
  <2> QED
    BY <2>1, <2>2
<1> QED
  BY <1>2, <1>4, <1>5 DEF rest

\* Removing the element at position i.
LEMMA RemoveAtPosition ==
    ASSUME NEW S, NEW q \in Seq(S), IsInjective(q), NEW i \in 1..Len(q)
    PROVE  /\ RemoveAt(q, i) \in Seq(S)
           /\ IsInjective(RemoveAt(q, i))
           /\ ToSet(RemoveAt(q, i)) = ToSet(q) \ {q[i]}
<1> DEFINE left == SubSeq(q, 1, i - 1)
           right == SubSeq(q, i + 1, Len(q))
           r == left \o right
           n == Len(q)
<1>1. q \in [1..n -> S] /\ n \in Nat /\ DOMAIN q = 1..n
  BY LenProperties
<1>2. /\ left \in Seq(S) /\ Len(left) = i - 1
      /\ \A j \in 1..(i - 1) : left[j] = q[j]
  <2>1. \A j \in 1..(i - 1) : q[j] \in S
    BY <1>1
  <2> QED
    BY <1>1, <2>1, SubSeqProperties
<1>3. /\ right \in Seq(S) /\ Len(right) = n - i
      /\ \A j \in 1..(n - i) : right[j] = q[j + i]
  <2>1. \A j \in (i + 1)..n : q[j] \in S
    BY <1>1
  <2> QED
    BY <1>1, <2>1, SubSeqProperties
<1> HIDE DEF left, right
<1>r. r = left \o right
  OBVIOUS
<1> HIDE DEF r
<1>4. /\ r \in Seq(S) /\ Len(r) = n - 1 /\ DOMAIN r = 1..(n - 1)
      /\ \A j \in 1..(n - 1) : r[j] = IF j < i THEN q[j] ELSE q[j + 1]
  <2>1. /\ r \in Seq(S) /\ Len(r) = Len(left) + Len(right)
        /\ \A j \in 1..(Len(left) + Len(right)) :
              r[j] = IF j <= Len(left) THEN left[j] ELSE right[j - Len(left)]
    BY <1>r, <1>2, <1>3, ConcatProperties
  <2>2. Len(r) = n - 1
    BY <1>1, <1>2, <1>3, <2>1
  <2>4. DOMAIN r = 1..(n - 1)
    BY <2>1, <2>2, LenProperties
  <2>5. \A j \in 1..(n - 1) : r[j] = IF j <= i - 1 THEN left[j] ELSE right[j - (i - 1)]
    <3>1. Len(left) + Len(right) = n - 1
      BY <1>1, <1>2, <1>3
    <3> QED
      BY <1>2, <2>1, <3>1
  <2>3. ASSUME NEW j \in 1..(n - 1)
        PROVE  r[j] = IF j < i THEN q[j] ELSE q[j + 1]
    <3>1. CASE j < i
      BY <1>1, <1>2, <2>5, <3>1
    <3>2. CASE ~(j < i)
      <4>1. j - (i - 1) \in 1..(n - i)
        BY <1>1, <3>2
      <4>2. r[j] = right[j - (i - 1)]
        BY <1>1, <2>5, <3>2
      <4>3. (j - (i - 1)) + i = j + 1
        BY <1>1
      <4> QED
        BY <1>3, <3>2, <4>1, <4>2, <4>3
    <3> QED
      BY <3>1, <3>2
  <2> QED
    BY <2>1, <2>2, <2>3, <2>4
<1>5. IsInjective(r)
  <2> SUFFICES ASSUME NEW a \in 1..(n - 1), NEW b \in 1..(n - 1), r[a] = r[b]
               PROVE  a = b
    BY <1>4 DEF IsInjective
  <2> DEFINE up(j) == IF j < i THEN j ELSE j + 1
  <2>1. up(a) \in DOMAIN q /\ up(b) \in DOMAIN q /\ q[up(a)] = q[up(b)]
    BY <1>1, <1>4
  <2>2. up(a) = up(b)
    BY <2>1 DEF IsInjective
  <2> QED
    BY <1>1, <2>2
<1>6. ToSet(r) = ToSet(q) \ {q[i]}
  <2>1. ASSUME NEW x \in ToSet(r)
        PROVE  x \in ToSet(q) \ {q[i]}
    <3>1. PICK a \in 1..(n - 1) : x = r[a]
      BY <1>4 DEF ToSet
    <3> DEFINE b == IF a < i THEN a ELSE a + 1
    <3>2. b \in DOMAIN q /\ x = q[b] /\ b # i
      BY <1>1, <1>4, <3>1
    <3>3. q[b] # q[i]
      BY <1>1, <3>2 DEF IsInjective
    <3> QED
      BY <3>2, <3>3 DEF ToSet
  <2>2. ASSUME NEW x \in ToSet(q), x # q[i]
        PROVE  x \in ToSet(r)
    <3>1. PICK b \in 1..n : x = q[b]
      BY <1>1 DEF ToSet
    <3> DEFINE a == IF b < i THEN b ELSE b - 1
    <3>2. b # i
      BY <2>2, <3>1
    <3>3. a \in 1..(n - 1) /\ x = r[a]
      <4>1. a \in 1..(n - 1)
        BY <1>1, <3>2
      <4>2. (IF a < i THEN a ELSE a + 1) = b
        BY <1>1, <3>2
      <4> QED
        BY <1>4, <3>1, <4>1, <4>2
    <3> QED
      BY <1>4, <3>3 DEF ToSet
  <2> QED
    BY <2>1, <2>2
<1> QED
  BY <1>4, <1>5, <1>6 DEF RemoveAt, r, left, right

\* Inserting a new element at position i.
LEMMA InsertAtPosition ==
    ASSUME NEW S, NEW q \in Seq(S), IsInjective(q),
           NEW i \in 1..(Len(q) + 1), NEW x \in S, x \notin ToSet(q)
    PROVE  /\ InsertAt(q, i, x) \in Seq(S)
           /\ IsInjective(InsertAt(q, i, x))
           /\ ToSet(InsertAt(q, i, x)) = ToSet(q) \cup {x}
<1> DEFINE left == SubSeq(q, 1, i - 1)
           right == SubSeq(q, i, Len(q))
           n == Len(q)
           r == (left \o <<x>>) \o right
<1>1. q \in [1..n -> S] /\ n \in Nat /\ DOMAIN q = 1..n
  BY LenProperties
<1>2. /\ left \in Seq(S) /\ Len(left) = i - 1
      /\ \A j \in 1..(i - 1) : left[j] = q[j]
  <2>1. \A j \in 1..(i - 1) : q[j] \in S
    BY <1>1
  <2> QED
    BY <1>1, <2>1, SubSeqProperties
<1>3. /\ right \in Seq(S) /\ Len(right) = n - i + 1
      /\ \A j \in 1..(n - i + 1) : right[j] = q[i + j - 1]
  <2>1. \A j \in i..n : q[j] \in S
    BY <1>1
  <2> QED
    BY <1>1, <2>1, SubSeqProperties
<1>4. <<x>> \in Seq(S) /\ Len(<<x>>) = 1 /\ <<x>>[1] = x
  OBVIOUS
<1> HIDE DEF left, right
<1>5. /\ left \o <<x>> \in Seq(S)
      /\ Len(left \o <<x>>) = i
      /\ \A j \in 1..i : (left \o <<x>>)[j] = IF j < i THEN q[j] ELSE x
  <2>1. /\ left \o <<x>> \in Seq(S)
        /\ Len(left \o <<x>>) = Len(left) + Len(<<x>>)
        /\ \A j \in 1..(Len(left) + Len(<<x>>)) :
              (left \o <<x>>)[j] = IF j <= Len(left) THEN left[j] ELSE <<x>>[j - Len(left)]
    BY <1>2, <1>4, ConcatProperties
  <2>2. Len(left) = i - 1 /\ i \in Nat
    BY <1>1, <1>2
  <2>3. \A j \in 1..i : (left \o <<x>>)[j] = IF j < i THEN left[j] ELSE <<x>>[j - (i - 1)]
    BY <1>4, <2>1, <2>2
  <2>4. \A j \in 1..i : (left \o <<x>>)[j] = IF j < i THEN q[j] ELSE x
    BY <1>2, <1>4, <2>2, <2>3
  <2> QED
    BY <1>4, <2>1, <2>2, <2>4
<1>r. r = (left \o <<x>>) \o right
  OBVIOUS
<1> HIDE DEF r
<1>6. /\ r \in Seq(S) /\ Len(r) = n + 1 /\ DOMAIN r = 1..(n + 1)
      /\ \A j \in 1..(n + 1) :
            r[j] = IF j < i THEN q[j] ELSE IF j = i THEN x ELSE q[j - 1]
  <2> DEFINE front == left \o <<x>>
  <2> HIDE DEF front
  <2>1. /\ front \o right \in Seq(S) /\ Len(front \o right) = Len(front) + Len(right)
        /\ \A j \in 1..(Len(front) + Len(right)) :
              (front \o right)[j] = IF j <= Len(front) THEN front[j] ELSE right[j - Len(front)]
    <3>1. front \in Seq(S)
      BY <1>5 DEF front
    <3> QED
      BY <1>3, <3>1, ConcatProperties
  <2>2. Len(front) = i /\ \A j \in 1..i : front[j] = IF j < i THEN q[j] ELSE x
    BY <1>5 DEF front
  <2>3. r = front \o right
    BY <1>r DEF front
  <2>4. r \in Seq(S) /\ Len(r) = n + 1
    BY <1>1, <1>3, <2>1, <2>2, <2>3
  <2>6. DOMAIN r = 1..(n + 1)
    BY <2>4, LenProperties
  <2>5. ASSUME NEW j \in 1..(n + 1)
        PROVE  r[j] = IF j < i THEN q[j] ELSE IF j = i THEN x ELSE q[j - 1]
    <3>1. CASE j <= i
      BY <1>1, <1>3, <2>1, <2>2, <2>3, <3>1
    <3>2. CASE ~(j <= i)
      <4>1. j - i \in 1..(n - i + 1)
        BY <1>1, <3>2
      <4>2. r[j] = right[j - i]
        BY <1>1, <1>3, <2>1, <2>2, <2>3, <3>2
      <4>3. i + (j - i) - 1 = j - 1
        BY <1>1
      <4> QED
        BY <1>1, <1>3, <3>2, <4>1, <4>2, <4>3
    <3> QED
      BY <1>1, <3>1, <3>2
  <2> QED
    BY <2>4, <2>5, <2>6
<1> DEFINE down(j) == IF j < i THEN j ELSE j - 1
<1>7. \A j \in 1..n : q[j] # x
  BY <1>1 DEF ToSet
<1>8. IsInjective(r)
  <2> SUFFICES ASSUME NEW a \in 1..(n + 1), NEW b \in 1..(n + 1), r[a] = r[b]
               PROVE  a = b
    BY <1>6 DEF IsInjective
  <2>1. \A j \in 1..(n + 1) : j # i => down(j) \in 1..n /\ r[j] = q[down(j)]
    BY <1>1, <1>6
  <2>2. CASE a = i \/ b = i
    BY <1>1, <1>6, <1>7, <2>1, <2>2
  <2>3. CASE a # i /\ b # i
    <3>1. down(a) = down(b)
      BY <1>1, <2>1, <2>3 DEF IsInjective
    <3> QED
      BY <1>1, <2>3, <3>1
  <2> QED
    BY <2>2, <2>3
<1>9. ToSet(r) = ToSet(q) \cup {x}
  <2>1. ASSUME NEW y \in ToSet(r)
        PROVE  y \in ToSet(q) \cup {x}
    <3>1. PICK a \in 1..(n + 1) : y = r[a]
      BY <1>6 DEF ToSet
    <3>2. y = x \/ (down(a) \in 1..n /\ y = q[down(a)])
      BY <1>1, <1>6, <3>1
    <3> QED
      BY <1>1, <3>2 DEF ToSet
  <2>2. x \in ToSet(r)
    <3>1. i \in 1..(n + 1) /\ r[i] = x
      BY <1>1, <1>6
    <3> QED
      BY <1>6, <3>1 DEF ToSet
  <2>3. ASSUME NEW y \in ToSet(q)
        PROVE  y \in ToSet(r)
    <3>1. PICK b \in 1..n : y = q[b]
      BY <1>1 DEF ToSet
    <3> DEFINE a == IF b < i THEN b ELSE b + 1
    <3>2. a \in 1..(n + 1) /\ r[a] = y
      BY <1>1, <1>6, <3>1
    <3> QED
      BY <1>6, <3>2 DEF ToSet
  <2> QED
    BY <2>1, <2>2, <2>3
<1> QED
  BY <1>6, <1>8, <1>9 DEF InsertAt, r, left, right

-----------------------------------------------------------------------------
(* The invariant.                                                          *)

\* The inductive invariant.  Capacity needs the accounting, the accounting
\* needs the eviction list to be exactly the unused segments, and that needs
\* deleted entries to have lost their route tags.
CacheInv ==
    /\ TypeOK
    /\ EvictableIsUnused
    /\ OnlyCachedNeeded
    /\ SizesAccounted
    /\ CapacityRespected

-----------------------------------------------------------------------------
(* The size measure.                                                       *)

\* Sizes are naturals and the empty set takes no space.
LEMMA SizeType ==
    /\ \A S \in SUBSET Segments : TotalSize[S] \in Nat
    /\ \A s \in Segments : SizeOf(s) \in Nat
    /\ TotalSize[{}] = 0
<1>1. \A S \in SUBSET Segments : TotalSize[S] \in Nat
  BY SizeAssumption
<1>2. TotalSize[{} \cup {}] = TotalSize[{}] + TotalSize[{}]
  BY SizeAssumption
<1>3. TotalSize[{}] = 0
  <2>1. {} \cup {} = {}
    OBVIOUS
  <2> QED
    BY <1>1, <1>2, <2>1
<1> QED
  BY <1>1, <1>3 DEF SizeOf

\* Adding a segment to a set that lacks it adds its size.
LEMMA SizeAdd ==
    ASSUME NEW S \in SUBSET Segments, NEW s \in Segments, s \notin S
    PROVE  TotalSize[S \cup {s}] = TotalSize[S] + SizeOf(s)
<1>1. {s} \in SUBSET Segments /\ S \cap {s} = {}
  OBVIOUS
<1> QED
  BY <1>1, SizeAssumption DEF SizeOf

\* Removing a subset subtracts its size.
LEMMA SizeRemove ==
    ASSUME NEW S \in SUBSET Segments, NEW V \in SUBSET S
    PROVE  TotalSize[S \ V] = TotalSize[S] - TotalSize[V]
<1>1. /\ V \in SUBSET Segments /\ S \ V \in SUBSET Segments
      /\ V \cap (S \ V) = {} /\ V \cup (S \ V) = S
  OBVIOUS
<1>2. TotalSize[V \cup (S \ V)] = TotalSize[V] + TotalSize[S \ V]
  BY <1>1, SizeAssumption
<1>3. TotalSize[S] = TotalSize[V] + TotalSize[S \ V]
  BY <1>1, <1>2
<1>4. TotalSize[V] \in Nat /\ TotalSize[S \ V] \in Nat
  BY <1>1, SizeType
<1> QED
  BY <1>3, <1>4

-----------------------------------------------------------------------------
(* Eviction.                                                               *)

\* The victims of k pops are unused segments; what is left of the list are the
\* other unused ones, and both counters drop by what the victims occupied.
LEMMA VictimsAreUnused ==
    ASSUME CacheInv, NEW k \in 0..Len(evictable)
    PROVE  LET V == Victims(k)
               rest == SubSeq(evictable, k + 1, Len(evictable))
           IN  /\ V \subseteq Unused
               /\ rest \in Seq(Segments)
               /\ IsInjective(rest)
               /\ ToSet(rest) = Unused \ V
               /\ TotalSize[V] \in Nat
               /\ TotalSize[cached \ V] = currentSize - TotalSize[V]
               /\ TotalSize[Unused \ V] = evictableSize - TotalSize[V]
               /\ Forget(routeIdSet, k, {}) = routeIdSet
<1> DEFINE V == Victims(k)
           rest == SubSeq(evictable, k + 1, Len(evictable))
<1>1. evictable \in Seq(Segments) /\ IsInjective(evictable) /\ ToSet(evictable) = Unused
  BY DEF CacheInv, TypeOK, EvictableIsUnused
<1>2. rest \in Seq(Segments) /\ IsInjective(rest) /\ ToSet(rest) = Unused \ V
  BY <1>1, DropPrefix DEF Victims
<1>3. V \subseteq Unused
  <2>1. DOMAIN evictable = 1..Len(evictable) /\ Len(evictable) \in Nat
    BY <1>1, LenProperties
  <2>2. 1..k \subseteq 1..Len(evictable)
    BY <2>1
  <2> QED
    BY <1>1, <2>1, <2>2 DEF Victims, ToSet
<1>4. Unused \in SUBSET Segments /\ cached \in SUBSET Segments /\ Unused \subseteq cached
  BY DEF CacheInv, TypeOK, Unused
<1>5. currentSize = TotalSize[cached] /\ evictableSize = TotalSize[Unused]
  BY DEF CacheInv, SizesAccounted
<1>6. V \in SUBSET cached /\ V \in SUBSET Unused /\ V \in SUBSET Segments
  BY <1>3, <1>4
<1> HIDE DEF V, rest
<1>7. TotalSize[V] \in Nat
  BY <1>6, SizeType
<1>8. TotalSize[cached \ V] = TotalSize[cached] - TotalSize[V]
  BY <1>4, <1>6, SizeRemove
<1>9. TotalSize[Unused \ V] = TotalSize[Unused] - TotalSize[V]
  BY <1>4, <1>6, SizeRemove
<1>10. Forget(routeIdSet, k, {}) = routeIdSet
  <2>1. routeIdSet \in [Segments -> SUBSET Routes]
    BY DEF CacheInv, TypeOK
  <2>2. \A s \in V : routeIdSet[s] = {}
    BY <1>3 DEF Unused
  <2> QED
    BY <2>1, <2>2 DEF Forget, V
<1> QED
  BY <1>2, <1>3, <1>5, <1>7, <1>8, <1>9, <1>10 DEF V, rest

\* When the first check of isSegmentCacheFull lets an addition through, the
\* eviction loop always makes the room it needs: pop never comes back empty.
LEMMA EvictionNeverRunsOut ==
    ASSUME CacheInv, NEW s \in Segments, ~HopelesslyFull(SizeOf(s)),
           NEW k \in 0..Len(evictable), EvictionCount(k, SizeOf(s))
    PROVE  FitsAfter(k, SizeOf(s))
<1>1. currentSize \in Int /\ evictableSize \in Int /\ SizeOf(s) \in Nat /\ Capacity \in Nat
  BY SizeType, ConfigAssumption DEF CacheInv, TypeOK
<1>2. Len(evictable) \in Nat /\ DOMAIN evictable = 1..Len(evictable)
  BY LenProperties DEF CacheInv, TypeOK
<1>3. CASE currentSize + SizeOf(s) <= Capacity
  <2>1. Victims(0) = {}
    BY DEF Victims
  <2>2. FitsAfter(0, SizeOf(s))
    BY <1>1, <1>3, <2>1, SizeType DEF FitsAfter
  <2>3. k = 0
    <3>1. k \in Nat
      BY <1>2
    <3>2. \A j \in 0..(k - 1) : ~FitsAfter(j, SizeOf(s))
      BY DEF EvictionCount
    <3>3. k > 0 => 0 \in 0..(k - 1)
      BY <3>1
    <3> QED
      BY <2>2, <3>1, <3>2, <3>3
  <2> QED
    BY <2>2, <2>3
<1>4. CASE currentSize - evictableSize + SizeOf(s) <= Capacity
  <2>1. Victims(Len(evictable)) = Unused
    BY <1>2 DEF Victims, CacheInv, EvictableIsUnused, ToSet
  <2>2. TotalSize[Victims(Len(evictable))] = evictableSize
    BY <2>1 DEF CacheInv, SizesAccounted
  <2>3. FitsAfter(Len(evictable), SizeOf(s))
    BY <1>4, <2>2 DEF FitsAfter
  <2> QED
    BY <2>3 DEF EvictionCount
<1> QED
  BY <1>1, <1>3, <1>4 DEF HopelesslyFull

-----------------------------------------------------------------------------
(* The invariant is inductive.                                             *)

\* The empty cache satisfies the invariant.
LEMMA InitInv == Init => CacheInv
<1> SUFFICES ASSUME Init PROVE CacheInv
  OBVIOUS
<1>1. Unused = {} /\ ToSet(evictable) = {} /\ IsInjective(evictable)
  BY DEF Init, Unused, ToSet, IsInjective
<1>2. TotalSize[{}] = 0 /\ Capacity \in Nat
  BY SizeType, ConfigAssumption
<1>3. TypeOK
  BY DEF Init, TypeOK
<1>4. EvictableIsUnused /\ OnlyCachedNeeded
  BY <1>1 DEF Init, EvictableIsUnused, OnlyCachedNeeded
<1>5. SizesAccounted /\ CapacityRespected
  BY <1>1, <1>2 DEF Init, SizesAccounted, CapacityRespected
<1> QED
  BY <1>3, <1>4, <1>5 DEF CacheInv

\* A new segment, its room made by k evictions.
LEMMA PushInv ==
    ASSUME CacheInv, NEW s \in Segments, NEW r \in Routes,
           NEW k \in 0..Len(evictable), FitsAfter(k, SizeOf(s)),
           Admit(s, r, k), Push(s, r, k)
    PROVE  CacheInv'
<1> DEFINE V == Victims(k)
           rest == SubSeq(evictable, k + 1, Len(evictable))
<1>1. /\ V \subseteq Unused /\ rest \in Seq(Segments) /\ IsInjective(rest)
      /\ ToSet(rest) = Unused \ V /\ TotalSize[V] \in Nat
      /\ TotalSize[cached \ V] = currentSize - TotalSize[V]
      /\ TotalSize[Unused \ V] = evictableSize - TotalSize[V]
      /\ Forget(routeIdSet, k, {}) = routeIdSet
  BY VictimsAreUnused
<1>2. /\ s \notin cached \ V
      /\ evictable' = rest /\ evictableSize' = evictableSize - TotalSize[V]
      /\ cached' = (cached \ V) \cup {s}
      /\ currentSize' = currentSize - TotalSize[V] + SizeOf(s)
      /\ routeIdSet' = [routeIdSet EXCEPT ![s] = {r}]
      /\ popularity' = [Forget(popularity, k, 0) EXCEPT ![s] = 0]
      /\ timestamp' = [Forget(timestamp, k, 0) EXCEPT ![s] = currentTimestamp + 1]
      /\ currentTimestamp' = currentTimestamp + 1
  BY <1>1 DEF Push, Pop, Admit
<1>3. currentSize - TotalSize[V] + SizeOf(s) <= Capacity
  BY DEF FitsAfter
<1>4. /\ cached \subseteq Segments /\ routeIdSet \in [Segments -> SUBSET Routes]
      /\ timestamp \in [Segments -> Nat] /\ popularity \in [Segments -> Nat]
      /\ currentSize \in Int /\ evictableSize \in Int /\ currentTimestamp \in Nat
      /\ SizeOf(s) \in Nat
      /\ \A t \in Segments \ cached : routeIdSet[t] = {}
  BY SizeType DEF CacheInv, TypeOK, OnlyCachedNeeded
<1>5. /\ Forget(timestamp, k, 0) \in [Segments -> Nat]
      /\ Forget(popularity, k, 0) \in [Segments -> Nat]
  BY <1>4 DEF Forget
<1> HIDE DEF V, rest
<1>6. TypeOK'
  <2>a. cached' \subseteq Segments /\ routeIdSet' \in [Segments -> SUBSET Routes]
    BY <1>2, <1>4
  <2>b. timestamp' \in [Segments -> Nat] /\ currentTimestamp' \in Nat
    BY <1>2, <1>4, <1>5
  <2>c. popularity' \in [Segments -> Nat]
    BY <1>2, <1>5
  <2>d. currentSize' \in Int
    BY <1>1, <1>2, <1>4
  <2>e. evictable' \in Seq(Segments) /\ evictableSize' \in Int
    BY <1>1, <1>2, <1>4
  <2> QED
    BY <2>a, <2>b, <2>c, <2>d, <2>e DEF TypeOK
<1>7. Unused' = Unused \ V
  BY <1>1, <1>2, <1>4 DEF Unused
<1>8. EvictableIsUnused'
  BY <1>1, <1>2, <1>7 DEF EvictableIsUnused
<1>9. OnlyCachedNeeded'
  BY <1>1, <1>2, <1>4 DEF OnlyCachedNeeded, Unused
<1>10. TotalSize[(cached \ V) \cup {s}] = TotalSize[cached \ V] + SizeOf(s)
  BY <1>2, <1>4, SizeAdd
<1>11. SizesAccounted'
  BY <1>1, <1>2, <1>7, <1>10 DEF SizesAccounted
<1>12. CapacityRespected'
  BY <1>1, <1>2, <1>3, <1>10 DEF CapacityRespected
<1> QED
  BY <1>6, <1>8, <1>9, <1>11, <1>12 DEF CacheInv

\* One more route for a segment that survived the k evictions.
LEMMA TouchInv ==
    ASSUME CacheInv, NEW s \in Segments, NEW r \in Routes,
           NEW k \in 0..Len(evictable), FitsAfter(k, SizeOf(s)),
           Admit(s, r, k), Touch(s, r, k)
    PROVE  CacheInv'
<1> DEFINE V == Victims(k)
           rest == SubSeq(evictable, k + 1, Len(evictable))
<1>1. /\ V \subseteq Unused /\ rest \in Seq(Segments) /\ IsInjective(rest)
      /\ ToSet(rest) = Unused \ V /\ TotalSize[V] \in Nat
      /\ TotalSize[cached \ V] = currentSize - TotalSize[V]
      /\ TotalSize[Unused \ V] = evictableSize - TotalSize[V]
      /\ Forget(routeIdSet, k, {}) = routeIdSet
  BY VictimsAreUnused
<1>2. /\ s \in cached \ V
      /\ Promote(s, rest, evictableSize - TotalSize[V])
      /\ cached' = cached \ V
      /\ currentSize' = currentSize - TotalSize[V]
      /\ routeIdSet' = [routeIdSet EXCEPT ![s] = @ \cup {r}]
      /\ popularity' = [Forget(popularity, k, 0) EXCEPT ![s] = @ + 1]
      /\ timestamp' = [Forget(timestamp, k, 0) EXCEPT ![s] = currentTimestamp + 1]
      /\ currentTimestamp' = currentTimestamp + 1
  BY <1>1 DEF Touch, Admit
<1>3. currentSize - TotalSize[V] + SizeOf(s) <= Capacity
  BY DEF FitsAfter
<1>4. /\ cached \subseteq Segments /\ routeIdSet \in [Segments -> SUBSET Routes]
      /\ timestamp \in [Segments -> Nat] /\ popularity \in [Segments -> Nat]
      /\ currentSize \in Int /\ evictableSize \in Int /\ currentTimestamp \in Nat
      /\ SizeOf(s) \in Nat /\ Capacity \in Nat
      /\ \A t \in Segments \ cached : routeIdSet[t] = {}
  BY SizeType, ConfigAssumption DEF CacheInv, TypeOK, OnlyCachedNeeded
<1>5. /\ Forget(timestamp, k, 0) \in [Segments -> Nat]
      /\ Forget(popularity, k, 0) \in [Segments -> Nat]
  BY <1>4 DEF Forget
<1> HIDE DEF V, rest
<1>6. Unused' = (Unused \ V) \ {s}
  BY <1>1, <1>2, <1>4 DEF Unused
<1>7. /\ evictable' \in Seq(Segments) /\ IsInjective(evictable')
      /\ ToSet(evictable') = (Unused \ V) \ {s}
      /\ evictableSize' = TotalSize[(Unused \ V) \ {s}]
  <2>1. CASE s \notin ToSet(rest) /\ evictable' = rest
             /\ evictableSize' = evictableSize - TotalSize[V]
    <3>1. (Unused \ V) \ {s} = Unused \ V
      BY <1>1, <2>1
    <3> QED
      BY <1>1, <2>1, <3>1
  <2>2. ASSUME NEW i \in DOMAIN rest, rest[i] = s, evictable' = RemoveAt(rest, i),
               evictableSize' = evictableSize - TotalSize[V] - SizeOf(s)
        PROVE  /\ evictable' \in Seq(Segments) /\ IsInjective(evictable')
               /\ ToSet(evictable') = (Unused \ V) \ {s}
               /\ evictableSize' = TotalSize[(Unused \ V) \ {s}]
    <3>1. i \in 1..Len(rest)
      BY <1>1, LenProperties
    <3>2. /\ evictable' \in Seq(Segments) /\ IsInjective(evictable')
          /\ ToSet(evictable') = (Unused \ V) \ {s}
      BY <1>1, <2>2, <3>1, RemoveAtPosition
    <3>3. s \in Unused \ V
      BY <1>1, <2>2 DEF ToSet
    <3>4. Unused \ V \in SUBSET Segments /\ {s} \in SUBSET (Unused \ V)
      BY <1>4, <3>3 DEF Unused
    <3>5. TotalSize[(Unused \ V) \ {s}] = TotalSize[Unused \ V] - TotalSize[{s}]
      BY <3>4, SizeRemove
    <3> QED
      BY <1>1, <2>2, <3>2, <3>5 DEF SizeOf
  <2> QED
    BY <1>2, <2>1, <2>2 DEF Promote
<1>8. TypeOK'
  <2>a. cached' \subseteq Segments /\ routeIdSet' \in [Segments -> SUBSET Routes]
    BY <1>2, <1>4
  <2>b. timestamp' \in [Segments -> Nat] /\ currentTimestamp' \in Nat
    BY <1>2, <1>4, <1>5
  <2>c. popularity' \in [Segments -> Nat]
    BY <1>2, <1>4, <1>5
  <2>d. currentSize' \in Int
    BY <1>1, <1>2, <1>4
  <2>1. evictableSize' \in Int
    <3>1. (Unused \ V) \ {s} \in SUBSET Segments
      BY <1>4 DEF Unused
    <3> QED
      BY <1>7, <3>1, SizeType
  <2> QED
    BY <1>7, <2>1, <2>a, <2>b, <2>c, <2>d DEF TypeOK
<1>9. EvictableIsUnused'
  BY <1>6, <1>7 DEF EvictableIsUnused
<1>10. OnlyCachedNeeded'
  BY <1>1, <1>2, <1>4 DEF OnlyCachedNeeded, Unused
<1>11. SizesAccounted'
  BY <1>1, <1>2, <1>6, <1>7 DEF SizesAccounted
<1>12. CapacityRespected'
  <2>1. TotalSize[cached'] = currentSize - TotalSize[V]
    BY <1>1, <1>2
  <2>2. TotalSize[V] \in Nat /\ currentSize \in Int /\ SizeOf(s) \in Nat /\ Capacity \in Nat
    BY <1>1, <1>4
  <2> QED
    BY <1>3, <2>1, <2>2 DEF CapacityRespected
<1> QED
  BY <1>8, <1>9, <1>10, <1>11, <1>12 DEF CacheInv

\* Any call of AddSegment.
LEMMA AddSegmentInv ==
    ASSUME CacheInv, NEW s \in Segments, NEW r \in Routes, AddSegment(s, r)
    PROVE  CacheInv'
<1>1. CASE AddRefused(s)
  BY <1>1 DEF AddRefused, vars, CacheInv, TypeOK, EvictableIsUnused,
              OnlyCachedNeeded, SizesAccounted, CapacityRespected, Unused
<1>2. ASSUME ~HopelesslyFull(SizeOf(s)), NEW k \in 0..Len(evictable),
             EvictionCount(k, SizeOf(s)),
             IF FitsAfter(k, SizeOf(s)) THEN Admit(s, r, k) ELSE RunOut(k)
      PROVE  CacheInv'
  <2>1. FitsAfter(k, SizeOf(s))
    BY <1>2, EvictionNeverRunsOut
  <2>2. Admit(s, r, k)
    BY <1>2, <2>1
  <2>3. Push(s, r, k) \/ Touch(s, r, k)
    BY <2>2 DEF Admit
  <2> QED
    BY <2>1, <2>2, <2>3, PushInv, TouchInv
<1> QED
  BY <1>1, <1>2 DEF AddSegment

\* Any call of UpdateSegmentStatus.
LEMMA UpdateSegmentStatusInv ==
    ASSUME CacheInv, NEW s \in Segments, NEW r \in Routes, UpdateSegmentStatus(s, r)
    PROVE  CacheInv'
<1>1. CASE UNCHANGED vars
  BY <1>1 DEF vars, CacheInv, TypeOK, EvictableIsUnused, OnlyCachedNeeded,
              SizesAccounted, CapacityRespected, Unused
<1>2. CASE /\ s \in cached /\ r \in routeIdSet[s]
           /\ routeIdSet' = [routeIdSet EXCEPT ![s] = @ \ {r}]
           /\ IF routeIdSet[s] = {r} THEN AddToEvictable(s)
              ELSE UNCHANGED <<evictable, evictableSize>>
           /\ UNCHANGED <<cached, timestamp, popularity, currentSize, currentTimestamp>>
  <2>1. /\ evictable \in Seq(Segments) /\ IsInjective(evictable)
        /\ ToSet(evictable) = Unused
        /\ currentSize = TotalSize[cached] /\ evictableSize = TotalSize[Unused]
        /\ TotalSize[cached] <= Capacity
    BY DEF CacheInv, TypeOK, EvictableIsUnused, SizesAccounted, CapacityRespected
  <2>2. /\ cached \subseteq Segments /\ routeIdSet \in [Segments -> SUBSET Routes]
        /\ timestamp \in [Segments -> Nat] /\ popularity \in [Segments -> Nat]
        /\ currentSize \in Int /\ currentTimestamp \in Nat
        /\ \A t \in Segments \ cached : routeIdSet[t] = {}
    BY DEF CacheInv, TypeOK, OnlyCachedNeeded
  <2>3. Unused \in SUBSET Segments /\ s \notin Unused
    BY <1>2, <2>2 DEF Unused
  <2>4. Unused' = IF routeIdSet[s] = {r} THEN Unused \cup {s} ELSE Unused
    BY <1>2, <2>2 DEF Unused
  <2>5. /\ evictable' \in Seq(Segments) /\ IsInjective(evictable')
        /\ ToSet(evictable') = Unused'
        /\ evictableSize' = TotalSize[Unused']
    <3>1. CASE routeIdSet[s] = {r}
      <4>1. PICK i \in 1..(Len(evictable) + 1) : evictable' = InsertAt(evictable, i, s)
        BY <1>2, <3>1 DEF AddToEvictable
      <4>2. /\ evictable' \in Seq(Segments) /\ IsInjective(evictable')
            /\ ToSet(evictable') = Unused \cup {s}
        <5>1. s \notin ToSet(evictable)
          BY <2>1, <2>3
        <5> QED
          BY ONLY <2>1, <4>1, <5>1, InsertAtPosition
      <4>3. evictableSize' = TotalSize[Unused] + SizeOf(s)
        BY <1>2, <2>1, <3>1 DEF AddToEvictable
      <4> QED
        BY <2>3, <2>4, <3>1, <4>2, <4>3, SizeAdd
    <3>2. CASE routeIdSet[s] # {r}
      BY <1>2, <2>1, <2>4, <3>2
    <3> QED
      BY <3>1, <3>2
  <2>6. Unused' \in SUBSET Segments
    BY <2>3, <2>4
  <2>7. TypeOK'
    <3>1. evictableSize' \in Int
      BY <2>5, <2>6, SizeType
    <3> QED
      BY <1>2, <2>2, <2>5, <3>1 DEF TypeOK
  <2>8. EvictableIsUnused' /\ SizesAccounted' /\ CapacityRespected'
    BY <1>2, <2>1, <2>5 DEF EvictableIsUnused, SizesAccounted, CapacityRespected
  <2>9. OnlyCachedNeeded'
    BY <1>2, <2>2 DEF OnlyCachedNeeded
  <2> QED
    BY <2>7, <2>8, <2>9 DEF CacheInv
<1> QED
  BY <1>1, <1>2 DEF UpdateSegmentStatus

\* Every step.
LEMMA NextInv == CacheInv /\ [Next]_vars => CacheInv'
<1> SUFFICES ASSUME CacheInv, [Next]_vars PROVE CacheInv'
  OBVIOUS
<1>1. CASE UNCHANGED vars
  BY <1>1 DEF vars, CacheInv, TypeOK, EvictableIsUnused, OnlyCachedNeeded,
              SizesAccounted, CapacityRespected, Unused
<1>2. ASSUME NEW s \in Segments, NEW r \in Routes, AddSegment(s, r) PROVE CacheInv'
  BY <1>2, AddSegmentInv
<1>3. ASSUME NEW s \in Segments, NEW r \in Routes, UpdateSegmentStatus(s, r) PROVE CacheInv'
  BY <1>3, UpdateSegmentStatusInv
<1> QED
  BY <1>1, <1>2, <1>3 DEF Next

\* The inductive invariant holds of every behaviour of the cache.
THEOREM Invariance == Spec => []CacheInv
<1>1. Init => CacheInv
  BY InitInv
<1>2. CacheInv /\ [Next]_vars => CacheInv'
  BY NextInv
<1> QED
  BY <1>1, <1>2, PTL DEF Spec

\* Every variable keeps its type.
THEOREM TypeCorrect == Spec => []TypeOK
<1>1. CacheInv => TypeOK
  BY DEF CacheInv
<1> QED
  BY <1>1, Invariance, PTL

\* The eviction list is at all times exactly the cached segments without a
\* route, each once (segmentcache.go:43).
THEOREM EvictionListCorrect == Spec => []EvictableIsUnused
<1>1. CacheInv => EvictableIsUnused
  BY DEF CacheInv
<1> QED
  BY <1>1, Invariance, PTL

\* The byte counters are exact, and the cache never outgrows its size.
THEOREM SpaceCorrect == Spec => []SpaceAccounted
<1>1. CacheInv => SpaceAccounted
  BY DEF CacheInv, SpaceAccounted
<1> QED
  BY <1>1, Invariance, PTL

-----------------------------------------------------------------------------
(* What a step may do to the store.                                        *)

\* One step from a state of the invariant keeps what routes need.
LEMMA PinnedStep ==
    ASSUME CacheInv, [Next]_vars, NEW t \in cached, routeIdSet[t] # {}
    PROVE  t \in cached'
<1>1. ASSUME NEW k \in 0..Len(evictable) PROVE t \in cached \ Victims(k)
  <2>1. Victims(k) \subseteq Unused
    BY VictimsAreUnused
  <2> QED
    BY <2>1 DEF Unused
<1>2. CASE UNCHANGED vars
  BY <1>2 DEF vars
<1>3. ASSUME NEW s \in Segments, NEW r \in Routes, AddSegment(s, r) PROVE t \in cached'
  <2>1. CASE AddRefused(s)
    BY <2>1 DEF AddRefused, vars
  <2>2. ASSUME NEW k \in 0..Len(evictable), Admit(s, r, k) \/ RunOut(k) PROVE t \in cached'
    BY <1>1, <2>2 DEF Admit, RunOut, Push, Touch
  <2> QED
    BY <1>3, <2>1, <2>2 DEF AddSegment
<1>4. ASSUME NEW s \in Segments, NEW r \in Routes, UpdateSegmentStatus(s, r) PROVE t \in cached'
  BY <1>4 DEF UpdateSegmentStatus, vars
<1> QED
  BY <1>2, <1>3, <1>4 DEF Next

\* No step evicts a segment that a route still needs.
THEOREM PinnedSafe == Spec => PinnedNeverEvicted
<1>1. CacheInv /\ [Next]_vars => [\A s \in cached : routeIdSet[s] # {} => s \in cached']_vars
  BY PinnedStep
<1> QED
  BY <1>1, Invariance, PTL DEF Spec, PinnedNeverEvicted

\* An addition that is not refused makes the segment present and needed by the route,
\* and nothing else leaves the cache than segments no route needs.
LEMMA AddSegmentTakes ==
    ASSUME CacheInv, NEW s \in Segments, NEW r \in Routes, AddSegment(s, r),
           ~HopelesslyFull(SizeOf(s))
    PROVE  /\ routeIdSet' = [routeIdSet EXCEPT ![s] = @ \cup {r}]
           /\ \E V \in SUBSET Unused : cached' = (cached \ V) \cup {s}
<1>1. ASSUME NEW k \in 0..Len(evictable), EvictionCount(k, SizeOf(s)),
             IF FitsAfter(k, SizeOf(s)) THEN Admit(s, r, k) ELSE RunOut(k)
      PROVE  /\ routeIdSet' = [routeIdSet EXCEPT ![s] = @ \cup {r}]
             /\ \E V \in SUBSET Unused : cached' = (cached \ V) \cup {s}
  <2>1. Victims(k) \in SUBSET Unused /\ Forget(routeIdSet, k, {}) = routeIdSet
    BY VictimsAreUnused
  <2>2. Admit(s, r, k)
    BY <1>1, EvictionNeverRunsOut
  <2>3. routeIdSet \in [Segments -> SUBSET Routes]
    BY DEF CacheInv, TypeOK
  <2>4. CASE Push(s, r, k)
    <3>1. routeIdSet[s] = {}
      BY <2>1, <2>4 DEF Push, CacheInv, OnlyCachedNeeded, Unused
    <3>2. routeIdSet' = [routeIdSet EXCEPT ![s] = @ \cup {r}]
      BY <2>1, <2>3, <2>4, <3>1 DEF Push
    <3> QED
      BY <2>1, <2>4, <3>2 DEF Push
  <2>5. CASE Touch(s, r, k)
    <3>1. routeIdSet' = [routeIdSet EXCEPT ![s] = @ \cup {r}]
      BY <2>1, <2>5 DEF Touch
    <3>2. cached' = (cached \ Victims(k)) \cup {s}
      BY <2>5 DEF Touch
    <3> QED
      BY <2>1, <3>1, <3>2
  <2> QED
    BY <2>2, <2>4, <2>5 DEF Admit
<1>2. ~AddRefused(s)
  BY DEF AddRefused
<1> QED
  BY <1>1, <1>2 DEF AddSegment

\* One step maps to a step of the abstract store, or to a stutter.
LEMMA StoreStep == CacheInv /\ CacheInv' /\ [Next]_vars => [Store!StoreNext]_(Store!store)
<1> SUFFICES ASSUME CacheInv, CacheInv', [Next]_vars
             PROVE  Store!StoreNext \/ UNCHANGED <<cached, routeIdSet>>
  BY DEF Store!store
<1>1. CASE UNCHANGED vars
  BY <1>1 DEF vars
<1>2. ASSUME NEW s \in Segments, NEW r \in Routes, AddSegment(s, r)
      PROVE  Store!StoreNext \/ UNCHANGED <<cached, routeIdSet>>
  <2>1. CASE AddRefused(s)
    BY <2>1 DEF AddRefused, vars
  <2>2. CASE ~HopelesslyFull(SizeOf(s))
    <3>1. TotalSize[cached'] <= Capacity
      BY DEF CacheInv, CapacityRespected
    <3>2. Unused = Store!Unneeded
      BY DEF Unused, Store!Unneeded
    <3>3. Store!Take(s, r)
      BY <1>2, <2>2, <3>1, <3>2, AddSegmentTakes DEF Store!Take
    <3> QED
      BY <3>3 DEF Store!StoreNext
  <2> QED
    BY <1>2, <2>1, <2>2 DEF AddSegment
<1>3. ASSUME NEW s \in Segments, NEW r \in Routes, UpdateSegmentStatus(s, r)
      PROVE  Store!StoreNext \/ UNCHANGED <<cached, routeIdSet>>
  <2>1. CASE UNCHANGED vars
    BY <2>1 DEF vars
  <2>2. CASE s \in cached /\ r \in routeIdSet[s]
    BY <1>3, <2>2 DEF UpdateSegmentStatus, Store!StoreNext, Store!Release
  <2> QED
    BY <1>3, <2>1, <2>2 DEF UpdateSegmentStatus
<1> QED
  BY <1>1, <1>2, <1>3 DEF Next

\* The cache implements the abstract store.
THEOREM Refinement == Spec => ImplementsPinnedStore
<1>1. Init => Store!StoreInit
  BY DEF Init, Store!StoreInit
<1>2. CacheInv /\ CacheInv' /\ [Next]_vars => [Store!StoreNext]_(Store!store)
  BY StoreStep
<1> QED
  BY <1>1, <1>2, Invariance, PTL DEF Spec, ImplementsPinnedStore, Store!StoreSpec
=============================================================================
