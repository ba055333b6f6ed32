--------------------------- MODULE EdgeNodeProofs ---------------------------
(***************************************************************************)
(* Proofs about EdgeNode for all requests, segments, sizes and tokens.      *)
(*                                                                         *)
(* The node runs its queue and its cache as their own modules specify them: *)
(* every step of the node is a step of the queue or leaves it alone, and    *)
(* likewise for the cache.  What is proved of the parts in                  *)
(* RequestQueueProofs and SegmentCacheProofs (QP and CP below) so holds in  *)
(* the node, and the node's own invariants rest on it.                      *)
(***************************************************************************)
EXTENDS EdgeNode, FiniteSetTheorems, TLAPS

QP == INSTANCE RequestQueueProofs
CP == INSTANCE SegmentCacheProofs WITH Routes <- Tokens

-----------------------------------------------------------------------------
(* The parts' assumptions, and their definitions under either name.         *)

\* The node's constants are what the queue's proofs assume ...
LEMMA QueueConstants == QP!QueueAssumption
BY PartsAssumption DEF QP!QueueAssumption, IsFiniteSet, QP!IsFiniteSet

\* ... and what the cache's do.
LEMMA CacheConstants == CP!SizeAssumption /\ CP!ConfigAssumption
BY PartsAssumption DEF CP!SizeAssumption, CP!ConfigAssumption, CP!LRU, CP!LFU

\* The queue the node runs is the one the proofs are about.
LEMMA SameQueue ==
    /\ Queue!Init <=> QP!Init
    /\ Queue!Next <=> QP!Next
    /\ Queue!vars = QP!vars /\ Queue!vars' = QP!vars'
<1>1. /\ Queue!clockVars = QP!clockVars /\ Queue!handlerVars = QP!handlerVars
      /\ Queue!adderVars = QP!adderVars /\ Queue!queueVars = QP!queueVars
      /\ Queue!workerVars = QP!workerVars
      /\ Queue!vars = QP!vars /\ Queue!vars' = QP!vars'
      /\ Queue!clockVars' = QP!clockVars' /\ Queue!handlerVars' = QP!handlerVars'
      /\ Queue!adderVars' = QP!adderVars' /\ Queue!queueVars' = QP!queueVars'
      /\ Queue!workerVars' = QP!workerVars'
      /\ Queue!NoItem = QP!NoItem
  BY DEF Queue!clockVars, QP!clockVars, Queue!handlerVars, QP!handlerVars,
         Queue!adderVars, QP!adderVars, Queue!queueVars, QP!queueVars,
         Queue!workerVars, QP!workerVars, Queue!vars, QP!vars, Queue!NoItem, QP!NoItem
<1>2. \A r, t : Queue!StartTime(r, t) = QP!StartTime(r, t)
  BY DEF Queue!StartTime, QP!StartTime, Queue!RoundHundredths, QP!RoundHundredths
<1>3. Queue!Init <=> QP!Init
  BY <1>1 DEF Queue!Init, QP!Init
<1>4. Queue!Adder <=> QP!Adder
  BY <1>1, <1>2
  DEF Queue!Adder, QP!Adder, Queue!AdderReceive, QP!AdderReceive, Queue!AdderPush,
      QP!AdderPush, Queue!AdderSend, QP!AdderSend, Queue!AdderReply, QP!AdderReply
<1>5. Queue!Worker <=> QP!Worker
  BY <1>1
  DEF Queue!Worker, QP!Worker, Queue!WorkerReceive, QP!WorkerReceive,
      Queue!WorkerStop, QP!WorkerStop, Queue!WorkerPeek, QP!WorkerPeek,
      Queue!WorkerResend, QP!WorkerResend, Queue!WorkerPanic, QP!WorkerPanic,
      Queue!WorkerPop, QP!WorkerPop, Queue!WorkerDownload, QP!WorkerDownload
<1>6. Queue!Next <=> QP!Next
  BY <1>1, <1>4, <1>5
  DEF Queue!Next, QP!Next, Queue!HandleUpdateClock, QP!HandleUpdateClock,
      Queue!Close, QP!Close, Queue!HandleDownloadRequest, QP!HandleDownloadRequest
<1> QED
  BY <1>1, <1>3, <1>6

\* The cache the node runs is the one the proofs are about.
LEMMA SameCache ==
    /\ Cache!Init <=> CP!Init
    /\ Cache!vars = CP!vars /\ Cache!vars' = CP!vars'
    /\ \A e : Cache!HopelesslyFull(e) <=> CP!HopelesslyFull(e)
    /\ \A s, r : Cache!AddSegment(s, r) <=> CP!AddSegment(s, r)
    /\ \A s, r : Cache!UpdateSegmentStatus(s, r) <=> CP!UpdateSegmentStatus(s, r)
<1>1. /\ Cache!vars = CP!vars /\ Cache!vars' = CP!vars'
      /\ \A s : Cache!SizeOf(s) = CP!SizeOf(s)
      /\ \A k : Cache!Victims(k) = CP!Victims(k)
  BY DEF Cache!vars, CP!vars, Cache!SizeOf, CP!SizeOf, Cache!Victims, CP!Victims
<1>2. /\ \A e : Cache!HopelesslyFull(e) <=> CP!HopelesslyFull(e)
      /\ \A k, e : Cache!FitsAfter(k, e) <=> CP!FitsAfter(k, e)
      /\ \A k, e : Cache!EvictionCount(k, e) <=> CP!EvictionCount(k, e)
      /\ \A k : Cache!Pop(k) <=> CP!Pop(k)
      /\ \A f, k, b : Cache!Forget(f, k, b) = CP!Forget(f, k, b)
  BY <1>1
  DEF Cache!HopelesslyFull, CP!HopelesslyFull, Cache!FitsAfter, CP!FitsAfter,
      Cache!EvictionCount, CP!EvictionCount, Cache!Pop, CP!Pop, Cache!Forget, CP!Forget
<1>3. \A s, list, size : Cache!Promote(s, list, size) <=> CP!Promote(s, list, size)
  <2>1. \A q : Cache!ToSet(q) = CP!ToSet(q)
    BY DEF Cache!ToSet, CP!ToSet
  <2>2. \A q, i : Cache!RemoveAt(q, i) = CP!RemoveAt(q, i)
    BY DEF Cache!RemoveAt, CP!RemoveAt
  <2> QED
    BY <1>1, <2>1, <2>2 DEF Cache!Promote, CP!Promote
<1>4. \A s, r, k : Cache!Admit(s, r, k) <=> CP!Admit(s, r, k)
  BY <1>1, <1>2, <1>3
  DEF Cache!Admit, CP!Admit, Cache!Push, CP!Push, Cache!Touch, CP!Touch
<1>5. \A s, r : Cache!AddSegment(s, r) <=> CP!AddSegment(s, r)
  BY <1>1, <1>2, <1>4
  DEF Cache!AddSegment, CP!AddSegment, Cache!AddRefused, CP!AddRefused, Cache!RunOut, CP!RunOut
<1>6. \A s : Cache!AddToEvictable(s) <=> CP!AddToEvictable(s)
  BY <1>1
  DEF Cache!AddToEvictable, CP!AddToEvictable, Cache!InsertsAt, CP!InsertsAt,
      Cache!Outranked, CP!Outranked, Cache!Rank, CP!Rank, Cache!LRU, CP!LRU,
      Cache!InsertAt, CP!InsertAt
<1>7. \A s, r : Cache!UpdateSegmentStatus(s, r) <=> CP!UpdateSegmentStatus(s, r)
  BY <1>1, <1>6 DEF Cache!UpdateSegmentStatus, CP!UpdateSegmentStatus
<1> QED
  BY <1>1, <1>2, <1>5, <1>7 DEF Cache!Init, CP!Init

-----------------------------------------------------------------------------
(* The node runs its queue.                                                *)

\* Every step of the node is a step of the queue, or leaves the queue alone.
LEMMA QueueStep == [Next]_vars => [Queue!Next]_(Queue!vars)
<1> USE DEF Queue!vars
<1>1. UNCHANGED vars => UNCHANGED Queue!vars
  BY DEF vars, queueState
<1>2. QueueOnly => Queue!Next
  BY DEF QueueOnly, Queue!Next, Queue!Adder, Queue!Worker
<1>3. Admit => [Queue!Next]_(Queue!vars)
  BY DEF Admit, AdmitStart, AdmitSegment, AdmitStore, AdmitDone, Reply, queueState,
         Queue!Next, Queue!Adder
<1>4. Download => [Queue!Next]_(Queue!vars)
  BY DEF Download, DownloadStart, DownloadSegment, DownloadStore, DownloadDone, queueState,
         Queue!Next, Queue!Worker
<1>5. Client => UNCHANGED Queue!vars
  BY DEF Client, Contact, FetchFound, FetchServed, FetchMissed, queueState
<1> QED
  BY <1>1, <1>2, <1>3, <1>4, <1>5 DEF Next

\* The node implements the specification of its queue.
THEOREM NodeRunsQueue == Spec => Queue!Spec
<1>1. Init => Queue!Init
  BY DEF Init
<1> QED
  BY <1>1, QueueStep, PTL DEF Spec, Queue!Spec

\* What is proved of the queue holds in the node.
LEMMA QueueInvariance == Spec => []QP!QueueInv
<1>1. QP!Init => QP!QueueInv
  BY QueueConstants, QP!InitInv
<1>2. QP!QueueInv /\ [QP!Next]_(QP!vars) => QP!QueueInv'
  BY QueueConstants, QP!NextInv
<1>3. Init => QP!Init
  BY SameQueue DEF Init
<1>4. [Next]_vars => [QP!Next]_(QP!vars)
  BY QueueStep, SameQueue
<1> QED
  BY <1>1, <1>2, <1>3, <1>4, PTL DEF Spec

-----------------------------------------------------------------------------
(* The node's own state.                                                   *)

\* Where the adder is in canAddSegments, with what it carries from step to step.
Round == [step : {"segment"}, req : Requests, committed : Seq(Segments),
          additions : Int, space : Int]
AdmissionShape ==
    \/ admission = NoAdmission
    \/ admission \in Round
    \/ admission \in [step : {"store"}, then : Round, value : Int]
    \/ admission \in [step : {"done"}, req : Requests, committed : Seq(Segments)]

\* Segments are only taken in while the worker downloads what it peeked.
DownloadShape ==
    \/ download = NoDownload
    \/ /\ download \in [step : {"segment", "store"}, value : Int, idx : Nat \ {0},
                          local : SUBSET Segments]
       /\ worker = "download"

AdmissionInv ==
    /\ DOMAIN routes \subseteq Tokens
    /\ \A t \in DOMAIN routes : routes[t] \in Requests /\ TokenId[routes[t]] = t
    /\ AdmissionShape
    /\ reply.committed \in Seq(Segments) /\ reply.evicted \subseteq Segments
    /\ evicted \subseteq Segments

DownloadInv ==
    /\ DownloadShape
    /\ counts \in [local : Nat, fetched : Nat]
    /\ pendingDlSize \in Int

ClientInv ==
    /\ listed \in [Tokens -> SUBSET Segments]
    /\ serving \subseteq Tokens \X Segments
    /\ owed \subseteq Tokens \X Segments

\* The inductive invariant of the node, given that of its queue.
NodeInv == CP!CacheInv /\ AdmissionInv /\ DownloadInv /\ ClientInv /\ OwedExactlyPinned

\* The sizes of segments.
LEMMA SegmentSize ==
    ASSUME NEW s \in Segments
    PROVE  SizeOf(s) \in Nat /\ SizeOf(s) = CP!SizeOf(s)
BY PartsAssumption DEF SizeOf, CP!SizeOf

\* The segment the worker is about to take in.
LEMMA CurrentSegment ==
    ASSUME QP!QueueInv, DownloadInv, download.step = "segment",
           download.idx <= Len(SegmentsOf[peeked.req])
    PROVE  /\ worker = "download" /\ peeked.req \in Requests
           /\ SegmentsOf[peeked.req][download.idx] \in Segments
           /\ TokenId[peeked.req] \in Tokens
<1>1. worker = "download" /\ download.idx \in Nat \ {0}
  BY DEF DownloadInv, DownloadShape, NoDownload
<1>2. peeked.req \in Requests
  BY <1>1 DEF QP!QueueInv, QP!PeekedIsItem, QP!Items
<1>3. SegmentsOf[peeked.req] \in Seq(Segments) /\ TokenId[peeked.req] \in Tokens
  BY <1>2, NodeAssumption
<1> QED
  BY <1>1, <1>2, <1>3

-----------------------------------------------------------------------------
(* The node runs its cache.                                                *)

\* Every step of the node is a step of the cache, or leaves the cache alone.
LEMMA CacheStep ==
    ASSUME QP!QueueInv, DownloadInv, [Next]_vars
    PROVE  [Cache!Next]_(Cache!vars)
<1> USE DEF Cache!vars
<1>1. CASE UNCHANGED vars
  BY <1>1 DEF vars, cacheState
<1>2. CASE QueueOnly
  BY <1>2 DEF QueueOnly, cacheState
<1>3. CASE Admit
  BY <1>3 DEF Admit, AdmitStart, AdmitSegment, AdmitStore, AdmitDone, Reply, cacheState
<1>4. CASE DownloadSegment
  BY <1>4, CurrentSegment DEF DownloadSegment, Cache!Next
<1>5. CASE DownloadStart \/ DownloadStore \/ DownloadDone
  BY <1>5 DEF DownloadStart, DownloadStore, DownloadDone, cacheState
<1>6. ASSUME NEW t \in Tokens, NEW s \in Segments, FetchServed(t, s)
      PROVE  Cache!Next
  BY <1>6 DEF FetchServed, Cache!Next
<1>7. ASSUME NEW t \in Tokens,
             Contact(t) \/ \E s \in Segments : FetchFound(t, s) \/ FetchMissed(t, s)
      PROVE  UNCHANGED Cache!vars
  BY <1>7 DEF Contact, FetchFound, FetchMissed, cacheState
<1> QED
  BY <1>1, <1>2, <1>3, <1>4, <1>5, <1>6, <1>7 DEF Next, Download, Client

\* So what is proved of the cache goes on holding in the node.
LEMMA CacheInvStep ==
    ASSUME QP!QueueInv, CP!CacheInv, DownloadInv, [Next]_vars
    PROVE  CP!CacheInv'
<1>1. [CP!Next]_(CP!vars)
  BY CacheStep, SameCache DEF Cache!Next, CP!Next
<1> QED
  BY <1>1, CacheConstants, CP!NextInv

-----------------------------------------------------------------------------
(* Every step keeps the node's invariant.                                  *)

\* The adder's state.
LEMMA AdmissionStep ==
    ASSUME QP!QueueInv, NodeInv, [Next]_vars
    PROVE  AdmissionInv'
<1> USE DEF NodeInv
<1>1. CASE UNCHANGED <<routes, admission, reply, evicted>>
  BY <1>1 DEF AdmissionInv, AdmissionShape
<1>2. ASSUME NEW r \in Requests, AdmitStart(r)
      PROVE  AdmissionInv'
  <2>1. TokenId[r] \in Tokens
    BY NodeAssumption
  <2>2. reply' = reply /\ evicted' = {}
    BY <1>2 DEF AdmitStart
  <2>3. CASE TokenId[r] \in DOMAIN routes
    <3>1. /\ admission' = [step |-> "done", req |-> r, committed |-> <<>>]
          /\ routes' = routes
      BY <1>2, <2>3 DEF AdmitStart
    <3> QED
      BY <2>2, <3>1 DEF AdmissionInv, AdmissionShape
  <2>4. CASE TokenId[r] \notin DOMAIN routes
    <3>1. Cache!GetAvailableFreeSpace - pendingDlSize \in Int
      BY PartsAssumption
      DEF Cache!GetAvailableFreeSpace, DownloadInv, CP!CacheInv, CP!TypeOK
    <3>2. admission' \in Round
      <4> DEFINE space == Cache!GetAvailableFreeSpace - pendingDlSize
      <4>1. admission' = [step |-> "segment", req |-> r, committed |-> <<>>,
                          additions |-> 0, space |-> space]
        BY <1>2, <2>4 DEF AdmitStart
      <4>2. space \in Int
        BY <3>1
      <4> HIDE DEF space
      <4> QED
        BY <4>1, <4>2 DEF Round
    <3>3. routes' = [t \in DOMAIN routes \cup {TokenId[r]} |->
                        IF t = TokenId[r] THEN r ELSE routes[t]]
      BY <1>2, <2>4 DEF AdmitStart
    <3>4. /\ DOMAIN routes' \subseteq Tokens
          /\ \A t \in DOMAIN routes' : routes'[t] \in Requests /\ TokenId[routes'[t]] = t
      BY <2>1, <3>3 DEF AdmissionInv
    <3> QED
      BY <2>2, <3>2, <3>4 DEF AdmissionInv, AdmissionShape
  <2> QED
    BY <2>3, <2>4
<1>3. CASE AdmitSegment
  <2> DEFINE a == admission
             i == Len(a.committed) + 1
             s == SegmentsOf[a.req][i]
             accepted == [a EXCEPT !.committed = Append(@, s),
                                   !.additions = @ + SizeOf(s),
                                   !.space = @ - SizeOf(s)]
             done == [step |-> "done", req |-> a.req, committed |-> a.committed]
  <2>1. a \in Round
    BY <1>3 DEF AdmitSegment, AdmissionInv, AdmissionShape, NoAdmission
  <2>2. SegmentsOf[a.req] \in Seq(Segments) /\ i \in Nat \ {0}
    BY <2>1, NodeAssumption DEF Round
  <2>3. done \in [step : {"done"}, req : Requests, committed : Seq(Segments)]
    BY <2>1 DEF Round
  <2>4. ASSUME i <= Len(SegmentsOf[a.req])
        PROVE  /\ accepted \in Round
               /\ pendingDlSize + SizeOf(s) \in Int
    <3>1. s \in Segments
      BY <2>2, <2>4
    <3>2. SizeOf(s) \in Int
      BY <3>1, SegmentSize
    <3>3. Append(a.committed, s) \in Seq(Segments)
      BY <2>1, <3>1 DEF Round
    <3>4. pendingDlSize + SizeOf(s) \in Int
      BY <3>2 DEF DownloadInv
    <3>5. a.additions + SizeOf(s) \in Int /\ a.space - SizeOf(s) \in Int
      BY <2>1, <3>2 DEF Round
    <3> DEFINE longer == Append(a.committed, s)
               more == a.additions + SizeOf(s)
               less == a.space - SizeOf(s)
    <3>6. accepted = [a EXCEPT !.committed = longer, !.additions = more, !.space = less]
      OBVIOUS
    <3> HIDE DEF longer, more, less, accepted, s, a
    <3>7. longer \in Seq(Segments) /\ more \in Int /\ less \in Int
      BY <3>3, <3>5 DEF longer, more, less
    <3> QED
      BY <2>1, <3>4, <3>6, <3>7 DEF Round
  <2>5. UNCHANGED <<routes, reply, evicted>>
    BY <1>3 DEF AdmitSegment
  <2>6. \/ admission' = done
        \/ i <= Len(SegmentsOf[a.req]) /\ admission' = accepted
        \/ /\ i <= Len(SegmentsOf[a.req])
           /\ admission' = [step |-> "store", then |-> accepted,
                            value |-> pendingDlSize + SizeOf(s)]
    <3>1. Len(SegmentsOf[a.req]) \in Nat
      BY <2>2
    <3> QED
      BY <1>3, <2>2, <3>1 DEF AdmitSegment
  <2> HIDE DEF done, accepted, a, s
  <2>7. AdmissionShape'
    BY <2>3, <2>4, <2>6 DEF AdmissionShape
  <2> QED
    BY <2>5, <2>7 DEF AdmissionInv
<1>4. CASE AdmitStore
  <2>1. admission.then \in Round
    BY <1>4 DEF AdmitStore, AdmissionInv, AdmissionShape, NoAdmission, Round
  <2> QED
    BY <1>4, <2>1 DEF AdmitStore, AdmissionInv, AdmissionShape
<1>5. ASSUME NEW r \in Requests, AdmitDone(r)
      PROVE  AdmissionInv'
  <2>1. admission.committed \in Seq(Segments)
    BY <1>5 DEF AdmitDone, AdmissionInv, AdmissionShape, NoAdmission, Round
  <2> QED
    BY <1>5, <2>1 DEF AdmitDone, AdmissionInv, AdmissionShape
<1>6. CASE Reply
  BY <1>6 DEF Reply, NoReply, AdmissionInv, AdmissionShape
<1>7. CASE DownloadSegment
  <2>1. SegmentsOf[peeked.req][download.idx] \in Segments /\ cached \subseteq Segments
    BY <1>7, CurrentSegment DEF DownloadSegment, CP!CacheInv, CP!TypeOK
  <2>2. evicted' \subseteq Segments
    BY <1>7, <2>1 DEF DownloadSegment, AdmissionInv
  <2> QED
    BY <1>7, <2>2 DEF DownloadSegment, admissionState, AdmissionInv, AdmissionShape
<1> QED
  BY <1>1, <1>2, <1>3, <1>4, <1>5, <1>6, <1>7
  DEF Next, Admit, Download, Client, QueueOnly, DownloadStart, DownloadStore, DownloadDone,
      Contact, FetchFound, FetchServed, FetchMissed, vars, admissionState

\* What the queue's steps do to the worker: only WorkerDownload ends a download.
LEMMA WorkerStays ==
    ASSUME QueueOnly \/ Admit \/ Client
    PROVE  worker = "download" => worker' = "download"
<1>1. CASE QueueOnly
  BY <1>1
  DEF QueueOnly, Queue!HandleUpdateClock, Queue!Close, Queue!AdderPush, Queue!AdderSend,
      Queue!WorkerReceive, Queue!WorkerStop, Queue!WorkerPeek, Queue!WorkerResend,
      Queue!WorkerPanic, Queue!WorkerPop, Queue!HandleDownloadRequest, Queue!workerVars
<1>2. CASE Admit
  BY <1>2
  DEF Admit, AdmitStart, AdmitSegment, AdmitStore, AdmitDone, Reply, queueState,
      Queue!AdderReceive, Queue!AdderReply, Queue!workerVars
<1>3. CASE Client
  BY <1>3 DEF Client, Contact, FetchFound, FetchServed, FetchMissed, queueState
<1> QED
  BY <1>1, <1>2, <1>3

\* A sublist of a request's segments is no longer than the list.
LEMMA CountedSegments ==
    ASSUME NEW r \in Requests, NEW local
    PROVE  LET here == Cardinality({i \in DOMAIN SegmentsOf[r] : SegmentsOf[r][i] \in local})
           IN  here \in Nat /\ Len(SegmentsOf[r]) - here \in Nat
<1> DEFINE n == Len(SegmentsOf[r])
           I == {i \in DOMAIN SegmentsOf[r] : SegmentsOf[r][i] \in local}
<1>1. SegmentsOf[r] \in Seq(Segments)
  BY NodeAssumption
<1>2. n \in Nat /\ I \subseteq 1..n
  BY <1>1
<1> HIDE DEF n, I
<1>3. IsFiniteSet(1..n) /\ Cardinality(1..n) = n
  BY <1>2, FS_Interval
<1>4. IsFiniteSet(I) /\ Cardinality(I) <= n
  BY <1>2, <1>3, FS_Subset
<1>5. Cardinality(I) \in Nat
  BY <1>4, FS_CardinalityType
<1>6. n - Cardinality(I) \in Nat
  BY <1>2, <1>4, <1>5
<1> QED
  BY <1>5, <1>6 DEF n, I

\* The worker's state.
LEMMA DownloadInvStep ==
    ASSUME QP!QueueInv, NodeInv, [Next]_vars
    PROVE  DownloadInv'
<1> USE DEF NodeInv
<1>1. CASE UNCHANGED vars
  BY <1>1 DEF vars, queueState, downloadState, DownloadInv, DownloadShape
<1>2. CASE QueueOnly \/ Client
  BY <1>2, WorkerStays
  DEF QueueOnly, Client, Contact, FetchFound, FetchServed, FetchMissed,
      downloadState, DownloadInv, DownloadShape
<1>3. CASE Admit
  <2>1. UNCHANGED <<download, counts>>
    BY <1>3 DEF Admit, AdmitStart, AdmitSegment, AdmitStore, AdmitDone, Reply, downloadState
  <2>2. pendingDlSize' \in Int
    <3>1. CASE AdmitStore
      BY <3>1 DEF AdmitStore, AdmissionInv, AdmissionShape, NoAdmission, Round
    <3>2. CASE pendingDlSize' = pendingDlSize
      BY <3>2 DEF DownloadInv
    <3> QED
      BY <1>3, <3>1, <3>2 DEF Admit, AdmitStart, AdmitSegment, AdmitDone, Reply
  <2> QED
    BY <1>3, <2>1, <2>2, WorkerStays DEF DownloadInv, DownloadShape
<1>4. CASE DownloadStart
  <2>1. worker' = "download"
    BY <1>4 DEF DownloadStart, queueState
  <2> QED
    BY <1>4, <2>1 DEF DownloadStart, DownloadInv, DownloadShape
<1>5. CASE DownloadSegment
  <2> DEFINE s == SegmentsOf[peeked.req][download.idx]
  <2>1. s \in Segments /\ worker = "download" /\ SegmentsOf[peeked.req] \in Seq(Segments)
    BY <1>5, CurrentSegment, NodeAssumption DEF DownloadSegment
  <2>2. SizeOf(s) \in Nat /\ pendingDlSize \in Int
    BY <2>1, SegmentSize DEF DownloadInv
  <2>3. download.idx \in Nat \ {0} /\ download.local \subseteq Segments
    BY <1>5 DEF DownloadSegment, DownloadInv, DownloadShape, NoDownload
  <2>4. PICK value \in Int, idx \in Nat \ {0}, local \in SUBSET Segments,
             step \in {"segment", "store"} :
               download' = [step |-> step, value |-> value, idx |-> idx, local |-> local]
    <3> DEFINE size == IF Cache!HasSegment(s) THEN 0 ELSE SizeOf(s)
               step == IF pendingDlSize > 0 THEN "store" ELSE "segment"
               value == IF pendingDlSize > 0 THEN pendingDlSize - size ELSE 0
               idx == IF Cache!HopelesslyFull(SizeOf(s)) THEN Len(SegmentsOf[peeked.req]) + 1
                      ELSE download.idx + 1
               local == IF Cache!HasSegment(s) THEN download.local \cup {s} ELSE download.local
    <3>1. download' = [step |-> step, value |-> value, idx |-> idx, local |-> local]
      BY <1>5 DEF DownloadSegment
    <3>2. value \in Int /\ step \in {"segment", "store"}
      BY <2>2
    <3>3. idx \in Nat \ {0}
      <4>1. Len(SegmentsOf[peeked.req]) \in Nat
        BY <2>1
      <4> QED
        BY <2>3, <4>1
    <3>4. local \in SUBSET Segments
      BY <2>1, <2>3
    <3> HIDE DEF step, value, idx, local
    <3> QED
      BY <3>1, <3>2, <3>3, <3>4
  <2>5. worker' = "download" /\ counts' = counts /\ pendingDlSize' = pendingDlSize
    BY <1>5, <2>1 DEF DownloadSegment, queueState
  <2> QED
    BY <2>4, <2>5 DEF DownloadInv, DownloadShape
<1>6. CASE DownloadStore
  <2>1. worker' = worker /\ counts' = counts
    BY <1>6 DEF DownloadStore, queueState
  <2>2. /\ download \in [step : {"segment", "store"}, value : Int, idx : Nat \ {0},
                          local : SUBSET Segments]
        /\ worker = "download"
    BY <1>6 DEF DownloadStore, DownloadInv, DownloadShape, NoDownload
  <2>3. /\ download' \in [step : {"segment", "store"}, value : Int, idx : Nat \ {0},
                           local : SUBSET Segments]
        /\ pendingDlSize' \in Int
    <3>1. /\ download' = [download EXCEPT !.step = "segment", !.value = 0]
          /\ pendingDlSize' = download.value
      BY <1>6 DEF DownloadStore
    <3>2. PICK value \in Int, idx \in Nat \ {0}, local \in SUBSET Segments,
               step \in {"segment", "store"} :
                 download = [step |-> step, value |-> value, idx |-> idx, local |-> local]
      BY <2>2
    <3>3. download' = [step |-> "segment", value |-> 0, idx |-> idx, local |-> local]
      BY <3>1, <3>2
    <3> QED
      BY <3>1, <3>2, <3>3
  <2> QED
    BY <2>1, <2>2, <2>3 DEF DownloadInv, DownloadShape
<1>7. CASE DownloadDone
  <2>1. download.step = "segment" /\ worker = "download"
    BY <1>7 DEF DownloadDone, DownloadInv, DownloadShape, NoDownload
  <2>2. peeked.req \in Requests
    BY <2>1 DEF QP!QueueInv, QP!PeekedIsItem, QP!Items
  <2> DEFINE n == Len(SegmentsOf[peeked.req])
             here == Cardinality({i \in DOMAIN SegmentsOf[peeked.req] :
                                   SegmentsOf[peeked.req][i] \in download.local})
  <2>3. here \in Nat /\ n - here \in Nat /\ n \in Nat
    <3>1. n \in Nat
      BY <2>2, NodeAssumption
    <3> QED
      BY ONLY <2>2, <3>1, CountedSegments, Zenon
  <2>4. counts' = [local |-> counts.local + here, fetched |-> counts.fetched + n - here]
    BY <1>7 DEF DownloadDone
  <2> HIDE DEF n, here
  <2>5. counts' \in [local : Nat, fetched : Nat]
    <3>1. counts.local \in Nat /\ counts.fetched \in Nat
      BY DEF DownloadInv
    <3>2. counts.local + here \in Nat /\ counts.fetched + n - here \in Nat
      BY <2>3, <3>1
    <3> QED
      BY <2>4, <3>2
  <2> QED
    BY <1>7, <2>5 DEF DownloadDone, DownloadInv, DownloadShape
<1> QED
  BY <1>1, <1>2, <1>3, <1>4, <1>5, <1>6, <1>7 DEF Next, Download

\* The clients' state.
LEMMA ClientInvStep ==
    ASSUME QP!QueueInv, NodeInv, [Next]_vars
    PROVE  ClientInv'
<1> USE DEF NodeInv, ClientInv
<1>1. CASE UNCHANGED <<listed, serving, owed>>
  BY <1>1
<1>2. CASE DownloadSegment
  <2>1. /\ SegmentsOf[peeked.req][download.idx] \in Segments
        /\ TokenId[peeked.req] \in Tokens
    BY <1>2, CurrentSegment DEF DownloadSegment
  <2> QED
    BY <1>2, <2>1 DEF DownloadSegment, clientState
<1>3. ASSUME NEW t \in Tokens, Contact(t)
      PROVE  ClientInv'
  <2>1. t \in DOMAIN routes => Listing(routes[t]) \subseteq Segments
    BY NodeAssumption DEF AdmissionInv, Listing, ToSet
  <2> QED
    BY <1>3, <2>1 DEF Contact
<1>4. ASSUME NEW t \in Tokens, NEW s \in Segments,
             FetchFound(t, s) \/ FetchServed(t, s) \/ FetchMissed(t, s)
      PROVE  ClientInv'
  BY <1>4 DEF FetchFound, FetchServed, FetchMissed
<1> QED
  BY <1>1, <1>2, <1>3, <1>4
  DEF Next, Admit, AdmitStart, AdmitSegment, AdmitStore, AdmitDone, Reply, Download,
      DownloadStart, DownloadStore, DownloadDone, Client, QueueOnly, vars, clientState

\* What is owed and what is pinned.
LEMMA OwedStep ==
    ASSUME QP!QueueInv, NodeInv, [Next]_vars
    PROVE  OwedExactlyPinned'
<1> USE DEF NodeInv
<1>1. CASE UNCHANGED <<cached, routeIdSet, owed>>
  BY <1>1 DEF OwedExactlyPinned
<1>2. routeIdSet \in [Segments -> SUBSET Tokens]
  BY DEF CP!CacheInv, CP!TypeOK
<1>3. CASE DownloadSegment
  <2> DEFINE s == SegmentsOf[peeked.req][download.idx]
             t == TokenId[peeked.req]
  <2>1. s \in Segments /\ t \in Tokens
    BY <1>3, CurrentSegment DEF DownloadSegment
  <2>2. CP!AddSegment(s, t)
    BY <1>3, SameCache DEF DownloadSegment
  <2>3. owed' = IF CP!HopelesslyFull(CP!SizeOf(s)) THEN owed ELSE owed \cup {<<t, s>>}
    <3>1. owed' = IF Cache!HopelesslyFull(SizeOf(s)) THEN owed ELSE owed \cup {<<t, s>>}
      BY <1>3 DEF DownloadSegment
    <3> QED
      BY <2>1, <3>1, SegmentSize, SameCache
  <2> HIDE DEF s, t
  <2>4. CASE CP!HopelesslyFull(CP!SizeOf(s))
    <3>1. UNCHANGED <<cached, routeIdSet>>
      BY <2>2, <2>4 DEF CP!AddSegment, CP!AddRefused, CP!vars
    <3> QED
      BY <1>1, <2>3, <2>4, <3>1
  <2>5. CASE ~CP!HopelesslyFull(CP!SizeOf(s))
    <3>1. /\ routeIdSet' = [routeIdSet EXCEPT ![s] = @ \cup {t}]
          /\ \E V \in SUBSET CP!Unused : cached' = (cached \ V) \cup {s}
      BY <2>1, <2>2, <2>5, CacheConstants, CP!AddSegmentTakes
    <3>2. PICK V \in SUBSET CP!Unused : cached' = (cached \ V) \cup {s}
      BY <3>1
    <3>3. \A v \in V : routeIdSet[v] = {}
      BY DEF CP!Unused
    <3>4. owed' = owed \cup {<<t, s>>}
      BY <2>3, <2>5
    <3>5. ASSUME NEW u \in Tokens, NEW v \in Segments
          PROVE  u \in routeIdSet'[v] <=> <<u, v>> \in owed'
      BY <1>2, <2>1, <3>1, <3>4 DEF OwedExactlyPinned
    <3>6. ASSUME NEW o \in owed'
          PROVE  o[2] \in cached'
      <4>1. CASE o = <<t, s>>
        BY <3>2, <4>1
      <4>2. CASE o \in owed
        <5>1. PICK u \in Tokens, v \in Segments : o = <<u, v>>
          BY <4>2 DEF ClientInv
        <5>2. v \in cached /\ u \in routeIdSet[v]
          BY <4>2, <5>1 DEF OwedExactlyPinned
        <5> QED
          BY <3>2, <3>3, <5>1, <5>2
      <4> QED
        BY <3>4, <4>1, <4>2
    <3> QED
      BY <3>5, <3>6 DEF OwedExactlyPinned
  <2> QED
    BY <2>4, <2>5
<1>4. ASSUME NEW t \in Tokens, NEW s \in Segments, FetchServed(t, s)
      PROVE  OwedExactlyPinned'
  <2>1. CP!UpdateSegmentStatus(s, t) /\ owed' = owed \ {<<t, s>>}
    BY <1>4, SameCache DEF FetchServed
  <2>2. cached' = cached
    BY <2>1 DEF CP!UpdateSegmentStatus, CP!vars
  <2>3. routeIdSet' = [routeIdSet EXCEPT ![s] = @ \ {t}]
    <3>1. CASE s \in cached /\ t \in routeIdSet[s]
      BY <2>1, <3>1 DEF CP!UpdateSegmentStatus
    <3>2. CASE ~(s \in cached /\ t \in routeIdSet[s])
      <4>1. t \notin routeIdSet[s]
        BY <3>2 DEF CP!CacheInv, CP!OnlyCachedNeeded
      <4>2. routeIdSet' = routeIdSet
        BY <2>1, <3>2 DEF CP!UpdateSegmentStatus, CP!vars
      <4> QED
        BY <1>2, <4>1, <4>2
    <3> QED
      BY <3>1, <3>2
  <2>4. ASSUME NEW u \in Tokens, NEW v \in Segments
        PROVE  u \in routeIdSet'[v] <=> <<u, v>> \in owed'
    BY <1>2, <2>1, <2>3 DEF OwedExactlyPinned
  <2>5. \A o \in owed' : o[2] \in cached'
    BY <2>1, <2>2 DEF OwedExactlyPinned
  <2> QED
    BY <2>4, <2>5 DEF OwedExactlyPinned
<1> QED
  BY <1>1, <1>3, <1>4
  DEF Next, Admit, AdmitStart, AdmitSegment, AdmitStore, AdmitDone, Reply, Download,
      DownloadStart, DownloadStore, DownloadDone, Client, Contact, FetchFound, FetchMissed,
      QueueOnly, vars, cacheState

\* The initial state.
LEMMA NodeInit == Init => NodeInv
<1> SUFFICES ASSUME Init PROVE NodeInv
  OBVIOUS
<1>1. CP!Init
  BY SameCache DEF Init
<1>2. CP!CacheInv
  BY <1>1, CacheConstants, CP!InitInv
<1>3. AdmissionInv /\ DownloadInv
  BY DEF Init, AdmissionInv, AdmissionShape, NoReply, DownloadInv, DownloadShape
<1>4. ClientInv
  BY DEF Init, ClientInv
<1>5. OwedExactlyPinned
  BY <1>1 DEF Init, OwedExactlyPinned, CP!Init
<1> QED
  BY <1>2, <1>3, <1>4, <1>5 DEF NodeInv

\* The node's invariant holds of every behaviour.
THEOREM Invariance == Spec => [](QP!QueueInv /\ NodeInv)
<1>1. QP!QueueInv /\ NodeInv /\ [Next]_vars => NodeInv'
  <2> SUFFICES ASSUME QP!QueueInv, NodeInv, [Next]_vars PROVE NodeInv'
    OBVIOUS
  <2>1. CP!CacheInv'
    BY CacheInvStep DEF NodeInv
  <2> QED
    BY <2>1, AdmissionStep, DownloadInvStep, ClientInvStep, OwedStep DEF NodeInv
<1> QED
  BY <1>1, NodeInit, QueueInvariance, PTL DEF Spec

\* A segment taken in for a route stays in the cache, pinned for that route, until its
\* client has fetched it, and nothing else is pinned.
THEOREM OwedPinned == Spec => []OwedExactlyPinned
<1>1. NodeInv => OwedExactlyPinned
  BY DEF NodeInv
<1> QED
  BY <1>1, Invariance, PTL

\* The node implements the specification of its cache.
THEOREM NodeRunsCache == Spec => Cache!Spec
<1>1. Init => Cache!Init
  BY DEF Init
<1>2. QP!QueueInv /\ NodeInv /\ [Next]_vars => [Cache!Next]_(Cache!vars)
  BY CacheStep DEF NodeInv
<1> QED
  BY <1>1, <1>2, Invariance, PTL DEF Spec, Cache!Spec

\* Every variable of the node keeps its type.
THEOREM TypeCorrect == Spec => []TypeOK
<1>1. ASSUME QP!QueueInv, NodeInv PROVE TypeOK
  <2>1. Queue!TypeOK
    BY <1>1 DEF QP!QueueInv, QP!TypeOK, QP!Items, QP!NoItem, Queue!TypeOK, Queue!Items, Queue!NoItem
  <2>2. Cache!TypeOK
    BY <1>1 DEF NodeInv, CP!CacheInv, CP!TypeOK, Cache!TypeOK
  <2>3. admission.step \in {"idle", "segment", "store", "done"}
    BY <1>1 DEF NodeInv, AdmissionInv, AdmissionShape, NoAdmission, Round
  <2>4. download.step \in {"idle", "segment", "store"}
    BY <1>1 DEF NodeInv, DownloadInv, DownloadShape, NoDownload
  <2> QED
    BY <1>1, <2>1, <2>2, <2>3, <2>4 DEF TypeOK, NodeInv, AdmissionInv, DownloadInv, ClientInv
<1> QED
  BY <1>1, Invariance, PTL

\* The node keeps the promises of its parts: Top and Pop always find an item, no
\* download starts before its time or is planned for too late, the eviction list and
\* the byte counters are exact and the capacity is respected, although admission,
\* download and fetches share the two.
THEOREM PartsStaySafe ==
    Spec => [](/\ Queue!NeverTopOfEmpty /\ Queue!StartsInTime
               /\ Cache!EvictableIsUnused /\ Cache!SpaceAccounted)
<1>1. ASSUME QP!QueueInv, QP!AllInTime, NodeInv
      PROVE  /\ Queue!NeverTopOfEmpty /\ Queue!StartsInTime
             /\ Cache!EvictableIsUnused /\ Cache!SpaceAccounted
  <2>1. Queue!NeverTopOfEmpty
    BY <1>1, QueueConstants, QP!TokenMeansItem DEF Queue!NeverTopOfEmpty, QP!WorkerHoldsToken
  <2>2. Queue!StartsInTime
    BY <1>1 DEF QP!QueueInv, QP!AllInTime, QP!NeverTooEarly, QP!NeverPastArrival,
                Queue!StartsInTime, Queue!NeverTooEarly, Queue!NeverPastArrival
  <2>3. CP!Unused = Cache!Unused
    BY DEF CP!Unused, Cache!Unused
  <2>4. Cache!EvictableIsUnused
    BY <1>1, <2>3 DEF NodeInv, CP!CacheInv, CP!EvictableIsUnused, Cache!EvictableIsUnused,
                      CP!ToSet, Cache!ToSet, CP!IsInjective, Cache!IsInjective
  <2>5. Cache!SpaceAccounted
    BY <1>1, <2>3 DEF NodeInv, CP!CacheInv, CP!SizesAccounted, CP!CapacityRespected,
                      Cache!SpaceAccounted, Cache!SizesAccounted, Cache!CapacityRespected
  <2> QED
    BY <2>1, <2>2, <2>4, <2>5
<1>2. Init => QP!AllInTime
  BY SameQueue DEF Init, QP!Init, QP!AllInTime, QP!NeverPastArrival
<1>3. QP!QueueInv /\ QP!AllInTime /\ [Next]_vars => QP!AllInTime'
  BY QueueStep, SameQueue, QueueConstants, QP!InTimeNext
<1> QED
  BY <1>1, <1>2, <1>3, Invariance, PTL DEF Spec
=============================================================================
