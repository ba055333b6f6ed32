------------------------- MODULE RequestQueueProofs -------------------------
(***************************************************************************)
(* Proofs about RequestQueue for every finite set of requests, all arrival  *)
(* times, every proportion and every channel capacity.                      *)
(***************************************************************************)
EXTENDS RequestQueue, FiniteSetTheorems, TLAPS

\* A request is in one place at a time: an item in the queue was called, left
\* the channel, and is not the one the adder is about to push.
OnePlaceEach ==
    /\ IsFiniteSet(downloadRequests)
    /\ routeAddChannel \subseteq called
    /\ \A i \in downloadRequests : i.req \in called \ routeAddChannel
    /\ adder # "receive" => adderItem \in Items /\ adderItem.req \in called \ routeAddChannel
    /\ adder = "push" => \A i \in downloadRequests : i.req # adderItem.req

\* What the worker acts on is an item.
PeekedIsItem == worker \in {"pop", "download"} => peeked \in Items

\* The inductive invariant: that Top and Pop find an item rests on the count of
\* tokens, and the count on every push adding an item that was not there.
QueueInv ==
    /\ TypeOK
    /\ OnePlaceEach
    /\ PeekedIsItem
    /\ RootIsEarliest
    /\ TokensMatchItems
    /\ NeverTooEarly

\* With all variables unchanged everything stays.
LEMMA StutterInv == QueueInv /\ UNCHANGED vars => QueueInv'
BY DEF QueueInv, vars, TypeOK, OnePlaceEach, PeekedIsItem, RootIsEarliest,
       TokensMatchItems, NeverTooEarly, WorkerHoldsToken

\* Start times are integers.
LEMMA StartTimeType ==
    ASSUME NEW r \in Requests, NEW t \in Nat
    PROVE  StartTime(r, t) \in Int
<1>1. ArrivalTime[r] \in Nat /\ Percent \in Int
  BY QueueAssumption
<1> DEFINE n == (ArrivalTime[r] - t) * Percent
<1>2. n \in Int
  BY <1>1
<1> HIDE DEF n
<1>3. RoundHundredths(n) \in Int
  BY <1>2 DEF RoundHundredths
<1> QED
  BY <1>3 DEF StartTime, n

\* The initial state.
LEMMA InitInv == Init => QueueInv
<1> SUFFICES ASSUME Init PROVE QueueInv
  OBVIOUS
<1>1. TypeOK
  <2>1. 0 \in 0..ChannelCapacity
    BY QueueAssumption
  <2>2. downloads \in [Requests -> Nat]
    BY DEF Init
  <2> QED
    BY <2>1, <2>2 DEF Init, TypeOK
<1>2. Cardinality(downloadRequests) = 0 /\ IsFiniteSet(downloadRequests)
  BY FS_EmptySet DEF Init
<1> QED
  BY <1>1, <1>2 DEF Init, QueueInv, OnePlaceEach, PeekedIsItem, RootIsEarliest,
                    TokensMatchItems, NeverTooEarly, WorkerHoldsToken

\* With the invariant, a worker that holds a token finds the queue non-empty.
LEMMA TokenMeansItem ==
    ASSUME QueueInv, WorkerHoldsToken
    PROVE  downloadRequests # {} /\ root \in downloadRequests /\ root \in Items
<1>1. Cardinality(downloadRequests) >= 1
  BY DEF QueueInv, TokensMatchItems, TypeOK
<1>2. downloadRequests # {}
  BY <1>1, FS_EmptySet
<1> QED
  BY <1>2 DEF QueueInv, RootIsEarliest, TypeOK

-----------------------------------------------------------------------------
(* One lemma per kind of step.                                             *)

\* The clock and the handlers leave the queue alone.
LEMMA EnvironmentInv ==
    ASSUME QueueInv,
           \/ HandleUpdateClock \/ Close
           \/ \E r \in Requests : HandleDownloadRequest(r)
    PROVE  QueueInv'
<1>1. CASE HandleUpdateClock
  BY <1>1 DEF HandleUpdateClock, QueueInv, TypeOK, OnePlaceEach, PeekedIsItem,
              RootIsEarliest, TokensMatchItems, NeverTooEarly, WorkerHoldsToken,
              handlerVars, adderVars, queueVars, workerVars, Items, NoItem
<1>2. CASE Close
  BY <1>2 DEF Close, QueueInv, TypeOK, OnePlaceEach, PeekedIsItem, RootIsEarliest,
              TokensMatchItems, NeverTooEarly, WorkerHoldsToken,
              clockVars, handlerVars, adderVars, workerVars
<1>3. ASSUME NEW r \in Requests, HandleDownloadRequest(r) PROVE QueueInv'
  BY <1>3 DEF HandleDownloadRequest, QueueInv, TypeOK, OnePlaceEach, PeekedIsItem,
              RootIsEarliest, TokensMatchItems, NeverTooEarly, WorkerHoldsToken,
              clockVars, adderVars, queueVars, workerVars
<1> QED
  BY <1>1, <1>2, <1>3

\* The adder receives a request.
LEMMA AdderReceiveInv ==
    ASSUME QueueInv, NEW r \in Requests, AdderReceive(r)
    PROVE  QueueInv'
<1>1. StartTime(r, time) \in Int
  BY StartTimeType DEF QueueInv, TypeOK
<1>2. adderItem' \in Items /\ adderItem'.req = r
  BY <1>1 DEF AdderReceive, Items
<1> QED
  BY <1>2 DEF AdderReceive, QueueInv, TypeOK, OnePlaceEach, PeekedIsItem,
              RootIsEarliest, TokensMatchItems, NeverTooEarly, WorkerHoldsToken,
              clockVars, queueVars, workerVars

\* The adder pushes its item.
LEMMA AdderPushInv ==
    ASSUME QueueInv, AdderPush
    PROVE  QueueInv'
<1>1. /\ IsFiniteSet(downloadRequests) /\ adderItem \in Items
      /\ adderItem \notin downloadRequests
  BY DEF QueueInv, OnePlaceEach, AdderPush
<1>2. /\ IsFiniteSet(downloadRequests')
      /\ Cardinality(downloadRequests') = Cardinality(downloadRequests) + 1
  BY <1>1, FS_AddElement DEF AdderPush
<1>3. TypeOK'
  BY <1>1 DEF AdderPush, QueueInv, TypeOK, clockVars, handlerVars, workerVars
<1>4. OnePlaceEach'
  BY <1>2 DEF AdderPush, QueueInv, OnePlaceEach, handlerVars
<1>5. RootIsEarliest'
  <2>1. downloadRequests' = downloadRequests \cup {adderItem}
    BY DEF AdderPush
  <2>2. adderItem.priority \in Int /\ \A i \in downloadRequests : i.priority \in Int
    BY <1>1 DEF QueueInv, TypeOK, Items
  <2>3. CASE downloadRequests = {}
    BY <2>1, <2>2, <2>3 DEF AdderPush, RootIsEarliest
  <2>4. CASE downloadRequests # {} /\ adderItem.priority < root.priority
    <3>1. root \in downloadRequests /\ \A i \in downloadRequests : root.priority <= i.priority
      BY <2>4 DEF QueueInv, RootIsEarliest
    <3>2. root' = adderItem
      BY <2>4 DEF AdderPush
    <3> QED
      BY <2>1, <2>2, <2>4, <3>1, <3>2 DEF RootIsEarliest
  <2>5. CASE downloadRequests # {} /\ ~(adderItem.priority < root.priority)
    <3>1. root \in downloadRequests /\ \A i \in downloadRequests : root.priority <= i.priority
      BY <2>5 DEF QueueInv, RootIsEarliest
    <3>2. root' = root
      BY <2>5 DEF AdderPush
    <3> QED
      BY <2>1, <2>2, <2>5, <3>1, <3>2 DEF RootIsEarliest
  <2> QED
    BY <2>3, <2>4, <2>5
<1>6. TokensMatchItems'
  <2>1. Cardinality(downloadRequests) \in Nat /\ tokens \in Nat
    BY <1>1, FS_CardinalityType DEF QueueInv, TypeOK
  <2> QED
    BY <1>2, <2>1 DEF AdderPush, QueueInv, TokensMatchItems, WorkerHoldsToken, workerVars
<1>7. NeverTooEarly' /\ PeekedIsItem'
  BY DEF AdderPush, QueueInv, NeverTooEarly, PeekedIsItem, clockVars, workerVars
<1> QED
  BY <1>3, <1>4, <1>5, <1>6, <1>7 DEF QueueInv

\* The adder sends the token, and then the reply.
LEMMA AdderSendInv ==
    ASSUME QueueInv, AdderSend \/ AdderReply
    PROVE  QueueInv'
<1>1. Cardinality(downloadRequests) \in Nat /\ tokens \in 0..ChannelCapacity
      /\ ChannelCapacity \in Nat
  BY FS_CardinalityType, QueueAssumption DEF QueueInv, TypeOK, OnePlaceEach
<1>2. CASE AdderSend
  <2>1. TypeOK'
    BY <1>1, <1>2 DEF AdderSend, QueueInv, TypeOK, clockVars, handlerVars, workerVars
  <2>2. TokensMatchItems'
    BY <1>1, <1>2 DEF AdderSend, QueueInv, TokensMatchItems, WorkerHoldsToken, workerVars
  <2> QED
    BY <1>2, <2>1, <2>2 DEF AdderSend, QueueInv, OnePlaceEach, PeekedIsItem,
        RootIsEarliest, NeverTooEarly, clockVars, handlerVars, workerVars
<1>3. CASE AdderReply
  <2>1. adderItem \in Items
    BY <1>3 DEF AdderReply, QueueInv, OnePlaceEach
  <2> QED
    BY <1>3, <2>1 DEF AdderReply, QueueInv, TypeOK, OnePlaceEach, PeekedIsItem,
        RootIsEarliest, TokensMatchItems, NeverTooEarly, WorkerHoldsToken,
        clockVars, queueVars, workerVars, Items
<1> QED
  BY <1>2, <1>3

\* The worker's steps that leave the queue alone.
LEMMA WorkerTokenInv ==
    ASSUME QueueInv,
           WorkerReceive \/ WorkerStop \/ WorkerPeek \/ WorkerResend \/ WorkerPanic
    PROVE  QueueInv'
<1>1. Cardinality(downloadRequests) \in Nat /\ tokens \in 0..ChannelCapacity
      /\ ChannelCapacity \in Nat
  BY FS_CardinalityType, QueueAssumption DEF QueueInv, TypeOK, OnePlaceEach
<1>2. CASE WorkerPeek
  <2>1. root \in Items
    BY <1>2, TokenMeansItem DEF WorkerPeek, WorkerHoldsToken
  <2>2. root.priority \in Int /\ time \in Nat
    BY <2>1 DEF Items, QueueInv, TypeOK
  <2> QED
    BY <1>2, <2>1, <2>2 DEF WorkerPeek, QueueInv, TypeOK, OnePlaceEach, PeekedIsItem,
        RootIsEarliest, TokensMatchItems, NeverTooEarly, WorkerHoldsToken,
        clockVars, handlerVars, adderVars, queueVars
<1>3. CASE WorkerReceive
  BY <1>1, <1>3 DEF WorkerReceive, QueueInv, TypeOK, OnePlaceEach, PeekedIsItem,
        RootIsEarliest, TokensMatchItems, NeverTooEarly, WorkerHoldsToken,
        clockVars, handlerVars, adderVars
<1>4. CASE WorkerResend
  BY <1>1, <1>4 DEF WorkerResend, QueueInv, TypeOK, OnePlaceEach, PeekedIsItem,
        RootIsEarliest, TokensMatchItems, NeverTooEarly, WorkerHoldsToken,
        clockVars, handlerVars, adderVars
<1>5. CASE WorkerStop \/ WorkerPanic
  BY <1>1, <1>5 DEF WorkerStop, WorkerPanic, QueueInv, TypeOK, OnePlaceEach,
        PeekedIsItem, RootIsEarliest, TokensMatchItems, NeverTooEarly,
        WorkerHoldsToken, clockVars, handlerVars, adderVars, queueVars
<1> QED
  BY <1>2, <1>3, <1>4, <1>5

\* The worker pops slot 0.
LEMMA WorkerPopInv ==
    ASSUME QueueInv, WorkerPop
    PROVE  QueueInv'
<1>1. downloadRequests # {} /\ root \in downloadRequests
  BY TokenMeansItem DEF WorkerPop, WorkerHoldsToken
<1>2. /\ IsFiniteSet(downloadRequests')
      /\ Cardinality(downloadRequests') = Cardinality(downloadRequests) - 1
  BY <1>1, FS_RemoveElement DEF WorkerPop, QueueInv, OnePlaceEach
<1>3. RootIsEarliest'
  <2>1. CASE downloadRequests \subseteq {root}
    BY <2>1 DEF WorkerPop, RootIsEarliest
  <2>2. CASE ~(downloadRequests \subseteq {root})
    BY <2>2 DEF WorkerPop, RootIsEarliest
  <2> QED
    BY <2>1, <2>2
<1>4. TypeOK'
  <2>1. root' \in Items \cup {NoItem}
    BY DEF WorkerPop, QueueInv, TypeOK
  <2> QED
    BY <2>1 DEF WorkerPop, QueueInv, TypeOK, clockVars, handlerVars, adderVars
<1>5. TokensMatchItems'
  <2>1. Cardinality(downloadRequests) \in Nat /\ tokens \in Nat
    BY FS_CardinalityType DEF QueueInv, TypeOK, OnePlaceEach
  <2> QED
    BY <1>2, <2>1 DEF WorkerPop, QueueInv, TokensMatchItems, WorkerHoldsToken, adderVars
<1>6. OnePlaceEach'
  BY <1>2 DEF WorkerPop, QueueInv, OnePlaceEach, handlerVars, adderVars
<1>7. NeverTooEarly' /\ PeekedIsItem'
  BY DEF WorkerPop, QueueInv, NeverTooEarly, PeekedIsItem, clockVars
<1> QED
  BY <1>3, <1>4, <1>5, <1>6, <1>7 DEF QueueInv

\* The worker downloads the peeked request.
LEMMA WorkerDownloadInv ==
    ASSUME QueueInv, WorkerDownload
    PROVE  QueueInv'
<1>1. peeked \in Items /\ peeked.req \in Requests
  BY DEF WorkerDownload, QueueInv, PeekedIsItem, Items
<1>2. downloads' \in [Requests -> Nat]
  BY <1>1 DEF WorkerDownload, QueueInv, TypeOK
<1> QED
  BY <1>2 DEF WorkerDownload, QueueInv, TypeOK, OnePlaceEach, PeekedIsItem,
        RootIsEarliest, TokensMatchItems, NeverTooEarly, WorkerHoldsToken,
        clockVars, handlerVars, adderVars, queueVars

\* Every step.
LEMMA NextInv == QueueInv /\ [Next]_vars => QueueInv'
<1> SUFFICES ASSUME QueueInv, [Next]_vars PROVE QueueInv'
  OBVIOUS
<1>1. CASE UNCHANGED vars
  BY <1>1, StutterInv
<1>2. CASE HandleUpdateClock \/ Close \/ \E r \in Requests : HandleDownloadRequest(r)
  BY <1>2, EnvironmentInv
<1>3. CASE Adder
  BY <1>3, AdderReceiveInv, AdderPushInv, AdderSendInv DEF Adder
<1>4. CASE Worker
  BY <1>4, WorkerTokenInv, WorkerPopInv, WorkerDownloadInv DEF Worker
<1> QED
  BY <1>1, <1>2, <1>3, <1>4 DEF Next

\* The inductive invariant holds of every behaviour.
THEOREM Invariance == Spec => []QueueInv
<1>1. Init => QueueInv
  BY InitInv
<1>2. QueueInv /\ [Next]_vars => QueueInv'
  BY NextInv
<1> QED
  BY <1>1, <1>2, PTL DEF Spec

\* Every variable keeps its type.
THEOREM TypeCorrect == Spec => []TypeOK
<1>1. QueueInv => TypeOK
  BY DEF QueueInv
<1> QED
  BY <1>1, Invariance, PTL

\* The unlocked Top and the Pop after it always find an item.
THEOREM QueueNeverEmptyWhenRead == Spec => []NeverTopOfEmpty
<1>1. QueueInv => NeverTopOfEmpty
  BY TokenMeansItem DEF NeverTopOfEmpty, WorkerHoldsToken
<1> QED
  BY <1>1, Invariance, PTL

\* There is exactly one token per item, and no download starts too early, even
\* though pushes come between the look at slot 0 and the pop.
THEOREM QueueAccounting == Spec => [](TokensMatchItems /\ RootIsEarliest /\ NeverTooEarly)
<1>1. QueueInv => TokensMatchItems /\ RootIsEarliest /\ NeverTooEarly
  BY DEF QueueInv
<1> QED
  BY <1>1, Invariance, PTL

\* The adder, holding the mutex, and the worker, holding a token, only block each other
\* on the token channel (metamanager.go:503) when the heap is two items over its
\* capacity: the limit of EveryCallAnswered, for every capacity and set of requests.
THEOREM BlockedOnlyBeyondCapacity ==
    Spec => [](RoomForAdder =>
                  ~(adder = "send" /\ tokens = ChannelCapacity /\ WorkerHoldsToken))
<1>1. ASSUME QueueInv, RoomForAdder, adder = "send", tokens = ChannelCapacity,
             WorkerHoldsToken
      PROVE  FALSE
  <2>1. Cardinality(downloadRequests) = ChannelCapacity + 2
    BY <1>1, QueueAssumption DEF QueueInv, TokensMatchItems
  <2> QED
    BY <1>1, <2>1, QueueAssumption DEF RoomForAdder
<1>2. QueueInv => (RoomForAdder =>
                  ~(adder = "send" /\ tokens = ChannelCapacity /\ WorkerHoldsToken))
  BY <1>1
<1> QED
  BY <1>2, Invariance, PTL

-----------------------------------------------------------------------------
(* Nothing is downloaded that did not leave the queue, nor the other way.    *)

\* One more download of a request is one more download.
LEMMA OneMoreDownload ==
    ASSUME downloads \in [Requests -> Nat], NEW r \in Requests,
           IsFiniteSet(DownloadsDone), downloads' = [downloads EXCEPT ![r] = @ + 1]
    PROVE  /\ IsFiniteSet(DownloadsDone')
           /\ Cardinality(DownloadsDone') = Cardinality(DownloadsDone) + 1
<1> DEFINE new == <<r, downloads[r] + 1>>
<1>1. downloads[r] \in Nat /\ downloads'[r] = downloads[r] + 1
      /\ \A q \in Requests \ {r} : downloads'[q] = downloads[q]
  OBVIOUS
<1>2. 1..downloads'[r] = (1..downloads[r]) \cup {downloads[r] + 1}
  BY <1>1
<1>3. \A d : d \in DownloadsDone <=>
          \E q \in Requests : \E k \in 1..downloads[q] : d = <<q, k>>
  BY DEF DownloadsDone
<1>4. \A d : d \in DownloadsDone' <=>
          \E q \in Requests : \E k \in 1..downloads'[q] : d = <<q, k>>
  BY DEF DownloadsDone
<1>5. DownloadsDone' = DownloadsDone \cup {new}
  <2>1. ASSUME NEW d \in DownloadsDone'
        PROVE  d \in DownloadsDone \cup {new}
    <3>0. PICK q \in Requests : \E k \in 1..downloads'[q] : d = <<q, k>>
      BY <1>4
    <3>1. PICK k \in 1..downloads'[q] : d = <<q, k>>
      BY <3>0
    <3>2. CASE q = r
      BY <1>2, <1>3, <3>1, <3>2
    <3>3. CASE q # r
      BY <1>1, <1>3, <3>1, <3>3
    <3> QED
      BY <3>2, <3>3
  <2>2. ASSUME NEW d \in DownloadsDone
        PROVE  d \in DownloadsDone'
    <3>0. PICK q \in Requests : \E k \in 1..downloads[q] : d = <<q, k>>
      BY <1>3
    <3>1. PICK k \in 1..downloads[q] : d = <<q, k>>
      BY <3>0
    <3>2. k \in 1..downloads'[q]
      BY <1>1, <1>2, <3>1
    <3> QED
      BY <1>4, <3>1, <3>2
  <2>3. new \in DownloadsDone'
    BY <1>1, <1>2, <1>4
  <2> QED
    BY <2>1, <2>2, <2>3
<1>6. new \notin DownloadsDone
  <2> SUFFICES ASSUME NEW q \in Requests, NEW k \in 1..downloads[q], new = <<q, k>>
               PROVE  FALSE
    BY <1>3
  <2>1. q = r /\ k = downloads[r] + 1
    OBVIOUS
  <2> QED
    BY <1>1, <2>1
<1> QED
  BY <1>5, <1>6, FS_AddElement

ConservedInv == IsFiniteSet(DownloadsDone) /\ DownloadsConserved

\* Each step moves one request on, or none.
LEMMA ConservedNext ==
    ASSUME QueueInv, ConservedInv, [Next]_vars
    PROVE  ConservedInv'
<1>1. /\ IsFiniteSet(called) /\ IsFiniteSet(routeAddChannel) /\ IsFiniteSet(downloadRequests)
      /\ IsFiniteSet(DownloadsDone) /\ downloads \in [Requests -> Nat]
      /\ routeAddChannel \subseteq called
  BY QueueAssumption, FS_Subset DEF QueueInv, TypeOK, OnePlaceEach, ConservedInv
<1>2. /\ Cardinality(called) \in Nat /\ Cardinality(routeAddChannel) \in Nat
      /\ Cardinality(downloadRequests) \in Nat /\ Cardinality(DownloadsDone) \in Nat
  BY <1>1, FS_CardinalityType
<1>3. DownloadsConserved
  BY DEF ConservedInv
<1>4. ASSUME downloads' = downloads
      PROVE  DownloadsDone' = DownloadsDone
  BY <1>4 DEF DownloadsDone
<1>5. CASE \/ UNCHANGED vars \/ HandleUpdateClock \/ Close \/ AdderSend \/ AdderReply
           \/ WorkerReceive \/ WorkerStop \/ WorkerPeek \/ WorkerResend \/ WorkerPanic
  <2>1. /\ downloads' = downloads /\ downloadRequests' = downloadRequests
        /\ called' = called /\ routeAddChannel' = routeAddChannel
        /\ (worker' = "download") <=> (worker = "download")
        /\ (adder' = "push") <=> (adder = "push")
    BY <1>5 DEF vars, HandleUpdateClock, Close, AdderSend, AdderReply, WorkerReceive, WorkerStop,
       WorkerPeek, WorkerResend, WorkerPanic, clockVars, handlerVars, adderVars, queueVars, workerVars
  <2> QED
    BY <1>1, <1>3, <1>4, <2>1 DEF ConservedInv, DownloadsConserved
<1>6. ASSUME NEW r \in Requests, HandleDownloadRequest(r)
      PROVE  ConservedInv'
  <2>1. /\ downloads' = downloads /\ downloadRequests' = downloadRequests
        /\ called' = called \cup {r} /\ routeAddChannel' = routeAddChannel \cup {r}
        /\ worker' = worker /\ adder' = adder /\ r \notin called /\ r \notin routeAddChannel
    BY <1>1, <1>6 DEF HandleDownloadRequest, adderVars, queueVars, workerVars
  <2>2. /\ Cardinality(called') = Cardinality(called) + 1
        /\ Cardinality(routeAddChannel') = Cardinality(routeAddChannel) + 1
    BY <1>1, <2>1, FS_AddElement
  <2> QED
    BY <1>1, <1>2, <1>3, <1>4, <2>1, <2>2 DEF ConservedInv, DownloadsConserved
<1>7. ASSUME NEW r \in Requests, AdderReceive(r)
      PROVE  ConservedInv'
  <2>1. /\ downloads' = downloads /\ downloadRequests' = downloadRequests
        /\ called' = called /\ routeAddChannel' = routeAddChannel \ {r} /\ r \in routeAddChannel
        /\ worker' = worker /\ adder = "receive" /\ adder' = "push"
    BY <1>7 DEF AdderReceive, queueVars, workerVars
  <2>2. Cardinality(routeAddChannel') = Cardinality(routeAddChannel) - 1
    BY <1>1, <2>1, FS_RemoveElement
  <2> QED
    BY <1>1, <1>2, <1>3, <1>4, <2>1, <2>2 DEF ConservedInv, DownloadsConserved
<1>8. CASE AdderPush
  <2>1. /\ downloads' = downloads /\ downloadRequests' = downloadRequests \cup {adderItem}
        /\ called' = called /\ routeAddChannel' = routeAddChannel
        /\ worker' = worker /\ adder = "push" /\ adder' = "send"
        /\ adderItem \notin downloadRequests
    BY <1>8 DEF AdderPush, handlerVars, workerVars, QueueInv, OnePlaceEach
  <2>2. Cardinality(downloadRequests') = Cardinality(downloadRequests) + 1
    BY <1>1, <2>1, FS_AddElement
  <2> QED
    BY <1>1, <1>2, <1>3, <1>4, <2>1, <2>2 DEF ConservedInv, DownloadsConserved
<1>9. CASE WorkerPop
  <2>1. /\ downloads' = downloads /\ downloadRequests' = downloadRequests \ {root}
        /\ called' = called /\ routeAddChannel' = routeAddChannel /\ adder' = adder
        /\ worker = "pop" /\ worker' = "download"
    BY <1>9 DEF WorkerPop, handlerVars, adderVars
  <2>2. root \in downloadRequests
    BY <1>9, TokenMeansItem DEF WorkerPop, WorkerHoldsToken
  <2>3. Cardinality(downloadRequests') = Cardinality(downloadRequests) - 1
    BY <1>1, <2>1, <2>2, FS_RemoveElement
  <2> QED
    BY <1>1, <1>2, <1>3, <1>4, <2>1, <2>3 DEF ConservedInv, DownloadsConserved
<1>10. CASE WorkerDownload
  <2>1. /\ downloads' = [downloads EXCEPT ![peeked.req] = @ + 1]
        /\ downloadRequests' = downloadRequests /\ called' = called
        /\ routeAddChannel' = routeAddChannel /\ adder' = adder
        /\ worker = "download" /\ worker' = "receive"
    BY <1>10 DEF WorkerDownload, handlerVars, adderVars, queueVars
  <2>2. peeked.req \in Requests
    BY <2>1 DEF QueueInv, PeekedIsItem, Items
  <2>3. IsFiniteSet(DownloadsDone') /\ Cardinality(DownloadsDone') = Cardinality(DownloadsDone) + 1
    BY <1>1, <2>1, <2>2, OneMoreDownload
  <2> QED
    BY <1>2, <1>3, <2>1, <2>3 DEF ConservedInv, DownloadsConserved
<1> QED
  BY <1>5, <1>6, <1>7, <1>8, <1>9, <1>10 DEF Next, Adder, Worker

\* Every download done stands for one item that left the queue, even when the item
\* popped is another than the one looked at (metamanager.go:323-339).
THEOREM DownloadsAreConserved == Spec => []DownloadsConserved
<1>1. Init => ConservedInv
  <2> SUFFICES ASSUME Init PROVE ConservedInv
    OBVIOUS
  <2>1. DownloadsDone = {}
    BY DEF Init, DownloadsDone
  <2> QED
    BY <2>1, FS_EmptySet DEF Init, ConservedInv, DownloadsConserved
<1>2. QueueInv /\ ConservedInv /\ [Next]_vars => ConservedInv'
  BY ConservedNext
<1>3. ConservedInv => DownloadsConserved
  BY DEF ConservedInv
<1> QED
  BY <1>1, <1>2, <1>3, Invariance, PTL DEF Spec

-----------------------------------------------------------------------------
(* Start times.                                                            *)

\* A rounded proportion of a wait is no longer than the wait; of one that is over, it
\* is nothing or lies back.
LEMMA Proportion ==
    ASSUME NEW d \in Int, NEW p \in 0..100
    PROVE  RoundHundredths(d * p) <= (IF d >= 0 THEN d ELSE 0)
<1> DEFINE n == d * p
<1>1. n \in Int
  OBVIOUS
<1>2. CASE d >= 0
  <2>1. n >= 0
    BY <1>2
  <2>2. n <= 100 * d
    BY <1>2
  <2> HIDE DEF n
  <2>3. (2 * n + 100) \div 200 <= d
    BY <1>1, <1>2, <2>2
  <2> QED
    BY <1>2, <2>1, <2>3 DEF RoundHundredths, n
<1>3. CASE d < 0
  <2>1. n <= 0
    BY <1>3
  <2> HIDE DEF n
  <2>2. RoundHundredths(n) <= 0
    BY <1>1, <2>1 DEF RoundHundredths
  <2> QED
    BY <1>3, <2>2 DEF n
<1> QED
  BY <1>2, <1>3

\* An item that is due by the time its vehicle arrives, or already.
InTime(i) == i.priority <= ArrivalTime[i.req] \/ i.priority <= time

\* A start is planned no later than the arrival, or at once.
LEMMA StartsBefore ==
    ASSUME NEW r \in Requests, NEW t \in Nat
    PROVE  StartTime(r, t) <= ArrivalTime[r] \/ StartTime(r, t) <= t
<1>1. ArrivalTime[r] \in Nat /\ Percent \in 0..100
  BY QueueAssumption
<1> DEFINE d == ArrivalTime[r] - t
           x == RoundHundredths(d * Percent)
<1>2. d \in Int /\ x \in Int
  <2>1. StartTime(r, t) \in Int /\ d \in Int
    BY <1>1, StartTimeType
  <2>2. d * Percent \in Int
    BY <1>1, <2>1
  <2> HIDE DEF d
  <2>3. x \in Int
    BY <2>2 DEF RoundHundredths
  <2> QED
    BY <2>1, <2>3
<1>3. x <= (IF d >= 0 THEN d ELSE 0)
  BY <1>1, <1>2, Proportion
<1>4. StartTime(r, t) = t + x
  BY DEF StartTime
<1> HIDE DEF x
<1> QED
  BY <1>1, <1>2, <1>3, <1>4

\* NeverPastArrival with the item the adder has in hand.
AllInTime == NeverPastArrival /\ (adder # "receive" => InTime(adderItem))

\* Every step keeps the starts in time.
LEMMA InTimeNext ==
    ASSUME QueueInv, AllInTime, [Next]_vars
    PROVE  AllInTime'
<1> USE DEF QueueInv, TypeOK, AllInTime, NeverPastArrival, InTime,
            clockVars, handlerVars, adderVars, queueVars, workerVars
<1>1. CASE HandleUpdateClock
  <2>1. /\ \A i \in downloadRequests : i.priority \in Int
        /\ adder # "receive" => adderItem.priority \in Int
    BY DEF Items, OnePlaceEach
  <2> QED
    BY <1>1, <2>1 DEF HandleUpdateClock
<1>2. ASSUME NEW r \in Requests, AdderReceive(r)
      PROVE  AllInTime'
  BY <1>2, StartsBefore DEF AdderReceive
<1>3. CASE AdderPush
  BY <1>3 DEF AdderPush
<1>4. CASE WorkerPop
  BY <1>4 DEF WorkerPop
<1>5. CASE UNCHANGED <<time, adder, adderItem, downloadRequests>>
  BY <1>5
<1>6. CASE AdderSend \/ AdderReply
  BY <1>6 DEF AdderSend, AdderReply
<1> QED
  BY <1>1, <1>2, <1>3, <1>4, <1>5, <1>6
  DEF Next, Adder, Worker, HandleDownloadRequest, Close, WorkerReceive, WorkerStop, WorkerPeek,
      WorkerResend, WorkerPanic, WorkerDownload, vars

\* No download starts early, and none is planned for after its vehicle's arrival.
THEOREM DownloadsStartInTime == Spec => []StartsInTime
<1>1. Init => AllInTime
  BY DEF Init, AllInTime, NeverPastArrival
<1>2. QueueInv /\ AllInTime => StartsInTime
  BY DEF QueueInv, AllInTime, StartsInTime
<1> QED
  BY <1>1, <1>2, Invariance, InTimeNext, PTL DEF Spec

-----------------------------------------------------------------------------
(* Without procrastination start times never decrease from one push to the *)
(* next, nothing can overtake the peeked item, and the race is harmless.    *)

\* Items are pushed in the order of their start times, and none lies ahead.
InOrder ==
    /\ \A i \in downloadRequests : i.priority <= time
    /\ adder = "push" => /\ adderItem.priority <= time
                          /\ \A i \in downloadRequests : i.priority <= adderItem.priority

\* Every request the adder has pushed is still accounted for.
Accounted ==
    \A r \in called \ routeAddChannel :
        \/ adder = "push" /\ adderItem.req = r
        \/ downloads[r] > 0
        \/ \E i \in downloadRequests : i.req = r
        \/ worker = "download" /\ peeked.req = r

\* Answered requests have been pushed.
AnsweredPushed ==
    /\ answered \subseteq called \ routeAddChannel
    /\ adder = "push" => adderItem.req \notin answered

PromptInv == InOrder /\ PopsWhatItPeeked /\ Accounted /\ AnsweredPushed

\* With a proportion of 0 a download starts at once.
LEMMA PromptStart ==
    ASSUME Percent = 0, NEW r \in Requests, NEW t \in Nat
    PROVE  StartTime(r, t) = t
<1>1. ArrivalTime[r] \in Nat
  BY QueueAssumption
<1>2. (ArrivalTime[r] - t) * 0 = 0
  BY <1>1
<1>3. RoundHundredths(0) = 0
  BY DEF RoundHundredths
<1> QED
  BY <1>2, <1>3 DEF StartTime

\* Steps of the adder that change the queue or its item.
LEMMA PromptAdder ==
    ASSUME Percent = 0, QueueInv, QueueInv', PromptInv, Adder
    PROVE  PromptInv'
<1>1. ASSUME NEW r \in Requests, AdderReceive(r) PROVE PromptInv'
  <2>1. time \in Nat /\ adderItem' = [req |-> r, priority |-> time]
    BY <1>1, PromptStart DEF AdderReceive, QueueInv, TypeOK
  <2>2. InOrder'
    BY <1>1, <2>1 DEF AdderReceive, PromptInv, InOrder, queueVars, clockVars
  <2>3. PopsWhatItPeeked'
    BY <1>1 DEF AdderReceive, PromptInv, PopsWhatItPeeked, queueVars, workerVars
  <2>4. Accounted'
    BY <1>1, <2>1 DEF AdderReceive, PromptInv, Accounted, queueVars, workerVars
  <2>5. AnsweredPushed'
    BY <1>1, <2>1 DEF AdderReceive, PromptInv, AnsweredPushed
  <2> QED
    BY <2>2, <2>3, <2>4, <2>5 DEF PromptInv
<1>2. CASE AdderPush
  <2>1. adderItem \in Items
    BY <1>2 DEF AdderPush, QueueInv, OnePlaceEach
  <2>2. InOrder'
    BY <1>2 DEF AdderPush, PromptInv, InOrder, clockVars
  <2>3. PopsWhatItPeeked'
    <3>1. CASE worker = "pop"
      <4>1. downloadRequests # {} /\ root \in downloadRequests /\ root \in Items
        BY <3>1, TokenMeansItem DEF WorkerHoldsToken
      <4>2. root.priority <= adderItem.priority
        BY <1>2, <4>1 DEF AdderPush, PromptInv, InOrder
      <4>3. root' = root
        BY <1>2, <2>1, <4>1, <4>2 DEF AdderPush, Items
      <4> QED
        BY <1>2, <4>3 DEF AdderPush, PromptInv, PopsWhatItPeeked, workerVars
    <3>2. CASE worker # "pop"
      BY <1>2, <3>2 DEF AdderPush, PopsWhatItPeeked, workerVars
    <3> QED
      BY <3>1, <3>2
  <2>4. Accounted'
    BY <1>2 DEF AdderPush, PromptInv, Accounted, handlerVars, workerVars
  <2>5. AnsweredPushed'
    BY <1>2 DEF AdderPush, PromptInv, AnsweredPushed, handlerVars
  <2> QED
    BY <2>2, <2>3, <2>4, <2>5 DEF PromptInv
<1>3. CASE AdderSend
  BY <1>3 DEF AdderSend, PromptInv, InOrder, PopsWhatItPeeked, Accounted, AnsweredPushed,
              clockVars, handlerVars, workerVars
<1>4. CASE AdderReply
  <2>1. adderItem.req \in called \ routeAddChannel
    BY <1>4 DEF AdderReply, QueueInv, OnePlaceEach
  <2> QED
    BY <1>4, <2>1 DEF AdderReply, PromptInv, InOrder, PopsWhatItPeeked, Accounted,
        AnsweredPushed, clockVars, queueVars, workerVars
<1> QED
  BY <1>1, <1>2, <1>3, <1>4 DEF Adder

\* Steps of the worker.
LEMMA PromptWorker ==
    ASSUME QueueInv, QueueInv', PromptInv, Worker
    PROVE  PromptInv'
<1>1. CASE WorkerPop
  <2>1. root = peeked /\ root \in downloadRequests /\ downloadRequests' \subseteq downloadRequests
    BY <1>1, TokenMeansItem DEF WorkerPop, WorkerHoldsToken, PromptInv, PopsWhatItPeeked
  <2>2. InOrder' /\ PopsWhatItPeeked' /\ AnsweredPushed'
    BY <1>1, <2>1 DEF WorkerPop, PromptInv, InOrder, PopsWhatItPeeked, AnsweredPushed,
        clockVars, handlerVars, adderVars
  <2>3. Accounted'
    BY <1>1, <2>1 DEF WorkerPop, PromptInv, Accounted, handlerVars, adderVars
  <2> QED
    BY <2>2, <2>3 DEF PromptInv
<1>2. CASE WorkerDownload
  <2>1. peeked.req \in Requests /\ downloads \in [Requests -> Nat]
    BY <1>2 DEF WorkerDownload, QueueInv, PeekedIsItem, Items, TypeOK
  <2>2. downloads'[peeked.req] > 0
    BY <1>2, <2>1 DEF WorkerDownload
  <2>3. \A r \in Requests : downloads[r] > 0 => downloads'[r] > 0
    BY <1>2, <2>1 DEF WorkerDownload
  <2>4. Accounted'
    BY <1>2, <2>2, <2>3 DEF WorkerDownload, PromptInv, Accounted, QueueInv, TypeOK,
        handlerVars, adderVars, queueVars
  <2>5. InOrder' /\ PopsWhatItPeeked' /\ AnsweredPushed'
    BY <1>2 DEF WorkerDownload, PromptInv, InOrder, PopsWhatItPeeked, AnsweredPushed,
        clockVars, handlerVars, adderVars, queueVars
  <2> QED
    BY <2>4, <2>5 DEF PromptInv
<1>3. CASE WorkerPeek
  BY <1>3 DEF WorkerPeek, PromptInv, InOrder, PopsWhatItPeeked, Accounted, AnsweredPushed,
        clockVars, handlerVars, adderVars, queueVars
<1>4. CASE WorkerReceive \/ WorkerStop \/ WorkerResend \/ WorkerPanic
  BY <1>4 DEF WorkerReceive, WorkerStop, WorkerResend, WorkerPanic, PromptInv, InOrder,
        PopsWhatItPeeked, Accounted, AnsweredPushed,
        clockVars, handlerVars, adderVars, queueVars
<1> QED
  BY <1>1, <1>2, <1>3, <1>4 DEF Worker

\* Every step, when the proportion is 0.
LEMMA PromptNext ==
    ASSUME Percent = 0
    PROVE  QueueInv /\ QueueInv' /\ PromptInv /\ [Next]_vars => PromptInv'
<1> SUFFICES ASSUME QueueInv, QueueInv', PromptInv, [Next]_vars PROVE PromptInv'
  OBVIOUS
<1>1. CASE UNCHANGED vars
  BY <1>1 DEF vars, PromptInv, InOrder, PopsWhatItPeeked, Accounted, AnsweredPushed
<1>2. CASE HandleUpdateClock
  BY <1>2 DEF HandleUpdateClock, QueueInv, TypeOK, Items, OnePlaceEach, PromptInv, InOrder,
        PopsWhatItPeeked, Accounted, AnsweredPushed,
        handlerVars, adderVars, queueVars, workerVars
<1>3. CASE Close
  BY <1>3 DEF Close, PromptInv, InOrder, PopsWhatItPeeked, Accounted, AnsweredPushed,
        clockVars, handlerVars, adderVars, workerVars
<1>4. ASSUME NEW r \in Requests, HandleDownloadRequest(r) PROVE PromptInv'
  BY <1>4 DEF HandleDownloadRequest, PromptInv, InOrder, PopsWhatItPeeked, Accounted,
        AnsweredPushed, clockVars, adderVars, queueVars, workerVars
<1>5. CASE Adder
  BY <1>5, PromptAdder
<1>6. CASE Worker
  BY <1>6, PromptWorker
<1> QED
  BY <1>1, <1>2, <1>3, <1>4, <1>5, <1>6 DEF Next

\* Without procrastination the worker pops what it peeked, and no answered
\* request is lost.
THEOREM PromptSafe ==
    ASSUME Percent = 0
    PROVE  Spec => [](PopsWhatItPeeked /\ NoRequestLost)
<1>1. Init => PromptInv
  BY DEF Init, PromptInv, InOrder, PopsWhatItPeeked, Accounted, AnsweredPushed
<1>2. QueueInv /\ QueueInv' /\ PromptInv /\ [Next]_vars => PromptInv'
  BY PromptNext
<1>3. PromptInv => PopsWhatItPeeked /\ NoRequestLost
  BY DEF PromptInv, Accounted, AnsweredPushed, NoRequestLost
<1> QED
  BY <1>1, <1>2, <1>3, Invariance, PTL DEF Spec
=============================================================================
