------------------------------ MODULE EdgeNode ------------------------------
(***************************************************************************)
(* A Go edge node: the request queue and the segment cache, composed by the *)
(* metadata manager (src/edge_go/metamanager.go) and read by the content     *)
(* server (contentserver.go).                                               *)
(*                                                                         *)
(*   adder    admits a request (canAddSegments: nothing is downloaded yet,  *)
(*            free space and the bytes pending decide what is committed),   *)
(*            then queues it (module RequestQueue) and replies              *)
(*   worker   takes the peeked request segment by segment into the cache    *)
(*            (module SegmentCache) until one is refused                    *)
(*   clients  ask for the segments of their route and fetch them, which     *)
(*            unpins them                                                   *)
(*                                                                         *)
(* Adder, worker and the clients' handlers are goroutines that share        *)
(* pendingDlSize, evicted and routes without a lock.  `pendingDlSize += x`   *)
(* is a load and a store; each is a step of its own.                        *)
(***************************************************************************)
EXTENDS Integers, Sequences, SequencesExt, FiniteSetsExt

CONSTANTS
    Requests, ArrivalTime, Percent, ChannelCapacity, MaxTime,   \* the queue
    Segments, TotalSize, Capacity, CachePolicy, MaxTimestamp,   \* the cache
    Tokens,         \* route identifiers
    TokenId,        \* the token of each request
    SegmentsOf,     \* the list of segments each request offers
    KnownSource     \* the segments whose source the link tracker knows

ASSUME NodeAssumption ==
    /\ TokenId \in [Requests -> Tokens]
    /\ SegmentsOf \in [Requests -> Seq(Segments)]
    /\ KnownSource \subseteq Segments

\* What the queue and the cache assume of their constants.
ASSUME PartsAssumption ==
    /\ IsFiniteSet(Requests)
    /\ ArrivalTime \in [Requests -> Nat]
    /\ Percent \in 0..100
    /\ ChannelCapacity \in Nat \ {0}
    /\ MaxTime \in Nat
    /\ TotalSize \in [SUBSET Segments -> Nat]
    /\ \A S, T \in SUBSET Segments :
          S \cap T = {} => TotalSize[S \cup T] = TotalSize[S] + TotalSize[T]
    /\ Capacity \in Nat
    /\ MaxTimestamp \in Nat
    /\ CachePolicy \in {"lru", "lfu"}

VARIABLES
    time, called, routeAddChannel, answered, adder, adderItem,
    downloadRequests, root, tokens, worker, peeked, downloads, closed,
    cached, routeIdSet, timestamp, popularity, evictable,
    currentSize, evictableSize, currentTimestamp,
    routes,         \* the request each known token was first seen with
    admission,      \* where the adder is in canAddSegments
    pendingDlSize,  \* bytes promised but not yet downloaded
    evicted,        \* evictions the next reply should report
    reply,          \* the reply the adder has built
    download,       \* where the worker is in the request's segments
    counts,         \* segments counted as local and as downloaded, for the results
    listed,         \* per token, what its client still has to fetch
    serving,        \* fetches between HasSegment and UpdateSegmentStatus
    owed            \* segments taken in for a route that has not fetched them

queueState == <<time, called, routeAddChannel, answered, adder, adderItem,
                downloadRequests, root, tokens, worker, peeked, downloads, closed>>
cacheState == <<cached, routeIdSet, timestamp, popularity, evictable,
                currentSize, evictableSize, currentTimestamp>>
admissionState == <<routes, admission, reply>>
downloadState == <<download, counts>>
clientState == <<listed, serving>>
vars == <<queueState, cacheState, admissionState, downloadState, clientState,
          pendingDlSize, evicted, owed>>

Queue == INSTANCE RequestQueue
Cache == INSTANCE SegmentCache WITH Routes <- Tokens

SizeOf(s) == TotalSize[{s}]
Listing(r) == ToSet(SegmentsOf[r])

NoAdmission == [step |-> "idle"]
NoReply == [committed |-> <<>>, evicted |-> {}]
NoDownload == [step |-> "idle"]

Init ==
    /\ Queue!Init /\ Cache!Init
    /\ routes = <<>>
    /\ admission = NoAdmission /\ reply = NoReply /\ download = NoDownload
    /\ counts = [local |-> 0, fetched |-> 0]
    /\ pendingDlSize = 0 /\ evicted = {}
    /\ listed = [t \in Tokens |-> {}]
    /\ serving = {} /\ owed = {}

-----------------------------------------------------------------------------
(* The adder: handleAddRoute and canAddSegments.                           *)

\* Receive a request; forget evictions; a known token commits nothing.  (The
\* request leaves routeAddChannel when its item is made, below.)
AdmitStart(r) ==
    /\ adder = "receive" /\ admission = NoAdmission /\ r \in routeAddChannel
    /\ evicted' = {}
    /\ IF TokenId[r] \in DOMAIN routes
       THEN /\ admission' = [step |-> "done", req |-> r, committed |-> <<>>]
            /\ UNCHANGED routes
       ELSE /\ routes' = [t \in DOMAIN routes \cup {TokenId[r]} |->
                              IF t = TokenId[r] THEN r ELSE routes[t]]
            /\ admission' = [step |-> "segment", req |-> r, committed |-> <<>>,
                             additions |-> 0,
                             space |-> Cache!GetAvailableFreeSpace - pendingDlSize]
    /\ UNCHANGED <<queueState, cacheState, reply, downloadState, clientState,
                   pendingDlSize, owed>>

\* One round of the loop.  What was accepted counts twice: it is added to
\* possibleAdditions and taken off availableSpace.
AdmitSegment ==
    /\ admission.step = "segment"
    /\ LET a == admission
           i == Len(a.committed) + 1
       IN  IF i > Len(SegmentsOf[a.req])
           THEN admission' = [step |-> "done", req |-> a.req, committed |-> a.committed]
           ELSE LET s == SegmentsOf[a.req][i]
                    accepted == [a EXCEPT !.committed = Append(@, s),
                                          !.additions = @ + SizeOf(s),
                                          !.space = @ - SizeOf(s)]
                IN  CASE \/ SizeOf(s) + a.additions > a.space
                         \/ ~Cache!HasSegment(s) /\ s \notin KnownSource ->
                            admission' = [step |-> "done", req |-> a.req,
                                          committed |-> a.committed]
                      [] OTHER ->
                            admission' = IF Cache!HasSegment(s) THEN accepted
                                         ELSE [step |-> "store", then |-> accepted,
                                               value |-> pendingDlSize + SizeOf(s)]
    /\ UNCHANGED <<queueState, cacheState, routes, reply, downloadState, clientState,
                   pendingDlSize, evicted, owed>>

\* The store of pendingDlSize += segment.SegmentSize.
AdmitStore ==
    /\ admission.step = "store"
    /\ pendingDlSize' = admission.value
    /\ admission' = admission.then
    /\ UNCHANGED <<queueState, cacheState, routes, reply, downloadState, clientState,
                   evicted, owed>>

\* Build the reply and make the queue item.
AdmitDone(r) ==
    /\ admission.step = "done" /\ admission.req = r
    /\ Queue!AdderReceive(r)
    /\ reply' = [committed |-> admission.committed, evicted |-> evicted]
    /\ admission' = NoAdmission
    /\ UNCHANGED <<cacheState, routes, downloadState, clientState, pendingDlSize,
                   evicted, owed>>

\* Hand the reply over and empty the list of evictions.
Reply ==
    /\ Queue!AdderReply
    /\ evicted' = {}
    /\ reply' = NoReply
    /\ UNCHANGED <<cacheState, routes, admission, downloadState, clientState,
                   pendingDlSize, owed>>

-----------------------------------------------------------------------------
(* The worker: the segment loop of processDownloads, and addSegments.       *)

\* After the pop: start at the first segment of the peeked request.
DownloadStart ==
    /\ worker = "download" /\ download = NoDownload
    /\ download' = [step |-> "segment", value |-> 0, idx |-> 1, local |-> {}]
    /\ UNCHANGED <<queueState, cacheState, admissionState, counts, clientState,
                   pendingDlSize, evicted, owed>>

\* Take one segment in.  Only the worker adds and evicts, so that what it sees
\* with HasSegment is still so in AddSegment.  A refusal ends the loop, after the
\* pending bytes are adjusted all the same.
DownloadSegment ==
    /\ download.step = "segment"
    /\ download.idx <= Len(SegmentsOf[peeked.req])
    /\ LET s == SegmentsOf[peeked.req][download.idx]
           t == TokenId[peeked.req]
           here == Cache!HasSegment(s)
           refused == Cache!HopelesslyFull(SizeOf(s))
           size == IF here THEN 0 ELSE SizeOf(s)
       IN  /\ Cache!AddSegment(s, t)
           \* The segment may itself have been the victim; it then comes back as new.
           /\ evicted' = evicted \cup (cached \ cached')
                          \cup {v \in {s} : ~refused /\ here /\ popularity'[s] = 0}
           /\ owed' = IF refused THEN owed ELSE owed \cup {<<t, s>>}
           /\ download' = [step |-> IF pendingDlSize > 0 THEN "store" ELSE "segment",
                           value |-> IF pendingDlSize > 0 THEN pendingDlSize - size ELSE 0,
                           idx |-> IF refused THEN Len(SegmentsOf[peeked.req]) + 1
                                   ELSE download.idx + 1,
                           local |-> IF here THEN download.local \cup {s}
                                     ELSE download.local]
    /\ UNCHANGED <<queueState, admissionState, counts, clientState, pendingDlSize>>

\* The store of pendingDlSize -= committedSize, when some was pending.
DownloadStore ==
    /\ download.step = "store"
    /\ pendingDlSize' = download.value
    /\ download' = [download EXCEPT !.step = "segment", !.value = 0]
    /\ UNCHANGED <<queueState, cacheState, admissionState, counts, clientState,
                   evicted, owed>>

\* A mistake: the local segments are taken off what was fetched.
DownloadDoneMiscounts ==
    /\ download.step = "segment"
    /\ download.idx > Len(SegmentsOf[peeked.req])
    /\ Queue!WorkerDownload
    /\ LET here == Cardinality(download.local)
       IN  counts' = [local |-> counts.local + here, fetched |-> counts.fetched - here]
    /\ download' = NoDownload
    /\ UNCHANGED <<cacheState, admissionState, clientState, pendingDlSize, evicted, owed>>

\* The loop is over.  Every segment offered is counted, as local or as fetched
\* from an edge or the cloud, the ones after a refusal included.
DownloadDone ==
    /\ download.step = "segment"
    /\ download.idx > Len(SegmentsOf[peeked.req])
    /\ Queue!WorkerDownload
    /\ LET here == Cardinality({i \in DOMAIN SegmentsOf[peeked.req] :
                                   SegmentsOf[peeked.req][i] \in download.local})
       IN  counts' = [local |-> counts.local + here,
                      fetched |-> counts.fetched + Len(SegmentsOf[peeked.req]) - here]
    /\ download' = NoDownload
    /\ UNCHANGED <<cacheState, admissionState, clientState, pendingDlSize, evicted, owed>>

-----------------------------------------------------------------------------
(* Clients of the content server.                                          *)

\* First contact: GetSegments lists what the route's request offered.
Contact(t) ==
    /\ listed' = [listed EXCEPT ![t] = IF t \in DOMAIN routes
                                       THEN Listing(routes[t]) ELSE {}]
    /\ listed' # listed
    /\ UNCHANGED <<queueState, cacheState, admissionState, downloadState, serving,
                   pendingDlSize, evicted, owed>>

\* A fetch for route t that finds the segment.
FetchFound(t, s) ==
    /\ s \in listed[t] /\ <<t, s>> \notin serving
    /\ Cache!HasSegment(s)
    /\ serving' = serving \cup {<<t, s>>}
    /\ listed' = [listed EXCEPT ![t] = @ \ {s}]
    /\ UNCHANGED <<queueState, cacheState, admissionState, downloadState,
                   pendingDlSize, evicted, owed>>

\* The second half: route t no longer needs the segment.
FetchServed(t, s) ==
    /\ <<t, s>> \in serving
    /\ Cache!UpdateSegmentStatus(s, t)
    /\ serving' = serving \ {<<t, s>>}
    /\ owed' = owed \ {<<t, s>>}
    /\ UNCHANGED <<queueState, admissionState, downloadState, listed, pendingDlSize, evicted>>

\* A fetch that finds nothing: the client moves on.
FetchMissed(t, s) ==
    /\ s \in listed[t] /\ ~Cache!HasSegment(s)
    /\ listed' = [listed EXCEPT ![t] = @ \ {s}]
    /\ UNCHANGED <<queueState, cacheState, admissionState, downloadState, serving,
                   pendingDlSize, evicted, owed>>

-----------------------------------------------------------------------------
QueueOnly ==
    /\ \/ Queue!HandleUpdateClock \/ Queue!Close
       \/ Queue!AdderPush \/ Queue!AdderSend
       \/ Queue!WorkerReceive \/ Queue!WorkerStop \/ Queue!WorkerPeek
       \/ Queue!WorkerResend \/ Queue!WorkerPanic \/ Queue!WorkerPop
       \/ \E r \in Requests : Queue!HandleDownloadRequest(r)
    /\ UNCHANGED <<cacheState, admissionState, downloadState, clientState,
                   pendingDlSize, evicted, owed>>

Admit == AdmitSegment \/ AdmitStore \/ Reply \/ \E r \in Requests : AdmitStart(r) \/ AdmitDone(r)

Download == DownloadStart \/ DownloadSegment \/ DownloadStore \/ DownloadDone

Client == \E t \in Tokens :
    \/ Contact(t)
    \/ \E s \in Segments : FetchFound(t, s) \/ FetchServed(t, s) \/ FetchMissed(t, s)

Next == QueueOnly \/ Admit \/ Download \/ Client

Spec == Init /\ [][Next]_vars

-----------------------------------------------------------------------------
(* Properties.                                                             *)

TypeOK ==
    /\ Queue!TypeOK /\ Cache!TypeOK
    /\ DOMAIN routes \subseteq Tokens
    /\ \A t \in DOMAIN routes : routes[t] \in Requests /\ TokenId[routes[t]] = t
    /\ admission.step \in {"idle", "segment", "store", "done"}
    /\ reply.committed \in Seq(Segments) /\ reply.evicted \subseteq Segments
    /\ download.step \in {"idle", "segment", "store"}
    /\ counts \in [local : Nat, fetched : Nat]
    /\ pendingDlSize \in Int
    /\ evicted \subseteq Segments
    /\ listed \in [Tokens -> SUBSET Segments]
    /\ serving \subseteq Tokens \X Segments
    /\ owed \subseteq Tokens \X Segments

\* A segment taken in for a route is in the cache and pinned for that route until
\* the route's client has fetched it, and nothing else is pinned: whatever other
\* routes add, fetch or evict meanwhile, and although a fetch checks and unpins in
\* two steps.
OwedExactlyPinned ==
    /\ \A t \in Tokens, s \in Segments : t \in routeIdSet[s] <=> <<t, s>> \in owed
    /\ \A o \in owed : o[2] \in cached
=============================================================================
