----------------------------- MODULE RequestQueue -----------------------------
(***************************************************************************)
(* How the Go edge node hands download requests from the gRPC handlers to   *)
(* the download goroutine (src/edge_go/metamanager.go, priorityqueue.go,    *)
(* edgedaemon.go, clock.go).                                                *)
(*                                                                         *)
(*   handlers --routeAddChannel--> adder (handleAddRoute)                   *)
(*       adder --priority queue, one token per item--> worker               *)
(*                                               (processDownloads)         *)
(*                                                                         *)
(* The queue is ordered by the time at which the download should start.    *)
(* The adder pushes an item and sends its token with pqMutex held; the      *)
(* worker takes a token, looks at the first item WITHOUT the mutex, gives  *)
(* the token back when it is too early, and otherwise pops under the mutex. *)
(* The mutex is held across two steps in one place only, so `adder = "send"`*)
(* says that it is taken.                                                   *)
(***************************************************************************)
EXTENDS Integers, FiniteSets

CONSTANTS
    Requests,           \* the download requests the cloud will send
    ArrivalTime,        \* per request, when the vehicle arrives
    Percent,            \* procastinationProportion, in hundredths
    ChannelCapacity,    \* capacity of downloadReqChannel
    MaxTime             \* bound on the simulation clock

\* newMetadataManager clamps the proportion to 0..1.
ASSUME QueueAssumption ==
    /\ IsFiniteSet(Requests)
    /\ ArrivalTime \in [Requests -> Nat]
    /\ Percent \in 0..100
    /\ ChannelCapacity \in Nat \ {0}
    /\ MaxTime \in Nat

VARIABLES
    time,               \* the edge node's copy of the simulation clock
    called,             \* requests whose gRPC handler has been called
    routeAddChannel,    \* those still waiting to be received by the adder
    answered,           \* those whose handler got its reply
    adder,              \* where the adder goroutine is
    adderItem,          \* the item it is about to push, or has pushed
    downloadRequests,   \* the items in the priority queue
    root,               \* the item in slot 0 of the heap
    tokens,             \* tokens in downloadReqChannel
    worker,             \* where the download goroutine is
    peeked,             \* the item it saw in slot 0
    downloads,          \* how often each request was downloaded
    closed              \* downloadReqChannel is closed

clockVars == <<time>>
handlerVars == <<called, routeAddChannel, answered>>
adderVars == <<adder, adderItem>>
queueVars == <<downloadRequests, root, tokens, closed>>
workerVars == <<worker, peeked, downloads>>
vars == <<time, called, routeAddChannel, answered, adder, adderItem,
          downloadRequests, root, tokens, worker, peeked, downloads, closed>>

Items == [req : Requests, priority : Int]
NoItem == [req |-> "none", priority |-> 0]

\* math.Round(n / 100): to the nearest integer, halves away from zero.
RoundHundredths(n) ==
    IF n >= 0 THEN (2 * n + 100) \div 200 ELSE -((100 - 2 * n) \div 200)

\* When the download of r should start, decided at time t.
StartTime(r, t) == t + RoundHundredths((ArrivalTime[r] - t) * Percent)

Init ==
    /\ time = 0
    /\ called = {} /\ routeAddChannel = {} /\ answered = {}
    /\ adder = "receive" /\ adderItem = NoItem
    /\ downloadRequests = {} /\ root = NoItem /\ tokens = 0
    /\ worker = "receive" /\ peeked = NoItem
    /\ downloads = [r \in Requests |-> 0]
    /\ closed = FALSE

-----------------------------------------------------------------------------
(* The clock server's update, and the gRPC handler.                        *)

HandleUpdateClock ==
    /\ time < MaxTime /\ worker # "panicked"
    /\ time' = time + 1
    /\ UNCHANGED <<handlerVars, adderVars, queueVars, workerVars>>

\* HandleDownloadRequest up to its wait for the reply.  Handlers run
\* concurrently; which of the waiting ones sends first is open.
HandleDownloadRequest(r) ==
    /\ r \notin called /\ ~closed
    /\ called' = called \cup {r}
    /\ routeAddChannel' = routeAddChannel \cup {r}
    /\ UNCHANGED <<clockVars, answered, adderVars, queueVars, workerVars>>

-----------------------------------------------------------------------------
(* The adder.                                                              *)

\* A mistake: a request for a vehicle that has already arrived is dropped.
AdderReceiveDropsLate(r) ==
    /\ adder = "receive" /\ r \in routeAddChannel
    /\ routeAddChannel' = routeAddChannel \ {r}
    /\ IF ArrivalTime[r] < time
       THEN UNCHANGED <<adder, adderItem>>
       ELSE /\ adderItem' = [req |-> r, priority |-> StartTime(r, time)]
            /\ adder' = "push"
    /\ UNCHANGED <<clockVars, called, answered, queueVars, workerVars>>

\* Receive a route and compute when its download should start.
AdderReceive(r) ==
    /\ adder = "receive" /\ r \in routeAddChannel
    /\ routeAddChannel' = routeAddChannel \ {r}
    /\ adderItem' = [req |-> r, priority |-> StartTime(r, time)]
    /\ adder' = "push"
    /\ UNCHANGED <<clockVars, called, answered, queueVars, workerVars>>

AdderPushOvertakesEqual ==
    /\ adder = "push"
    /\ downloadRequests' = downloadRequests \cup {adderItem}
    /\ root' = IF downloadRequests = {} \/ adderItem.priority <= root.priority
               THEN adderItem ELSE root
    /\ adder' = "send"
    /\ UNCHANGED <<clockVars, handlerVars, adderItem, tokens, closed, workerVars>>

\* Lock pqMutex and heap.Push: sift-up moves the new item to slot 0 only if it
\* is strictly less than what is there.
AdderPush ==
    /\ adder = "push"
    /\ downloadRequests' = downloadRequests \cup {adderItem}
    /\ root' = IF downloadRequests = {} \/ adderItem.priority < root.priority
               THEN adderItem ELSE root
    /\ adder' = "send"
    /\ UNCHANGED <<clockVars, handlerVars, adderItem, tokens, closed, workerVars>>

\* A mistake: the token is only a signal that there is something to do.
AdderSendSignals ==
    /\ adder = "send"
    /\ tokens' = 1
    /\ adder' = "reply"
    /\ UNCHANGED <<clockVars, handlerVars, adderItem, downloadRequests, root,
                   closed, workerVars>>

\* Send the token, which blocks while the channel is full; unlock pqMutex.
AdderSend ==
    /\ adder = "send" /\ tokens < ChannelCapacity
    /\ tokens' = tokens + 1
    /\ adder' = "reply"
    /\ UNCHANGED <<clockVars, handlerVars, adderItem, downloadRequests, root,
                   closed, workerVars>>

\* Send the reply to the handler that waits for it.
AdderReply ==
    /\ adder = "reply"
    /\ answered' = answered \cup {adderItem.req}
    /\ adder' = "receive"
    /\ UNCHANGED <<clockVars, called, routeAddChannel, adderItem, queueVars, workerVars>>

-----------------------------------------------------------------------------
(* The worker.                                                             *)

\* A mistake: a receive from the closed, drained channel is taken for a token.
WorkerReceiveClosed ==
    /\ worker = "receive" /\ (tokens > 0 \/ closed)
    /\ tokens' = IF tokens > 0 THEN tokens - 1 ELSE 0
    /\ worker' = "peek"
    /\ UNCHANGED <<clockVars, handlerVars, adderVars, downloadRequests, root,
                   closed, peeked, downloads>>

\* Take a token.
WorkerReceive ==
    /\ worker = "receive" /\ tokens > 0
    /\ tokens' = tokens - 1
    /\ worker' = "peek"
    /\ UNCHANGED <<clockVars, handlerVars, adderVars, downloadRequests, root,
                   closed, peeked, downloads>>

\* The channel is closed and drained: the loop ends and the results are written.
WorkerStop ==
    /\ worker = "receive" /\ tokens = 0 /\ closed
    /\ worker' = "stopped"
    /\ UNCHANGED <<clockVars, handlerVars, adderVars, queueVars, peeked, downloads>>

\* Mistakes: one tick too early; one tick too late; the wrong thing remembered.
WorkerPeekEarly ==
    /\ worker = "peek"
    /\ peeked' = root
    /\ worker' = IF root.priority > time + 1 THEN "resend" ELSE "pop"
    /\ UNCHANGED <<clockVars, handlerVars, adderVars, queueVars, downloads>>

WorkerPeekNothing ==
    /\ worker = "peek"
    /\ peeked' = root.req
    /\ worker' = IF root.priority > time THEN "resend" ELSE "pop"
    /\ UNCHANGED <<clockVars, handlerVars, adderVars, queueVars, downloads>>

\* Top: look at slot 0, and decide by its start time.
WorkerPeek ==
    /\ worker = "peek"
    /\ peeked' = root
    /\ worker' = IF root.priority > time THEN "resend" ELSE "pop"
    /\ UNCHANGED <<clockVars, handlerVars, adderVars, queueVars, downloads>>

\* A mistake: back to the channel without giving the token back.
WorkerResendForgets ==
    /\ worker = "resend" /\ ~closed
    /\ worker' = "receive"
    /\ UNCHANGED <<clockVars, handlerVars, adderVars, queueVars, peeked, downloads>>

\* Too early: give the token back, which blocks while the channel is full.
WorkerResend ==
    /\ worker = "resend" /\ ~closed /\ tokens < ChannelCapacity
    /\ tokens' = tokens + 1
    /\ worker' = "receive"
    /\ UNCHANGED <<clockVars, handlerVars, adderVars, downloadRequests, root,
                   closed, peeked, downloads>>

\* A send on a closed channel panics.
WorkerPanic ==
    /\ worker = "resend" /\ closed
    /\ worker' = "panicked"
    /\ UNCHANGED <<clockVars, handlerVars, adderVars, queueVars, peeked, downloads>>

\* A mistake: the item is looked at, not removed.
WorkerPopsNothing ==
    /\ worker = "pop" /\ adder # "send"
    /\ worker' = "download"
    /\ UNCHANGED <<clockVars, handlerVars, adderVars, queueVars, peeked, downloads>>

\* Lock pqMutex, heap.Pop, unlock.  What is popped only supplies a log line;
\* the request that is downloaded is the peeked one.
WorkerPop ==
    /\ worker = "pop" /\ adder # "send"
    /\ downloadRequests' = downloadRequests \ {root}
    /\ IF downloadRequests \subseteq {root}
       THEN root' = NoItem
       ELSE \E i \in downloadRequests \ {root} :
                /\ \A j \in downloadRequests \ {root} : i.priority <= j.priority
                /\ root' = i
    /\ worker' = "download"
    /\ UNCHANGED <<clockVars, handlerVars, adderVars, tokens, closed, peeked, downloads>>

\* Add the segments of the peeked request to the cache.
WorkerDownload ==
    /\ worker = "download"
    /\ downloads' = [downloads EXCEPT ![peeked.req] = @ + 1]
    /\ worker' = "receive"
    /\ UNCHANGED <<clockVars, handlerVars, adderVars, queueVars, peeked>>

-----------------------------------------------------------------------------
\* main stops both gRPC servers, which waits for their handlers, and then
\* closes the token channel.
Close ==
    /\ ~closed /\ called = answered
    /\ closed' = TRUE
    /\ UNCHANGED <<clockVars, handlerVars, adderVars, downloadRequests, root,
                   tokens, workerVars>>

Adder == AdderPush \/ AdderSend \/ AdderReply \/ \E r \in Requests : AdderReceive(r)

Worker == \/ WorkerReceive \/ WorkerStop \/ WorkerPeek \/ WorkerResend
          \/ WorkerPanic \/ WorkerPop \/ WorkerDownload

Next ==
    \/ HandleUpdateClock \/ Close \/ Adder \/ Worker
    \/ \E r \in Requests : HandleDownloadRequest(r)

Spec == Init /\ [][Next]_vars

\* The goroutines run, and the clock goes on while the node is up.  The node
\* need not be stopped, and no request need come.
Fairness == WF_vars(Adder) /\ WF_vars(Worker) /\ WF_vars(HandleUpdateClock)
FairSpec == Spec /\ Fairness

-----------------------------------------------------------------------------
(* Properties.                                                             *)

TypeOK ==
    /\ time \in Nat
    /\ called \subseteq Requests /\ routeAddChannel \subseteq Requests
    /\ answered \subseteq Requests
    /\ adder \in {"receive", "push", "send", "reply"}
    /\ adderItem \in Items \cup {NoItem}
    /\ downloadRequests \subseteq Items
    /\ root \in Items \cup {NoItem}
    /\ tokens \in 0..ChannelCapacity
    /\ worker \in {"receive", "peek", "resend", "pop", "download", "stopped", "panicked"}
    /\ peeked \in Items \cup {NoItem}
    /\ downloads \in [Requests -> Nat]
    /\ closed \in BOOLEAN

WorkerHoldsToken == worker \in {"peek", "resend", "pop", "panicked"}

\* Slot 0 holds the earliest item, whatever pushes and pops went before.
RootIsEarliest ==
    IF downloadRequests = {}
    THEN root = NoItem
    ELSE root \in downloadRequests
         /\ \A i \in downloadRequests : root.priority <= i.priority

\* There is a token for every item: in the channel, in the worker's hands or
\* about to be sent.
TokensMatchItems ==
    Cardinality(downloadRequests) =
        tokens + (IF WorkerHoldsToken THEN 1 ELSE 0) + (IF adder = "send" THEN 1 ELSE 0)

\* Top and Pop are only called on a queue that has an item (on an empty one both
\* index out of range): the token channel is what protects the unlocked Top.
NeverTopOfEmpty == worker \in {"peek", "pop"} => downloadRequests # {}

\* Procrastination never starts a download before its time, even when the queue
\* changed between the look at slot 0 and the pop ...
NeverTooEarly == worker \in {"pop", "download"} => peeked.priority <= time

\* ... and never plans to start one after the vehicle has arrived, unless the
\* request itself came later than that.
NeverPastArrival ==
    \A i \in downloadRequests : i.priority <= ArrivalTime[i.req] \/ i.priority <= time

\* Whatever overtakes whatever, downloads start neither before their time nor, as far
\* as the queue can help it, after the vehicle is there (metamanager.go:327, :492).
StartsInTime == NeverTooEarly /\ NeverPastArrival

\* Each download done, as the request and which of its downloads it was.
DownloadsDone == UNION {{r} \X (1..downloads[r]) : r \in Requests}

\* The downloads done are as many as the items that left the queue, even when
\* the wrong one left: nothing is downloaded twice without another being lost.
DownloadsConserved ==
    Cardinality(DownloadsDone)
      + Cardinality(downloadRequests) + (IF worker = "download" THEN 1 ELSE 0)
      = Cardinality(called) - Cardinality(routeAddChannel) - (IF adder = "push" THEN 1 ELSE 0)

\* A request that was answered is in the queue, being downloaded, or downloaded:
\* it never vanishes (metamanager.go:480 "Segments are added in
\* processDownloads()").
NoRequestLost ==
    \A r \in answered :
        \/ downloads[r] > 0
        \/ \E i \in downloadRequests : i.req = r
        \/ worker = "download" /\ peeked.req = r

(***************************************************************************)
(* The adder blocks in its send with pqMutex held (metamanager.go:503), and *)
(* the worker in giving its token back (:328), when the token channel is   *)
(* full.  Nobody else receives from it, so either is for ever: with         *)
(* ChannelCapacity + 2 items in the heap the adder waits for the worker and *)
(* the worker for the mutex or for room, with ChannelCapacity + 1 the worker *)
(* waits for itself if the first item is not due.  The liveness below holds *)
(* up to exactly these limits.                                             *)
(***************************************************************************)
RoomForAdder == Cardinality(downloadRequests) <= ChannelCapacity + 1
RoomForBoth == Cardinality(downloadRequests) <= ChannelCapacity

\* Every call of the download handler gets its reply (metamanager.go:467 "hande
\* add when something is added to the route add channel"), unless the heap holds two
\* items more than the channel tokens: then adder and worker wait for each other.
EveryCallAnswered ==
    []RoomForAdder => \A r \in Requests : r \in called ~> r \in answered

\* A worker that gives its token back again and again (metamanager.go:328) loses
\* none and starves nobody: every item leaves the heap in the end, unless there was
\* once an item more than the channel has room for, or the node was stopped in
\* between and the worker panicked.
EveryItemTaken ==
    [](RoomForBoth /\ worker # "panicked") =>
        \A r \in Requests :
            (\E i \in downloadRequests : i.req = r)
                ~> ~ \E i \in downloadRequests : i.req = r

\* Without procrastination every request that was answered is downloaded in the end,
\* also when the node is stopped first, unless adder and worker wait for each other.
EveryRequestDownloaded ==
    []RoomForAdder => \A r \in Requests : r \in answered ~> downloads[r] > 0

\* metamanager.go:49 "this channel ... acts like a mutex for the download requests":
\* between the look at slot 0 and the pop nothing else gets into slot 0.
PopsWhatItPeeked == worker = "pop" => root = peeked
=============================================================================
