# Clairvoyant: TLA+ models, checks and proofs

Clairvoyant streams video to vehicles from edge nodes along their routes. A
cloud server knows a vehicle's route ahead of time and asks the nodes on it to
download the segments the vehicle will need; the vehicle's client fetches them
while it is in range. This directory models the parts of the system that carry
its logic, checks them with TLC and proves the most important results with
TLAPS. Paths are relative to the repository.

## 1. Inventory

| Part | Code | State | Operations | Talks to |
|---|---|---|---|---|
| Segment cache | `src/edge_go/segmentcache.go` | segments with route tags, eviction list, two size counters, logical clock | `AddSegment`, `UpdateSegmentStatus`, queries; all under one mutex | called by the metadata manager |
| Metadata manager | `src/edge_go/metamanager.go`, `priorityqueue.go` | routes, priority queue, token channel, `pendingDlSize`, `evicted` | `handleAddRoute` (adder goroutine), `processDownloads` (worker goroutine), `GetSegment(s)`, `Close` | cache, link tracker, other edges' content servers |
| Edge daemon, clock | `edgedaemon.go`, `clock.go`, `main.go` | node time | `HandleDownloadRequest`, `HandleUpdateClock`, shutdown | cloud, clock server |
| Content server | `contentserver.go` | contact history, log of fetches | `GetSegment` (contact, fetch, disconnect) | vehicles, other edges |
| Link state tracker | `linkstate.go` | last completion time per source | `IsDownloadPossible`, `UpdateDownloads` | metadata manager |
| Delivery monitor (Go) | `deliverymonitor.go` | threshold | `UpdateRoutes`: reports missed segments | cloud; **not started** (`main.go:76`) |
| Download manager | `src/cloud/DownloadManager.py` | contacts per token, oracle | video request, missed delivery, completed download | dispatcher |
| Assignments | `EdgeDownloadAssignment.py` | bookings per backhaul, `max_dlc_time` | `add`, `isDownloadPossible` | download manager |
| Dispatcher, server | `DownloadDispatcher.py`, `CVCloudServer.py` | - | blocking RPC to a node; request handlers | edge daemons, vehicles |
| Metadata client | `CloudMetadataClient.py` | - | route -> contacts | metadata service (external) |
| Monitoring | `src/monitoring`, `edge_go/monitoring.go`, `src/shared` | bandwidth tables, a mutex each | posts of a node's table; copies for estimates | cloud |
| Vehicle client | `src/client_go/cvclient` | trajectory, buffer, contact | `FetchSegments` | cloud, content servers |
| Runner and clock | `src/clientrunner_go`, `src/client/clock.py` | simulation time | one tick: clock, then all clients | edges, clients |
| Python edge node | `src/edge` | routes, store (redis), notices, contact history, the monitor's time | `HandleDownloadRequest`, content server, listener thread, delivery monitor thread | cloud, vehicles, clock |
| Python client and simulation | `src/client`, `client_runner.py` | clock, trajectories, buffers, contacts | one step: the clock, then all clients; results at the end | cloud, content servers |
| Evaluation scripts | `run_scripts`, `conf/scripts` | configurations, processes and result files on every machine | configure, restart, run, stop, gather | every machine, by ssh and scp |
| Post-processing | `post_processing_scripts` | - | cache logs -> plots | result files |

What is hard in it: two goroutines and many gRPC handlers of a node share state
partly without locks; the token channel is both a queue and a lock; admission
commits to space before anything is downloaded; the cloud keeps its own picture
of every node's backhaul and cache, fed by partial commitments, calls that fail,
and vehicles that miss deliveries; the Python node's three threads and its content
server share a dictionary of routes, and one of them changes it while iterating;
the evaluation scripts ignore the status of remote commands and only sleep for
processes to end. `PROJECT.json` lists each hazard at its line.

Properties that make each part correct: the *cache* never evicts what a route
needs and counts its bytes exactly; the *queue* never reads an empty heap,
starts no download early, answers every call and loses no request; the *node*
keeps for each route what was taken in for it until it was fetched, and reports
what it did; the *cloud* never double-books a backhaul, keeps its bookings, and
promises a route's segments in playback order; a *vehicle* pays for each segment
once, uses up its contacts and does not stall outside them; a *run* keeps its
clocks in step and ends; the *Python node* strikes off what was fetched and
reports what was not; an *estimate* is what the radio will carry; an *evaluation*
labels its results with the size they were measured at.

## 2. Modules

| Module | Models | Notes |
|---|---|---|
| `SegmentCache` | the cache | an action per exported method, the eviction loop as "the first k pops that make room" |
| `PinnedStore` | abstract | a set of held segments from which only unneeded ones may go, and only when another comes |
| `SegmentCacheProofs` | | proofs for the cache |
| `RequestQueue` | adder, worker, handlers, clock, shutdown | every lock, channel operation and unlocked read is a step of its own |
| `RequestQueueProofs` | | proofs for the queue |
| `EdgeNode` | the whole node | `INSTANCE`s of `RequestQueue` and `SegmentCache`, joined by admission, download and the clients |
| `EdgeNodeProofs` | | proofs for the node, from those of its parts |
| `CloudNodes` | the nodes there are, and those the cloud is configured with | extended by `CloudScheduler` and `ContactEstimate` |
| `CloudScheduler` | the cloud | a request is a sequence of steps; between an offer and its answer the node acts |
| `VehicleRun` | clock server, client runner, vehicle clients | a tick is: the clock, its edge nodes one by one, the runner client by client, a goroutine per client on its way |
| `VehicleRunProofs` | | proofs for a simulation run |
| `DeliveryNode` | the Python edge node | daemon, content server, listener and delivery monitor around one mutex |
| `DeliveryNodeProofs` | | proofs for the Python node |
| `ClientSimulation` | the Python simulation of vehicles | one thread, a step per move and point |
| `ClientSimulationProofs` | | proofs for the simulation |
| `ContactEstimate` | routes to contacts, contacts to bits | recursive functions, and definitions of what they should be |
| `RadioModels` | monitoring and a video request, over `ContactEstimate` | a step per copied table entry |
| `CloudProofs` | | proofs for the scheduler, and for contacts, estimates and radio models |
| `EvalCampaign` | the evaluation scripts and the edge processes they start and stop | a step per remote command |
| `CacheLogAnalysis` | the plotted series of the cache logs | functions, used by `EvalCampaign` |
| `EvalCampaignProofs` | | proofs for a campaign and for its plots |
| `MC*` | | constants of the instances TLC checks |

How state and actions correspond to the code is in `PROJECT.json` (`map`) and in
the comments of the modules. The main abstractions:

- *Sizes.* `TotalSize` gives the bytes of every set of segments and is additive
  (`SizeAssumption`), so that proofs need no recursive sum.
- *The heap* is its set of items and the item in slot 0. `heap.Push` replaces
  slot 0 only by a strictly earlier item; `heap.Pop` leaves one of the earliest
  there, which one depends on the layout and is left open. Two items for the
  same request do not occur in the model: each request is sent once, and
  requests are distinct even when they carry the same token.
- *Unlocked updates.* `pendingDlSize += x` is a load and a store in two steps.
  The concurrent read and write of the `routes` map is taken as atomic.
- *Offered segments.* `IsDownloadPossible` of the link tracker matters to
  admission only when it returns an error, that is when the source is unknown
  (`KnownSource`).
- *Cloud time* is in whole seconds and a segment plays for one, as in the code;
  what a radio contact can carry is a constant of the contact.
- *Vehicles* share nothing, so that one call of `FetchSegments` is a step. The
  nearest node, its distance and its bandwidth are functions of the point and
  are constants of the trajectory. What a node lists and whether it serves a
  fetch is left open: any of the segments the client lacks, in order, as long as
  each is smaller than what is left of the contact (`MakeEdgeRequest`).
- *Failures of a tick.* An edge node that cannot be reached, a lost answer and
  the exception at the end of time all reach the runner as -1.
- *Token collisions* (`time_ns / 1e6`) are left out: each request has its own.
- *The Python node's mutex*: who takes and releases it within one step only needs
  it to be free; `holder` is the daemon between two steps. Redis never loses a
  notice and delivers them in order. All vehicles ask for the same video.
- *The Python client.* As committed, `run_simulation` makes its clock without the
  configuration `CVClock` requires (`client_actions.py:463`, `clock.py:20`): the
  constructor raises before the first step, nothing runs and nothing is saved.
  That program is `ClockConfigured = FALSE`, and its only state is the crash. The
  run and its two invariants are about the simulation once the argument is passed
  (`ClockConfigured = TRUE`); the proofs are for both. Distances are those of the
  radio model nearest to the real ones.
- *Tables* are as the model file gives them, without the random deviation.
- *A campaign's* processes and files carry the run they come from and the cache
  size that was in force; `truth`, `faults` and `trouble` are history variables.
  Faults are a remote command that fails, a cloud that does not come up, clients
  that crash, an edge that outlasts the sleep meant for it, and one that panics on
  its way out; `MaxFaults` bounds them. Each is the trouble of one machine. What
  follows from it is none: without a cloud every edge dies, since it dereferences
  the nil response of a failed post (`monitoring.go:110`), a new one with its
  first post (`Launch`), an older one sooner or later (`DieWithCloud`). An edge
  that was told to stop first frees its ports (`Drain`), then writes its files and
  exits, or panics and writes none (`Close`, all files at once). Only cache events that change the pinned bytes
  are logged, since a line with the same size changes no plot. That
  `conf_generator.py` fails for lack of a model is left out: `model_map.csv` has
  twenty rows.
- *Mutants.* Some definitions are commented "A mistake: ...". They are not part
  of the models; `PROJECT.json` names, for each property, the one that it
  catches.

## 3. Runs

All bounds are constants: sets of requests, segments, tokens and trips, the ends
of the clocks (`MaxTime`, `MaxTimestamp`, `EndOfTime`), points of a route
(`MaxPoints`), failures and faults (`MaxFailures`, `MaxFaults`) and cache events
(`MaxEvents`). Every other quantity is bounded by them, since each request is
sent once.

Runs that hold:

- `SegmentCache_lru`: four segments, one of double size, a capacity one short of
  all, two routes, six additions. Three segments can be in the eviction list
  together, where the place of insertion matters, and the large one may evict
  two. It shows that the list is the unused segments, that the counters are exact
  and so the capacity holds, and that the cache implements `PinnedStore`. LFU is
  left to the proofs, which hold for any place of insertion.
- `RequestQueue_procrastinate`: four requests, one of which overtakes the others,
  half of the waiting time, room for two tokens: two in the channel, one with the
  worker and one being sent under the mutex are what it takes for the adder and
  the worker to wait for each other, so the blocked states are among those
  checked. The heap is never read empty, starts are neither early nor past the
  arrival, and downloads are conserved, blocked or not. Calls are answered
  (`EveryCallAnswered`) and a worker that hands its token back starves nobody
  (`EveryItemTaken`) as long as the heap has never held more items than the
  channel has room for, one more for the former (`RoomForAdder`, `RoomForBoth`).
  These limits are exact: with one item more each is violated within the bounds.
- `RequestQueue_prompt`: the same without procrastination: nothing is lost, and
  every answered request is downloaded unless the adder blocks as above.
- `EdgeNode_safety`: two requests that share a segment, a cache of two for three
  segments, both with their own token. `OwedExactlyPinned` ties what is pinned
  to what was taken in and not fetched, over all interleavings of the adder, the
  worker and two clients whose fetches take two steps.
- `CloudScheduler_recent`: three trips of which one meets the same node twice
  and one a node outside the configuration, four segments, at most two clients
  at a time; any prefix may be committed, any call may fail with any part
  committed, any subset of what was promised may be missed.
- `VehicleRun`: two vehicles. One drives from one node's range into another's and
  then into none's; the other has two points in one second and ends its trip in
  range. The clock ends (`EndOfTime`) while the second is on its way, contacts
  are cut off at second 7 (`TruncationTime`), and two calls fail (`MaxFailures`),
  any two of: the clock's call, an edge node's, a registration. That is enough
  for a vehicle to start late and to miss a tick. The bound on failures bounds
  the clock as well.
- `DeliveryNode_safety`: three requests for two of three vehicles, the third
  replacing the first's route; calls to the clock server and the cloud fail at
  will, the monitor synchronises at every second tick. Deadlines lie at 0, 1 and
  2, so that routes can be overdue in the middle and at the end of the
  dictionary. Contacts of three vehicles overlap: one more than a node admits.
- `ClientSimulation_run`: two clients and two videos that share a segment; one
  trajectory changes from node to node to none, has a second with two points and
  one with none; the other ends in range. It ends by itself, at the end of time
  or with a call that fails.
- `RadioModels_run`: every route of up to four points out of six kinds of step
  (in no range, at one of three nodes, two points in a second, two seconds
  apart), which is enough for a stay with a gap, a merged stay and a second node;
  a table of two entries, so that a post can be half-copied. What a client is
  credited is compared with the estimate for stays that were not entered directly
  from another node; for those that were it does not hold (see below).
- `EvalCampaign_run`: two cache sizes, the smaller second, two trials of each, two
  edges, two faults anywhere, two seconds of clients. That is the smallest
  campaign in which something of one size outlives it (a process by one fault, a
  second process still closing by another), and in which a run without a cloud
  meets edges of the run before. A label is right for every machine the run had
  no trouble with, if there was a cloud.

Runs that refute a statement of the repository (each is a finding in
`PROJECT.json`, with the line quoted):

- `RequestQueue_race`: with procrastination an earlier request pushed between Top
  and Pop is popped and never downloaded.
- `DeliveryNode_overdue`: no call fails, and yet an overdue route is not reported:
  `getOverdueSegments` pops it from the ordered dictionary it iterates over, the
  next iteration raises unless it was the last route, and the monitor thread ends.

More statements were seen not to hold while the code was modelled. They have no
run; the models do what the code does:

| Statement | What the code does |
|---|---|
| `segmentcache.go:13` "this is strict lru" | `:199` a segment touched later than all others is inserted at index 0, as the next victim |
| `metamanager.go:63` "store results here" | `:273` `Close` closes the channel the worker may send on (`:328`): it panics, the results are lost |
| `metamanager.go:476` "if not, add the new route" | `:475` a second request under a known token is queued and downloaded, and listed nowhere |
| `metamanager.go:478` "find out how many segments can potentially be added" | `:140` accepted bytes are counted twice, so that segments that fit are refused |
| `metamanager.go:160` "total pending size" | `:185` `pendingDlSize` does not return to zero |
| `metamanager.go:454` "it's a given that ... segments must be there" | `:457` lists what was offered, accepted or not, downloaded or not |
| `metamanager.go:481` "keep track of segments that were downloaded" | `:394` after a refusal the rest still counts as downloaded |
| `DownloadManager.py:347` "check the edge node's schedule" | `:349` the check starts from other bookings than `add`: what is committed may not be booked |
| `EdgeDownloadAssignment.py:45` "sets earliest time to first request's time - 100" | `:27` starts at 0, never `None`: first bookings lie at time 0 |
| `DownloadManager.py:25` NOCACHE "everything from cdn" | `:83` a node that is in `segment_map` is used in every mode |
| `DownloadManager.py:35` "Cloud tracks evictions" | `:60` tests a node id against segment ids: nothing is removed |
| `DownloadManager.py:281` "handle same nodes from cropping up later" | `:384` the assignments of the first contact are replaced |
| `DownloadManager.py:535` "Forward segments to next node" | `:527` stops at the first contact with the node: forwarded backwards |
| `metamanager.go:165` "evicted segments are appended to a append only array" | `:471` the adder resets and truncates it while the worker appends: evictions are not reported |
| `metamanager.go:85` "can accept at most 10 simultaneous requests" | the channel has 1000 tokens; `:503` with two items more than it holds the adder sends with the mutex held, while the worker waits for the mutex or for room, and calls are never answered; with one more the worker may wait for itself to make room (`:328`) |
| `client_actions.py:403` "accumulate bytes as long as you are in contact with node" | `:401` coming directly from another node, it counts from a time that is the distance: the seconds credited are `timestamp - dist` |
| `client_actions.py:461` runs the simulation and saves its results | `:463` raises before the first step; and at the end of time the clock ends the program (`clock.py:88`) without saving |
| `DownloadManager.py:357` "ONLY with the segments that the edge node has committed to" | `:118` a node enters the oracle with every tentative segment, offered or not |
| `DownloadManager.py:213` "scheduled max={count} clients. Can not use node" | `:205` the contacts of all nodes are counted |
| `EdgeDeliveryMonitor.py:61` logs the segments that were missed | `:69` the message to the cloud has as many segments, but blank ones |
| `run_eval.py:122` a result per trial | `:131` every trial of a size is gathered into the same directory: the last one stays |
| `run_eval.py:50` gathers a run's results | without a cloud the edges die (`monitoring.go:110`), and what they had from earlier runs is gathered under the new label |
| `cache_size_plots.py:120` "Size (MB)" | `:32` sizes are divided by 10e6, ten megabytes |
| `run_eval.py:74` reads `truncationTime` and `distribution` from the configuration | configurations in `eval` that lack them raise `KeyError` after the cloud and the edges were started |
| `client.go:438` "such that there isn't a stall" | holds outside contacts (`NoStallOutsideContacts`); during one nothing is completed and the playback counter runs on |

Deadlock is not checked where the system may stop: all requests have been sent
and handled, the node was shut down, the simulation or the campaign is over. The
deadlock that matters, of the queue with a full channel, is in the table above.
It is reachable in both liveness runs of the queue; their properties say under
which condition it does not happen, and `BlockedOnlyBeyondCapacity` proves for
every capacity that within `RoomForAdder` the two do not wait for each other.

### Fairness

The adder and the worker are goroutines whose steps are weakly fair: the Go
scheduler runs every goroutine that can go on. Their blocking steps (channel,
mutex) are disabled, not skipped. The clock advances while the node is up. No
fairness is assumed for requests, shutdown, or clients of a node.
In `VehicleRun` the clock server and the runner are weakly fair, as each does one
thing after the other, and so is each goroutine; failures are not fair, and
`RunEnds` holds because there are at most `MaxFailures`: with a clock server or
a cloud that never answers again the runner's loop does not end.
In `DeliveryNode` the listener and the monitor are threads that go on whenever
they can, the daemon finishes a request it has begun (its steps hold the mutex),
and the simulation's clock runs up to its bound; requests, fetches and failures
are not fair.
`CloudScheduler`, `EdgeNode`, `ClientSimulation`, `RadioModels` and `EvalCampaign`
have only safety properties and no fairness.

## 4. Proofs

TLAPS proves, for every value of the constants allowed by the `ASSUME`s, each
safety invariant and each action property that a run checks, and some that no run
names. `PROJECT.json` lists the theorems.

- `SegmentCacheProofs`: the invariant is the type invariant with
  `EvictableIsUnused`, `OnlyCachedNeeded`, `SizesAccounted` and
  `CapacityRespected`; each needs the others (the list is what the counters
  summarise; the counters decide that the eviction loop never runs out, lemma
  `EvictionNeverRunsOut`; that is why an error never loses evictions). From it
  follow `PinnedNeverEvicted` and the refinement of `PinnedStore`. Its first
  lemmas say what removing from, inserting into and cutting a list without
  repetitions does to its elements.

- `RequestQueueProofs`: the invariant adds that slot 0 is the earliest item, that
  tokens match items (with the one the worker holds and the one the adder is
  about to send) and that items are distinct per request. `NeverTopOfEmpty`
  follows: the token in the worker's hands stands for an item. With
  `Percent = 0` priorities are send times, later pushes never overtake, and
  `PopsWhatItPeeked` and `NoRequestLost` follow. `DownloadsConserved` counts
  downloads as a set (`DownloadsDone`, a pair for the k-th download of a
  request), so that no sum over requests is needed: each pop leaves one item less
  and the worker with one download to make. `BlockedOnlyBeyondCapacity`: as tokens
  match items, an adder that cannot send has filled the channel, and has one item
  more in the heap besides the worker's.

- `EdgeNodeProofs`: every step of the node is a step of its queue or leaves the
  queue alone (`NodeRunsQueue`), and likewise for its cache (`NodeRunsCache`),
  under what `PartsAssumption` asks for the constants of both. So the invariants
  proved of the parts hold in the node (`PartsStaySafe`), although admission,
  downloads and fetches share them. `NodeInv` adds what the adder and the worker
  carry from step to step (`AdmissionShape`, `DownloadShape`); segments are taken
  in only while the queue's worker is downloading.
  `OwedExactlyPinned` then is one of the conjuncts: an addition that succeeds
  pins and owes, a fetch unpins what it no longer owes, and evictions touch only
  what is not pinned, by the cache's invariant.

- `CloudProofs`, the scheduler: the invariant adds to the types and to
  `NoDoubleBooking` that no booking of a node ends after `busyUntil`. A new
  booking starts there, whatever was pruned, so that it overlaps none and
  `BookingsKept` follows. `PromisedInOrder` needs `OrderInv`: `segmentIdx` has
  passed every promise of the route, except while an offer is out, when it has
  also passed what is offered (`OfferFollows`); what the node does not commit to
  is given back; contacts are taken in the order of the trip (`PromisedUpTo`);
  and a route is handled once.

- `CloudProofs`, contacts and estimates: the functions of `ContactEstimate` are
  recursive over the points of a route, and so is what they are compared with.
  Induction is done with sets instead of with a predicate: the set of the indices
  at which a claim holds has 0 and the successor of each of its elements, so it
  is all of them (lemma `Induction`, from the pigeonhole theorem of the library);
  lemma `Recursion` says that a function defined by recursion meets its
  definition. On these rest that the recorded intervals cover exactly the points
  in range (`IntervalsCover`), that merging makes them the greatest runs at one
  node without a gap (`MergedAreRuns`), which are the stays (`RunIsStay`,
  `StayIsRun`, `ContactsAre`), that the distance looked up is a nearest one of the
  table (`ModelDistNearest`), that an estimate is the sum over the seconds of what
  the radio carries (`EstimateIsCarried`), and that what a client is credited in
  a stay it did not enter directly from another node is within it
  (`CreditIsWithin`): the cloud's estimate goes on over the gaps of a stay, while
  the client's credit starts over after each, in contacts that add up to no more.

- `CloudProofs`, radio models: `RadioInv` says that the route is in order, that
  the contacts are those of the route, and that every estimate for a configured
  node was made with the whole table of its model file. The last holds because
  a table is copied under the mutex that a post needs. The four properties are the
  results above for the estimates there are. Of the tables it assumes that they
  are finite, not empty, and give a bandwidth for each of their distances.

- `VehicleRunProofs`: the invariant says that every client's books are in order
  (`Good`), that goroutines run only for registered clients that are not done
  (`RunningNotDone`), that unregistered ones are idle, and which edge clocks a
  tick has reached (`ReachedInStep`). `DoneIsDisconnected` is not inductive
  alone: the call that completes a video is one that has given the contact up,
  and it is made for a client that was not done. Lemma `CallInv` sums up the
  five kinds of call; each step of the runner then has a lemma of its own.
  `NoStallOutsideContacts` follows from what a call does outside a contact: it
  fetches to one segment ahead of playback before it plays (`CloudKeepsAhead`).

- `DeliveryNodeProofs`: `FetchedIsNoticed` holds because a notice is appended in
  the same step that hands the segment out, the listener strikes off the head,
  and a replaced route starts over (`since`). `NotGivenUpEarly` needs how far the
  monitor's own time may be ahead of the simulation's: by less than
  `SyncThreshold`, which a synchronisation resets and a failed one (time 0) only
  improves. `UndeliveredKept` needs that the route being reported has left the
  dictionary, or come back as another.

- `ClientSimulationProofs`: `BytesAccounted` needs that each of the kinds of call
  keeps a client's books (`Good`), as in `VehicleRunProofs`. `NotLeftBehind` needs
  `OnTime`: a client's next point is never of a second gone by, and once it had
  its turn it lies ahead; the move that handles a second takes all of its points.

- `EvalCampaignProofs`: the invariant follows one edge through a run: up to its
  turn in a loop it is as the stage before left it, from then on as this stage
  does (`Cleared`, `Serving`, `Finishing`, `Gathered`), as long as this run had no
  trouble with it. Nothing is assumed of what earlier runs left: a new run
  establishes `Cleared` with its own kill, and `Serving` from that, from a free
  port and from the configuration of its size. That is why faults of earlier runs
  cannot be seen, however many there are. Without a cloud `Serving` says that the
  edge has no process and `Gathered` claims nothing; whether there is one does not
  change between its start and the next run. For the plots, `LogsAreInStep` says that
  such an edge starts with an empty log, and that what it has logged since gives
  its pinned bytes at every second (`Records`). `PlotsTrue` then shows that its
  series has the last size of each second (`SizesOfLog`), goes on with the last of
  all up to the end of the system (`SteadyAfterLog`, `FixedEnd`), and that the
  cumulative series adds these up: the sum of what is plotted and that of what is
  pinned are the same recursive definition over equal functions, so that no
  induction is needed.

Only model-checked:

- all liveness (`NoticesHandled`, `EveryCallAnswered`, `EveryItemTaken`,
  `EveryRequestDownloaded`, `RunEnds`): fairness and `ENABLED` are out of the
  prover's reach;
- the refuted statements, of course.

## 5. Not modelled

- *Composition* of `VehicleRun` and `EdgeNode`: the content server's answers in
  place of `MakeEdgeRequest`'s choice, and the clock's in place of
  `HandleUpdateClock`. Each is checked with the other left open, so that what is
  shown holds for any answers; the product is beyond TLC at the sizes at which
  the interesting cases happen.
- *The Go delivery monitor* with `GetOverdueSegments`: it is not started. The
  Python one is in `DeliveryNode`; what the cloud does with its message is
  `HandleMissedDelivery` of `CloudScheduler`, for any subset of what was promised.
- *Link tracker*: its estimates, whose int64 product overflows, decide nothing.
- *Python edge node*: `EdgeDownloadQueue` and `EdgeDownloadMonitor` are not
  started, `getRoutesAt` is not called.
- *Cloud*: `updateDownloads` raises on every call that would change something,
  `updateDownloadSources` is not called.
- *Generated protobuf code*, the external metadata service, the remaining set-up
  and drawing scripts.

Worth proving next: that the node with the vehicles of `VehicleRun` as its clients
implements the left-open answers of `MakeEdgeRequest`; that a campaign implements
an abstract one without processes, in which a result is a pair of size and run;
that the Python node implements a set of routes from which only fetched or overdue
ones go.
