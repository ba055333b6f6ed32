---------------------------- MODULE ClientSimulation ----------------------------
(***************************************************************************)
(* The Python simulation of vehicles (src/client/client_actions.py), started *)
(* by src/client_runner.py with a clock of its own (src/client/clock.py).    *)
(*                                                                         *)
(* One thread: in each step the clock is advanced, then every client moves   *)
(* over its trajectory's points of that very time and plays a second.  All   *)
(* CheckEvery steps the simulation ends if all clients are complete, and     *)
(* saves what each of them got from where.  An exception ends the program    *)
(* and nothing is saved.                                                    *)
(*                                                                         *)
(* As committed that is every run: run_simulation makes the clock without   *)
(* its cloud_config, and the constructor raises before the first step.      *)
(* ClockConfigured = FALSE is that program; with TRUE the module says what   *)
(* the simulation does once the argument is passed.                         *)
(*                                                                         *)
(* What an edge node lists is left open: it may be segments of other videos. *)
(* The times of a contact, which the client sends with its request, are not  *)
(* modelled.                                                                *)
(***************************************************************************)
EXTENDS Integers, Sequences, FiniteSetsExt

CONSTANTS
    Nodes, None,    \* edge nodes; no node within 32 m
    Dists,          \* distances in the nodes' radio models
    Speed,          \* per node and distance in its model, bits per second
    Videos, NoVideo,
    Urls,           \* per video, its segments in order
    Segments,
    TotalSize,      \* bytes of each set of segments
    NumClients,
    Trajectory,     \* per client, its points: time, nearest node, distance in its model
    Choice,         \* per client, the videos it may ask for: all, or "v1" in a benchmark
    Lead,           \* a client asks for its video this long before it leaves (1000)
    LookAhead,      \* seconds of video to have beyond what is played (30)
    CheckEvery,     \* steps between checks for the end (100)
    EndOfTime,      \* simulation_max_steps
    MayFail,        \* whether calls may fail
    ClockConfigured \* whether run_simulation passes the clock its cloud_config (it does not)

Clients == 1..NumClients
Point == [time : Nat, node : Nodes \cup {None}, dist : Dists]

ASSUME ClientAssumption ==
    /\ None \notin Nodes /\ NoVideo \notin Videos /\ Dists \subseteq Nat
    /\ Speed \in [Nodes -> [Dists -> Nat]]
    /\ Urls \in [Videos -> Seq(Segments)]
    /\ NumClients \in Nat /\ Trajectory \in [Clients -> Seq(Point)]
    /\ \A c \in Clients : Trajectory[c] # <<>>
    /\ Choice \in [Clients -> SUBSET Videos]
    /\ Lead \in Nat /\ LookAhead \in Nat /\ CheckEvery \in Nat \ {0} /\ EndOfTime \in Nat \ {0}
    /\ MayFail \in BOOLEAN /\ ClockConfigured \in BOOLEAN

ASSUME ClientSizeAssumption ==
    /\ TotalSize \in [SUBSET Segments -> Nat]
    /\ TotalSize[{}] = 0
    /\ \A S, T \in SUBSET Segments :
          S \cap T = {} => TotalSize[S \cup T] = TotalSize[S] + TotalSize[T]

VARIABLES
    curTime,
    turn,       \* of the clock (0), of a client, or of the check for the end
    status,     \* "running", "saved", "clockEnded" or "crashed", by an exception
    client      \* per client, its state

vars == <<curTime, turn, status, client>>

\* node, dist: of the contact it is in; since: from when on that distance counts.
NewClient ==
    [video |-> NoVideo, idx |-> 1, playback |-> 0, buffer |-> 0, bufferSet |-> {},
     node |-> None, dist |-> 0, since |-> 0, bits |-> 0, maxEdge |-> 0,
     fromEdge |-> 0, fromCloud |-> 0, complete |-> FALSE]

\* The simulation at its start, with the clock and the loop over the clients at 0:
\* without its cloud_config the clock cannot be made, and the exception ends the program.
SimulationInit ==
    /\ curTime = 0 /\ turn = 0
    /\ status = IF ClockConfigured THEN "running" ELSE "crashed"

Init ==
    /\ SimulationInit
    /\ client = [c \in Clients |-> NewClient]

NumUrls(k) == IF k.video = NoVideo THEN 0 ELSE Len(Urls[k.video])
AtEnd(c) == client[c].idx > Len(Trajectory[c])
Here(c) == Trajectory[c][client[c].idx]
StartTime(c) == Trajectory[c][1].time

-----------------------------------------------------------------------------
(* The simulation's loop.                                                  *)

\* The clock raises when the end of time is reached, which nobody handles.
Advance ==
    /\ status = "running" /\ turn = 0
    /\ curTime' = curTime + 1
    /\ status' = IF curTime' = EndOfTime THEN "clockEnded" ELSE "running"
    /\ turn' = 1
    /\ UNCHANGED client

\* clients_are_complete
AllComplete == \A c \in Clients : client[c].complete

CheckEnd ==
    /\ status = "running" /\ turn = NumClients + 1
    /\ status' = IF curTime % CheckEvery = 0 /\ AllComplete THEN "saved" ELSE status
    /\ turn' = 0
    /\ UNCHANGED <<curTime, client>>

-----------------------------------------------------------------------------
(* What a client gets at a point.                                          *)

\* A mistake: what was downloaded is not remembered.
CompleteEdgeActionsOnly(k) ==
    LET bits == k.bits + Speed[k.node][k.dist]
    IN  {[k EXCEPT !.bits = bits, !.fromEdge = @ + TotalSize[got]] :
            got \in {S \in SUBSET (Segments \ k.bufferSet) :
                        S = {} \/ 8 * TotalSize[S] < bits}}

\* complete_edge_actions: a last second, then what the contact carried is spent on
\* listed segments not in the buffer, as long as the next is smaller than what is left.
CompleteEdgeActions(k) ==
    LET bits == k.bits + Speed[k.node][k.dist]
    IN  {[k EXCEPT !.bits = bits, !.bufferSet = @ \cup got, !.fromEdge = @ + TotalSize[got]] :
            got \in {S \in SUBSET (Segments \ k.bufferSet) :
                        S = {} \/ 8 * TotalSize[S] < bits}}

FilledUpTo(k) ==
    LET ahead == k.playback + LookAhead + 1
        upTo == IF ahead < NumUrls(k) THEN ahead ELSE NumUrls(k)
    IN  IF upTo < k.buffer THEN k.buffer ELSE upTo
Due(k) == {Urls[k.video][i] : i \in k.buffer + 1..FilledUpTo(k)}

\* The loop that puts the next segments in the buffer, from what edge nodes delivered
\* or else from the cloud, until LookAhead.
FillFromCloud(k) ==
    [k EXCEPT !.buffer = FilledUpTo(k), !.bufferSet = @ \cup Due(k),
              !.fromCloud = @ + TotalSize[Due(k) \ k.bufferSet]]

\* The distance changed: its time counts, and at least one second.
Accumulated(k, time) ==
    LET bits == Speed[k.node][k.dist] * (IF time = k.since THEN 1 ELSE time - k.since)
    IN  [k EXCEPT !.bits = @ + bits, !.maxEdge = @ + bits]

OutOfRange(k, p) ==
    IF p.node # None THEN {}
    ELSE IF k.node = None THEN {FillFromCloud(k)}
    ELSE {FillFromCloud([j EXCEPT !.node = None]) : j \in CompleteEdgeActions(k)}

NewContact(k, p) ==
    IF p.node = None \/ k.node # None THEN {}
    ELSE {[k EXCEPT !.node = p.node, !.dist = p.dist, !.since = p.time, !.bits = 0]}

\* The new contact's distance is taken for its time.
ChangeContact(k, p) ==
    IF p.node = None \/ k.node \in {None, p.node} THEN {}
    ELSE {[j EXCEPT !.node = p.node, !.dist = p.dist, !.since = p.dist, !.bits = 0] :
             j \in CompleteEdgeActions(k)}

KeepContact(k, p) ==
    IF p.node = None \/ k.node # p.node THEN {}
    ELSE IF p.dist = k.dist THEN {k}
    ELSE {[Accumulated(k, p.time) EXCEPT !.dist = p.dist, !.since = p.time]}

-----------------------------------------------------------------------------
(* A client's move.                                                        *)

Moving(c) == status = "running" /\ turn = c

MustRegister(c) ==
    /\ client[c].video = NoVideo /\ ~client[c].complete
    /\ curTime >= StartTime(c) - Lead

\* make_request: the cloud names all segments of the video.
Register(c) ==
    /\ Moving(c) /\ MustRegister(c)
    /\ \E v \in Choice[c] : client' = [client EXCEPT ![c].video = v]
    /\ UNCHANGED <<curTime, turn, status>>

\* There is a point of this very time to be dealt with.
AtPoint(c) ==
    /\ Moving(c) /\ ~MustRegister(c) /\ ~client[c].complete
    /\ ~AtEnd(c) /\ Here(c).time = curTime

\* get_segments, unless all is in the buffer.
GetSegments(c) ==
    /\ AtPoint(c) /\ client[c].buffer < NumUrls(client[c])
    /\ LET k == client[c]
           p == Here(c)
       IN  \E j \in OutOfRange(k, p) \cup NewContact(k, p)
                    \cup ChangeContact(k, p) \cup KeepContact(k, p) :
              client' = [client EXCEPT ![c] = [j EXCEPT !.idx = @ + 1]]
    /\ UNCHANGED <<curTime, turn, status>>

PassPoint(c) ==
    /\ AtPoint(c) /\ client[c].buffer = NumUrls(client[c])
    /\ client' = [client EXCEPT ![c].idx = @ + 1]
    /\ UNCHANGED <<curTime, turn, status>>

\* A mistake: the video goes on after its end.
PlayedOn(c, k) == IF curTime < StartTime(c) THEN k ELSE [k EXCEPT !.playback = @ + 1]

\* move_playback: whether the segment is in the buffer or not.
Played(c, k) ==
    IF curTime < StartTime(c) \/ k.playback >= NumUrls(k) THEN k
    ELSE [k EXCEPT !.playback = @ + 1]

\* A mistake: one point per step.
EndMoveAnyway(c) ==
    /\ Moving(c) /\ ~MustRegister(c)
    /\ client' = [client EXCEPT ![c] = Played(c, [@ EXCEPT !.complete = client[c].complete \/ AtEnd(c)])]
    /\ turn' = turn + 1
    /\ UNCHANGED <<curTime, status>>

\* No more points: the trip may be over, and a second of it is played.
EndMove(c) ==
    /\ Moving(c) /\ ~MustRegister(c) /\ ~AtPoint(c)
    /\ client' = [client EXCEPT ![c] = Played(c, [@ EXCEPT !.complete = client[c].complete \/ AtEnd(c)])]
    /\ turn' = turn + 1
    /\ UNCHANGED <<curTime, status>>

\* An edge node's clock, the cloud or an edge node's content server does not answer.
CallFails ==
    /\ MayFail /\ status = "running"
    /\ \/ turn = 0
       \/ \E c \in Clients : Moving(c) /\ MustRegister(c)
       \/ \E c \in Clients : /\ AtPoint(c) /\ client[c].buffer < NumUrls(client[c])
                             /\ client[c].node \notin {None, Here(c).node}
    /\ status' = "crashed"
    /\ UNCHANGED <<curTime, turn, client>>

-----------------------------------------------------------------------------
Move(c) == Register(c) \/ GetSegments(c) \/ PassPoint(c) \/ EndMove(c)
Next == Advance \/ CheckEnd \/ CallFails \/ \E c \in Clients : Move(c)
Spec == Init /\ [][Next]_vars

-----------------------------------------------------------------------------
(* Properties.                                                             *)

Client ==
    [video : Videos \cup {NoVideo}, idx : Nat \ {0}, playback : Nat, buffer : Nat,
     bufferSet : SUBSET Segments, node : Nodes \cup {None}, dist : Dists \cup {0}, since : Nat,
     bits : Int, maxEdge : Int, fromEdge : Nat, fromCloud : Nat, complete : BOOLEAN]

TypeOK ==
    /\ curTime \in 0..EndOfTime /\ turn \in 0..NumClients + 1
    /\ status \in {"running", "saved", "clockEnded", "crashed"}
    /\ client \in [Clients -> Client]
    /\ \A c \in Clients :
          /\ client[c].idx <= Len(Trajectory[c]) + 1
          /\ client[c].playback <= NumUrls(client[c])
          /\ client[c].buffer <= NumUrls(client[c])
          /\ client[c].node # None => client[c].dist \in Dists

\* What is saved adds up: no byte of a segment was counted for the edge and the cloud,
\* or twice, in whatever order edge nodes offered it and the playback needed it.
BytesAccounted ==
    \A c \in Clients :
        client[c].fromEdge + client[c].fromCloud = TotalSize[client[c].bufferSet]

\* A trajectory the loop can follow: it begins after time 0 and does not go back.
Drivable(c) ==
    /\ StartTime(c) > 0
    /\ \A i, j \in DOMAIN Trajectory[c] :
          i <= j => Trajectory[c][i].time <= Trajectory[c][j].time

\* The loop only takes points of the present second, and a client it missed one of
\* would wait there for ever (client_actions.py:142): it misses none, however many
\* points a second has and however long others take.
NotLeftBehind ==
    \A c \in Clients :
        Drivable(c) /\ turn \notin 1..c /\ ~client[c].complete => Here(c).time > curTime
=============================================================================
