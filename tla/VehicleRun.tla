------------------------------- MODULE VehicleRun -------------------------------
(***************************************************************************)
(* A simulation run: the clock server (src/client/clock.py), the client     *)
(* runner (src/clientrunner_go/main.go) and the vehicles' clients           *)
(* (src/client_go/cvclient).                                                *)
(*                                                                         *)
(* In each tick the runner asks for the clock to be advanced, which first   *)
(* advances the clocks of the edge nodes one by one, and then goes through  *)
(* the clients: those that leave soon are registered with the cloud, those  *)
(* on their way get a goroutine that follows the trajectory up to the next  *)
(* point in time.  The tick ends when all goroutines have.                  *)
(*                                                                         *)
(* Clients share nothing, so that a call of FetchSegments is one step.  What *)
(* an edge node lists and whether it serves a fetch is left open.  A video  *)
(* is its list of segments 1..VideoLength, one second each.                 *)
(***************************************************************************)
EXTENDS Integers, Sequences, FiniteSets, FiniteSetsExt

CONSTANTS
    Nodes,          \* edge nodes
    None,           \* no node within 40 m
    NumClients,
    Trajectory,     \* per client, its points: time, node in range, bits per second
    VideoLength,    \* number of segments
    TotalSize,      \* bytes of each set of segments
    Lead,           \* a client registers this long before it leaves (100)
    TruncationTime, \* no contacts after it, -1 for never
    TimeIncr,       \* time_incr of the clock
    EndOfTime,      \* end_of_time of the clock
    MaxFailures     \* bound on the calls that fail

Segments == 1..VideoLength
Clients == 1..NumClients
SizeOf(s) == TotalSize[{s}]
Point == [time : Nat, node : Nodes \cup {None}, bw : Nat]

ASSUME RunAssumption ==
    /\ None \notin Nodes
    /\ NumClients \in Nat /\ VideoLength \in Nat \ {0}
    /\ Lead \in Nat /\ TimeIncr \in Nat \ {0} /\ EndOfTime \in Nat
    /\ TruncationTime \in Nat \cup {-1} /\ MaxFailures \in Nat
    /\ Trajectory \in [Clients -> Seq(Point)]
    /\ \A c \in Clients :
          /\ Trajectory[c] # <<>>
          /\ \A i, j \in DOMAIN Trajectory[c] :
                i <= j => Trajectory[c][i].time <= Trajectory[c][j].time

ASSUME RunSizeAssumption ==
    /\ TotalSize \in [SUBSET Segments -> Nat]
    /\ TotalSize[{}] = 0
    /\ \A S, T \in SUBSET Segments :
          S \cap T = {} => TotalSize[S \cup T] = TotalSize[S] + TotalSize[T]

VARIABLES
    curTime,    \* the clock server's time
    behind,     \* edge nodes this tick has not reached yet
    edgeTime,   \* per edge node, its clock
    phase,      \* of the tick: "clock", "edges", "clients"; or the run has "ended"
    timestamp,  \* what the runner takes for the time, -1 after an error
    next,       \* the client the runner comes to next
    running,    \* clients whose goroutine has not ended
    client,     \* per client, its state
    failures    \* calls that have failed

clockState == <<curTime, behind, edgeTime>>
vars == <<clockState, phase, timestamp, next, running, client, failures>>

\* A client before registration, at the first point of its trajectory.
NewClient ==
    [registered |-> FALSE, at |-> 1, contact |-> None, lastContact |-> 0, lastBw |-> 0,
     available |-> 0, buffered |-> {}, completed |-> 0, playback |-> 0,
     fromEdge |-> 0, fromCloud |-> 0]

Init ==
    /\ curTime = 0 /\ behind = {} /\ edgeTime = [n \in Nodes |-> 0]
    /\ phase = "clock" /\ timestamp = 0 /\ next = 1 /\ running = {}
    /\ client = [c \in Clients |-> NewClient]
    /\ failures = 0

-----------------------------------------------------------------------------
(* The clock.                                                              *)

Advance ==
    /\ phase = "clock"
    /\ curTime' = curTime + TimeIncr
    /\ behind' = Nodes
    /\ phase' = "edges"
    /\ UNCHANGED <<edgeTime, timestamp, next, running, client, failures>>

\* A mistake: nodes that cannot be reached are passed over.
AdvanceEdgeOrSkip(n) ==
    /\ phase = "edges" /\ n \in behind
    /\ behind' = behind \ {n}
    /\ \/ edgeTime' = [edgeTime EXCEPT ![n] = curTime] /\ UNCHANGED failures
       \/ failures < MaxFailures /\ failures' = failures + 1 /\ UNCHANGED edgeTime
    /\ UNCHANGED <<curTime, phase, timestamp, next, running, client>>

AdvanceEdge(n) ==
    /\ phase = "edges" /\ n \in behind
    /\ behind' = behind \ {n}
    /\ edgeTime' = [edgeTime EXCEPT ![n] = curTime]
    /\ UNCHANGED <<curTime, phase, timestamp, next, running, client, failures>>

\* A node does not answer, or the answer does not reach the runner: the other
\* nodes are left behind and the runner goes on with -1.
AdvanceFails ==
    /\ phase = "edges" /\ failures < MaxFailures
    /\ failures' = failures + 1
    /\ behind' = {}
    /\ timestamp' = -1 /\ phase' = "clients" /\ next' = 1
    /\ UNCHANGED <<curTime, edgeTime, running, client>>

\* At the end of time the handler raises, which the runner sees as an error too.
AdvanceReturns ==
    /\ phase = "edges" /\ behind = {}
    /\ timestamp' = IF curTime = EndOfTime THEN -1 ELSE curTime
    /\ phase' = "clients" /\ next' = 1
    /\ UNCHANGED <<clockState, running, client, failures>>

-----------------------------------------------------------------------------
(* The runner.                                                             *)

HasEnded(c) == client[c].at > Len(Trajectory[c])
StartTime(c) == Trajectory[c][1].time
IsDone(c) ==
    \/ client[c].registered /\ client[c].completed = VideoLength
    \/ HasEnded(c)

MustRegister(c) == StartTime(c) < timestamp + Lead /\ ~client[c].registered

MayFetch(c) == ~MustRegister(c) /\ ~IsDone(c) /\ StartTime(c) < timestamp

\* RegisterWithCloud: the reply names all segments.
Register(c) ==
    /\ phase = "clients" /\ c = next /\ MustRegister(c)
    /\ \/ client' = [client EXCEPT ![c].registered = TRUE] /\ UNCHANGED failures
       \/ failures < MaxFailures /\ failures' = failures + 1 /\ UNCHANGED client
    /\ next' = next + 1
    /\ UNCHANGED <<clockState, phase, timestamp, running>>

StartClient(c) ==
    /\ phase = "clients" /\ c = next /\ ~MustRegister(c)
    /\ running' = IF MayFetch(c) THEN running \cup {c} ELSE running
    /\ next' = next + 1
    /\ UNCHANGED <<clockState, phase, timestamp, client, failures>>

EndTick ==
    /\ phase = "clients" /\ next > NumClients /\ running = {}
    /\ phase' = IF \A c \in Clients : IsDone(c) THEN "ended" ELSE "clock"
    /\ UNCHANGED <<clockState, timestamp, next, running, client, failures>>

-----------------------------------------------------------------------------
(* A client.                                                               *)

\* Trajectory.Advance: to the next point, or past the end; and whether that is
\* later.
Moved(c) == [client[c] EXCEPT !.at = @ + 1]
Here(c) == Trajectory[c][client[c].at + 1]
TimeMoved(c) == Here(c).time > Trajectory[c][client[c].at].time

\* A mistake: segments are asked for although they are in the buffer.
MakeEdgeRequestAgain(k, bytes) ==
    {[k EXCEPT !.buffered = @ \cup got, !.fromEdge = @ + TotalSize[got], !.contact = None] :
        got \in {S \in SUBSET Segments :
                    \A s \in S : SizeOf(s) < bytes - TotalSize[{t \in S : t < s}]}}

\* MakeEdgeRequest with a budget of `bytes`: what k may get, in order, of the
\* segments it lacks, each smaller than what is left; a listed segment may be
\* gone, or the node not answer.
MakeEdgeRequest(k, bytes) ==
    {[k EXCEPT !.buffered = @ \cup got, !.fromEdge = @ + TotalSize[got], !.contact = None] :
        got \in {S \in SUBSET (Segments \ k.buffered) :
                    \A s \in S : SizeOf(s) < bytes - TotalSize[{t \in S : t < s}]}}

\* The contact so far carried `bw` for `time` more seconds, if any.
Carried(k, bw, time) == k.available + (IF time > 0 THEN bw * time ELSE 0)

\* Mistakes: no more than one segment a call; no check for the end of the video.
FetchOneFromCloud(k) ==
    LET due == IF k.completed < Min({VideoLength, k.playback + 1}) THEN {k.completed + 1} ELSE {}
    IN  [k EXCEPT !.completed = @ + Cardinality(due), !.buffered = @ \cup due,
                  !.fromCloud = @ + TotalSize[due \ k.buffered]]

FetchPastTheEnd(k) ==
    LET upTo == Max({k.completed, k.playback + 1})
        due == (k.completed + 1..upTo) \cap Segments
    IN  [k EXCEPT !.completed = upTo, !.buffered = @ \cup due,
                  !.fromCloud = @ + TotalSize[due \ k.buffered]]

\* The loop that fetches from the cloud, so that there is a segment to play.
FetchFromCloud(k) ==
    LET upTo == Min({VideoLength, Max({k.completed, k.playback + 1})})
        due == k.completed + 1..upTo
    IN  [k EXCEPT !.completed = upTo, !.buffered = @ \cup due,
                  !.fromCloud = @ + TotalSize[due \ k.buffered]]

Played(c, k) ==
    IF timestamp > StartTime(c) /\ TimeMoved(c) THEN [k EXCEPT !.playback = @ + 1] ELSE k

\* At the end of the trajectory the last contact is used up and the client stops.
FinishTrip(c) ==
    /\ client[c].at = Len(Trajectory[c])
    /\ \E k \in IF client[c].contact = None THEN {Moved(c)}
                ELSE MakeEdgeRequest(Moved(c), client[c].available \div 8) :
          client' = [client EXCEPT ![c] = k]

InRange(c) == Here(c).node # None /\ (TruncationTime = -1 \/ timestamp <= TruncationTime)

\* No node in range: a contact that just ended is used up, then the cloud is.
OutOfRange(c) ==
    /\ client[c].at < Len(Trajectory[c]) /\ ~InRange(c)
    /\ LET bits == Carried(client[c], client[c].lastBw, timestamp - client[c].lastContact)
       IN  \E k \in IF client[c].contact = None THEN {Moved(c)}
                    ELSE MakeEdgeRequest([Moved(c) EXCEPT !.available = bits], bits \div 8) :
              client' = [client EXCEPT ![c] =
                           Played(c, IF TimeMoved(c) THEN FetchFromCloud(k) ELSE k)]

\* A contact with nothing carried yet.
Contact(c, k) ==
    [k EXCEPT !.contact = Here(c).node, !.available = 0,
              !.lastContact = timestamp, !.lastBw = Here(c).bw]

NewContact(c) ==
    /\ client[c].at < Len(Trajectory[c]) /\ InRange(c) /\ client[c].contact = None
    /\ client' = [client EXCEPT ![c] = Played(c, Contact(c, Moved(c)))]

\* The last seconds with the old node are credited with the new one's bandwidth.
ChangeContact(c) ==
    /\ client[c].at < Len(Trajectory[c]) /\ InRange(c)
    /\ client[c].contact \notin {None, Here(c).node}
    /\ LET bits == Carried(client[c], Here(c).bw, timestamp - client[c].lastContact)
       IN  \E k \in MakeEdgeRequest(Moved(c), bits \div 8) :
              client' = [client EXCEPT ![c] = Played(c, Contact(c, k))]

KeepContact(c) ==
    /\ client[c].at < Len(Trajectory[c]) /\ InRange(c)
    /\ client[c].contact = Here(c).node
    /\ client' = [client EXCEPT ![c] =
          Played(c, [Moved(c) EXCEPT
              !.available = Carried(client[c], Here(c).bw, timestamp - client[c].lastContact),
              !.lastContact = timestamp, !.lastBw = Here(c).bw])]

\* A mistake: at the end of the trip the time has not moved, so that it goes on.
FetchSegmentsForever(c) ==
    /\ c \in running
    /\ FinishTrip(c) \/ OutOfRange(c) \/ NewContact(c) \/ ChangeContact(c) \/ KeepContact(c)
    /\ running' = IF client[c].at < Len(Trajectory[c]) /\ TimeMoved(c)
                  THEN running \ {c} ELSE running
    /\ UNCHANGED <<clockState, phase, timestamp, next, failures>>

\* One call; the goroutine calls again until the time moved or the trip ended.
FetchSegments(c) ==
    /\ c \in running
    /\ FinishTrip(c) \/ OutOfRange(c) \/ NewContact(c) \/ ChangeContact(c) \/ KeepContact(c)
    /\ running' = IF client[c].at = Len(Trajectory[c]) \/ TimeMoved(c)
                  THEN running \ {c} ELSE running
    /\ UNCHANGED <<clockState, phase, timestamp, next, failures>>

-----------------------------------------------------------------------------
Next ==
    \/ Advance \/ AdvanceFails \/ AdvanceReturns \/ EndTick
    \/ \E n \in Nodes : AdvanceEdge(n)
    \/ \E c \in Clients : Register(c) \/ StartClient(c) \/ FetchSegments(c)

\* The clock server answers, the runner goes on, and so does each goroutine.
Spec == Init /\ [][Next]_vars
FairSpec ==
    /\ Spec
    /\ WF_vars(Advance \/ AdvanceReturns \/ EndTick \/ \E n \in Nodes : AdvanceEdge(n))
    /\ WF_vars(\E c \in Clients : Register(c) \/ StartClient(c))
    /\ \A c \in Clients : WF_vars(FetchSegments(c))

-----------------------------------------------------------------------------
(* Properties.                                                             *)

Client ==
    [registered : BOOLEAN, at : Nat \ {0}, contact : Nodes \cup {None}, lastContact : Nat,
     lastBw : Nat, available : Nat, buffered : SUBSET Segments, completed : 0..VideoLength,
     playback : Nat, fromEdge : Nat, fromCloud : Nat]

TypeOK ==
    /\ curTime \in Nat /\ behind \subseteq Nodes /\ edgeTime \in [Nodes -> Nat]
    /\ phase \in {"clock", "edges", "clients", "ended"}
    /\ timestamp \in Nat \cup {-1}
    /\ next \in 1..NumClients + 1 /\ running \subseteq Clients
    /\ client \in [Clients -> Client]
    /\ \A c \in Clients : client[c].at <= Len(Trajectory[c]) + 1
    /\ failures \in 0..MaxFailures

\* Bytes are counted once: what came from the edge and what came from the cloud
\* add up to what is in the buffer, so that no segment was paid for twice.
BytesAccounted ==
    \A c \in Clients :
        client[c].fromEdge + client[c].fromCloud = TotalSize[client[c].buffered]

\* A segment that counts as downloaded was downloaded.
CompletedIsBuffered == \A c \in Clients : 1..client[c].completed \subseteq client[c].buffered

\* A client the runner is finished with has no contact whose segments it never
\* collected (client.go:389 "Will finish edge actions").
DoneIsDisconnected == \A c \in Clients : IsDone(c) => client[c].contact = None

\* Nobody acts on a time that some edge node has not reached, whatever node could
\* not be reached in this tick or an earlier one.
EdgesInStep ==
    phase = "clients" /\ timestamp # -1 => \A n \in Nodes : edgeTime[n] = timestamp

\* client.go:438 "sufficient data downloaded such that there isn't a stall": between
\* ticks a client that is in no contact has what it has played, and has caught up
\* with what it missed during contacts.
NoStallOutsideContacts ==
    \A c \in Clients \ running :
        client[c].contact = None /\ ~HasEnded(c)
            => client[c].playback <= client[c].completed \/ client[c].completed = VideoLength

\* The run ends: every tick does, and every client is registered and drives to
\* the end of its trajectory or of its video, although calls fail.
RunEnds == <>(phase = "ended")
=============================================================================
