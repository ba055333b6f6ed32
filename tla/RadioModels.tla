------------------------------ MODULE RadioModels ------------------------------
(***************************************************************************)
(* How the cloud learns what the edge nodes' radios can do, and uses it.     *)
(*                                                                         *)
(* Each node's monitoring client (src/monitoring/client.py) posts the table   *)
(* of its model file again and again.  The cloud's monitoring server, with a *)
(* thread for each post, copies it distance by distance into the node's       *)
(* EdgeNetworkModel (src/shared), under its mutex.  A video request takes the *)
(* contacts from the route and a copy of the node's table for each of them   *)
(* (src/cloud).                                                             *)
(***************************************************************************)
EXTENDS ContactEstimate

CONSTANTS
    ModelFile,      \* per configured node, its table
    Steps,          \* what may be the next point: seconds later, node, distance
    MaxPoints       \* bound on the route

ASSUME RadioAssumption ==
    /\ \A n \in Configured :
          /\ DOMAIN ModelFile[n] \subseteq Nat /\ DOMAIN ModelFile[n] # {}
          /\ IsFiniteSet(DOMAIN ModelFile[n])
          /\ ModelFile[n] \in [DOMAIN ModelFile[n] -> Nat]
    /\ Steps \subseteq [later : Nat, node : Nodes \cup {None}, dist : Nat]
    /\ \A p \in Steps : p.node = None => p.dist = 0
    /\ MaxPoints \in Nat

VARIABLES
    table,      \* per node, the cloud's copy of its table
    toCopy,     \* per node, the distances of a post to be copied with the mutex held
    locked,     \* nodes whose mutex a post holds
    posting,    \* nodes whose monitoring client is still running
    route,      \* of the request
    step,       \* of the request: "drive", "estimate", "done", or "failed"
    nodeInfos,  \* its contacts
    estimates   \* per contact so far, the bits it will carry and the table used

radioVars == <<table, toCopy, locked, posting, route, step, nodeInfos, estimates>>
monitoringVars == <<table, toCopy, locked, posting>>
requestVars == <<route, step, nodeInfos, estimates>>

Empty == [d \in {} |-> 0]

RadioInit ==
    /\ table = [n \in Configured |-> Empty] /\ toCopy = [n \in Configured |-> {}]
    /\ locked = {} /\ posting = Configured
    /\ route = <<>> /\ step = "drive" /\ nodeInfos = <<>> /\ estimates = <<>>

-----------------------------------------------------------------------------
(* Monitoring.                                                             *)

\* do_POST: the table is as the file gives it, without the deviation.
Post(n) ==
    /\ n \in posting \ locked
    /\ locked' = locked \cup {n}
    /\ toCopy' = [toCopy EXCEPT ![n] = DOMAIN ModelFile[n]]
    /\ UNCHANGED <<table, posting, requestVars>>

CopyDistance(n, d) ==
    /\ n \in locked /\ d \in toCopy[n]
    /\ toCopy' = [toCopy EXCEPT ![n] = @ \ {d}]
    /\ table' = [table EXCEPT ![n] = [e \in DOMAIN @ \cup {d} |->
                                         IF e = d THEN ModelFile[n][d] ELSE @[e]]]
    /\ UNCHANGED <<locked, posting, requestVars>>

\* A mistake: the mutex is released before all is copied.
PostDoneEarly(n) ==
    /\ n \in locked
    /\ locked' = locked \ {n}
    /\ UNCHANGED <<table, toCopy, posting, requestVars>>

PostDone(n) ==
    /\ n \in locked /\ toCopy[n] = {}
    /\ locked' = locked \ {n}
    /\ UNCHANGED <<table, toCopy, posting, requestVars>>

\* A post fails, or its answer is lost while the server goes on: the exception ends
\* the node's client.
PostFails(n) ==
    /\ n \in posting
    /\ posting' = posting \ {n}
    /\ UNCHANGED <<table, toCopy, locked, requestVars>>

-----------------------------------------------------------------------------
(* A video request.                                                        *)

NextPoint ==
    /\ step = "drive" /\ Len(route) < MaxPoints
    /\ \E p \in Steps :
          route' = Append(route, [time |-> p.later + (IF route = <<>> THEN 0
                                                      ELSE route[Len(route)].time),
                                  node |-> p.node, dist |-> p.dist])
    /\ UNCHANGED <<monitoringVars, step, nodeInfos, estimates>>

\* makeNearestNodesRequest; nodes without a model are passed over later.
Request ==
    /\ step = "drive" /\ route # <<>>
    /\ nodeInfos' = NodeInfos(route)
    /\ step' = "estimate"
    /\ UNCHANGED <<monitoringVars, route, estimates>>

NextInfo == nodeInfos[Len(estimates) + 1]

\* A mistake: get reads the table while it is being updated.
EstimateUnlocked ==
    /\ step = "estimate" /\ Len(estimates) < Len(nodeInfos)
    /\ NextInfo.node \in Configured
    /\ LET t == table[NextInfo.node]
       IN  IF DOMAIN t = {}
           THEN step' = "failed" /\ UNCHANGED estimates
           ELSE /\ estimates' = Append(estimates,
                       [bits |-> DownloadBits(t, NextInfo.points), table |-> t])
                /\ UNCHANGED step
    /\ UNCHANGED <<monitoringVars, route, nodeInfos>>

\* getDownloadBytes, with a copy of the table.  Before the first post the copy is
\* empty, and looking up a distance raises: the request fails.
Estimate ==
    /\ step = "estimate" /\ Len(estimates) < Len(nodeInfos)
    /\ NextInfo.node \in Configured \ locked
    /\ LET t == table[NextInfo.node]
       IN  IF DOMAIN t = {}
           THEN step' = "failed" /\ UNCHANGED estimates
           ELSE /\ estimates' = Append(estimates,
                       [bits |-> DownloadBits(t, NextInfo.points), table |-> t])
                /\ UNCHANGED step
    /\ UNCHANGED <<monitoringVars, route, nodeInfos>>

\* A node the cloud has no model of.
NoEstimate ==
    /\ step = "estimate" /\ Len(estimates) < Len(nodeInfos)
    /\ NextInfo.node \notin Configured
    /\ estimates' = Append(estimates, [bits |-> 0, table |-> Empty])
    /\ UNCHANGED <<monitoringVars, route, step, nodeInfos>>

EstimatesDone ==
    /\ step = "estimate" /\ Len(estimates) = Len(nodeInfos)
    /\ step' = "done"
    /\ UNCHANGED <<monitoringVars, route, nodeInfos, estimates>>

-----------------------------------------------------------------------------
Monitoring(n) == Post(n) \/ PostDone(n) \/ \E d \in DOMAIN ModelFile[n] : CopyDistance(n, d)
RadioNext ==
    \/ \E n \in Configured : Monitoring(n) \/ PostFails(n)
    \/ NextPoint \/ Request \/ Estimate \/ NoEstimate \/ EstimatesDone

RadioSpec == RadioInit /\ [][RadioNext]_radioVars

-----------------------------------------------------------------------------
(* Properties.                                                             *)

RoutePoint == [time : Nat, node : Nodes \cup {None}, dist : Nat]
Estimated == [bits : Nat, table : {Empty} \cup {ModelFile[n] : n \in Configured}]

RadioTypeOK ==
    /\ DOMAIN table = Configured /\ toCopy \in [Configured -> SUBSET Nat]
    /\ \A n \in Configured :
          /\ DOMAIN table[n] \subseteq DOMAIN ModelFile[n]
          /\ table[n] \in [DOMAIN table[n] -> Nat]
          /\ \A d \in DOMAIN table[n] : table[n][d] = ModelFile[n][d]
          /\ DOMAIN table[n] \cup toCopy[n] \in {{}, DOMAIN ModelFile[n]}
          /\ toCopy[n] # {} => n \in locked
    /\ locked \subseteq Configured /\ posting \subseteq Configured
    /\ route \in Seq(RoutePoint) /\ Len(route) <= MaxPoints
    /\ step \in {"drive", "estimate", "done", "failed"}
    /\ estimates \in Seq(Estimated) /\ Len(estimates) <= Len(nodeInfos)

\* The scheduler gets each stay with a node once, whole and in order, however often the
\* route goes in and out of range and from one node to another; and, as the scheduler
\* relies on, one stay is over when the next begins.
ContactsAreStays ==
    LET infos == NodeInfos(route)
        stays == {ij \in (DOMAIN route) \X (DOMAIN route) : IsStay(route, ij[1], ij[2])}
    IN  /\ {<<infos[i].node, infos[i].points>> : i \in DOMAIN infos}
              = {<<route[ij[1]].node, SubSeq(route, ij[1], ij[2])>> : ij \in stays}
        /\ Len(infos) = Cardinality(stays)
        /\ \A i \in 1..Len(infos) - 1 :
              infos[i].arrival + infos[i].duration <= infos[i + 1].arrival

\* The estimate is what the radio carries second for second; only where the route left
\* the node's range and came back it is more, never less.
EstimateIsWhatRadioCarries ==
    \A i \in DOMAIN estimates :
        LET points == nodeInfos[i].points
            carried == CarriedBits(estimates[i].table, points)
        IN  nodeInfos[i].node \in Configured =>
                /\ estimates[i].bits >= carried
                /\ (\A p \in DOMAIN points : points[p].node # None) => estimates[i].bits = carried

\* A vehicle never takes more from a stay than the cloud planned for, when its route has
\* one point a second and it did not come directly from another node (client_actions.py:401
\* then counts the first distance from a time it is not): the two add up the same points
\* in different ways, the vehicle contact by contact, the cloud over the gaps between.
CreditWithinEstimate ==
    \A i \in DOMAIN estimates :
        LET points == nodeInfos[i].points
            direct == EnteredDirectly(route, Merged(Intervals(route))[i].first)
        IN  /\ nodeInfos[i].node \in Configured /\ ~direct
            /\ \A p, q \in DOMAIN points : points[p].time = points[q].time => p = q
            => CreditedBits(estimates[i].table, points, direct) <= estimates[i].bits

\* An estimate uses the node's whole table, and not what of it had been copied when
\* the request came in between.
EstimatesFromOnePost ==
    \A i \in DOMAIN estimates :
        nodeInfos[i].node \in Configured => estimates[i].table = ModelFile[nodeInfos[i].node]
=============================================================================
