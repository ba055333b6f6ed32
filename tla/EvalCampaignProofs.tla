-------------------------- MODULE EvalCampaignProofs --------------------------
(***************************************************************************)
(* Proofs about the evaluation campaign, for any number of edges, trials,  *)
(* sizes and faults.                                                       *)
(*                                                                         *)
(* The invariant follows one edge through a run.  Up to its turn in a loop *)
(* it is as the stage before left it, from then on as this stage does:     *)
(* Cleared (no edge_go serves), Serving (this run's does and no other is   *)
(* left), Finishing (this run's alone is on its way out, or has written    *)
(* its files), Gathered.  Without a cloud no edge_go serves and no files   *)
(* are claimed.  Every part is about the machines this run had no trouble  *)
(* with; nothing is assumed of what earlier runs left behind, so a new run *)
(* establishes Cleared by itself, with the kill.                           *)
(*                                                                         *)
(* In the same way the log of an edge is in step with its cache from the   *)
(* moment it is started (LogsAreInStep), and what the plots make of such a *)
(* log is the cache.                                                       *)
(***************************************************************************)
EXTENDS EvalCampaign, FiniteSetTheorems, TLAPS

\* The configuration of this size has come as far as the scripts have.
ConfigsAreOfThisSize ==
    /\ stage # "template" => template = CacheSizes[size]
    /\ stage \notin {"template", "generate"} =>
           \A n \in Edges : generated[n] = CacheSizes[size]
    /\ stage \notin {"template", "generate", "stage"} =>
           \A n \in Edges : staged[n] = CacheSizes[size]
    /\ stage = "start" /\ at \notin trouble => conf[at] = CacheSizes[size]

Fresh == IF cloudRun = 0 THEN Nothing ELSE ThisRun

Cleared(n) == proc[n] = Nothing
Serving(n) == proc[n] = Fresh /\ closing[n] = {}
Finishing(n) ==
    /\ proc[n] = Nothing
    /\ \A c \in closing[n] : c.process = ThisRun
    /\ cloudRun # 0 /\ closing[n] = {} => files[n] = ThisRun
Gathered(m) == cloudRun # 0 => kept[size][m] = ThisRun

IsCleared(n) ==
    \/ stage = "kill" /\ n < at
    \/ stage \in {"copy", "start"} /\ n >= at
IsServing(n) ==
    \/ stage \in {"copy", "start"} /\ n < at
    \/ stage \in {"ready", "clients"}
    \/ stage = "stop" /\ n >= at
IsFinishing(n) ==
    \/ stage = "stop" /\ n < at
    \/ stage = "gather_cloud"
    \/ stage = "gather" /\ n >= at
IsGathered(n) ==
    \/ stage = "gather" /\ n < at
    \/ stage = "gathered"

AsTheStageSays(n) ==
    /\ IsCleared(n) => Cleared(n)
    /\ IsServing(n) => Serving(n)
    /\ IsFinishing(n) => Finishing(n)
    /\ IsGathered(n) => Gathered(n)

EdgesAsTheStageSays == \A n \in Edges \ trouble : AsTheStageSays(n)

CloudAsTheStageSays ==
    Cloud \notin trouble =>
        /\ stage \in {"kill", "copy", "start", "ready", "clients"} => cloudRun # 0
        /\ stage \in {"stop", "gather_cloud"} => files[Cloud] = ThisRun
        /\ stage \in {"gather", "gathered"} => Gathered(Cloud)

CampaignInv ==
    TypeOK /\ ConfigsAreOfThisSize /\ EdgesAsTheStageSays /\ CloudAsTheStageSays
-----------------------------------------------------------------------------
\* The number of a run is within the runs of a campaign.
LEMMA SumWithin ==
    ASSUME NEW p \in Nat, NEW q \in Nat, NEW t \in Nat, NEW all \in Nat,
           t <= q, p + q <= all, 1 <= t
    PROVE  p + t \in Nat /\ 1 <= p + t /\ p + t <= all
  OBVIOUS

\* Runs are numbered from 1, so that the files of a run are not Nothing.
LEMMA RunInRange ==
    ASSUME size \in DOMAIN CacheSizes, trial \in 1 .. NumTrials
    PROVE  /\ Run \in Runs /\ Run >= 1
           /\ ThisRun \in Output /\ ThisRun # Nothing
<1>1. /\ size \in Nat /\ 1 <= size /\ size <= Len(CacheSizes)
      /\ Len(CacheSizes) \in Nat /\ NumTrials \in Nat /\ CacheSizes[size] \in Nat
      /\ trial \in Nat /\ 1 <= trial /\ trial <= NumTrials
  BY CampaignAssumption
<1>2. \A a, b, t \in Nat : a <= b => a * t <= b * t
  OBVIOUS
<1>3. (size - 1) * NumTrials \in Nat /\ (size - 1) * NumTrials + NumTrials = size * NumTrials
  BY <1>1
<1>4. size * NumTrials <= Len(CacheSizes) * NumTrials
  BY <1>1, <1>2
<1>5. Len(CacheSizes) * NumTrials \in Nat /\ size * NumTrials \in Nat
  BY <1>1
<1>6. Run >= 1 /\ Run \in Nat /\ Run <= Len(CacheSizes) * NumTrials
  <2>1. (size - 1) * NumTrials + NumTrials <= Len(CacheSizes) * NumTrials
    BY <1>3, <1>4
  <2>2. /\ (size - 1) * NumTrials + trial \in Nat
        /\ 1 <= (size - 1) * NumTrials + trial
        /\ (size - 1) * NumTrials + trial <= Len(CacheSizes) * NumTrials
    BY <1>1, <1>3, <1>5, <2>1, SumWithin
  <2> QED
    BY <2>2 DEF Run
<1>7. Run \in Runs
  BY <1>5, <1>6 DEF Runs
<1> QED
  BY <1>1, <1>6, <1>7 DEF ThisRun, Output, Nothing

\* The sizes of a campaign are numbers.
LEMMA SizeInRange ==
    ASSUME NEW i \in DOMAIN CacheSizes
    PROVE  /\ CacheSizes[i] \in Nat /\ Len(CacheSizes) \in Nat
           /\ i \in 1 .. Len(CacheSizes) /\ DOMAIN CacheSizes = 1 .. Len(CacheSizes)
  BY CampaignAssumption

\* A loop over the edges goes on with an edge.
LEMMA NextOfTyped ==
    ASSUME TypeOK, NEW s \in Stages, NEW after \in Stages, NextOf(s, at, after)
    PROVE  stage' \in Stages /\ at' \in Edges /\ UNCHANGED <<size, trial>>
<1>1. NumEdges \in Nat /\ 1 <= NumEdges /\ at \in 1 .. NumEdges
  BY CampaignAssumption DEF TypeOK, Edges
<1>2. CASE at < NumEdges
  BY <1>1, <1>2 DEF NextOf, GoTo, Edges
<1>3. CASE ~(at < NumEdges)
  BY <1>1, <1>3 DEF NextOf, GoTo, Edges
<1> QED
  BY <1>2, <1>3

\* Faults are counted and blamed on machines; nothing clears a machine but a new run.
LEMMA FaultTyped ==
    ASSUME TypeOK, NEW m \in Machines, NoFault \/ Fault(m)
    PROVE  /\ faults' \in 0 .. MaxFaults /\ trouble' \subseteq Machines
           /\ trouble \subseteq trouble' /\ (NoFault \/ m \in trouble')
<1>1. MaxFaults \in Nat /\ faults \in 0 .. MaxFaults /\ trouble \subseteq Machines
  BY CampaignAssumption DEF TypeOK
<1>2. CASE NoFault
  BY <1>1, <1>2 DEF NoFault, blame
<1>3. CASE Fault(m)
  BY <1>1, <1>3 DEF Fault
<1> QED
  BY <1>2, <1>3

\* A process that is told to stop is on its way out.
LEMMA KillTyped ==
    ASSUME TypeOK, NEW n \in Edges, Kill(n)
    PROVE  /\ proc' \in [Edges -> Output]
           /\ closing' \in [Edges -> SUBSET [process : Output, held : BOOLEAN]]
<1>1. Nothing \in Output
  BY CampaignAssumption DEF Nothing, Output, Runs
<1>2. /\ proc[n] \in Output
      /\ [process |-> proc[n], held |-> TRUE] \in [process : Output, held : BOOLEAN]
  BY DEF TypeOK
<1> QED
  BY <1>1, <1>2 DEF Kill, TypeOK

\* An edge that outlasts the sleep is a fault of its machine.
LEMMA SettledFault ==
    ASSUME NEW n \in Edges, Settled(n)
    PROVE  NoFault \/ Fault(n)
  BY DEF Settled

\* Starting an edge keeps the types.
LEMMA LaunchTyped ==
    ASSUME TypeOK, NEW n \in Edges, Launch(n)
    PROVE  /\ proc' \in [Edges -> Output]
           /\ log' \in [Edges -> Seq([time : 0 .. MaxTime, size : Nat])]
           /\ truth' \in [Edges -> [0 .. MaxTime -> Nat]]
           /\ NoFault \/ Fault(n)
<1>1. Run \in Runs
  BY RunInRange DEF TypeOK
<1>2. [run |-> Run, size |-> conf[n]] \in Output /\ Nothing \in Output
  BY <1>1, CampaignAssumption DEF Nothing, Output, Runs, TypeOK
<1>3. Empty \in [0 .. MaxTime -> Nat]
  BY DEF Empty
<1>4. NoFault \/ Fault(n)
  BY SettledFault DEF Launch
<1>5. log' \in [Edges -> Seq([time : 0 .. MaxTime, size : Nat])]
  <2>1. << >> \in Seq([time : 0 .. MaxTime, size : Nat])
    OBVIOUS
  <2>2. log' = [log EXCEPT ![n] = << >>]
    BY DEF Launch
  <2> QED
    BY <2>1, <2>2 DEF TypeOK
<1>6. CASE /\ proc' = [proc EXCEPT ![n] = IF cloudRun = 0 THEN Nothing
                                           ELSE [run |-> Run, size |-> conf[n]]]
           /\ truth' = [truth EXCEPT ![n] = Empty]
  BY <1>2, <1>3, <1>4, <1>5, <1>6 DEF TypeOK
<1>7. CASE UNCHANGED <<proc, truth>>
  BY <1>4, <1>5, <1>7 DEF TypeOK
<1> QED
  BY <1>6, <1>7 DEF Launch

\* Copying results keeps the types.
LEMMA FetchTyped ==
    ASSUME TypeOK, NEW m \in Machines, Fetch(m)
    PROVE  /\ kept' \in [DOMAIN CacheSizes -> [Machines -> Output]]
           /\ NoFault \/ Fault(m)
<1>1. NoFault \/ Fault(m)
  BY SettledFault DEF Fetch, Machines
<1>2. files[m] \in Output /\ kept[size] \in [Machines -> Output] /\ size \in DOMAIN CacheSizes
  BY DEF TypeOK
<1>3. [kept EXCEPT ![size][m] = files[m]] \in [DOMAIN CacheSizes -> [Machines -> Output]]
  BY <1>2 DEF TypeOK
<1> QED
  BY <1>1, <1>3 DEF Fetch, TypeOK

\* A campaign begins type correct ...
LEMMA TypeInit == Init => TypeOK
<1> SUFFICES ASSUME Init PROVE TypeOK
  OBVIOUS
<1>1. /\ 1 \in Edges /\ 1 \in DOMAIN CacheSizes /\ 1 \in 1 .. NumTrials
      /\ MaxFaults \in Nat /\ MaxTime \in Nat
  BY CampaignAssumption DEF Edges
<1>2. Nothing \in Output /\ 0 \in Runs
  BY CampaignAssumption DEF Nothing, Output, Runs
<1>3. << >> \in Seq([time : 0 .. MaxTime, size : Nat])
  OBVIOUS
<1>4. /\ stage \in Stages /\ at \in Edges
      /\ size \in DOMAIN CacheSizes /\ trial \in 1 .. NumTrials
      /\ template \in Nat /\ generated \in [Edges -> Nat]
      /\ staged \in [Edges -> Nat] /\ conf \in [Edges -> Nat]
      /\ cloudRun \in Runs
  BY <1>1, <1>2 DEF Init, Unset, Stages
<1>5. /\ proc \in [Edges -> Output]
      /\ closing \in [Edges -> SUBSET [process : Output, held : BOOLEAN]]
      /\ files \in [Machines -> Output]
  BY <1>2 DEF Init
<1>6. kept \in [DOMAIN CacheSizes -> [Machines -> Output]]
  BY <1>2 DEF Init
<1>7. /\ now \in 0 .. MaxTime /\ faults \in 0 .. MaxFaults /\ trouble \subseteq Machines
  BY <1>1 DEF Init
<1>8. /\ log \in [Edges -> Seq([time : 0 .. MaxTime, size : Nat])]
      /\ truth \in [Edges -> [0 .. MaxTime -> Nat]]
  BY <1>3 DEF Init, Empty
<1> QED
  BY <1>4, <1>5, <1>6, <1>7, <1>8 DEF TypeOK

\* A cache event keeps the types.
LEMMA EventTyped ==
    ASSUME TypeOK, NEW n \in Edges, NEW b \in 0 .. proc[n].size, CacheEvent(n, b)
    PROVE  /\ log' \in [Edges -> Seq([time : 0 .. MaxTime, size : Nat])]
           /\ truth' \in [Edges -> [0 .. MaxTime -> Nat]]
<1>1. proc[n].size \in Nat /\ b \in Nat
  BY DEF TypeOK, Output
<1>2. truth[n] \in [0 .. MaxTime -> Nat]
  BY DEF TypeOK
<1>3. [t \in 0 .. MaxTime |-> IF t < now THEN truth[n][t] ELSE b] \in [0 .. MaxTime -> Nat]
  BY <1>1, <1>2
<1>4. [time |-> now, size |-> b] \in [time : 0 .. MaxTime, size : Nat]
  BY <1>1 DEF TypeOK
<1>5. log[n] \in Seq([time : 0 .. MaxTime, size : Nat])
  BY DEF TypeOK
<1>6. Append(log[n], [time |-> now, size |-> b]) \in Seq([time : 0 .. MaxTime, size : Nat])
  <2> DEFINE E == [time : 0 .. MaxTime, size : Nat]
             e == [time |-> now, size |-> b]
  <2>1. log[n] \in Seq(E) /\ e \in E
    BY <1>4, <1>5
  <2> HIDE DEF E, e
  <2>2. Append(log[n], e) \in Seq(E)
    BY <2>1
  <2> QED
    BY <2>2 DEF E, e
<1>7. log' \in [Edges -> Seq([time : 0 .. MaxTime, size : Nat])]
  BY <1>6 DEF CacheEvent, TypeOK
<1>8. truth' \in [Edges -> [0 .. MaxTime -> Nat]]
  BY <1>3 DEF CacheEvent, TypeOK
<1> QED
  BY <1>7, <1>8

\* ... and every step of it keeps the types.
LEMMA TypeNext == TypeOK /\ [Next]_vars => TypeOK'
<1> SUFFICES ASSUME TypeOK, [Next]_vars PROVE TypeOK'
  OBVIOUS
<1> USE CampaignAssumption
<1>0. Cloud \in Machines /\ 1 \in Edges /\ Edges \subseteq Machines /\ at \in Edges
  BY DEF Machines, Edges, TypeOK
<1>1. CASE UpdateEdgeConfig \/ GenerateConfs \/ ChangeIps
  <2>1. CacheSizes[size] \in Nat
    <3>1. size \in DOMAIN CacheSizes
      BY DEF TypeOK
    <3> QED
      BY <3>1, SizeInRange
  <2> QED
    BY <1>0, <1>1, <2>1
    DEF UpdateEdgeConfig, GenerateConfs, ChangeIps, GoTo, TypeOK, Stages, servers,
        results, cacheHistory, blame
<1>2. CASE StopCloud \/ StartCloud
  <2>1. NoFault \/ Fault(Cloud)
    BY <1>2 DEF StopCloud, StartCloud
  <2>2. Run \in Runs /\ 0 \in Runs /\ 0 \in 0 .. MaxTime
    BY RunInRange DEF Runs, TypeOK
  <2>3. Nothing \in Output
    BY DEF Nothing, Output, Runs
  <2>4. faults' \in 0 .. MaxFaults /\ trouble' \subseteq Machines
    BY <1>0, <2>1, FaultTyped
  <2>5. cloudRun' \in Runs /\ files' \in [Machines -> Output] /\ now' \in 0 .. MaxTime
    <3>1. cloudRun \in Runs /\ files \in [Machines -> Output] /\ now \in 0 .. MaxTime
      BY DEF TypeOK
    <3>2. CASE StopCloud
      BY <1>0, <2>2, <2>3, <3>1, <3>2 DEF StopCloud
    <3>3. CASE StartCloud
      BY <2>2, <3>1, <3>3 DEF StartCloud, results
    <3> QED
      BY <1>2, <3>2, <3>3
  <2>6. stage' \in Stages /\ at' \in Edges /\ UNCHANGED <<size, trial>>
    BY <1>0, <1>2 DEF StopCloud, StartCloud, GoTo, Stages
  <2>7. UNCHANGED <<configs, proc, closing, kept, cacheHistory>>
    BY <1>2 DEF StopCloud, StartCloud, results
  <2> QED
    BY <2>4, <2>5, <2>6, <2>7 DEF TypeOK, configs, cacheHistory
<1>3. CASE KillEdge \/ StopEdge
  <2>1. stage' \in Stages /\ at' \in Edges /\ UNCHANGED <<size, trial>>
    BY <1>3, NextOfTyped DEF KillEdge, StopEdge, Stages
  <2>2. NoFault \/ Fault(at)
    BY <1>3 DEF KillEdge, StopEdge
  <2>3. faults' \in 0 .. MaxFaults /\ trouble' \subseteq Machines
    BY <1>0, <2>2, FaultTyped
  <2>4. /\ proc' \in [Edges -> Output]
        /\ closing' \in [Edges -> SUBSET [process : Output, held : BOOLEAN]]
    <3>1. CASE Kill(at)
      BY <1>0, <3>1, KillTyped
    <3>2. CASE UNCHANGED <<proc, closing>>
      BY <3>2 DEF TypeOK
    <3> QED
      BY <1>3, <3>1, <3>2 DEF KillEdge, StopEdge
  <2> QED
    BY <1>3, <2>1, <2>3, <2>4 DEF KillEdge, StopEdge, TypeOK, configs, results, cacheHistory
<1>4. CASE CopyConf
  <2>1. NoFault \/ Fault(at)
    BY <1>4 DEF CopyConf
  <2>2. faults' \in 0 .. MaxFaults /\ trouble' \subseteq Machines
    BY <1>0, <2>1, FaultTyped
  <2>3. conf' \in [Edges -> Nat]
    BY <1>0, <1>4 DEF CopyConf, TypeOK
  <2> QED
    BY <1>4, <2>2, <2>3 DEF CopyConf, GoTo, Stages, TypeOK, servers, results, cacheHistory
<1>5. CASE StartEdge
  <2>1. stage' \in Stages /\ at' \in Edges /\ UNCHANGED <<size, trial>>
    BY <1>5, NextOfTyped DEF StartEdge, Stages
  <2>2. CASE Launch(at)
    <3>1. faults' \in 0 .. MaxFaults /\ trouble' \subseteq Machines
      BY <1>0, <2>2, LaunchTyped, FaultTyped
    <3> QED
      BY <1>0, <1>5, <2>1, <2>2, <3>1, LaunchTyped DEF StartEdge, TypeOK, configs, results
  <2>3. CASE Fault(at) /\ UNCHANGED <<proc, cacheHistory>>
    <3>1. faults' \in 0 .. MaxFaults /\ trouble' \subseteq Machines
      BY <1>0, <2>3, FaultTyped
    <3> QED
      BY <1>5, <2>1, <2>3, <3>1 DEF StartEdge, TypeOK, configs, results, cacheHistory
  <2> QED
    BY <1>5, <2>2, <2>3 DEF StartEdge
<1>6. CASE StartClients
  <2>1. NoFault \/ Fault(Cloud)
    BY <1>6 DEF StartClients
  <2>2. faults' \in 0 .. MaxFaults /\ trouble' \subseteq Machines
    BY <1>0, <2>1, FaultTyped
  <2>3. stage' \in Stages /\ at' \in Edges /\ UNCHANGED <<size, trial>>
    BY <1>0, <1>6 DEF StartClients, GoTo, Stages
  <2> QED
    BY <1>6, <2>2, <2>3
    DEF StartClients, TypeOK, configs, servers, results, cacheHistory
<1>7. CASE AdvanceClock
  <2>1. now' \in 0 .. MaxTime
    <3>1. now \in 0 .. MaxTime /\ MaxTime \in Nat
      BY DEF TypeOK
    <3> QED
      BY <1>7, <3>1 DEF AdvanceClock
  <2> QED
    BY <1>7, <2>1
    DEF AdvanceClock, TypeOK, where, configs, servers, results, cacheHistory, blame
<1>8. CASE EndClients
  <2>1. NoFault \/ Fault(Cloud)
    BY <1>8 DEF EndClients
  <2>2. faults' \in 0 .. MaxFaults /\ trouble' \subseteq Machines
    BY <1>0, <2>1, FaultTyped
  <2>3. ThisRun \in Output
    BY RunInRange DEF TypeOK
  <2>4. stage' \in Stages /\ at' \in Edges /\ UNCHANGED <<size, trial>>
    BY <1>0, <1>8 DEF EndClients, GoTo, Stages
  <2>5. files' \in [Machines -> Output]
    BY <1>0, <1>8, <2>3 DEF EndClients, TypeOK
  <2> QED
    BY <1>8, <2>2, <2>4, <2>5 DEF EndClients, TypeOK, configs, servers, cacheHistory
<1>9. CASE \E n \in Edges : \E b \in 0 .. proc[n].size : CacheEvent(n, b)
  <2> PICK n \in Edges : \E b \in 0 .. proc[n].size : CacheEvent(n, b)
    BY <1>9
  <2> PICK b \in 0 .. proc[n].size : CacheEvent(n, b)
    OBVIOUS
  <2>1. /\ log' \in [Edges -> Seq([time : 0 .. MaxTime, size : Nat])]
        /\ truth' \in [Edges -> [0 .. MaxTime -> Nat]]
    BY EventTyped
  <2>2. UNCHANGED <<where, configs, servers, results, now, blame>>
    BY DEF CacheEvent
  <2> QED
    BY <2>1, <2>2 DEF TypeOK, where, configs, servers, results, blame
<1>10. CASE GatherCloud \/ GatherEdge
  <2>1. CASE GatherCloud
    <3>1. /\ kept' \in [DOMAIN CacheSizes -> [Machines -> Output]]
          /\ NoFault \/ Fault(Cloud)
      BY <1>0, <2>1, FetchTyped DEF GatherCloud
    <3>2. faults' \in 0 .. MaxFaults /\ trouble' \subseteq Machines
      BY <1>0, <3>1, FaultTyped
    <3> QED
      BY <1>0, <2>1, <3>1, <3>2
      DEF GatherCloud, GoTo, Stages, TypeOK, configs, servers, cacheHistory
  <2>2. CASE GatherEdge
    <3>1. /\ kept' \in [DOMAIN CacheSizes -> [Machines -> Output]]
          /\ NoFault \/ Fault(at)
      BY <1>0, <2>2, FetchTyped DEF GatherEdge
    <3>2. faults' \in 0 .. MaxFaults /\ trouble' \subseteq Machines
      BY <1>0, <3>1, FaultTyped
    <3>3. stage' \in Stages /\ at' \in Edges /\ UNCHANGED <<size, trial>>
      BY <2>2, NextOfTyped DEF GatherEdge, Stages
    <3> QED
      BY <2>2, <3>1, <3>2, <3>3 DEF GatherEdge, TypeOK, configs, servers, cacheHistory
  <2> QED
    BY <1>10, <2>1, <2>2
<1>11. CASE NextRun
  <2>1. /\ stage' \in Stages /\ at' \in Edges
        /\ size' \in DOMAIN CacheSizes /\ trial' \in 1 .. NumTrials
    <3>1. /\ size \in 1 .. Len(CacheSizes) /\ Len(CacheSizes) \in Nat
          /\ trial \in 1 .. NumTrials /\ NumTrials \in Nat
          /\ DOMAIN CacheSizes = 1 .. Len(CacheSizes)
      <4>1. size \in DOMAIN CacheSizes /\ trial \in 1 .. NumTrials
        BY DEF TypeOK
      <4> QED
        BY <4>1, SizeInRange
    <3>2. CASE trial < NumTrials /\ stage' = "cloud" /\ trial' = trial + 1 /\ UNCHANGED size
      BY <1>0, <1>11, <3>1, <3>2 DEF NextRun, Stages
    <3>3. CASE size < Len(CacheSizes) /\ stage' = "template" /\ trial' = 1 /\ size' = size + 1
      BY <1>0, <1>11, <3>1, <3>3 DEF NextRun, Stages
    <3> QED
      BY <1>11, <3>2, <3>3 DEF NextRun
  <2> QED
    BY <1>11, <2>1 DEF NextRun, TypeOK, configs, servers, results, cacheHistory
<1>12. CASE \E n \in Edges : \E c \in closing[n] : Drain(n, c) \/ Close(n, c)
  <2> PICK n \in Edges : \E c \in closing[n] : Drain(n, c) \/ Close(n, c)
    BY <1>12
  <2> PICK c \in closing[n] : Drain(n, c) \/ Close(n, c)
    OBVIOUS
  <2>1. c \in [process : Output, held : BOOLEAN]
    BY DEF TypeOK
  <2>2. [c EXCEPT !.held = FALSE] \in [process : Output, held : BOOLEAN]
    BY <2>1
  <2>3. closing' \in [Edges -> SUBSET [process : Output, held : BOOLEAN]]
    <3>1. closing[n] \in SUBSET [process : Output, held : BOOLEAN]
      BY DEF TypeOK
    <3>2. CASE Drain(n, c)
      BY <2>2, <3>1, <3>2 DEF Drain, TypeOK
    <3>3. CASE Close(n, c)
      BY <3>1, <3>3 DEF Close, TypeOK
    <3> QED
      BY <3>2, <3>3
  <2>4. files' \in [Machines -> Output]
    BY <1>0, <2>1 DEF Drain, Close, TypeOK, results
  <2>5. faults' \in 0 .. MaxFaults /\ trouble' \subseteq Machines
    <3>1. NoFault \/ Fault(n)
      BY DEF Drain, Close, NoFault
    <3> QED
      BY <1>0, <3>1, FaultTyped
  <2>6. UNCHANGED <<where, configs, proc, cloudRun, kept, now, cacheHistory>>
    BY DEF Drain, Close, results
  <2> QED
    BY <2>3, <2>4, <2>5, <2>6 DEF TypeOK, where, configs, cacheHistory
<1>14. CASE \E n \in Edges : DieWithCloud(n)
  <2> PICK n \in Edges : DieWithCloud(n)
    BY <1>14
  <2>1. Nothing \in Output
    BY DEF Nothing, Output, Runs
  <2>2. /\ proc' \in [Edges -> Output]
        /\ closing' \in [Edges -> SUBSET [process : Output, held : BOOLEAN]]
    <3>1. CASE proc' = [proc EXCEPT ![n] = Nothing] /\ UNCHANGED closing
      BY <2>1, <3>1 DEF TypeOK
    <3>2. ASSUME UNCHANGED proc, NEW c \in closing[n],
                 closing' = [closing EXCEPT ![n] = @ \ {c}]
          PROVE  /\ proc' \in [Edges -> Output]
                 /\ closing' \in [Edges -> SUBSET [process : Output, held : BOOLEAN]]
      BY <3>2 DEF TypeOK
    <3> QED
      BY <3>1, <3>2 DEF DieWithCloud
  <2>3. UNCHANGED <<where, configs, cloudRun, results, now, cacheHistory, blame>>
    BY DEF DieWithCloud
  <2> QED
    BY <2>2, <2>3 DEF TypeOK, where, configs, results, cacheHistory, blame
<1>13. CASE UNCHANGED vars
  BY <1>13 DEF vars, TypeOK, where, configs, servers, results, cacheHistory, blame
<1> QED
  BY <1>1, <1>2, <1>3, <1>4, <1>5, <1>6, <1>7, <1>8, <1>9, <1>10, <1>11, <1>12, <1>13,
     <1>14
  DEF Next

\* Type correctness, for every number of edges, sizes, trials and faults.
THEOREM CampaignTyped == Spec => []TypeOK
  BY TypeInit, TypeNext, PTL DEF Spec
-----------------------------------------------------------------------------
\* Between the steps to a new run, the run is the same and trouble only grows.
LEMMA SameRun ==
    ASSUME UNCHANGED <<size, trial>>
    PROVE  ThisRun' = ThisRun
  BY DEF ThisRun, Run

\* Who has no trouble after a command had none before, nor did the command fail for it.
LEMMA TroubleGrows ==
    ASSUME NEW m, NoFault \/ Fault(m), NEW n, n \notin trouble'
    PROVE  n \notin trouble /\ (NoFault \/ n # m)
  BY DEF NoFault, Fault, blame

\* A loop over the edges goes to the next edge, or is through with all of them.
LEMMA NextOfSteps ==
    ASSUME TypeOK, NEW s \in Stages, NEW after \in Stages, NextOf(s, at, after)
    PROVE  /\ UNCHANGED <<size, trial>>
           /\ \/ stage' = s /\ at' = at + 1
              \/ stage' = after /\ at' = 1 /\ \A n \in Edges : n <= at
<1>1. NumEdges \in Nat /\ at \in Nat
  BY CampaignAssumption DEF TypeOK, Edges
<1> QED
  BY <1>1 DEF NextOf, GoTo, Edges

\* Every step keeps the configurations as the stage says ...
LEMMA ConfigsNext ==
    ASSUME CampaignInv, [Next]_vars
    PROVE  ConfigsAreOfThisSize'
<1>1. CASE UpdateEdgeConfig \/ GenerateConfs \/ ChangeIps
  BY <1>1 DEF UpdateEdgeConfig, GenerateConfs, ChangeIps, GoTo, CampaignInv,
              ConfigsAreOfThisSize
<1>2. CASE CopyConf
  <2>1. NoFault \/ Fault(at)
    BY <1>2 DEF CopyConf
  <2>2. at \in Edges /\ conf \in [Edges -> Nat]
    BY DEF CampaignInv, TypeOK
  <2>3. at \notin trouble' => conf'[at] = staged[at]
    BY <1>2, <2>2 DEF CopyConf, Fault
  <2> QED
    BY <1>2, <2>2, <2>3 DEF CopyConf, GoTo, CampaignInv, ConfigsAreOfThisSize
<1>3. CASE StopCloud \/ StartCloud \/ StartClients \/ EndClients \/ GatherCloud
  BY <1>3 DEF StopCloud, StartCloud, StartClients, EndClients, GatherCloud, GoTo, configs,
              CampaignInv, ConfigsAreOfThisSize
<1>4. CASE KillEdge \/ StopEdge \/ StartEdge \/ GatherEdge
  <2>1. UNCHANGED <<size, trial>> /\ stage' # "start"
    BY <1>4, NextOfSteps DEF KillEdge, StopEdge, StartEdge, GatherEdge, CampaignInv, Stages
  <2>2. UNCHANGED configs /\ stage \notin {"template", "generate", "stage"}
    BY <1>4 DEF KillEdge, StopEdge, StartEdge, GatherEdge
  <2> QED
    BY <2>1, <2>2 DEF configs, CampaignInv, ConfigsAreOfThisSize
<1>5. CASE NextRun
  BY <1>5 DEF NextRun, configs, CampaignInv, ConfigsAreOfThisSize
<1>6. CASE UNCHANGED <<where, configs>> /\ trouble \subseteq trouble'
  BY <1>6 DEF where, configs, CampaignInv, ConfigsAreOfThisSize
<1>7. CASE \/ AdvanceClock
           \/ \E n \in Edges : \E b \in 0 .. proc[n].size : CacheEvent(n, b)
           \/ \E n \in Edges : DieWithCloud(n)
           \/ \E n \in Edges : \E c \in closing[n] : Drain(n, c) \/ Close(n, c)
           \/ UNCHANGED vars
  <2>1. UNCHANGED <<where, configs>> /\ trouble \subseteq trouble'
    BY <1>7 DEF AdvanceClock, CacheEvent, DieWithCloud, Drain, Close, Fault, NoFault, blame,
                vars
  <2> QED
    BY <1>6, <2>1
<1> QED
  BY <1>1, <1>2, <1>3, <1>4, <1>5, <1>7 DEF Next

\* ... and the cloud ...
LEMMA CloudNext ==
    ASSUME CampaignInv, [Next]_vars
    PROVE  CloudAsTheStageSays'
<1> SUFFICES ASSUME Cloud \notin trouble'
             PROVE  /\ stage' \in {"kill", "copy", "start", "ready", "clients"} => cloudRun' # 0
                    /\ stage' \in {"stop", "gather_cloud"} => files'[Cloud] = ThisRun'
                    /\ stage' \in {"gather", "gathered"} => Gathered(Cloud)'
  BY DEF CloudAsTheStageSays
<1>0. Cloud \notin Edges /\ Cloud \in Machines /\ files \in [Machines -> Output]
  BY CampaignAssumption DEF Cloud, Edges, Machines, CampaignInv, TypeOK
<1>1. CASE UpdateEdgeConfig \/ GenerateConfs \/ ChangeIps \/ NextRun
  BY <1>1 DEF UpdateEdgeConfig, GenerateConfs, ChangeIps, NextRun, GoTo
<1>2. CASE StopCloud \/ StartCloud
  <2>1. Run # 0
    BY RunInRange DEF CampaignInv, TypeOK
  <2> QED
    BY <1>2, <2>1 DEF StopCloud, StartCloud, GoTo, Fault
<1>3. CASE KillEdge \/ CopyConf \/ StartEdge
  <2>1. stage' \in {"kill", "copy", "start", "ready"}
    BY <1>3, NextOfSteps DEF KillEdge, CopyConf, StartEdge, GoTo, CampaignInv, Stages
  <2>2. NoFault \/ Fault(at)
    BY <1>3, SettledFault DEF KillEdge, CopyConf, StartEdge, Launch, CampaignInv, TypeOK
  <2>3. Cloud \notin trouble
    BY <2>2, TroubleGrows
  <2> QED
    BY <1>3, <2>1, <2>3
    DEF KillEdge, CopyConf, StartEdge, servers, CampaignInv, CloudAsTheStageSays
<1>4. CASE StartClients
  <2>1. NoFault /\ GoTo("clients", 1)
    BY <1>4 DEF StartClients, Fault
  <2> QED
    BY <1>4, <2>1
    DEF StartClients, NoFault, GoTo, blame, servers, CampaignInv, CloudAsTheStageSays
<1>5. CASE EndClients
  <2>1. NoFault /\ ThisRun' = ThisRun
    BY <1>5, SameRun DEF EndClients, Fault, GoTo
  <2>2. cloudRun # 0
    BY <1>5, <2>1 DEF EndClients, NoFault, blame, CampaignInv, CloudAsTheStageSays
  <2>3. files' = [files EXCEPT ![Cloud] = ThisRun]
    BY <1>5, <2>2 DEF EndClients, Fault
  <2> QED
    BY <1>0, <1>5, <2>1, <2>3 DEF EndClients, GoTo
<1>6. CASE StopEdge
  <2>1. stage' \in {"stop", "gather_cloud"} /\ ThisRun' = ThisRun
    BY <1>6, NextOfSteps, SameRun DEF StopEdge, CampaignInv, Stages
  <2>2. Cloud \notin trouble
    BY <1>6, TroubleGrows DEF StopEdge
  <2> QED
    BY <1>6, <2>1, <2>2 DEF StopEdge, results, CampaignInv, CloudAsTheStageSays
<1>7. CASE GatherCloud
  <2>1. NoFault /\ kept' = IF files[Cloud] = Nothing THEN kept
                           ELSE [kept EXCEPT ![size][Cloud] = files[Cloud]]
    BY <1>7 DEF GatherCloud, Fetch, Fault
  <2>2. files[Cloud] = ThisRun /\ ThisRun # Nothing
    BY <1>7, <2>1, RunInRange
    DEF GatherCloud, NoFault, blame, CampaignInv, CloudAsTheStageSays, TypeOK
  <2>3. size \in DOMAIN kept /\ Cloud \in DOMAIN kept[size]
    BY <1>0 DEF CampaignInv, TypeOK
  <2>4. kept'[size][Cloud] = ThisRun
    BY <2>1, <2>2, <2>3
  <2> QED
    BY <1>7, <2>4, SameRun DEF GatherCloud, GoTo, Gathered
<1>8. CASE GatherEdge
  <2>1. /\ stage' \in {"gather", "gathered"} /\ ThisRun' = ThisRun
        /\ UNCHANGED size
    BY <1>8, NextOfSteps, SameRun DEF GatherEdge, CampaignInv, Stages
  <2>2. at \in Edges /\ size \in DOMAIN kept /\ kept[size] \in [Machines -> Output]
    BY DEF CampaignInv, TypeOK
  <2>3. Cloud \notin trouble
    BY <1>8, <2>2, SettledFault, TroubleGrows DEF GatherEdge, Fetch
  <2>4. kept'[size][Cloud] = kept[size][Cloud] /\ UNCHANGED cloudRun
    BY <1>0, <1>8, <2>2 DEF GatherEdge, Fetch, servers
  <2> QED
    BY <1>8, <2>1, <2>3, <2>4 DEF GatherEdge, CampaignInv, CloudAsTheStageSays, Gathered
<1>9. CASE /\ UNCHANGED <<where, cloudRun, kept>> /\ Cloud \notin trouble
           /\ files'[Cloud] = files[Cloud]
  BY <1>9, SameRun DEF where, CampaignInv, CloudAsTheStageSays, Gathered
<1>10. CASE \E n \in Edges : \E c \in closing[n] : Drain(n, c) \/ Close(n, c)
  <2>1. PICK n \in Edges : \E c \in closing[n] : Drain(n, c) \/ Close(n, c)
    BY <1>10
  <2>2. UNCHANGED <<where, cloudRun, kept>> /\ files'[Cloud] = files[Cloud]
    BY <1>0, <2>1 DEF Drain, Close, results
  <2>3. Cloud \notin trouble
    BY <2>1 DEF Drain, Close, Fault, NoFault, blame
  <2> QED
    BY <1>9, <2>2, <2>3
<1>11. CASE \/ AdvanceClock
            \/ \E n \in Edges : \E b \in 0 .. proc[n].size : CacheEvent(n, b)
            \/ \E n \in Edges : DieWithCloud(n)
            \/ UNCHANGED vars
  BY <1>9, <1>11
  DEF AdvanceClock, CacheEvent, DieWithCloud, vars, servers, results, blame
<1> QED
  BY <1>1, <1>2, <1>3, <1>4, <1>5, <1>6, <1>7, <1>8, <1>10, <1>11 DEF Next
-----------------------------------------------------------------------------
\* The actions that change an edge's state or whose turn it is.

\* Killing an edge clears it.
LEMMA KillEdgeNext ==
    ASSUME CampaignInv, KillEdge, NEW n \in Edges \ trouble'
    PROVE  AsTheStageSays(n)'
<1>1. /\ n \notin trouble /\ (NoFault \/ n # at)
      /\ NoFault => Kill(at)
  <2>1. \/ NoFault /\ Kill(at)
        \/ Fault(at)
    BY DEF KillEdge
  <2>2. faults \in Nat
    BY CampaignAssumption DEF CampaignInv, TypeOK
  <2> QED
    BY <2>1, <2>2, TroubleGrows DEF Fault, NoFault, blame
<1>2. /\ at \in Nat /\ n \in Nat /\ at \in Edges
      /\ proc \in [Edges -> Output]
  BY DEF CampaignInv, TypeOK, Edges
<1>3. \/ stage' = "kill" /\ at' = at + 1
      \/ stage' = "copy" /\ at' = 1 /\ n <= at
  BY NextOfSteps DEF KillEdge, CampaignInv, Stages
<1>4. n < at => proc[n] = Nothing
  BY <1>1 DEF KillEdge, CampaignInv, EdgesAsTheStageSays, AsTheStageSays, IsCleared, Cleared
<1>5. n <= at => proc'[n] = Nothing
  <2>1. CASE n = at
    BY <1>1, <1>2, <2>1 DEF Kill
  <2>2. CASE n < at
    BY <1>2, <1>4, <2>2 DEF KillEdge, Kill
  <2> QED
    BY <1>2, <2>1, <2>2
<1> QED
  BY <1>2, <1>3, <1>5
  DEF AsTheStageSays, IsCleared, IsServing, IsFinishing, IsGathered, Cleared, Edges

\* An edge that was cleared and is started serves this run.
LEMMA StartEdgeNext ==
    ASSUME CampaignInv, StartEdge, NEW n \in Edges \ trouble'
    PROVE  AsTheStageSays(n)'
<1>1. n \notin trouble /\ at \in Edges /\ UNCHANGED <<closing, cloudRun>>
  BY SettledFault, TroubleGrows DEF StartEdge, Launch, CampaignInv, TypeOK
<1>2. at \in Nat /\ n \in Nat /\ proc \in [Edges -> Output] /\ conf \in [Edges -> Nat]
  BY DEF CampaignInv, TypeOK, Edges
<1>3. /\ \/ stage' = "copy" /\ at' = at + 1
         \/ stage' = "ready" /\ at' = 1 /\ n <= at
      /\ ThisRun' = ThisRun
  BY NextOfSteps, SameRun DEF StartEdge, CampaignInv, Stages
<1>4. /\ n >= at => proc[n] = Nothing
      /\ n < at => proc[n] = Fresh /\ closing[n] = {}
  BY <1>1 DEF StartEdge, CampaignInv, EdgesAsTheStageSays, AsTheStageSays, IsCleared,
              IsServing, Cleared, Serving
<1>5. n # at => proc'[n] = proc[n]
  BY <1>2 DEF StartEdge, Launch
<1>6. n = at => proc'[n] = Fresh /\ closing[n] = {}
  <2> SUFFICES ASSUME n = at PROVE proc'[at] = Fresh /\ closing[at] = {}
    OBVIOUS
  <2>1. Launch(at) /\ closing[at] = {}
    BY DEF StartEdge, Fault, Launch, Settled
  <2>2. PortsFree(at)
    BY <1>2, <1>4, <2>1 DEF PortsFree
  <2>3. conf[at] = CacheSizes[size]
    BY <1>1 DEF StartEdge, CampaignInv, ConfigsAreOfThisSize
  <2> QED
    BY <1>1, <1>2, <2>1, <2>2, <2>3 DEF Launch, ThisRun, Fresh
<1>7. /\ n > at => proc'[n] = Nothing
      /\ n <= at => proc'[n] = Fresh' /\ closing'[n] = {}
  <2>1. Fresh' = Fresh
    BY <1>1, <1>3 DEF Fresh, Nothing
  <2> QED
    BY <1>1, <1>2, <1>4, <1>5, <1>6, <2>1
<1> QED
  BY <1>2, <1>3, <1>7
  DEF AsTheStageSays, IsCleared, IsServing, IsFinishing, IsGathered, Cleared, Serving, Edges

\* An edge that served and is stopped is finishing.
LEMMA StopEdgeNext ==
    ASSUME CampaignInv, StopEdge, NEW n \in Edges \ trouble'
    PROVE  AsTheStageSays(n)'
<1>1. /\ n \notin trouble /\ (NoFault \/ n # at)
      /\ NoFault => Kill(at)
  <2>1. \/ NoFault /\ Kill(at)
        \/ Fault(at)
    BY DEF StopEdge
  <2>2. faults \in Nat
    BY CampaignAssumption DEF CampaignInv, TypeOK
  <2> QED
    BY <2>1, <2>2, TroubleGrows DEF Fault, NoFault, blame
<1>2. /\ at \in Nat /\ n \in Nat /\ at \in Edges /\ proc \in [Edges -> Output]
      /\ closing \in [Edges -> SUBSET [process : Output, held : BOOLEAN]]
      /\ ThisRun # Nothing
  BY RunInRange DEF CampaignInv, TypeOK, Edges
<1>3. /\ \/ stage' = "stop" /\ at' = at + 1
         \/ stage' = "gather_cloud" /\ at' = 1 /\ n <= at
      /\ ThisRun' = ThisRun /\ UNCHANGED cloudRun /\ Fresh' = Fresh
  BY NextOfSteps, SameRun DEF StopEdge, Fresh, Nothing, CampaignInv, Stages
<1>4. /\ n >= at => Serving(n)
      /\ n < at => Finishing(n)
  BY <1>1 DEF StopEdge, CampaignInv, EdgesAsTheStageSays, AsTheStageSays, IsServing,
              IsFinishing
<1>5. n # at => proc'[n] = proc[n] /\ closing'[n] = closing[n]
  BY <1>2 DEF StopEdge, Kill
<1>6. n = at => /\ proc'[n] = Nothing
                /\ closing'[n] = IF cloudRun = 0 THEN {}
                                 ELSE {[process |-> ThisRun, held |-> TRUE]}
  BY <1>1, <1>2, <1>4 DEF Kill, Serving, Fresh
<1>7. files' = files
  BY DEF StopEdge, results
<1>8. n > at => Serving(n)'
  BY <1>2, <1>3, <1>4, <1>5 DEF Serving
<1>9. n <= at => Finishing(n)'
  <2> SUFFICES ASSUME n <= at PROVE Finishing(n)'
    OBVIOUS
  <2>1. CASE n = at
    <3>1. \A c \in closing'[n] : c.process = ThisRun
      BY <1>6, <2>1
    <3>2. (cloudRun # 0 => closing'[n] # {}) /\ proc'[n] = Nothing
      BY <1>6, <2>1
    <3> QED
      BY <1>3, <3>1, <3>2 DEF Finishing
  <2>2. CASE n < at
    BY <1>2, <1>3, <1>4, <1>5, <1>7, <2>2 DEF Finishing
  <2> QED
    BY <1>2, <2>1, <2>2
<1> QED
  BY <1>2, <1>3, <1>8, <1>9
  DEF AsTheStageSays, IsCleared, IsServing, IsFinishing, IsGathered, Edges

\* An edge whose process has finished has this run's files to gather.
LEMMA GatherEdgeNext ==
    ASSUME CampaignInv, GatherEdge, NEW n \in Edges \ trouble'
    PROVE  AsTheStageSays(n)'
<1>1. n \notin trouble /\ at \in Edges /\ (NoFault \/ n # at)
  BY SettledFault, TroubleGrows DEF GatherEdge, Fetch, CampaignInv, TypeOK
<1>2. /\ at \in Nat /\ n \in Nat /\ n \in Machines
      /\ kept \in [DOMAIN CacheSizes -> [Machines -> Output]]
      /\ size \in DOMAIN CacheSizes /\ at # Cloud
      /\ ThisRun # Nothing
  <2>1. ThisRun # Nothing
    BY RunInRange DEF CampaignInv, TypeOK
  <2>2. at \in Nat /\ n \in Nat /\ n \in Machines /\ at # Cloud
    BY <1>1 DEF Edges, Machines, Cloud
  <2> QED
    BY <2>1, <2>2 DEF CampaignInv, TypeOK
<1>3. /\ \/ stage' = "gather" /\ at' = at + 1
         \/ stage' = "gathered" /\ at' = 1 /\ n <= at
      /\ ThisRun' = ThisRun /\ UNCHANGED <<size, cloudRun>>
  BY NextOfSteps, SameRun DEF GatherEdge, servers, CampaignInv, Stages
<1>4. /\ n >= at => Finishing(n)
      /\ n < at => Gathered(n)
  BY <1>1 DEF GatherEdge, CampaignInv, EdgesAsTheStageSays, AsTheStageSays, IsFinishing,
              IsGathered
<1>5. n # at => kept'[size][n] = kept[size][n]
  BY <1>2 DEF GatherEdge, Fetch
<1>6. n = at /\ cloudRun # 0 => kept'[size][n] = ThisRun
  <2> SUFFICES ASSUME n = at, cloudRun # 0 PROVE kept'[size][at] = ThisRun
    OBVIOUS
  <2>1. Settled(at) /\ kept' = IF files[at] = Nothing THEN kept
                               ELSE [kept EXCEPT ![size][at] = files[at]]
    BY <1>2 DEF GatherEdge, Fetch, Fault
  <2>2. closing[at] = {}
    BY <2>1 DEF Settled, Fault
  <2>3. files[at] = ThisRun
    BY <1>2, <1>4, <2>2 DEF Finishing
  <2> QED
    BY <1>2, <2>1, <2>3
<1>7. n <= at => Gathered(n)'
  BY <1>2, <1>3, <1>4, <1>5, <1>6 DEF Gathered
<1>8. n > at => Finishing(n)'
  BY <1>2, <1>3, <1>4 DEF GatherEdge, Finishing, servers
<1> QED
  BY <1>2, <1>3, <1>7, <1>8
  DEF AsTheStageSays, IsCleared, IsServing, IsFinishing, IsGathered, Edges

\* Draining and exiting leave an edge as the stage says.
LEMMA ExitNext ==
    ASSUME CampaignInv, NEW m \in Edges, NEW c \in closing[m],
           Drain(m, c) \/ Close(m, c), NEW n \in Edges \ trouble'
    PROVE  AsTheStageSays(n)'
<1>1. /\ UNCHANGED where /\ UNCHANGED <<proc, kept, cloudRun>> /\ ThisRun' = ThisRun
      /\ n \notin trouble /\ Fresh' = Fresh
  BY SameRun DEF Drain, Close, where, blame, results, NoFault, Fault, Fresh, Nothing
<1>2. /\ closing \in [Edges -> SUBSET [process : Output, held : BOOLEAN]]
      /\ files \in [Machines -> Output] /\ m \in Machines /\ n \in Machines
  BY DEF CampaignInv, TypeOK, Machines
<1>3. AsTheStageSays(n)
  BY <1>1 DEF CampaignInv, EdgesAsTheStageSays
<1>4. Cleared(n) => Cleared(n)'
  BY <1>1 DEF Cleared
<1>5. n # m => closing'[n] = closing[n] /\ files'[n] = files[n]
  <2>1. CASE Drain(m, c)
    BY <1>2, <2>1 DEF Drain, results
  <2>2. CASE Close(m, c)
    <3>1. closing' = [closing EXCEPT ![m] = @ \ {c}]
      BY <2>2 DEF Close
    <3>2. files' = [files EXCEPT ![m] = c.process] \/ files' = files
      BY <2>2 DEF Close
    <3>3. n # m => closing'[n] = closing[n]
      BY <1>2, <3>1
    <3>4. n # m => files'[n] = files[n]
      BY <1>2, <3>2
    <3> QED
      BY <3>3, <3>4
  <2> QED
    BY <2>1, <2>2
<1>6. Serving(n) => Serving(n)'
  BY <1>1, <1>5 DEF Serving
<1>7. Gathered(n) => Gathered(n)'
  BY <1>1 DEF Gathered, where
<1>8. Finishing(n) => Finishing(n)'
  <2> SUFFICES ASSUME Finishing(n) PROVE Finishing(n)'
    OBVIOUS
  <2>1. CASE n # m
    BY <1>1, <1>5, <2>1 DEF Finishing
  <2>2. CASE n = m /\ Drain(m, c)
    <3>1. closing'[n] = (closing[n] \ {c}) \cup {[c EXCEPT !.held = FALSE]}
      BY <1>2, <2>2 DEF Drain
    <3>2. c.process = ThisRun /\ c \in [process : Output, held : BOOLEAN]
      BY <1>2, <2>2 DEF Finishing
    <3>3. [c EXCEPT !.held = FALSE].process = ThisRun
      BY <3>2
    <3> QED
      BY <1>1, <3>1, <3>3 DEF Finishing
  <2>3. CASE n = m /\ Close(m, c)
    <3>1. closing'[n] = closing[n] \ {c} /\ files'[n] = c.process
      BY <1>2, <2>3 DEF Close, Fault
    <3>2. c.process = ThisRun
      BY <2>3 DEF Finishing
    <3> QED
      BY <1>1, <3>1, <3>2 DEF Finishing
  <2> QED
    BY <2>1, <2>2, <2>3
<1> QED
  BY <1>1, <1>3, <1>4, <1>6, <1>7, <1>8
  DEF AsTheStageSays, IsCleared, IsServing, IsFinishing, IsGathered, where

\* An edge that dies for want of a cloud is none that this run claims to serve.
LEMMA DieNext ==
    ASSUME CampaignInv, NEW m \in Edges, DieWithCloud(m), NEW n \in Edges \ trouble'
    PROVE  AsTheStageSays(n)'
<1>1. /\ UNCHANGED where /\ UNCHANGED <<files, kept, cloudRun>> /\ ThisRun' = ThisRun
      /\ n \notin trouble /\ cloudRun = 0
  BY SameRun DEF DieWithCloud, where, blame, results
<1>2. /\ proc'[n] \in {proc[n], Nothing} /\ closing'[n] \subseteq closing[n]
  <2>1. proc \in [Edges -> Output] /\ DOMAIN closing = Edges
    BY DEF CampaignInv, TypeOK
  <2> QED
    BY <2>1 DEF DieWithCloud
<1>3. AsTheStageSays(n)
  BY <1>1 DEF CampaignInv, EdgesAsTheStageSays
<1>4. Cleared(n) => Cleared(n)'
  BY <1>2 DEF Cleared, Nothing
<1>5. Serving(n) => Serving(n)'
  BY <1>1, <1>2 DEF Serving, Fresh, Nothing
<1>6. Finishing(n) => Finishing(n)'
  BY <1>1, <1>2 DEF Finishing, Nothing
<1>7. Gathered(n)'
  BY <1>1 DEF Gathered
<1> QED
  BY <1>1, <1>3, <1>4, <1>5, <1>6, <1>7
  DEF AsTheStageSays, IsCleared, IsServing, IsFinishing, IsGathered, where

\* ... and the edges.
LEMMA EdgesNext ==
    ASSUME CampaignInv, [Next]_vars
    PROVE  EdgesAsTheStageSays'
<1> SUFFICES ASSUME NEW n \in Edges \ trouble' PROVE AsTheStageSays(n)'
  BY DEF EdgesAsTheStageSays
<1>0. n \in Nat /\ n >= 1 /\ at \in Edges
  BY CampaignAssumption DEF Edges, CampaignInv, TypeOK
<1>1. CASE \/ UpdateEdgeConfig \/ GenerateConfs \/ ChangeIps
           \/ StopCloud \/ StartCloud \/ NextRun
  BY <1>0, <1>1
  DEF UpdateEdgeConfig, GenerateConfs, ChangeIps, StopCloud, StartCloud, NextRun, GoTo,
      AsTheStageSays, IsCleared, IsServing, IsFinishing, IsGathered
<1>2. CASE KillEdge
  BY <1>2, KillEdgeNext
<1>3. CASE CopyConf
  <2>1. n \notin trouble /\ ThisRun' = ThisRun /\ UNCHANGED <<at, servers, results>>
    BY <1>3, TroubleGrows, SameRun DEF CopyConf, GoTo
  <2>2. AsTheStageSays(n)
    BY <2>1 DEF CampaignInv, EdgesAsTheStageSays
  <2> QED
    BY <1>3, <2>1, <2>2
    DEF CopyConf, GoTo, AsTheStageSays, IsCleared, IsServing, IsFinishing, IsGathered,
        Cleared, Serving, Fresh, servers
<1>4. CASE StartEdge
  BY <1>4, StartEdgeNext
<1>5. CASE StartClients \/ EndClients
  <2>1. n \notin trouble /\ ThisRun' = ThisRun /\ UNCHANGED servers
    BY <1>5, TroubleGrows, SameRun DEF StartClients, EndClients, GoTo
  <2>2. AsTheStageSays(n)
    BY <2>1 DEF CampaignInv, EdgesAsTheStageSays
  <2>3. Serving(n)
    BY <1>5, <2>2 DEF StartClients, EndClients, AsTheStageSays, IsServing
  <2>4. Serving(n)'
    BY <2>1, <2>3 DEF Serving, Fresh, servers
  <2> QED
    BY <1>0, <1>5, <2>4
    DEF StartClients, EndClients, GoTo, AsTheStageSays, IsCleared, IsServing,
        IsFinishing, IsGathered
<1>6. CASE StopEdge
  BY <1>6, StopEdgeNext
<1>7. CASE GatherCloud
  <2>1. n \notin trouble /\ ThisRun' = ThisRun /\ UNCHANGED <<servers, files>>
    BY <1>7, TroubleGrows, SameRun DEF GatherCloud, Fetch, GoTo
  <2>2. Finishing(n)
    BY <1>7, <2>1
    DEF GatherCloud, CampaignInv, EdgesAsTheStageSays, AsTheStageSays, IsFinishing
  <2>3. Finishing(n)'
    BY <2>1, <2>2 DEF Finishing, servers
  <2> QED
    BY <1>0, <1>7, <2>3
    DEF GatherCloud, GoTo, AsTheStageSays, IsCleared, IsServing, IsFinishing, IsGathered
<1>8. CASE GatherEdge
  BY <1>8, GatherEdgeNext
<1>9. CASE \E m \in Edges : \E c \in closing[m] : Drain(m, c) \/ Close(m, c)
  BY <1>9, ExitNext
<1>10. CASE UNCHANGED <<where, servers, results, blame>>
  BY <1>10, SameRun
  DEF where, servers, results, blame, CampaignInv, EdgesAsTheStageSays, AsTheStageSays,
      IsCleared, IsServing, IsFinishing, IsGathered, Cleared, Serving, Fresh, Finishing,
      Gathered
<1>12. CASE \E m \in Edges : DieWithCloud(m)
  BY <1>12, DieNext
<1>11. CASE \/ AdvanceClock
            \/ \E m \in Edges : \E b \in 0 .. proc[m].size : CacheEvent(m, b)
            \/ UNCHANGED vars
  BY <1>10, <1>11 DEF AdvanceClock, CacheEvent, vars
<1> QED
  BY <1>1, <1>2, <1>3, <1>4, <1>5, <1>6, <1>7, <1>8, <1>9, <1>11, <1>12 DEF Next

\* The invariant holds at first ...
LEMMA CampaignInitially == Init => CampaignInv
  BY TypeInit
  DEF Init, CampaignInv, ConfigsAreOfThisSize, EdgesAsTheStageSays, AsTheStageSays,
      IsCleared, IsServing, IsFinishing, IsGathered, CloudAsTheStageSays

\* ... and is kept by every step.
LEMMA CampaignNext == CampaignInv /\ [Next]_vars => CampaignInv'
<1> SUFFICES ASSUME CampaignInv, [Next]_vars PROVE CampaignInv'
  OBVIOUS
<1>1. TypeOK'
  BY TypeNext DEF CampaignInv
<1> QED
  BY <1>1, ConfigsNext, EdgesNext, CloudNext DEF CampaignInv

\* The restart of the edges undoes whatever earlier runs left behind: however
\* many faults the earlier runs met, an edge this run had no trouble with
\* serves the clients with this run's process and cache size, and none such
\* serves when there is no cloud.
THEOREM ServingFresh == Spec => []FreshWhenServing
<1>1. CampaignInv => FreshWhenServing
  BY DEF CampaignInv, EdgesAsTheStageSays, AsTheStageSays, IsServing, Serving, Fresh,
         FreshWhenServing
<1> QED
  BY <1>1, CampaignInitially, CampaignNext, PTL DEF Spec

\* If there was a cloud, the gathered files of every machine this run had no
\* trouble with are this run's, at this run's size, whatever faults it met on
\* other machines and earlier runs met on any.
THEOREM LabelsTrue == Spec => []LabelsAreTrue
<1>1. CampaignInv => LabelsAreTrue
  BY DEF CampaignInv, EdgesAsTheStageSays, AsTheStageSays, IsGathered, Gathered,
         CloudAsTheStageSays, LabelsAreTrue, Machines
<1> QED
  BY <1>1, CampaignInitially, CampaignNext, PTL DEF Spec
-----------------------------------------------------------------------------
(* What the plots make of a log.                                           *)

LogEvent == [time : 0 .. MaxTime, size : Nat]

\* The log l is what an edge writes whose pinned bytes are f, second for second, and it
\* has come as far as now.
Records(l, f) ==
    /\ \A i, j \in DOMAIN l : i <= j => l[i].time <= l[j].time
    /\ \A t \in 0 .. MaxTime :
           \/ f[t] = 0 /\ \A i \in DOMAIN l : l[i].time > t
           \/ \E i \in DOMAIN l : /\ l[i].time <= t /\ f[t] = l[i].size
                                  /\ \A j \in DOMAIN l : l[j].time <= t => j <= i

WrittenBy(l, time) == \A i \in DOMAIN l : l[i].time <= time

\* From its start on, the log of an edge this run had no trouble with is in step with its
\* cache.
Blank(n) == log[n] = << >> /\ truth[n] = Empty
IsBlank(n) ==
    \/ stage \in {"copy", "start"} /\ n < at
    \/ stage = "ready"
IsRecorded == stage \in {"clients", "stop", "gather_cloud", "gather", "gathered"}

LogsAreInStep ==
    \A n \in Edges \ trouble :
        /\ IsBlank(n) => Blank(n)
        /\ IsRecorded => Records(log[n], truth[n])
        /\ stage = "clients" => WrittenBy(log[n], now)

LogInv == CampaignInv /\ LogsAreInStep

\* A bounded set of naturals has a greatest one, which Max is: otherwise the numbers up
\* to one of it would be as many as the same without 0.
LEMMA MaxIsGreatest ==
    ASSUME NEW S \in SUBSET Nat, S # {}, NEW b \in Nat, \A x \in S : x <= b
    PROVE  Max(S) \in S /\ \A x \in S : x <= Max(S)
<1> SUFFICES ASSUME \A m \in S : \E x \in S : ~(x <= m)
             PROVE  FALSE
  BY DEF Max
<1> DEFINE D == {n \in Nat : \E x \in S : n <= x}
           E == D \ {0}
           f == [n \in D |-> n + 1]
<1>1. 0 \in D
  <2>1. PICK x \in S : x \in Nat
    OBVIOUS
  <2>2. 0 <= x
    BY <2>1
  <2> QED
    BY <2>2
<1>2. \A n \in D : n + 1 \in D
  <2> SUFFICES ASSUME NEW n \in Nat, NEW x \in S, n <= x
               PROVE  n + 1 \in D
    OBVIOUS
  <2>1. PICK y \in S : ~(y <= x)
    OBVIOUS
  <2>2. n + 1 <= y
    BY <2>1
  <2> QED
    BY <2>2
<1>3. IsFiniteSet(D)
  <2>1. D \in SUBSET Nat /\ \A n \in D : n <= b
    OBVIOUS
  <2> HIDE DEF D
  <2> QED
    BY <2>1, FS_BoundedSetOfNaturals
<1>4. IsFiniteSet(E) /\ Cardinality(E) = Cardinality(D) - 1 /\ Cardinality(D) \in Nat
  <2> HIDE DEF D
  <2> QED
    BY <1>1, <1>3, FS_RemoveElement, FS_CardinalityType
<1>5. f \in [D -> E]
  <2> SUFFICES ASSUME NEW n \in D
               PROVE  n + 1 \in E
    OBVIOUS
  <2> QED
    BY <1>2
<1>6. PICK x \in D, y \in D : x # y /\ f[x] = f[y]
  <2> HIDE DEF D, E, f
  <2> QED
    BY <1>3, <1>4, <1>5, FS_PigeonHole
<1> QED
  BY <1>6

\* The times and sizes of a log are numbers, of which the times are bounded.
LEMMA LogFacts ==
    ASSUME NEW l \in Seq(LogEvent)
    PROVE  /\ \A i \in DOMAIN l : i \in Nat /\ i <= Len(l) /\ l[i].time \in 0 .. MaxTime
                                  /\ l[i].size \in Nat
           /\ Len(l) \in Nat /\ MaxTime \in Nat
           /\ Times(l) \in SUBSET Nat /\ \A t \in Times(l) : t <= MaxTime
<1>1. MaxTime \in Nat
  BY CampaignAssumption
<1>2. Len(l) \in Nat /\ \A i \in DOMAIN l : i \in Nat /\ i <= Len(l) /\ l[i] \in LogEvent
  OBVIOUS
<1>3. \A i \in DOMAIN l : l[i].time \in 0 .. MaxTime /\ l[i].size \in Nat
  BY <1>2 DEF LogEvent
<1>4. Times(l) \in SUBSET Nat /\ \A t \in Times(l) : t <= MaxTime
  BY <1>1, <1>3 DEF Times
<1> QED
  BY <1>1, <1>2, <1>3, <1>4

\* time_size_map has for each second the last event in it.
LEMMA MapIsLast ==
    ASSUME NEW l \in Seq(LogEvent), NEW t \in Times(l)
    PROVE  \E i \in DOMAIN l : /\ l[i].time = t /\ TimeSizeMap(l)[t] = l[i].size
                               /\ \A j \in DOMAIN l : l[j].time = t => j <= i
<1> DEFINE S == {i \in DOMAIN l : l[i].time = t}
<1>1. S \in SUBSET Nat /\ Len(l) \in Nat /\ \A i \in S : i <= Len(l)
  BY LogFacts
<1>2. S # {}
  BY DEF Times
<1>3. Max(S) \in S /\ \A i \in S : i <= Max(S)
  <2> HIDE DEF S
  <2> QED
    BY <1>1, <1>2, MaxIsGreatest
<1>4. TimeSizeMap(l)[t] = l[Max(S)].size
  BY DEF TimeSizeMap
<1> QED
  BY <1>3, <1>4

\* No event of a log is later than its last second.
LEMMA LastSecondFacts ==
    ASSUME NEW l \in Seq(LogEvent)
    PROVE  /\ LastSecond(l) \in 0 .. MaxTime
           /\ \A i \in DOMAIN l : l[i].time <= LastSecond(l)
<1> DEFINE S == {0} \cup Times(l)
<1>1. S \in SUBSET Nat /\ S # {} /\ MaxTime \in Nat /\ \A t \in S : t <= MaxTime
  BY LogFacts
<1>2. Max(S) \in S /\ \A t \in S : t <= Max(S)
  <2> HIDE DEF S
  <2> QED
    BY <1>1, MaxIsGreatest
<1>3. \A i \in DOMAIN l : l[i].time \in S
  BY DEF Times
<1> DEFINE m == Max(S)
<1>4. LastSecond(l) = m
  BY DEF LastSecond
<1>5. m \in S /\ \A t \in S : t <= m
  BY <1>2
<1> HIDE DEF S, m
<1>6. m \in 0 .. MaxTime
  BY <1>1, <1>5
<1> QED
  BY <1>3, <1>4, <1>5, <1>6

\* A node's own series gives its pinned bytes up to its last event ...
LEMMA SizesOfLog ==
    ASSUME NEW l \in Seq(LogEvent), NEW f, Records(l, f), NEW t \in 0 .. LastSecond(l)
    PROVE  TimesSizes(l)[t + 1] = f[t]
<1> DEFINE before == {s \in DOMAIN TimeSizeMap(l) : s < t + 1}
<1>1. LastSecond(l) \in 0 .. MaxTime /\ MaxTime \in Nat
  BY LastSecondFacts, LogFacts
<1>2. t \in Nat /\ t + 1 \in 1 .. LastSecond(l) + 1 /\ t \in 0 .. MaxTime
  BY <1>1
<1>3. TimesSizes(l)[t + 1] = IF before = {} THEN 0 ELSE TimeSizeMap(l)[Max(before)]
  BY <1>2 DEF TimesSizes
<1>4. before = {s \in Times(l) : s <= t} /\ Times(l) \in SUBSET Nat
  <2>1. Times(l) \in SUBSET Nat
    BY LogFacts
  <2>2. DOMAIN TimeSizeMap(l) = Times(l)
    BY DEF TimeSizeMap
  <2> QED
    BY <1>2, <2>1, <2>2
<1>5. \A i \in DOMAIN l : l[i].time \in Times(l) /\ l[i].time \in Nat /\ i \in Nat
  BY LogFacts DEF Times
<1>6. CASE before = {}
  <2>1. \A i \in DOMAIN l : ~(l[i].time <= t)
    BY <1>4, <1>5, <1>6
  <2> QED
    BY <1>2, <1>3, <1>6, <2>1 DEF Records
<1>7. CASE before # {}
  <2> DEFINE m == Max(before)
  <2>1. m \in before /\ \A s \in before : s <= m
    <3>1. before \in SUBSET Nat /\ \A s \in before : s <= t
      BY <1>4
    <3> HIDE DEF before
    <3> QED
      BY <1>2, <1>7, <3>1, MaxIsGreatest
  <2> HIDE DEF before, m
  <2>2. m \in Times(l) /\ m \in Nat /\ m <= t
    BY <1>4, <2>1
  <2>3. PICK k \in DOMAIN l : /\ l[k].time = m /\ TimeSizeMap(l)[m] = l[k].size
                              /\ \A j \in DOMAIN l : l[j].time = m => j <= k
    BY <2>2, MapIsLast
  <2>4. PICK i \in DOMAIN l : /\ l[i].time <= t /\ f[t] = l[i].size
                              /\ \A j \in DOMAIN l : l[j].time <= t => j <= i
    BY <1>2, <1>5, <2>2, <2>3 DEF Records
  <2>5. l[i].time \in Nat /\ l[i].time <= m
    BY <1>4, <1>5, <2>1, <2>4
  <2>6. k <= i
    BY <2>2, <2>3, <2>4
  <2>7. m <= l[i].time
    BY <2>3, <2>6 DEF Records
  <2>8. l[i].time = m
    BY <2>2, <2>5, <2>7
  <2>9. i = k
    BY <1>5, <2>3, <2>6, <2>8
  <2> QED
    BY <1>3, <1>7, <2>3, <2>4, <2>9 DEF m
<1> QED
  BY <1>6, <1>7

\* ... and these do not change after it.
LEMMA SteadyAfterLog ==
    ASSUME NEW l \in Seq(LogEvent), NEW f, Records(l, f), NEW t \in LastSecond(l) .. MaxTime
    PROVE  f[t] = f[LastSecond(l)]
<1> DEFINE u == LastSecond(l)
<1>1. u \in Nat /\ t \in Nat /\ u <= t /\ u \in 0 .. MaxTime /\ t \in 0 .. MaxTime
  BY LastSecondFacts, LogFacts
<1>2. \A i \in DOMAIN l : l[i].time <= u /\ l[i].time <= t /\ l[i].time \in Nat /\ i \in Nat
  <2>1. \A i \in DOMAIN l : l[i].time <= u /\ l[i].time \in Nat /\ i \in Nat
    BY LastSecondFacts, LogFacts
  <2> HIDE DEF u
  <2> QED
    BY <1>1, <2>1
<1> HIDE DEF u
<1>3. CASE DOMAIN l = {}
  <2>1. f[t] = 0 /\ f[u] = 0
    BY <1>1, <1>3 DEF Records
  <2> QED
    BY <2>1 DEF u
<1>4. CASE DOMAIN l # {}
  <2>1. PICK i \in DOMAIN l : f[t] = l[i].size /\ \A j \in DOMAIN l : l[j].time <= t => j <= i
    BY <1>1, <1>2, <1>4 DEF Records
  <2>2. PICK k \in DOMAIN l : f[u] = l[k].size /\ \A j \in DOMAIN l : l[j].time <= u => j <= k
    BY <1>1, <1>2, <1>4 DEF Records
  <2>3. i = k
    BY <1>2, <2>1, <2>2
  <2> QED
    BY <2>1, <2>2, <2>3 DEF u
<1> QED
  BY <1>3, <1>4
\* The last second of any plotted node.
LEMMA SystemLastFacts ==
    ASSUME TypeOK
    PROVE  /\ SystemLast(log) \in 0 .. MaxTime
           /\ \A n \in Plotted(log) : LastSecond(log[n]) <= SystemLast(log)
<1> DEFINE S == {0} \cup {LastSecond(log[n]) : n \in Plotted(log)}
           m == Max(S)
<1>1. \A n \in Plotted(log) : LastSecond(log[n]) \in 0 .. MaxTime
  <2>1. \A n \in Plotted(log) : log[n] \in Seq(LogEvent)
    BY DEF TypeOK, Plotted, LogEvent
  <2> QED
    BY <2>1, LastSecondFacts
<1>2. S \in SUBSET Nat /\ S # {} /\ MaxTime \in Nat /\ \A t \in S : t <= MaxTime
  BY <1>1, CampaignAssumption
<1>3. m \in S /\ \A t \in S : t <= m
  <2> HIDE DEF S
  <2> QED
    BY <1>2, MaxIsGreatest DEF m
<1>4. SystemLast(log) = m
  BY DEF SystemLast
<1>5. \A n \in Plotted(log) : LastSecond(log[n]) \in S
  OBVIOUS
<1> HIDE DEF S, m
<1>6. m \in 0 .. MaxTime
  BY <1>2, <1>3
<1> QED
  BY <1>3, <1>4, <1>5, <1>6

\* A node's own series has an element for each second up to its last one.
LEMMA TimesSizesType ==
    ASSUME NEW l \in Seq(LogEvent)
    PROVE  TimesSizes(l) \in Seq(Nat) /\ Len(TimesSizes(l)) = LastSecond(l) + 1
<1>1. LastSecond(l) \in Nat
  BY LastSecondFacts, LogFacts
<1>2. ASSUME NEW i \in 1 .. LastSecond(l) + 1
      PROVE  TimesSizes(l)[i] \in Nat
  <2> DEFINE before == {t \in DOMAIN TimeSizeMap(l) : t < i}
             m == Max(before)
  <2>1. TimesSizes(l)[i] = IF before = {} THEN 0 ELSE TimeSizeMap(l)[m]
    BY DEF TimesSizes
  <2>2. CASE before # {}
    <3>1. /\ before \in SUBSET Nat /\ before \in SUBSET Times(l)
          /\ i \in Nat /\ \A t \in before : t <= i
      BY LogFacts, <1>1 DEF TimeSizeMap
    <3>2. m \in before
      <4> HIDE DEF before
      <4> QED
        BY <2>2, <3>1, MaxIsGreatest DEF m
    <3>3. m \in Times(l)
      <4> HIDE DEF before, m
      <4> QED
        BY <3>1, <3>2
    <3> HIDE DEF before, m
    <3>4. PICK k \in DOMAIN l : TimeSizeMap(l)[m] = l[k].size
      BY <3>3, MapIsLast
    <3> QED
      BY <2>1, <2>2, <3>4, LogFacts
  <2> QED
    BY <2>1, <2>2
<1>3. DOMAIN TimesSizes(l) = 1 .. LastSecond(l) + 1
      /\ TimesSizes(l) = [i \in 1 .. LastSecond(l) + 1 |-> TimesSizes(l)[i]]
  BY DEF TimesSizes
<1> DEFINE ts == TimesSizes(l)
           n == LastSecond(l) + 1
<1> HIDE DEF ts, n
<1>4. /\ n \in Nat /\ DOMAIN ts = 1 .. n /\ ts = [i \in 1 .. n |-> ts[i]]
      /\ \A i \in 1 .. n : ts[i] \in Nat
  BY <1>1, <1>2, <1>3 DEF ts, n
<1>5. ts \in Seq(Nat) /\ Len(ts) = n
  BY <1>4
<1> QED
  BY <1>5 DEF ts, n

\* _fix_system_end_time goes on with the last value, whose second it lists twice.
LEMMA FixedEnd ==
    ASSUME NEW sizes \in Seq(Nat), sizes # << >>, NEW last \in Nat, Len(sizes) <= last + 1
    PROVE  LET fixed == FixEndTime(sizes, last)
           IN  /\ Len(fixed) = last + 2 /\ DOMAIN fixed = 1 .. last + 2
               /\ \A i \in 1 .. last + 1 :
                      fixed[i] = IF i <= Len(sizes) THEN sizes[i] ELSE sizes[Len(sizes)]
<1> DEFINE n == Len(sizes)
           k == last + 2 - n
           tail == [i \in 1 .. k |-> sizes[n]]
<1>1. n \in Nat /\ 1 <= n /\ n <= last + 1 /\ k \in Nat /\ n + k = last + 2
  OBVIOUS
<1>2. FixEndTime(sizes, last) = sizes \o tail
  BY DEF FixEndTime, Last
<1>3. sizes[n] \in Nat
  BY <1>1
<1>4. tail \in Seq(Nat) /\ Len(tail) = k
  BY <1>1, <1>3
<1>5. \A i \in 1 .. k : tail[i] = sizes[n]
  OBVIOUS
<1> HIDE DEF n, k, tail
<1>6. /\ sizes \o tail \in Seq(Nat) /\ Len(sizes \o tail) = n + k
      /\ \A i \in 1 .. n + k : (sizes \o tail)[i] = IF i <= n THEN sizes[i] ELSE tail[i - n]
  BY <1>1, <1>4 DEF n
<1>7. ASSUME NEW i \in 1 .. last + 1
      PROVE  (sizes \o tail)[i] = IF i <= n THEN sizes[i] ELSE sizes[n]
  <2>1. i \in 1 .. n + k
    BY <1>1
  <2>2. CASE i <= n
    BY <1>6, <2>1, <2>2
  <2>3. CASE ~(i <= n)
    <3>1. i - n \in 1 .. k
      BY <1>1, <2>1, <2>3
    <3> QED
      BY <1>5, <1>6, <2>1, <2>3, <3>1
  <2> QED
    BY <2>2, <2>3
<1>8. DOMAIN (sizes \o tail) = 1 .. last + 2
  BY <1>1, <1>6
<1> QED
  BY <1>1, <1>2, <1>6, <1>7, <1>8 DEF n

\* A plotted series is as long as the others and gives the pinned bytes of its node.
LEMMA SeriesIs ==
    ASSUME TypeOK, NEW n \in Plotted(log)
    PROVE  /\ Len(Series(log)[n]) = SystemLast(log) + 2
           /\ Records(log[n], truth[n]) =>
                  \A t \in 0 .. SystemLast(log) : Series(log)[n][t + 1] = truth[n][t]
<1> DEFINE l == log[n]
           f == truth[n]
           sizes == TimesSizes(l)
           last == SystemLast(log)
           own == LastSecond(l)
<1>1. l \in Seq(LogEvent)
  BY DEF TypeOK, Plotted, LogEvent
<1>2. last \in 0 .. MaxTime /\ MaxTime \in Nat /\ own \in 0 .. MaxTime /\ own <= last
  BY <1>1, SystemLastFacts, LastSecondFacts, LogFacts
<1>3. sizes \in Seq(Nat) /\ Len(sizes) = own + 1
  BY <1>1, TimesSizesType
<1>4. Series(log)[n] = FixEndTime(sizes, last)
  BY DEF Series
<1>5. Records(l, f) => \A t \in 0 .. own : sizes[t + 1] = f[t]
  BY <1>1, SizesOfLog
<1>6. Records(l, f) => \A t \in own .. MaxTime : f[t] = f[own]
  BY <1>1, SteadyAfterLog
<1> DEFINE ended == FixEndTime(sizes, last)
<1> HIDE DEF l, f, sizes, last, own
<1>7. sizes # << >> /\ last \in Nat /\ Len(sizes) <= last + 1
  BY <1>2, <1>3
<1>8. /\ Len(ended) = last + 2
      /\ \A i \in 1 .. last + 1 :
             ended[i] = IF i <= Len(sizes) THEN sizes[i] ELSE sizes[Len(sizes)]
  BY <1>3, <1>7, FixedEnd
<1> HIDE DEF ended
<1>9. ASSUME Records(l, f), NEW t \in 0 .. last
      PROVE  ended[t + 1] = f[t]
  <2>1. t + 1 \in 1 .. last + 1 /\ t \in Nat
    BY <1>2
  <2>2. CASE t <= own
    <3>1. t + 1 <= Len(sizes) /\ t \in 0 .. own
      BY <1>2, <1>3, <2>1, <2>2
    <3> QED
      BY <1>5, <1>8, <1>9, <2>1, <3>1
  <2>3. CASE ~(t <= own)
    <3>1. ~(t + 1 <= Len(sizes)) /\ t \in own .. MaxTime /\ own \in 0 .. own
      BY <1>2, <1>3, <2>1, <2>3
    <3>2. ended[t + 1] = sizes[own + 1]
      BY <1>3, <1>8, <2>1, <3>1
    <3> QED
      BY <1>5, <1>6, <1>9, <3>1, <3>2
  <2> QED
    BY <2>2, <2>3
<1> QED
  BY <1>4, <1>8, <1>9 DEF ended, last, l, f

\* A cache event goes on with the log and with the pinned bytes alike.
LEMMA EventRecorded ==
    ASSUME NEW l \in Seq(LogEvent), NEW f \in [0 .. MaxTime -> Nat], NEW time \in 0 .. MaxTime,
           NEW b \in Nat, Records(l, f), WrittenBy(l, time)
    PROVE  /\ Records(Append(l, [time |-> time, size |-> b]),
                      [t \in 0 .. MaxTime |-> IF t < time THEN f[t] ELSE b])
           /\ WrittenBy(Append(l, [time |-> time, size |-> b]), time)
<1> DEFINE e == [time |-> time, size |-> b]
           more == Append(l, e)
           g == [t \in 0 .. MaxTime |-> IF t < time THEN f[t] ELSE b]
           n == Len(l)
<1>1. e \in LogEvent /\ e.time = time /\ e.size = b
  BY DEF LogEvent
<1>2. /\ n \in Nat /\ time \in Nat
      /\ \A i \in 1 .. n : i \in DOMAIN l /\ l[i].time \in Nat /\ l[i].time <= time
  BY LogFacts DEF WrittenBy
<1>3. DOMAIN l = 1 .. n
  OBVIOUS
<1> HIDE DEF e
<1>4. /\ DOMAIN more = 1 .. n + 1 /\ more[n + 1] = e
      /\ \A i \in 1 .. n : more[i] = l[i]
  BY <1>1
<1> HIDE DEF n, more
<1>5. \A i \in DOMAIN more : more[i].time \in Nat /\ more[i].time <= time
  <2> SUFFICES ASSUME NEW i \in 1 .. n + 1
               PROVE  more[i].time \in Nat /\ more[i].time <= time
    BY <1>4
  <2>1. CASE i = n + 1
    BY <1>1, <1>2, <1>4, <2>1
  <2>2. CASE i # n + 1
    BY <1>2, <1>4, <2>2
  <2> QED
    BY <2>1, <2>2
<1>6. ASSUME NEW i \in DOMAIN more, NEW j \in DOMAIN more, i <= j
      PROVE  more[i].time <= more[j].time
  <2>1. CASE j = n + 1
    BY <1>1, <1>4, <1>5, <2>1
  <2>2. CASE j # n + 1
    <3>1. i \in 1 .. n /\ j \in 1 .. n
      BY <1>2, <1>4, <1>6, <2>2
    <3> QED
      BY <1>3, <1>4, <1>6, <3>1 DEF Records
  <2> QED
    BY <2>1, <2>2
<1>7. ASSUME NEW t \in 0 .. MaxTime
      PROVE  \/ g[t] = 0 /\ \A i \in DOMAIN more : more[i].time > t
             \/ \E i \in DOMAIN more : /\ more[i].time <= t /\ g[t] = more[i].size
                                       /\ \A j \in DOMAIN more : more[j].time <= t => j <= i
  <2>1. CASE t < time
    <3>1. g[t] = f[t] /\ ~(more[n + 1].time <= t) /\ more[n + 1].time > t
      BY <1>1, <1>2, <1>4, <2>1
    <3>2. CASE f[t] = 0 /\ \A i \in DOMAIN l : l[i].time > t
      <4>1. ASSUME NEW i \in 1 .. n + 1
            PROVE  more[i].time > t
        <5>1. CASE i = n + 1
          BY <3>1, <5>1
        <5>2. CASE i # n + 1
          BY <1>2, <1>4, <3>2, <5>2
        <5> QED
          BY <5>1, <5>2
      <4> QED
        BY <1>4, <3>1, <3>2, <4>1
    <3>3. CASE \E i \in DOMAIN l : /\ l[i].time <= t /\ f[t] = l[i].size
                                   /\ \A j \in DOMAIN l : l[j].time <= t => j <= i
      <4>1. PICK i \in 1 .. n : /\ l[i].time <= t /\ f[t] = l[i].size
                                /\ \A j \in 1 .. n : l[j].time <= t => j <= i
        BY <1>3, <3>3
      <4>2. i \in DOMAIN more /\ more[i] = l[i]
        BY <1>2, <1>4
      <4>3. ASSUME NEW j \in 1 .. n + 1, more[j].time <= t
            PROVE  j <= i
        <5>1. j # n + 1
          BY <3>1, <4>3
        <5>2. j \in 1 .. n
          BY <1>2, <5>1
        <5> QED
          BY <1>4, <4>1, <4>3, <5>2
      <4> QED
        BY <1>4, <3>1, <4>1, <4>2, <4>3
    <3> QED
      BY <3>2, <3>3 DEF Records
  <2>2. CASE ~(t < time)
    <3>1. g[t] = b
      BY <2>2
    <3>2. n + 1 \in DOMAIN more /\ more[n + 1].time <= t /\ more[n + 1].size = b
      BY <1>1, <1>2, <1>4, <2>2
    <3>3. \A j \in DOMAIN more : j <= n + 1
      BY <1>2, <1>4
    <3> QED
      BY <3>1, <3>2, <3>3
  <2> QED
    BY <2>1, <2>2
<1> HIDE DEF g
<1>8. Records(more, g)
  BY <1>6, <1>7 DEF Records
<1>9. WrittenBy(more, time)
  BY <1>5 DEF WrittenBy
<1> QED
  BY <1>8, <1>9 DEF more, g, e

\* An empty log is in step with an empty cache.
LEMMA BlankRecorded ==
    ASSUME NEW n \in Edges, NEW time, Blank(n)
    PROVE  Records(log[n], truth[n]) /\ WrittenBy(log[n], time)
<1>1. DOMAIN log[n] = {} /\ \A t \in 0 .. MaxTime : truth[n][t] = 0
  BY DEF Blank, Empty
<1> QED
  BY <1>1 DEF Records, WrittenBy

\* No edge has been started at first.
LEMMA LogsInit == Init => LogsAreInStep
  BY DEF Init, LogsAreInStep, IsBlank, IsRecorded

\* What a step leaves in step that touches no log.
LEMMA LogsStay ==
    ASSUME LogsAreInStep, UNCHANGED cacheHistory, NEW n \in Edges \ trouble,
           IsBlank(n)' => IsBlank(n), IsRecorded' => IsRecorded,
           stage' = "clients" => stage = "clients" /\ now' = now
    PROVE  /\ IsBlank(n)' => Blank(n)'
           /\ IsRecorded' => Records(log[n], truth[n])'
           /\ stage' = "clients" => WrittenBy(log[n], now)'
  BY DEF LogsAreInStep, cacheHistory, Blank, Records, WrittenBy

\* An edge this run had no trouble with starts with an empty log and an empty cache.
LEMMA StartIsBlank ==
    ASSUME CampaignInv, StartEdge, at \notin trouble'
    PROVE  log'[at] = << >> /\ truth'[at] = Empty
<1>1. at \in Edges /\ at \notin trouble
  BY SettledFault, TroubleGrows DEF StartEdge, Launch, CampaignInv, TypeOK
<1>2. proc[at] = Nothing
  <2>1. IsCleared(at)
    BY <1>1 DEF StartEdge, IsCleared, Edges
  <2> QED
    BY <1>1, <2>1 DEF CampaignInv, EdgesAsTheStageSays, AsTheStageSays, Cleared
<1>3. Launch(at) /\ closing[at] = {}
  BY DEF StartEdge, Fault, Launch, Settled
<1>4. PortsFree(at)
  BY <1>2, <1>3 DEF PortsFree
<1>5. log' = [log EXCEPT ![at] = << >>] /\ truth' = [truth EXCEPT ![at] = Empty]
  BY <1>3, <1>4 DEF Launch
<1>6. DOMAIN log = Edges /\ DOMAIN truth = Edges
  BY DEF CampaignInv, TypeOK
<1> QED
  BY <1>1, <1>5, <1>6

\* Every step keeps the logs in step with the caches.
LEMMA LogsNext ==
    ASSUME LogInv, [Next]_vars
    PROVE  LogsAreInStep'
<1> SUFFICES ASSUME NEW n \in Edges \ trouble'
             PROVE  /\ IsBlank(n)' => Blank(n)'
                    /\ IsRecorded' => Records(log[n], truth[n])'
                    /\ stage' = "clients" => WrittenBy(log[n], now)'
  BY DEF LogsAreInStep
<1> USE DEF LogInv
<1>0. /\ n \in Nat /\ n >= 1 /\ at \in Edges /\ at \in Nat
      /\ log \in [Edges -> Seq(LogEvent)] /\ truth \in [Edges -> [0 .. MaxTime -> Nat]]
      /\ now \in 0 .. MaxTime
  <2>1. n \in Nat /\ n >= 1 /\ at \in Edges /\ at \in Nat
    BY CampaignAssumption DEF Edges, CampaignInv, TypeOK
  <2>2. log \in [Edges -> Seq(LogEvent)] /\ truth \in [Edges -> [0 .. MaxTime -> Nat]]
        /\ now \in 0 .. MaxTime
    BY DEF CampaignInv, TypeOK, LogEvent
  <2> QED
    BY <2>1, <2>2
<1>1. CASE \/ UpdateEdgeConfig \/ GenerateConfs \/ ChangeIps
           \/ StopCloud \/ StartCloud \/ NextRun
  BY <1>1 DEF UpdateEdgeConfig, GenerateConfs, ChangeIps, StopCloud, StartCloud, NextRun, GoTo,
              IsBlank, IsRecorded
<1>2. CASE KillEdge
  <2>1. \/ stage' = "kill"
        \/ stage' = "copy" /\ at' = 1
    BY <1>2, NextOfSteps DEF KillEdge, CampaignInv, Stages
  <2> QED
    BY <1>0, <2>1 DEF IsBlank, IsRecorded
<1>3. CASE CopyConf
  <2>1. n \notin trouble /\ UNCHANGED <<at, cacheHistory>> /\ stage = "copy" /\ stage' = "start"
    BY <1>3, TroubleGrows DEF CopyConf, GoTo
  <2> QED
    BY <2>1, LogsStay DEF IsBlank, IsRecorded
<1>4. CASE StartEdge
  <2>1. n \notin trouble
    BY <1>0, <1>4, SettledFault, TroubleGrows DEF StartEdge, Launch
  <2>2. \/ stage' = "copy" /\ at' = at + 1
        \/ stage' = "ready" /\ \A m \in Edges : m <= at
    BY <1>4, NextOfSteps DEF StartEdge, CampaignInv, Stages
  <2>3. CASE n = at
    <3>1. Blank(n)'
      BY <1>4, <2>3, StartIsBlank DEF Blank, Empty
    <3> QED
      BY <2>2, <3>1 DEF IsRecorded
  <2>4. CASE n # at
    <3>1. log'[n] = log[n] /\ truth'[n] = truth[n]
      BY <1>0, <1>4, <2>4 DEF StartEdge, Launch, cacheHistory
    <3>2. IsBlank(n)' => Blank(n)
      BY <1>0, <1>4, <2>1, <2>2, <2>4 DEF StartEdge, IsBlank, LogsAreInStep
    <3>3. IsBlank(n)' => Blank(n)'
      BY <3>1, <3>2 DEF Blank, Empty
    <3> QED
      BY <2>2, <3>3 DEF IsRecorded
  <2> QED
    BY <2>3, <2>4
<1>5. CASE StartClients
  <2>1. /\ n \notin trouble /\ UNCHANGED cacheHistory
        /\ stage = "ready" /\ stage' \in {"clients", "stop"}
    BY <1>5, TroubleGrows DEF StartClients, GoTo
  <2>2. Blank(n)
    BY <2>1 DEF LogsAreInStep, IsBlank
  <2>3. log'[n] = log[n] /\ truth'[n] = truth[n]
    BY <2>1 DEF cacheHistory
  <2>4. Records(log'[n], truth'[n]) /\ WrittenBy(log'[n], now')
    BY <2>2, <2>3, BlankRecorded
  <2> QED
    BY <2>1, <2>4 DEF IsBlank, Records, WrittenBy
<1>6. CASE AdvanceClock
  <2>1. /\ n \notin trouble /\ UNCHANGED cacheHistory
        /\ stage = "clients" /\ stage' = stage /\ now' = now + 1
    BY <1>6 DEF AdvanceClock, where, blame
  <2>2. Records(log[n], truth[n]) /\ WrittenBy(log[n], now)
    BY <2>1 DEF LogsAreInStep, IsRecorded
  <2>3. log'[n] = log[n] /\ truth'[n] = truth[n]
    BY <2>1 DEF cacheHistory
  <2>4. \A i \in DOMAIN log[n] : log[n][i].time <= now'
    <3>1. log[n] \in Seq(LogEvent)
      BY <1>0
    <3>2. \A i \in DOMAIN log[n] : log[n][i].time \in Nat
      BY <3>1, LogFacts
    <3> QED
      BY <1>0, <2>1, <2>2, <3>2 DEF WrittenBy
  <2> QED
    BY <2>1, <2>2, <2>3, <2>4 DEF IsBlank, Records, WrittenBy
<1>7. CASE \E m \in Edges : \E b \in 0 .. proc[m].size : CacheEvent(m, b)
  <2>1. PICK m \in Edges : \E b \in 0 .. proc[m].size : CacheEvent(m, b)
    BY <1>7
  <2>2. PICK b \in 0 .. proc[m].size : CacheEvent(m, b)
    BY <2>1
  <2>3. n \notin trouble /\ stage = "clients" /\ stage' = stage /\ now' = now
    BY <2>2 DEF CacheEvent, where, blame
  <2>4. Records(log[n], truth[n]) /\ WrittenBy(log[n], now)
    BY <2>3 DEF LogsAreInStep, IsRecorded
  <2>5. Records(log'[n], truth'[n]) /\ WrittenBy(log'[n], now)
    <3>1. CASE n = m
      <4>1. b \in Nat
        BY DEF CampaignInv, TypeOK, Output
      <4>2. log[n] \in Seq(LogEvent) /\ truth[n] \in [0 .. MaxTime -> Nat]
        BY <1>0
      <4>3. /\ log'[n] = Append(log[n], [time |-> now, size |-> b])
            /\ truth'[n] = [t \in 0 .. MaxTime |-> IF t < now THEN truth[n][t] ELSE b]
        BY <1>0, <2>2, <3>1 DEF CacheEvent
      <4> DEFINE l == log[n]
                 f == truth[n]
      <4>4. l \in Seq(LogEvent) /\ f \in [0 .. MaxTime -> Nat] /\ Records(l, f) /\ WrittenBy(l, now)
        BY <2>4, <4>2
      <4> HIDE DEF l, f
      <4>5. /\ Records(Append(l, [time |-> now, size |-> b]),
                       [t \in 0 .. MaxTime |-> IF t < now THEN f[t] ELSE b])
            /\ WrittenBy(Append(l, [time |-> now, size |-> b]), now)
        BY <1>0, <4>1, <4>4, EventRecorded
      <4> QED
        BY <4>3, <4>5 DEF l, f
    <3>2. CASE n # m
      <4>1. log'[n] = log[n] /\ truth'[n] = truth[n]
        BY <1>0, <2>2, <3>2 DEF CacheEvent
      <4> QED
        BY <2>4, <4>1
    <3> QED
      BY <3>1, <3>2
  <2> QED
    BY <2>3, <2>5 DEF IsBlank, Records, WrittenBy
<1>8. CASE EndClients \/ StopEdge \/ GatherCloud \/ GatherEdge
  <2>1. n \notin trouble
    BY <1>0, <1>8, SettledFault, TroubleGrows
    DEF EndClients, StopEdge, GatherCloud, GatherEdge, Fetch
  <2>2. IsRecorded /\ stage' \in {"stop", "gather_cloud", "gather", "gathered"}
    BY <1>8, NextOfSteps
    DEF EndClients, StopEdge, GatherCloud, GatherEdge, GoTo, IsRecorded, CampaignInv, Stages
  <2>3. UNCHANGED cacheHistory
    BY <1>8 DEF EndClients, StopEdge, GatherCloud, GatherEdge
  <2> QED
    BY <2>1, <2>2, <2>3, LogsStay DEF IsBlank
<1>9. CASE UNCHANGED <<where, now, cacheHistory>> /\ n \notin trouble
  BY <1>9, LogsStay DEF where, IsBlank, IsRecorded
<1>10. CASE \/ \E m \in Edges : DieWithCloud(m)
            \/ \E m \in Edges : \E c \in closing[m] : Drain(m, c) \/ Close(m, c)
            \/ UNCHANGED vars
  <2>1. UNCHANGED <<where, now, cacheHistory>> /\ n \notin trouble
    BY <1>10 DEF DieWithCloud, Drain, Close, NoFault, Fault, blame, vars
  <2> QED
    BY <1>9, <2>1
<1> QED
  BY <1>1, <1>2, <1>3, <1>4, <1>5, <1>6, <1>7, <1>8, <1>10 DEF Next

\* After a run, the plots of the edges it had no trouble with are their caches, second for
\* second, whatever was logged, however many edges there are and whatever the others did
\* (cache_size_plots.py:44-70, 103-113).
THEOREM PlotsTrue == Spec => []PlotsAreTheCache
<1>1. Init => LogInv
  BY CampaignInitially, LogsInit DEF LogInv
<1>2. LogInv /\ [Next]_vars => LogInv'
  BY CampaignNext, LogsNext DEF LogInv
<1>3. LogInv => PlotsAreTheCache
  <2> DEFINE shown == Plotted(log)
             series == Series(log)
             last == SystemLast(log)
  <2> SUFFICES ASSUME LogInv, stage = "gathered", shown # {}, NEW t \in 0 .. last
               PROVE  /\ \A n \in shown \ trouble : series[n][t + 1] = truth[n][t]
                      /\ shown \cap trouble = {} =>
                             Cumulative(series)[t + 1]
                                = FoldFunctionOnSet(LAMBDA f, sum : f[t] + sum, 0, truth, shown)
    BY DEF PlotsAreTheCache
  <2>1. TypeOK /\ shown \subseteq Edges /\ DOMAIN series = shown
    BY DEF LogInv, CampaignInv, TypeOK, Plotted, Series
  <2>2. \A n \in shown \ trouble : Records(log[n], truth[n])
    BY <2>1 DEF LogInv, LogsAreInStep, IsRecorded
  <2>3. \A n \in shown \ trouble : series[n][t + 1] = truth[n][t]
    BY <2>1, <2>2, SeriesIs
  <2>4. ASSUME shown \cap trouble = {}
        PROVE  Cumulative(series)[t + 1]
                  = FoldFunctionOnSet(LAMBDA f, sum : f[t] + sum, 0, truth, shown)
    <3> DEFINE first == CHOOSE n \in DOMAIN series : TRUE
    <3>1. Len(series[first]) = last + 2
      <4>1. first \in shown
        BY <2>1
      <4> QED
        BY <2>1, <4>1, SeriesIs
    <3>2. last \in Nat /\ t + 1 \in 1 .. last + 2
      BY <2>1, SystemLastFacts, CampaignAssumption
    <3>3. \A n \in shown : series[n][t + 1] = truth[n][t]
      BY <2>3, <2>4
    <3>4. Cumulative(series)[t + 1]
             = FoldFunctionOnSet(LAMBDA s, sum : s[t + 1] + sum, 0, series, shown)
      BY <2>1, <3>1, <3>2 DEF Cumulative
    \* The series and the pinned bytes are summed up in the same order.
    <3>5. FoldFunctionOnSet(LAMBDA s, sum : s[t + 1] + sum, 0, series, shown)
             = FoldFunctionOnSet(LAMBDA f, sum : f[t] + sum, 0, truth, shown)
      <4> DEFINE X(s) == CHOOSE x \in s : TRUE
                 A(g) == [s \in SUBSET shown |->
                             IF s = {} THEN 0 ELSE series[X(s)][t + 1] + g[s \ {X(s)}]]
                 B(g) == [s \in SUBSET shown |->
                             IF s = {} THEN 0 ELSE truth[X(s)][t] + g[s \ {X(s)}]]
      <4>1. ASSUME NEW g
            PROVE  A(g) = B(g)
        <5>1. \A s \in SUBSET shown : s # {} => X(s) \in shown
          OBVIOUS
        <5>2. \A s \in SUBSET shown : s # {} => series[X(s)][t + 1] = truth[X(s)][t]
          BY <3>3, <5>1
        <5> HIDE DEF X, shown, series
        <5> QED
          BY <5>2
      <4>2. (CHOOSE g : g = A(g)) = (CHOOSE g : g = B(g))
        <5> HIDE DEF A, B
        <5> QED
          BY <4>1
      <4> HIDE DEF shown, series
      <4> QED
        BY <4>2 DEF FoldFunctionOnSet, MapThenFoldSet
    <3> QED
      BY <3>4, <3>5
  <2> QED
    BY <2>3, <2>4
<1> QED
  BY <1>1, <1>2, <1>3, PTL DEF Spec
=============================================================================
