----------------------------- MODULE EvalCampaign -----------------------------
(***************************************************************************)
(* The evaluation of the system: eval_wrapper.py runs run_eval.py once per *)
(* cache size, run_eval.py distributes the configuration, restarts the     *)
(* cloud and the edges, runs the clients, stops the edges and gathers the  *)
(* result files, with ssh and scp commands whose exit status it ignores.   *)
(*                                                                         *)
(* An edge writes its results only when it exits (Close, after SIGTERM),   *)
(* at a moment the scripts only wait for with a sleep, and until it has    *)
(* drained its RPCs it holds its port.  It does not outlive the cloud: an  *)
(* edge whose post finds no monitoring server there dereferences the nil   *)
(* response (monitoring.go:110), and its process dies and writes nothing.  *)
(***************************************************************************)
EXTENDS Integers, Sequences, FiniteSets, CacheLogAnalysis

CONSTANTS
    NumEdges,       \* numEdgeNodes
    CacheSizes,     \* CACHE_SIZES, the sizes in the order they are tried
    NumTrials,      \* numTrials
    MaxFaults,      \* bound: the faults (see Fault) of a campaign
    MaxTime,        \* bound: the seconds of a client run
    MaxEvents       \* bound: the cache events of each edge's process

ASSUME CampaignAssumption ==
    /\ NumEdges \in Nat \ {0} /\ NumTrials \in Nat \ {0}
    /\ CacheSizes \in Seq(Nat) /\ CacheSizes # << >>
    /\ MaxFaults \in Nat /\ MaxTime \in Nat
    /\ MaxEvents \in [1 .. NumEdges -> Nat]

Cloud == 0
Edges == 1 .. NumEdges
Machines == {Cloud} \cup Edges

VARIABLES
    stage,      \* the command the scripts execute next
    at,         \* the loop index of that command, an edge
    size,       \* the position in CACHE_SIZES eval_wrapper.py is at
    trial,      \* the trial run_eval.py is at
    template,   \* cacheSize in conf/edgeConfig.json
    generated,  \* cacheSize in conf/edge/edgeConfig<n>.json
    staged,     \* cacheSize in conf/scripts/tmp/edge/edgeConfig<n>.json
    conf,       \* cacheSize in conf/edgeConfig.json on each edge machine
    proc,       \* the edge_go serving on each machine
    closing,    \* those that were told to stop and have not exited
    cloudRun,   \* the run the cloud and the clock were started for, 0 while down
    files,      \* the result files on each machine
    kept,       \* the local result directory of each cache size
    now,        \* the clock, pushed to the edges
    log,        \* the cache events in edge_go.INFO on each machine
    truth,      \* history: the pinned bytes of the serving cache per second
    faults,     \* history: how many faults there were
    trouble     \* history: the machines this run had a problem with

where == <<stage, at, size, trial>>
configs == <<template, generated, staged, conf>>
servers == <<proc, closing, cloudRun>>
results == <<files, kept>>
cacheHistory == <<log, truth>>
blame == <<faults, trouble>>
vars == <<where, configs, servers, results, now, cacheHistory, blame>>

(***************************************************************************)
(* A run is one trial of one size.  Processes and files carry the run they *)
(* come from and the cache size that was in force; Nothing stands for no   *)
(* process and for no file.                                                *)
(***************************************************************************)
Run == (size - 1) * NumTrials + trial
Nothing == [run |-> 0, size |-> 0]
Unset == [n \in Edges |-> 0]
ThisRun == [run |-> Run, size |-> CacheSizes[size]]
Empty == [t \in 0 .. MaxTime |-> 0]

\* A remote command to a machine gets through, or it fails and the script goes
\* on (check=False, or a status that is only printed).  A command that fails,
\* a cloud that does not come up, an edge that outlasts the sleep meant for it
\* or panics on its way out, and clients that crash are the faults, each the
\* trouble of one machine.  What follows from them elsewhere is none.
NoFault == UNCHANGED blame
Fault(m) ==
    /\ faults < MaxFaults
    /\ faults' = faults + 1
    /\ trouble' = trouble \cup {m}

GoTo(s, n) == stage' = s /\ at' = n /\ UNCHANGED <<size, trial>>

\* A mistake: the loop runs once too often.
NextOfPast(s, n, after) ==
    IF n <= NumEdges THEN GoTo(s, n + 1) ELSE GoTo(after, 1)

\* The command after the one for edge n in a loop over the edges.
NextOf(s, n, after) == IF n < NumEdges THEN GoTo(s, n + 1) ELSE GoTo(after, 1)

Init ==
    /\ stage = "template" /\ at = 1 /\ size = 1 /\ trial = 1
    /\ template = 0 /\ generated = Unset /\ staged = Unset /\ conf = Unset
    /\ proc = [n \in Edges |-> Nothing]
    /\ closing = [n \in Edges |-> {}]
    /\ cloudRun = 0
    /\ files = [m \in Machines |-> Nothing]
    /\ kept = [s \in DOMAIN CacheSizes |-> [m \in Machines |-> Nothing]]
    /\ now = 0
    /\ log = [n \in Edges |-> << >>]
    /\ truth = [n \in Edges |-> Empty]
    /\ faults = 0 /\ trouble = {}
-----------------------------------------------------------------------------
(***************************************************************************)
(* The configuration: eval_wrapper.py writes the template, run_eval.py     *)
(* generates one file per edge from it and stages the files with the       *)
(* addresses of the machines filled in.                                    *)
(***************************************************************************)
UpdateEdgeConfig ==
    /\ stage = "template"
    /\ template' = CacheSizes[size]
    /\ GoTo("generate", 1)
    /\ UNCHANGED <<generated, staged, conf, servers, results, now,
                   cacheHistory, blame>>

\* A mistake: the files of the last size are not removed.
GenerateMissingConfs ==
    /\ stage = "generate"
    /\ generated' = [n \in Edges |->
                        IF generated[n] = 0 THEN template ELSE generated[n]]
    /\ GoTo("stage", 1)
    /\ UNCHANGED <<template, staged, conf, servers, results, now,
                   cacheHistory, blame>>

\* conf_generator.py removes the files of the last size and writes new ones.
GenerateConfs ==
    /\ stage = "generate"
    /\ generated' = [n \in Edges |-> template]
    /\ GoTo("stage", 1)
    /\ UNCHANGED <<template, staged, conf, servers, results, now,
                   cacheHistory, blame>>

ChangeIps ==
    /\ stage = "stage"
    /\ staged' = generated
    /\ GoTo("cloud", 1)
    /\ UNCHANGED <<template, generated, conf, servers, results, now,
                   cacheHistory, blame>>

\* start_cloud: the cloud and the clock are stopped and the client results
\* deleted; if the command does not get through, the old ones stay ...
StopCloud ==
    /\ stage = "cloud"
    /\ \/ /\ NoFault /\ GoTo("services", 1)
          /\ cloudRun' = 0
          /\ files' = [files EXCEPT ![Cloud] = Nothing]
       \/ Fault(Cloud) /\ GoTo("kill", 1) /\ UNCHANGED <<cloudRun, files>>
    /\ UNCHANGED <<configs, proc, closing, kept, now, cacheHistory>>

\* ... and new ones are started, in the background, with the clock at 0.
StartCloud ==
    /\ stage = "services"
    /\ GoTo("kill", 1)
    /\ now' = 0
    /\ \/ NoFault /\ cloudRun' = Run
       \/ Fault(Cloud) /\ UNCHANGED cloudRun
    /\ UNCHANGED <<configs, proc, closing, results, cacheHistory>>

\* An edge of an earlier run, serving or on its way out, posts while there is no
\* cloud.
DieWithCloud(n) ==
    /\ cloudRun = 0
    /\ \/ /\ proc[n] # Nothing /\ proc' = [proc EXCEPT ![n] = Nothing]
          /\ UNCHANGED closing
       \/ /\ UNCHANGED proc
          /\ \E c \in closing[n] : closing' = [closing EXCEPT ![n] = @ \ {c}]
    /\ UNCHANGED <<where, configs, cloudRun, results, now, cacheHistory, blame>>
-----------------------------------------------------------------------------
\* SIGTERM to the process that listens on the edge's ports, if there is one.
Kill(n) ==
    /\ proc' = [proc EXCEPT ![n] = Nothing]
    /\ closing' = [closing EXCEPT ![n] =
                      IF proc[n] = Nothing THEN @
                      ELSE @ \cup {[process |-> proc[n], held |-> TRUE]}]

\* A mistake: the start script relies on the stop of the last run.
KillNoEdge ==
    /\ stage = "kill"
    /\ GoTo("copy", 1)
    /\ UNCHANGED <<configs, servers, results, now, cacheHistory, blame>>

\* start_edge: first every edge is killed ...
KillEdge ==
    /\ stage = "kill"
    /\ NextOf("kill", at, "copy")
    /\ \/ NoFault /\ Kill(at)
       \/ Fault(at) /\ UNCHANGED <<proc, closing>>
    /\ UNCHANGED <<configs, cloudRun, results, now, cacheHistory>>

\* ... then each gets its configuration ...
CopyConf ==
    /\ stage = "copy"
    /\ GoTo("start", at)
    /\ \/ NoFault /\ conf' = [conf EXCEPT ![at] = staged[at]]
       \/ Fault(at) /\ UNCHANGED conf
    /\ UNCHANGED <<template, generated, staged, servers, results, now,
                   cacheHistory>>

PortsFree(n) == proc[n] = Nothing /\ \A c \in closing[n] : ~c.held

\* No edge_go of an earlier run is on its way out on machine n: otherwise it
\* has outlasted the sleep.
Settled(n) == IF closing[n] = {} THEN NoFault ELSE Fault(n)

\* The new edge_go serves, or dies because its port is still taken or, with its
\* first post, because there is no cloud.  In any case start_edge_go.sh has
\* deleted the log of the one before it.
Launch(n) ==
    /\ Settled(n)
    /\ log' = [log EXCEPT ![n] = << >>]
    /\ \/ /\ PortsFree(n)
          /\ proc' = [proc EXCEPT ![n] = IF cloudRun = 0 THEN Nothing
                                          ELSE [run |-> Run, size |-> conf[n]]]
          /\ truth' = [truth EXCEPT ![n] = Empty]
       \/ ~PortsFree(n) /\ UNCHANGED <<proc, truth>>

\* ... and is started, edge by edge.
StartEdge ==
    /\ stage = "start"
    /\ NextOf("copy", at, "ready")
    /\ \/ Launch(at)
       \/ Fault(at) /\ UNCHANGED <<proc, cacheHistory>>
    /\ UNCHANGED <<configs, closing, cloudRun, results, now>>
-----------------------------------------------------------------------------
\* start_clients.
StartClients ==
    /\ stage = "ready"
    /\ \/ NoFault /\ GoTo("clients", 1)
       \/ Fault(Cloud) /\ GoTo("stop", 1)
    /\ UNCHANGED <<configs, servers, results, now, cacheHistory>>

\* A cache event on edge n changes its pinned bytes to b (the events that leave
\* them as they are add a line with the same size, and are left out).
CacheEvent(n, b) ==
    /\ stage = "clients"
    /\ proc[n] # Nothing /\ b # truth[n][MaxTime]
    /\ Len(log[n]) < MaxEvents[n]
    /\ truth' = [truth EXCEPT ![n] =
                    [t \in 0 .. MaxTime |-> IF t < now THEN @[t] ELSE b]]
    /\ log' = [log EXCEPT ![n] = Append(@, [time |-> now, size |-> b])]
    /\ UNCHANGED <<where, configs, servers, results, now, blame>>

AdvanceClock ==
    /\ stage = "clients" /\ cloudRun # 0
    /\ now < MaxTime
    /\ now' = now + 1
    /\ UNCHANGED <<where, configs, servers, results, cacheHistory, blame>>

\* The runner writes its files at its end; when it panics, or when it has no
\* cloud to talk to, it writes none.
EndClients ==
    /\ stage = "clients"
    /\ GoTo("stop", 1)
    /\ \/ /\ cloudRun # 0
          /\ files' = [files EXCEPT ![Cloud] = ThisRun]
          /\ NoFault
       \/ cloudRun = 0 /\ NoFault /\ UNCHANGED files
       \/ cloudRun # 0 /\ Fault(Cloud) /\ UNCHANGED files
    /\ UNCHANGED <<configs, servers, kept, now, cacheHistory>>
-----------------------------------------------------------------------------
StopEdge ==
    /\ stage = "stop"
    /\ NextOf("stop", at, "gather_cloud")
    /\ \/ NoFault /\ Kill(at)
       \/ Fault(at) /\ UNCHANGED <<proc, closing>>
    /\ UNCHANGED <<configs, cloudRun, results, now, cacheHistory>>

\* The RPCs of a stopped edge have drained, so its ports are free ...
Drain(n, c) ==
    /\ c \in closing[n] /\ c.held
    /\ closing' = [closing EXCEPT ![n] =
                      (@ \ {c}) \cup {[c EXCEPT !.held = FALSE]}]
    /\ UNCHANGED <<where, configs, proc, cloudRun, results, now, cacheHistory,
                   blame>>

\* ... and its downloads have ended: it writes its results and exits.  With
\* procrastination a request may not be due yet: the worker hands its token back
\* (metamanager.go:328) to the channel just closed, and the edge panics instead.
Close(n, c) ==
    /\ c \in closing[n] /\ ~c.held
    /\ closing' = [closing EXCEPT ![n] = @ \ {c}]
    /\ \/ NoFault /\ files' = [files EXCEPT ![n] = c.process]
       \/ Fault(n) /\ UNCHANGED files
    /\ UNCHANGED <<where, configs, proc, cloudRun, kept, now, cacheHistory>>

\* scp -r of the machine's result directory into the local one.
Fetch(m) ==
    \/ /\ kept' = IF files[m] = Nothing THEN kept
                  ELSE [kept EXCEPT ![size][m] = files[m]]
       /\ IF m = Cloud THEN NoFault ELSE Settled(m)
    \/ Fault(m) /\ UNCHANGED kept

GatherCloud ==
    /\ stage = "gather_cloud"
    /\ GoTo("gather", 1)
    /\ Fetch(Cloud)
    /\ UNCHANGED <<configs, servers, files, now, cacheHistory>>

GatherEdge ==
    /\ stage = "gather"
    /\ NextOf("gather", at, "gathered")
    /\ Fetch(at)
    /\ UNCHANGED <<configs, servers, files, now, cacheHistory>>

\* The next trial starts over with the cloud, the next size with the template.
NextRun ==
    /\ stage = "gathered"
    /\ at' = 1
    /\ \/ /\ trial < NumTrials
          /\ stage' = "cloud" /\ trial' = trial + 1 /\ UNCHANGED size
       \/ /\ trial = NumTrials /\ size < Len(CacheSizes)
          /\ stage' = "template" /\ trial' = 1 /\ size' = size + 1
    /\ trouble' = {}
    /\ UNCHANGED <<configs, servers, results, now, cacheHistory, faults>>

Next ==
    \/ UpdateEdgeConfig \/ GenerateConfs \/ ChangeIps
    \/ StopCloud \/ StartCloud \/ (\E n \in Edges : DieWithCloud(n))
    \/ KillEdge \/ CopyConf \/ StartEdge
    \/ StartClients \/ AdvanceClock \/ EndClients
    \/ \E n \in Edges : \E b \in 0 .. proc[n].size : CacheEvent(n, b)
    \/ StopEdge \/ GatherCloud \/ GatherEdge \/ NextRun
    \/ \E n \in Edges : \E c \in closing[n] : Drain(n, c) \/ Close(n, c)

Spec == Init /\ [][Next]_vars
-----------------------------------------------------------------------------
Runs == 0 .. Len(CacheSizes) * NumTrials
Output == [run : Runs, size : Nat]
Stages == {"template", "generate", "stage", "cloud", "services", "kill", "copy",
           "start", "ready", "clients", "stop", "gather_cloud", "gather", "gathered"}

\* Type correctness: every process and every file, local or remote, belongs to
\* a run of the campaign, and the scripts are at one of their commands.
TypeOK ==
    /\ stage \in Stages /\ at \in Edges
    /\ size \in DOMAIN CacheSizes /\ trial \in 1 .. NumTrials
    /\ template \in Nat /\ generated \in [Edges -> Nat]
    /\ staged \in [Edges -> Nat] /\ conf \in [Edges -> Nat]
    /\ proc \in [Edges -> Output]
    /\ closing \in [Edges -> SUBSET [process : Output, held : BOOLEAN]]
    /\ cloudRun \in Runs
    /\ files \in [Machines -> Output]
    /\ kept \in [DOMAIN CacheSizes -> [Machines -> Output]]
    /\ now \in 0 .. MaxTime
    /\ log \in [Edges -> Seq([time : 0 .. MaxTime, size : Nat])]
    /\ truth \in [Edges -> [0 .. MaxTime -> Nat]]
    /\ faults \in 0 .. MaxFaults /\ trouble \subseteq Machines

\* When the clients start, an edge that this run had no trouble with serves them
\* with this run's process at this run's cache size, whatever earlier runs left
\* behind: start_edge (run_eval.py:40) undoes it.  Unless there is no cloud: then
\* no such edge serves, as each died with its first post (monitoring.go:110).
FreshWhenServing ==
    stage = "clients" =>
        \A n \in Edges \ trouble : proc[n] = IF cloudRun = 0 THEN Nothing ELSE ThisRun

\* The directory of a cache size, once a run's results are gathered, holds for
\* every machine the files of that very run at that size, unless this run had
\* trouble with that machine (a failed command, clients that crashed, an edge
\* that panicked or was not yet gone when its files were copied).  So it is with
\* trouble on other machines, and in other runs, as long as there is a cloud, be
\* it an old one (run_eval.py:50, eval_wrapper.py:20).  Without one the edges of
\* the run die, and what is gathered under its label is what they had before.
LabelsAreTrue ==
    stage = "gathered" /\ cloudRun # 0 =>
        \A m \in Machines \ trouble : kept[size][m] = ThisRun

\* After a run, the plotted series of every edge it had no trouble with gives
\* its pinned bytes at the end of every second; and if there was trouble with
\* none of the plotted edges, the cumulative series gives their sum, although a
\* node's last second is listed twice (cache_size_plots.py:44-70, 103-113).
PlotsAreTheCache ==
    LET shown == Plotted(log)
        series == Series(log)
        Sum(t) == FoldFunctionOnSet(LAMBDA f, sum : f[t] + sum, 0, truth, shown)
    IN  stage = "gathered" /\ shown # {} =>
            \A t \in 0 .. SystemLast(log) :
                /\ \A n \in shown \ trouble : series[n][t + 1] = truth[n][t]
                /\ shown \cap trouble = {} => Cumulative(series)[t + 1] = Sum(t)
=============================================================================
