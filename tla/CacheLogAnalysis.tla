--------------------------- MODULE CacheLogAnalysis ---------------------------
(***************************************************************************)
(* The post-processing of the edges' cache logs                            *)
(* (post_processing_scripts/cache_size_plots.py, edge_logs_parser.py).     *)
(*                                                                         *)
(* A log is the sequence of the cache_event lines of one edge, of which    *)
(* the plots use two fields: the second of the event and the pinned bytes  *)
(* after it.  Every line is parsed; the scaling of the sizes by 10e6 and   *)
(* the drawing are left out.  A Python list indexed from 0 by the second   *)
(* is a sequence whose element t + 1 stands for second t.                  *)
(***************************************************************************)
EXTENDS Naturals, Sequences, SequencesExt, FiniteSetsExt, Functions

\* The nodes whose log has at least one event: the others are not plotted.
Plotted(logs) == {n \in DOMAIN logs : logs[n] # << >>}

Times(log) == {log[i].time : i \in DOMAIN log}

\* A mistake: the earlier line of a second is kept.
FirstOfSecond(log) ==
    [t \in Times(log) |->
        log[Min({i \in DOMAIN log : log[i].time = t})].size]

\* time_size_map: the later line of a second overwrites the earlier one.
TimeSizeMap(log) ==
    [t \in Times(log) |->
        log[Max({i \in DOMAIN log : log[i].time = t})].size]

\* max_time starts at 0, like min_time, which therefore stays 0.
LastSecond(log) == Max({0} \cup Times(log))

SystemLast(logs) == Max({0} \cup {LastSecond(logs[n]) : n \in Plotted(logs)})

\* _get_times_sizes: a second without an event repeats the size before it,
\* and the seconds before the first event are 0.
TimesSizes(log) ==
    LET map == TimeSizeMap(log)
    IN  [i \in 1 .. LastSecond(log) + 1 |->
            LET before == {t \in DOMAIN map : t < i}
            IN  IF before = {} THEN 0 ELSE map[Max(before)]]

\* _fix_system_end_time: the range starts at the node's own last second,
\* which is therefore listed twice.
FixEndTime(sizes, systemLast) ==
    sizes \o [i \in 1 .. systemLast + 2 - Len(sizes) |-> Last(sizes)]

\* _parse_events: one series per plotted node, all of one length.
Series(logs) ==
    [n \in Plotted(logs) |->
        FixEndTime(TimesSizes(logs[n]), SystemLast(logs))]

\* cumulative_plot: the list is as long as the first node's series, and every
\* series is added to it index by index (a longer one raises IndexError).
Cumulative(series) ==
    LET first == CHOOSE n \in DOMAIN series : TRUE
        Total(i) == FoldFunctionOnSet(LAMBDA s, sum : s[i] + sum, 0, series,
                                      DOMAIN series)
    IN  [i \in 1 .. Len(series[first]) |-> Total(i)]
=============================================================================
