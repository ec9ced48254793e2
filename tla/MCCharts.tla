------------------------------ MODULE MCCharts ------------------------------
(* The overview page: three load averages in one chart, memory in the other, *)
(* and its buttons 1h, 24h and 7d, for an agent that pushes every 30 s.      *)
EXTENDS Charts

CONSTANTS load, memory, m1, m2, m3, hour, day, week

MCMetricsOf == [c \in Chart |-> IF c = load THEN {m1, m2, m3} ELSE {m1}]
MCHours == [r \in Range |->
               CASE r = hour -> 1 [] r = day -> 24 [] r = week -> 168]
=============================================================================
