--------------------------- MODULE MCMetricPoints ---------------------------
(* A chart of two curves.  A time has 5 bits, -16 to 15 nanoseconds; with 2 *)
(* nanoseconds to a millisecond, -8 to 7 ms can be held.                    *)
EXTENDS MetricPoints

CONSTANTS load1, load5

MCCarries == {{load1, load5}, {load5}}

Params(s, e, r) == [start |-> s, end |-> e, range |-> r]

\* The buttons of the page, and whatever else a client may write.
Relative == {Params(Absent, Absent, r) : r \in {Absent, 15}}

\* The end of the second is a time that only milliseconds can hold: it wraps.
Absolute == {Params(-7, 2, 3), Params(1, 8, Absent)}

Broken == {Params(1, Absent, 3), Params(Absent, Absent, Malformed)}

MCQuery == Relative \cup Absolute \cup Broken

\* A clock that is behind and a delay, a clock that is ahead and none.
MCDrift == {-(Skew + Delay), Skew}
=============================================================================
