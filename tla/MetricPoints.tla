---------------------------- MODULE MetricPoints ----------------------------
(***************************************************************************)
(* The time series of the dashboard: from the parameters of a request to   *)
(* metric-points (internal/dashboard/api/metric_points.go), through the    *)
(* query (GetMetricPoints, storage/queries.go) and its conversion to       *)
(* milliseconds, to the columns that overview.js gives to uPlot.           *)
(*                                                                         *)
(* The fetches of one chart are requests of their own: each reads its own  *)
(* clock, and pushes are saved between their queries.  An int64 goes to    *)
(* Half - 1, a millisecond is Milli nanoseconds, the unit of time here.    *)
(***************************************************************************)
EXTENDS Integers, SequencesExt

CONSTANTS
    Metric,     \* the metrics of one chart
    Carries,    \* the sets of metrics that a push may carry
    Query,      \* what the parameters start, end and range may hold
    Absent,     \* a parameter that is not given
    Malformed,  \* a parameter that does not parse
    Default,    \* defaultRange
    Half,       \* half of what an int64 can hold: 2 ^ 63
    Milli,      \* nanoseconds in a millisecond
    MaxPoints,  \* maxPointsPerResponse
    Skew,       \* timestampSkew: how far the agent's clock may be off
    Delay,      \* longest way from a module's Collect to receivedAt, clocks aside
    Drift,      \* a sample's time less the push's receivedAt
    MaxNow,     \* bound on the clock
    MaxPushes   \* bound on the pushes

Int64 == -Half..(Half - 1)

\* start and end are milliseconds, range is a duration.
ASSUME QueryAssumption ==
    Query \subseteq [start : Int64 \cup {Absent, Malformed},
                     end   : Int64 \cup {Absent, Malformed},
                     range : Int64 \cup {Absent, Malformed}]
ASSUME DefaultAssumption == Default \in Int64 /\ Default > 0
ASSUME WidthAssumption == Half \in Nat \ {0} /\ Milli \in Nat \ {0}
ASSUME NowAssumption ==
    MaxNow \in Nat /\ Skew + Delay <= MaxNow /\ MaxNow + Skew < Half
\* A sample bears the time of its Collect, which nobody checks; the server compares
\* the push's own stamp, made by the same clock after Collect, with its clock before
\* it reads receivedAt.
ASSUME DriftAssumption == Drift \subseteq -(Skew + Delay)..Skew
ASSUME CarriesAssumption == Carries \subseteq SUBSET Metric
ASSUME BoundsAssumption == {Skew, Delay, MaxPoints, MaxPushes} \subseteq Nat

VARIABLES
    now,        \* the server's clock
    pushes,     \* the pushes saved, with the agent's time of their metrics
    query,      \* the parameters of the requests under way
    fetch       \* metric -> its request

vars == <<now, pushes, query, fetch>>

-----------------------------------------------------------------------------
(* Conversions. *)

\* What is left of a number in an int64.
Wrap(x) == ((x + Half) % (2 * Half)) - Half

\* time.UnixMilli, Time.UnixMilli and Time.UnixNano.
FromMilli(ms) == ms * Milli
ToMilli(t) == t \div Milli
UnixNano(t) == Wrap(t)

\* Go's division truncates.
TimestampNsToMillis(ns) == IF ns >= 0 THEN ns \div Milli ELSE -((-ns) \div Milli)

-----------------------------------------------------------------------------
(* The endpoint. *)

Given(q) == {p \in DOMAIN q : q[p] # Absent}

\* parseTimeRange answers an error.
Refused(q) ==
    \/ {"start", "end"} \subseteq Given(q) /\ \/ Malformed \in {q.start, q.end}
                                              \/ q.start >= q.end
    \/ Cardinality({"start", "end"} \cap Given(q)) = 1
    \/ {"start", "end"} \cap Given(q) = {} /\ q.range # Absent /\ \/ q.range = Malformed
                                                                  \/ q.range <= 0

\* Mutant of Window: a range that is given is looked at first.
WindowRangeFirst(q, t) ==
    IF q.range \in Int64 /\ q.range > 0 THEN [start |-> t - q.range, end |-> t]
    ELSE IF q.start # Absent THEN [start |-> FromMilli(q.start), end |-> FromMilli(q.end)]
    ELSE [start |-> t - Default, end |-> t]

\* Its window otherwise, when the clock says t.
Window(q, t) ==
    IF q.start # Absent THEN [start |-> FromMilli(q.start), end |-> FromMilli(q.end)]
    ELSE [start |-> t - (IF q.range = Absent THEN Default ELSE q.range), end |-> t]

\* Mutant of InWindow: the interval is open.
InWindowOpen(ts, w) == UnixNano(w.start) < ts /\ ts < UnixNano(w.end)

\* Mutant of InWindow: the interval is closed.
InWindowClosed(ts, w) == UnixNano(w.start) <= ts /\ ts <= UnixNano(w.end)

\* The WHERE clause.
InWindow(ts, w) == UnixNano(w.start) <= ts /\ ts < UnixNano(w.end)

Found(n, w) == {i \in DOMAIN pushes : n \in pushes[i].names /\ InWindow(pushes[i].ts, w)}

\* Mutant of GetMetricPoints: the latest first, as the index has them.
GetMetricPointsDesc(n, w) ==
    {s \in SetToSeqs(Found(n, w)) :
        \A k \in 1..(Len(s) - 1) : pushes[s[k]].ts >= pushes[s[k + 1]].ts}

\* The answers the query may give: those of equal time come in any order.
GetMetricPoints(n, w) ==
    {s \in SetToSeqs(Found(n, w)) :
        \A k \in 1..(Len(s) - 1) : pushes[s[k]].ts <= pushes[s[k + 1]].ts}

\* The milliseconds of a point in the answer.
T(i) == TimestampNsToMillis(pushes[i].ts)

-----------------------------------------------------------------------------
\* since and asked are history: the pushes saved when the request was sent, and the
\* clock when a relative one was served.
NoWindow == [start |-> 0, end |-> 0]
NoFetch == [stage |-> "idle", window |-> NoWindow, points |-> <<>>,
            since |-> 0, asked |-> 0]
NoQuery == [start |-> Absent, end |-> Absent, range |-> Absent]

\* No time is before the epoch.
Init == /\ now = Skew + Delay
        /\ pushes = <<>>
        /\ query = NoQuery
        /\ fetch = [n \in Metric |-> NoFetch]

\* All requests are over: what was answered changes no more.
Over == \A n \in Metric : fetch[n].stage \in {"200", "400", "404", "500"}

Tick == /\ now < MaxNow /\ ~Over
        /\ now' = now + 1
        /\ UNCHANGED <<pushes, query, fetch>>

\* A push is received at `at` and saved; ts is when its metrics were collected.
Save(names, ts) ==
    /\ Len(pushes) < MaxPushes /\ ~Over
    /\ pushes' = Append(pushes, [names |-> names, ts |-> ts, at |-> now])
    /\ UNCHANGED <<now, query, fetch>>

\* The page sends the fetches of a chart, or a client of the API its request.
Ask(q) ==
    /\ \A n \in Metric : fetch[n].stage = "idle"
    /\ query' = q
    /\ fetch' = [n \in Metric |-> [NoFetch EXCEPT !.stage = "parse", !.since = Len(pushes)]]
    /\ UNCHANGED <<now, pushes>>

Set(n, f) == fetch' = [fetch EXCEPT ![n] = f] /\ UNCHANGED <<now, pushes, query>>

\* An error answer: there is nothing to draw.
Fails(n, stage) == Set(n, [NoFetch EXCEPT !.stage = stage])

ParseTimeRange(n) ==
    /\ fetch[n].stage = "parse"
    /\ IF Refused(query)
       THEN Fails(n, "400")
       ELSE Set(n, [fetch[n] EXCEPT !.stage = "read", !.window = Window(query, now),
                               !.asked = IF query.start = Absent THEN now ELSE @])

\* Mutant of Read: a point too many is let through.
ReadOneMore(n) ==
    /\ fetch[n].stage = "read"
    /\ IF pushes = <<>> THEN Fails(n, "404")
       ELSE \E s \in GetMetricPoints(n, fetch[n].window) :
               IF Len(s) > MaxPoints + 1 THEN Fails(n, "400")
               ELSE Set(n, [fetch[n] EXCEPT !.stage = "200", !.points = s])

\* AgentExists, then the points: no agent without a push.
Read(n) ==
    /\ fetch[n].stage = "read"
    /\ IF pushes = <<>> THEN Fails(n, "404")
       ELSE \E s \in GetMetricPoints(n, fetch[n].window) :
               IF Len(s) > MaxPoints THEN Fails(n, "400")
               ELSE Set(n, [fetch[n] EXCEPT !.stage = "200", !.points = s])

\* One of the queries fails.
ReadFails(n) == fetch[n].stage = "read" /\ Fails(n, "500")

Leave == /\ Over
         /\ query' = NoQuery
         /\ fetch' = [n \in Metric |-> NoFetch]
         /\ UNCHANGED <<now, pushes>>

Next == \/ Tick
        \/ \E names \in Carries, d \in Drift : Save(names, now + d)
        \/ \E q \in Query : Ask(q)
        \/ \E n \in Metric : ParseTimeRange(n) \/ Read(n) \/ ReadFails(n)
        \/ Leave

Spec == Init /\ [][Next]_vars

-----------------------------------------------------------------------------
(* pointsToUPlotData, once every fetch of the chart is answered 200. *)

Drawn == \A n \in Metric : fetch[n].stage = "200"

\* The milliseconds of all points, sorted.
Millis == UNION {{T(i) : i \in ToSet(fetch[n].points)} : n \in Metric}

Ascending(xs) == \A k \in 1..(Len(xs) - 1) : xs[k] < xs[k + 1]

Timestamps == CHOOSE xs \in SetToSeqs(Millis) : Ascending(xs)

\* A column without a point of the series; no push has this number.
Null == 0

\* Mutant of Series: the points are put in the columns in their order.
SeriesByPosition(n, timestamps) ==
    [k \in DOMAIN timestamps |->
        IF k \in DOMAIN fetch[n].points THEN fetch[n].points[k] ELSE Null]

\* A Map keeps the last of several values for one key.
Series(n, timestamps) ==
    LET pts == fetch[n].points
        at(ms) == {k \in DOMAIN pts : T(pts[k]) = ms}
    IN  [k \in DOMAIN timestamps |->
            IF at(timestamps[k]) = {} THEN Null ELSE pts[Max(at(timestamps[k]))]]

-----------------------------------------------------------------------------
(* Properties *)

Stage == {"idle", "parse", "read", "200", "400", "404", "500"}

TypeOK ==
    /\ now \in 0..MaxNow
    /\ pushes \in Seq([names : Carries, ts : 0..(MaxNow + Skew), at : 0..MaxNow])
    /\ query \in Query \cup {NoQuery}
    /\ \A n \in Metric : /\ fetch[n].stage \in Stage
                         /\ ToSet(fetch[n].points) \subseteq DOMAIN pushes
                         /\ Len(fetch[n].points) <= MaxPoints
                         /\ fetch[n].since \in 0..Len(pushes)

(***************************************************************************)
(* An answer tells the truth about the window it announces, in             *)
(* milliseconds: the window is the one asked for, every point lies in it,  *)
(* and no sample that was there at the request is missing from it          *)
(* (metric_points.go:16-23, queries.go:206-213).  The window is computed   *)
(* in unbounded times and compared in wrapped nanoseconds, and both are    *)
(* rounded for the answer, each in its own way.                            *)
(***************************************************************************)
Announced(n) == [start |-> ToMilli(fetch[n].window.start), end |-> ToMilli(fetch[n].window.end)]

Honoured(n) ==
    /\ query.start # Absent => Announced(n) = [start |-> query.start, end |-> query.end]
    /\ \A i \in ToSet(fetch[n].points) :
          Announced(n).start <= T(i) /\ T(i) <= Announced(n).end
    /\ \A i \in 1..fetch[n].since :
          n \in pushes[i].names /\ Announced(n).start < T(i) /\ T(i) < Announced(n).end
              => i \in ToSet(fetch[n].points)

Answered(n) == fetch[n].stage = "200"

\* The bounds are times that int64 nanoseconds can hold: years 1678 to 2262.  A
\* bound beyond them wraps, and the answer is empty whatever it announces.
Representable(w) == {w.start, w.end} \subseteq Int64

WindowHonoured ==
    \A n \in Metric : Answered(n) /\ Representable(fetch[n].window) => Honoured(n)

(***************************************************************************)
(* Windows that join are answered without a sample twice or missing, so a  *)
(* client may read a long time in pieces (metric_points.go:36, "start, end *)
(* override range"; queries.go:206-207, half-open).                        *)
(***************************************************************************)
Bounds == {q.start : q \in Query} \cup {q.end : q \in Query}
Bounded == {x \in Bounds : x \in Int64 /\ FromMilli(x) \in Int64}
Between(n, a, b) == Found(n, [start |-> FromMilli(a), end |-> FromMilli(b)])

WindowsJoin ==
    \A n \in Metric : \A a, b, c \in Bounded :
        a < b /\ b < c =>
            /\ Between(n, a, b) \cap Between(n, b, c) = {}
            /\ Between(n, a, b) \cup Between(n, b, c) = Between(n, a, c)

(***************************************************************************)
(* The window of a chart ends at the server's clock, and the agent's may   *)
(* be ahead of it: its newest samples are not drawn yet.  They are kept    *)
(* back by no more than the skew, and the oldest leave the window early by *)
(* no more than the skew and the delay from Collect to receipt: a relative *)
(* request answers every sample received more than the skew before it and  *)
(* no more than its range less the two (metric_points.go:139-158,          *)
(* pushes.go:89, server.go:160).                                           *)
(***************************************************************************)
RangeOf(q) == IF q.range = Absent THEN Default ELSE q.range

KeptBackBySkewOnly ==
    \A n \in Metric : Answered(n) /\ query.start = Absent =>
        \A i \in 1..fetch[n].since :
            LET age == fetch[n].asked - pushes[i].at IN
            n \in pushes[i].names /\ age > Skew /\ age <= RangeOf(query) - Skew - Delay
                => i \in ToSet(fetch[n].points)

(***************************************************************************)
(* A chart draws what its fetches answered, though each has its own window *)
(* and saw other pushes: the columns go forward in time, every value       *)
(* stands at its own millisecond, and every point is drawn unless another  *)
(* of its series shares its millisecond (overview.js:66-83).               *)
(***************************************************************************)
ValuesAtTheirTime(n, xs, ys) ==
    \A k \in DOMAIN xs :
        ys[k] # Null => ys[k] \in ToSet(fetch[n].points) /\ T(ys[k]) = xs[k]

EveryPointHasAColumn(n, xs, ys) ==
    \A i \in ToSet(fetch[n].points) :
        \E k \in DOMAIN xs : ys[k] # Null /\ T(ys[k]) = T(i)

ChartIsFaithful ==
    Drawn => LET xs == Timestamps IN
             /\ Ascending(xs)
             /\ \A n \in Metric : LET ys == Series(n, xs) IN
                   ValuesAtTheirTime(n, xs, ys) /\ EveryPointHasAColumn(n, xs, ys)

(***************************************************************************)
(* A curve has the newest of the samples that share a millisecond: the     *)
(* order of the query reaches the chart (queries.go:209, "Results are      *)
(* ordered by timestamp ascending").                                       *)
(***************************************************************************)
NewestOfMillisecond ==
    Drawn => LET xs == Timestamps IN
             \A n \in Metric : LET ys == Series(n, xs) IN
                \A k \in DOMAIN xs : \A i \in ToSet(fetch[n].points) :
                    T(i) = xs[k] => pushes[ys[k]].ts >= pushes[i].ts
=============================================================================
