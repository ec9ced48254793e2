------------------------------- MODULE Charts -------------------------------
(***************************************************************************)
(* The two charts of the overview page (static/js/overview.js) and the     *)
(* endpoint that feeds them (api/metric_points.go).  The script runs one   *)
(* callback at a time: what interleaves is the answers to its fetches with *)
(* each other, with the clicks on the range buttons and with the resizes.  *)
(* Every call of renderAllCharts is a round; nothing cancels the fetches   *)
(* of an earlier round.                                                    *)
(***************************************************************************)
EXTENDS Naturals

CONSTANTS
    Chart,      \* the charts of the page
    Metric,     \* the metrics they draw
    MetricsOf,  \* chart -> the metrics it fetches
    Range,      \* the range buttons
    Hours,      \* range -> its length in hours
    Default,    \* the range selected when the page loads
    PerHour,    \* points the agent records in an hour
    MaxPoints,  \* maxPointsPerResponse
    Ages,       \* the ages of the agent, in hours, at which the model looks
    MaxRounds   \* bound on the rounds

ASSUME MetricsOfAssumption == MetricsOf \in [Chart -> (SUBSET Metric) \ {{}}]
ASSUME HoursAssumption == Hours \in [Range -> Nat] /\ Default \in Range
ASSUME PointsAssumption == PerHour \in Nat /\ MaxPoints \in Nat
ASSUME BoundsAssumption == Ages \subseteq Nat /\ 0 \in Ages /\ MaxRounds \in Nat

VARIABLES
    age,            \* hours since the agent began to push
    currentRange,
    round,          \* renderAllCharts calls so far
    asked,          \* round -> currentRange when its fetches were sent
    waiting,        \* chart -> round -> fetches its Promise.all still waits for
    charts,         \* chart -> the round that drew the instance it refers to, 0: null
    alive,          \* chart -> rounds whose uPlot instance is in the container
    status,         \* chart -> "empty", "loading", "error"
    resize,         \* the debounce timer is armed
    last            \* history: chart -> the round that was over last

page == <<currentRange, round, asked, waiting, charts, alive, status, resize, last>>
vars == <<age, page>>

Round == 1..MaxRounds

TypeOK == /\ age \in Ages
          /\ currentRange \in Range
          /\ round \in 0..MaxRounds
          /\ asked \in [Round -> Range]
          /\ waiting \in [Chart -> [Round -> SUBSET Metric]]
          /\ charts \in [Chart -> 0..MaxRounds]
          /\ alive \in [Chart -> SUBSET Round]
          /\ status \in [Chart -> {"empty", "loading", "error"}]
          /\ resize \in BOOLEAN
          /\ last \in [Chart -> 0..MaxRounds]

Init == /\ age = 0
        /\ currentRange = Default
        /\ round = 0
        /\ asked = [k \in Round |-> Default]
        /\ waiting = [c \in Chart |-> [k \in Round |-> {}]]
        /\ charts = [c \in Chart |-> 0]
        /\ alive = [c \in Chart |-> {}]
        /\ status = [c \in Chart |-> "empty"]
        /\ resize = FALSE
        /\ last = [c \in Chart |-> 0]

TimePasses == /\ age' \in {a \in Ages : a > age}
              /\ UNCHANGED page

-----------------------------------------------------------------------------
(* The endpoint. *)

\* The hours of [now - range, now) in which the agent was there.
Covered(r) == IF age < Hours[r] THEN age ELSE Hours[r]

\* The samples of one metric in that window.
Points(r) == PerHour * Covered(r)

TooWide(r) == Points(r) > MaxPoints

-----------------------------------------------------------------------------
(* The script. *)

RenderAllCharts(r) ==
    /\ round < MaxRounds
    /\ round' = round + 1
    /\ asked' = [asked EXCEPT ![round + 1] = r]
    /\ waiting' = [c \in Chart |-> [waiting[c] EXCEPT ![round + 1] = MetricsOf[c]]]
    /\ status' = [c \in Chart |-> "loading"]
    /\ UNCHANGED <<age, charts, alive, last>>

\* init(), once the document is there.
Load == /\ round = 0
        /\ RenderAllCharts(currentRange)
        /\ UNCHANGED <<currentRange, resize>>

\* Mutant of Click: the charts are rendered before the range is assigned.
ClickRendersFirst(r) ==
    /\ round > 0
    /\ RenderAllCharts(currentRange)
    /\ currentRange' = r
    /\ UNCHANGED resize

\* Mutant of Click: the button has no data-range attribute.
ClickUndefined(r) ==
    /\ round > 0
    /\ RenderAllCharts("undefined")
    /\ currentRange' = "undefined"
    /\ UNCHANGED resize

Click(r) == /\ round > 0
            /\ RenderAllCharts(r)
            /\ currentRange' = r
            /\ UNCHANGED resize

Resize == /\ round > 0
          /\ resize' = TRUE
          /\ UNCHANGED <<age, currentRange, round, asked, waiting, charts, alive, status, last>>

ResizeTimeout == /\ resize
                 /\ resize' = FALSE
                 /\ RenderAllCharts(currentRange)
                 /\ UNCHANGED currentRange

\* Mutant of Draw: the chart is replaced without being destroyed.
DrawOver(c, k) ==
    /\ alive' = [alive EXCEPT ![c] = @ \cup {k}]
    /\ charts' = [charts EXCEPT ![c] = k]
    /\ status' = [status EXCEPT ![c] = "empty"]
    /\ last' = [last EXCEPT ![c] = k]

\* The previous chart is destroyed, the new one created.
Draw(c, k) ==
    /\ alive' = [alive EXCEPT ![c] = (@ \ {charts[c]}) \cup {k}]
    /\ charts' = [charts EXCEPT ![c] = k]
    /\ status' = [status EXCEPT ![c] = "empty"]
    /\ last' = [last EXCEPT ![c] = k]

\* A fetch is answered 200; the last one of its Promise.all resolves it.
Answer(c, k) ==
    \E m \in waiting[c][k] :
        /\ ~TooWide(asked[k])
        /\ waiting' = [waiting EXCEPT ![c][k] = @ \ {m}]
        /\ IF waiting[c][k] = {m} THEN Draw(c, k)
                                  ELSE UNCHANGED <<charts, alive, status, last>>
        /\ UNCHANGED <<age, currentRange, round, asked, resize>>

\* Mutant of Reject: there is no catch around the await.
RejectUncaught(c, k) ==
    /\ waiting[c][k] # {}
    /\ waiting' = [waiting EXCEPT ![c][k] = {}]
    /\ last' = [last EXCEPT ![c] = k]
    /\ UNCHANGED <<age, currentRange, round, asked, charts, alive, status, resize>>

\* The first fetch that fails rejects the whole Promise.all: the others are
\* ignored and the chart of an earlier round stays where it is.
Reject(c, k) ==
    /\ waiting[c][k] # {}
    /\ waiting' = [waiting EXCEPT ![c][k] = {}]
    /\ status' = [status EXCEPT ![c] = "error"]
    /\ last' = [last EXCEPT ![c] = k]
    /\ UNCHANGED <<age, currentRange, round, asked, charts, alive, resize>>

\* 400 "range too wide".
Refused(c, k) == TooWide(asked[k]) /\ Reject(c, k)

\* The network or the storage fails.
FetchFails(c, k) == Reject(c, k)

Complete(c, k) == Answer(c, k) \/ Refused(c, k) \/ FetchFails(c, k)

Next == \/ TimePasses \/ Load \/ Resize \/ ResizeTimeout
        \/ \E r \in Range : Click(r)
        \/ \E c \in Chart, k \in Round : Complete(c, k)

Spec == Init /\ [][Next]_vars

\* Every fetch ends, one way or the other.
FairSpec == Spec /\ \A c \in Chart, k \in Round : WF_vars(Complete(c, k))

-----------------------------------------------------------------------------
(* Properties *)

(***************************************************************************)
(* "destroy()+recreate ... pour éviter les leaks" (REFONTE.md:236): a      *)
(* container never holds two instances, nor one that the script has lost,  *)
(* although several rounds may complete in any order (overview.js:156-159).*)
(***************************************************************************)
OneInstance ==
    \A c \in Chart : alive[c] = IF charts[c] = 0 THEN {} ELSE {charts[c]}

(***************************************************************************)
(* A chart that says "loading..." ends saying so, whatever fails and       *)
(* however many rounds are under way (overview.js:144-165).                *)
(***************************************************************************)
LoadingEnds == \A c \in Chart : status[c] = "loading" ~> status[c] # "loading"

(***************************************************************************)
(* Earlier rounds that end before the last one leave nothing behind: when  *)
(* nothing is under way and the last round was over last, a chart shows    *)
(* the selected range with no message, or says that it failed.             *)
(***************************************************************************)
AtRest(c) == round > 0 /\ \A k \in Round : waiting[c][k] = {}

LastRoundRules ==
    \A c \in Chart : AtRest(c) /\ last[c] = round =>
        \/ status[c] = "error"
        \/ status[c] = "empty" /\ charts[c] = round /\ asked[round] = currentRange

(***************************************************************************)
(* overview.js:34-37: the x axis "Adapts format based on currentRange", as *)
(* if a chart at rest always showed the selected range.                    *)
(***************************************************************************)
ShowsSelection ==
    \A c \in Chart : AtRest(c) /\ status[c] = "empty" => asked[charts[c]] = currentRange

(***************************************************************************)
(* REFONTE.md:236: "Range selector [1h] [24h] [7d]": the page offers only  *)
(* ranges that the endpoint serves.                                        *)
(***************************************************************************)
ButtonsServed == [][\A c \in Chart, k \in Round : ~Refused(c, k)]_vars
=============================================================================
