------------------------- MODULE MetricPointsProofs -------------------------
(***************************************************************************)
(* Proofs about MetricPoints, for any int64, millisecond, clock skew,      *)
(* limit, parameters and number of pushes.                                 *)
(*                                                                         *)
(* StoreInv says that a sample is no later than the skew after its push    *)
(* was received, nor earlier than skew and delay before; RequestInv says   *)
(* that a request is served with the window of its parameters and answered *)
(* with rows of it. The rest is arithmetic: what Wrap keeps, that rounding *)
(* to milliseconds grows with the time, and that a finite set of integers  *)
(* can be sorted (Rank), by which the columns of a chart are what they are *)
(* meant to be.                                                            *)
(***************************************************************************)
EXTENDS MetricPoints, FiniteSetTheorems, TLAPS

LEMMA WrapKeeps ==
  ASSUME NEW x \in Int64
  PROVE  Wrap(x) = x
<1>1. Half \in Int /\ Half > 0 /\ x \in Int /\ -Half <= x /\ x < Half
  BY WidthAssumption DEF Int64
<1>2. (x + Half) % (2 * Half) = x + Half
  BY <1>1
<1> QED BY <1>1, <1>2 DEF Wrap

LEMMA Product ==
  ASSUME NEW a \in Int, NEW b \in Int, a < b
  PROVE  a * Milli + Milli <= b * Milli
<1>1. Milli \in Int /\ Milli > 0
  BY WidthAssumption
<1>2. (b - a) * Milli >= Milli
  BY <1>1
<1>3. (b - a) * Milli = b * Milli - a * Milli
  BY <1>1
<1>4. a * Milli \in Int /\ b * Milli \in Int
  BY <1>1
<1> QED BY <1>1, <1>2, <1>3, <1>4

LEMMA Quotient ==
  ASSUME NEW a \in Int
  PROVE  /\ a \div Milli \in Int
         /\ (a \div Milli) * Milli <= a
         /\ a < (a \div Milli) * Milli + Milli
<1>1. Milli \in Int /\ Milli > 0
  BY WidthAssumption
<1> QED BY <1>1

LEMMA QuotientUnique ==
  ASSUME NEW a \in Int, NEW q \in Int, q * Milli <= a, a < q * Milli + Milli
  PROVE  a \div Milli = q
<1>1. Milli \in Int /\ Milli > 0 /\ q * Milli \in Int /\ (a \div Milli) * Milli \in Int
  BY WidthAssumption, Quotient
<1>2. ~(q < a \div Milli)
  BY <1>1, Product, Quotient
<1>3. ~(a \div Milli < q)
  BY <1>1, Product, Quotient
<1> QED BY <1>1, <1>2, <1>3, Quotient

LEMMA QuotientGrows ==
  ASSUME NEW a \in Int, NEW b \in Int, a <= b
  PROVE  a \div Milli <= b \div Milli
<1>1. Milli \in Int /\ Milli > 0 /\ (b \div Milli) * Milli \in Int /\ (a \div Milli) * Milli \in Int
  BY WidthAssumption, Quotient
<1>2. ~(b \div Milli < a \div Milli)
  BY <1>1, Product, Quotient
<1> QED BY <1>2, Quotient

-----------------------------------------------------------------------------
(* The pushes.                                                             *)

Row == [names : Carries, ts : 0..(MaxNow + Skew), at : 0..MaxNow]

\* What was checked when a push was received.
InTime(row) == row.at - Skew - Delay <= row.ts /\ row.ts <= row.at + Skew

StoreInv == /\ now \in (Skew + Delay)..MaxNow
            /\ pushes \in Seq(Row)
            /\ \A i \in DOMAIN pushes : InTime(pushes[i]) /\ pushes[i].at <= now

LEMMA Numbers == /\ Skew \in Nat /\ MaxNow \in Nat /\ MaxPoints \in Nat /\ Half \in Nat
                 /\ Delay \in Nat /\ Skew + Delay <= MaxNow /\ MaxNow + Skew < Half
                 /\ Default \in Int64
BY BoundsAssumption, NowAssumption, WidthAssumption, DefaultAssumption

LEMMA StoreInit == Init => StoreInv
BY Numbers DEF Init, StoreInv

LEMMA StoreStep == StoreInv /\ [Next]_vars => StoreInv'
<1> SUFFICES ASSUME StoreInv, [Next]_vars PROVE StoreInv'
  OBVIOUS
<1>1. CASE pushes' = pushes /\ now' = now
  BY <1>1 DEF StoreInv
<1>2. CASE Tick
  <2>1. now' = now + 1 /\ now < MaxNow /\ pushes' = pushes
    BY <1>2 DEF Tick
  <2>2. \A i \in DOMAIN pushes : pushes[i].at \in Int
    <3>1. \A i \in DOMAIN pushes : pushes[i] \in Row
      BY DEF StoreInv
    <3> QED BY <3>1, Numbers DEF Row
  <2>3. \A i \in DOMAIN pushes : pushes[i].at <= now'
    BY <2>1, <2>2, Numbers DEF StoreInv
  <2> QED BY <2>1, <2>3, Numbers DEF StoreInv
<1>3. ASSUME NEW names \in Carries, NEW d \in Drift, Save(names, now + d) PROVE StoreInv'
  <2> DEFINE row == [names |-> names, ts |-> now + d, at |-> now]
  <2>1. pushes' = Append(pushes, row) /\ now' = now
    BY <1>3 DEF Save
  <2>2. d \in -(Skew + Delay)..Skew /\ now \in (Skew + Delay)..MaxNow
    BY DriftAssumption DEF StoreInv
  <2>3. row \in Row /\ InTime(row) /\ row.at <= now
    BY <2>2, Numbers DEF Row, InTime
  <2> HIDE DEF row
  <2>4. /\ pushes' \in Seq(Row)
        /\ \A i \in DOMAIN pushes' : pushes'[i] = row \/ (i \in DOMAIN pushes /\ pushes'[i] = pushes[i])
    BY <2>1, <2>3 DEF StoreInv
  <2> QED BY <2>1, <2>3, <2>4 DEF StoreInv
<1> QED BY <1>1, <1>2, <1>3
        DEF Next, vars, Ask, ParseTimeRange, Read, ReadFails, Leave, Fails, Set

LEMMA PushesGrow ==
  ASSUME StoreInv, [Next]_vars
  PROVE  \A i \in DOMAIN pushes : i \in DOMAIN pushes' /\ pushes'[i] = pushes[i]
<1>1. CASE pushes' = pushes
  BY <1>1
<1>2. ASSUME NEW names \in Carries, NEW d \in Drift, Save(names, now + d)
      PROVE  \A i \in DOMAIN pushes : i \in DOMAIN pushes' /\ pushes'[i] = pushes[i]
  BY <1>2 DEF Save, StoreInv
<1> QED BY <1>1, <1>2
        DEF Next, vars, Tick, Ask, ParseTimeRange, Read, ReadFails, Leave, Fails, Set

LEMMA RowType ==
  ASSUME StoreInv, NEW i \in DOMAIN pushes
  PROVE  /\ pushes[i].ts \in 0..(MaxNow + Skew) /\ pushes[i].ts \in Int64
         /\ pushes[i].at \in 0..MaxNow /\ InTime(pushes[i])
<1>1. pushes[i] \in Row /\ InTime(pushes[i])
  BY DEF StoreInv
<1>2. pushes[i].ts \in 0..(MaxNow + Skew) /\ pushes[i].at \in 0..MaxNow
  BY <1>1 DEF Row
<1> QED BY <1>1, <1>2, Numbers DEF Int64

-----------------------------------------------------------------------------
(* The answer of the query: every row of the window, once, in order.       *)

Ordered(s) == \A k \in 1..(Len(s) - 1) : pushes[s[k]].ts <= pushes[s[k + 1]].ts

LEMMA AnswerIsAllFound ==
  ASSUME StoreInv, NEW n, NEW w, NEW s \in GetMetricPoints(n, w)
  PROVE  /\ s \in Seq(Nat) /\ ToSet(s) = Found(n, w) /\ Ordered(s)
         /\ Found(n, w) \subseteq DOMAIN pushes
<1> DEFINE F == Found(n, w)
           D == 1..Cardinality(F)
<1>1. F \subseteq DOMAIN pushes /\ DOMAIN pushes \subseteq Nat
  BY DEF Found, StoreInv
<1>2. IsFiniteSet(F) /\ Cardinality(F) \in Nat
  <2>1. DOMAIN pushes = 1..Len(pushes) /\ Len(pushes) \in Int
    BY DEF StoreInv
  <2>2. IsFiniteSet(DOMAIN pushes)
    BY <2>1, FS_Interval
  <2> HIDE DEF F
  <2>3. IsFiniteSet(F)
    BY <1>1, <2>2, FS_Subset
  <2> QED BY <2>3, FS_CardinalityType
<1>3. s \in [D -> F] /\ \A i, j \in D : i # j => s[i] # s[j]
  BY DEF GetMetricPoints, SetToSeqs
<1>4. Ordered(s)
  BY DEF GetMetricPoints, Ordered
<1> HIDE DEF F
<1>5. s \in Injection(D, F)
  BY <1>3 DEF Injection, IsInjective
<1>6. Cardinality(D) = Cardinality(F)
  BY <1>2, FS_Interval
<1>7. s \in Surjection(D, F)
  <2> HIDE DEF D
  <2> QED BY <1>2, <1>5, <1>6, FS_Injection
<1>8. ToSet(s) = F
  BY <1>3, <1>7 DEF ToSet, Surjection
<1>9. s \in Seq(Nat)
  BY <1>1, <1>2, <1>3
<1> QED BY <1>1, <1>4, <1>8, <1>9 DEF F

-----------------------------------------------------------------------------
(* Windows.                                                                *)

LEMMA BetweenIs ==
  ASSUME NEW a \in Int64, NEW b \in Int64, FromMilli(a) \in Int64, FromMilli(b) \in Int64, NEW n
  PROVE  Between(n, a, b) =
           {i \in DOMAIN pushes : n \in pushes[i].names /\ a * Milli <= pushes[i].ts
                                                        /\ pushes[i].ts < b * Milli}
<1>1. UnixNano(FromMilli(a)) = a * Milli /\ UnixNano(FromMilli(b)) = b * Milli
  BY WrapKeeps DEF UnixNano, FromMilli
<1> QED BY <1>1 DEF Between, Found, InWindow

\* Windows that join are answered without a sample twice or missing
\* (metric_points.go:36, queries.go:206-213).
THEOREM JoinedWindowsMeet == Spec => []WindowsJoin
<1>1. ASSUME StoreInv, NEW n \in Metric, NEW a \in Bounded, NEW b \in Bounded, NEW c \in Bounded,
             a < b, b < c
      PROVE  /\ Between(n, a, b) \cap Between(n, b, c) = {}
             /\ Between(n, a, b) \cup Between(n, b, c) = Between(n, a, c)
  <2>1. /\ a \in Int64 /\ b \in Int64 /\ c \in Int64
        /\ FromMilli(a) \in Int64 /\ FromMilli(b) \in Int64 /\ FromMilli(c) \in Int64
    BY DEF Bounded
  <2>2. /\ a \in Int /\ b \in Int /\ c \in Int
        /\ a * Milli \in Int /\ b * Milli \in Int /\ c * Milli \in Int
    BY <2>1, WidthAssumption DEF Int64
  <2>3. a * Milli <= b * Milli /\ b * Milli <= c * Milli
    BY <1>1, <2>2, Product, WidthAssumption
  <2>4. \A i \in DOMAIN pushes : pushes[i].ts \in Int
    BY <1>1, RowType, Numbers
  <2>5. /\ \A i \in DOMAIN pushes : ~(pushes[i].ts < b * Milli /\ b * Milli <= pushes[i].ts)
        /\ \A i \in DOMAIN pushes :
              a * Milli <= pushes[i].ts /\ pushes[i].ts < c * Milli <=>
                 \/ a * Milli <= pushes[i].ts /\ pushes[i].ts < b * Milli
                 \/ b * Milli <= pushes[i].ts /\ pushes[i].ts < c * Milli
    BY <2>2, <2>3, <2>4
  <2>6. /\ Between(n, a, b) = {i \in DOMAIN pushes : n \in pushes[i].names /\ a * Milli <= pushes[i].ts
                                                        /\ pushes[i].ts < b * Milli}
        /\ Between(n, b, c) = {i \in DOMAIN pushes : n \in pushes[i].names /\ b * Milli <= pushes[i].ts
                                                        /\ pushes[i].ts < c * Milli}
        /\ Between(n, a, c) = {i \in DOMAIN pushes : n \in pushes[i].names /\ a * Milli <= pushes[i].ts
                                                        /\ pushes[i].ts < c * Milli}
    BY <2>1, BetweenIs
  <2> QED BY <2>5, <2>6, Zenon
<1>2. StoreInv => WindowsJoin
  BY <1>1 DEF WindowsJoin
<1> QED BY <1>2, StoreInit, StoreStep, PTL DEF Spec

\* What parseTimeRange lets through.
LEMMA Accepted ==
  ASSUME NEW q \in Query, ~Refused(q)
  PROVE  /\ q.start # Absent => q.start \in Int64 /\ q.end \in Int64 /\ q.start < q.end
         /\ q.start = Absent => RangeOf(q) \in Int64 /\ RangeOf(q) > 0
<1>1. q \in [start : Int64 \cup {Absent, Malformed}, end : Int64 \cup {Absent, Malformed},
             range : Int64 \cup {Absent, Malformed}]
  BY QueryAssumption
<1>2. \A p \in {"start", "end", "range"} : p \in Given(q) <=> q[p] # Absent
  BY <1>1 DEF Given
<1>3. ~(Cardinality({"start", "end"} \cap Given(q)) = 1)
  BY DEF Refused
<1>4. q.start # Absent <=> q.end # Absent
  <2>1. \A x \in {"start", "end"} : {"start", "end"} \cap Given(q) # {x}
    BY <1>3, FS_Singleton
  <2> QED BY <1>2, <2>1
<1>5. CASE q.start # Absent
  <2>1. {"start", "end"} \subseteq Given(q)
    BY <1>2, <1>4, <1>5
  <2>2. Malformed \notin {q.start, q.end} /\ ~(q.start >= q.end)
    BY <2>1 DEF Refused
  <2>3. q.start \in Int64 /\ q.end \in Int64
    BY <1>1, <1>4, <1>5, <2>2
  <2> QED BY <1>5, <2>2, <2>3, WidthAssumption DEF Int64
<1>6. CASE q.start = Absent
  <2>1. {"start", "end"} \cap Given(q) = {}
    BY <1>2, <1>4, <1>6
  <2>2. q.range # Absent => q.range # Malformed /\ ~(q.range <= 0)
    BY <2>1 DEF Refused
  <2>3. q.range # Absent => q.range \in Int64
    BY <1>1, <2>2
  <2>4. Int64 \subseteq Int
    BY WidthAssumption DEF Int64
  <2>5. CASE q.range = Absent
    BY <1>6, <2>5, DefaultAssumption DEF RangeOf
  <2>6. CASE q.range # Absent
    <3>1. PICK r \in Int64 : r = q.range
      BY <2>3, <2>6
    <3>2. r > 0
      BY <2>2, <2>4, <2>6, <3>1
    <3> QED BY <1>6, <2>6, <3>1, <3>2 DEF RangeOf
  <2> QED BY <2>5, <2>6
<1> QED BY <1>5, <1>6

LEMMA WindowIs ==
  ASSUME NEW q \in Query, ~Refused(q), NEW t \in 0..MaxNow
  PROVE  LET w == Window(q, t) IN
         /\ w \in [start : Int, end : Int]
         /\ q.start # Absent => w.start = q.start * Milli /\ w.end = q.end * Milli
         /\ q.start = Absent => w.start = t - RangeOf(q) /\ w.end = t /\ Representable(w)
<1> DEFINE w == Window(q, t)
<1>1. Int64 \subseteq Int /\ Milli \in Int /\ t \in Int
  BY WidthAssumption, Numbers DEF Int64
<1>2. CASE q.start # Absent
  <2>1. w = [start |-> q.start * Milli, end |-> q.end * Milli]
    BY <1>2 DEF Window, FromMilli
  <2>2. q.start * Milli \in Int /\ q.end * Milli \in Int
    <3>1. q.start \in Int /\ q.end \in Int
      BY <1>1, <1>2, Accepted
    <3> QED BY <1>1, <3>1
  <2> QED BY <1>2, <2>1, <2>2
<1>3. CASE q.start = Absent
  <2>1. w = [start |-> t - RangeOf(q), end |-> t]
    BY <1>3 DEF Window, RangeOf
  <2>2. RangeOf(q) \in Int64 /\ RangeOf(q) > 0
    BY <1>3, Accepted
  <2>3. t - RangeOf(q) \in Int64 /\ t \in Int64
    BY <2>2, Numbers DEF Int64
  <2>4. w.start = t - RangeOf(q) /\ w.end = t
    BY <2>1
  <2>5. t - RangeOf(q) \in Int
    BY <1>1, <2>3
  <2>6. w \in [start : Int, end : Int]
    BY <1>1, <2>1, <2>5
  <2> HIDE DEF w
  <2>7. Representable(w)
    BY <2>3, <2>4 DEF Representable
  <2> USE DEF w
  <2> QED BY <1>3, <2>4, <2>6, <2>7, Zenon
<1> QED BY <1>2, <1>3

-----------------------------------------------------------------------------
(* Requests.                                                               *)

Request == [stage : Stage, window : [start : Int, end : Int], points : Seq(Nat),
            since : Nat, asked : Int]

\* The points are rows of the window, all those that were there when the request
\* was sent, in order.
Answers(n) ==
    LET found == Found(n, fetch[n].window) IN
    /\ ToSet(fetch[n].points) \subseteq found
    /\ found \cap 1..fetch[n].since \subseteq ToSet(fetch[n].points)
    /\ Ordered(fetch[n].points)

FetchOK(n) ==
    /\ fetch[n] \in Request
    /\ fetch[n].since \in 0..Len(pushes)
    /\ ToSet(fetch[n].points) \subseteq DOMAIN pushes
    /\ Len(fetch[n].points) <= MaxPoints
    /\ fetch[n].asked \in 0..now
    /\ fetch[n].stage \in {"read", "200"} =>
          /\ ~Refused(query)
          /\ fetch[n].window = Window(query, fetch[n].asked)
    /\ fetch[n].stage = "200" => Answers(n)

\* The fetches of a chart are sent together, with the same parameters.
SentTogether == \/ query \in Query /\ \A n \in Metric : fetch[n].stage # "idle"
                \/ query \in Query \cup {NoQuery} /\ \A n \in Metric : fetch[n].stage = "idle"

RequestInv == /\ DOMAIN fetch = Metric /\ fetch = [n \in Metric |-> fetch[n]]
              /\ SentTogether
              /\ \A n \in Metric : FetchOK(n)

LEMMA NoFetchIs == /\ NoFetch \in Request /\ NoFetch.stage = "idle" /\ NoFetch.since = 0
                   /\ NoFetch.asked = 0
                   /\ ToSet(NoFetch.points) = {} /\ Len(NoFetch.points) = 0
BY DEF NoFetch, Request, Stage, NoWindow, ToSet

LEMMA FreshIsOK ==
  ASSUME StoreInv, NEW n, fetch[n] \in Request, fetch[n].since \in 0..Len(pushes),
         ToSet(fetch[n].points) = {}, Len(fetch[n].points) = 0, fetch[n].asked = 0,
         fetch[n].stage \notin {"read", "200"}
  PROVE  FetchOK(n)
<1>1. 0 \in 0..now
  BY Numbers DEF StoreInv
<1> QED BY <1>1, Numbers DEF FetchOK

LEMMA NowGrows ==
  ASSUME StoreInv, [Next]_vars
  PROVE  now' >= now /\ now \in Int /\ Len(pushes') >= Len(pushes) /\ Len(pushes) \in Nat
         /\ now' \in Int /\ Len(pushes') \in Nat
<1>1. now \in Int /\ now' \in Int /\ pushes \in Seq(Row) /\ pushes' \in Seq(Row)
  BY StoreStep, Numbers DEF StoreInv
<1>2. now' = now \/ now' = now + 1
  BY DEF Next, vars, Tick, Save, Ask, ParseTimeRange, Read, ReadFails, Leave, Fails, Set
<1>3. Len(pushes') >= Len(pushes)
  <2>1. 1..Len(pushes) \subseteq 1..Len(pushes')
    BY <1>1, PushesGrow
  <2> QED BY <1>1, <2>1
<1>4. now' >= now
  BY <1>1, <1>2
<1> QED BY <1>1, <1>3, <1>4

LEMMA FetchStays ==
  ASSUME StoreInv, [Next]_vars, NEW n, FetchOK(n), fetch'[n] = fetch[n], query' = query
  PROVE  FetchOK(n)'
<1>1. \A i \in DOMAIN pushes : i \in DOMAIN pushes' /\ pushes'[i] = pushes[i]
  BY PushesGrow
<1>2. fetch[n].since \in 0..Len(pushes')
  BY NowGrows DEF FetchOK
<1>3. ToSet(fetch[n].points) \subseteq DOMAIN pushes'
  BY <1>1 DEF FetchOK
<1>4. fetch[n].asked \in 0..now'
  BY NowGrows DEF FetchOK
<1>5. Answers(n) => Answers(n)'
  <2> SUFFICES ASSUME Answers(n) PROVE Answers(n)'
    OBVIOUS
  <2> DEFINE w == fetch[n].window
  <2>1. Found(n, w) \subseteq Found(n, w)'
    BY <1>1 DEF Found
  <2>2. \A i \in DOMAIN pushes : i \in Found(n, w)' => i \in Found(n, w)
    BY <1>1 DEF Found
  <2>3. 1..fetch[n].since \subseteq DOMAIN pushes
    BY DEF FetchOK, StoreInv
  <2>4. Ordered(fetch[n].points)'
    <3>1. \A k \in DOMAIN fetch[n].points : fetch[n].points[k] \in DOMAIN pushes
      BY DEF FetchOK, ToSet
    <3>2. fetch[n].points \in Seq(Nat)
      BY DEF FetchOK, Request
    <3> QED BY <1>1, <3>1, <3>2 DEF Answers, Ordered
  <2> QED BY <2>1, <2>2, <2>3, <2>4 DEF Answers
<1> QED BY <1>2, <1>3, <1>4, <1>5 DEF FetchOK

LEMMA RequestInit == Init => RequestInv
<1> SUFFICES ASSUME Init PROVE RequestInv
  OBVIOUS
<1>1. fetch = [n \in Metric |-> NoFetch] /\ query = NoQuery
  BY DEF Init
<1>2. \A n \in Metric : FetchOK(n)
  <2>1. StoreInv /\ 0 \in 0..Len(pushes)
    BY StoreInit DEF StoreInv
  <2> QED BY <1>1, <2>1, NoFetchIs, FreshIsOK
<1> QED BY <1>1, <1>2, NoFetchIs DEF RequestInv, SentTogether

\* A step of one fetch.
LEMMA OneFetch ==
  ASSUME StoreInv, RequestInv, [Next]_vars, NEW n \in Metric, NEW f, Set(n, f),
         fetch[n].stage # "idle", f.stage # "idle", FetchOK(n)'
  PROVE  RequestInv'
<1>1. fetch' = [fetch EXCEPT ![n] = f] /\ query' = query
  BY DEF Set
<1>2. \A m \in Metric \ {n} : fetch'[m] = fetch[m]
  BY <1>1 DEF RequestInv
<1>3. \A m \in Metric : FetchOK(m)'
  BY <1>1, <1>2, FetchStays DEF RequestInv
<1>4. DOMAIN fetch' = Metric /\ fetch' = [m \in Metric |-> fetch'[m]] /\ fetch'[n] = f
  BY <1>1 DEF RequestInv
<1>5. SentTogether'
  BY <1>1, <1>2, <1>4 DEF RequestInv, SentTogether
<1> QED BY <1>3, <1>4, <1>5 DEF RequestInv

LEMMA RequestStep == StoreInv /\ RequestInv /\ [Next]_vars => RequestInv'
<1> SUFFICES ASSUME StoreInv, RequestInv, [Next]_vars PROVE RequestInv'
  OBVIOUS
<1> USE DEF Request, Stage
<1>1. CASE UNCHANGED <<query, fetch>>
  BY <1>1, FetchStays DEF RequestInv, SentTogether
<1>2. ASSUME NEW q \in Query, Ask(q) PROVE RequestInv'
  <2> DEFINE f == [NoFetch EXCEPT !.stage = "parse", !.since = Len(pushes)]
  <2>1. fetch' = [n \in Metric |-> f] /\ query' = q /\ pushes' = pushes
    BY <1>2 DEF Ask
  <2>2. /\ f \in Request /\ f.stage = "parse" /\ f.since = Len(pushes)
        /\ f.points = NoFetch.points /\ f.asked = 0
    BY NoFetchIs, NowGrows
  <2> HIDE DEF f
  <2>3. \A n \in Metric : FetchOK(n)'
    <3>1. Len(pushes) \in 0..Len(pushes) /\ StoreInv' /\ 0 \in 0..now'
      BY NowGrows, StoreStep, Numbers DEF StoreInv
    <3> QED BY <2>1, <2>2, <3>1, NoFetchIs, Numbers DEF FetchOK
  <2> QED BY <2>1, <2>2, <2>3 DEF RequestInv, SentTogether
<1>3. CASE Leave
  <2>1. fetch' = [n \in Metric |-> NoFetch] /\ query' = NoQuery /\ pushes' = pushes
    BY <1>3 DEF Leave
  <2>2. \A n \in Metric : FetchOK(n)'
    <3>1. 0 \in 0..Len(pushes) /\ 0 \in 0..now'
      BY NowGrows, StoreStep, Numbers DEF StoreInv
    <3> QED BY <2>1, <3>1, NoFetchIs, Numbers DEF FetchOK
  <2> QED BY <2>1, <2>2, NoFetchIs DEF RequestInv, SentTogether
<1>4. ASSUME NEW n \in Metric, NEW stage \in {"400", "404", "500"}, fetch[n].stage # "idle",
             Fails(n, stage)
      PROVE  RequestInv'
  <2> DEFINE f == [NoFetch EXCEPT !.stage = stage]
  <2>1. /\ f \in Request /\ f.stage = stage /\ f.since = 0
        /\ f.points = NoFetch.points /\ f.asked = 0
    BY NoFetchIs
  <2>2. Set(n, f)
    BY <1>4 DEF Fails
  <2> HIDE DEF f
  <2>3. fetch'[n] = f
    BY <2>2 DEF Set, RequestInv
  <2>4. 0 \in 0..now' /\ 0 \in 0..Len(pushes')
    BY NowGrows, StoreStep, Numbers DEF StoreInv
  <2>5. FetchOK(n)'
    BY <2>1, <2>3, <2>4, NoFetchIs, Numbers DEF FetchOK
  <2> QED BY <1>4, <2>1, <2>2, <2>5, OneFetch
<1>5. ASSUME NEW n \in Metric, ParseTimeRange(n) PROVE RequestInv'
  <2>1. fetch[n] \in Request /\ FetchOK(n) /\ fetch[n].stage = "parse" /\ query \in Query
    BY <1>5 DEF ParseTimeRange, RequestInv, SentTogether, FetchOK
  <2>2. CASE Refused(query)
    BY <1>4, <1>5, <2>1, <2>2 DEF ParseTimeRange
  <2>3. CASE ~Refused(query)
    <3> DEFINE w == Window(query, now)
               t == IF query.start = Absent THEN now ELSE fetch[n].asked
               f == [fetch[n] EXCEPT !.stage = "read", !.window = w, !.asked = t]
    <3>1. Set(n, f)
      BY <1>5, <2>3 DEF ParseTimeRange
    <3>2. now \in 0..MaxNow /\ t \in 0..now /\ t \in Int
      <4>1. now \in 0..MaxNow /\ now \in 0..now /\ fetch[n].asked \in 0..now
        BY <2>1, Numbers DEF StoreInv, FetchOK
      <4> QED BY <4>1
    <3>3. w \in [start : Int, end : Int]
      BY <2>1, <2>3, <3>2, WindowIs
    <3>4. w = Window(query, t)
      BY DEF Window
    <3> HIDE DEF w, t
    <3>5. /\ f \in Request /\ f.stage = "read" /\ f.since = fetch[n].since
          /\ f.points = fetch[n].points /\ f.asked = t /\ f.window = w
      BY <2>1, <3>2, <3>3
    <3> HIDE DEF f
    <3>6. fetch'[n] = f /\ pushes' = pushes /\ query' = query /\ now' = now
      BY <3>1 DEF Set, RequestInv
    <3>7. FetchOK(n)'
      BY <2>1, <2>3, <3>2, <3>4, <3>5, <3>6 DEF FetchOK
    <3> QED BY <2>1, <3>1, <3>5, <3>7, OneFetch
  <2> QED BY <2>2, <2>3
<1>6. ASSUME NEW n \in Metric, Read(n) PROVE RequestInv'
  <2>1. fetch[n] \in Request /\ FetchOK(n) /\ fetch[n].stage = "read"
    BY <1>6 DEF Read, RequestInv, FetchOK
  <2>2. CASE pushes = <<>>
    BY <1>4, <1>6, <2>1, <2>2 DEF Read
  <2>3. CASE pushes # <<>>
    <3>1. PICK s \in GetMetricPoints(n, fetch[n].window) :
             IF Len(s) > MaxPoints THEN Fails(n, "400")
             ELSE Set(n, [fetch[n] EXCEPT !.stage = "200", !.points = s])
      BY <1>6, <2>3 DEF Read
    <3>2. CASE Len(s) > MaxPoints
      BY <1>4, <2>1, <3>1, <3>2
    <3>3. CASE ~(Len(s) > MaxPoints)
      <4> DEFINE f == [fetch[n] EXCEPT !.stage = "200", !.points = s]
      <4>1. Set(n, f)
        BY <3>1, <3>3
      <4>2. /\ s \in Seq(Nat) /\ ToSet(s) = Found(n, fetch[n].window) /\ Ordered(s)
            /\ Found(n, fetch[n].window) \subseteq DOMAIN pushes
        BY AnswerIsAllFound
      <4>3. /\ f \in Request /\ f.stage = "200" /\ f.since = fetch[n].since
            /\ f.points = s /\ f.asked = fetch[n].asked /\ f.window = fetch[n].window
        BY <2>1, <4>2
      <4> HIDE DEF f
      <4>4. fetch'[n] = f /\ pushes' = pushes /\ query' = query /\ now' = now
        BY <4>1 DEF Set, RequestInv
      <4>5. Len(s) <= MaxPoints
        <5>1. Len(s) \in Nat
          BY <4>2
        <5> QED BY <3>3, <5>1, Numbers
      <4>6. Answers(n)'
        BY <4>2, <4>3, <4>4 DEF Answers, Found, Ordered
      <4>7. FetchOK(n)'
        BY <2>1, <4>2, <4>3, <4>4, <4>5, <4>6 DEF FetchOK
      <4> QED BY <2>1, <4>1, <4>3, <4>7, OneFetch
    <3> QED BY <3>2, <3>3
  <2> QED BY <2>2, <2>3
<1>7. ASSUME NEW n \in Metric, ReadFails(n) PROVE RequestInv'
  BY <1>4, <1>7 DEF ReadFails
<1> QED BY <1>1, <1>2, <1>3, <1>5, <1>6, <1>7 DEF Next, vars, Tick, Save

LEMMA RequestInvariant == Spec => [](StoreInv /\ RequestInv)
BY StoreInit, StoreStep, RequestInit, RequestStep, PTL DEF Spec

\* Pushes and answers keep their types, within the limit of points
\* (metric_points.go:41-134).
THEOREM TypeCorrect == Spec => []TypeOK
<1>1. StoreInv /\ RequestInv => TypeOK
  <2> SUFFICES ASSUME StoreInv, RequestInv PROVE TypeOK
    OBVIOUS
  <2>1. now \in 0..MaxNow
    BY Numbers DEF StoreInv
  <2>2. query \in Query \cup {NoQuery}
    BY DEF RequestInv, SentTogether
  <2> QED BY <2>1, <2>2 DEF TypeOK, StoreInv, Row, RequestInv, FetchOK, Request
<1> QED BY <1>1, RequestInvariant, PTL

-----------------------------------------------------------------------------
(* What an answer says.                                                    *)

\* What is known of an answered request: the window it was served with, whose
\* bounds are compared as they stand when an int64 holds them, and its rows.
LEMMA AnsweredIs ==
  ASSUME StoreInv, RequestInv, NEW n \in Metric, Answered(n), Representable(fetch[n].window)
  PROVE  LET w == fetch[n].window IN
         /\ query \in Query /\ ~Refused(query)
         /\ fetch[n].asked \in 0..MaxNow /\ w = Window(query, fetch[n].asked)
         /\ w.start \in Int /\ w.end \in Int
         /\ 1..fetch[n].since \subseteq DOMAIN pushes
         /\ \A i \in ToSet(fetch[n].points) :
               i \in DOMAIN pushes /\ w.start <= pushes[i].ts /\ pushes[i].ts < w.end
         /\ \A i \in 1..fetch[n].since :
               n \in pushes[i].names /\ w.start <= pushes[i].ts /\ pushes[i].ts < w.end
                  => i \in ToSet(fetch[n].points)
<1> DEFINE w == fetch[n].window
<1>1. FetchOK(n) /\ fetch[n].stage = "200"
  BY DEF RequestInv, Answered
<1>2. query \in Query /\ ~Refused(query) /\ w = Window(query, fetch[n].asked)
  BY <1>1 DEF RequestInv, SentTogether, FetchOK
<1>3. fetch[n].asked \in 0..MaxNow
  BY <1>1, Numbers DEF FetchOK, StoreInv
<1>4. /\ w.start \in Int64 /\ w.end \in Int64 /\ Int64 \subseteq Int
      /\ UnixNano(w.start) = w.start /\ UnixNano(w.end) = w.end
  BY WrapKeeps, Numbers DEF Representable, UnixNano, Int64
<1>5. 1..fetch[n].since \subseteq DOMAIN pushes
  BY <1>1 DEF FetchOK, StoreInv
<1>6. Answers(n)
  BY <1>1 DEF FetchOK
<1>7. \A i : i \in Found(n, w) <=> /\ i \in DOMAIN pushes /\ n \in pushes[i].names
                                    /\ w.start <= pushes[i].ts /\ pushes[i].ts < w.end
  BY <1>4 DEF Found, InWindow
<1> QED BY <1>2, <1>3, <1>4, <1>5, <1>6, <1>7, Zenon DEF Answers

LEMMA MillisOf ==
  ASSUME StoreInv, NEW i \in DOMAIN pushes
  PROVE  T(i) = pushes[i].ts \div Milli /\ pushes[i].ts \in Int /\ T(i) \in Int
<1>1. pushes[i].ts \in Int /\ pushes[i].ts >= 0
  BY RowType, Numbers
<1> QED BY <1>1, Quotient DEF T, TimestampNsToMillis

\* An answer tells the truth about the window it announces: it is the one asked
\* for, every point lies in it, and no sample that was there is missing, whatever
\* the rounding to milliseconds (metric_points.go:16-23, 136-165, queries.go:206-213).
THEOREM WindowsAreHonoured == Spec => []WindowHonoured
<1>1. ASSUME StoreInv, RequestInv, NEW n \in Metric, Answered(n), Representable(fetch[n].window)
      PROVE  Honoured(n)
  <2> DEFINE w == fetch[n].window
             a == Announced(n)
  <2>1. a.start = w.start \div Milli /\ a.end = w.end \div Milli
    BY DEF Announced, ToMilli
  <2>2. query.start # Absent => a = [start |-> query.start, end |-> query.end]
    <3> SUFFICES ASSUME query.start # Absent PROVE a = [start |-> query.start, end |-> query.end]
      OBVIOUS
    <3>1. query.start \in Int64 /\ query.end \in Int64
      BY <1>1, AnsweredIs, Accepted
    <3>2. w.start = query.start * Milli /\ w.end = query.end * Milli
      BY <1>1, AnsweredIs, WindowIs
    <3>3. \A x \in Int64 : (x * Milli) \div Milli = x
      <4> TAKE x \in Int64
      <4>1. x \in Int /\ Milli \in Int /\ Milli > 0 /\ x * Milli \in Int
        BY WidthAssumption DEF Int64
      <4> QED BY <4>1, QuotientUnique
    <3> QED BY <3>1, <3>2, <3>3 DEF Announced, ToMilli
  <2>3. ASSUME NEW i \in ToSet(fetch[n].points)
        PROVE  a.start <= T(i) /\ T(i) <= a.end
    <3>1. i \in DOMAIN pushes /\ w.start <= pushes[i].ts /\ pushes[i].ts < w.end
          /\ w.start \in Int /\ w.end \in Int
      BY <1>1, AnsweredIs
    <3>2. T(i) = pushes[i].ts \div Milli /\ pushes[i].ts \in Int
      BY <1>1, <3>1, MillisOf
    <3> QED BY <2>1, <3>1, <3>2, QuotientGrows
  <2>4. ASSUME NEW i \in 1..fetch[n].since, n \in pushes[i].names, a.start < T(i), T(i) < a.end
        PROVE  i \in ToSet(fetch[n].points)
    <3>1. i \in DOMAIN pushes /\ w.start \in Int /\ w.end \in Int
      BY <1>1, AnsweredIs
    <3>2. T(i) = pushes[i].ts \div Milli /\ pushes[i].ts \in Int /\ T(i) \in Int
      BY <1>1, <3>1, MillisOf
    <3>3. a.start \in Int /\ a.end \in Int
      BY <2>1, <3>1, Quotient
    <3> HIDE DEF a
    <3>4. ~(pushes[i].ts <= w.start)
      BY <2>1, <2>4, <3>1, <3>2, <3>3, QuotientGrows
    <3>5. ~(w.end <= pushes[i].ts)
      BY <2>1, <2>4, <3>1, <3>2, <3>3, QuotientGrows
    <3> QED BY <1>1, <2>4, <3>1, <3>2, <3>4, <3>5, AnsweredIs
  <2> QED BY <2>2, <2>3, <2>4, Zenon DEF Honoured
<1>2. StoreInv /\ RequestInv => WindowHonoured
  BY <1>1 DEF WindowHonoured
<1> QED BY <1>2, RequestInvariant, PTL

\* A relative request answers every sample received more than the skew before it
\* and no more than its range less the skew and the delay: a sample comes late by no
\* more than its clock may be ahead, and leaves early by no more than its clock may
\* be behind and its way took (metric_points.go:139-158, pushes.go:89, server.go:160).
THEOREM NewestComeInTime == Spec => []KeptBackBySkewOnly
<1>1. ASSUME StoreInv, RequestInv, NEW n \in Metric, Answered(n), query.start = Absent,
             NEW i \in 1..fetch[n].since, n \in pushes[i].names,
             fetch[n].asked - pushes[i].at > Skew,
             fetch[n].asked - pushes[i].at <= RangeOf(query) - Skew - Delay
      PROVE  i \in ToSet(fetch[n].points)
  <2> DEFINE w == fetch[n].window
  <2>1. /\ query \in Query /\ ~Refused(query)
        /\ fetch[n].asked \in 0..MaxNow /\ w = Window(query, fetch[n].asked)
    <3>1. FetchOK(n) /\ fetch[n].stage = "200"
      BY <1>1 DEF RequestInv, Answered
    <3>2. fetch[n].asked \in 0..now /\ now \in 0..MaxNow
      BY <1>1, <3>1 DEF FetchOK, StoreInv
    <3> QED BY <1>1, <3>1, <3>2, Numbers DEF RequestInv, SentTogether, FetchOK
  <2>2. w.start = fetch[n].asked - RangeOf(query) /\ w.end = fetch[n].asked /\ Representable(w)
    BY <1>1, <2>1, WindowIs
  <2>3. RangeOf(query) \in Int
    BY <1>1, <2>1, Accepted, Numbers DEF Int64
  <2>4. i \in DOMAIN pushes
    BY <1>1, <2>2, AnsweredIs
  <2>5. /\ pushes[i].at - Skew - Delay <= pushes[i].ts /\ pushes[i].ts <= pushes[i].at + Skew
        /\ pushes[i].at \in Int /\ pushes[i].ts \in Int
    BY <1>1, <2>4, RowType, Numbers DEF InTime
  <2>6. w.start <= pushes[i].ts /\ pushes[i].ts < w.end
    <3> HIDE DEF w
    <3> QED BY <1>1, <2>1, <2>2, <2>3, <2>5, Numbers
  <2> QED BY <1>1, <2>2, <2>6, AnsweredIs
<1>2. StoreInv /\ RequestInv => KeptBackBySkewOnly
  BY <1>1 DEF KeptBackBySkewOnly
<1> QED BY <1>2, RequestInvariant, PTL

-----------------------------------------------------------------------------
(* Sorting a finite set of integers: the rank of a member is the number of   *)
(* the members below it, and every rank is taken.                            *)

Below(S, x) == {y \in S : y < x}

Rank(S) == [x \in S |-> Cardinality(Below(S, x)) + 1]

LEMMA RankGrows ==
  ASSUME NEW S \in SUBSET Int, IsFiniteSet(S), NEW x \in S
  PROVE  /\ Rank(S)[x] \in 1..Cardinality(S)
         /\ \A z \in S : x < z => Rank(S)[x] < Rank(S)[z]
<1>1. \A z \in S : /\ IsFiniteSet(Below(S, z)) /\ z \notin Below(S, z)
                   /\ Cardinality(Below(S, z)) \in Nat
                   /\ Rank(S)[z] = Cardinality(Below(S, z)) + 1
  <2> TAKE z \in S
  <2>1. Below(S, z) \subseteq S /\ z \in Int
    BY DEF Below
  <2>2. IsFiniteSet(Below(S, z))
    BY <2>1, FS_Subset
  <2>3. z \notin Below(S, z)
    BY <2>1 DEF Below
  <2> QED BY <2>2, <2>3, FS_CardinalityType DEF Rank
<1>2. /\ IsFiniteSet(Below(S, x) \cup {x})
      /\ Cardinality(Below(S, x) \cup {x}) = Cardinality(Below(S, x)) + 1
  BY <1>1, FS_AddElement
<1>3. ASSUME NEW z \in S, x < z PROVE Rank(S)[x] < Rank(S)[z]
  <2>1. Below(S, x) \cup {x} \subseteq Below(S, z)
    <3>1. \A y \in S : y \in Int
      OBVIOUS
    <3>2. \A y \in S : y < x => y < z
      BY <1>3, <3>1
    <3> QED BY <1>3, <3>2 DEF Below
  <2>2. Cardinality(Below(S, x) \cup {x}) <= Cardinality(Below(S, z))
    BY <1>1, <2>1, FS_Subset
  <2> QED BY <1>1, <1>2, <2>2
<1>4. Cardinality(Below(S, x)) + 1 <= Cardinality(S) /\ Cardinality(S) \in Nat
  <2>1. Below(S, x) \cup {x} \subseteq S
    BY DEF Below
  <2>2. Cardinality(Below(S, x) \cup {x}) <= Cardinality(S)
    BY <2>1, FS_Subset
  <2> QED BY <1>2, <2>2, FS_CardinalityType
<1> QED BY <1>1, <1>3, <1>4

LEMMA RankOnto ==
  ASSUME NEW S \in SUBSET Int, IsFiniteSet(S)
  PROVE  \A k \in 1..Cardinality(S) : \E x \in S : Rank(S)[x] = k
<1> DEFINE D == 1..Cardinality(S)
<1>1. Cardinality(S) \in Nat
  BY FS_CardinalityType
<1>2. IsFiniteSet(D) /\ Cardinality(D) = Cardinality(S)
  BY <1>1, FS_Interval
<1>3. \A x \in S : Rank(S)[x] \in D
  BY RankGrows
<1>4. \A x, z \in S : Rank(S)[x] = Rank(S)[z] => x = z
  <2> TAKE x, z \in S
  <2>1. x \in Int /\ z \in Int /\ Rank(S)[x] \in Int /\ Rank(S)[z] \in Int
    BY <1>1, RankGrows
  <2>2. x < z => Rank(S)[x] < Rank(S)[z]
    BY RankGrows
  <2>3. z < x => Rank(S)[z] < Rank(S)[x]
    BY RankGrows
  <2> QED BY <2>1, <2>2, <2>3
<1>5. Rank(S) \in [S -> D]
  <2>1. Rank(S) = [x \in S |-> Rank(S)[x]]
    BY DEF Rank
  <2> QED BY <1>3, <2>1
<1>6. Rank(S) \in Injection(S, D)
  BY <1>4, <1>5, Zenon DEF Injection, IsInjective
<1> HIDE DEF D
<1>7. Rank(S) \in Surjection(S, D)
  BY <1>2, <1>6, FS_Injection
<1> QED BY <1>7 DEF Surjection, D

LEMMA MaxIs ==
  ASSUME NEW S \in SUBSET Int, IsFiniteSet(S), S # {}
  PROVE  Max(S) \in S /\ \A y \in S : Max(S) >= y
<1>1. Cardinality(S) \in Nat /\ Cardinality(S) # 0
  BY FS_CardinalityType, FS_EmptySet
<1>2. PICK x \in S : Rank(S)[x] = Cardinality(S)
  BY <1>1, RankOnto
<1>3. \A y \in S : x >= y
  <2> TAKE y \in S
  <2>1. Rank(S)[y] <= Cardinality(S) /\ Rank(S)[y] \in Int /\ x \in Int /\ y \in Int
    BY <1>1, RankGrows
  <2>2. x < y => Rank(S)[x] < Rank(S)[y]
    BY RankGrows
  <2> QED BY <1>1, <1>2, <2>1, <2>2
<1> QED BY <1>3 DEF Max

LEMMA CanBeSorted ==
  ASSUME NEW S \in SUBSET Int, IsFiniteSet(S)
  PROVE  \E xs \in SetToSeqs(S) : Ascending(xs)
<1> DEFINE D == 1..Cardinality(S)
           xs == [k \in D |-> CHOOSE x \in S : Rank(S)[x] = k]
<1>1. Cardinality(S) \in Nat
  BY FS_CardinalityType
<1>2. \A k \in D : xs[k] \in S /\ Rank(S)[xs[k]] = k
  BY RankOnto
<1>3. xs \in [D -> S]
  BY <1>2
<1> HIDE DEF xs
<1>4. \A i, j \in D : i # j => xs[i] # xs[j]
  BY <1>2, Zenon
<1>5. xs \in SetToSeqs(S)
  BY <1>3, <1>4 DEF SetToSeqs
<1>6. Ascending(xs)
  <2>1. Len(xs) = Cardinality(S)
    BY <1>1, <1>3
  <2>2. ASSUME NEW k \in 1..(Len(xs) - 1) PROVE xs[k] < xs[k + 1]
    <3>1. k \in D /\ k + 1 \in D /\ k \in Int
      BY <1>1, <2>1
    <3>2. /\ xs[k] \in S /\ Rank(S)[xs[k]] = k
          /\ xs[k + 1] \in S /\ Rank(S)[xs[k + 1]] = k + 1
      BY <1>2, <3>1
    <3>3. ~(xs[k + 1] < xs[k]) /\ xs[k] # xs[k + 1]
      <4>1. xs[k + 1] < xs[k] => k + 1 < k
        BY <3>2, RankGrows
      <4> QED BY <3>1, <3>2, <4>1
    <3>4. xs[k] \in Int /\ xs[k + 1] \in Int
      BY <3>2
    <3> QED BY <3>3, <3>4
  <2> QED BY <2>2 DEF Ascending
<1> QED BY <1>5, <1>6

-----------------------------------------------------------------------------
(* The chart.                                                                *)

\* Every row of an answer is of a push, and the rows of one are in their order.
LEMMA PointsOf ==
  ASSUME StoreInv, RequestInv, NEW n \in Metric, Answered(n)
  PROVE  LET pts == fetch[n].points IN
         /\ pts \in Seq(Nat) /\ Ordered(pts)
         /\ \A k \in DOMAIN pts : pts[k] \in DOMAIN pushes /\ T(pts[k]) \in Int
                                  /\ pushes[pts[k]].ts \in Int /\ pts[k] # Null
<1> DEFINE pts == fetch[n].points
<1>1. FetchOK(n) /\ Answers(n)
  BY DEF RequestInv, FetchOK, Answered
<1>2. pts \in Seq(Nat) /\ Ordered(pts)
  BY <1>1 DEF FetchOK, Request, Answers
<1>3. \A k \in DOMAIN pts : pts[k] \in DOMAIN pushes
  BY <1>1 DEF FetchOK, ToSet
<1>4. Null \notin DOMAIN pushes
  BY DEF StoreInv, Null
<1> QED BY <1>2, <1>3, <1>4, MillisOf

\* Not only neighbours are in order.
LEMMA OrderedThroughout ==
  ASSUME NEW s \in Seq(Nat), Ordered(s), \A k \in DOMAIN s : pushes[s[k]].ts \in Int,
         NEW j \in DOMAIN s, NEW m \in DOMAIN s, j <= m
  PROVE  pushes[s[j]].ts <= pushes[s[m]].ts
<1> DEFINE ts(k) == pushes[s[k]].ts
           G == {k \in j..m : \A l \in j..k : ts(j) <= ts(l)}
           g == Max(G)
<1>1. j \in Int /\ m \in Int /\ 1 <= j /\ m <= Len(s) /\ Len(s) \in Int
  OBVIOUS
<1>2. G \in SUBSET Int /\ IsFiniteSet(G)
  <2>1. IsFiniteSet(j..m)
    BY <1>1, FS_Interval
  <2>2. G \subseteq j..m
    OBVIOUS
  <2> QED BY <1>1, <2>1, <2>2, FS_Subset
<1>3. j \in G
  BY <1>1
<1>4. g \in G /\ \A k \in G : g >= k
  <2> HIDE DEF G
  <2> QED BY <1>2, <1>3, MaxIs
<1> HIDE DEF g
<1>5. g = m
  <2> SUFFICES ASSUME g # m PROVE FALSE
    OBVIOUS
  <2>1. g \in Int /\ g \in 1..(Len(s) - 1) /\ g + 1 \in j..m /\ g \in DOMAIN s /\ g + 1 \in DOMAIN s
    BY <1>1, <1>4
  <2>2. ts(g) <= ts(g + 1)
    BY <2>1 DEF Ordered
  <2>3. ts(j) <= ts(g)
    BY <1>1, <1>4, <2>1
  <2>4. ts(j) <= ts(g + 1)
    <3>1. ts(j) \in Int /\ ts(g) \in Int /\ ts(g + 1) \in Int
      BY <2>1
    <3> HIDE DEF ts
    <3> QED BY <2>2, <2>3, <3>1
  <2>5. \A l \in j..(g + 1) : l \in j..g \/ l = g + 1
    BY <1>1, <2>1
  <2>6. g + 1 \in G
    BY <1>4, <2>1, <2>4, <2>5
  <2> QED BY <1>4, <2>1, <2>6
<1> QED BY <1>1, <1>4, <1>5

LEMMA MillisFinite ==
  ASSUME StoreInv, RequestInv, Drawn
  PROVE  Millis \in SUBSET Int /\ IsFiniteSet(Millis)
<1> DEFINE D == DOMAIN pushes
           f == [i \in D |-> T(i)]
           all == {T(i) : i \in D}
<1>1. IsFiniteSet(D)
  <2>1. D = 1..Len(pushes) /\ Len(pushes) \in Int
    BY DEF StoreInv
  <2> QED BY <2>1, FS_Interval
<1>2. f \in Surjection(D, all)
  BY Zenon DEF Surjection
<1>3. IsFiniteSet(all)
  <2> HIDE DEF D, f, all
  <2> QED BY <1>1, <1>2, FS_Surjection
<1>4. Millis \subseteq all
  <2>1. \A n \in Metric : ToSet(fetch[n].points) \subseteq D
    BY DEF RequestInv, FetchOK
  <2> QED BY <2>1, Zenon DEF Millis
<1>5. all \subseteq Int
  BY MillisOf
<1> HIDE DEF all
<1> QED BY <1>3, <1>4, <1>5, FS_Subset

LEMMA TimestampsAre ==
  ASSUME StoreInv, RequestInv, Drawn
  PROVE  Ascending(Timestamps) /\ {Timestamps[k] : k \in DOMAIN Timestamps} = Millis
<1> DEFINE xs == Timestamps
           D == 1..Cardinality(Millis)
<1>1. Millis \in SUBSET Int /\ IsFiniteSet(Millis)
  BY MillisFinite
<1>2. xs \in SetToSeqs(Millis) /\ Ascending(xs)
  BY <1>1, CanBeSorted DEF Timestamps
<1> HIDE DEF xs
<1>3. xs \in [D -> Millis] /\ \A i, j \in D : i # j => xs[i] # xs[j]
  BY <1>2 DEF SetToSeqs
<1>4. xs \in Injection(D, Millis)
  BY <1>3, Zenon DEF Injection, IsInjective
<1>5. Cardinality(D) = Cardinality(Millis)
  BY <1>1, FS_CardinalityType, FS_Interval
<1>6. xs \in Surjection(D, Millis)
  <2> HIDE DEF D
  <2> QED BY <1>1, <1>4, <1>5, FS_Injection
<1>7. {xs[k] : k \in DOMAIN xs} = Millis
  BY <1>3, <1>6 DEF Surjection
<1> QED BY <1>2, <1>7 DEF xs

\* A curve, in the columns of the chart: Max(At(n, ms)) is the last of the points
\* whose milliseconds are ms.
At(n, ms) == {k \in DOMAIN fetch[n].points : T(fetch[n].points[k]) = ms}

LEMMA SeriesIs ==
  ASSUME StoreInv, RequestInv, NEW n \in Metric, Answered(n), NEW xs, NEW k \in DOMAIN xs
  PROVE  LET pts == fetch[n].points
             ys  == Series(n, xs)
             j   == Max(At(n, xs[k]))
         IN  /\ At(n, xs[k]) = {} => ys[k] = Null
             /\ At(n, xs[k]) # {} =>
                   /\ j \in DOMAIN pts /\ \A m \in At(n, xs[k]) : m <= j
                   /\ ys[k] = pts[j] /\ ys[k] # Null /\ T(ys[k]) = xs[k]
<1> DEFINE pts == fetch[n].points
           at == At(n, xs[k])
           j == Max(at)
<1>1. Series(n, xs)[k] = IF at = {} THEN Null ELSE pts[j]
  BY DEF Series, At
<1>2. ASSUME at # {} PROVE j \in at /\ \A m \in at : m <= j
  <2>1. DOMAIN pts = 1..Len(pts) /\ Len(pts) \in Int
    BY PointsOf
  <2>2. IsFiniteSet(DOMAIN pts)
    BY <2>1, FS_Interval
  <2>3. at \subseteq DOMAIN pts
    BY DEF At
  <2>4. at \in SUBSET Int /\ IsFiniteSet(at)
    BY <2>1, <2>2, <2>3, FS_Subset
  <2> HIDE DEF at
  <2>5. Max(at) \in at /\ \A m \in at : Max(at) >= m
    BY <1>2, <2>4, MaxIs
  <2>6. \A m \in at : m \in Int
    BY <2>4
  <2> QED BY <2>5, <2>6
<1>3. \A m \in at : m \in DOMAIN pts /\ T(pts[m]) = xs[k]
  BY DEF At
<1>4. \A m \in DOMAIN pts : pts[m] # Null
  BY PointsOf
<1> HIDE DEF at, j
<1>5. at = {} => Series(n, xs)[k] = Null
  BY <1>1
<1>6. at # {} => Series(n, xs)[k] = pts[j]
  BY <1>1
<1> QED BY <1>2, <1>3, <1>4, <1>5, <1>6, Zenon DEF at, j

LEMMA ColumnOf ==
  ASSUME StoreInv, RequestInv, Drawn, NEW n \in Metric, NEW j \in DOMAIN fetch[n].points
  PROVE  \E k \in DOMAIN Timestamps : T(fetch[n].points[j]) = Timestamps[k]
<1>1. T(fetch[n].points[j]) \in Millis
  BY DEF Millis, ToSet
<1> QED BY <1>1, TimestampsAre

\* A chart draws what its fetches answered: the columns go forward, every value
\* stands at its own millisecond and every point has a value in its column
\* (overview.js:66-83).
THEOREM ChartsAreFaithful == Spec => []ChartIsFaithful
<1>1. ASSUME StoreInv, RequestInv, Drawn
      PROVE  LET xs == Timestamps IN
             /\ Ascending(xs)
             /\ \A n \in Metric : LET ys == Series(n, xs) IN
                   ValuesAtTheirTime(n, xs, ys) /\ EveryPointHasAColumn(n, xs, ys)
  <2> DEFINE xs == Timestamps
  <2>1. Ascending(xs)
    BY <1>1, TimestampsAre
  <2> HIDE DEF xs
  <2>2. ASSUME NEW n \in Metric
        PROVE  /\ ValuesAtTheirTime(n, xs, Series(n, xs))
               /\ EveryPointHasAColumn(n, xs, Series(n, xs))
    <3>1. Answered(n)
      BY <1>1 DEF Drawn, Answered
    <3>2. ASSUME NEW k \in DOMAIN xs, Series(n, xs)[k] # Null
          PROVE  /\ Series(n, xs)[k] \in ToSet(fetch[n].points)
                 /\ T(Series(n, xs)[k]) = xs[k]
      <4> DEFINE j == Max(At(n, xs[k]))
      <4>1. At(n, xs[k]) # {}
        BY <1>1, <3>1, <3>2, SeriesIs, Zenon
      <4>2. /\ j \in DOMAIN fetch[n].points /\ Series(n, xs)[k] = fetch[n].points[j]
            /\ T(Series(n, xs)[k]) = xs[k]
        BY <1>1, <3>1, <4>1, SeriesIs, Zenon
      <4> HIDE DEF j
      <4> QED BY <4>2 DEF ToSet
    <3>3. ASSUME NEW i \in ToSet(fetch[n].points)
          PROVE  \E k \in DOMAIN xs : Series(n, xs)[k] # Null /\ T(Series(n, xs)[k]) = T(i)
      <4>1. PICK j \in DOMAIN fetch[n].points : fetch[n].points[j] = i
        BY DEF ToSet
      <4>2. PICK k \in DOMAIN xs : T(i) = xs[k]
        BY <1>1, <4>1, ColumnOf DEF xs
      <4>3. j \in At(n, xs[k])
        BY <4>1, <4>2 DEF At
      <4>4. Series(n, xs)[k] # Null /\ T(Series(n, xs)[k]) = xs[k]
        BY <1>1, <3>1, <4>3, SeriesIs, Zenon
      <4> QED BY <4>2, <4>4
    <3> QED BY <3>2, <3>3, Zenon DEF ValuesAtTheirTime, EveryPointHasAColumn
  <2> QED BY <2>1, <2>2 DEF xs
<1>2. StoreInv /\ RequestInv => ChartIsFaithful
  BY <1>1, Zenon DEF ChartIsFaithful
<1> QED BY <1>2, RequestInvariant, PTL

\* Of the samples that share a millisecond a curve has the newest: the order of
\* the query reaches the chart (queries.go:209, overview.js:74-79).
THEOREM NewestIsDrawn == Spec => []NewestOfMillisecond
<1>1. ASSUME StoreInv, RequestInv, Drawn, NEW n \in Metric, NEW k \in DOMAIN Timestamps,
             NEW i \in ToSet(fetch[n].points), T(i) = Timestamps[k]
      PROVE  pushes[Series(n, Timestamps)[k]].ts >= pushes[i].ts
  <2> DEFINE pts == fetch[n].points
             xs == Timestamps
             j == Max(At(n, xs[k]))
  <2>1. Answered(n)
    BY <1>1 DEF Drawn, Answered
  <2>2. PICK m \in DOMAIN pts : pts[m] = i
    BY DEF ToSet
  <2>3. m \in At(n, xs[k])
    BY <1>1, <2>2 DEF At
  <2> HIDE DEF xs
  <2>4. j \in DOMAIN pts /\ m <= j /\ Series(n, xs)[k] = pts[j]
    <3>1. k \in DOMAIN xs
      BY DEF xs
    <3> QED BY <1>1, <2>1, <2>3, <3>1, SeriesIs, Zenon
  <2> HIDE DEF j
  <2>5. /\ pts \in Seq(Nat) /\ Ordered(pts)
        /\ \A l \in DOMAIN pts : pushes[pts[l]].ts \in Int
    BY <1>1, <2>1, PointsOf
  <2> HIDE DEF pts
  <2>6. pushes[pts[m]].ts <= pushes[pts[j]].ts
    BY <2>4, <2>5, OrderedThroughout
  <2>7. pushes[pts[m]].ts \in Int /\ pushes[pts[j]].ts \in Int
    BY <2>4, <2>5
  <2> QED BY <2>2, <2>4, <2>6, <2>7 DEF xs
<1>2. StoreInv /\ RequestInv => NewestOfMillisecond
  BY <1>1, Zenon DEF NewestOfMillisecond
<1> QED BY <1>2, RequestInvariant, PTL
=============================================================================
