------------------------ MODULE DashboardReadsProofs ------------------------
(***************************************************************************)
(* What pages and API show while pushes are saved, for any machines,       *)
(* metrics, handlers, pushes and requests.                                 *)
(***************************************************************************)
EXTENDS DashboardReads, FiniteSetTheorems, WellFoundedInduction, TLAPS

\* A set of numbers has a least one, and a greatest one when it is bounded.
LEMMA LeastNatural ==
  ASSUME NEW S, S \subseteq Nat, S # {}
  PROVE  \E x \in S : \A y \in S : x <= y
<1> DEFINE R == {p \in Nat \X Nat : p[1] < p[2]}
<1>1. IsWellFoundedOn(R, Nat)
  BY NatLessThanWellFounded DEF OpToRel
<1> HIDE DEF R
<1>2. PICK x \in S : \A y \in S : ~(<<y, x>> \in R)
  BY <1>1, WFMin
<1>3. \A y \in S : ~(y < x)
  BY <1>2 DEF R
<1> QED BY <1>3

LEMMA MinIn ==
  ASSUME NEW S, S \subseteq Nat, S # {}
  PROVE  Min(S) \in S
BY LeastNatural DEF Min

LEMMA MaxIn ==
  ASSUME NEW a \in Int, NEW b \in Int, NEW S, S \subseteq a..b, S # {}
  PROVE  Max(S) \in S /\ \A y \in S : y <= Max(S)
<1> DEFINE D == {d \in 0..(b - a) : b - d \in S}
<1>1. D \subseteq Nat /\ D # {}
  <2>1. PICK x \in S : TRUE
    OBVIOUS
  <2>2. b - x \in 0..(b - a) /\ b - (b - x) = x
    BY <2>1
  <2>3. b - x \in D
    BY <2>1, <2>2
  <2>4. D \subseteq Nat
    OBVIOUS
  <2> HIDE DEF D
  <2> QED BY <2>3, <2>4
<1>2. \E d \in D : \A e \in D : d <= e
  <2> HIDE DEF D
  <2> QED BY <1>1, LeastNatural
<1>3. PICK d \in D : \A e \in D : d <= e
  BY <1>2
<1>4. \A y \in S : b - d >= y
  <2> TAKE y \in S
  <2>1. b - y \in 0..(b - a) /\ b - (b - y) = y
    OBVIOUS
  <2>2. b - y \in D
    BY <2>1
  <2> QED BY <1>3, <2>1, <2>2
<1>5. b - d \in S
  BY <1>3
<1> QED BY <1>4, <1>5 DEF Max

-----------------------------------------------------------------------------
(* The queries: of the rows of a metric one bears the greatest timestamp,  *)
(* and the query answers such a row.                                       *)

Row == [machine : Machine, names : Carries, ts : Times, at : 0..MaxNow, committed : 0..MaxNow]

LEMMA TimestampType ==
  ASSUME log \in Seq(Row), NEW n \in Name, NEW i \in DOMAIN log
  PROVE  Timestamp(i, n) \in -(Skew + Delay)..(MaxNow + Skew)
<1>1. log[i].ts \in Times
  <2>1. log[i] \in Row
    OBVIOUS
  <2> QED BY <2>1 DEF Row
<1>2. ModuleOf[n] \in Modules
  BY DEF Modules
<1> QED BY <1>1, <1>2 DEF Timestamp, Times

LEMMA LatestIsARow ==
  ASSUME log \in Seq(Row), NEW m, NEW n \in Recorded(m)
  PROVE  /\ GetLatestMetrics(m)[n] \in Rows(m, n)
         /\ \A j \in Rows(m, n) : Timestamp(j, n) <= Timestamp(GetLatestMetrics(m)[n], n)
<1> DEFINE times == {Timestamp(i, n) : i \in Rows(m, n)}
           latest == {i \in Rows(m, n) :
                         \A j \in Rows(m, n) : Timestamp(j, n) <= Timestamp(i, n)}
<1>1. Rows(m, n) \subseteq 1..Len(log) /\ Rows(m, n) # {} /\ n \in Name
  BY DEF Rows, Recorded
<1>2. times \subseteq -(Skew + Delay)..(MaxNow + Skew)
  BY <1>1, TimestampType
<1>3. -(Skew + Delay) \in Int /\ MaxNow + Skew \in Int
  BY TimeAssumption
<1>4. times # {}
  BY <1>1
<1>5. Max(times) \in times /\ \A t \in times : t <= Max(times)
  <2> HIDE DEF times
  <2> QED BY <1>2, <1>3, <1>4, MaxIn
<1>6. latest # {}
  BY <1>5
<1>7. Max(latest) \in latest
  <2>1. latest \subseteq 1..Len(log) /\ Len(log) \in Int /\ 1 \in Int
    <3>1. Len(log) \in Nat
      OBVIOUS
    <3> QED BY <1>1, <3>1
  <2> HIDE DEF latest
  <2> QED BY <1>6, <2>1, MaxIn
<1>8. GetLatestMetrics(m)[n] = Max(latest)
  BY DEF GetLatestMetrics
<1> QED BY <1>7, <1>8

-----------------------------------------------------------------------------
(* Types.  A request is a function of its fields, as EXCEPT needs.         *)

Fields == {"kind", "machine", "linked", "todo", "status", "since", "now",
           "sidebar", "metrics", "cards"}

StoreOK == /\ now \in 0..MaxNow
           /\ saving \in [Handler -> PushRow \cup {NoPush}]
           /\ log \in Seq(Row)
           /\ DOMAIN agents \subseteq Machine
           /\ \A m \in DOMAIN agents : agents[m] \in [first : 0..MaxNow, last : 0..MaxNow]

Kind == {"home", "overview", "api agents", "api metrics"}

StepName == {"exists", "clock", "agents", "metrics", "modules"}

RequestOK(r) == /\ r = [f \in Fields |-> r[f]]
                /\ r.kind \in Kind
                /\ r.todo \in Seq(StepName)
                /\ r.status \in {0, 200, 303, 404, 500}
                /\ r.since \in 0..Len(log)
                /\ r.now \in 0..now
                /\ DOMAIN r.sidebar \subseteq Machine
                /\ \A n \in DOMAIN r.metrics : r.metrics[n] \in 1..Len(log)

store == <<now, saving, log, agents>>

\* The steps of requests leave the store alone.
RequestSteps == \/ Request \/ Redirect \/ FollowLink \/ Leave
                \/ CheckExists \/ ReadClock \/ ReadAgents \/ ReadMetrics \/ ReadModules
                \/ QueryFails

LEMMA RequestsOnlyRead == RequestSteps => UNCHANGED store
BY DEF RequestSteps, Request, Redirect, FollowLink, Leave, CheckExists, ReadClock, ReadAgents,
       ReadMetrics, ReadModules, QueryFails, Begin, Read, store

LEMMA UpsertType ==
  ASSUME StoreOK, NEW m \in Machine, NEW t \in 0..MaxNow
  PROVE  /\ DOMAIN Upsert(m, t) = DOMAIN agents \cup {m}
         /\ \A x \in DOMAIN Upsert(m, t) :
               Upsert(m, t)[x] \in [first : 0..MaxNow, last : 0..MaxNow]
<1>1. DOMAIN Upsert(m, t) = DOMAIN agents \cup {m}
  BY DEF Upsert
<1>2. ASSUME NEW x \in DOMAIN Upsert(m, t)
      PROVE  Upsert(m, t)[x] \in [first : 0..MaxNow, last : 0..MaxNow]
  <2>1. CASE x # m
    BY <1>1, <2>1 DEF Upsert, StoreOK
  <2>2. CASE x = m /\ m \in DOMAIN agents
    BY <1>1, <2>2 DEF Upsert, StoreOK
  <2>3. CASE x = m /\ m \notin DOMAIN agents
    BY <1>1, <2>3 DEF Upsert, StoreOK
  <2> QED BY <2>1, <2>2, <2>3
<1> QED BY <1>1, <1>2

LEMMA UpsertLast ==
  ASSUME StoreOK, NEW m \in Machine, NEW t, NEW x \in DOMAIN agents \cup {m}
  PROVE  Upsert(m, t)[x].last = IF x = m THEN t ELSE agents[x].last
<1>1. CASE x # m
  BY <1>1 DEF Upsert, StoreOK
<1>2. CASE x = m /\ m \in DOMAIN agents
  BY <1>2 DEF Upsert, StoreOK
<1>3. CASE x = m /\ m \notin DOMAIN agents
  BY <1>3 DEF Upsert, StoreOK
<1> QED BY <1>1, <1>2, <1>3

LEMMA StampType ==
  ASSUME StoreOK, NEW h \in Handler, NEW m \in Machine, NEW names \in Carries,
         StampReceived(h, m, names)
  PROVE  /\ saving'[h] \in PushRow /\ saving'[h].at = now
         /\ saving' = [saving EXCEPT ![h] = saving'[h]]
<1>1. PICK ts \in AgentTimes :
         saving' = [saving EXCEPT ![h] = [machine |-> m, names |-> names, ts |-> ts, at |-> now]]
  BY DEF StampReceived
<1>2. ts \in Times
  <2>1. PICK o \in Offsets : ts = [d \in Modules |-> now + o[d]]
    BY <1>1 DEF AgentTimes
  <2>2. \A d \in Modules : o[d] \in -(Skew + Delay)..Skew
    BY OffsetsAssumption
  <2> QED BY <2>1, <2>2, TimeAssumption DEF StoreOK, Times
<1> QED BY <1>1, <1>2 DEF StoreOK, PushRow

LEMMA CommitType ==
  ASSUME StoreOK, NEW h \in Handler, Commit(h)
  PROVE  /\ saving[h] \in PushRow
         /\ \E row \in Row : log' = Append(log, row) /\ row.machine = saving[h].machine
         /\ log' \in Seq(Row) /\ Len(log') = Len(log) + 1
         /\ \A i \in DOMAIN log : i \in DOMAIN log' /\ log'[i] = log[i]
         /\ agents' = Upsert(saving[h].machine, saving[h].at)
         /\ saving' = [saving EXCEPT ![h] = NoPush]
<1> DEFINE p == saving[h]
           row == [machine |-> p.machine, names |-> p.names, ts |-> p.ts,
                   at |-> p.at, committed |-> now]
<1>1. p \in PushRow
  BY DEF Commit, StoreOK
<1>2. row \in Row
  BY <1>1 DEF PushRow, Row, StoreOK
<1>3. log' = Append(log, row) /\ log \in Seq(Row)
  BY DEF Commit, StoreOK
<1> HIDE DEF row
<1>4. log' \in Seq(Row) /\ Len(log') = Len(log) + 1
  BY <1>2, <1>3
<1>5. \A i \in DOMAIN log : i \in DOMAIN log' /\ log'[i] = log[i]
  BY <1>2, <1>3
<1>6. row.machine = p.machine
  BY DEF row
<1> QED BY <1>1, <1>2, <1>3, <1>4, <1>5, <1>6 DEF Commit

LEMMA StoreStep == StoreOK /\ [Next]_vars => StoreOK'
<1> SUFFICES ASSUME StoreOK, [Next]_vars PROVE StoreOK'
  OBVIOUS
<1>1. CASE UNCHANGED store
  BY <1>1 DEF store, StoreOK
<1>2. CASE Tick
  BY <1>2, TimeAssumption DEF Tick, StoreOK
<1>3. ASSUME NEW h \in Handler, NEW m \in Machine, NEW names \in Carries,
             StampReceived(h, m, names)
      PROVE  StoreOK'
  <2>1. UNCHANGED <<now, log, agents>>
    BY <1>3 DEF StampReceived
  <2> QED BY <1>3, <2>1, StampType DEF StoreOK
<1>4. ASSUME NEW h \in Handler, Commit(h) PROVE StoreOK'
  <2>1. saving[h].machine \in Machine /\ saving[h].at \in 0..MaxNow
    BY <1>4, CommitType DEF PushRow
  <2>2. now' = now
    BY <1>4 DEF Commit
  <2>3. agents' = Upsert(saving[h].machine, saving[h].at)
    BY <1>4, CommitType
  <2>4. /\ DOMAIN agents' = DOMAIN agents \cup {saving[h].machine}
        /\ \A m \in DOMAIN agents' : agents'[m] \in [first : 0..MaxNow, last : 0..MaxNow]
    BY <2>1, <2>3, UpsertType
  <2> QED BY <1>4, <2>1, <2>2, <2>4, CommitType DEF StoreOK
<1>5. ASSUME NEW h \in Handler, SaveFails(h) PROVE StoreOK'
  BY <1>5 DEF SaveFails, StoreOK
<1> QED BY <1>1, <1>2, <1>3, <1>4, <1>5, RequestsOnlyRead DEF Next, RequestSteps, vars, store

LEMMA LogGrows ==
  ASSUME StoreOK, [Next]_vars
  PROVE  \A i \in DOMAIN log : i \in DOMAIN log' /\ log'[i] = log[i]
<1>1. CASE log' = log
  BY <1>1
<1>2. ASSUME NEW h \in Handler, Commit(h)
      PROVE  \A i \in DOMAIN log : i \in DOMAIN log' /\ log'[i] = log[i]
  BY <1>2, CommitType
<1> QED BY <1>1, <1>2, RequestsOnlyRead DEF Next, RequestSteps, vars, store, Tick, StampReceived,
           SaveFails

LEMMA StepsType ==
  ASSUME NEW kind \in Kind
  PROVE  Steps(kind) \in Seq(StepName)
<1>1. OverviewSteps \in Seq(StepName)
  BY DEF OverviewSteps, StepName
<1>2. HomeSteps \in Seq(StepName)
  BY DEF HomeSteps, StepName
<1>3. ApiAgentsSteps \in Seq(StepName)
  BY DEF ApiAgentsSteps, StepName
<1>4. ApiMetricsSteps \in Seq(StepName)
  BY DEF ApiMetricsSteps, StepName
<1> QED BY <1>1, <1>2, <1>3, <1>4 DEF Steps, Kind

LEMMA NewRequestOK ==
  ASSUME StoreOK, NEW kind \in Kind, NEW m, NEW linked
  PROVE  RequestOK(NewRequest(kind, m, linked))
<1> DEFINE r == NewRequest(kind, m, linked)
<1>1. r = [f \in Fields |-> r[f]]
  BY DEF NewRequest, Fields
<1>2. r.todo \in Seq(StepName)
  BY StepsType DEF NewRequest
<1>3. r.kind \in Kind /\ r.status = 200 /\ r.since = Len(log) /\ r.now = 0
      /\ DOMAIN r.sidebar = {} /\ DOMAIN r.metrics = {}
  BY DEF NewRequest, Nothing
<1>4. Len(log) \in Nat /\ now \in Nat
  BY TimeAssumption DEF StoreOK
<1>5. RequestOK(r)
  <2> HIDE DEF r
  <2>1. r.since \in 0..Len(log) /\ r.now \in 0..now
    BY <1>3, <1>4
  <2>2. DOMAIN r.sidebar \subseteq Machine
        /\ \A n \in DOMAIN r.metrics : r.metrics[n] \in 1..Len(log)
    BY <1>3
  <2> QED BY <1>1, <1>2, <1>3, <2>1, <2>2, Zenon DEF RequestOK
<1> QED BY <1>5

LEMMA NoRequestOK ==
  ASSUME StoreOK
  PROVE  RequestOK(NoRequest) /\ NoRequest.kind = "home" /\ NoRequest.todo = <<>>
         /\ DOMAIN NoRequest.sidebar = {} /\ NoRequest.status = 0
<1> DEFINE r == NewRequest("home", 0, FALSE)
<1>1. r = [f \in Fields |-> r[f]]
  BY DEF NewRequest, Fields
<1>2. r.kind = "home" /\ r.now = 0 /\ DOMAIN r.sidebar = {} /\ DOMAIN r.metrics = {}
  BY DEF NewRequest, Nothing
<1>3. /\ NoRequest = [f \in Fields |-> NoRequest[f]]
      /\ NoRequest.todo = <<>> /\ NoRequest.since = 0 /\ NoRequest.status = 0
      /\ \A f \in Fields \ {"todo", "since", "status"} : NoRequest[f] = r[f]
  <2> HIDE DEF r
  <2>1. NoRequest = [r EXCEPT !.todo = <<>>, !.since = 0, !.status = 0]
    BY DEF NoRequest, r
  <2> QED BY <1>1, <2>1 DEF Fields
<1>4. 0 \in 0..Len(log) /\ 0 \in 0..now
  BY TimeAssumption DEF StoreOK
<1>5. NoRequest.kind = "home" /\ NoRequest.now = 0 /\ DOMAIN NoRequest.sidebar = {}
      /\ DOMAIN NoRequest.metrics = {}
  <2> HIDE DEF r
  <2> QED BY <1>2, <1>3 DEF Fields
<1>6. <<>> \in Seq(StepName)
  OBVIOUS
<1> HIDE DEF r
<1> QED BY <1>3, <1>4, <1>5, <1>6 DEF RequestOK, Kind

LEMMA BeginOK ==
  ASSUME StoreOK, NEW kind \in Kind, NEW m, NEW linked, Begin(kind, m, linked)
  PROVE  RequestOK(req)'
BY NewRequestOK DEF Begin, RequestOK

\* What a step of a request leaves of it.
LEMMA TailType ==
  ASSUME RequestOK(req), req.todo # <<>>
  PROVE  Tail(req.todo) \in Seq(StepName)
BY DEF RequestOK

LEMMA ReadOK ==
  ASSUME RequestOK(req), req.todo # <<>>, UNCHANGED <<now, log>>,
         NEW fields, RequestOK(fields), req' = [fields EXCEPT !.todo = Tail(req.todo)]
  PROVE  RequestOK(req)'
<1>1. req' = [f \in Fields |-> req'[f]] /\ req'.todo = Tail(req.todo)
      /\ \A f \in Fields \ {"todo"} : req'[f] = fields[f]
  <2>1. fields = [f \in Fields |-> fields[f]] /\ "todo" \in Fields
    BY DEF RequestOK, Fields
  <2> QED BY <2>1
<1>2. /\ req'.kind = fields.kind /\ req'.status = fields.status /\ req'.since = fields.since
      /\ req'.now = fields.now /\ req'.sidebar = fields.sidebar
      /\ req'.metrics = fields.metrics
  BY <1>1 DEF Fields
<1> QED BY <1>1, <1>2, TailType, ZenonT(60) DEF RequestOK

LEMMA StopOK ==
  ASSUME RequestOK(req), UNCHANGED <<now, log>>, NEW status \in {404, 500}, Stop(status)
  PROVE  RequestOK(req)'
<1>1. req' = [f \in Fields |-> req'[f]] /\ req'.todo = <<>> /\ req'.status = status
      /\ \A f \in Fields \ {"todo", "status"} : req'[f] = req[f]
  BY DEF RequestOK, Fields, Stop
<1>2. /\ req'.kind = req.kind /\ req'.since = req.since /\ req'.now = req.now
      /\ req'.sidebar = req.sidebar /\ req'.metrics = req.metrics
  BY <1>1 DEF Fields
<1>3. req'.todo \in Seq(StepName) /\ req'.status \in {0, 200, 303, 404, 500}
  BY <1>1
<1> QED BY <1>1, <1>2, <1>3, ZenonT(60) DEF RequestOK

\* Setting the fields that a step reads.
LEMMA ReadFieldsOK ==
  ASSUME StoreOK, RequestOK(req)
  PROVE  /\ RequestOK([req EXCEPT !.now = now])
         /\ RequestOK([req EXCEPT !.metrics = GetLatestMetrics(req.machine)])
         /\ RequestOK([req EXCEPT !.cards = ListModulesForAgent(req.machine)])
<1>1. RequestOK([req EXCEPT !.now = now])
  <2>1. now \in 0..now
    BY TimeAssumption DEF StoreOK
  <2> QED BY <2>1, ZenonT(60) DEF RequestOK, Fields
<1>2. RequestOK([req EXCEPT !.metrics = GetLatestMetrics(req.machine)])
  <2> DEFINE latest == GetLatestMetrics(req.machine)
  <2>1. \A n \in DOMAIN latest : latest[n] \in 1..Len(log)
    <3>1. DOMAIN latest = Recorded(req.machine) /\ log \in Seq(Row)
      BY DEF GetLatestMetrics, StoreOK
    <3>2. \A n \in Recorded(req.machine) : latest[n] \in Rows(req.machine, n)
      BY <3>1, LatestIsARow
    <3> QED BY <3>1, <3>2 DEF Rows
  <2> HIDE DEF latest
  <2>2. RequestOK([req EXCEPT !.metrics = latest])
    BY <2>1 DEF RequestOK, Fields
  <2> QED BY <2>2 DEF latest
<1>3. RequestOK([req EXCEPT !.cards = ListModulesForAgent(req.machine)])
  BY ZenonT(60) DEF RequestOK, Fields
<1> QED BY <1>1, <1>2, <1>3

LEMMA RequestStep == StoreOK /\ RequestOK(req) /\ [Next]_vars => RequestOK(req)'
<1> SUFFICES ASSUME StoreOK, RequestOK(req), [Next]_vars PROVE RequestOK(req)'
  OBVIOUS
<1>1. CASE req' = req /\ now' \in {now, now + 1} /\ Len(log') \in {Len(log), Len(log) + 1}
  <2>1. /\ now \in Nat /\ Len(log) \in Nat
        /\ 0..now \subseteq 0..now' /\ 0..Len(log) \subseteq 0..Len(log')
        /\ 1..Len(log) \subseteq 1..Len(log')
    BY <1>1, TimeAssumption DEF StoreOK
  <2> QED BY <1>1, <2>1 DEF RequestOK
<1>2. ASSUME NEW h \in Handler, Commit(h) PROVE RequestOK(req)'
  BY <1>1, <1>2, CommitType DEF Commit
<1>3. CASE Request \/ Redirect \/ FollowLink
  BY <1>3, BeginOK DEF Request, Redirect, FollowLink, Kind
<1>4. CASE Leave
  BY <1>4, NoRequestOK DEF Leave, RequestOK
<1>5. CASE CheckExists
  BY <1>5, ReadOK, StopOK DEF CheckExists, At, Read
<1>6. CASE ReadClock
  BY <1>6, ReadOK, ReadFieldsOK DEF ReadClock, At, Read
<1>7. CASE ReadAgents
  <2>1. PICK status \in {200, 303} :
           Read([req EXCEPT !.sidebar = ListAgents, !.status = status])
    BY <1>7 DEF ReadAgents
  <2>2. PICK r : r = [req EXCEPT !.sidebar = ListAgents, !.status = status]
    OBVIOUS
  <2>3. /\ req.todo # <<>> /\ now' = now /\ log' = log
        /\ req' = [r EXCEPT !.todo = Tail(req.todo)]
    BY <1>7, <2>1, <2>2 DEF ReadAgents, At, Read
  <2>4. /\ r = [f \in Fields |-> r[f]] /\ r.sidebar = ListAgents /\ r.status = status
        /\ r.kind = req.kind /\ r.since = req.since /\ r.now = req.now
        /\ r.metrics = req.metrics
    BY <2>2 DEF RequestOK, Fields
  <2>5. req' = [f \in Fields |-> req'[f]] /\ req'.todo = Tail(req.todo)
        /\ \A f \in Fields \ {"todo"} : req'[f] = r[f]
    BY <2>3, <2>4 DEF Fields
  <2>6. /\ req'.kind = req.kind /\ req'.since = req.since /\ req'.now = req.now
        /\ req'.metrics = req.metrics /\ req'.sidebar = ListAgents /\ req'.status = status
    BY <2>4, <2>5, ZenonT(60) DEF Fields
  <2>7. DOMAIN req'.sidebar \subseteq Machine
    BY <2>6 DEF StoreOK, ListAgents
  <2>8. req'.status \in {0, 200, 303, 404, 500} /\ req'.todo \in Seq(StepName)
    BY <2>3, <2>5, <2>6, TailType
  <2> QED BY <2>3, <2>5, <2>6, <2>7, <2>8, Zenon DEF RequestOK
<1>8. CASE ReadMetrics
  BY <1>8, ReadOK, ReadFieldsOK DEF ReadMetrics, At, Read
<1>9. CASE ReadModules
  BY <1>9, ReadOK, ReadFieldsOK DEF ReadModules, At, Read
<1>10. CASE QueryFails
  BY <1>10, StopOK DEF QueryFails
<1> QED BY <1>1, <1>2, <1>3, <1>4, <1>5, <1>6, <1>7, <1>8, <1>9, <1>10
        DEF Next, vars, Tick, StampReceived, SaveFails

LEMMA TypeInit == Init => StoreOK /\ RequestOK(req)
<1> SUFFICES ASSUME Init PROVE StoreOK /\ RequestOK(req)
  OBVIOUS
<1>1. StoreOK
  BY TimeAssumption DEF Init, StoreOK, Nothing
<1>2. RequestOK(req)
  BY <1>1, NoRequestOK DEF Init
<1> QED BY <1>1, <1>2

\* The invariant of types, with requests as functions of their fields.
LEMMA Typed == Spec => [](StoreOK /\ RequestOK(req))
<1>1. StoreOK /\ RequestOK(req) /\ [Next]_vars => (StoreOK /\ RequestOK(req))'
  BY StoreStep, RequestStep
<1> QED BY TypeInit, <1>1, PTL DEF Spec

\* The requests, the handlers and the tables keep their types (queries.go:20-140,
\* overview.go:24-61, agents.go:31-58).
THEOREM TypeCorrect == Spec => []TypeOK
<1>1. StoreOK /\ RequestOK(req) => TypeOK
  BY DEF StoreOK, RequestOK, TypeOK, Row, Kind, StepName
<1> QED BY Typed, <1>1, PTL

-----------------------------------------------------------------------------
(* What each step does to the request's fields. *)

KeepsBut(S) == \A f \in Fields \ S : req'[f] = req[f]

LEMMA NewRequestFields ==
  ASSUME NEW kind, NEW m, NEW linked
  PROVE  LET r == NewRequest(kind, m, linked) IN
         /\ r.kind = kind /\ r.machine = m /\ r.linked = linked /\ r.todo = Steps(kind)
         /\ r.status = 200 /\ DOMAIN r.sidebar = {}
BY DEF NewRequest, Nothing

LEMMA StepFields ==
  ASSUME RequestOK(req)
  PROVE  /\ CheckExists => \/ AgentExists(req.machine) /\ KeepsBut({"todo"})
                           \/ ~AgentExists(req.machine) /\ KeepsBut({"todo", "status"})
         /\ ReadClock => /\ req'.now = now /\ KeepsBut({"todo", "now"})
                         /\ req'.todo = Tail(req.todo)
         /\ ReadAgents => /\ req'.sidebar = agents /\ req'.todo = Tail(req.todo)
                          /\ req'.status = 303 => DOMAIN agents # {}
                          /\ req'.status # 404
                          /\ KeepsBut({"todo", "status", "sidebar"})
         /\ ReadMetrics => KeepsBut({"todo", "metrics"})
         /\ ReadModules => KeepsBut({"todo", "cards"})
         /\ QueryFails => req'.status = 500 /\ KeepsBut({"todo", "status"})
<1>1. req = [f \in Fields |-> req[f]]
  BY DEF RequestOK
<1>2. ASSUME CheckExists
      PROVE  \/ AgentExists(req.machine) /\ KeepsBut({"todo"})
             \/ ~AgentExists(req.machine) /\ KeepsBut({"todo", "status"})
  BY <1>1, <1>2 DEF CheckExists, Read, Stop, KeepsBut
<1>3. ASSUME ReadClock
      PROVE  /\ req'.now = now /\ KeepsBut({"todo", "now"})
             /\ req'.todo = Tail(req.todo)
  <2>1. PICK r : r = [req EXCEPT !.now = now]
    OBVIOUS
  <2>2. req' = [r EXCEPT !.todo = Tail(req.todo)]
    BY <1>3, <2>1 DEF ReadClock, Read
  <2>3. /\ r = [f \in Fields |-> r[f]] /\ r.now = now
        /\ \A f \in Fields \ {"now"} : r[f] = req[f]
    BY <1>1, <2>1 DEF Fields
  <2> QED BY <2>2, <2>3 DEF KeepsBut, Fields
<1>4. ASSUME ReadAgents
      PROVE  /\ req'.sidebar = agents /\ req'.todo = Tail(req.todo)
             /\ req'.status = 303 => DOMAIN agents # {}
             /\ req'.status # 404
             /\ KeepsBut({"todo", "status", "sidebar"})
  <2> DEFINE status == IF req.kind = "home" /\ DOMAIN ListAgents # {} THEN 303 ELSE 200
  <2>1. /\ status = 303 => DOMAIN agents # {}
        /\ status # 404
        /\ Read([req EXCEPT !.sidebar = ListAgents, !.status = status])
    BY <1>4 DEF ReadAgents, ListAgents
  <2> HIDE DEF status
  <2>2. PICK r : r = [req EXCEPT !.sidebar = ListAgents, !.status = status]
    OBVIOUS
  <2>3. req' = [r EXCEPT !.todo = Tail(req.todo)]
    BY <2>1, <2>2 DEF Read
  <2>4. /\ r = [f \in Fields |-> r[f]] /\ r.sidebar = agents /\ r.status = status
        /\ \A f \in Fields \ {"sidebar", "status"} : r[f] = req[f]
    BY <1>1, <2>2 DEF Fields, ListAgents
  <2> QED BY <2>1, <2>3, <2>4 DEF KeepsBut, Fields
<1>5. ASSUME ReadMetrics PROVE KeepsBut({"todo", "metrics"})
  BY <1>1, <1>5 DEF ReadMetrics, Read, KeepsBut
<1>6. ASSUME ReadModules PROVE KeepsBut({"todo", "cards"})
  BY <1>1, <1>6 DEF ReadModules, Read, KeepsBut
<1>7. ASSUME QueryFails PROVE req'.status = 500 /\ KeepsBut({"todo", "status"})
  BY <1>1, <1>7 DEF QueryFails, Stop, KeepsBut, Fields
<1> QED BY <1>2, <1>3, <1>4, <1>5, <1>6, <1>7

-----------------------------------------------------------------------------
(* The redirect of the home page and the links lead to a page.             *)

AgentsGrow == \A m \in DOMAIN agents : m \in DOMAIN agents'

LEMMA AgentsStay ==
  ASSUME StoreOK, [Next]_vars
  PROVE  AgentsGrow
<1>1. ASSUME NEW h \in Handler, Commit(h) PROVE AgentsGrow
  <2>1. saving[h].machine \in Machine /\ saving[h].at \in 0..MaxNow
    BY <1>1, CommitType DEF PushRow
  <2>2. agents' = Upsert(saving[h].machine, saving[h].at)
    BY <1>1, CommitType
  <2>3. DOMAIN agents' = DOMAIN agents \cup {saving[h].machine}
    BY <2>1, <2>2, UpsertType
  <2> QED BY <2>3 DEF AgentsGrow
<1>2. CASE agents' = agents
  BY <1>2 DEF AgentsGrow
<1> QED BY <1>1, <1>2, RequestsOnlyRead DEF Next, RequestSteps, vars, store, Tick, StampReceived,
           SaveFails

Leads == /\ DOMAIN req.sidebar \subseteq DOMAIN agents
         /\ req.linked => req.machine \in DOMAIN agents /\ req.status # 404
         /\ req.status = 303 => DOMAIN req.sidebar # {}

LEMMA LeadsStep == StoreOK /\ RequestOK(req) /\ Leads /\ [Next]_vars => Leads'
<1> SUFFICES ASSUME StoreOK, RequestOK(req), Leads, [Next]_vars PROVE Leads'
  OBVIOUS
<1> USE AgentsStay DEF AgentsGrow
<1>1. CASE req' = req
  BY <1>1 DEF Leads
<1>2. ASSUME NEW kind, NEW m, NEW linked, linked => m \in DOMAIN agents, Begin(kind, m, linked)
      PROVE  Leads'
  <2>1. /\ req'.machine = m /\ req'.linked = linked /\ req'.status = 200
        /\ DOMAIN req'.sidebar = {}
    BY <1>2, NewRequestFields DEF Begin
  <2> QED BY <1>2, <2>1 DEF Leads
<1>3. CASE Request
  BY <1>2, <1>3 DEF Request
<1>4. CASE Redirect
  <2>1. DOMAIN req.sidebar \subseteq Nat /\ DOMAIN req.sidebar # {}
    <3>1. req.status = 303
      BY <1>4 DEF Redirect
    <3>2. DOMAIN req.sidebar \subseteq Machine
      BY DEF RequestOK
    <3>3. DOMAIN req.sidebar # {}
      BY <3>1, Zenon DEF Leads
    <3> QED BY <3>2, <3>3, MachineAssumption
  <2>2. Min(DOMAIN req.sidebar) \in DOMAIN agents
    BY <2>1, MinIn DEF Leads
  <2> QED BY <1>2, <1>4, <2>2 DEF Redirect
<1>5. CASE FollowLink
  <2>1. PICK m \in DOMAIN req.sidebar : Begin("overview", m, TRUE)
    BY <1>5 DEF FollowLink
  <2>2. m \in DOMAIN agents
    BY DEF Leads
  <2> QED BY <1>2, <2>1, <2>2
<1>6. CASE Leave
  <2>1. NoRequest.linked = FALSE
    BY DEF NoRequest, NewRequest
  <2> QED BY <1>6, <2>1, NoRequestOK DEF Leave, Leads
<1>7. CASE CheckExists
  <2>1. req'.sidebar = req.sidebar /\ req'.linked = req.linked /\ req'.machine = req.machine
    BY <1>7, StepFields DEF KeepsBut, Fields
  <2>2. CASE AgentExists(req.machine) /\ KeepsBut({"todo"})
    <3>1. req'.status = req.status
      BY <2>2 DEF KeepsBut, Fields
    <3> QED BY <2>1, <3>1 DEF Leads
  <2>3. CASE ~AgentExists(req.machine)
    <3>1. Stop(404)
      BY <1>7, <2>3 DEF CheckExists
    <3>2. req'.status = 404
      BY <3>1 DEF Stop, RequestOK, Fields
    <3> QED BY <2>1, <2>3, <3>2 DEF Leads, AgentExists
  <2> QED BY <1>7, <2>2, <2>3, StepFields
<1>8. CASE ReadClock \/ ReadMetrics \/ ReadModules
  <2>1. /\ req'.sidebar = req.sidebar /\ req'.linked = req.linked /\ req'.status = req.status
        /\ req'.machine = req.machine
    BY <1>8, StepFields DEF KeepsBut, Fields
  <2> QED BY <2>1 DEF Leads
<1>9. CASE ReadAgents
  <2>1. /\ req'.sidebar = agents /\ req'.linked = req.linked /\ req'.machine = req.machine
        /\ req'.status # 404 /\ (req'.status = 303 => DOMAIN agents # {})
    BY <1>9, StepFields DEF KeepsBut, Fields
  <2>2. agents' = agents
    BY <1>9 DEF ReadAgents, Read
  <2> QED BY <2>1, <2>2 DEF Leads
<1>10. CASE QueryFails
  <2>1. /\ req'.sidebar = req.sidebar /\ req'.linked = req.linked /\ req'.status = 500
        /\ req'.machine = req.machine
    BY <1>10, StepFields DEF KeepsBut, Fields
  <2> QED BY <2>1 DEF Leads
<1> QED BY <1>1, <1>3, <1>4, <1>5, <1>6, <1>7, <1>8, <1>9, <1>10
        DEF Next, vars, Tick, StampReceived, Commit, SaveFails

\* The redirect of the home page and the links of the sidebar never lead to
\* "agent not found": agents are never removed (home.go:13-31, overview.go:28-37).
THEOREM EveryLinkHolds == Spec => []LinksHold
<1>1. Init => Leads
  <2>1. NoRequest.linked = FALSE
    BY DEF NoRequest, NewRequest
  <2> QED BY <2>1, TypeInit, NoRequestOK DEF Init, Leads
<1>2. Leads => LinksHold
  BY DEF Leads, LinksHold
<1> QED BY <1>1, <1>2, LeadsStep, Typed, PTL DEF Spec

-----------------------------------------------------------------------------
(* When the API reads the clock. *)

\* No push bears a time to come, neither in the tables nor on its way there.
NotAhead == /\ \A h \in Handler : saving[h] # NoPush => saving[h].at \in 0..now
            /\ \A m \in DOMAIN agents : agents[m].last \in 0..now
            /\ \A m \in DOMAIN req.sidebar : req.sidebar[m].last \in 0..now

\* The API reads the agents and then the clock.
ApiOrder == req.kind = "api agents" =>
              \/ req.todo \in {ApiAgentsSteps, <<"clock">>}
              \/ req.todo = <<>> /\ req.status # 200
              \/ req.todo = <<>> /\ \A m \in DOMAIN req.sidebar : req.sidebar[m].last <= req.now

LEMMA NotAheadStep == StoreOK /\ RequestOK(req) /\ NotAhead /\ [Next]_vars => NotAhead'
<1> SUFFICES ASSUME StoreOK, RequestOK(req), NotAhead, [Next]_vars PROVE NotAhead'
  OBVIOUS
<1>1. 0..now \subseteq 0..(now + 1) /\ 0 \in 0..now /\ now \in 0..now
  BY TimeAssumption DEF StoreOK
<1>2. CASE Tick
  BY <1>1, <1>2 DEF Tick, NotAhead
<1>3. ASSUME NEW h \in Handler, NEW m \in Machine, NEW names \in Carries,
             StampReceived(h, m, names)
      PROVE  NotAhead'
  <2>1. UNCHANGED <<now, agents, req>>
    BY <1>3 DEF StampReceived
  <2>2. saving'[h].at = now /\ saving' = [saving EXCEPT ![h] = saving'[h]]
    BY <1>3, StampType
  <2>3. saving \in [Handler -> PushRow \cup {NoPush}]
    BY DEF StoreOK
  <2>4. \A g \in Handler : saving'[g] # NoPush => saving'[g].at \in 0..now
    BY <1>1, <2>2, <2>3 DEF NotAhead
  <2> QED BY <2>1, <2>4 DEF NotAhead
<1>4. ASSUME NEW h \in Handler, Commit(h) PROVE NotAhead'
  <2>1. UNCHANGED <<now, req>> /\ saving[h] # NoPush
    BY <1>4 DEF Commit
  <2>2. /\ saving[h].machine \in Machine /\ saving[h].at \in 0..MaxNow
        /\ saving' = [saving EXCEPT ![h] = NoPush]
        /\ agents' = Upsert(saving[h].machine, saving[h].at)
    BY <1>4, CommitType DEF PushRow
  <2>3. \A g \in Handler : saving'[g] # NoPush => saving'[g].at \in 0..now
    BY <2>2 DEF NotAhead, StoreOK
  <2>4. /\ DOMAIN agents' = DOMAIN agents \cup {saving[h].machine}
        /\ \A x \in DOMAIN agents' :
              agents'[x].last = IF x = saving[h].machine THEN saving[h].at ELSE agents[x].last
    <3>1. DOMAIN agents' = DOMAIN agents \cup {saving[h].machine}
      BY <2>2, UpsertType
    <3> QED BY <2>2, <3>1, UpsertLast
  <2>5. \A x \in DOMAIN agents' : agents'[x].last \in 0..now
    BY <2>1, <2>4 DEF NotAhead
  <2> QED BY <2>1, <2>3, <2>5 DEF NotAhead
<1>5. ASSUME NEW h \in Handler, SaveFails(h) PROVE NotAhead'
  BY <1>5 DEF SaveFails, NotAhead, StoreOK
<1>6. ASSUME UNCHANGED store,
             \/ req'.sidebar = req.sidebar
             \/ req'.sidebar = agents
             \/ DOMAIN req'.sidebar = {}
      PROVE  NotAhead'
  BY <1>6 DEF NotAhead, store
<1>7. ASSUME NEW kind, NEW m, NEW linked, Begin(kind, m, linked)
      PROVE  DOMAIN req'.sidebar = {}
  BY <1>7, NewRequestFields DEF Begin
<1>8. CASE Request \/ Redirect \/ FollowLink
  <2>1. DOMAIN req'.sidebar = {}
    BY <1>7, <1>8 DEF Request, Redirect, FollowLink
  <2> QED BY <1>6, <1>8, <2>1, RequestsOnlyRead DEF RequestSteps
<1>9. CASE Leave
  <2>1. DOMAIN req'.sidebar = {}
    BY <1>9, NoRequestOK DEF Leave
  <2> QED BY <1>6, <1>9, <2>1, RequestsOnlyRead DEF RequestSteps
<1>10. CASE CheckExists \/ ReadClock \/ ReadAgents \/ ReadMetrics \/ ReadModules \/ QueryFails
  <2>1. req'.sidebar = req.sidebar \/ req'.sidebar = agents
    BY <1>10, StepFields DEF KeepsBut, Fields
  <2> QED BY <1>6, <1>10, <2>1, RequestsOnlyRead DEF RequestSteps
<1>11. CASE UNCHANGED vars
  BY <1>6, <1>11 DEF vars, store
<1> QED BY <1>2, <1>3, <1>4, <1>5, <1>8, <1>9, <1>10, <1>11 DEF Next

LEMMA ApiOrderStep == StoreOK /\ RequestOK(req) /\ NotAhead /\ ApiOrder /\ [Next]_vars => ApiOrder'
<1> SUFFICES ASSUME StoreOK, RequestOK(req), NotAhead, ApiOrder, [Next]_vars PROVE ApiOrder'
  OBVIOUS
<1>1. CASE req' = req
  BY <1>1 DEF ApiOrder
<1>2. ASSUME NEW kind \in Kind, NEW m, NEW linked, Begin(kind, m, linked) PROVE ApiOrder'
  <2>1. req'.kind = kind /\ req'.todo = Steps(kind)
    BY <1>2, NewRequestFields DEF Begin
  <2>2. kind = "api agents" => Steps(kind) = ApiAgentsSteps
    BY DEF Steps
  <2> QED BY <2>1, <2>2 DEF ApiOrder
<1>3. CASE Request \/ Redirect \/ FollowLink
  BY <1>2, <1>3 DEF Request, Redirect, FollowLink, Kind
<1>4. CASE Leave
  BY <1>4, NoRequestOK DEF Leave, ApiOrder
<1>5. ASSUME req.kind = "api agents", req.todo # <<>>
      PROVE  \/ Head(req.todo) = "agents" /\ Tail(req.todo) = <<"clock">>
             \/ Head(req.todo) = "clock" /\ Tail(req.todo) = <<>>
  <2>1. CASE req.todo = ApiAgentsSteps
    BY <2>1 DEF ApiAgentsSteps
  <2>2. CASE req.todo = <<"clock">>
    BY <2>2
  <2> QED BY <1>5, <2>1, <2>2 DEF ApiOrder
<1>6. CASE CheckExists \/ ReadMetrics \/ ReadModules
  <2>1. req.todo # <<>> /\ Head(req.todo) \in {"exists", "metrics", "modules"}
    BY <1>6 DEF CheckExists, ReadMetrics, ReadModules, At
  <2>2. req'.kind = req.kind
    BY <1>6, StepFields DEF KeepsBut, Fields
  <2>3. req.kind # "api agents"
    BY <1>5, <2>1
  <2> QED BY <2>2, <2>3 DEF ApiOrder
<1>7. CASE ReadClock
  <2>1. /\ req'.kind = req.kind /\ req'.sidebar = req.sidebar /\ req'.now = now
        /\ req'.todo = Tail(req.todo)
    BY <1>7, StepFields DEF KeepsBut, Fields
  <2>2. req.todo # <<>> /\ Head(req.todo) = "clock"
    BY <1>7 DEF ReadClock, At
  <2>3. req.kind = "api agents" => req'.todo = <<>>
    BY <1>5, <2>1, <2>2
  <2>4. \A m \in DOMAIN req'.sidebar : req'.sidebar[m].last <= req'.now
    BY <2>1 DEF NotAhead
  <2> QED BY <2>1, <2>3, <2>4 DEF ApiOrder
<1>8. CASE ReadAgents
  <2>1. req'.kind = req.kind /\ req'.todo = Tail(req.todo)
    BY <1>8, StepFields DEF KeepsBut, Fields
  <2>2. req.todo # <<>> /\ Head(req.todo) = "agents"
    BY <1>8 DEF ReadAgents, At
  <2>3. req.kind = "api agents" => req'.todo = <<"clock">>
    BY <1>5, <2>1, <2>2
  <2> QED BY <2>1, <2>3 DEF ApiOrder
<1>9. CASE QueryFails
  <2>1. req'.status = 500
    BY <1>9, StepFields
  <2>2. req'.todo = <<>>
    BY <1>9 DEF QueryFails, Stop, RequestOK, Fields
  <2>3. req'.status # 200
    BY <2>1
  <2> QED BY <2>2, <2>3, Zenon DEF ApiOrder
<1> QED BY <1>1, <1>3, <1>4, <1>6, <1>7, <1>8, <1>9
        DEF Next, vars, Tick, StampReceived, Commit, SaveFails

LEMMA AgeIsInteger ==
  ASSUME RequestOK(req), NotAhead, NEW m \in DOMAIN req.sidebar
  PROVE  req.sidebar[m].last \in Int /\ req.now \in Int
<1>1. req.sidebar[m].last \in Int
  BY DEF NotAhead
<1>2. req.now \in Int
  BY DEF RequestOK
<1> QED BY <1>1, <1>2

LEMMA NotYetAnswered == <<>> # ApiAgentsSteps /\ <<>> # <<"clock">>
BY DEF ApiAgentsSteps

-----------------------------------------------------------------------------
(* No value shown is much older than the newest push: both timestamps were *)
(* checked against the server's own clock.                                 *)

InTime(row) == \A d \in Modules : row.at - (Skew + Delay) <= row.ts[d] /\ row.ts[d] <= row.at + Skew

Stamped == /\ \A h \in Handler : saving[h] # NoPush => InTime(saving[h])
           /\ \A i \in DOMAIN log : InTime(log[i])

LEMMA StampedStep == StoreOK /\ Stamped /\ [Next]_vars => Stamped'
<1> SUFFICES ASSUME StoreOK, Stamped, [Next]_vars PROVE Stamped'
  OBVIOUS
<1>1. CASE saving' = saving /\ log' = log
  BY <1>1 DEF Stamped
<1>2. ASSUME NEW h \in Handler, NEW m \in Machine, NEW names \in Carries,
             StampReceived(h, m, names)
      PROVE  Stamped'
  <2>1. PICK ts \in AgentTimes :
           saving' = [saving EXCEPT ![h] = [machine |-> m, names |-> names, ts |-> ts, at |-> now]]
    BY <1>2 DEF StampReceived
  <2> DEFINE push == [machine |-> m, names |-> names, ts |-> ts, at |-> now]
  <2>2. InTime(push)
    <3>1. PICK o \in Offsets : ts = [d \in Modules |-> now + o[d]]
      BY <2>1 DEF AgentTimes
    <3>2. \A d \in Modules : o[d] \in -(Skew + Delay)..Skew
      BY OffsetsAssumption
    <3>3. now \in Int /\ Skew \in Int /\ Delay \in Int
      BY TimeAssumption DEF StoreOK
    <3>4. \A d \in Modules : ts[d] = now + o[d]
      BY <3>1
    <3>5. \A d \in Modules : now - (Skew + Delay) <= ts[d] /\ ts[d] <= now + Skew
      BY <3>2, <3>3, <3>4
    <3> QED BY <3>5 DEF InTime
  <2>3. saving' = [saving EXCEPT ![h] = push] /\ log' = log
    BY <1>2, <2>1 DEF StampReceived
  <2> HIDE DEF push
  <2>4. \A g \in Handler : saving'[g] = push \/ saving'[g] = saving[g]
    BY <2>3 DEF StoreOK
  <2> QED BY <2>2, <2>3, <2>4 DEF Stamped
<1>3. ASSUME NEW h \in Handler, Commit(h) PROVE Stamped'
  <2> DEFINE row == [machine |-> saving[h].machine, names |-> saving[h].names,
                     ts |-> saving[h].ts, at |-> saving[h].at, committed |-> now]
  <2>1. saving[h] # NoPush /\ log' = Append(log, row) /\ saving' = [saving EXCEPT ![h] = NoPush]
    BY <1>3 DEF Commit
  <2>2. InTime(saving[h])
    BY <2>1 DEF Stamped
  <2>3. InTime(row)
    BY <2>2 DEF InTime
  <2> HIDE DEF row
  <2>4. \A i \in DOMAIN log' : log'[i] = row \/ (i \in DOMAIN log /\ log'[i] = log[i])
    BY <2>1 DEF StoreOK
  <2>5. \A g \in Handler : saving'[g] = NoPush \/ saving'[g] = saving[g]
    BY <2>1 DEF StoreOK
  <2> QED BY <2>3, <2>4, <2>5 DEF Stamped
<1>4. ASSUME NEW h \in Handler, SaveFails(h) PROVE Stamped'
  <2>1. log' = log /\ \A g \in Handler : saving'[g] = NoPush \/ saving'[g] = saving[g]
    BY <1>4 DEF SaveFails, StoreOK
  <2> QED BY <2>1 DEF Stamped
<1> QED BY <1>1, <1>2, <1>3, <1>4, RequestsOnlyRead DEF Next, RequestSteps, vars, store, Tick

Behind(k, i) == k \in DOMAIN log /\ log[k].at >= log[i].at - 2 * Skew - Delay

LEMMA LatestIsFresh ==
  ASSUME StoreOK, Stamped, NEW m, NEW i \in DOMAIN log, log[i].machine = m,
         NEW n \in log[i].names
  PROVE  n \in Recorded(m) /\ Behind(GetLatestMetrics(m)[n], i)
<1>1. log[i] \in Row
  BY DEF StoreOK
<1>2. n \in Name
  BY <1>1, CarriesAssumption DEF Row
<1>3. i \in Rows(m, n) /\ n \in Recorded(m)
  BY <1>2 DEF Rows, Recorded
<1>4. PICK k : k = GetLatestMetrics(m)[n]
  OBVIOUS
<1>5. k \in DOMAIN log /\ Timestamp(i, n) <= Timestamp(k, n)
  BY <1>3, <1>4, LatestIsARow DEF StoreOK, Rows
<1>6. ModuleOf[n] \in Modules
  BY <1>2 DEF Modules
<1>7. /\ log[i].at - (Skew + Delay) <= Timestamp(i, n)
      /\ Timestamp(k, n) <= log[k].at + Skew
  BY <1>5, <1>6 DEF Stamped, InTime, Timestamp
<1>8. Timestamp(i, n) \in Int /\ Timestamp(k, n) \in Int
  BY <1>2, <1>5, TimestampType DEF StoreOK, Times
<1>9. log[i].at \in Int /\ log[k].at \in Int /\ Skew \in Int /\ Delay \in Int
  <2>1. log[k] \in Row
    BY <1>5 DEF StoreOK
  <2>2. MaxNow \in Int
    BY TimeAssumption
  <2> QED BY <1>1, <2>1, <2>2, TimeAssumption DEF Row
<1>10. log[k].at >= log[i].at - 2 * Skew - Delay
  BY <1>5, <1>7, <1>8, <1>9
<1> QED BY <1>3, <1>4, <1>5, <1>10 DEF Behind

\* Nothing that was saved before the request began is missed by the metrics it read.
Fresh == \A i \in 1..req.since :
            log[i].machine = req.machine =>
               \A n \in log[i].names : n \in DOMAIN req.metrics /\ Behind(req.metrics[n], i)

BeforeMetrics == {OverviewSteps, <<"clock", "agents", "metrics", "modules">>,
                  <<"agents", "metrics", "modules">>, <<"metrics", "modules">>,
                  ApiMetricsSteps, <<"metrics">>}

MetricsOrder == req.kind \in {"overview", "api metrics"} =>
                  \/ req.todo \in BeforeMetrics
                  \/ req.todo = <<>> /\ req.status # 200
                  \/ req.todo \in {<<"modules">>, <<>>} /\ Fresh

LEMMA BeforeStep ==
  ASSUME NEW todo \in BeforeMetrics
  PROVE  /\ todo # <<>>
         /\ IF Head(todo) = "metrics" THEN Tail(todo) \in {<<"modules">>, <<>>}
                                      ELSE Tail(todo) \in BeforeMetrics
<1>1. CASE todo = OverviewSteps
  BY <1>1 DEF OverviewSteps, BeforeMetrics
<1>2. CASE todo = <<"clock", "agents", "metrics", "modules">>
  BY <1>2 DEF BeforeMetrics
<1>3. CASE todo = <<"agents", "metrics", "modules">>
  BY <1>3 DEF BeforeMetrics
<1>4. CASE todo = <<"metrics", "modules">>
  BY <1>4 DEF BeforeMetrics
<1>5. CASE todo = ApiMetricsSteps
  BY <1>5 DEF ApiMetricsSteps, BeforeMetrics
<1>6. CASE todo = <<"metrics">>
  BY <1>6 DEF BeforeMetrics
<1> QED BY <1>1, <1>2, <1>3, <1>4, <1>5, <1>6 DEF BeforeMetrics

LEMMA LastStep == Head(<<"modules">>) # "metrics" /\ Tail(<<"modules">>) = <<>>
OBVIOUS

LEMMA FreshStays ==
  ASSUME StoreOK, RequestOK(req), [Next]_vars, Fresh,
         req'.since = req.since, req'.machine = req.machine, req'.metrics = req.metrics
  PROVE  Fresh'
<1>1. 1..req.since \subseteq DOMAIN log
  BY DEF RequestOK, StoreOK
<1>2. \A i \in DOMAIN log : i \in DOMAIN log' /\ log'[i] = log[i]
  BY LogGrows
<1>3. \A i \in DOMAIN log : \A k : Behind(k, i) => Behind(k, i)'
  BY <1>2 DEF Behind
<1> QED BY <1>1, <1>2, <1>3 DEF Fresh

LEMMA ReadIsFresh ==
  ASSUME StoreOK, RequestOK(req), Stamped, UNCHANGED store,
         req'.since = req.since, req'.machine = req.machine,
         req'.metrics = GetLatestMetrics(req.machine)
  PROVE  Fresh'
<1>1. 1..req.since \subseteq DOMAIN log
  BY DEF RequestOK, StoreOK
<1>2. DOMAIN req'.metrics = Recorded(req.machine)
  BY DEF GetLatestMetrics
<1>3. \A i \in 1..req.since :
         log[i].machine = req.machine =>
            \A n \in log[i].names : n \in DOMAIN req'.metrics /\ Behind(req'.metrics[n], i)
  BY <1>1, <1>2, LatestIsFresh
<1>4. \A k, i : Behind(k, i)' <=> Behind(k, i)
  BY DEF Behind, store
<1> QED BY <1>3, <1>4 DEF Fresh, store

LEMMA MetricsOrderStep ==
  StoreOK /\ RequestOK(req) /\ Stamped /\ MetricsOrder /\ [Next]_vars => MetricsOrder'
<1> SUFFICES ASSUME StoreOK, RequestOK(req), Stamped, MetricsOrder, [Next]_vars
             PROVE  MetricsOrder'
  OBVIOUS
<1>1. CASE req' = req
  BY <1>1, FreshStays DEF MetricsOrder
<1>2. ASSUME NEW kind \in Kind, NEW m, NEW linked, Begin(kind, m, linked) PROVE MetricsOrder'
  <2>1. req'.kind = kind /\ req'.todo = Steps(kind)
    BY <1>2, NewRequestFields DEF Begin
  <2>2. kind \in {"overview", "api metrics"} => Steps(kind) \in BeforeMetrics
    BY DEF Steps, BeforeMetrics
  <2> QED BY <2>1, <2>2, Zenon DEF MetricsOrder
<1>3. CASE Request \/ Redirect \/ FollowLink
  BY <1>2, <1>3 DEF Request, Redirect, FollowLink, Kind
<1>4. CASE Leave
  BY <1>4, NoRequestOK DEF Leave, MetricsOrder
<1>5. ASSUME req.todo # <<>>, req'.todo = Tail(req.todo), req'.kind = req.kind,
             req'.since = req.since, req'.machine = req.machine,
             \/ Head(req.todo) # "metrics" /\ req'.metrics = req.metrics
             \/ Head(req.todo) = "metrics" /\ Fresh'
      PROVE  MetricsOrder'
  <2> SUFFICES ASSUME req.kind \in {"overview", "api metrics"} PROVE MetricsOrder'
    BY <1>5 DEF MetricsOrder
  <2>1. CASE req.todo \in BeforeMetrics
    BY <1>5, <2>1, BeforeStep, Zenon DEF MetricsOrder
  <2>2. CASE req.todo = <<"modules">> /\ Fresh
    <3>1. Head(req.todo) # "metrics" /\ Tail(req.todo) = <<>>
      BY <2>2, LastStep, Zenon
    <3>2. Fresh'
      BY <1>5, <2>2, <3>1, FreshStays
    <3> QED BY <1>5, <3>1, <3>2, Zenon DEF MetricsOrder
  <2> QED BY <1>5, <2>1, <2>2, Zenon DEF MetricsOrder
<1>6. CASE CheckExists
  <2>1. CASE AgentExists(req.machine)
    <3>1. req.todo # <<>> /\ Head(req.todo) # "metrics" /\ req'.todo = Tail(req.todo)
      BY <1>6, <2>1 DEF CheckExists, At, Read, RequestOK, Fields
    <3>2. /\ req'.kind = req.kind /\ req'.since = req.since /\ req'.machine = req.machine
          /\ req'.metrics = req.metrics
      BY <1>6, StepFields DEF KeepsBut, Fields
    <3> QED BY <1>5, <3>1, <3>2
  <2>2. CASE ~AgentExists(req.machine)
    <3>1. Stop(404)
      BY <1>6, <2>2 DEF CheckExists
    <3>2. req'.todo = <<>> /\ req'.status = 404
      BY <3>1 DEF Stop, RequestOK, Fields
    <3>3. req'.status # 200
      BY <3>2
    <3> QED BY <3>2, <3>3, Zenon DEF MetricsOrder
  <2> QED BY <2>1, <2>2
<1>7. CASE ReadClock \/ ReadAgents \/ ReadModules
  <2>1. req.todo # <<>> /\ Head(req.todo) # "metrics"
    BY <1>7 DEF ReadClock, ReadAgents, ReadModules, At
  <2>2. req'.todo = Tail(req.todo)
    <3>1. CASE ReadClock \/ ReadAgents
      BY <3>1, StepFields
    <3>2. CASE ReadModules
      BY <3>2 DEF ReadModules, Read, RequestOK, Fields
    <3> QED BY <1>7, <3>1, <3>2
  <2>3. /\ req'.kind = req.kind /\ req'.since = req.since /\ req'.machine = req.machine
        /\ req'.metrics = req.metrics
    BY <1>7, StepFields DEF KeepsBut, Fields
  <2> QED BY <1>5, <2>1, <2>2, <2>3
<1>8. CASE ReadMetrics
  <2>1. req.todo # <<>> /\ Head(req.todo) = "metrics"
    BY <1>8 DEF ReadMetrics, At
  <2>2. PICK latest : latest = GetLatestMetrics(req.machine)
    OBVIOUS
  <2>3. req' = [[req EXCEPT !.metrics = latest] EXCEPT !.todo = Tail(req.todo)]
    BY <1>8, <2>2 DEF ReadMetrics, Read
  <2>4. PICK r : r = [req EXCEPT !.metrics = latest]
    OBVIOUS
  <2>5. /\ r = [f \in Fields |-> r[f]] /\ r.metrics = latest
    BY <2>4 DEF RequestOK, Fields
  <2>6. req'.todo = Tail(req.todo) /\ req'.metrics = latest
    BY <2>3, <2>4, <2>5 DEF Fields
  <2>7. req'.kind = req.kind /\ req'.since = req.since /\ req'.machine = req.machine
    BY <1>8, StepFields DEF KeepsBut, Fields
  <2>8. Fresh'
    BY <1>8, <2>2, <2>6, <2>7, ReadIsFresh, RequestsOnlyRead DEF RequestSteps
  <2> QED BY <1>5, <2>1, <2>6, <2>7, <2>8
<1>9. CASE QueryFails
  <2>1. req'.status = 500
    BY <1>9, StepFields
  <2>2. req'.todo = <<>>
    BY <1>9 DEF QueryFails, Stop, RequestOK, Fields
  <2>3. req'.status # 200
    BY <2>1
  <2> QED BY <2>2, <2>3, Zenon DEF MetricsOrder
<1> QED BY <1>1, <1>3, <1>4, <1>6, <1>7, <1>8, <1>9
        DEF Next, vars, Tick, StampReceived, Commit, SaveFails

LEMMA NoMetricsYet == <<>> \notin BeforeMetrics
BY BeforeStep

\* Whatever an agent's clock does, a page shows no value that was received more than
\* twice the skew and the delay before the newest one saved when it was asked for
\* (queries.go:82-97 with the skew check of server.go).
THEOREM StalenessIsBounded == Spec => []BoundedStaleness
<1>1. Init => Stamped /\ MetricsOrder
  <2> SUFFICES ASSUME Init PROVE Stamped /\ MetricsOrder
    OBVIOUS
  <2>1. Stamped
    BY DEF Init, Stamped
  <2>2. MetricsOrder
    BY TypeInit, NoRequestOK DEF Init, MetricsOrder
  <2> QED BY <2>1, <2>2
<1>2. MetricsOrder => BoundedStaleness
  BY NoMetricsYet, Zenon DEF MetricsOrder, BoundedStaleness, Shows, Answered, Fresh, Behind
<1> QED BY <1>1, <1>2, StampedStep, MetricsOrderStep, Typed, PTL DEF Spec

-----------------------------------------------------------------------------
(* Values shown are replaced only by later ones. *)

LEMMA LatestEverywhere ==
  log \in Seq(Row) =>
     \A m : \A n \in Recorded(m) :
        /\ GetLatestMetrics(m)[n] \in Rows(m, n)
        /\ \A j \in Rows(m, n) : Timestamp(j, n) <= Timestamp(GetLatestMetrics(m)[n], n)
BY LatestIsARow

\* A value once shown is only replaced by one measured at the same time or later
\* (GetLatestMetrics, queries.go:82-97).
THEOREM NoPageGoesBack == Spec => NeverGoesBack
<1>1. (log \in Seq(Row) =>
         \A m : \A n \in Recorded(m) :
            /\ GetLatestMetrics(m)[n] \in Rows(m, n)
            /\ \A j \in Rows(m, n) : Timestamp(j, n) <= Timestamp(GetLatestMetrics(m)[n], n))'
  BY LatestEverywhere, PTL
<1>2. ASSUME StoreOK, [Next]_vars, NEW m \in Machine, NEW n \in Recorded(m)
      PROVE  /\ n \in Recorded(m)'
             /\ Timestamp(GetLatestMetrics(m)[n], n) <= Timestamp(GetLatestMetrics(m)[n], n)'
  <2> DEFINE i == GetLatestMetrics(m)[n]
  <2>1. i \in Rows(m, n) /\ n \in Name
    BY <1>2, LatestIsARow DEF StoreOK, Recorded
  <2> HIDE DEF i
  <2>2. i \in Rows(m, n)' /\ log'[i] = log[i]
    BY <1>2, <2>1, LogGrows DEF Rows
  <2>3. n \in Recorded(m)'
    BY <2>1, <2>2 DEF Recorded
  <2>4. log' \in Seq(Row)
    BY <1>2, StoreStep DEF StoreOK
  <2>5. log'[i].ts[ModuleOf[n]] <= Timestamp(GetLatestMetrics(m)[n], n)'
    BY <1>1, <2>2, <2>3, <2>4 DEF Timestamp
  <2> QED BY <2>2, <2>3, <2>5 DEF Timestamp, i
<1>3. StoreOK /\ [Next]_vars =>
        [\A m \in Machine : \A n \in Recorded(m) :
            /\ n \in Recorded(m)'
            /\ Timestamp(GetLatestMetrics(m)[n], n) <= Timestamp(GetLatestMetrics(m)[n], n)']_vars
  BY <1>2
<1> QED BY <1>3, Typed, PTL DEF Spec, NeverGoesBack

-----------------------------------------------------------------------------
(* Ages are true up to the wait of one goroutine.                          *)

\* A handler commits a time it has not held for long, so the row of an agent is
\* never far behind a push, and always that of one.
Held == /\ \A h \in Handler : saving[h] # NoPush => now - saving[h].at <= Stall
        /\ \A i \in DOMAIN log :
              /\ log[i].committed <= now
              /\ log[i].machine \in DOMAIN agents
              /\ agents[log[i].machine].last >= log[i].committed - Stall
        /\ \A m \in DOMAIN agents :
              \E i \in DOMAIN log : log[i].machine = m /\ log[i].at = agents[m].last

\* What a request may rely on of the agents it has read.
SidebarTrue ==
    /\ \A i \in 1..req.since :
          /\ log[i].machine \in DOMAIN req.sidebar
          /\ req.sidebar[log[i].machine].last >= log[i].committed - Stall
    /\ \A m \in DOMAIN req.sidebar :
          \E i \in DOMAIN log : log[i].machine = m /\ log[i].at = req.sidebar[m].last

ApiPhase == req.kind = "api agents" =>
              \/ req.todo = ApiAgentsSteps
              \/ SidebarTrue
              \/ req.todo = <<>> /\ req.status # 200

LEMMA HeldType ==
  ASSUME StoreOK
  PROVE  /\ now \in Int /\ Stall \in Int
         /\ \A h \in Handler : saving[h] # NoPush =>
               saving[h].machine \in Machine /\ saving[h].at \in 0..MaxNow /\ saving[h].at \in Int
         /\ \A i \in DOMAIN log : log[i].at \in Int /\ log[i].committed \in Int
         /\ \A m \in DOMAIN agents : agents[m].last \in Int
<1>1. \A h \in Handler : saving[h] # NoPush => saving[h] \in PushRow
  BY DEF StoreOK
<1>2. \A i \in DOMAIN log : log[i] \in Row
  BY DEF StoreOK
<1>3. now \in Int /\ Stall \in Int /\ MaxNow \in Int
  BY TimeAssumption DEF StoreOK
<1>4. \A h \in Handler : saving[h] # NoPush =>
         saving[h].machine \in Machine /\ saving[h].at \in 0..MaxNow /\ saving[h].at \in Int
  BY <1>1, <1>3 DEF PushRow
<1>5. \A i \in DOMAIN log : log[i].at \in Int /\ log[i].committed \in Int
  BY <1>2, <1>3 DEF Row
<1>6. \A m \in DOMAIN agents : agents[m].last \in Int
  BY <1>3 DEF StoreOK
<1> QED BY <1>3, <1>4, <1>5, <1>6

LEMMA HeldStep == StoreOK /\ StoreOK' /\ Held /\ [Next]_vars => Held'
<1> SUFFICES ASSUME StoreOK, StoreOK', Held, [Next]_vars PROVE Held'
  OBVIOUS
<1>1. CASE UNCHANGED store
  BY <1>1 DEF store, Held
<1>2. CASE Tick
  <2>1. /\ now' = now + 1 /\ UNCHANGED <<saving, log, agents>>
        /\ \A h \in Handler : saving[h] # NoPush => ~(now - saving[h].at >= Stall)
    BY <1>2 DEF Tick, Overdue
  <2>2. \A h \in Handler : saving[h] # NoPush => now' - saving[h].at <= Stall
    BY <2>1, HeldType
  <2>3. \A i \in DOMAIN log : log[i].committed <= now'
    BY <2>1, HeldType DEF Held
  <2> QED BY <2>1, <2>2, <2>3 DEF Held
<1>3. ASSUME NEW h \in Handler, NEW m \in Machine, NEW names \in Carries,
             StampReceived(h, m, names)
      PROVE  Held'
  <2>1. UNCHANGED <<now, log, agents>>
    BY <1>3 DEF StampReceived
  <2>2. saving'[h].at = now /\ saving' = [saving EXCEPT ![h] = saving'[h]]
    BY <1>3, StampType
  <2>3. now - now <= Stall
    BY TimeAssumption DEF StoreOK
  <2>4. \A g \in Handler : saving'[g] # NoPush => now - saving'[g].at <= Stall
    BY <2>2, <2>3 DEF Held, StoreOK
  <2> QED BY <2>1, <2>4 DEF Held
<1>4. ASSUME NEW h \in Handler, Commit(h) PROVE Held'
  <2> DEFINE m == saving[h].machine
             t == saving[h].at
             row == [machine |-> m, names |-> saving[h].names, ts |-> saving[h].ts,
                     at |-> t, committed |-> now]
  <2>1. /\ saving[h] # NoPush /\ log' = Append(log, row) /\ now' = now
        /\ saving' = [saving EXCEPT ![h] = NoPush] /\ agents' = Upsert(m, t)
    BY <1>4 DEF Commit
  <2>2. row.machine = m /\ row.at = t /\ row.committed = now
    OBVIOUS
  <2>3. m \in Machine /\ t \in 0..MaxNow /\ t \in Int /\ t >= now - Stall
    BY <2>1, HeldType DEF Held
  <2> HIDE DEF row, m, t
  <2>4. /\ \A i \in DOMAIN log : i \in DOMAIN log' /\ log'[i] = log[i]
        /\ \A i \in DOMAIN log' : log'[i] = row \/ (i \in DOMAIN log /\ log'[i] = log[i])
        /\ \E i \in DOMAIN log' : log'[i] = row
    BY <2>1 DEF StoreOK
  <2>5. /\ DOMAIN agents' = DOMAIN agents \cup {m}
        /\ \A x \in DOMAIN agents' : agents'[x].last = IF x = m THEN t ELSE agents[x].last
    <3>1. DOMAIN agents' = DOMAIN agents \cup {m}
      BY <2>1, <2>3, UpsertType
    <3> QED BY <2>1, <2>3, <3>1, UpsertLast
  <2>6. \A g \in Handler : saving'[g] # NoPush => now' - saving'[g].at <= Stall
    BY <2>1 DEF Held, StoreOK
  <2>7. ASSUME NEW i \in DOMAIN log'
        PROVE  /\ log'[i].committed <= now'
               /\ log'[i].machine \in DOMAIN agents'
               /\ agents'[log'[i].machine].last >= log'[i].committed - Stall
    <3>1. CASE log'[i] = row
      BY <2>1, <2>2, <2>3, <2>5, <3>1, HeldType
    <3>2. CASE i \in DOMAIN log /\ log'[i] = log[i]
      <4>1. /\ log[i].committed <= now /\ log[i].machine \in DOMAIN agents
            /\ agents[log[i].machine].last >= log[i].committed - Stall
        BY <3>2 DEF Held
      <4> QED BY <2>1, <2>3, <2>5, <3>2, <4>1, HeldType
    <3> QED BY <2>4, <3>1, <3>2
  <2>8. ASSUME NEW x \in DOMAIN agents'
        PROVE  \E i \in DOMAIN log' : log'[i].machine = x /\ log'[i].at = agents'[x].last
    <3>1. CASE x = m
      BY <2>2, <2>4, <2>5, <3>1
    <3>2. CASE x # m
      <4>1. PICK i \in DOMAIN log : log[i].machine = x /\ log[i].at = agents[x].last
        BY <2>5, <3>2 DEF Held
      <4> QED BY <2>4, <2>5, <3>2, <4>1
    <3> QED BY <3>1, <3>2
  <2> QED BY <2>6, <2>7, <2>8 DEF Held
<1>5. ASSUME NEW h \in Handler, SaveFails(h) PROVE Held'
  <2>1. /\ UNCHANGED <<now, log, agents>>
        /\ \A g \in Handler : saving'[g] = NoPush \/ saving'[g] = saving[g]
    BY <1>5 DEF SaveFails, StoreOK
  <2> QED BY <2>1 DEF Held
<1> QED BY <1>1, <1>2, <1>3, <1>4, <1>5, RequestsOnlyRead DEF Next, RequestSteps, vars, store

LEMMA SinceInLog ==
  ASSUME StoreOK, RequestOK(req)
  PROVE  1..req.since \subseteq DOMAIN log
BY DEF RequestOK, StoreOK

LEMMA SidebarStays ==
  ASSUME StoreOK, RequestOK(req), [Next]_vars, SidebarTrue,
         req'.since = req.since, req'.sidebar = req.sidebar
  PROVE  SidebarTrue'
<1>1. \A i \in DOMAIN log : i \in DOMAIN log' /\ log'[i] = log[i]
  BY LogGrows
<1>2. \A i \in 1..req.since : log'[i] = log[i]
  BY <1>1, SinceInLog
<1>3. ASSUME NEW m \in DOMAIN req'.sidebar
      PROVE  \E i \in DOMAIN log' : log'[i].machine = m /\ log'[i].at = req'.sidebar[m].last
  <2>1. PICK i \in DOMAIN log : log[i].machine = m /\ log[i].at = req.sidebar[m].last
    BY DEF SidebarTrue
  <2> QED BY <1>1, <2>1
<1>4. \A i \in 1..req'.since :
         /\ log'[i].machine \in DOMAIN req'.sidebar
         /\ req'.sidebar[log'[i].machine].last >= log'[i].committed - Stall
  BY <1>2 DEF SidebarTrue
<1> QED BY <1>3, <1>4 DEF SidebarTrue

LEMMA SidebarRead ==
  ASSUME StoreOK, RequestOK(req), Held, UNCHANGED store,
         req'.since = req.since, req'.sidebar = agents
  PROVE  SidebarTrue'
<1>1. log' = log /\ \A i \in 1..req.since : i \in DOMAIN log
  BY SinceInLog DEF store
<1> QED BY <1>1 DEF SidebarTrue, Held

LEMMA ApiPhaseStep ==
  StoreOK /\ RequestOK(req) /\ Held /\ ApiPhase /\ [Next]_vars => ApiPhase'
<1> SUFFICES ASSUME StoreOK, RequestOK(req), Held, ApiPhase, [Next]_vars PROVE ApiPhase'
  OBVIOUS
<1>1. CASE req' = req
  BY <1>1, SidebarStays DEF ApiPhase
<1>2. ASSUME NEW kind \in Kind, NEW m, NEW linked, Begin(kind, m, linked) PROVE ApiPhase'
  <2>1. req'.kind = kind /\ req'.todo = Steps(kind)
    BY <1>2, NewRequestFields DEF Begin
  <2>2. kind = "api agents" => Steps(kind) = ApiAgentsSteps
    BY DEF Steps
  <2> QED BY <2>1, <2>2 DEF ApiPhase
<1>3. CASE Request \/ Redirect \/ FollowLink
  BY <1>2, <1>3 DEF Request, Redirect, FollowLink, Kind
<1>4. CASE Leave
  BY <1>4, NoRequestOK DEF Leave, ApiPhase
<1>5. CASE CheckExists \/ ReadClock \/ ReadMetrics \/ ReadModules
  <2>1. req.todo # <<>> /\ Head(req.todo) # "agents"
    BY <1>5 DEF CheckExists, ReadClock, ReadMetrics, ReadModules, At
  <2>2. req'.kind = req.kind /\ req'.since = req.since /\ req'.sidebar = req.sidebar
    BY <1>5, StepFields DEF KeepsBut, Fields
  <2>3. Head(ApiAgentsSteps) = "agents"
    BY DEF ApiAgentsSteps
  <2>4. req.kind = "api agents" => SidebarTrue
    BY <2>1, <2>3, Zenon DEF ApiPhase
  <2> QED BY <2>2, <2>4, SidebarStays, Zenon DEF ApiPhase
<1>6. CASE ReadAgents
  <2>1. req'.since = req.since /\ req'.sidebar = agents
    BY <1>6, StepFields DEF KeepsBut, Fields
  <2>2. UNCHANGED store
    BY <1>6, RequestsOnlyRead DEF RequestSteps
  <2> QED BY <2>1, <2>2, SidebarRead DEF ApiPhase
<1>7. CASE QueryFails
  <2>1. req'.status = 500
    BY <1>7, StepFields
  <2>2. req'.todo = <<>>
    BY <1>7 DEF QueryFails, Stop, RequestOK, Fields
  <2>3. req'.status # 200
    BY <2>1
  <2> QED BY <2>2, <2>3, Zenon DEF ApiPhase
<1> QED BY <1>1, <1>3, <1>4, <1>5, <1>6, <1>7
        DEF Next, vars, Tick, StampReceived, Commit, SaveFails

-----------------------------------------------------------------------------
(* The overview page, part by part.                                        *)

Header == /\ req.machine \in DOMAIN req.sidebar
          /\ SidebarTrue
          /\ \A m \in DOMAIN req.sidebar : req.sidebar[m].last <= req.now + Stall

Values == /\ \A n \in DOMAIN req.metrics : req.metrics[n] \in Rows(req.machine, n)
          /\ \A n, o \in DOMAIN req.metrics :
                Together(n, o) /\ ModuleOf[n] = ModuleOf[o] => req.metrics[n] = req.metrics[o]
          /\ MetricsNotBehindLastPush

FromClock == <<"clock", "agents", "metrics", "modules">>
FromAgents == <<"agents", "metrics", "modules">>
FromMetrics == <<"metrics", "modules">>
FromModules == <<"modules">>

OverviewPhase ==
    req.kind = "overview" =>
       \/ req.todo = OverviewSteps
       \/ req.todo = FromClock /\ AgentExists(req.machine)
       \/ req.todo = FromAgents /\ AgentExists(req.machine) /\ now - req.now <= Stall
       \/ req.todo = FromMetrics /\ Header
       \/ req.todo = FromModules /\ Header /\ Values
       \/ req.todo = <<>> /\ req.status = 200 /\ Header /\ Values /\ CardsNotBehindMetrics
       \/ req.todo = <<>> /\ req.status # 200

LEMMA Phases ==
  /\ Head(OverviewSteps) = "exists" /\ Tail(OverviewSteps) = FromClock
  /\ Head(FromClock) = "clock" /\ Tail(FromClock) = FromAgents
  /\ Head(FromAgents) = "agents" /\ Tail(FromAgents) = FromMetrics
  /\ Head(FromMetrics) = "metrics" /\ Tail(FromMetrics) = FromModules
  /\ Head(FromModules) = "modules" /\ Tail(FromModules) = <<>>
<1>1. Head(OverviewSteps) = "exists" /\ Tail(OverviewSteps) = FromClock
  BY DEF OverviewSteps, FromClock
<1>2. Head(FromClock) = "clock" /\ Tail(FromClock) = FromAgents
  BY DEF FromClock, FromAgents
<1>3. Head(FromAgents) = "agents" /\ Tail(FromAgents) = FromMetrics
  BY DEF FromAgents, FromMetrics
<1>4. Head(FromMetrics) = "metrics" /\ Tail(FromMetrics) = FromModules
  BY DEF FromMetrics, FromModules
<1>5. Head(FromModules) = "modules" /\ Tail(FromModules) = <<>>
  BY DEF FromModules
<1> QED BY <1>1, <1>2, <1>3, <1>4, <1>5

\* What has been read stays true while pushes commit.
SameRequest == /\ req'.kind = req.kind /\ req'.machine = req.machine /\ req'.since = req.since
               /\ req'.now = req.now

LEMMA HeaderStays ==
  ASSUME StoreOK, RequestOK(req), [Next]_vars, Header, SameRequest, req'.sidebar = req.sidebar
  PROVE  Header'
BY SidebarStays DEF Header, SameRequest

LEMMA RowsGrow ==
  ASSUME StoreOK, [Next]_vars
  PROVE  /\ \A m, n : Rows(m, n) \subseteq Rows(m, n)'
         /\ \A m, n : \A i \in Rows(m, n) : Timestamp(i, n)' = Timestamp(i, n)
<1>1. \A i \in DOMAIN log : i \in DOMAIN log' /\ log'[i] = log[i]
  BY LogGrows
<1> QED BY <1>1 DEF Rows, Timestamp

\* The metrics read are at least as new as a push.
NotBehind(i) == \A n \in log[i].names :
                   n \in DOMAIN req.metrics /\ Timestamp(req.metrics[n], n) >= Timestamp(i, n)

LEMMA NamesOfRow ==
  ASSUME StoreOK, NEW i \in DOMAIN log, NEW n \in log[i].names
  PROVE  n \in Name
<1>1. log[i] \in Row
  BY DEF StoreOK
<1> QED BY <1>1, CarriesAssumption DEF Row

LEMMA ValuesStay ==
  ASSUME StoreOK, RequestOK(req), [Next]_vars, Values, SameRequest,
         req'.sidebar = req.sidebar, req'.metrics = req.metrics
  PROVE  Values'
<1>1. \A i \in DOMAIN log : i \in DOMAIN log' /\ log'[i] = log[i]
  BY LogGrows
<1>2. \A n \in DOMAIN req'.metrics : req'.metrics[n] \in Rows(req.machine, n)'
  BY <1>1 DEF Values, Rows, SameRequest
<1>3. \A n \in DOMAIN req.metrics : Timestamp(req.metrics[n], n)' = Timestamp(req.metrics[n], n)
  BY <1>1 DEF Values, Rows, Timestamp
<1>4. PICK i \in DOMAIN log :
         log[i].machine = req.machine /\ log[i].at = CurrentMachine.last /\ NotBehind(i)
  BY DEF Values, MetricsNotBehindLastPush, NotBehind
<1>5. CurrentMachine' = CurrentMachine
  BY DEF CurrentMachine, SameRequest
<1>6. \A n \in log[i].names :
         n \in DOMAIN req'.metrics /\ Timestamp(req.metrics[n], n)' >= Timestamp(i, n)'
  <2>1. \A n : Timestamp(i, n)' = Timestamp(i, n)
    BY <1>1 DEF Timestamp
  <2> QED BY <1>3, <1>4, <2>1 DEF NotBehind
<1>7. MetricsNotBehindLastPush'
  <2>1. i \in DOMAIN log' /\ log'[i] = log[i] /\ req'.machine = req.machine
    BY <1>1 DEF SameRequest
  <2>2. \A n : Timestamp(req.metrics[n], n)' = log'[req'.metrics[n]].ts[ModuleOf[n]]
    BY DEF Timestamp
  <2> QED BY <1>4, <1>5, <1>6, <2>1, <2>2 DEF MetricsNotBehindLastPush, Timestamp
<1> QED BY <1>2, <1>7 DEF Values, SameRequest

\* The metrics are read in one query: two that always travel together, in one module,
\* have the same rows.
LEMMA OneQuery ==
  ASSUME StoreOK, NEW m, NEW n \in Recorded(m), NEW o \in Recorded(m),
         Together(n, o), ModuleOf[n] = ModuleOf[o]
  PROVE  GetLatestMetrics(m)[n] = GetLatestMetrics(m)[o]
<1>1. \A i \in DOMAIN log : log[i] \in Row
  BY DEF StoreOK
<1>2. Rows(m, n) = Rows(m, o)
  BY <1>1 DEF Rows, Together, Row
<1>3. \A i : Timestamp(i, n) = Timestamp(i, o)
  BY DEF Timestamp
<1>4. {i \in Rows(m, n) : \A j \in Rows(m, n) : Timestamp(j, n) <= Timestamp(i, n)}
      = {i \in Rows(m, o) : \A j \in Rows(m, o) : Timestamp(j, o) <= Timestamp(i, o)}
  BY <1>2, <1>3
<1> QED BY <1>4 DEF GetLatestMetrics

LEMMA ValuesRead ==
  ASSUME StoreOK, RequestOK(req), UNCHANGED store, Header, SameRequest,
         req'.sidebar = req.sidebar, req'.metrics = GetLatestMetrics(req.machine)
  PROVE  Values'
<1> DEFINE latest == GetLatestMetrics(req.machine)
<1>1. /\ DOMAIN latest = Recorded(req.machine)
      /\ \A n \in Recorded(req.machine) :
            /\ latest[n] \in Rows(req.machine, n)
            /\ \A j \in Rows(req.machine, n) : Timestamp(j, n) <= Timestamp(latest[n], n)
      /\ \A n, o \in Recorded(req.machine) :
            Together(n, o) /\ ModuleOf[n] = ModuleOf[o] => latest[n] = latest[o]
  <2>1. DOMAIN latest = Recorded(req.machine) /\ log \in Seq(Row)
    BY DEF GetLatestMetrics, StoreOK
  <2> QED BY <2>1, LatestIsARow, OneQuery
<1> HIDE DEF latest
<1>2. req'.metrics = latest /\ log' = log /\ req'.machine = req.machine
  BY DEF latest, store, SameRequest
<1>3. PICK i \in DOMAIN log :
         log[i].machine = req.machine /\ log[i].at = req.sidebar[req.machine].last
  BY DEF Header, SidebarTrue
<1>4. \A n \in log[i].names :
         n \in DOMAIN latest /\ Timestamp(latest[n], n) >= Timestamp(i, n)
  <2> TAKE n \in log[i].names
  <2>1. n \in Name
    BY NamesOfRow
  <2>2. i \in Rows(req.machine, n) /\ n \in Recorded(req.machine)
    BY <1>3, <2>1 DEF Rows, Recorded
  <2>3. latest[n] \in DOMAIN log /\ Timestamp(i, n) <= Timestamp(latest[n], n)
    BY <1>1, <2>2 DEF Rows
  <2>4. Timestamp(i, n) \in Int /\ Timestamp(latest[n], n) \in Int
    BY <2>1, <2>3, TimestampType DEF StoreOK
  <2> QED BY <1>1, <2>2, <2>3, <2>4
<1>5. \A k, n : Timestamp(k, n)' = Timestamp(k, n)
  BY <1>2 DEF Timestamp
<1>6. MetricsNotBehindLastPush'
  <2>1. CurrentMachine'.last = req.sidebar[req.machine].last
    BY <1>2 DEF CurrentMachine
  <2> QED BY <1>2, <1>3, <1>4, <2>1 DEF MetricsNotBehindLastPush, Timestamp
<1> QED BY <1>1, <1>2, <1>6 DEF Values, Rows

LEMMA RecordedIsFinite ==
  ASSUME StoreOK, NEW m
  PROVE  IsFiniteSet(Recorded(m))
<1> DEFINE all == {log[i].names : i \in DOMAIN log}
<1>1. \A i \in DOMAIN log : log[i].names \in Carries
  <2>1. \A i \in DOMAIN log : log[i] \in Row
    BY DEF StoreOK
  <2> QED BY <2>1 DEF Row
<1>2. IsFiniteSet(all)
  <2>1. IsFiniteSet(DOMAIN log)
    <3>1. DOMAIN log = 1..Len(log) /\ Len(log) \in Int
      BY DEF StoreOK
    <3> QED BY <3>1, FS_Interval
  <2>2. [i \in DOMAIN log |-> log[i].names] \in Surjection(DOMAIN log, all)
    BY DEF Surjection
  <2> HIDE DEF all
  <2> QED BY <2>1, <2>2, FS_Surjection
<1>3. \A names \in all : IsFiniteSet(names)
  BY <1>1, CarriesAssumption
<1>4. IsFiniteSet(UNION all)
  <2> HIDE DEF all
  <2> QED BY <1>2, <1>3, FS_UNION
<1>5. Recorded(m) \subseteq UNION all
  BY DEF Recorded, Rows
<1> HIDE DEF all
<1> QED BY <1>4, <1>5, FS_Subset

LEMMA CardsRead ==
  ASSUME StoreOK, RequestOK(req), UNCHANGED store, Values, SameRequest,
         req'.metrics = req.metrics, req'.cards = ListModulesForAgent(req.machine)
  PROVE  CardsNotBehindMetrics'
<1> DEFINE cards == ListModulesForAgent(req.machine)
           own(d) == {n \in Recorded(req.machine) : ModuleOf[n] = d}
           times(d) == UNION {{Timestamp(i, n) : i \in Rows(req.machine, n)} : n \in own(d)}
<1>1. \A n \in DOMAIN req.metrics :
         n \in Recorded(req.machine) /\ req.metrics[n] \in Rows(req.machine, n)
  <2>1. \A n : \A i \in Rows(req.machine, n) : n \in Recorded(req.machine)
    BY NamesOfRow DEF Recorded, Rows
  <2> QED BY <2>1 DEF Values
<1>2. ASSUME NEW n \in DOMAIN req.metrics
      PROVE  /\ ModuleOf[n] \in DOMAIN cards
             /\ cards[ModuleOf[n]].last >= Timestamp(req.metrics[n], n)
             /\ cards[ModuleOf[n]].count >=
                  Cardinality({x \in DOMAIN req.metrics : ModuleOf[x] = ModuleOf[n]})
  <2>1. PICK d : d = ModuleOf[n]
    OBVIOUS
  <2>2. n \in own(d)
    BY <1>1, <2>1
  <2>3. d \in DOMAIN cards /\ cards[d] = [count |-> Cardinality(own(d)), last |-> Max(times(d))]
    BY <2>2 DEF ListModulesForAgent
  <2> HIDE DEF cards
  <2>4. Timestamp(req.metrics[n], n) \in times(d)
    BY <1>1, <2>2
  <2>5. times(d) \subseteq -(Skew + Delay)..(MaxNow + Skew)
    <3>1. \A x \in own(d) : x \in Name /\ Rows(req.machine, x) \subseteq DOMAIN log
      BY DEF Recorded, Rows
    <3> QED BY <3>1, TimestampType DEF StoreOK
  <2>6. Timestamp(req.metrics[n], n) <= Max(times(d)) /\ Max(times(d)) \in Int
    <3>1. -(Skew + Delay) \in Int /\ MaxNow + Skew \in Int
      BY TimeAssumption
    <3> HIDE DEF times
    <3> QED BY <2>4, <2>5, <3>1, MaxIn
  <2>7. Cardinality({x \in DOMAIN req.metrics : ModuleOf[x] = d}) <= Cardinality(own(d))
    <3>1. IsFiniteSet(own(d))
      BY RecordedIsFinite, FS_Subset
    <3>2. {x \in DOMAIN req.metrics : ModuleOf[x] = d} \in SUBSET own(d)
      BY <1>1
    <3> HIDE DEF own
    <3> QED BY <3>1, <3>2, FS_Subset
  <2>8. /\ Cardinality({x \in DOMAIN req.metrics : ModuleOf[x] = d}) \in Nat
        /\ Cardinality(own(d)) \in Nat
    <3>1. IsFiniteSet(own(d))
      BY RecordedIsFinite, FS_Subset
    <3>2. {x \in DOMAIN req.metrics : ModuleOf[x] = d} \in SUBSET own(d)
      BY <1>1
    <3> HIDE DEF own
    <3> QED BY <3>1, <3>2, FS_Subset, FS_CardinalityType
  <2>9. Timestamp(req.metrics[n], n) \in Int
    BY <2>4, <2>5, TimeAssumption
  <2> HIDE DEF own, times
  <2> QED BY <2>1, <2>3, <2>6, <2>7, <2>8, <2>9
<1>3. \A k, n : Timestamp(k, n)' = Timestamp(k, n)
  BY DEF Timestamp, store
<1>4. req'.cards = cards
  OBVIOUS
<1> HIDE DEF cards
<1> QED BY <1>2, <1>3, <1>4 DEF CardsNotBehindMetrics, Timestamp, store

LEMMA SameRequestSteps ==
  ASSUME RequestOK(req),
         \/ CheckExists \/ ReadAgents \/ ReadMetrics \/ ReadModules \/ QueryFails
  PROVE  SameRequest
BY StepFields DEF SameRequest, KeepsBut, Fields

LEMMA OverviewPhaseStep ==
  StoreOK /\ RequestOK(req) /\ NotAhead /\ Held /\ OverviewPhase /\ [Next]_vars => OverviewPhase'
<1> SUFFICES ASSUME StoreOK, RequestOK(req), NotAhead, Held, OverviewPhase, [Next]_vars
             PROVE  OverviewPhase'
  OBVIOUS
<1>1. CASE req' = req
  <2>1. SameRequest /\ req'.sidebar = req.sidebar /\ req'.metrics = req.metrics
        /\ req'.todo = req.todo /\ req'.status = req.status
    BY <1>1 DEF SameRequest
  <2>2. AgentExists(req.machine) => AgentExists(req.machine)'
    BY <1>1, AgentsStay DEF AgentsGrow, AgentExists
  <2>3. req.kind = "overview" /\ req.todo = FromAgents /\ now - req.now <= Stall
        => now' - req'.now <= Stall
    <3> SUFFICES ASSUME req.kind = "overview", req.todo = FromAgents, now - req.now <= Stall
                 PROVE  now' - req.now <= Stall
      BY <1>1
    <3>1. CASE now' = now
      BY <3>1
    <3>2. CASE Tick
      <4>1. At("agents")
        <5>1. FromAgents # <<>>
          BY DEF FromAgents
        <5> QED BY <5>1, Phases, Zenon DEF At
      <4>2. now' = now + 1 /\ ~(now - req.now >= Stall)
        BY <3>2, <4>1 DEF Tick, Overdue
      <4>3. now \in Int /\ req.now \in Int /\ Stall \in Int
        BY TimeAssumption DEF StoreOK, RequestOK
      <4> QED BY <4>2, <4>3
    <3> QED BY <3>1, <3>2, RequestsOnlyRead
            DEF Next, RequestSteps, vars, store, StampReceived, Commit, SaveFails
  <2>4. Header => Header'
    BY <2>1, HeaderStays
  <2>5. Values => Values'
    BY <2>1, ValuesStay
  <2>6. Values /\ CardsNotBehindMetrics => CardsNotBehindMetrics'
    <3> SUFFICES ASSUME Values, CardsNotBehindMetrics PROVE CardsNotBehindMetrics'
      OBVIOUS
    <3>1. \A i \in DOMAIN log : i \in DOMAIN log' /\ log'[i] = log[i]
      BY LogGrows
    <3>2. \A n \in DOMAIN req.metrics : Timestamp(req.metrics[n], n)' = Timestamp(req.metrics[n], n)
      BY <1>1, <3>1 DEF Values, Rows, Timestamp
    <3> QED BY <1>1, <3>2 DEF CardsNotBehindMetrics
  <2> QED BY <2>1, <2>2, <2>3, <2>4, <2>5, <2>6, Zenon DEF OverviewPhase, SameRequest
<1>2. ASSUME NEW kind \in Kind, NEW m, NEW linked, Begin(kind, m, linked) PROVE OverviewPhase'
  <2>1. req'.kind = kind /\ req'.todo = Steps(kind)
    BY <1>2, NewRequestFields DEF Begin
  <2>2. kind = "overview" => Steps(kind) = OverviewSteps
    BY DEF Steps
  <2> QED BY <2>1, <2>2, Zenon DEF OverviewPhase
<1>3. CASE Request \/ Redirect \/ FollowLink
  BY <1>2, <1>3 DEF Request, Redirect, FollowLink, Kind
<1>4. CASE Leave
  BY <1>4, NoRequestOK DEF Leave, OverviewPhase
<1>5. CASE QueryFails
  <2>1. req'.status = 500
    BY <1>5, StepFields
  <2>2. req'.todo = <<>>
    BY <1>5 DEF QueryFails, Stop, RequestOK, Fields
  <2>3. req'.status # 200
    BY <2>1
  <2> QED BY <2>2, <2>3, Zenon DEF OverviewPhase
<1>6. CASE CheckExists
  <2>1. req.todo # <<>> /\ Head(req.todo) = "exists" /\ req'.kind = req.kind
    BY <1>6, StepFields DEF CheckExists, At, KeepsBut, Fields
  <2>2. CASE AgentExists(req.machine)
    <3>1. req'.todo = Tail(req.todo)
      BY <1>6, <2>2 DEF CheckExists, Read, RequestOK, Fields
    <3>2. AgentExists(req.machine)'
      <4>1. req'.machine = req.machine
        BY <1>6, StepFields DEF KeepsBut, Fields
      <4> QED BY <2>2, <4>1, AgentsStay DEF AgentsGrow, AgentExists
    <3>3. req.kind = "overview" => req.todo = OverviewSteps
      <4>1. "exists" \notin {"clock", "agents", "metrics", "modules"}
        OBVIOUS
      <4> QED BY <2>1, <4>1, Phases, Zenon DEF OverviewPhase
    <3> QED BY <2>1, <3>1, <3>2, <3>3, Phases, Zenon DEF OverviewPhase
  <2>3. CASE ~AgentExists(req.machine)
    <3>1. Stop(404)
      BY <1>6, <2>3 DEF CheckExists
    <3>2. req'.todo = <<>> /\ req'.status = 404
      BY <3>1 DEF Stop, RequestOK, Fields
    <3>3. req'.status # 200
      BY <3>2
    <3> QED BY <3>2, <3>3, Zenon DEF OverviewPhase
  <2> QED BY <2>2, <2>3
<1>7. CASE ReadClock
  <2>1. req.todo # <<>> /\ Head(req.todo) = "clock"
    BY <1>7 DEF ReadClock, At
  <2>2. /\ req'.kind = req.kind /\ req'.todo = Tail(req.todo) /\ req'.now = now
        /\ req'.machine = req.machine
    BY <1>7, StepFields DEF KeepsBut, Fields
  <2>3. req.kind = "overview" => req.todo = FromClock /\ AgentExists(req.machine)
    <3>1. "clock" \notin {"exists", "agents", "metrics", "modules"}
      OBVIOUS
    <3> QED BY <2>1, <3>1, Phases, Zenon DEF OverviewPhase
  <2>4. AgentExists(req.machine) => AgentExists(req.machine)'
    BY <2>2, AgentsStay DEF AgentsGrow, AgentExists
  <2>5. now' - req'.now <= Stall
    <3>1. now' = now
      BY <1>7 DEF ReadClock, Read
    <3>2. now - now <= Stall
      BY TimeAssumption DEF StoreOK
    <3> QED BY <2>2, <3>1, <3>2
  <2> QED BY <2>2, <2>3, <2>4, <2>5, Phases, ZenonT(40) DEF OverviewPhase
<1>8. CASE ReadAgents
  <2>1. req.todo # <<>> /\ Head(req.todo) = "agents"
    BY <1>8 DEF ReadAgents, At
  <2>2. /\ SameRequest /\ req'.todo = Tail(req.todo) /\ req'.sidebar = agents
        /\ UNCHANGED store
    BY <1>8, StepFields, SameRequestSteps, RequestsOnlyRead DEF RequestSteps
  <2>3. req.kind = "overview" =>
          req.todo = FromAgents /\ AgentExists(req.machine) /\ now - req.now <= Stall
    <3>1. "agents" \notin {"exists", "clock", "metrics", "modules"}
      OBVIOUS
    <3> QED BY <2>1, <3>1, Phases, Zenon DEF OverviewPhase
  <2>4. AgentExists(req.machine) /\ now - req.now <= Stall => Header'
    <3> SUFFICES ASSUME AgentExists(req.machine), now - req.now <= Stall PROVE Header'
      OBVIOUS
    <3>1. req'.machine \in DOMAIN req'.sidebar
      BY <2>2 DEF AgentExists, SameRequest
    <3>2. SidebarTrue'
      BY <2>2, SidebarRead DEF SameRequest
    <3>3. \A m \in DOMAIN agents : agents[m].last <= req.now + Stall
      <4>1. \A m \in DOMAIN agents : agents[m].last \in 0..now
        BY DEF NotAhead
      <4>2. now \in Int /\ req.now \in Int /\ Stall \in Int
        BY TimeAssumption DEF StoreOK, RequestOK
      <4> QED BY <4>1, <4>2
    <3> QED BY <2>2, <3>1, <3>2, <3>3 DEF Header, SameRequest
  <2> QED BY <2>2, <2>3, <2>4, Phases, Zenon DEF OverviewPhase, SameRequest
<1>9. CASE ReadMetrics
  <2>1. req.todo # <<>> /\ Head(req.todo) = "metrics"
    BY <1>9 DEF ReadMetrics, At
  <2>2. /\ SameRequest /\ req'.sidebar = req.sidebar /\ UNCHANGED store
    BY <1>9, StepFields, SameRequestSteps, RequestsOnlyRead DEF RequestSteps, KeepsBut, Fields
  <2>3. req'.todo = Tail(req.todo) /\ req'.metrics = GetLatestMetrics(req.machine)
    <3>1. PICK latest : latest = GetLatestMetrics(req.machine)
      OBVIOUS
    <3>2. PICK r : r = [req EXCEPT !.metrics = latest]
      OBVIOUS
    <3>3. req' = [r EXCEPT !.todo = Tail(req.todo)]
      BY <1>9, <3>1, <3>2 DEF ReadMetrics, Read
    <3>4. r = [f \in Fields |-> r[f]] /\ r.metrics = latest
      BY <3>2 DEF RequestOK, Fields
    <3>5. req'.todo = Tail(req.todo) /\ req'.metrics = latest
      BY <3>3, <3>4 DEF Fields
    <3> QED BY <3>1, <3>5
  <2>4. req.kind = "overview" => req.todo = FromMetrics /\ Header
    <3>1. "metrics" \notin {"exists", "clock", "agents", "modules"}
      OBVIOUS
    <3> QED BY <2>1, <3>1, Phases, Zenon DEF OverviewPhase
  <2>5. Header => Header' /\ Values'
    BY <2>2, <2>3, HeaderStays, ValuesRead
  <2> QED BY <2>2, <2>3, <2>4, <2>5, Phases, ZenonT(40) DEF OverviewPhase, SameRequest
<1>10. CASE ReadModules
  <2>1. req.todo # <<>> /\ Head(req.todo) = "modules"
    BY <1>10 DEF ReadModules, At
  <2>2. /\ SameRequest /\ req'.sidebar = req.sidebar /\ req'.metrics = req.metrics
        /\ req'.status = req.status /\ UNCHANGED store
    BY <1>10, StepFields, SameRequestSteps, RequestsOnlyRead DEF RequestSteps, KeepsBut, Fields
  <2>3. req'.todo = Tail(req.todo) /\ req'.cards = ListModulesForAgent(req.machine)
    <3>1. PICK cards : cards = ListModulesForAgent(req.machine)
      OBVIOUS
    <3>2. PICK r : r = [req EXCEPT !.cards = cards]
      OBVIOUS
    <3>3. req' = [r EXCEPT !.todo = Tail(req.todo)]
      BY <1>10, <3>1, <3>2 DEF ReadModules, Read
    <3>4. r = [f \in Fields |-> r[f]] /\ r.cards = cards
      BY <3>2 DEF RequestOK, Fields
    <3>5. req'.todo = Tail(req.todo) /\ req'.cards = cards
      BY <3>3, <3>4 DEF Fields
    <3> QED BY <3>1, <3>5
  <2>4. req.kind = "overview" => req.todo = FromModules /\ Header /\ Values
    <3>1. "modules" \notin {"exists", "clock", "agents", "metrics"}
      OBVIOUS
    <3> QED BY <2>1, <3>1, Phases, Zenon DEF OverviewPhase
  <2>5. Header => Header'
    BY <2>2, HeaderStays
  <2>6. Values => Values' /\ CardsNotBehindMetrics'
    BY <2>2, <2>3, ValuesStay, CardsRead
  <2> QED BY <2>2, <2>3, <2>4, <2>5, <2>6, Phases, ZenonT(40) DEF OverviewPhase, SameRequest
<1> QED BY <1>1, <1>3, <1>4, <1>5, <1>6, <1>7, <1>8, <1>9, <1>10
        DEF Next, vars, Tick, StampReceived, Commit, SaveFails

LEMMA PagesInvariant ==
  Spec => [](/\ StoreOK /\ RequestOK(req) /\ NotAhead /\ ApiOrder
             /\ Held /\ ApiPhase /\ OverviewPhase)
<1>1. Init => NotAhead /\ ApiOrder /\ Held /\ ApiPhase /\ OverviewPhase
  <2> SUFFICES ASSUME Init PROVE NotAhead /\ ApiOrder /\ Held /\ ApiPhase /\ OverviewPhase
    OBVIOUS
  <2>1. NotAhead
    BY TypeInit, NoRequestOK DEF Init, NotAhead, Nothing
  <2>2. Held
    BY DEF Init, Held, Nothing
  <2>3. ApiOrder /\ ApiPhase /\ OverviewPhase
    BY TypeInit, NoRequestOK DEF Init, ApiOrder, ApiPhase, OverviewPhase
  <2> QED BY <2>1, <2>2, <2>3
<1> QED BY <1>1, Typed, NotAheadStep, ApiOrderStep, HeldStep, ApiPhaseStep, OverviewPhaseStep,
           PTL DEF Spec

LEMMA OverviewShown ==
  ASSUME OverviewPhase, Shows("overview")
  PROVE  Header /\ Values /\ CardsNotBehindMetrics
<1>1. <<>> # OverviewSteps /\ <<>> # FromClock /\ <<>> # FromAgents /\ <<>> # FromMetrics
      /\ <<>> # FromModules
  BY DEF OverviewSteps, FromClock, FromAgents, FromMetrics, FromModules
<1> QED BY <1>1, Zenon DEF OverviewPhase, Shows, Answered

LEMMA ApiShown ==
  ASSUME StoreOK, RequestOK(req), ApiOrder, ApiPhase, Shows("api agents")
  PROVE  SidebarTrue /\ \A m \in DOMAIN req.sidebar : req.sidebar[m].last <= req.now
BY NotYetAnswered, Zenon DEF ApiOrder, ApiPhase, Shows, Answered

LEMMA NotPastTheStall ==
  ASSUME RequestOK(req), NotAhead,
         \A m \in DOMAIN req.sidebar : req.sidebar[m].last <= req.now
  PROVE  \A m \in DOMAIN req.sidebar : req.sidebar[m].last <= req.now + Stall
<1> TAKE m \in DOMAIN req.sidebar
<1>1. req.sidebar[m].last \in Int /\ req.now \in Int
  BY AgeIsInteger
<1>2. req.sidebar[m].last <= req.now /\ Stall \in Nat
  BY TimeAssumption
<1> QED BY <1>1, <1>2

\* The ages and the badges are true of what was saved when the request began, up to the
\* wait of one goroutine (sidebar.go:30-46, agents.go:31-58, overview.go:39-41).
THEOREM AgesAreHonest == Spec => []AgeHonest
<1>1. ASSUME StoreOK, RequestOK(req), NotAhead, SidebarTrue,
             \A m \in DOMAIN req.sidebar : req.sidebar[m].last <= req.now + Stall
      PROVE  /\ \A i \in 1..req.since :
                   /\ log[i].machine \in DOMAIN req.sidebar
                   /\ Age(log[i].machine) <= req.now - log[i].committed + Stall
                   /\ Status(log[i].machine) = "offline" =>
                         req.now - log[i].committed > Threshold - Stall
             /\ \A m \in DOMAIN req.sidebar :
                   /\ Age(m) >= -Stall
                   /\ Status(m) = "online" => \E i \in DOMAIN log :
                         log[i].machine = m /\ req.now - log[i].at <= Threshold
  <2>1. Stall \in Int /\ Threshold \in Int /\ req.now \in Int
    BY <1>1, TimeAssumption DEF RequestOK
  <2>2. \A m \in DOMAIN req.sidebar : req.sidebar[m].last \in Int
    BY <1>1, AgeIsInteger
  <2>3. ASSUME NEW i \in 1..req.since
        PROVE  /\ log[i].machine \in DOMAIN req.sidebar
               /\ Age(log[i].machine) <= req.now - log[i].committed + Stall
               /\ Status(log[i].machine) = "offline" =>
                     req.now - log[i].committed > Threshold - Stall
    <3>1. i \in DOMAIN log /\ log[i].committed \in Int
      BY <1>1, SinceInLog, HeldType
    <3>2. /\ log[i].machine \in DOMAIN req.sidebar
          /\ req.sidebar[log[i].machine].last >= log[i].committed - Stall
      BY <1>1 DEF SidebarTrue
    <3>3. Age(log[i].machine) <= req.now - log[i].committed + Stall
      BY <2>1, <2>2, <3>1, <3>2 DEF Age
    <3>4. Status(log[i].machine) = "offline" => Age(log[i].machine) > Threshold
      BY DEF Status
    <3>5. Age(log[i].machine) \in Int
      BY <2>1, <2>2, <3>2 DEF Age
    <3> QED BY <2>1, <3>1, <3>2, <3>3, <3>4, <3>5
  <2>4. ASSUME NEW m \in DOMAIN req.sidebar
        PROVE  /\ Age(m) >= -Stall
               /\ Status(m) = "online" => \E i \in DOMAIN log :
                     log[i].machine = m /\ req.now - log[i].at <= Threshold
    <3>1. Age(m) >= -Stall
      BY <1>1, <2>1, <2>2 DEF Age
    <3>2. PICK i \in DOMAIN log : log[i].machine = m /\ log[i].at = req.sidebar[m].last
      BY <1>1 DEF SidebarTrue
    <3>3. Status(m) = "online" => ~(Age(m) > Threshold)
      BY DEF Status
    <3>4. Status(m) = "online" => req.now - log[i].at <= Threshold
      BY <2>1, <2>2, <3>2, <3>3 DEF Age
    <3> QED BY <3>1, <3>2, <3>4
  <2> QED BY <2>3, <2>4
<1>2. StoreOK /\ RequestOK(req) /\ NotAhead /\ ApiOrder /\ Held /\ ApiPhase /\ OverviewPhase
      => AgeHonest
  <2> SUFFICES ASSUME StoreOK, RequestOK(req), NotAhead, ApiOrder, ApiPhase, OverviewPhase,
                      Shows("overview") \/ Shows("api agents")
               PROVE  SidebarTrue /\ \A m \in DOMAIN req.sidebar :
                         req.sidebar[m].last <= req.now + Stall
    BY <1>1, Zenon DEF AgeHonest
  <2>1. CASE Shows("overview")
    <3>1. Header
      BY <2>1, OverviewShown
    <3> QED BY <3>1, Zenon DEF Header
  <2>2. CASE Shows("api agents")
    <3>1. SidebarTrue /\ \A m \in DOMAIN req.sidebar : req.sidebar[m].last <= req.now
      BY <2>2, ApiShown, Zenon
    <3> QED BY <3>1, NotPastTheStall, Zenon
  <2> QED BY <2>1, <2>2
<1> QED BY <1>2, PagesInvariant, PTL

\* Of the four queries behind the overview page, each is at least as new as the one
\* before: the page's machine is in its sidebar, its metrics are not behind its last
\* push, its module cards not behind its metrics (overview.go:24-61).
THEOREM PagePartsAgree == Spec => []PartsAgree
<1>1. OverviewPhase => PartsAgree
  BY OverviewShown DEF PartsAgree, Header, Values
<1> QED BY <1>1, PagesInvariant, PTL

\* A card computed from metrics of one module that always travel together never mixes
\* two pushes: all latest metrics come from one query (kpis.go:73-119).
THEOREM CardsMixNoPushes ==
  ASSUME \A c \in Card : \A n, o \in Needs[c] : ModuleOf[n] = ModuleOf[o]
  PROVE  Spec => []OnePushPerCard
<1>1. OverviewPhase => OnePushPerCard
  BY OverviewShown DEF OnePushPerCard, Values, Filled
<1> QED BY <1>1, PagesInvariant, PTL
=============================================================================
