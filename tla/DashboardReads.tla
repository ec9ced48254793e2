--------------------------- MODULE DashboardReads ---------------------------
(***************************************************************************)
(* What the dashboard reads back while pushes are being saved: the home    *)
(* page, the overview page and the two API endpoints that list agents and  *)
(* latest metrics (internal/dashboard/web, internal/dashboard/api), over   *)
(* the queries of storage/queries.go.  A request reads the clock once and  *)
(* runs its queries one after the other, each of them atomic and with no   *)
(* transaction around them: pushes commit in between.  Requests share no   *)
(* state and write none, so one at a time is enough.                       *)
(***************************************************************************)
EXTENDS Integers, Sequences, FiniteSetsExt

CONSTANTS
    Handler,    \* goroutines of the other server, saving pushes
    Machine,    \* machines, numbered in alphabetical order
    Name,       \* metric names
    ModuleOf,   \* metric name -> the module that collects it
    Carries,    \* the sets of names that a push may carry
    Card,       \* the KPI cards that are computed from metrics
    Needs,      \* card -> the names without which it is Missing
    Skew,       \* timestampSkew: bound on a push's own clock when it is checked
    Stall,      \* longest wait of a goroutine between a clock reading and its use
    Delay,      \* longest way from a module's Collect to receivedAt, clocks aside
    Offsets,    \* module -> its agent time less receivedAt, for the pushes looked at
    Threshold,  \* offlineThreshold
    MaxNow,     \* bound on the clock
    MaxPushes,  \* bound on the pushes saved
    NoPush      \* the handler saves nothing

ASSUME MachineAssumption == Machine \subseteq Nat
ASSUME CarriesAssumption == /\ Carries \subseteq SUBSET Name
                            /\ \A names \in Carries : IsFiniteSet(names)
ASSUME NeedsAssumption == Needs \in [Card -> (SUBSET Name) \ {{}}]
ASSUME TimeAssumption == {Skew, Stall, Delay, Threshold, MaxNow, MaxPushes} \subseteq Nat

Modules == {ModuleOf[n] : n \in Name}

\* A module stamps its data, the push is stamped and passes the skew check, and
\* receivedAt is read.
ASSUME OffsetsAssumption == Offsets \subseteq [Modules -> -(Skew + Delay)..Skew]

VARIABLES
    now,        \* the server's clock
    saving,     \* handler -> the push it is about to commit
    log,        \* committed pushes with their metrics, in the order of their ids
    agents,     \* machine -> first_seen_at and last_push_at
    req         \* the page or API request being served

vars == <<now, saving, log, agents, req>>

-----------------------------------------------------------------------------
(* The queries. *)

ListAgents == agents

AgentExists(m) == m \in DOMAIN agents

\* The pushes that brought machine m a value of metric n.
Rows(m, n) == {i \in DOMAIN log : log[i].machine = m /\ n \in log[i].names}

Recorded(m) == {n \in Name : Rows(m, n) # {}}

\* The timestamp of the rows of metric n in push i: their module's.
Timestamp(i, n) == log[i].ts[ModuleOf[n]]

\* Mutant of GetLatestMetrics: the latest is the last one inserted.
GetLatestMetricsById(m) == [n \in Recorded(m) |-> Max(Rows(m, n))]

\* Name -> the push its latest value is from: the greatest of the agent's
\* timestamps, and of several rows that bear it the one inserted last.
GetLatestMetrics(m) ==
    [n \in Recorded(m) |->
        Max({i \in Rows(m, n) :
                \A j \in Rows(m, n) : Timestamp(j, n) <= Timestamp(i, n)})]

ListModulesForAgent(m) ==
    [d \in {ModuleOf[n] : n \in Recorded(m)} |->
        LET own == {n \in Recorded(m) : ModuleOf[n] = d}
        IN  [count |-> Cardinality(own),
             last  |-> Max(UNION {{Timestamp(i, n) : i \in Rows(m, n)} : n \in own})]]

-----------------------------------------------------------------------------
(* A request: the steps it has still to take and what it has read so far. *)

\* Mutant of OverviewSteps: the metrics are read before the agents.
OverviewStepsMetricsFirst == <<"exists", "clock", "metrics", "agents", "modules">>

OverviewSteps == <<"exists", "clock", "agents", "metrics", "modules">>

HomeSteps == <<"agents">>

ApiAgentsSteps == <<"agents", "clock">>

ApiMetricsSteps == <<"exists", "metrics">>

Steps(kind) == CASE kind = "overview"    -> OverviewSteps
                 [] kind = "home"        -> HomeSteps
                 [] kind = "api agents"  -> ApiAgentsSteps
                 [] kind = "api metrics" -> ApiMetricsSteps

Nothing == [x \in {} |-> 0]

\* linked: the browser came here by a redirect or by a link of a page.
NewRequest(kind, m, linked) ==
    [kind |-> kind, machine |-> m, linked |-> linked, todo |-> Steps(kind),
     status |-> 200, since |-> Len(log), now |-> 0,
     sidebar |-> Nothing, metrics |-> Nothing, cards |-> Nothing]

NoRequest == [NewRequest("home", 0, FALSE) EXCEPT !.todo = <<>>, !.since = 0, !.status = 0]

Init == /\ now = 0
        /\ saving = [h \in Handler |-> NoPush]
        /\ log = <<>>
        /\ agents = Nothing
        /\ req = NoRequest

\* The answer is complete.  What it shows changes no more, so the model lets
\* nothing else happen until the browser leaves it or follows a link.
Answered == req.todo = <<>> /\ req # NoRequest

At(step) == req.todo # <<>> /\ Head(req.todo) = step

Stop(status) == req' = [req EXCEPT !.todo = <<>>, !.status = status]

\* A goroutine has waited as long as it may with a time it has read.
Overdue == \/ \E h \in Handler : saving[h] # NoPush /\ now - saving[h].at >= Stall
           \/ req.kind = "overview" /\ At("agents") /\ now - req.now >= Stall

Tick == /\ now < MaxNow /\ ~Overdue /\ ~Answered
        /\ now' = now + 1
        /\ UNCHANGED <<saving, log, agents, req>>

-----------------------------------------------------------------------------
(* The pushes (PushIngest has the detail). *)

\* Mutant of AgentTimes: the check bounds only how old a push may be.
AgentTimesAhead ==
    {[d \in Modules |-> now + o[d]] : o \in Offsets \cup [Modules -> {2 * Skew + Delay}]}

\* When the modules of an agent may have measured what a push received now carries.
AgentTimes == {[d \in Modules |-> now + o[d]] : o \in Offsets}

\* receivedAt is read, then the handler waits for the connection.
StampReceived(h, m, names) ==
    /\ saving[h] = NoPush /\ ~Answered
    /\ Len(log) + Cardinality({g \in Handler : saving[g] # NoPush}) < MaxPushes
    /\ \E ts \in AgentTimes :
          saving' = [saving EXCEPT ![h] = [machine |-> m, names |-> names,
                                           ts |-> ts, at |-> now]]
    /\ UNCHANGED <<now, log, agents, req>>

\* Mutant of Upsert: ON CONFLICT DO NOTHING.
UpsertKeeps(m, t) ==
    [x \in DOMAIN agents \cup {m} |->
        IF x \in DOMAIN agents THEN agents[x] ELSE [first |-> t, last |-> t]]

Upsert(m, t) ==
    [x \in DOMAIN agents \cup {m} |->
        CASE x # m -> agents[x]
          [] x = m /\ m \in DOMAIN agents -> [agents[m] EXCEPT !.last = t]
          [] OTHER -> [first |-> t, last |-> t]]

\* Mutant of Commit: the agent's row takes a time of the agent's.
CommitAgentTime(h) ==
    LET p == saving[h] IN
    /\ p # NoPush /\ ~Answered
    /\ log' = Append(log, [machine |-> p.machine, names |-> p.names, ts |-> p.ts,
                           at |-> p.at, committed |-> now])
    /\ agents' = Upsert(p.machine, Max({p.ts[d] : d \in Modules}))
    /\ saving' = [saving EXCEPT ![h] = NoPush]
    /\ UNCHANGED <<now, req>>

\* The transaction, which no query can come between; committed is history.
Commit(h) ==
    LET p == saving[h] IN
    /\ p # NoPush /\ ~Answered
    /\ log' = Append(log, [machine |-> p.machine, names |-> p.names, ts |-> p.ts,
                           at |-> p.at, committed |-> now])
    /\ agents' = Upsert(p.machine, p.at)
    /\ saving' = [saving EXCEPT ![h] = NoPush]
    /\ UNCHANGED <<now, req>>

SaveFails(h) ==
    /\ saving[h] # NoPush /\ ~Answered
    /\ saving' = [saving EXCEPT ![h] = NoPush]
    /\ UNCHANGED <<now, log, agents, req>>

-----------------------------------------------------------------------------
(* The requests. *)

Begin(kind, m, linked) ==
    /\ req' = NewRequest(kind, m, linked)
    /\ UNCHANGED <<now, saving, log, agents>>

\* A browser or a client of the API asks; any id may be typed.
Request ==
    /\ req = NoRequest
    /\ \/ \E kind \in {"home", "api agents"} : Begin(kind, 0, FALSE)
       \/ \E kind \in {"overview", "api metrics"}, m \in Machine : Begin(kind, m, FALSE)

Shows(kind) == Answered /\ req.kind = kind /\ req.status = 200

\* The home page redirects to the first machine, which ListAgents returns first.
Redirect == /\ Answered /\ req.status = 303
            /\ Begin("overview", Min(DOMAIN req.sidebar), TRUE)

\* A link of the sidebar.
FollowLink == /\ Shows("overview")
              /\ \E m \in DOMAIN req.sidebar : Begin("overview", m, TRUE)

Leave == /\ Answered
         /\ req' = NoRequest
         /\ UNCHANGED <<now, saving, log, agents>>

Read(fields) == /\ req' = [fields EXCEPT !.todo = Tail(req.todo)]
                /\ UNCHANGED <<now, saving, log, agents>>

\* Mutant of CheckExists: an agent exists when it has metrics.
CheckExistsByMetrics ==
    /\ At("exists")
    /\ IF Recorded(req.machine) # {} THEN Read(req)
       ELSE Stop(404) /\ UNCHANGED <<now, saving, log, agents>>

CheckExists ==
    /\ At("exists")
    /\ IF AgentExists(req.machine) THEN Read(req)
       ELSE Stop(404) /\ UNCHANGED <<now, saving, log, agents>>

ReadClock == At("clock") /\ Read([req EXCEPT !.now = now])

\* handleHome answers 303 when there is a machine, and the empty page otherwise.
ReadAgents ==
    /\ At("agents")
    /\ Read([req EXCEPT !.sidebar = ListAgents,
                        !.status = IF req.kind = "home" /\ DOMAIN ListAgents # {}
                                   THEN 303 ELSE 200])

\* Mutant of ReadMetrics: one query per metric.
ReadMetricsOneByOne ==
    /\ At("metrics")
    /\ LET left == Recorded(req.machine) \ DOMAIN req.metrics IN
       \/ left = {} /\ Read(req)
       \/ /\ \E n \in left :
                req' = [req EXCEPT !.metrics = [x \in DOMAIN @ \cup {n} |->
                          IF x = n THEN GetLatestMetrics(req.machine)[n] ELSE @[x]]]
          /\ UNCHANGED <<now, saving, log, agents>>

ReadMetrics ==
    /\ At("metrics")
    /\ Read([req EXCEPT !.metrics = GetLatestMetrics(req.machine)])

ReadModules ==
    /\ At("modules")
    /\ Read([req EXCEPT !.cards = ListModulesForAgent(req.machine)])

\* A query fails: 500, and nothing of what was read is shown.
QueryFails ==
    /\ req.todo # <<>> /\ ~At("clock")
    /\ Stop(500)
    /\ UNCHANGED <<now, saving, log, agents>>

Next == \/ Tick
        \/ \E h \in Handler, m \in Machine, names \in Carries : StampReceived(h, m, names)
        \/ \E h \in Handler : Commit(h) \/ SaveFails(h)
        \/ Request \/ Redirect \/ FollowLink \/ Leave
        \/ CheckExists \/ ReadClock \/ ReadAgents \/ ReadMetrics \/ ReadModules
        \/ QueryFails

Spec == Init /\ [][Next]_vars

-----------------------------------------------------------------------------
(* What the answer shows. *)

\* The header and the last-push card of the page's own machine.
CurrentMachine == req.sidebar[req.machine]

Age(m) == req.now - req.sidebar[m].last

Status(m) == IF Age(m) > Threshold THEN "offline" ELSE "online"

\* The cards that are not Missing.
Filled == {c \in Card : Needs[c] \subseteq DOMAIN req.metrics}

-----------------------------------------------------------------------------
(* Properties *)

Times == [Modules -> -(Skew + Delay)..(MaxNow + Skew)]

PushRow == [machine : Machine, names : Carries, ts : Times, at : 0..MaxNow]

TypeOK ==
    /\ now \in 0..MaxNow
    /\ saving \in [Handler -> PushRow \cup {NoPush}]
    /\ log \in Seq([machine : Machine, names : Carries, ts : Times,
                    at : 0..MaxNow, committed : 0..MaxNow])
    /\ DOMAIN agents \subseteq Machine
    /\ \A m \in DOMAIN agents : agents[m] \in [first : 0..MaxNow, last : 0..MaxNow]
    /\ req.kind \in {"home", "overview", "api agents", "api metrics"}
    /\ req.todo \in Seq({"exists", "clock", "agents", "metrics", "modules"})
    /\ req.status \in {0, 200, 303, 404, 500}
    /\ req.since \in 0..Len(log)
    /\ req.now \in 0..now
    /\ DOMAIN req.sidebar \subseteq Machine
    /\ \A n \in DOMAIN req.metrics : req.metrics[n] \in 1..Len(log)

(***************************************************************************)
(* A page never goes back: whatever the order in which the pushes of an    *)
(* agent commit, a value once shown is only ever replaced by one that the  *)
(* agent measured at the same time or later, and no name disappears        *)
(* (GetLatestMetrics, queries.go:82-97).                                   *)
(***************************************************************************)
NeverGoesBack ==
    [][\A m \in Machine : \A n \in Recorded(m) :
          /\ n \in Recorded(m)'
          /\ Timestamp(GetLatestMetrics(m)[n], n)
                <= Timestamp(GetLatestMetrics(m)[n], n)']_vars

(***************************************************************************)
(* An agent whose clock jumps back keeps showing what it measured before   *)
(* the jump (queries.go:91), but not for long: the server has checked both *)
(* pushes against its own clock, so the value shown was received at most   *)
(* twice the skew and the delay before the newest that was saved when the  *)
(* request began.                                                          *)
(***************************************************************************)
BoundedStaleness ==
    Shows("overview") \/ Shows("api metrics") =>
        \A i \in 1..req.since :
            log[i].machine = req.machine =>
                \A n \in log[i].names :
                    /\ n \in DOMAIN req.metrics
                    /\ log[req.metrics[n]].at >= log[i].at - 2 * Skew - Delay

(***************************************************************************)
(* The overview page is put together from four queries between which       *)
(* pushes commit (overview.go:24-61).  Its parts may only be torn one way, *)
(* each being at least as new as the part read before it: the machine is   *)
(* in the sidebar, so findLastPush and currentMachine never fall back; the *)
(* metrics are not behind the last push; every metric belongs to a module  *)
(* card that counts it and is not older.                                   *)
(***************************************************************************)
MetricsNotBehindLastPush ==
    \E i \in DOMAIN log :
        /\ log[i].machine = req.machine /\ log[i].at = CurrentMachine.last
        /\ \A n \in log[i].names :
              n \in DOMAIN req.metrics /\ Timestamp(req.metrics[n], n) >= Timestamp(i, n)

CardsNotBehindMetrics ==
    \A n \in DOMAIN req.metrics :
        /\ ModuleOf[n] \in DOMAIN req.cards
        /\ req.cards[ModuleOf[n]].last >= Timestamp(req.metrics[n], n)
        /\ req.cards[ModuleOf[n]].count >=
              Cardinality({x \in DOMAIN req.metrics : ModuleOf[x] = ModuleOf[n]})

PartsAgree ==
    Shows("overview") => /\ req.machine \in DOMAIN req.sidebar
                            /\ MetricsNotBehindLastPush
                            /\ CardsNotBehindMetrics

(***************************************************************************)
(* A card that is computed from several metrics (kpis.go:73-119: used and  *)
(* total memory, used and total disk) takes them from the same push when   *)
(* they always travel together, so no percentage mixes two moments.        *)
(***************************************************************************)
Together(n, o) == \A names \in Carries : n \in names <=> o \in names

OnePushPerCard ==
    Shows("overview") =>
        \A c \in Filled : \A n, o \in Needs[c] :
            Together(n, o) => req.metrics[n] = req.metrics[o]

(***************************************************************************)
(* The age of the last push, and the badge computed from it, are true of   *)
(* what was saved when the request began, up to the wait of one goroutine: *)
(* no page says offline of a machine whose push was saved within the       *)
(* threshold less a stall, or online of one that has not been heard of for *)
(* longer than the threshold (sidebar.go:30-46, agents.go:43-58); and a    *)
(* push that overtakes the request makes the age negative by no more than  *)
(* the request's own wait (overview.go:39-41).  The page shows the age and *)
(* the badge; the API answers when the last push came, and the status that *)
(* it computes from the age (agents.go:12-17, 43-58).                      *)
(***************************************************************************)
AgeHonest ==
    Shows("overview") \/ Shows("api agents") =>
        /\ \A i \in 1..req.since :
              /\ log[i].machine \in DOMAIN req.sidebar
              /\ Age(log[i].machine) <= req.now - log[i].committed + Stall
              /\ Status(log[i].machine) = "offline" =>
                    req.now - log[i].committed > Threshold - Stall
        /\ \A m \in DOMAIN req.sidebar :
              /\ Age(m) >= -Stall
              /\ Status(m) = "online" => \E i \in DOMAIN log :
                    log[i].machine = m /\ req.now - log[i].at <= Threshold

(***************************************************************************)
(* The redirect of the home page and the links of the sidebar never lead   *)
(* to "agent not found", also for a machine that has pushed no metric yet  *)
(* (home.go:13-31, overview.go:28-37).                                     *)
(***************************************************************************)
LinksHold == req.linked => req.status # 404
=============================================================================
