------------------------------ MODULE AgentLoop -----------------------------
(***************************************************************************)
(* The agent, from its configuration (internal/config, internal/modules)   *)
(* to its push loop (internal/agent/agent.go), against an environment that *)
(* misbehaves: modules that fail, hang or start late, a dashboard that     *)
(* refuses or hangs.  Time is measured by stopwatches, so that runs have   *)
(* no end: since the ticker fired, since the current doPush began, since   *)
(* the dashboard accepted a push (the age behind the online/offline badge),*)
(* and for how long each module has been able to do its part.              *)
(***************************************************************************)
EXTENDS Naturals

CONSTANTS
    Modules,    \* the modules of the configuration file, by their place in it
    Installs,   \* the ways to configure them: module -> Setup
    Remote,     \* those whose Collect waits for the network, and honours ctx
    Interval,   \* pushInterval
    Timeout,    \* pushTimeout
    Latency,    \* a doPush in a healthy environment takes no longer
    Threshold   \* offlineThreshold of the dashboard

ModuleSet == {Modules[i] : i \in DOMAIN Modules}

\* enabled: false; an unknown type or a setting the factory misses; a setting that
\* Detect refuses; none of these.
Setup == {"disabled", "missing", "malformed", "good"}

ASSUME InstallsAssumption == Installs \subseteq [ModuleSet -> Setup]
ASSUME RemoteAssumption == Remote \subseteq ModuleSet
ASSUME TimeAssumption == /\ Interval \in Nat \ {0} /\ Timeout \in Nat \ {0}
                         /\ Latency \in Nat /\ Latency < Timeout
                         /\ Threshold \in Nat

VARIABLES
    setup,      \* module -> how it is configured
    active,     \* Agent.modules: the places of those that run
    pc,         \* "boot", "start", "collect", "push", "wait", "stopped", "exited"
    left,       \* those that doPush has still to collect
    data,       \* modules whose data the current push carries
    carried,    \* modules whose data the last accepted push carried
    tick,       \* the ticker's channel holds a tick (its buffer is one)
    sinceTick,  \* time since the ticker last fired
    elapsed,    \* time since doPush began, 0 outside of it
    age,        \* time since the dashboard accepted a push
    well,       \* module -> for how long it and everything it needs has worked
    health,     \* module -> "ok", "error", "hang"
    dashboard,  \* "ok", "error", "hang"
    stop        \* ctx is cancelled

installed == <<setup, active>>
loop == <<pc, left, data, carried>>
clocks == <<sinceTick, elapsed, age, well>>
env == <<health, dashboard>>
vars == <<installed, loop, tick, clocks, env, stop>>

\* The stopwatches stop where nothing tells higher values apart.
AgeMax == Threshold + 1
\* Longest time from a recovery to the acceptance of a push that profits from it:
\* the next tick's, when the current push has passed the module already.
Recovery == Interval + Latency
Later(t, max) == IF t < max THEN t + 1 ELSE t

Condition == {"ok", "error", "hang"}

TypeOK == /\ setup \in Installs
          /\ active \subseteq {i \in DOMAIN Modules : setup[Modules[i]] = "good"}
          /\ pc \in {"boot", "start", "collect", "push", "wait", "stopped", "exited"}
          /\ left \subseteq active
          /\ data \subseteq ModuleSet
          /\ carried \subseteq ModuleSet
          /\ tick \in BOOLEAN
          /\ sinceTick \in 0..Interval
          /\ elapsed \in 0..Timeout
          /\ age \in 0..AgeMax
          /\ well \in [ModuleSet -> 0..Recovery]
          /\ health \in [ModuleSet -> Condition]
          /\ dashboard \in Condition
          /\ stop \in BOOLEAN

\* Only what goes over the network can hang.
Conditions == {h \in [ModuleSet -> Condition] : \A m \in ModuleSet \ Remote : h[m] # "hang"}

\* The agent starts with no push accepted yet, in whatever environment there is.
Init == /\ setup \in Installs /\ active = {}
        /\ pc = "boot" /\ left = {} /\ data = {} /\ carried = {}
        /\ tick = FALSE
        /\ sinceTick = 0 /\ elapsed = 0 /\ age = AgeMax
        /\ well = [m \in ModuleSet |-> 0]
        /\ health \in Conditions
        /\ dashboard \in Condition
        /\ stop = FALSE

Running == pc \notin {"boot", "exited"}

Busy == pc \in {"collect", "push"}

\* Mutant of Expired: doPush runs under the agent's context, with no deadline.
ExpiredOnStop == stop

\* pushCtx is done: its deadline passed, or its parent was cancelled.
Expired == stop \/ elapsed >= Timeout

Healthy == /\ dashboard = "ok"
           /\ \A m \in ModuleSet : health[m] # "hang"

\* The others may fail, but they do not use up the time.
Works(m) == Healthy /\ health[m] = "ok"

-----------------------------------------------------------------------------
(* Start. *)

\* Mutant of Detected: Detect asks the exporter whether it is there.
DetectedProbing ==
    {i \in DOMAIN Modules : setup[Modules[i]] = "good" /\ health[Modules[i]] = "ok"}

\* Mutant of Detected: a refusal of Detect is logged and nothing else.
DetectedUnheeded == {i \in DOMAIN Modules : setup[Modules[i]] # "disabled"}

\* Build skips what is disabled, and New what Detect refuses; Detect looks at the
\* configuration only.
Detected == {i \in DOMAIN Modules : setup[Modules[i]] = "good"}

Start == /\ pc = "boot"
         /\ \A m \in ModuleSet : setup[m] # "missing"
         /\ active' = Detected
         /\ pc' = "start"
         /\ UNCHANGED <<setup, left, data, carried, tick, clocks, env, stop>>

\* Build fails: the process exits with code 1.
BuildFails == /\ pc = "boot"
              /\ \E m \in ModuleSet : setup[m] = "missing"
              /\ pc' = "exited"
              /\ UNCHANGED <<installed, left, data, carried, tick, clocks, env, stop>>

-----------------------------------------------------------------------------
(* Time and environment. *)

\* The ticker's send finds the buffer full, or fills it.
TickerFires ==
    /\ Running /\ sinceTick = Interval
    /\ sinceTick' = 0
    /\ tick' = TRUE
    /\ UNCHANGED <<installed, loop, elapsed, age, well, env, stop>>

\* A call already under way meets the new conditions too.
EnvironmentChanges == health' \in Conditions /\ dashboard' \in Condition

\* The goroutine runs as soon as it can: time passes only while it waits for
\* the ticker, or for a call that has not answered within its limit.
MayWait == \/ pc = "wait" /\ ~tick
           \/ Busy /\ ~Expired /\ (Healthy => elapsed < Latency)
           \/ pc = "stopped"

TimePasses ==
    /\ sinceTick < Interval /\ MayWait
    /\ sinceTick' = sinceTick + 1
    /\ elapsed' = IF Busy THEN Later(elapsed, Timeout) ELSE 0
    /\ age' = Later(age, AgeMax)
    /\ EnvironmentChanges
    /\ well' = [m \in ModuleSet |->
                  IF Works(m) /\ Works(m)' THEN Later(well[m], Recovery) ELSE 0]
    /\ UNCHANGED <<installed, loop, tick, stop>>

Signal ==
    /\ Running /\ ~stop
    /\ stop' = TRUE
    /\ UNCHANGED <<installed, loop, tick, clocks, env>>

\* Run returns without waiting for the loop, and with main the process ends.
MainReturns ==
    /\ Running /\ stop
    /\ pc' = "exited"
    /\ UNCHANGED <<installed, left, data, carried, tick, clocks, env, stop>>

-----------------------------------------------------------------------------
(* pushLoop and doPush. *)

\* doPush begins: at once when the loop starts, then for each tick.  When both
\* a tick and the cancellation are ready, select picks either.
BeginPush ==
    /\ pc = "start" \/ (pc = "wait" /\ tick)
    /\ tick' = (IF pc = "wait" THEN FALSE ELSE tick)
    /\ pc' = "collect" /\ left' = active /\ data' = {}
    /\ elapsed' = 0
    /\ UNCHANGED <<installed, carried, sinceTick, age, well, env, stop>>

LoopStops ==
    /\ pc = "wait" /\ stop
    /\ pc' = "stopped"
    /\ UNCHANGED <<installed, left, data, carried, tick, clocks, env, stop>>

\* They are collected in the order of the file.
Collecting(i) == pc = "collect" /\ i \in left /\ \A j \in left : i <= j

Fails(m) == health[m] = "error" \/ (m \in Remote /\ Expired)

CollectOk(i) ==
    /\ Collecting(i)
    /\ health[Modules[i]] = "ok" /\ (Modules[i] \in Remote => ~Expired)
    /\ left' = left \ {i}
    /\ data' = data \cup {Modules[i]}
    /\ UNCHANGED <<installed, pc, carried, tick, clocks, env, stop>>

\* Mutant of CollectFails: doPush gives up on the first module that fails.
CollectFailsReturn(i) ==
    /\ Collecting(i) /\ Fails(Modules[i])
    /\ pc' = "wait" /\ left' = {} /\ data' = {}
    /\ elapsed' = 0
    /\ UNCHANGED <<installed, carried, tick, sinceTick, age, well, env, stop>>

\* An error, or the deadline of the context shared by the whole doPush.
CollectFails(i) ==
    /\ Collecting(i) /\ Fails(Modules[i])
    /\ left' = left \ {i}
    /\ UNCHANGED <<installed, pc, data, carried, tick, clocks, env, stop>>

Return == /\ pc' = "wait" /\ left' = {} /\ data' = {}
          /\ elapsed' = 0
          /\ UNCHANGED <<installed, tick, sinceTick, env, stop>>

Collected == pc = "collect" /\ left = {}

NothingToPush == Collected /\ data = {} /\ Return /\ UNCHANGED <<carried, age, well>>

SendPush ==
    /\ Collected /\ data # {}
    /\ pc' = "push"
    /\ UNCHANGED <<installed, left, data, carried, tick, clocks, env, stop>>

PushAccepted ==
    /\ pc = "push" /\ dashboard = "ok" /\ ~Expired
    /\ Return /\ age' = 0 /\ carried' = data /\ UNCHANGED well

\* Mutant of PushFails: a push that fails ends the loop.
PushFailsForGood ==
    /\ pc = "push" /\ (dashboard = "error" \/ Expired)
    /\ pc' = "stopped" /\ left' = {} /\ data' = {} /\ elapsed' = 0
    /\ UNCHANGED <<installed, tick, sinceTick, carried, age, well, env, stop>>

PushFails ==
    /\ pc = "push" /\ (dashboard = "error" \/ Expired)
    /\ Return /\ UNCHANGED <<carried, age, well>>

LoopStep == \/ Start \/ BuildFails
            \/ BeginPush \/ LoopStops \/ NothingToPush \/ SendPush
            \/ PushAccepted \/ PushFails
            \/ \E i \in DOMAIN Modules : CollectOk(i) \/ CollectFails(i)

Next == \/ TickerFires \/ TimePasses \/ Signal \/ MainReturns \/ LoopStep

Spec == Init /\ [][Next]_vars

\* Time passes, the ticker fires and the goroutine runs; the environment need
\* never improve.
FairSpec == /\ Spec
            /\ WF_vars(TimePasses) /\ WF_vars(TickerFires) /\ WF_vars(LoopStep)

-----------------------------------------------------------------------------
(* Properties *)

(***************************************************************************)
(* agent.go:21-22: pushTimeout "Keeps a stuck push from blocking the loop  *)
(* past the next tick".                                                    *)
(***************************************************************************)
FreeAtTick == [][TickerFires => ~Busy]_vars

(***************************************************************************)
(* An agent one of whose modules works is shown online (api/agents.go      *)
(* 43-58, web/sidebar.go): once the module and the dashboard have worked   *)
(* for an interval and a push, with nothing hanging, the last push is      *)
(* never older than the threshold, even if the other modules fail on every *)
(* tick.                                                                   *)
(***************************************************************************)
Online == age <= Threshold

Configured == {m \in ModuleSet : setup[m] = "good"}

HealthyShownOnline ==
    (\E m \in Configured : well[m] >= Recovery) /\ Running /\ ~stop => Online

(***************************************************************************)
(* "a node_exporter that starts after the agent must not keep the module   *)
(* disabled" (system.go:38-41), nor one that was away: once a configured   *)
(* module has worked for an interval and a push, the last accepted push    *)
(* carries its data, whatever was wrong when the agent started.            *)
(***************************************************************************)
RecoveredModulePushed ==
    \A m \in Configured : well[m] >= Recovery /\ Running /\ ~stop => m \in carried

(***************************************************************************)
(* No failure and no hang ends the loop: an agent that has come up and is  *)
(* not told to stop keeps coming back to collect and push (agent.go:82-90, *)
(* 93-123), also with no module to collect.                                *)
(***************************************************************************)
KeepsTrying == \/ <>(stop \/ \E m \in ModuleSet : setup[m] = "missing")
               \/ ([]<>(pc = "collect") /\ []<>(pc = "wait"))
=============================================================================
