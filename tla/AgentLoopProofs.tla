-------------------------- MODULE AgentLoopProofs --------------------------
(***************************************************************************)
(* The push loop keeps time and makes good what failed, for any modules,   *)
(* configurations, intervals and limits.                                   *)
(***************************************************************************)
EXTENDS AgentLoop, TLAPS

-----------------------------------------------------------------------------
(* Invariants *)

\* doPush leaves the ticker before it fires again.
OnTime == /\ pc \in {"boot", "start"} => sinceTick = 0 /\ ~tick
          /\ pc = "wait" /\ tick => sinceTick = 0
          /\ Busy => ~tick /\ sinceTick = elapsed

\* Where the loop is, and what its stopwatches have seen.
LoopInv == /\ Running => active = Detected
           /\ pc = "push" => left = {}
           /\ pc = "stopped" => stop
           /\ pc \in {"boot", "start"} => \A m \in ModuleSet : well[m] = 0
           /\ Busy /\ ~tick => elapsed <= sinceTick
           /\ \A m \in ModuleSet : well[m] > 0 => Works(m)

Carried(m, t) == m \in carried /\ age <= t

\* For a module that works: a push that began since it does will carry its data in
\* time, one that began before will soon be over, and between two pushes either
\* the last tick was before it worked, or that tick's push has carried its data.
Recovering(m) ==
    /\ Busy /\ elapsed <= well[m] =>
          /\ elapsed <= Latency
          /\ \A i \in active \ left : Modules[i] = m => m \in data
          /\ well[m] < Interval + elapsed \/ Carried(m, Interval + elapsed)
    /\ Busy /\ elapsed > well[m] => well[m] = 0 \/ elapsed <= Latency
    /\ pc = "wait" /\ tick => well[m] < Interval \/ Carried(m, Interval)
    /\ pc = "wait" /\ ~tick => well[m] < sinceTick \/ Carried(m, sinceTick)

RecoveryInv == Running /\ ~stop => \A m \in Configured : Works(m) => Recovering(m)

-----------------------------------------------------------------------------
(* Types *)

LEMMA Bounds == /\ AgeMax \in Nat /\ Recovery \in Nat /\ Interval \in Nat /\ Timeout \in Nat
                /\ Latency \in Nat /\ Threshold \in Nat /\ Interval >= 1 /\ Latency < Timeout
                /\ AgeMax = Threshold + 1 /\ Recovery = Interval + Latency
BY TimeAssumption DEF AgeMax, Recovery

LEMMA LaterType ==
  ASSUME NEW max \in Nat, NEW t \in 0..max
  PROVE  Later(t, max) \in 0..max /\ Later(t, max) <= t + 1 /\ (t < max => Later(t, max) = t + 1)
BY DEF Later

LEMMA TypeInit == Init => TypeOK
<1> SUFFICES ASSUME Init PROVE TypeOK
  OBVIOUS
<1>1. /\ 0 \in 0..Interval /\ 0 \in 0..Timeout /\ 0 \in 0..Recovery /\ AgeMax \in 0..AgeMax
  BY Bounds
<1> QED BY <1>1 DEF Init, TypeOK, Conditions

LEMMA TypeStep == TypeOK /\ [Next]_vars => TypeOK'
<1> SUFFICES ASSUME TypeOK, [Next]_vars PROVE TypeOK'
  OBVIOUS
<1> USE DEF TypeOK, installed, loop, clocks, env
<1>1. 0 \in 0..Interval /\ 0 \in 0..Timeout /\ 0 \in 0..AgeMax /\ 0 \in 0..Recovery
  BY Bounds
<1>2. CASE UNCHANGED vars
  BY <1>2 DEF vars
<1>3. CASE Start
  BY <1>3 DEF Start, Detected
<1>4. CASE BuildFails \/ MainReturns \/ LoopStops \/ SendPush
  BY <1>4 DEF BuildFails, MainReturns, LoopStops, SendPush
<1>5. CASE TickerFires
  BY <1>1, <1>5 DEF TickerFires
<1>6. CASE TimePasses
  <2>1. sinceTick' \in 0..Interval
    BY <1>6, Bounds DEF TimePasses
  <2>2. elapsed' \in 0..Timeout
    BY <1>1, <1>6, Bounds, LaterType DEF TimePasses
  <2>3. age' \in 0..AgeMax
    BY <1>6, Bounds, LaterType DEF TimePasses
  <2>4. \A m \in ModuleSet : Later(well[m], Recovery) \in 0..Recovery
    BY Bounds, LaterType
  <2>5. well' \in [ModuleSet -> 0..Recovery]
    BY <1>1, <1>6, <2>4 DEF TimePasses
  <2>6. health' \in [ModuleSet -> Condition] /\ dashboard' \in Condition
    BY <1>6 DEF TimePasses, EnvironmentChanges, Conditions
  <2>7. UNCHANGED <<installed, loop, tick, stop>>
    BY <1>6 DEF TimePasses
  <2> QED BY <2>1, <2>2, <2>3, <2>5, <2>6, <2>7
<1>7. CASE Signal
  BY <1>7 DEF Signal
<1>8. CASE BeginPush
  BY <1>1, <1>8 DEF BeginPush
<1>9. CASE NothingToPush \/ PushFails
  BY <1>1, <1>9 DEF NothingToPush, PushFails, Return
<1>10. CASE PushAccepted
  BY <1>1, <1>10 DEF PushAccepted, Return
<1>11. ASSUME NEW i \in DOMAIN Modules, CollectOk(i) PROVE TypeOK'
  <2>1. Modules[i] \in ModuleSet
    BY DEF ModuleSet
  <2> QED BY <1>11, <2>1 DEF CollectOk
<1>12. ASSUME NEW i \in DOMAIN Modules, CollectFails(i) PROVE TypeOK'
  BY <1>12 DEF CollectFails
<1> QED BY <1>2, <1>3, <1>4, <1>5, <1>6, <1>7, <1>8, <1>9, <1>10, <1>11, <1>12 DEF Next, LoopStep

\* The agent keeps its types, whatever fails or hangs (agent.go:60-123).
THEOREM TypeCorrect == Spec => []TypeOK
BY TypeInit, TypeStep, PTL DEF Spec

-----------------------------------------------------------------------------
(* A push is over before the ticker fires again. *)

LEMMA OnTimeStep ==
  ASSUME Timeout < Interval
  PROVE  TypeOK /\ OnTime /\ [Next]_vars => OnTime'
<1> SUFFICES ASSUME TypeOK, OnTime, [Next]_vars PROVE OnTime'
  OBVIOUS
<1> USE DEF OnTime, Busy, installed, loop, clocks, env
<1>1. /\ sinceTick \in 0..Interval /\ elapsed \in 0..Timeout /\ Interval \in Nat /\ Timeout \in Nat
      /\ Interval >= 1
  BY Bounds DEF TypeOK
<1>2. CASE UNCHANGED vars
  BY <1>2 DEF vars
<1>3. CASE Start \/ BuildFails \/ MainReturns \/ LoopStops
  BY <1>3 DEF Start, BuildFails, MainReturns, LoopStops
<1>4. CASE SendPush
  BY <1>4 DEF SendPush, Collected
<1>5. CASE TickerFires
  BY <1>1, <1>5 DEF TickerFires, Running
<1>6. CASE TimePasses
  <2>1. Busy => elapsed' = elapsed + 1
    <3>1. Busy => elapsed < Timeout
      BY <1>1, <1>6 DEF TimePasses, MayWait, Expired
    <3> QED BY <1>1, <1>6, <3>1, LaterType DEF TimePasses
  <2> QED BY <1>1, <1>6, <2>1 DEF TimePasses, MayWait
<1>7. CASE Signal
  BY <1>7 DEF Signal
<1>8. CASE BeginPush
  BY <1>8 DEF BeginPush
<1>9. CASE NothingToPush \/ PushFails \/ PushAccepted
  BY <1>9 DEF NothingToPush, PushFails, PushAccepted, Return, Collected
<1>10. ASSUME NEW i \in DOMAIN Modules, CollectOk(i) \/ CollectFails(i) PROVE OnTime'
  BY <1>10 DEF CollectOk, CollectFails
<1> QED BY <1>2, <1>3, <1>4, <1>5, <1>6, <1>7, <1>8, <1>9, <1>10 DEF Next, LoopStep

\* With a deadline shorter than the interval, as by default, no push is still under
\* way when the ticker fires, whatever hangs (agent.go:21-22, 76-95).
THEOREM NeverPastTheTick ==
  ASSUME Timeout < Interval
  PROVE  Spec => FreeAtTick
<1>1. Init => OnTime
  BY DEF Init, OnTime, Busy
<1>2. TypeOK /\ OnTime /\ [Next]_vars => [TickerFires => ~Busy]_vars
  <2> SUFFICES ASSUME TypeOK, OnTime, TickerFires, Busy PROVE FALSE
    OBVIOUS
  <2> QED BY Bounds DEF OnTime, TickerFires, TypeOK
<1>3. TypeOK /\ OnTime /\ [Next]_vars => OnTime'
  BY OnTimeStep
<1> QED BY <1>1, <1>2, <1>3, TypeCorrect, PTL DEF Spec, FreeAtTick

-----------------------------------------------------------------------------
(* Where the loop is. *)

LEMMA LoopInit == Init => LoopInv
BY DEF Init, LoopInv, Running, Busy

LEMMA LoopStepInv == TypeOK /\ LoopInv /\ [Next]_vars => LoopInv'
<1> SUFFICES ASSUME TypeOK, LoopInv, [Next]_vars PROVE LoopInv'
  OBVIOUS
<1> USE DEF LoopInv, Running, Busy, installed, loop, clocks, env
<1>1. CASE UNCHANGED vars
  BY <1>1 DEF vars, Detected, Works, Healthy
<1>2. CASE Start
  BY <1>2 DEF Start, Detected, Works, Healthy
<1>3. CASE BuildFails \/ MainReturns \/ LoopStops
  BY <1>3 DEF BuildFails, MainReturns, LoopStops, Detected, Works, Healthy
<1>4. CASE SendPush
  BY <1>4 DEF SendPush, Collected, Detected, Works, Healthy
<1>5. CASE TickerFires
  BY <1>5 DEF TickerFires, Detected, Works, Healthy
<1>6. CASE TimePasses
  <2>1. pc \in {"wait", "collect", "push", "stopped"} /\ UNCHANGED <<setup, active, pc, left, tick, stop>>
    BY <1>6 DEF TimePasses, MayWait
  <2>2. Busy /\ ~tick => elapsed' <= sinceTick'
    <3>1. elapsed \in 0..Timeout /\ sinceTick \in 0..Interval
      BY DEF TypeOK
    <3>2. Busy => elapsed' <= elapsed + 1
      BY <1>6, <3>1, Bounds, LaterType DEF TimePasses
    <3>3. elapsed' \in 0..Timeout
      BY TypeStep DEF TypeOK
    <3> QED BY <1>6, <3>1, <3>2, <3>3, Bounds DEF TimePasses
  <2>3. \A m \in ModuleSet : well'[m] > 0 => Works(m)'
    BY <1>6 DEF TimePasses
  <2> QED BY <2>1, <2>2, <2>3 DEF Detected
<1>7. CASE Signal
  BY <1>7 DEF Signal, Detected, Works, Healthy
<1>8. CASE BeginPush
  <2>1. elapsed' <= sinceTick'
    BY <1>8, Bounds DEF BeginPush, TypeOK
  <2> QED BY <1>8, <2>1 DEF BeginPush, Detected, Works, Healthy
<1>9. CASE NothingToPush \/ PushFails \/ PushAccepted
  BY <1>9 DEF NothingToPush, PushFails, PushAccepted, Return, Collected, Detected, Works, Healthy
<1>10. ASSUME NEW i \in DOMAIN Modules, CollectOk(i) \/ CollectFails(i) PROVE LoopInv'
  BY <1>10 DEF CollectOk, CollectFails, Collecting, Detected, Works, Healthy
<1> QED BY <1>1, <1>2, <1>3, <1>4, <1>5, <1>6, <1>7, <1>8, <1>9, <1>10 DEF Next, LoopStep

-----------------------------------------------------------------------------
(* A module that recovers is carried by a push that is accepted. *)

\* What the steps below use of the numbers.
LEMMA Clocks ==
  ASSUME TypeOK, NEW m \in Configured
  PROVE  /\ m \in ModuleSet
         /\ elapsed \in Nat /\ sinceTick \in Nat /\ age \in Nat /\ well[m] \in Nat
         /\ sinceTick <= Interval
<1>1. m \in ModuleSet
  BY DEF Configured
<1> QED BY <1>1, Bounds DEF TypeOK

\* A push that the module had no part in ends early enough.
LEMMA OldPushEnds ==
  ASSUME Latency <= Interval, TypeOK, LoopInv, NEW m \in Configured, Recovering(m),
         Busy, elapsed > well[m]
  PROVE  /\ tick => well[m] < Interval
         /\ ~tick => well[m] < sinceTick
<1>1. well[m] = 0 \/ elapsed <= Latency
  BY DEF Recovering
<1>2. ~tick => elapsed <= sinceTick
  BY DEF LoopInv
<1> QED BY <1>1, <1>2, Clocks, Bounds

\* While a push collects, what it has passed by is in its data.
LEMMA OwnPushHasIt ==
  ASSUME LoopInv, Running, NEW m \in Configured, Recovering(m),
         Busy, elapsed <= well[m], left = {}
  PROVE  m \in data
<1>1. PICK i \in DOMAIN Modules : Modules[i] = m
  BY DEF Configured, ModuleSet
<1>2. i \in active \ left
  BY <1>1 DEF LoopInv, Detected, Configured
<1> QED BY <1>1, <1>2 DEF Recovering

LEMMA RecoverWhenTimePasses ==
  ASSUME TypeOK, TypeOK', NEW m \in Configured, Works(m)', TimePasses,
         pc # "stopped", Works(m) => Recovering(m)
  PROVE  Recovering(m)'
<1> USE DEF Busy, Carried
<1>1. /\ m \in ModuleSet
      /\ elapsed \in Nat /\ sinceTick \in Nat /\ age \in Nat /\ well[m] \in Nat
      /\ well'[m] \in Nat /\ elapsed' \in Nat /\ age' \in Nat
  BY Clocks, Bounds DEF TypeOK
<1>2. UNCHANGED <<active, pc, left, data, carried, tick>> /\ sinceTick' = sinceTick + 1
  BY DEF TimePasses, installed, loop
<1>3. age' <= age + 1
  <2>1. age \in 0..AgeMax
    BY DEF TypeOK
  <2> QED BY <2>1, Bounds, LaterType DEF TimePasses
<1>4. well'[m] = 0 \/ (Works(m) /\ well'[m] <= well[m] + 1)
  <2>1. well[m] \in 0..Recovery
    BY <1>1 DEF TypeOK
  <2>2. well'[m] = IF Works(m) /\ Works(m)' THEN Later(well[m], Recovery) ELSE 0
    BY <1>1 DEF TimePasses
  <2> QED BY <2>1, <2>2, Bounds, LaterType
<1>5. CASE pc = "wait"
  <2>1. ~tick
    BY <1>5 DEF TimePasses, MayWait
  <2>2. well'[m] < sinceTick' \/ Carried(m, sinceTick)'
    BY <1>1, <1>2, <1>3, <1>4, <1>5, <2>1 DEF Recovering
  <2> QED BY <1>2, <1>5, <2>1, <2>2 DEF Recovering
<1>6. CASE Busy
  <2>1. elapsed < Timeout /\ (Healthy => elapsed < Latency)
    BY <1>1, <1>6, Bounds DEF TimePasses, MayWait, Expired
  <2>2. elapsed' = elapsed + 1
    <3>1. elapsed \in 0..Timeout
      BY DEF TypeOK
    <3> QED BY <1>6, <2>1, <3>1, Bounds, LaterType DEF TimePasses
  <2>3. CASE well'[m] = 0
    BY <1>1, <1>2, <1>6, <2>2, <2>3 DEF Recovering
  <2>4. CASE Works(m) /\ well'[m] <= well[m] + 1
    <3>1. elapsed' <= Latency
      BY <1>1, <2>1, <2>2, <2>4, Bounds DEF Works
    <3>2. elapsed' <= well'[m] => elapsed <= well[m]
      BY <1>1, <2>2, <2>4
    <3>3. elapsed <= well[m] => well'[m] < Interval + elapsed' \/ Carried(m, Interval + elapsed)'
      BY <1>1, <1>2, <1>3, <1>6, <2>2, <2>4, Bounds DEF Recovering
    <3>4. elapsed <= well[m] => \A i \in active \ left : Modules[i] = m => m \in data
      BY <1>6, <2>4 DEF Recovering
    <3> QED BY <1>2, <1>6, <3>1, <3>2, <3>3, <3>4 DEF Recovering
  <2> QED BY <1>4, <2>3, <2>4
<1> QED BY <1>5, <1>6 DEF TimePasses, MayWait

LEMMA RecoverStep ==
  ASSUME Latency <= Interval
  PROVE  TypeOK /\ TypeOK' /\ LoopInv /\ RecoveryInv /\ [Next]_vars => RecoveryInv'
<1> SUFFICES ASSUME TypeOK, TypeOK', LoopInv, RecoveryInv, [Next]_vars,
                    Running', ~stop', NEW m \in Configured', Works(m)'
             PROVE  Recovering(m)'
  BY DEF RecoveryInv
<1>1. CASE Start
  BY <1>1 DEF Start, Recovering, Busy
<1> SUFFICES ASSUME ~Start PROVE Recovering(m)'
  BY <1>1
<1>2. Running /\ ~stop /\ UNCHANGED setup
  <2> USE DEF installed, loop, env, Running, Return
  <2>1. CASE UNCHANGED vars
    BY <2>1 DEF vars
  <2>2. CASE TickerFires \/ TimePasses \/ Signal \/ MainReturns
    BY <2>2 DEF TickerFires, TimePasses, Signal, MainReturns
  <2>3. CASE BuildFails \/ LoopStops
    BY <2>3 DEF BuildFails, LoopStops
  <2>4. CASE SendPush \/ NothingToPush \/ PushAccepted \/ PushFails
    BY <2>4 DEF SendPush, NothingToPush, PushAccepted, PushFails, Collected
  <2>5. ASSUME NEW i \in DOMAIN Modules, CollectOk(i) \/ CollectFails(i)
        PROVE  Running /\ ~stop /\ UNCHANGED setup
    BY <2>5 DEF CollectOk, CollectFails, Collecting
  <2>6. CASE BeginPush
    BY <2>6 DEF BeginPush
  <2> QED BY <2>1, <2>2, <2>3, <2>4, <2>5, <2>6 DEF Next, LoopStep
<1>3. m \in Configured
  BY <1>2 DEF Configured
<1>4. Works(m) => Recovering(m)
  BY <1>2, <1>3 DEF RecoveryInv
<1>5. pc # "stopped"
  BY <1>2 DEF LoopInv
<1>6. CASE TimePasses
  BY <1>3, <1>4, <1>5, <1>6, RecoverWhenTimePasses
<1> SUFFICES ASSUME ~TimePasses PROVE Recovering(m)'
  BY <1>6
<1>7. UNCHANGED <<env, well>>
  <2> USE DEF clocks, Return
  <2>1. CASE UNCHANGED vars
    BY <2>1 DEF vars
  <2>2. CASE TickerFires \/ Signal \/ MainReturns
    BY <2>2 DEF TickerFires, Signal, MainReturns
  <2>3. CASE BuildFails \/ BeginPush \/ LoopStops \/ NothingToPush \/ SendPush
    BY <2>3 DEF BuildFails, BeginPush, LoopStops, NothingToPush, SendPush
  <2>4. CASE PushAccepted \/ PushFails
    BY <2>4 DEF PushAccepted, PushFails
  <2>5. ASSUME NEW i \in DOMAIN Modules, CollectOk(i) \/ CollectFails(i)
        PROVE  UNCHANGED <<env, well>>
    BY <2>5 DEF CollectOk, CollectFails
  <2> QED BY <2>1, <2>2, <2>3, <2>4, <2>5 DEF Next, LoopStep
<1>8. Works(m)
  BY <1>7 DEF env, Works, Healthy
<1>9. Recovering(m)
  BY <1>4, <1>8
<1>10. /\ m \in ModuleSet /\ elapsed \in Nat /\ sinceTick \in Nat /\ age \in Nat
       /\ well[m] \in Nat /\ well' = well
  BY <1>3, <1>7, Clocks
<1>11. Fails(m) => Expired
  BY <1>8 DEF Fails, Works
<1>12. Expired => ~(Busy /\ elapsed <= well[m])
  <2> SUFFICES ASSUME Expired, Busy, elapsed <= well[m] PROVE FALSE
    OBVIOUS
  <2>1. elapsed <= Latency
    BY <1>9 DEF Recovering
  <2> QED BY <1>2, <1>10, <2>1, Bounds DEF Expired
<1> USE DEF Busy, Carried, installed, loop, clocks
<1>13. CASE UNCHANGED vars
  BY <1>9, <1>13 DEF vars, Recovering
<1>14. CASE Signal \/ MainReturns \/ LoopStops
  BY <1>2, <1>14 DEF Signal, MainReturns, LoopStops
<1>15. CASE BuildFails
  BY <1>15 DEF BuildFails, Recovering
<1>16. CASE TickerFires
  <2>1. sinceTick = Interval /\ tick' /\ UNCHANGED <<active, pc, left, data, carried, elapsed, age>>
    BY <1>16 DEF TickerFires
  <2> QED BY <1>9, <1>10, <2>1 DEF Recovering
<1>17. CASE BeginPush
  <2>1. /\ elapsed' = 0 /\ pc' = "collect" /\ active' = active /\ left' = active
        /\ UNCHANGED <<carried, age>>
    BY <1>17 DEF BeginPush
  <2>2. well[m] < Interval \/ Carried(m, Interval)
    <3>1. CASE pc = "start"
      BY <1>10, <3>1, Bounds DEF LoopInv
    <3>2. CASE pc = "wait" /\ tick
      BY <1>9, <3>2 DEF Recovering
    <3> QED BY <1>17, <3>1, <3>2 DEF BeginPush
  <2> QED BY <1>10, <2>1, <2>2, Bounds DEF Recovering
<1>18. CASE SendPush
  BY <1>9, <1>10, <1>18 DEF SendPush, Collected, Recovering
<1>19. ASSUME NEW i \in DOMAIN Modules, CollectOk(i) PROVE Recovering(m)'
  BY <1>9, <1>10, <1>19 DEF CollectOk, Collecting, Recovering
<1>20. ASSUME NEW i \in DOMAIN Modules, CollectFails(i) PROVE Recovering(m)'
  <2>1. Modules[i] = m => Expired
    BY <1>11, <1>20 DEF CollectFails
  <2>2. /\ Busy /\ left' = left \ {i}
        /\ UNCHANGED <<active, pc, data, carried, age, tick, sinceTick, elapsed>>
    BY <1>20 DEF CollectFails, Collecting
  <2>3. elapsed <= well[m] =>
          \A j \in active \ left' : Modules[j] = m => m \in data
    BY <1>9, <1>12, <2>1, <2>2 DEF Recovering
  <2> QED BY <1>9, <1>10, <2>2, <2>3 DEF Recovering
<1>21. CASE NothingToPush \/ PushFails
  <2>1. /\ Busy /\ pc' = "wait"
        /\ UNCHANGED <<tick, sinceTick, well>>
    BY <1>21 DEF NothingToPush, PushFails, Collected, Return
  <2>2. ~(elapsed <= well[m])
    <3>1. CASE NothingToPush
      BY <1>2, <1>3, <1>9, <2>1, <3>1, OwnPushHasIt DEF NothingToPush, Collected
    <3>2. CASE PushFails
      BY <1>8, <1>12, <2>1, <3>2 DEF PushFails, Works, Healthy
    <3> QED BY <1>21, <3>1, <3>2
  <2>3. /\ tick => well[m] < Interval
        /\ ~tick => well[m] < sinceTick
    BY <1>3, <1>9, <1>10, <2>1, <2>2, OldPushEnds
  <2> QED BY <2>1, <2>3 DEF Recovering
<1>22. CASE PushAccepted
  <2>1. /\ Busy /\ pc = "push" /\ pc' = "wait" /\ age' = 0 /\ carried' = data
        /\ UNCHANGED <<tick, sinceTick, well>>
    BY <1>22 DEF PushAccepted, Return
  <2>2. CASE elapsed <= well[m]
    <3>1. m \in data
      BY <1>2, <1>3, <1>9, <2>1, <2>2, OwnPushHasIt DEF LoopInv
    <3> QED BY <1>10, <2>1, <3>1, Bounds DEF Recovering
  <2>3. CASE elapsed > well[m]
    <3>1. /\ tick => well[m] < Interval
          /\ ~tick => well[m] < sinceTick
      BY <1>3, <1>9, <2>1, <2>3, OldPushEnds
    <3> QED BY <2>1, <3>1 DEF Recovering
  <2> QED BY <1>10, <2>2, <2>3
<1> QED BY <1>13, <1>14, <1>15, <1>16, <1>17, <1>18, <1>19, <1>20, <1>21, <1>22 DEF Next, LoopStep

LEMMA Recovered ==
  ASSUME TypeOK, LoopInv, RecoveryInv, Running, ~stop,
         NEW m \in Configured, well[m] >= Recovery
  PROVE  m \in carried /\ age <= Recovery
<1>1. /\ m \in ModuleSet /\ elapsed \in Nat /\ sinceTick \in Nat /\ age \in Nat
      /\ well[m] \in Nat /\ sinceTick <= Interval
  BY Clocks
<1>2. well[m] > 0
  BY <1>1, Bounds
<1>3. Works(m) /\ pc # "start" /\ pc # "stopped"
  BY <1>1, <1>2 DEF LoopInv
<1>4. Recovering(m)
  BY <1>3 DEF RecoveryInv
<1>5. CASE pc = "wait"
  BY <1>1, <1>4, <1>5, Bounds DEF Recovering, Carried
<1>6. CASE Busy
  BY <1>1, <1>4, <1>6, Bounds DEF Recovering, Carried
<1> QED BY <1>3, <1>5, <1>6 DEF TypeOK, Running, Busy

LEMMA RecoveryInvariant ==
  ASSUME Latency <= Interval
  PROVE  Spec => [](TypeOK /\ LoopInv /\ RecoveryInv)
<1>1. Init => RecoveryInv
  BY DEF Init, RecoveryInv, Running
<1>2. TypeOK /\ TypeOK' /\ LoopInv /\ RecoveryInv /\ [Next]_vars => RecoveryInv'
  BY RecoverStep
<1> QED BY <1>1, <1>2, LoopInit, LoopStepInv, TypeCorrect, PTL DEF Spec

\* A module that was away, or was not there when the agent started, is in the last
\* accepted push once it has worked for an interval and the time a push takes
\* (agent.go:74-123, modules/system/system.go:38-41).
THEOREM RecoveredIsPushed ==
  ASSUME Latency <= Interval
  PROVE  Spec => []RecoveredModulePushed
<1>1. TypeOK /\ LoopInv /\ RecoveryInv => RecoveredModulePushed
  BY Recovered DEF RecoveredModulePushed
<1> QED BY <1>1, RecoveryInvariant, PTL

\* If the threshold of the dashboard covers an interval and a push, an agent one of
\* whose modules works is shown online, whatever the others do (agent.go:74-123,
\* dashboard/api/agents.go:43-58).
THEOREM HealthyIsOnline ==
  ASSUME Latency <= Interval, Recovery <= Threshold
  PROVE  Spec => []HealthyShownOnline
<1>1. TypeOK /\ LoopInv /\ RecoveryInv => HealthyShownOnline
  <2> SUFFICES ASSUME TypeOK, LoopInv, RecoveryInv, Running, ~stop,
                      NEW m \in Configured, well[m] >= Recovery
               PROVE  age <= Threshold
    BY DEF HealthyShownOnline, Online
  <2>1. age <= Recovery
    BY Recovered
  <2> QED BY <2>1, Bounds DEF TypeOK
<1> QED BY <1>1, RecoveryInvariant, PTL
=============================================================================
