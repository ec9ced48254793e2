-------------------------- MODULE NonceCacheProofs --------------------------
(***************************************************************************)
(* Theorems about NonceCache, for every set of nonces and callers, every   *)
(* TTL, eviction period and stall.                                         *)
(***************************************************************************)
EXTENDS NonceCache, TLAPS

(***************************************************************************)
(* What the critical sections leave of the table.                          *)
(***************************************************************************)
Table(f) == DOMAIN f \subseteq Nonce /\ \A n \in DOMAIN f : f[n] \in 0..MaxNow

LEMMA PutTable ==
  ASSUME NEW f, Table(f), NEW n \in Nonce, NEW t \in 0..MaxNow
  PROVE  Table(Put(f, n, t))
BY DEF Table, Put

LEMMA EvictedTable ==
  ASSUME NEW f, Table(f), NEW t
  PROVE  Table(Evicted(f, t))
BY DEF Table, Evicted

\* A call that is not idle is one of a handler that has read the clock.
LEMMA Pending ==
  ASSUME TypeOK, NEW c \in Caller, call[c] # Idle
  PROVE  call[c].nonce \in Nonce /\ call[c].at \in 0..MaxNow
BY DEF TypeOK, Call

(***************************************************************************)
(* Type correctness.                                                       *)
(***************************************************************************)
LEMMA TypeInit == Init => TypeOK
BY MaxNowAssumption, PeriodAssumption DEF Init, TypeOK, EmptyTable

LEMMA TypeStep == TypeOK /\ [Next]_vars => TypeOK'
<1> SUFFICES ASSUME TypeOK, [Next]_vars PROVE TypeOK'
  OBVIOUS
<1>1. CASE Tick
  BY <1>1, MaxNowAssumption DEF Tick, TypeOK
<1>2. CASE EvictTick
  BY <1>2, PeriodAssumption DEF EvictTick, TypeOK
<1>3. CASE EvictOnce
  <2>1. Table(seen')
    BY <1>3, EvictedTable DEF EvictOnce, TypeOK, Table
  <2> QED BY <1>3, <2>1 DEF EvictOnce, TypeOK, Table
<1>4. ASSUME NEW c \in Caller, NEW n \in Nonce, Ask(c, n) PROVE TypeOK'
  <2>1. [nonce |-> n, at |-> now] \in Call
    BY DEF TypeOK, Call
  <2> QED BY <1>4, <2>1 DEF Ask, TypeOK
<1>5. ASSUME NEW c \in Caller, CheckAndAdd(c) PROVE TypeOK'
  <2>1. call[c].nonce \in Nonce /\ call[c].at \in 0..MaxNow
    BY <1>5, Pending DEF CheckAndAdd
  <2>2. Table(seen')
    BY <1>5, <2>1, PutTable DEF CheckAndAdd, TypeOK, Table
  <2>3. Table(lastFresh')
    BY <1>5, <2>1, PutTable DEF CheckAndAdd, TypeOK, Table
  <2>4. answer' \in [Caller -> {"none", "fresh", "replay"}]
    BY <1>5 DEF CheckAndAdd, TypeOK
  <2>5. call' \in [Caller -> Call \cup {Idle}]
    BY <1>5 DEF CheckAndAdd, TypeOK
  <2> QED BY <1>5, <2>2, <2>3, <2>4, <2>5 DEF CheckAndAdd, TypeOK, Table
<1>6. CASE UNCHANGED vars
  BY <1>6 DEF vars, TypeOK
<1> QED BY <1>1, <1>2, <1>3, <1>4, <1>5, <1>6 DEF Next

\* The cache, its callers and its evictor keep their types.
THEOREM TypeCorrect == Spec => []TypeOK
BY TypeInit, TypeStep, PTL DEF Spec

-----------------------------------------------------------------------------
(***************************************************************************)
(* No goroutine holds a time older than the stall.                         *)
(***************************************************************************)
CallersPrompt ==
    \A c \in Caller : call[c] # Idle => call[c].at <= now /\ now <= call[c].at + Stall

EvictorPrompt == evictor # NoTime => evictor <= now /\ now <= evictor + Stall

Prompt == CallersPrompt /\ EvictorPrompt

LEMMA PromptInit == Init => Prompt
BY DEF Init, Prompt, CallersPrompt, EvictorPrompt

LEMMA CallersStep == TypeOK /\ CallersPrompt /\ [Next]_vars => CallersPrompt'
<1> SUFFICES ASSUME TypeOK, CallersPrompt, [Next]_vars PROVE CallersPrompt'
  OBVIOUS
<1>1. CASE Tick
  <2> SUFFICES ASSUME NEW c \in Caller, call'[c] # Idle
               PROVE  call'[c].at <= now' /\ now' <= call'[c].at + Stall
    BY DEF CallersPrompt
  <2>1. call'[c] = call[c] /\ call[c] # Idle /\ now' = now + 1
    BY <1>1 DEF Tick
  <2>2. ~(now - call[c].at >= Stall)
    BY <1>1, <2>1 DEF Tick, Overdue
  <2>3. call[c].at \in Int /\ now \in Int
    BY <2>1, Pending DEF TypeOK
  <2>4. call[c].at <= now
    BY <2>1 DEF CallersPrompt
  <2> QED BY <2>1, <2>2, <2>3, <2>4, StallAssumption
<1>2. ASSUME NEW c \in Caller, NEW n \in Nonce, Ask(c, n) PROVE CallersPrompt'
  <2>1. now \in Nat /\ now <= now + Stall
    BY StallAssumption DEF TypeOK
  <2> QED BY <1>2, <2>1 DEF Ask, CallersPrompt, TypeOK
<1>3. ASSUME NEW c \in Caller, CheckAndAdd(c) PROVE CallersPrompt'
  BY <1>3 DEF CheckAndAdd, CallersPrompt, TypeOK
<1>4. CASE UNCHANGED <<now, call>>
  BY <1>4 DEF CallersPrompt
<1> QED BY <1>1, <1>2, <1>3, <1>4 DEF Next, vars, EvictTick, EvictOnce

LEMMA EvictorStep == TypeOK /\ EvictorPrompt /\ [Next]_vars => EvictorPrompt'
<1> SUFFICES ASSUME TypeOK, EvictorPrompt, [Next]_vars PROVE EvictorPrompt'
  OBVIOUS
<1> USE StallAssumption, MaxNowAssumption
<1>1. now \in Nat /\ evictor \in Int
  BY DEF TypeOK, NoTime
<1>2. CASE Tick
  BY <1>1, <1>2 DEF Tick, Overdue, EvictorPrompt
<1>3. CASE EvictTick
  BY <1>1, <1>3 DEF EvictTick, EvictorPrompt
<1>4. CASE EvictOnce
  BY <1>4 DEF EvictOnce, EvictorPrompt
<1>5. CASE UNCHANGED <<now, evictor>>
  BY <1>5 DEF EvictorPrompt
<1> QED BY <1>2, <1>3, <1>4, <1>5 DEF Next, vars, Ask, CheckAndAdd

LEMMA PromptStep == TypeOK /\ Prompt /\ [Next]_vars => Prompt'
BY CallersStep, EvictorStep DEF Prompt

-----------------------------------------------------------------------------
(***************************************************************************)
(* The bound on residency.  It is not inductive: an entry is removed only  *)
(* by an eviction, so one must know that evictions keep to the ticker's    *)
(* schedule, and that what is in the table is no older than the evictions  *)
(* so far allow: the last one between two ticks, the one before while the  *)
(* evictor waits for the mutex.                                            *)
(***************************************************************************)
YoungerThan(t) == \A n \in DOMAIN seen : seen[n] > t - TTL

OnSchedule ==
    /\ evictor = NoTime => /\ nextTick - Period <= now /\ now <= nextTick + Stall
                           /\ YoungerThan(nextTick - Period)
    /\ evictor # NoTime => /\ nextTick - Period <= evictor
                           /\ evictor <= nextTick - Period + Stall
                           /\ YoungerThan(nextTick - 2 * Period)

LEMMA ScheduleInit == Init => OnSchedule
BY PeriodAssumption, StallAssumption DEF Init, OnSchedule, YoungerThan, EmptyTable

LEMMA ScheduleStep ==
  ASSUME Stall < TTL, Stall <= Period
  PROVE  TypeOK /\ Prompt /\ OnSchedule /\ [Next]_vars => OnSchedule'
<1> SUFFICES ASSUME TypeOK, Prompt, OnSchedule, [Next]_vars PROVE OnSchedule'
  OBVIOUS
<1> USE TTLAssumption, StallAssumption, PeriodAssumption, MaxNowAssumption
<1>0. now \in Nat /\ nextTick \in Nat /\ evictor \in Int
      /\ \A n \in DOMAIN seen : seen[n] \in Nat
  BY DEF TypeOK, NoTime
<1>1. CASE Tick
  BY <1>0, <1>1 DEF Tick, Overdue, OnSchedule, YoungerThan
<1>2. CASE EvictTick
  <2>1. NoTime # now
    BY <1>0 DEF NoTime
  <2> QED BY <1>0, <1>2, <2>1 DEF EvictTick, OnSchedule, YoungerThan
<1>3. CASE EvictOnce
  <2>1. \A n \in DOMAIN seen' : seen'[n] \in Nat /\ evictor - seen'[n] < TTL
    BY <1>0, <1>3 DEF EvictOnce, Evicted
  <2>2. YoungerThan(nextTick - Period)'
    BY <1>0, <1>3, <2>1 DEF EvictOnce, OnSchedule, YoungerThan
  <2>3. nextTick - Period <= now /\ now <= nextTick + Stall
    BY <1>0, <1>3 DEF EvictOnce, OnSchedule, Prompt, EvictorPrompt
  <2>4. UNCHANGED <<now, nextTick>> /\ evictor' = NoTime
    BY <1>3 DEF EvictOnce
  <2> QED BY <2>2, <2>3, <2>4 DEF OnSchedule
<1>4. ASSUME NEW c \in Caller, CheckAndAdd(c) PROVE OnSchedule'
  <2>1. /\ call[c].at \in Nat
        /\ call[c].at <= now /\ now <= call[c].at + Stall
    BY <1>4, Pending DEF CheckAndAdd, Prompt, CallersPrompt
  <2>2. \A n \in DOMAIN seen' : (n \in DOMAIN seen /\ seen'[n] = seen[n])
                                \/ seen'[n] = call[c].at
    BY <1>4 DEF CheckAndAdd, Put
  <2>3. UNCHANGED <<now, evictor, nextTick>>
    BY <1>4 DEF CheckAndAdd
  <2> QED BY <1>0, <2>1, <2>2, <2>3 DEF OnSchedule, YoungerThan, Prompt, EvictorPrompt
<1>5. CASE UNCHANGED <<now, seen, evictor, nextTick>>
  BY <1>5 DEF OnSchedule, YoungerThan
<1> QED BY <1>1, <1>2, <1>3, <1>4, <1>5 DEF Next, vars, Ask

LEMMA ScheduleBounds == TypeOK /\ Prompt /\ OnSchedule => ResidencyBounded
<1> SUFFICES ASSUME TypeOK, Prompt, OnSchedule, NEW n \in DOMAIN seen
             PROVE  now - seen[n] < TTL + Period + 2 * Stall
  BY DEF ResidencyBounded
<1>1. now \in Nat /\ nextTick \in Nat /\ evictor \in Int /\ seen[n] \in Nat
  BY MaxNowAssumption DEF TypeOK, NoTime
<1> QED BY <1>1, TTLAssumption, StallAssumption, PeriodAssumption
        DEF OnSchedule, YoungerThan, Prompt, EvictorPrompt

\* No entry outlives its window by more than a period and the evictor's waits,
\* however the evictor and any number of handlers interleave, as long as they
\* wait for less than the TTL and no longer than a period (cache.go:43-67).
THEOREM Bounded ==
  ASSUME Stall < TTL, Stall <= Period
  PROVE  Spec => []ResidencyBounded
<1>1. Init => TypeOK /\ Prompt /\ OnSchedule
  BY TypeInit, PromptInit, ScheduleInit
<1>2. TypeOK /\ Prompt /\ OnSchedule /\ [Next]_vars
      => (TypeOK /\ Prompt /\ OnSchedule)'
  BY TypeStep, PromptStep, ScheduleStep
<1>3. TypeOK /\ Prompt /\ OnSchedule => ResidencyBounded
  BY ScheduleBounds
<1> QED BY <1>1, <1>2, <1>3, PTL DEF Spec

-----------------------------------------------------------------------------
(***************************************************************************)
(* The refinement.  The table may forget a nonce and remembers it with a   *)
(* time that is not the one at which it was declared fresh; what links it  *)
(* to the contract is that an entry is at most a stall older than that,    *)
(* and that a nonce without an entry was declared fresh long enough ago.   *)
(***************************************************************************)
Remembered ==
    /\ DOMAIN seen \subseteq DOMAIN lastFresh
    /\ \A n \in DOMAIN lastFresh :
          IF n \in DOMAIN seen
          THEN seen[n] <= lastFresh[n] /\ lastFresh[n] <= seen[n] + Stall
          ELSE now - lastFresh[n] >= TTL - Stall

LEMMA RememberedInit == Init => Remembered
BY DEF Init, Remembered, EmptyTable

LEMMA RememberedStep == TypeOK /\ Prompt /\ Remembered /\ [Next]_vars => Remembered'
<1> SUFFICES ASSUME TypeOK, Prompt, Remembered, [Next]_vars PROVE Remembered'
  OBVIOUS
<1> USE TTLAssumption, StallAssumption, MaxNowAssumption
<1>1. /\ now \in Nat /\ evictor \in Int
      /\ \A n \in DOMAIN seen : seen[n] \in Nat
      /\ \A n \in DOMAIN lastFresh : lastFresh[n] \in Nat
  BY DEF TypeOK, NoTime
<1>2. CASE Tick
  BY <1>1, <1>2 DEF Tick, Remembered
<1>3. CASE EvictOnce
  <2>1. evictor <= now /\ UNCHANGED <<now, lastFresh>>
    BY <1>3 DEF EvictOnce, Prompt, EvictorPrompt
  <2>2. /\ DOMAIN seen' \subseteq DOMAIN seen
        /\ \A n \in DOMAIN seen' : seen'[n] = seen[n]
        /\ \A n \in DOMAIN seen : n \notin DOMAIN seen' => ~(evictor - seen[n] < TTL)
    BY <1>3 DEF EvictOnce, Evicted
  <2> QED BY <1>1, <2>1, <2>2 DEF Remembered
<1>4. ASSUME NEW c \in Caller, CheckAndAdd(c) PROVE Remembered'
  <2>1. /\ call[c].at \in Nat
        /\ call[c].at <= now /\ now <= call[c].at + Stall
    BY <1>4, Pending DEF CheckAndAdd, Prompt, CallersPrompt
  <2>2. CASE Rejects(seen, call[c].nonce, call[c].at)
    BY <1>4, <2>2 DEF CheckAndAdd, Remembered
  <2>3. CASE ~Rejects(seen, call[c].nonce, call[c].at)
    <3>1. /\ seen' = Put(seen, call[c].nonce, call[c].at)
          /\ lastFresh' = Put(lastFresh, call[c].nonce, now)
          /\ now' = now
      BY <1>4, <2>3 DEF CheckAndAdd
    <3> QED BY <2>1, <3>1 DEF Put, Remembered
  <2> QED BY <2>2, <2>3
<1>5. CASE UNCHANGED <<now, seen, lastFresh>>
  BY <1>5 DEF Remembered
<1> QED BY <1>2, <1>3, <1>4, <1>5 DEF Next, vars, Ask, EvictTick

LEMMA WindowStep ==
  TypeOK /\ Prompt /\ Remembered /\ [Next]_vars => [Window!Next]_(Window!vars)
<1> SUFFICES ASSUME TypeOK, Prompt, Remembered, [Next]_vars
             PROVE  [Window!Next]_(Window!vars)
  OBVIOUS
<1> USE TTLAssumption, StallAssumption, MaxNowAssumption
<1>1. CASE Tick
  BY <1>1 DEF Tick, Window!Next, Window!Tick
<1>2. ASSUME NEW c \in Caller, NEW n \in Nonce, Ask(c, n) PROVE Window!Next
  BY <1>2 DEF Ask, Window!Next, Window!Ask
<1>3. ASSUME NEW c \in Caller, CheckAndAdd(c) PROVE Window!Next
  <2> DEFINE n == call[c].nonce
  <2>1. /\ n \in Nonce /\ call[c].at \in Nat /\ now \in Nat
        /\ call[c].at <= now /\ now <= call[c].at + Stall
    BY <1>3, Pending DEF CheckAndAdd, Prompt, CallersPrompt, TypeOK
  <2>2. /\ n \in DOMAIN seen => seen[n] \in Nat
        /\ n \in DOMAIN lastFresh => lastFresh[n] \in Nat
    BY DEF TypeOK
  <2>3. CASE Rejects(seen, n, call[c].at)
    <3>1. n \in DOMAIN lastFresh /\ now - lastFresh[n] < TTL + Stall
      BY <2>1, <2>2, <2>3 DEF Rejects, Remembered
    <3>2. Window!Replay(c, n)
      BY <1>3, <2>3, <3>1 DEF CheckAndAdd, Window!Replay
    <3> QED BY <2>1, <3>2 DEF Window!Next
  <2>4. CASE ~Rejects(seen, n, call[c].at)
    <3>1. n \in DOMAIN lastFresh => now - lastFresh[n] >= TTL - Stall
      BY <2>1, <2>2, <2>4 DEF Rejects, Remembered
    <3>2. Window!Fresh(c, n)
      BY <1>3, <2>4, <3>1 DEF CheckAndAdd, Put, Window!Fresh
    <3> QED BY <2>1, <3>2 DEF Window!Next
  <2> QED BY <2>3, <2>4
<1>4. CASE UNCHANGED <<now, lastFresh, answer>>
  BY <1>4 DEF Window!vars
<1> QED BY <1>1, <1>2, <1>3, <1>4 DEF Next, vars, EvictTick, EvictOnce

\* The cache keeps the promise of ReplayWindow: eviction, stale times and the
\* order in which handlers take the mutex neither reopen the window of a nonce
\* nor keep it shut for longer (cache.go:27-67).
THEOREM Refinement == Spec => KeepsReplayWindow
<1>1. Init => TypeOK /\ Prompt /\ Remembered /\ Window!Init
  BY TypeInit, PromptInit, RememberedInit DEF Init, Window!Init, EmptyTable
<1>2. TypeOK /\ Prompt /\ Remembered /\ [Next]_vars => (TypeOK /\ Prompt /\ Remembered)'
  BY TypeStep, PromptStep, RememberedStep
<1> QED BY <1>1, <1>2, WindowStep, PTL DEF Spec, KeepsReplayWindow, Window!Spec
=============================================================================
