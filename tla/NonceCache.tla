----------------------------- MODULE NonceCache -----------------------------
(***************************************************************************)
(* internal/dashboard/nonce/cache.go with its concurrency: any number of   *)
(* push handlers call CheckAndAdd(nonce, time.Now()) while one goroutine   *)
(* runs Evict.  Both read the clock BEFORE they queue for the mutex, so    *)
(* the time used inside the critical section may be stale by up to Stall.  *)
(* The mutex makes each critical section one step.                         *)
(***************************************************************************)
EXTENDS NonceTable

CONSTANTS Nonce,        \* the nonces pushed
          Caller,       \* the handlers calling CheckAndAdd
          Stall,        \* the longest wait for the mutex, or for a goroutine
          Period,       \* nonceEvictEvery (server.go:28)
          MaxNow        \* bound on the clock

ASSUME StallAssumption == Stall \in Nat
ASSUME PeriodAssumption == Period \in Nat \ {0}
ASSUME MaxNowAssumption == MaxNow \in Nat

VARIABLES now,          \* the clock
          seen,         \* Cache.seen
          call,         \* caller -> its pending CheckAndAdd, or Idle
          answer,       \* caller -> what CheckAndAdd returned last
          evictor,      \* the Evict goroutine: waiting, or holding its `now`
          nextTick,     \* when the evictor's ticker fires next
          lastFresh     \* history: when each nonce was last declared fresh

vars == <<now, seen, call, answer, evictor, nextTick, lastFresh>>

\* A pending critical section, and the time its goroutine read before it.
NoTime == -1
Idle == [nonce |-> "none", at |-> NoTime]
Call == [nonce : Nonce, at : 0..MaxNow]

TypeOK == /\ now \in 0..MaxNow
          /\ DOMAIN seen \subseteq Nonce /\ \A n \in DOMAIN seen : seen[n] \in 0..MaxNow
          /\ call \in [Caller -> Call \cup {Idle}]
          /\ answer \in [Caller -> {"none", "fresh", "replay"}]
          /\ evictor \in 0..MaxNow \cup {NoTime}
          /\ nextTick \in Nat
          /\ DOMAIN lastFresh \subseteq Nonce
          /\ \A n \in DOMAIN lastFresh : lastFresh[n] \in 0..MaxNow

Init == /\ now = 0
        /\ seen = EmptyTable
        /\ call = [c \in Caller |-> Idle]
        /\ answer = [c \in Caller |-> "none"]
        /\ evictor = NoTime
        /\ nextTick = Period
        /\ lastFresh = EmptyTable

(***************************************************************************)
(* Time passes unless a goroutine has already waited Stall for its turn.   *)
(***************************************************************************)
Overdue == \/ \E c \in Caller : call[c] # Idle /\ now - call[c].at >= Stall
           \/ evictor # NoTime /\ now - evictor >= Stall
           \/ evictor = NoTime /\ now - nextTick >= Stall

Tick == /\ now < MaxNow
        /\ ~Overdue
        /\ now' = now + 1
        /\ UNCHANGED <<seen, call, answer, evictor, nextTick, lastFresh>>

\* A handler evaluates time.Now() and calls CheckAndAdd (server.go:194).
Ask(c, n) == /\ call[c] = Idle
             /\ call' = [call EXCEPT ![c] = [nonce |-> n, at |-> now]]
             /\ answer' = [answer EXCEPT ![c] = "none"]
             /\ UNCHANGED <<now, seen, evictor, nextTick, lastFresh>>

\* The critical section of CheckAndAdd, with the time the caller read.
CheckAndAdd(c) ==
    LET n == call[c].nonce IN
    /\ call[c] # Idle
    /\ IF Rejects(seen, n, call[c].at)
         THEN /\ answer' = [answer EXCEPT ![c] = "replay"]
              /\ UNCHANGED <<seen, lastFresh>>
         ELSE /\ answer' = [answer EXCEPT ![c] = "fresh"]
              /\ seen' = Put(seen, n, call[c].at)
              /\ lastFresh' = Put(lastFresh, n, now)
    /\ call' = [call EXCEPT ![c] = Idle]
    /\ UNCHANGED <<now, evictor, nextTick>>

\* The ticker fires: Evict reads time.Now() and calls evictOnce.
EvictTick == /\ evictor = NoTime
             /\ now >= nextTick
             /\ evictor' = now
             /\ nextTick' = nextTick + Period
             /\ UNCHANGED <<now, seen, call, answer, lastFresh>>

\* The critical section of evictOnce.
EvictOnce == /\ evictor # NoTime
             /\ seen' = Evicted(seen, evictor)
             /\ evictor' = NoTime
             /\ UNCHANGED <<now, call, answer, nextTick, lastFresh>>

Next == \/ Tick \/ EvictTick \/ EvictOnce
        \/ \E c \in Caller : CheckAndAdd(c) \/ \E n \in Nonce : Ask(c, n)

Spec == Init /\ [][Next]_vars

-----------------------------------------------------------------------------
(* Properties *)

(***************************************************************************)
(* The cache keeps the promise of ReplayWindow: whatever eviction does and *)
(* however the handlers and the evictor interleave between reading the     *)
(* time and taking the mutex, a nonce is declared fresh twice only TTL     *)
(* (less the stall) apart, and refused only within TTL (plus the stall) of *)
(* its acceptance.                                                         *)
(***************************************************************************)
Window == INSTANCE ReplayWindow
KeepsReplayWindow == Window!Spec

(***************************************************************************)
(* The cache cannot grow without bound (cache.go:19 asks for Evict to run  *)
(* for this): no entry outlives its window by more than one eviction       *)
(* period and the two waits of the evictor.                                *)
(***************************************************************************)
ResidencyBounded ==
    \A n \in DOMAIN seen : now - seen[n] < TTL + Period + 2 * Stall
=============================================================================
