---------------------------- MODULE ReplayWindow ----------------------------
(***************************************************************************)
(* What the nonce cache promises to the push handlers, with no table and   *)
(* no eviction in it: only when each nonce was last declared fresh, in     *)
(* real time.  cache.go:27-29 says "returns true if nonce is fresh (not    *)
(* seen in the window)" and that calls "within the TTL window return       *)
(* false".  Callers pass a time they read before they queue for the mutex, *)
(* so the window is only known up to Stall, the longest wait between that  *)
(* read and the critical section.                                          *)
(***************************************************************************)
EXTENDS Integers

CONSTANTS Nonce, Caller, TTL, Stall, MaxNow

VARIABLES now,          \* the clock
          lastFresh,    \* nonce -> when it was last declared fresh
          answer        \* caller -> the last answer it was given

vars == <<now, lastFresh, answer>>

Init == /\ now = 0
        /\ lastFresh = [n \in {} |-> 0]
        /\ answer = [c \in Caller |-> "none"]

Tick == /\ now < MaxNow
        /\ now' = now + 1
        /\ UNCHANGED <<lastFresh, answer>>

\* A nonce may be declared fresh again only once its window has passed.
Fresh(c, n) ==
    /\ n \in DOMAIN lastFresh => now - lastFresh[n] >= TTL - Stall
    /\ lastFresh' = [m \in DOMAIN lastFresh \cup {n} |->
                        IF m = n THEN now ELSE lastFresh[m]]
    /\ answer' = [answer EXCEPT ![c] = "fresh"]
    /\ UNCHANGED now

\* A nonce is refused only if it was declared fresh, within the window.
Replay(c, n) ==
    /\ n \in DOMAIN lastFresh
    /\ now - lastFresh[n] < TTL + Stall
    /\ answer' = [answer EXCEPT ![c] = "replay"]
    /\ UNCHANGED <<now, lastFresh>>

\* A caller comes back with another nonce.
Ask(c) == /\ answer' = [answer EXCEPT ![c] = "none"]
          /\ UNCHANGED <<now, lastFresh>>

Next == \/ Tick
        \/ \E c \in Caller : Ask(c) \/ \E n \in Nonce : Fresh(c, n) \/ Replay(c, n)

Spec == Init /\ [][Next]_vars
=============================================================================
