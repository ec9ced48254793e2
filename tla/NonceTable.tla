----------------------------- MODULE NonceTable -----------------------------
(***************************************************************************)
(* The map of internal/dashboard/nonce/cache.go as a partial function from *)
(* nonces to the times they were recorded with, and what one critical      *)
(* section of each operation does to it.  NonceCache interleaves these     *)
(* operations; PushIngest calls them from the push handler.                *)
(***************************************************************************)
EXTENDS Integers

CONSTANT TTL            \* ttl: how long a recorded nonce blocks its reuse

ASSUME TTLAssumption == TTL \in Nat \ {0}

EmptyTable == [n \in {} |-> 0]

\* Mutant of Put: the cut-off before which the nonce is fresh is stored.
PutCutoff(seen, n, t) ==
    [m \in DOMAIN seen \cup {n} |-> IF m = n THEN t - TTL ELSE seen[m]]

\* c.seen[nonce] = now
Put(seen, n, t) == [m \in DOMAIN seen \cup {n} |-> IF m = n THEN t ELSE seen[m]]

\* CheckAndAdd answers false: the nonce is there and its window is still open.
Rejects(seen, n, t) == n \in DOMAIN seen /\ t - seen[n] < TTL

\* Mutants of Evicted: the window closes at half the TTL, or one unit late.
EvictedEarly(seen, t) ==
    [n \in {m \in DOMAIN seen : 2 * (t - seen[m]) < TTL} |-> seen[n]]
EvictedLate(seen, t) ==
    [n \in {m \in DOMAIN seen : t - seen[m] <= TTL} |-> seen[n]]

\* What evictOnce leaves of the map when it reads the time t.
Evicted(seen, t) == [n \in {m \in DOMAIN seen : t - seen[m] < TTL} |-> seen[n]]
=============================================================================
