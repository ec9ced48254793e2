-------------------------- MODULE PushIngestProofs --------------------------
(***************************************************************************)
(* The types of PushIngest, who leaves a trace in its cache and its        *)
(* database, that the tables of the committed database agree, and that the *)
(* ingestion implements PushLog: for every set of agents, handlers and     *)
(* nonces, every installation, and any number of restarts.                 *)
(***************************************************************************)
EXTENDS PushIngest, TLAPS

(***************************************************************************)
(* What the helpers keep.                                                  *)
(***************************************************************************)
TableOK(f) == DOMAIN f \subseteq Nonce /\ \A n \in DOMAIN f : f[n] \in 0..MaxNow

LEMMA PutType ==
  ASSUME NEW f, TableOK(f), NEW n \in Nonce, NEW t \in 0..MaxNow
  PROVE  TableOK(Put(f, n, t))
BY DEF TableOK, Put

LEMMA EvictedType ==
  ASSUME NEW f, TableOK(f), NEW t
  PROVE  TableOK(Evicted(f, t))
BY DEF TableOK, Evicted

AgentsOK(f) == DOMAIN f \subseteq Machine /\ \A m \in DOMAIN f : f[m] \in Seen

LEMMA UpsertType ==
  ASSUME NEW f, AgentsOK(f), NEW m \in Machine, NEW t \in 0..MaxNow
  PROVE  AgentsOK(Upsert(f, m, t))
<1>1. DOMAIN Upsert(f, m, t) = DOMAIN f \cup {m}
  BY DEF Upsert
<1>2. Upsert(f, m, t)[m] \in Seen
  BY DEF Upsert, AgentsOK, Seen
<1>3. ASSUME NEW x \in DOMAIN f, x # m
      PROVE  Upsert(f, m, t)[x] \in Seen
  BY <1>3 DEF Upsert, AgentsOK
<1> QED BY <1>1, <1>2, <1>3 DEF AgentsOK

LEMMA MachineOfType ==
  ASSUME NEW m \in Push
  PROVE  MachineOf(m) \in Machine
BY ConfigAssumption DEF MachineOf, AgentConfig, Push

LEMMA RefusalsType ==
  ASSUME NEW m
  PROVE  Refusals(m) \subseteq Status
BY DEF Refusals, Status

(***************************************************************************)
(* Type correctness.                                                       *)
(***************************************************************************)
USE DEF Stage, Status

LEMMA TypeInit == Init => TypeOK
<1> SUFFICES ASSUME Init PROVE TypeOK
  OBVIOUS
<1>1. DbOK(EmptyDb)
  BY DEF DbOK, EmptyDb
<1> QED BY <1>1, MaxNowAssumption DEF Init, TypeOK, EmptyTable

LEMMA TypeStep == TypeOK /\ [Next]_vars => TypeOK'
<1> SUFFICES ASSUME TypeOK, [Next]_vars PROVE TypeOK'
  OBVIOUS
<1>1. CASE Tick
  BY <1>1, MaxNowAssumption DEF Tick, TypeOK, DbOK
<1>2. ASSUME NEW a \in Agent, NEW n \in Nonce, Send(a, n)
      PROVE  TypeOK'
  <2>1. [nonce |-> n, agent |-> a, ts |-> now + Config[a].offset] \in Push
    BY ConfigAssumption DEF TypeOK, Push, AgentConfig
  <2> QED BY <1>2, <2>1 DEF Send, TypeOK, DbOK
<1>3. ASSUME NEW h \in Handler, NEW m \in sent, Receive(h, m)
      PROVE  TypeOK'
  <2>1. code' \in [Handler -> Status \cup {0}]
    BY <1>3, RefusalsType DEF Receive, TypeOK
  <2>2. pc' \in [Handler -> Stage]
    BY <1>3 DEF Receive, TypeOK
  <2>3. \A g \in Handler : pc'[g] # "idle" => req'[g] \in sent'
    BY <1>3 DEF Receive, TypeOK
  <2>4. req' \in [Handler -> Push \cup {NoPush}]
    BY <1>3 DEF Receive, TypeOK
  <2>5. at' \in [Handler -> 0..MaxNow]
    BY <1>3 DEF Receive, TypeOK
  <2>6. /\ now' = now /\ sent' = sent /\ seen' = seen /\ conn' = conn
        /\ work' = work /\ db' = db /\ passed' = passed /\ acked' = acked
    BY <1>3 DEF Receive
  <2>7. DbOK(work') /\ DbOK(db')
    BY <2>6 DEF TypeOK
  <2> QED BY <2>1, <2>2, <2>3, <2>4, <2>5, <2>6, <2>7 DEF TypeOK
<1>4. ASSUME NEW h \in Handler, ReadClock(h) \/ StampReceived(h)
      PROVE  TypeOK'
  <2>1. CASE ReadClock(h)
    BY <2>1 DEF ReadClock, Goto, TypeOK, DbOK
  <2>2. CASE StampReceived(h)
    BY <2>2 DEF StampReceived, Goto, TypeOK, DbOK
  <2> QED BY <1>4, <2>1, <2>2
<1>5. ASSUME NEW h \in Handler, CheckAndAdd(h)
      PROVE  TypeOK'
  <2>1. req[h].nonce \in Nonce /\ at[h] \in 0..MaxNow
    BY <1>5 DEF CheckAndAdd, TypeOK, Push
  <2>2. TableOK(seen')
    BY <1>5, <2>1, PutType DEF CheckAndAdd, TypeOK, TableOK
  <2>3. /\ passed' \subseteq Nonce
        /\ pc' \in [Handler -> Stage]
        /\ code' \in [Handler -> Status \cup {0}]
    BY <1>5, <2>1 DEF CheckAndAdd, Goto, TypeOK
  <2>4. \A g \in Handler : pc'[g] # "idle" => req'[g] \in sent'
    BY <1>5 DEF CheckAndAdd, Goto, TypeOK
  <2> QED BY <1>5, <2>2, <2>3, <2>4, SMTT(40) DEF CheckAndAdd, TypeOK, DbOK, TableOK
<1>6. ASSUME NEW t \in 0..now, EvictOnce(t)
      PROVE  TypeOK'
  <2>1. TableOK(seen')
    BY <1>6, EvictedType DEF EvictOnce, TypeOK, TableOK
  <2> QED BY <1>6, <2>1 DEF EvictOnce, TypeOK, DbOK, TableOK
<1>7. ASSUME NEW h \in Handler, BeginTx(h)
      PROVE  TypeOK'
  BY <1>7 DEF BeginTx, Goto, TypeOK, DbOK
<1>8. ASSUME NEW h \in Handler, InsertPush(h)
      PROVE  TypeOK'
  <2>1. req[h] \in Push /\ at[h] \in 0..MaxNow
    BY <1>8 DEF InsertPush, Goto, TypeOK
  <2>2. [nonce |-> req[h].nonce, machine |-> MachineOf(req[h]),
         receivedAt |-> at[h]] \in Row
    BY <2>1, MachineOfType DEF Row, Push
  <2>3. DbOK(work')
    BY <1>8, <2>2 DEF InsertPush, TypeOK, DbOK
  <2> QED BY <1>8, <2>3 DEF InsertPush, Goto, TypeOK, DbOK
<1>9. ASSUME NEW h \in Handler, NEW k \in 1..NMetric, InsertMetric(h, k)
      PROVE  TypeOK'
  <2>1. DbOK(work')
    BY <1>9 DEF InsertMetric, TypeOK, DbOK
  <2> QED BY <1>9, <2>1 DEF InsertMetric, TypeOK, DbOK
<1>10. ASSUME NEW h \in Handler, UpsertAgent(h)
       PROVE  TypeOK'
  <2>1. req[h] \in Push /\ at[h] \in 0..MaxNow
    BY <1>10 DEF UpsertAgent, Goto, TypeOK
  <2>2. AgentsOK(Upsert(work.agents, MachineOf(req[h]), at[h]))
    BY <2>1, MachineOfType, UpsertType DEF TypeOK, DbOK, AgentsOK
  <2>3. DbOK(work')
    BY <1>10, <2>2 DEF UpsertAgent, TypeOK, DbOK, AgentsOK
  <2> QED BY <1>10, <2>3 DEF UpsertAgent, Goto, TypeOK, DbOK
<1>11. ASSUME NEW h \in Handler, Commit(h)
       PROVE  TypeOK'
  BY <1>11 DEF Commit, Goto, TypeOK, DbOK
<1>12. ASSUME NEW h \in Handler, DuplicateNonce(h) \/ SaveFails(h)
       PROVE  TypeOK'
  <2>1. pc[h] # "idle" /\ Abort(h)
    BY <1>12 DEF DuplicateNonce, SaveFails
  <2> QED BY <2>1 DEF Abort, TypeOK, DbOK
<1>13. ASSUME NEW h \in Handler, Reply(h)
       PROVE  TypeOK'
  <2>1. req[h].nonce \in Nonce
    BY <1>13 DEF Reply, Goto, TypeOK, Push
  <2> QED BY <1>13, <2>1, MaxNowAssumption, SMTT(40) DEF Reply, Goto, TypeOK, DbOK
<1>14. CASE Restart
  BY <1>14, MaxNowAssumption DEF Restart, TypeOK, DbOK, EmptyTable
<1>15. CASE UNCHANGED vars
  BY <1>15 DEF vars, TypeOK, DbOK
<1> QED
  BY <1>1, <1>2, <1>3, <1>4, <1>5, <1>6, <1>7, <1>8, <1>9, <1>10, <1>11,
     <1>12, <1>13, <1>14, <1>15 DEF Next, Proceed

\* Every variable of the ingestion path keeps its type.
THEOREM TypeCorrect == Spec => []TypeOK
BY TypeInit, TypeStep, PTL DEF Spec

-----------------------------------------------------------------------------
(***************************************************************************)
(* The replay window.  NoSecondPass is not inductive: it needs to know     *)
(* that a nonce names one push, that a handler on its way to the cache is  *)
(* still near the timestamp it checked, and that a nonce passed before is  *)
(* either still in the cache, no older than its push allows, or its push   *)
(* is too old by now for any handler on its way.                           *)
(***************************************************************************)
UniqueNonces == \A m1, m2 \in sent : m1.nonce = m2.nonce => m1 = m2

PassedWereSent == \A n \in passed : \E m \in sent : m.nonce = n

OnTheirWay ==
    \A h \in Handler :
        /\ pc[h] = "verified" => /\ at[h] - req[h].ts <= Skew
                                /\ at[h] - req[h].ts >= -Skew
                                /\ at[h] <= now /\ now <= at[h] + Stall
        /\ pc[h] = "locking" => /\ at[h] - req[h].ts <= Skew + Stall
                               /\ at[h] - req[h].ts >= -Skew
                               /\ at[h] <= now /\ now <= at[h] + Stall

PassedAreRemembered ==
    \A m \in sent : m.nonce \in passed =>
        \/ m.nonce \in DOMAIN seen /\ seen[m.nonce] >= m.ts - Skew
        \/ now >= m.ts - Skew + TTL

ReplayInv == UniqueNonces /\ PassedWereSent /\ OnTheirWay /\ PassedAreRemembered

LEMMA SentType == TypeOK => \A m \in sent : m.nonce \in Nonce /\ m.ts \in Int
BY DEF TypeOK, Push

LEMMA ReplayInit == Init => ReplayInv
BY DEF Init, ReplayInv, UniqueNonces, PassedWereSent, OnTheirWay, PassedAreRemembered

LEMMA UniqueStep == TypeOK /\ UniqueNonces /\ [Next]_vars => UniqueNonces'
<1> SUFFICES ASSUME UniqueNonces, [Next]_vars PROVE UniqueNonces'
  OBVIOUS
<1>1. ASSUME NEW a \in Agent, NEW n \in Nonce, Send(a, n) PROVE UniqueNonces'
  BY <1>1 DEF Send, UniqueNonces
<1>2. CASE UNCHANGED sent
  BY <1>2 DEF UniqueNonces
<1> QED
  BY <1>1, <1>2 DEF Next, Proceed, vars, Tick, Receive, ReadClock, CheckAndAdd,
     EvictOnce, StampReceived, BeginTx, InsertPush, InsertMetric, UpsertAgent,
     Commit, DuplicateNonce, SaveFails, Abort, Reply, Restart

LEMMA SentStep == TypeOK /\ PassedWereSent /\ [Next]_vars => PassedWereSent'
<1> SUFFICES ASSUME TypeOK, PassedWereSent, [Next]_vars PROVE PassedWereSent'
  OBVIOUS
<1>1. ASSUME NEW a \in Agent, NEW n \in Nonce, Send(a, n) PROVE PassedWereSent'
  BY <1>1 DEF Send, PassedWereSent
<1>2. ASSUME NEW h \in Handler, CheckAndAdd(h) PROVE PassedWereSent'
  <2>1. req[h] \in sent
    BY <1>2 DEF CheckAndAdd, TypeOK
  <2> QED BY <1>2, <2>1 DEF CheckAndAdd, PassedWereSent
<1>3. CASE Restart
  BY <1>3 DEF Restart, PassedWereSent
<1>4. CASE UNCHANGED <<sent, passed>>
  BY <1>4 DEF PassedWereSent
<1> QED
  BY <1>1, <1>2, <1>3, <1>4 DEF Next, Proceed, vars, Tick, Receive, ReadClock,
     EvictOnce, StampReceived, BeginTx, InsertPush, InsertMetric, UpsertAgent,
     Commit, DuplicateNonce, SaveFails, Abort, Reply

LEMMA AcceptedIsFresh ==
  ASSUME NEW m, Refusals(m) = {}
  PROVE  Fresh(m)
BY DEF Refusals

LEMMA OnTheirWayStep == TypeOK /\ OnTheirWay /\ [Next]_vars => OnTheirWay'
<1> SUFFICES ASSUME TypeOK, OnTheirWay, [Next]_vars PROVE OnTheirWay'
  OBVIOUS
<1> USE SkewAssumption, StallAssumption
<1>1. CASE Tick
  <2> SUFFICES ASSUME NEW h \in Handler, pc[h] \in {"verified", "locking"}
               PROVE  at[h] <= now' /\ now' <= at[h] + Stall
    BY <1>1 DEF Tick, OnTheirWay
  <2>1. now - at[h] < Stall /\ at[h] <= now
    BY <1>1 DEF Tick, Overdue, OnTheirWay, TypeOK
  <2> QED BY <1>1, <2>1 DEF Tick, TypeOK
<1>2. ASSUME NEW h \in Handler, NEW m \in sent, Receive(h, m) PROVE OnTheirWay'
  <2>1. m.ts \in Int /\ now \in Int
    BY SentType DEF TypeOK
  <2>2. pc'[h] = "verified" => Fresh(m) /\ at'[h] = now
    BY <1>2, AcceptedIsFresh DEF Receive, TypeOK
  <2>3. pc'[h] # "locking" /\ req'[h] = m /\ now' = now
    BY <1>2 DEF Receive, TypeOK
  <2>4. \A g \in Handler \ {h} : pc'[g] = pc[g] /\ at'[g] = at[g] /\ req'[g] = req[g]
    BY <1>2 DEF Receive, TypeOK
  <2> QED BY <2>1, <2>2, <2>3, <2>4 DEF OnTheirWay, Fresh
<1>3. ASSUME NEW h \in Handler, ReadClock(h) PROVE OnTheirWay'
  <2>1. req[h].ts \in Int /\ now \in Int /\ at[h] \in Int
    BY <1>3, SentType DEF ReadClock, Goto, TypeOK
  <2>2. /\ pc[h] = "verified" /\ pc'[h] = "locking" /\ at'[h] = now
        /\ req' = req /\ now' = now
    BY <1>3 DEF ReadClock, Goto, TypeOK
  <2>3. \A g \in Handler \ {h} : pc'[g] = pc[g] /\ at'[g] = at[g]
    BY <1>3 DEF ReadClock, Goto, TypeOK
  <2> QED BY <2>1, <2>2, <2>3 DEF OnTheirWay
<1>4. ASSUME NEW h \in Handler, pc'[h] \notin {"verified", "locking"},
             UNCHANGED now,
             \A g \in Handler \ {h} : pc'[g] = pc[g] /\ at'[g] = at[g] /\ req'[g] = req[g]
      PROVE  OnTheirWay'
  BY <1>4 DEF OnTheirWay
<1>5. ASSUME NEW h \in Handler,
             \/ CheckAndAdd(h) \/ StampReceived(h) \/ BeginTx(h) \/ InsertPush(h)
             \/ UpsertAgent(h) \/ Commit(h) \/ Reply(h)
      PROVE  OnTheirWay'
  <2>1. pc'[h] \notin {"verified", "locking"} /\ UNCHANGED now
    BY <1>5 DEF CheckAndAdd, StampReceived, BeginTx, InsertPush, UpsertAgent,
       Commit, Reply, Goto, TypeOK
  <2>2. \A g \in Handler \ {h} : pc'[g] = pc[g] /\ at'[g] = at[g] /\ req'[g] = req[g]
    BY <1>5 DEF CheckAndAdd, StampReceived, BeginTx, InsertPush, UpsertAgent,
       Commit, Reply, Goto, TypeOK
  <2> QED BY <1>4, <2>1, <2>2
<1>6. ASSUME NEW h \in Handler, DuplicateNonce(h) \/ SaveFails(h)
      PROVE  OnTheirWay'
  <2>1. Abort(h)
    BY <1>6 DEF DuplicateNonce, SaveFails
  <2>2. pc'[h] \notin {"verified", "locking"} /\ UNCHANGED now
    BY <2>1 DEF Abort, TypeOK
  <2>3. \A g \in Handler \ {h} : pc'[g] = pc[g] /\ at'[g] = at[g] /\ req'[g] = req[g]
    BY <2>1 DEF Abort, TypeOK
  <2> QED BY <1>4, <2>2, <2>3
<1>7. CASE Restart
  BY <1>7 DEF Restart, OnTheirWay
<1>8. CASE UNCHANGED <<now, pc, at, req>>
  BY <1>8 DEF OnTheirWay
<1> QED
  BY <1>1, <1>2, <1>3, <1>5, <1>6, <1>7, <1>8 DEF Next, Proceed, vars, Send,
     EvictOnce, InsertMetric

LEMMA RememberedStep ==
  TypeOK /\ ReplayInv /\ [Next]_vars => PassedAreRemembered'
<1> SUFFICES ASSUME TypeOK, ReplayInv, [Next]_vars PROVE PassedAreRemembered'
  OBVIOUS
<1> USE SkewAssumption, StallAssumption, TTLAssumption DEF ReplayInv
<1>1. CASE Tick
  BY <1>1, SentType DEF Tick, PassedAreRemembered, TypeOK
<1>2. ASSUME NEW a \in Agent, NEW n \in Nonce, Send(a, n) PROVE PassedAreRemembered'
  <2>1. n \notin passed
    BY <1>2 DEF Send, PassedWereSent
  <2> QED BY <1>2, <2>1 DEF Send, PassedAreRemembered
<1>3. ASSUME NEW h \in Handler, CheckAndAdd(h) PROVE PassedAreRemembered'
  <2>1. CASE Rejects(seen, req[h].nonce, at[h])
    BY <1>3, <2>1 DEF CheckAndAdd, PassedAreRemembered
  <2>2. CASE ~Rejects(seen, req[h].nonce, at[h])
    <3>1. /\ seen' = Put(seen, req[h].nonce, at[h])
          /\ passed' = passed \cup {req[h].nonce}
          /\ UNCHANGED <<now, sent>>
      BY <1>3, <2>2 DEF CheckAndAdd
    <3>2. req[h] \in sent /\ at[h] \in Int /\ at[h] >= req[h].ts - Skew
      <4>1. req[h] \in sent /\ at[h] \in Int /\ pc[h] = "locking"
        BY <1>3 DEF CheckAndAdd, TypeOK
      <4> QED BY <4>1, SentType DEF OnTheirWay
    <3>3. ASSUME NEW m \in sent, m.nonce = req[h].nonce
          PROVE  m.nonce \in DOMAIN seen' /\ seen'[m.nonce] >= m.ts - Skew
      BY <3>1, <3>2, <3>3 DEF UniqueNonces, Put
    <3>4. ASSUME NEW m \in sent, m.nonce # req[h].nonce, m.nonce \in passed'
          PROVE  \/ m.nonce \in DOMAIN seen' /\ seen'[m.nonce] >= m.ts - Skew
                 \/ now' >= m.ts - Skew + TTL
      BY <3>1, <3>4 DEF PassedAreRemembered, Put
    <3> QED BY <3>1, <3>3, <3>4 DEF PassedAreRemembered
  <2> QED BY <2>1, <2>2
<1>4. ASSUME NEW t \in 0..now, EvictOnce(t) PROVE PassedAreRemembered'
  <2> SUFFICES ASSUME NEW m \in sent, m.nonce \in passed
               PROVE  \/ m.nonce \in DOMAIN seen' /\ seen'[m.nonce] >= m.ts - Skew
                      \/ now >= m.ts - Skew + TTL
    BY <1>4 DEF EvictOnce, PassedAreRemembered
  <2>1. CASE m.nonce \in DOMAIN seen /\ t - seen[m.nonce] < TTL
    BY <1>4, <2>1 DEF EvictOnce, Evicted, PassedAreRemembered
  <2>2. CASE m.nonce \in DOMAIN seen /\ ~(t - seen[m.nonce] < TTL)
    <3>1. /\ t \in Int /\ now \in Int /\ t <= now
          /\ seen[m.nonce] \in Int /\ m.ts \in Int
      BY <2>2, SentType DEF TypeOK
    <3> QED BY <2>2, <3>1 DEF PassedAreRemembered
  <2>3. CASE m.nonce \notin DOMAIN seen
    BY <2>3 DEF PassedAreRemembered
  <2> QED BY <2>1, <2>2, <2>3
<1>5. CASE Restart
  BY <1>5 DEF Restart, PassedAreRemembered
<1>6. CASE UNCHANGED <<now, sent, seen, passed>>
  BY <1>6 DEF PassedAreRemembered
<1> QED
  BY <1>1, <1>2, <1>3, <1>4, <1>5, <1>6 DEF Next, Proceed, vars, Receive,
     ReadClock, StampReceived, BeginTx, InsertPush, InsertMetric, UpsertAgent,
     Commit, DuplicateNonce, SaveFails, Abort, Reply

LEMMA ReplayStep == TypeOK /\ ReplayInv /\ [Next]_vars => ReplayInv'
BY UniqueStep, SentStep, OnTheirWayStep, RememberedStep DEF ReplayInv

LEMMA ReplayInvariant == Spec => []ReplayInv
BY TypeCorrect, ReplayInit, ReplayStep, PTL DEF Spec

\* What the cache passes, it has not passed before in this lifetime.
LEMMA PassIsFirst ==
  ASSUME TypeOK, ReplayInv, NEW h \in Handler, CheckAndAdd(h), pc'[h] = "save"
  PROVE  req[h].nonce \notin passed
<1> USE SkewAssumption, StallAssumption, TTLAssumption, WindowAssumption
<1>1. /\ req[h] \in sent /\ pc[h] = "locking"
      /\ now \in Int /\ at[h] \in Int /\ req[h].ts \in Int
  BY SentType DEF CheckAndAdd, TypeOK
<1>2. ~Rejects(seen, req[h].nonce, at[h])
  BY DEF CheckAndAdd, Goto, TypeOK
<1>3. at[h] - req[h].ts <= Skew + Stall /\ now <= at[h] + Stall
  BY <1>1 DEF ReplayInv, OnTheirWay
<1> SUFFICES ASSUME req[h].nonce \in passed PROVE FALSE
  OBVIOUS
<1>4. CASE req[h].nonce \in DOMAIN seen /\ seen[req[h].nonce] >= req[h].ts - Skew
  <2>1. seen[req[h].nonce] \in Int
    BY <1>4 DEF TypeOK
  <2>2. at[h] - seen[req[h].nonce] >= TTL
    BY <1>1, <1>2, <1>4, <2>1 DEF Rejects
  <2> QED BY <1>1, <1>3, <1>4, <2>1, <2>2
<1>5. CASE now >= req[h].ts - Skew + TTL
  BY <1>1, <1>3, <1>5
<1> QED BY <1>1, <1>4, <1>5 DEF ReplayInv, PassedAreRemembered

\* server.go:24-30 and nonce/cache.go: for every number of handlers and pushes,
\* and any interleaving of them with the evictor, the cache passes each nonce
\* at most once in a lifetime of the server.
THEOREM ReplayWindowClosed == Spec => NoSecondPass
<1>1. TypeOK /\ ReplayInv /\ [Next]_vars =>
        [\A h \in Handler :
           pc[h] = "locking" /\ pc'[h] = "save" => req[h].nonce \notin passed]_vars
  <2> SUFFICES ASSUME TypeOK, ReplayInv, Next,
                      NEW h \in Handler, pc[h] = "locking", pc'[h] = "save"
               PROVE  req[h].nonce \notin passed
    OBVIOUS
  <2>1. CheckAndAdd(h)
    <3>1. ASSUME NEW g \in Handler, NEW m \in sent, Receive(g, m) PROVE FALSE
      BY <3>1 DEF Receive, TypeOK
    <3>2. ASSUME NEW g \in Handler, DuplicateNonce(g) \/ SaveFails(g) PROVE FALSE
      <4>1. Abort(g)
        BY <3>2 DEF DuplicateNonce, SaveFails
      <4> QED BY <4>1 DEF Abort, TypeOK
    <3>3. ASSUME NEW g \in Handler,
                 \/ ReadClock(g) \/ StampReceived(g) \/ BeginTx(g) \/ InsertPush(g)
                 \/ UpsertAgent(g) \/ Commit(g) \/ Reply(g)
          PROVE  FALSE
      <4>1. pc'[g] \in Stage \ {"save"} /\ \A f \in Handler \ {g} : pc'[f] = pc[f]
        BY <3>3 DEF ReadClock, StampReceived, BeginTx, InsertPush, UpsertAgent,
           Commit, Reply, Goto, TypeOK
      <4> QED BY <4>1
    <3>4. ASSUME NEW g \in Handler, CheckAndAdd(g) PROVE g = h
      BY <3>4 DEF CheckAndAdd, Goto, TypeOK
    <3>5. pc' # pc /\ ~Restart
      BY DEF Restart
    <3> QED
      BY <3>1, <3>2, <3>3, <3>4, <3>5 DEF Next, Proceed, Tick, Send, EvictOnce,
         InsertMetric
  <2> QED BY <2>1, PassIsFirst
<1> QED BY <1>1, TypeCorrect, ReplayInvariant, PTL DEF Spec, NoSecondPass

-----------------------------------------------------------------------------
(***************************************************************************)
(* Who leaves a trace.  A handler that is past the checks serves a vouched *)
(* push, whose timestamp is not ahead of the handler's last clock reading  *)
(* by more than the skew; nonces and rows come from such handlers only.    *)
(***************************************************************************)
Approved == {"verified", "locking", "save", "begin", "push", "metrics", "commit"}

Backed(h) == Vouched(req[h]) /\ req[h].ts <= at[h] + Skew /\ at[h] <= now

ApprovedAreBacked == \A h \in Handler : pc[h] \in Approved => Backed(h)

NoncesVouched == \A n \in DOMAIN seen : \E m \in sent : m.nonce = n /\ Vouched(m)

RowVouched(r) == \E m \in sent : /\ m.nonce = r.nonce /\ Vouched(m)
                                 /\ MachineOf(m) = r.machine
                                 /\ m.ts <= r.receivedAt + Skew

RowsVouched(d) == \A i \in DOMAIN d.pushes : RowVouched(d.pushes[i])

VouchedInv == ApprovedAreBacked /\ NoncesVouched /\ RowsVouched(work) /\ RowsVouched(db)

LEMMA AcceptedIsVouched ==
  ASSUME NEW m, Refusals(m) = {}
  PROVE  Vouched(m) /\ Fresh(m)
BY DEF Refusals, Vouched

\* The request a handler past the checks serves, and its clock reading.
LEMMA Serving ==
  ASSUME TypeOK, NEW h \in Handler, pc[h] # "idle"
  PROVE  /\ req[h] \in sent /\ req[h].nonce \in Nonce /\ req[h].ts \in Int
         /\ at[h] \in Int /\ now \in Int
BY SentType DEF TypeOK

LEMMA VouchedInit == Init => VouchedInv
BY DEF Init, VouchedInv, ApprovedAreBacked, NoncesVouched, RowsVouched, EmptyDb,
   EmptyTable, Approved

LEMMA BackedStep == TypeOK /\ ApprovedAreBacked /\ [Next]_vars => ApprovedAreBacked'
<1> SUFFICES ASSUME TypeOK, ApprovedAreBacked, [Next]_vars,
                    NEW g \in Handler, pc'[g] \in Approved
             PROVE  Backed(g)'
  BY DEF ApprovedAreBacked
<1> USE SkewAssumption DEF Approved
<1>1. ASSUME pc[g] \in Approved, req'[g] = req[g], at'[g] = at[g], now' \in {now, now + 1}
      PROVE  Backed(g)'
  BY <1>1, Serving DEF ApprovedAreBacked, Backed, Vouched, Certified, Known, Signed
<1>2. CASE Tick
  BY <1>1, <1>2 DEF Tick
<1>3. ASSUME NEW h \in Handler, NEW m \in sent, Receive(h, m) PROVE Backed(g)'
  <2>1. CASE g = h
    <3>1. Refusals(m) = {} /\ req'[g] = m /\ at'[g] = now /\ now' = now
      BY <1>3, <2>1 DEF Receive, TypeOK
    <3>2. Vouched(m) /\ Fresh(m) /\ m.ts \in Int /\ now \in Int
      BY <3>1, AcceptedIsVouched, SentType DEF TypeOK
    <3> QED BY <3>1, <3>2 DEF Backed, Fresh, Vouched, Certified, Known, Signed
  <2>2. CASE g # h
    BY <1>1, <1>3, <2>2 DEF Receive, TypeOK
  <2> QED BY <2>1, <2>2
<1>4. ASSUME NEW h \in Handler, ReadClock(h) \/ StampReceived(h) PROVE Backed(g)'
  <2>1. CASE g = h
    <3>1. pc[g] \in Approved /\ req'[g] = req[g] /\ at'[g] = now /\ now' = now
      BY <1>4, <2>1 DEF ReadClock, StampReceived, Goto, TypeOK
    <3>2. Vouched(req[g]) /\ req[g].ts <= now + Skew /\ now <= now
      BY <3>1, Serving DEF ApprovedAreBacked, Backed
    <3> QED BY <3>1, <3>2 DEF Backed, Vouched, Certified, Known, Signed
  <2>2. CASE g # h
    BY <1>1, <1>4, <2>2 DEF ReadClock, StampReceived, Goto, TypeOK
  <2> QED BY <2>1, <2>2
<1>5. ASSUME NEW h \in Handler,
             \/ CheckAndAdd(h) \/ BeginTx(h) \/ InsertPush(h) \/ UpsertAgent(h)
             \/ Commit(h) \/ Reply(h)
      PROVE  Backed(g)'
  <2>1. /\ pc[g] \in Approved
        /\ req'[g] = req[g] /\ at'[g] = at[g] /\ now' = now
    BY <1>5 DEF CheckAndAdd, BeginTx, InsertPush, UpsertAgent, Commit, Reply, Goto, TypeOK
  <2> QED BY <1>1, <2>1
<1>6. ASSUME NEW h \in Handler, DuplicateNonce(h) \/ SaveFails(h) PROVE Backed(g)'
  <2>1. Abort(h)
    BY <1>6 DEF DuplicateNonce, SaveFails
  <2>2. /\ pc[g] \in Approved
        /\ req'[g] = req[g] /\ at'[g] = at[g] /\ now' = now
    BY <2>1 DEF Abort, TypeOK
  <2> QED BY <1>1, <2>2
<1>7. CASE Restart
  BY <1>7 DEF Restart
<1>8. CASE UNCHANGED <<now, pc, at, req>>
  BY <1>1, <1>8
<1> QED
  BY <1>2, <1>3, <1>4, <1>5, <1>6, <1>7, <1>8 DEF Next, Proceed, vars, Send,
     EvictOnce, InsertMetric

LEMMA NoncesStep ==
  TypeOK /\ ApprovedAreBacked /\ NoncesVouched /\ [Next]_vars => NoncesVouched'
<1> SUFFICES ASSUME TypeOK, ApprovedAreBacked, NoncesVouched, [Next]_vars
             PROVE  NoncesVouched'
  OBVIOUS
<1> USE DEF NoncesVouched, Vouched, Certified, Known, Signed
<1>1. ASSUME NEW h \in Handler, CheckAndAdd(h) PROVE NoncesVouched'
  <2>1. req[h] \in sent /\ Vouched(req[h]) /\ sent' = sent
    BY <1>1 DEF CheckAndAdd, TypeOK, ApprovedAreBacked, Backed, Approved
  <2>2. \A n \in DOMAIN seen' : n \in DOMAIN seen \/ n = req[h].nonce
    BY <1>1 DEF CheckAndAdd, Put
  <2> QED BY <2>1, <2>2
<1>2. ASSUME NEW t \in 0..now, EvictOnce(t) PROVE NoncesVouched'
  BY <1>2 DEF EvictOnce, Evicted
<1>3. CASE Restart
  BY <1>3 DEF Restart, EmptyTable
<1>4. ASSUME NEW a \in Agent, NEW n \in Nonce, Send(a, n) PROVE NoncesVouched'
  <2>1. sent \subseteq sent' /\ seen' = seen
    BY <1>4 DEF Send
  <2> QED BY <2>1
<1>5. CASE UNCHANGED <<sent, seen>>
  BY <1>5
<1> QED
  BY <1>1, <1>2, <1>3, <1>4, <1>5 DEF Next, Proceed, vars, Tick, Receive, ReadClock,
     StampReceived, BeginTx, InsertPush, InsertMetric, UpsertAgent, Commit,
     DuplicateNonce, SaveFails, Abort, Reply

\* An appended row keeps a table vouched when the row is.
LEMMA RowsAppend ==
  ASSUME NEW d, DbOK(d), RowsVouched(d), NEW r \in Row, RowVouched(r),
         NEW e, e.pushes = Append(d.pushes, r)
  PROVE  RowsVouched(e)
<1>1. d.pushes \in Seq(Row)
  BY DEF DbOK
<1>2. \A i \in DOMAIN e.pushes : \/ i \in DOMAIN d.pushes /\ e.pushes[i] = d.pushes[i]
                                 \/ e.pushes[i] = r
  BY <1>1
<1> QED BY <1>2 DEF RowsVouched

LEMMA RowsStep ==
  TypeOK /\ VouchedInv /\ [Next]_vars => RowsVouched(work)' /\ RowsVouched(db)'
<1> SUFFICES ASSUME TypeOK, VouchedInv, [Next]_vars
             PROVE  RowsVouched(work)' /\ RowsVouched(db)'
  OBVIOUS
<1> USE DEF VouchedInv
<1>1. ASSUME sent \subseteq sent', NEW d, NEW e, e.pushes = d.pushes, RowsVouched(d)
      PROVE  \A i \in DOMAIN e.pushes : \E m \in sent' :
                /\ m.nonce = e.pushes[i].nonce /\ Vouched(m)
                /\ MachineOf(m) = e.pushes[i].machine
                /\ m.ts <= e.pushes[i].receivedAt + Skew
  BY <1>1 DEF RowsVouched, RowVouched
<1>2. ASSUME sent \subseteq sent',
             work'.pushes = work.pushes \/ work'.pushes = db.pushes,
             db'.pushes = db.pushes \/ db'.pushes = work.pushes
      PROVE  RowsVouched(work)' /\ RowsVouched(db)'
  BY <1>1, <1>2 DEF RowsVouched, RowVouched, Vouched, MachineOf, Certified, Known, Signed
<1>3. ASSUME NEW h \in Handler, InsertPush(h)
      PROVE  RowsVouched(work)' /\ RowsVouched(db)'
  <2> DEFINE r == [nonce |-> req[h].nonce, machine |-> MachineOf(req[h]), receivedAt |-> at[h]]
  <2>1. /\ pc[h] = "push" /\ sent' = sent /\ db' = db
        /\ work'.pushes = Append(work.pushes, r)
    BY <1>3 DEF InsertPush, Goto, TypeOK, DbOK
  <2>2. r \in Row
    BY <2>1, MachineOfType DEF Row, Push, TypeOK
  <2>3. RowVouched(r)
    BY <2>1, Serving DEF RowVouched, ApprovedAreBacked, Backed, Approved
  <2>4. RowsVouched(work')
    BY <2>1, <2>2, <2>3, RowsAppend DEF TypeOK
  <2> QED BY <2>1, <2>4 DEF RowsVouched, RowVouched, Vouched, MachineOf, Certified, Known, Signed
<1>4. ASSUME NEW h \in Handler, UpsertAgent(h) \/ Commit(h)
      PROVE  RowsVouched(work)' /\ RowsVouched(db)'
  <2>1. CASE UpsertAgent(h)
    <3>1. sent' = sent /\ db' = db /\ work'.pushes = work.pushes
      BY <2>1 DEF UpsertAgent, TypeOK, DbOK
    <3> QED BY <1>2, <3>1
  <2>2. CASE Commit(h)
    BY <1>2, <2>2 DEF Commit
  <2> QED BY <1>4, <2>1, <2>2
<1>5. ASSUME NEW h \in Handler, NEW k \in 1..NMetric, InsertMetric(h, k)
      PROVE  RowsVouched(work)' /\ RowsVouched(db)'
  <2>1. sent' = sent /\ db' = db /\ work'.pushes = work.pushes
    BY <1>5 DEF InsertMetric, TypeOK, DbOK
  <2> QED BY <1>2, <2>1
<1>6. ASSUME NEW h \in Handler, DuplicateNonce(h) \/ SaveFails(h)
      PROVE  RowsVouched(work)' /\ RowsVouched(db)'
  <2>1. sent' = sent /\ db' = db /\ (work' = work \/ work' = db)
    BY <1>6 DEF DuplicateNonce, SaveFails, Abort
  <2> QED BY <1>2, <2>1
<1>7. CASE Restart
  BY <1>2, <1>7 DEF Restart
<1>8. ASSUME NEW a \in Agent, NEW n \in Nonce, Send(a, n)
      PROVE  RowsVouched(work)' /\ RowsVouched(db)'
  BY <1>2, <1>8 DEF Send
<1>9. CASE UNCHANGED <<sent, work, db>>
  BY <1>2, <1>9
<1> QED
  BY <1>3, <1>4, <1>5, <1>6, <1>7, <1>8, <1>9 DEF Next, Proceed, vars, Tick, Receive,
     ReadClock, CheckAndAdd, EvictOnce, StampReceived, BeginTx, Reply

\* Only a push that its sender's certificate and registered key vouch for leaves a
\* row, or a nonce in the cache (server.go:133-204).
THEOREM TracesVouched == Spec => []OnlyVouched
<1>1. TypeOK /\ VouchedInv /\ [Next]_vars => VouchedInv'
  BY BackedStep, NoncesStep, RowsStep DEF VouchedInv
<1>2. VouchedInv => OnlyVouched
  BY DEF VouchedInv, OnlyVouched, NoncesVouched, RowsVouched, RowVouched
<1> QED BY VouchedInit, TypeCorrect, <1>1, <1>2, PTL DEF Spec
-----------------------------------------------------------------------------
(***************************************************************************)
(* One push, one transaction.                                              *)
(***************************************************************************)

(***************************************************************************)
(* The strengthening: the open transaction sees the committed database     *)
(* plus as much of one push as its handler has written; when no handler    *)
(* has the connection, it sees the committed database.                     *)
(***************************************************************************)
InTx(h) == pc[h] \in {"push", "metrics", "commit"}

AllMetrics(d) == (1..Len(d.pushes)) \X (1..NMetric)

RowOf(h) == [nonce |-> req[h].nonce, machine |-> MachineOf(req[h]), receivedAt |-> at[h]]

\* The transaction of h has inserted its push, whose nonce was new.
Inserted(h) == /\ req[h].nonce \notin Stored(db)
               /\ work.pushes = Append(db.pushes, RowOf(h))

OneTx == \A h \in Handler : InTx(h) <=> conn = h

NothingPending == conn = NoHandler => work = db

OnePushPending ==
    \A h \in Handler :
        /\ pc[h] = "push" => work = db
        /\ pc[h] = "metrics" => /\ Inserted(h)
                                /\ db.metrics \subseteq work.metrics
                                /\ work.metrics \subseteq AllMetrics(work)
                                /\ work.agents = db.agents
        /\ pc[h] = "commit" => /\ Inserted(h)
                               /\ work.metrics = AllMetrics(work)
                               /\ work.agents = Upsert(db.agents, MachineOf(req[h]), at[h])

TxInv == OneTx /\ NothingPending /\ OnePushPending /\ Agree(db)

\* A handler's request and clock reading make a row.
LEMMA RowOfType ==
  ASSUME TypeOK, NEW h \in Handler, pc[h] # "idle"
  PROVE  RowOf(h) \in Row /\ req[h] \in sent /\ req[h].nonce \in Nonce
<1>1. req[h] \in sent /\ req[h] \in Push /\ at[h] \in 0..MaxNow
  BY DEF TypeOK
<1> QED BY <1>1, MachineOfType DEF RowOf, Row, Push

\* An upsert with the row of an appended push keeps the agents table right.
LEMMA UpsertAgrees ==
  ASSUME NEW d, DbOK(d), Agree(d), NEW r \in Row,
         NEW e, e.pushes = Append(d.pushes, r), e.metrics = AllMetrics(e),
         e.agents = Upsert(d.agents, r.machine, r.receivedAt)
  PROVE  Agree(e)
<1> DEFINE L == Len(d.pushes)
<1>1. /\ d.pushes \in Seq(Row) /\ L \in Nat /\ DOMAIN d.pushes = 1..L
      /\ DOMAIN e.pushes = 1..(L+1)
      /\ e.pushes[L+1] = r
      /\ \A i \in 1..L : e.pushes[i] = d.pushes[i]
  BY DEF DbOK
<1> HIDE DEF L
<1>2. DOMAIN e.agents = DOMAIN d.agents \cup {r.machine}
  BY DEF Upsert
<1>3. DOMAIN d.agents = {d.pushes[i].machine : i \in DOMAIN d.pushes}
  BY DEF Agree
<1>4. DOMAIN e.agents = {e.pushes[i].machine : i \in DOMAIN e.pushes}
  BY <1>1, <1>2, <1>3
<1>5. ASSUME NEW m \in DOMAIN e.agents PROVE AgentRowOf(e, m)
  <2>1. CASE m \in DOMAIN d.agents
    <3>1. PICK i \in DOMAIN d.pushes, j \in DOMAIN d.pushes :
             /\ d.pushes[i].machine = m /\ d.pushes[j].machine = m
             /\ \A k \in DOMAIN d.pushes : d.pushes[k].machine = m => i <= k /\ k <= j
             /\ d.agents[m] = [first |-> d.pushes[i].receivedAt,
                               last  |-> d.pushes[j].receivedAt]
      BY <2>1 DEF Agree, AgentRowOf
    <3>2. CASE m = r.machine
      <4>1. e.agents[m] = [first |-> d.agents[m].first, last |-> r.receivedAt]
        BY <2>1, <3>2 DEF Upsert
      <4>2. e.agents[m] = [first |-> e.pushes[i].receivedAt,
                           last  |-> e.pushes[L+1].receivedAt]
        BY <1>1, <3>1, <4>1
      <4>3. /\ i \in DOMAIN e.pushes /\ L+1 \in DOMAIN e.pushes
            /\ e.pushes[i].machine = m /\ e.pushes[L+1].machine = m
            /\ \A k \in DOMAIN e.pushes : e.pushes[k].machine = m => i <= k /\ k <= L+1
        BY <1>1, <3>1, <3>2
      <4> QED BY <4>2, <4>3 DEF AgentRowOf
    <3>3. CASE m # r.machine
      <4>1. e.agents[m] = d.agents[m]
        BY <2>1, <3>3 DEF Upsert
      <4>2. e.agents[m] = [first |-> e.pushes[i].receivedAt,
                           last  |-> e.pushes[j].receivedAt]
        BY <1>1, <3>1, <4>1
      <4>3. /\ i \in DOMAIN e.pushes /\ j \in DOMAIN e.pushes
            /\ e.pushes[i].machine = m /\ e.pushes[j].machine = m
            /\ \A k \in DOMAIN e.pushes : e.pushes[k].machine = m => i <= k /\ k <= j
        BY <1>1, <3>1, <3>3
      <4> QED BY <4>2, <4>3 DEF AgentRowOf
    <3> QED BY <3>2, <3>3
  <2>2. CASE m \notin DOMAIN d.agents
    <3>1. m = r.machine /\ e.agents[m] = [first |-> r.receivedAt, last |-> r.receivedAt]
      BY <1>2, <2>2 DEF Upsert
    <3>2. \A k \in DOMAIN e.pushes : e.pushes[k].machine = m => k = L+1
      BY <1>1, <1>3, <2>2
    <3>3. L+1 \in DOMAIN e.pushes /\ e.pushes[L+1] = r
      BY <1>1
    <3>4. \A k \in DOMAIN e.pushes : e.pushes[k].machine = m => L+1 <= k /\ k <= L+1
      BY <1>1, <3>2
    <3> QED BY <3>1, <3>3, <3>4 DEF AgentRowOf
  <2> QED BY <2>1, <2>2
<1> QED BY <1>1, <1>4, <1>5 DEF Agree, AllMetrics

LEMMA TxInit == Init => TxInv
BY NoHandlerAssumption DEF Init, TxInv, OneTx, NothingPending, OnePushPending, InTx,
   Agree, EmptyDb

\* A step of a handler outside the transactions leaves the others' as they are.
LEMMA OutsideTx ==
  ASSUME TypeOK, TxInv, UNCHANGED <<conn, work, db>>,
         \A h \in Handler : \/ ~InTx(h) /\ ~InTx(h)'
                            \/ pc'[h] = pc[h] /\ req'[h] = req[h] /\ at'[h] = at[h]
  PROVE  TxInv'
<1>1. OneTx'
  BY DEF TxInv, OneTx, InTx
<1>2. NothingPending'
  BY DEF TxInv, NothingPending
<1>3. OnePushPending'
  BY DEF TxInv, OnePushPending, InTx, Inserted, RowOf, MachineOf, Stored, AllMetrics
<1> QED BY <1>1, <1>2, <1>3 DEF TxInv

\* A step that ends a transaction.
LEMMA EndOfTx ==
  ASSUME TypeOK, TxInv, conn' = NoHandler, work' = db', Agree(db)',
         \A h \in Handler : ~InTx(h)'
  PROVE  TxInv'
BY NoHandlerAssumption DEF TxInv, OneTx, NothingPending, OnePushPending, InTx

LEMMA TxStep == TypeOK /\ TxInv /\ [Next]_vars => TxInv'
<1> SUFFICES ASSUME TypeOK, TxInv, [Next]_vars PROVE TxInv'
  OBVIOUS
<1>1. ASSUME NEW h \in Handler, NEW m \in sent, Receive(h, m) PROVE TxInv'
  BY <1>1, OutsideTx DEF Receive, InTx, TypeOK
<1>2. ASSUME NEW h \in Handler,
             ReadClock(h) \/ CheckAndAdd(h) \/ StampReceived(h) \/ Reply(h)
      PROVE  TxInv'
  BY <1>2, OutsideTx DEF ReadClock, CheckAndAdd, StampReceived, Reply, Goto, InTx, TypeOK
<1>3. ASSUME NEW h \in Handler, BeginTx(h) PROVE TxInv'
  <2>1. /\ conn = NoHandler /\ conn' = h /\ work' = work /\ db' = db
        /\ pc'[h] = "push" /\ work = db
        /\ \A g \in Handler : ~InTx(g)
        /\ \A g \in Handler \ {h} : pc'[g] = pc[g]
    BY <1>3, NoHandlerAssumption DEF BeginTx, Goto, TypeOK, TxInv, OneTx, NothingPending
  <2> QED BY <2>1, NoHandlerAssumption DEF TxInv, OneTx, NothingPending, OnePushPending,
         InTx
<1>4. ASSUME NEW h \in Handler, InsertPush(h) PROVE TxInv'
  <2>1. /\ pc[h] = "push" /\ pc'[h] = "metrics" /\ conn = h /\ conn' = h
        /\ db' = db /\ req' = req /\ at' = at /\ work = db
        /\ \A g \in Handler \ {h} : pc'[g] = pc[g] /\ ~InTx(g)
    BY <1>4 DEF InsertPush, Goto, TypeOK, TxInv, OneTx, OnePushPending, InTx
  <2>2. /\ work'.pushes = Append(db.pushes, RowOf(h))
        /\ work'.metrics = db.metrics /\ work'.agents = db.agents
        /\ req[h].nonce \notin Stored(db)
    BY <1>4, <2>1 DEF InsertPush, RowOf, TypeOK, DbOK
  <2>3. db.metrics = AllMetrics(db) /\ Len(work'.pushes) = Len(db.pushes) + 1
    BY <2>1, <2>2, RowOfType DEF TxInv, Agree, AllMetrics, TypeOK, DbOK
  <2>4. work'.metrics \subseteq AllMetrics(work)'
    BY <2>2, <2>3 DEF AllMetrics, TypeOK, DbOK
  <2>5. Inserted(h)'
    BY <2>1, <2>2 DEF Inserted, RowOf, MachineOf, Stored
  <2> QED BY <2>1, <2>2, <2>4, <2>5, NoHandlerAssumption DEF TxInv, OneTx, NothingPending,
         OnePushPending, InTx
<1>5. ASSUME NEW h \in Handler, NEW k \in 1..NMetric, InsertMetric(h, k) PROVE TxInv'
  <2>1. /\ pc[h] = "metrics" /\ pc' = pc /\ conn = h /\ conn' = conn
        /\ db' = db /\ req' = req /\ at' = at
        /\ \A g \in Handler \ {h} : ~InTx(g)
    BY <1>5 DEF InsertMetric, TxInv, OneTx, InTx
  <2>2. /\ work'.pushes = work.pushes /\ work'.agents = work.agents
        /\ work'.metrics = work.metrics \cup {<<Len(work.pushes), k>>}
    BY <1>5 DEF InsertMetric, TypeOK, DbOK
  <2>3. Inserted(h) /\ Len(work.pushes) = Len(db.pushes) + 1 /\ Len(db.pushes) \in Nat
    <3>1. Inserted(h) /\ db.pushes \in Seq(Row) /\ RowOf(h) \in Row
      BY <2>1, RowOfType DEF TxInv, OnePushPending, TypeOK, DbOK
    <3> QED BY <3>1 DEF Inserted
  <2>4. work'.metrics \subseteq AllMetrics(work)' /\ db.metrics \subseteq work'.metrics
    BY <2>1, <2>2, <2>3 DEF TxInv, OnePushPending, AllMetrics
  <2>5. Inserted(h)'
    BY <2>1, <2>2, <2>3 DEF Inserted, RowOf, MachineOf, Stored
  <2> QED BY <2>1, <2>2, <2>4, <2>5, NoHandlerAssumption DEF TxInv, OneTx, NothingPending,
         OnePushPending, InTx
<1>6. ASSUME NEW h \in Handler, UpsertAgent(h) PROVE TxInv'
  <2>1. /\ pc[h] = "metrics" /\ pc'[h] = "commit" /\ conn = h /\ conn' = conn
        /\ db' = db /\ req' = req /\ at' = at
        /\ \A g \in Handler \ {h} : pc'[g] = pc[g] /\ ~InTx(g)
    BY <1>6 DEF UpsertAgent, Goto, TypeOK, TxInv, OneTx, InTx
  <2>2. /\ work'.pushes = work.pushes /\ work'.metrics = work.metrics
        /\ work'.agents = Upsert(db.agents, MachineOf(req[h]), at[h])
    BY <1>6, <2>1 DEF UpsertAgent, TypeOK, DbOK, TxInv, OnePushPending
  <2>3. Inserted(h) /\ Len(work.pushes) = Len(db.pushes) + 1 /\ Len(db.pushes) \in Nat
    <3>1. Inserted(h) /\ db.pushes \in Seq(Row) /\ RowOf(h) \in Row
      BY <2>1, RowOfType DEF TxInv, OnePushPending, TypeOK, DbOK
    <3> QED BY <3>1 DEF Inserted
  <2>4. work.metrics = AllMetrics(work)
    <3>1. \A k \in 1..NMetric : <<Len(work.pushes), k>> \in work.metrics
      BY <1>6 DEF UpsertAgent
    <3>2. AllMetrics(db) \subseteq work.metrics /\ work.metrics \subseteq AllMetrics(work)
      BY <2>1 DEF TxInv, OnePushPending, Agree, AllMetrics
    <3> QED BY <2>3, <3>1, <3>2 DEF AllMetrics
  <2>5. Inserted(h)' /\ work'.metrics = AllMetrics(work)'
    BY <2>1, <2>2, <2>3, <2>4 DEF Inserted, RowOf, MachineOf, Stored, AllMetrics
  <2> QED BY <2>1, <2>2, <2>5, NoHandlerAssumption DEF TxInv, OneTx, NothingPending,
         OnePushPending, InTx, MachineOf
<1>7. ASSUME NEW h \in Handler, Commit(h) PROVE TxInv'
  <2>1. /\ pc[h] = "commit" /\ conn' = NoHandler /\ work' = db' /\ db' = work
        /\ \A g \in Handler : ~InTx(g)'
    BY <1>7 DEF Commit, Goto, TypeOK, TxInv, OneTx, InTx
  <2>2. Agree(work)
    <3>1. RowOf(h) \in Row
      BY <2>1, RowOfType
    <3>2. /\ RowOf(h).machine = MachineOf(req[h]) /\ RowOf(h).receivedAt = at[h]
          /\ work.pushes = Append(db.pushes, RowOf(h)) /\ work.metrics = AllMetrics(work)
          /\ work.agents = Upsert(db.agents, MachineOf(req[h]), at[h])
      BY <2>1 DEF TxInv, OnePushPending, Inserted, RowOf
    <3>3. DbOK(db) /\ Agree(db)
      BY DEF TypeOK, TxInv
    <3>4. work.agents = Upsert(db.agents, RowOf(h).machine, RowOf(h).receivedAt)
      BY <3>2
    <3> QED BY <3>1, <3>2, <3>3, <3>4, UpsertAgrees
  <2> QED BY <2>1, <2>2, EndOfTx
<1>8. ASSUME NEW h \in Handler, DuplicateNonce(h) \/ SaveFails(h) PROVE TxInv'
  <2>1. pc[h] # "idle" /\ Abort(h) /\ db' = db /\ pc'[h] = "reply"
    BY <1>8 DEF DuplicateNonce, SaveFails, Abort, TypeOK
  <2>2. CASE conn = h
    <3>1. conn' = NoHandler /\ work' = db' /\ \A g \in Handler : ~InTx(g)'
      BY <2>1, <2>2 DEF Abort, TypeOK, TxInv, OneTx, InTx
    <3> QED BY <2>1, <3>1, EndOfTx DEF TxInv
  <2>3. CASE conn # h
    <3>1. /\ UNCHANGED <<conn, work, db, req, at>> /\ ~InTx(h) /\ ~InTx(h)'
          /\ \A g \in Handler \ {h} : pc'[g] = pc[g]
      BY <2>1, <2>3 DEF Abort, TypeOK, TxInv, OneTx, InTx
    <3> QED BY <3>1, OutsideTx
  <2> QED BY <2>2, <2>3
<1>9. CASE Restart
  <2>1. /\ conn' = NoHandler /\ work' = db' /\ db' = db
        /\ \A g \in Handler : ~InTx(g)'
    BY <1>9 DEF Restart, InTx
  <2> QED BY <2>1, EndOfTx DEF TxInv
<1>10. CASE UNCHANGED <<pc, req, at, conn, work, db>>
  BY <1>10, OutsideTx
<1> QED
  BY <1>1, <1>2, <1>3, <1>4, <1>5, <1>6, <1>7, <1>8, <1>9, <1>10 DEF Next, Proceed,
     vars, Tick, Send, EvictOnce

\* "All writes happen in a single transaction" (pushes.go:22): whatever fails and
\* whenever the server restarts, the committed tables agree with each other.
THEOREM TablesAlwaysAgree == Spec => []TablesAgree
<1>1. TxInv => TablesAgree
  BY DEF TxInv, TablesAgree
<1> QED BY TxInit, TypeCorrect, TxStep, <1>1, PTL DEF Spec

-----------------------------------------------------------------------------
(***************************************************************************)
(* The refinement.  A handler about to answer 200 is granted the           *)
(* acknowledgement of its nonce: the nonce is stored, was never            *)
(* acknowledged, and no other handler is granted it.                       *)
(***************************************************************************)
Granted(h) == pc[h] = "reply" /\ code[h] = 200

OnlyRepliesGrant == \A h \in Handler : code[h] = 200 => pc[h] = "reply"

GrantedAreStored == \A h \in Handler : Granted(h) => req[h].nonce \in Stored(db) \ acked

OneGrant == \A g, h \in Handler :
               Granted(g) /\ Granted(h) /\ req[g].nonce = req[h].nonce => g = h

AckedAreStored == acked \subseteq Stored(db)

AckInv == OnlyRepliesGrant /\ GrantedAreStored /\ OneGrant /\ AckedAreStored

LEMMA AckInit == Init => AckInv
BY DEF Init, AckInv, OnlyRepliesGrant, GrantedAreStored, OneGrant, AckedAreStored, Granted

LEMMA RefusalsAreErrors ==
  ASSUME NEW m
  PROVE  200 \notin Refusals(m)
BY DEF Refusals

\* What a commit adds to the stored nonces.
LEMMA StoredAppend ==
  ASSUME NEW d, DbOK(d), NEW r \in Row, NEW e, e.pushes = Append(d.pushes, r)
  PROVE  Stored(e) = Stored(d) \cup {r.nonce}
<1>1. /\ d.pushes \in Seq(Row) /\ DOMAIN d.pushes = 1..Len(d.pushes)
      /\ Len(d.pushes) \in Nat
      /\ DOMAIN e.pushes = 1..(Len(d.pushes)+1)
      /\ e.pushes[Len(d.pushes)+1] = r
      /\ \A i \in 1..Len(d.pushes) : e.pushes[i] = d.pushes[i]
  BY DEF DbOK
<1> QED BY <1>1 DEF Stored

\* A committing handler stores a nonce that was not stored.
LEMMA CommitStores ==
  ASSUME TypeOK, TxInv, NEW h \in Handler, Commit(h)
  PROVE  /\ req[h].nonce \in Nonce \ Stored(db)
         /\ Stored(db') = Stored(db) \cup {req[h].nonce}
         /\ db'.pushes = Append(db.pushes, RowOf(h))
<1>1. pc[h] = "commit" /\ db' = work
  BY DEF Commit, Goto
<1>2. Inserted(h) /\ RowOf(h) \in Row /\ req[h].nonce \in Nonce /\ DbOK(db)
  BY <1>1, RowOfType DEF TxInv, OnePushPending, TypeOK
<1>3. Stored(db') = Stored(db) \cup {RowOf(h).nonce}
  BY <1>1, <1>2, StoredAppend DEF Inserted
<1> QED BY <1>1, <1>2, <1>3 DEF Inserted, RowOf

\* A step of h that grants nothing and stores nothing.
LEMMA NoGrant ==
  ASSUME TypeOK, AckInv, NEW h \in Handler, db' = db, acked' = acked, ~Granted(h)',
         code'[h] # 200,
         \A g \in Handler \ {h} : pc'[g] = pc[g] /\ code'[g] = code[g] /\ req'[g] = req[g]
  PROVE  AckInv'
<1>1. \A g \in Handler : Granted(g)' => g # h /\ Granted(g) /\ req'[g] = req[g]
  BY DEF Granted
<1>2. OnlyRepliesGrant'
  BY DEF AckInv, OnlyRepliesGrant
<1>3. GrantedAreStored' /\ OneGrant' /\ AckedAreStored'
  BY <1>1 DEF AckInv, GrantedAreStored, OneGrant, AckedAreStored
<1> QED BY <1>2, <1>3 DEF AckInv

LEMMA AckStep == TypeOK /\ TxInv /\ AckInv /\ [Next]_vars => AckInv'
<1> SUFFICES ASSUME TypeOK, TxInv, AckInv, [Next]_vars PROVE AckInv'
  OBVIOUS
<1>1. ASSUME NEW h \in Handler, NEW m \in sent, Receive(h, m) PROVE AckInv'
  <2>1. code'[h] # 200 /\ ~Granted(h)'
    BY <1>1, RefusalsAreErrors DEF Receive, TypeOK, AckInv, OnlyRepliesGrant, Granted
  <2>2. /\ db' = db /\ acked' = acked
        /\ \A g \in Handler \ {h} : pc'[g] = pc[g] /\ code'[g] = code[g] /\ req'[g] = req[g]
    BY <1>1 DEF Receive, TypeOK
  <2> QED BY <2>1, <2>2, NoGrant
<1>2. ASSUME NEW h \in Handler,
             \/ ReadClock(h) \/ CheckAndAdd(h) \/ StampReceived(h) \/ BeginTx(h)
             \/ InsertPush(h) \/ UpsertAgent(h)
      PROVE  AckInv'
  <2>1. code'[h] # 200 /\ ~Granted(h)'
    BY <1>2 DEF ReadClock, CheckAndAdd, StampReceived, BeginTx, InsertPush, UpsertAgent,
       Goto, TypeOK, AckInv, OnlyRepliesGrant, Granted
  <2>2. /\ db' = db /\ acked' = acked
        /\ \A g \in Handler \ {h} : pc'[g] = pc[g] /\ code'[g] = code[g] /\ req'[g] = req[g]
    BY <1>2 DEF ReadClock, CheckAndAdd, StampReceived, BeginTx, InsertPush, UpsertAgent,
       Goto, TypeOK
  <2> QED BY <2>1, <2>2, NoGrant
<1>3. ASSUME NEW h \in Handler, DuplicateNonce(h) \/ SaveFails(h) PROVE AckInv'
  <2>1. Abort(h)
    BY <1>3 DEF DuplicateNonce, SaveFails
  <2>2. code'[h] # 200 /\ ~Granted(h)'
    BY <2>1 DEF Abort, TypeOK, Granted
  <2>3. /\ db' = db /\ acked' = acked
        /\ \A g \in Handler \ {h} : pc'[g] = pc[g] /\ code'[g] = code[g] /\ req'[g] = req[g]
    BY <2>1 DEF Abort, TypeOK
  <2> QED BY <2>2, <2>3, NoGrant
<1>4. ASSUME NEW h \in Handler, Commit(h) PROVE AckInv'
  <2> PICK s \in {200, 500} : code' = [code EXCEPT ![h] = s]
    BY <1>4 DEF Commit
  <2>1. /\ pc' = [pc EXCEPT ![h] = "reply"] /\ code' = [code EXCEPT ![h] = s]
        /\ req' = req /\ acked' = acked
    BY <1>4 DEF Commit, Goto
  <2>2. /\ req[h].nonce \notin Stored(db)
        /\ Stored(db') = Stored(db) \cup {req[h].nonce}
    BY <1>4, CommitStores
  <2>3. \A g \in Handler \ {h} : Granted(g)' => Granted(g)
    BY <2>1 DEF Granted, TypeOK
  <2>4. OnlyRepliesGrant'
    BY <2>1 DEF AckInv, OnlyRepliesGrant, TypeOK
  <2>5. GrantedAreStored' /\ AckedAreStored'
    BY <2>1, <2>2, <2>3 DEF AckInv, GrantedAreStored, AckedAreStored
  <2>6. OneGrant'
    BY <2>1, <2>2, <2>3 DEF AckInv, OneGrant, GrantedAreStored
  <2> QED BY <2>4, <2>5, <2>6 DEF AckInv
<1>5. ASSUME NEW h \in Handler, Reply(h) PROVE AckInv'
  <2>1. /\ pc'[h] = "idle" /\ code'[h] = 0 /\ db' = db
        /\ acked' = IF Granted(h) THEN acked \cup {req[h].nonce} ELSE acked
        /\ \A g \in Handler \ {h} : pc'[g] = pc[g] /\ code'[g] = code[g] /\ req'[g] = req[g]
    BY <1>5 DEF Reply, Goto, TypeOK, Granted
  <2>2. \A g \in Handler : Granted(g)' => g # h /\ Granted(g) /\ req'[g] = req[g]
    BY <2>1 DEF Granted
  <2>3. OnlyRepliesGrant'
    BY <2>1 DEF AckInv, OnlyRepliesGrant
  <2>4. GrantedAreStored' /\ OneGrant' /\ AckedAreStored'
    BY <2>1, <2>2 DEF AckInv, GrantedAreStored, OneGrant, AckedAreStored
  <2> QED BY <2>3, <2>4 DEF AckInv
<1>6. CASE Restart
  BY <1>6 DEF Restart, AckInv, OnlyRepliesGrant, GrantedAreStored, OneGrant,
     AckedAreStored, Granted
<1>7. CASE UNCHANGED <<pc, req, code, db, acked>>
  BY <1>7 DEF AckInv, OnlyRepliesGrant, GrantedAreStored, OneGrant, AckedAreStored, Granted
<1> QED
  BY <1>1, <1>2, <1>3, <1>4, <1>5, <1>6, <1>7 DEF Next, Proceed, vars, Tick, Send,
     EvictOnce, InsertMetric

\* The log of nonces, and what an appended row does to it.
LogOf(d) == [i \in DOMAIN d.pushes |-> d.pushes[i].nonce]

LEMMA LogAppend ==
  ASSUME NEW d, DbOK(d), NEW r \in Row, NEW e, e.pushes = Append(d.pushes, r)
  PROVE  LogOf(e) = Append(LogOf(d), r.nonce)
<1> DEFINE L == Len(d.pushes)
<1>1. /\ d.pushes \in Seq(Row) /\ L \in Nat /\ DOMAIN d.pushes = 1..L
      /\ DOMAIN e.pushes = 1..(L+1)
      /\ e.pushes[L+1] = r
      /\ \A i \in 1..L : e.pushes[i] = d.pushes[i]
      /\ \A q \in Row : q.nonce \in Nonce
      /\ \A i \in 1..L : d.pushes[i].nonce \in Nonce
  <2>1. /\ d.pushes \in Seq(Row)
        /\ \A q \in Row : q.nonce \in Nonce
    BY DEF DbOK, Row
  <2> QED BY <2>1
<1> HIDE DEF L
<1>2. LogOf(d) \in Seq(Nonce) /\ Len(LogOf(d)) = L /\ r.nonce \in Nonce
  <2>1. LogOf(d) \in [1..L -> Nonce] /\ r.nonce \in Nonce
    BY <1>1 DEF LogOf
  <2>2. LogOf(d) \in Seq(Nonce) /\ DOMAIN LogOf(d) = 1..L
    BY <1>1, <2>1
  <2>3. Len(LogOf(d)) \in Nat /\ 1..Len(LogOf(d)) = 1..L
    BY <2>2
  <2> QED BY <1>1, <2>1, <2>2, <2>3
<1>3. \A i \in 1..(L+1) : LogOf(e)[i] = Append(LogOf(d), r.nonce)[i]
  BY <1>1, <1>2 DEF LogOf
<1>4. DOMAIN LogOf(e) = 1..(L+1) /\ LogOf(e) \in Seq(Nonce)
  <2>1. LogOf(e) \in [1..(L+1) -> Nonce]
    <3>1. \A i \in 1..(L+1) : e.pushes[i].nonce \in Nonce
      <4>1. \A i \in 1..(L+1) : i \in 1..L \/ i = L+1
        BY <1>1
      <4> QED BY <1>1, <4>1
    <3> QED BY <1>1, <3>1 DEF LogOf
  <2> QED BY <1>1, <2>1
<1> QED BY <1>1, <1>2, <1>3, <1>4

LEMMA LogHolds ==
  ASSUME NEW d
  PROVE  Log!ToSet(LogOf(d)) = Stored(d)
BY DEF Log!ToSet, LogOf, Stored

\* Every step is a step of PushLog or leaves its variables alone.
LEMMA LogStep ==
  TypeOK /\ TxInv /\ AckInv /\ [Next]_vars => [Log!Next]_(Log!vars)
<1> SUFFICES ASSUME TypeOK, TxInv, AckInv, [Next]_vars
             PROVE  [Log!Next]_(Log!vars)
  OBVIOUS
<1>1. ASSUME NEW a \in Agent, NEW n \in Nonce, Send(a, n) PROVE Log!Push(n)
  <2>1. /\ \A m \in sent : m.nonce # n
        /\ sent' = sent \cup {[nonce |-> n, agent |-> a, ts |-> now + Config[a].offset]}
        /\ db' = db /\ acked' = acked
    BY <1>1 DEF Send
  <2>2. \A x : (\E m \in sent' : x = m.nonce) <=> (\E m \in sent : x = m.nonce) \/ x = n
    <3> DEFINE p == [nonce |-> n, agent |-> a, ts |-> now + Config[a].offset]
    <3>1. p.nonce = n
      OBVIOUS
    <3>2. \A m : m \in sent' <=> m \in sent \/ m = p
      BY <2>1
    <3> HIDE DEF p
    <3> QED BY <3>1, <3>2
  <2>3. {m.nonce : m \in sent'} = {m.nonce : m \in sent} \cup {n}
    BY <2>2
  <2> QED BY <2>1, <2>3 DEF Log!Push
<1>2. ASSUME NEW h \in Handler, NEW n \in Nonce, n = req[h].nonce, Commit(h)
      PROVE  Log!Store(n)
  <2>1. req[h] \in sent /\ RowOf(h) \in Row /\ DbOK(db)
    BY <1>2, RowOfType DEF Commit, Goto, TypeOK
  <2>2. /\ req[h].nonce \in Nonce \ Stored(db)
        /\ db'.pushes = Append(db.pushes, RowOf(h))
    BY <1>2, CommitStores
  <2>3. LogOf(db') = Append(LogOf(db), req[h].nonce)
    BY <2>1, <2>2, LogAppend DEF RowOf
  <2>4. req[h].nonce \notin Log!ToSet(LogOf(db))
    BY <2>2, LogHolds
  <2>5. sent' = sent /\ acked' = acked
    BY <1>2 DEF Commit
  <2> QED BY <1>2, <2>1, <2>3, <2>4, <2>5 DEF Log!Store, LogOf
<1>3. ASSUME NEW h \in Handler, Reply(h), Granted(h) PROVE Log!Ack(req[h].nonce)
  <2>1. req[h].nonce \in Log!ToSet(LogOf(db)) \ acked
    BY <1>3, LogHolds DEF AckInv, GrantedAreStored
  <2>2. sent' = sent /\ db' = db /\ acked' = acked \cup {req[h].nonce}
    BY <1>3 DEF Reply, Granted
  <2> QED BY <2>1, <2>2 DEF Log!Ack, LogOf
<1>4. ASSUME NEW h \in Handler, Reply(h), ~Granted(h) PROVE UNCHANGED <<sent, db, acked>>
  BY <1>4 DEF Reply, Granted, Goto
<1>5. ASSUME UNCHANGED <<sent, db, acked>> PROVE UNCHANGED Log!vars
  BY <1>5 DEF Log!vars
<1>6. ASSUME NEW h \in Handler, Commit(h) \/ Reply(h) PROVE req[h].nonce \in Nonce
  BY <1>6, RowOfType DEF Commit, Reply, Goto
<1>7. \/ \E a \in Agent, n \in Nonce : Send(a, n)
      \/ \E h \in Handler : Commit(h) \/ Reply(h)
      \/ UNCHANGED <<sent, db, acked>>
  BY ZenonT(60) DEF Next, Proceed, vars, Tick, Receive, ReadClock,
     CheckAndAdd, EvictOnce, StampReceived, BeginTx, InsertPush, InsertMetric,
     UpsertAgent, DuplicateNonce, SaveFails, Abort, Restart
<1>8. ASSUME NEW a \in Agent, NEW n \in Nonce, Send(a, n) PROVE Log!Next
  BY <1>1, <1>8 DEF Log!Next
<1>9. ASSUME NEW h \in Handler, Commit(h) PROVE Log!Next
  <2>1. PICK n \in Nonce : n = req[h].nonce
    BY <1>6, <1>9
  <2>2. Log!Store(n)
    BY <1>2, <1>9, <2>1
  <2> QED BY <2>2 DEF Log!Next
<1>10. ASSUME NEW h \in Handler, Reply(h) PROVE Log!Next \/ UNCHANGED Log!vars
  BY <1>3, <1>4, <1>5, <1>6, <1>10 DEF Log!Next
<1> QED BY <1>5, <1>7, <1>8, <1>9, <1>10

\* The ingestion path implements PushLog (server.go:133-204, schema.sql:7): each push
\* is stored at most once and acknowledged at most once, after it is stored, whatever
\* is delivered twice, whatever fails, whenever the server restarts.
THEOREM Refinement == Spec => ImplementsPushLog
<1>1. Init => Log!Init
  BY DEF Init, EmptyDb, Log!Init
<1>2. Init => TypeOK /\ TxInv /\ AckInv
  BY TypeInit, TxInit, AckInit
<1>3. TypeOK /\ TxInv /\ AckInv /\ [Next]_vars => (TypeOK /\ TxInv /\ AckInv)'
  BY TypeStep, TxStep, AckStep
<1> QED BY <1>1, <1>2, <1>3, LogStep, PTL DEF Spec, ImplementsPushLog, Log!Spec
=============================================================================
