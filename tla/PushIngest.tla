----------------------------- MODULE PushIngest -----------------------------
(***************************************************************************)
(* The ingestion path of the dashboard: Server.handlePush                  *)
(* (internal/dashboard/server.go), the nonce cache, and Storage.SavePush   *)
(* (internal/dashboard/storage/pushes.go) on the one SQLite connection.    *)
(* net/http runs each request in a goroutine of its own: a Handler.  A     *)
(* handler's step ends wherever it reads the clock, takes the cache's      *)
(* mutex, waits for the connection or executes a statement.                *)
(*                                                                         *)
(* Delivery is by an unreliable network: what an agent sent may reach the  *)
(* server never, late, twice, or out of order.  The process may die        *)
(* between any two steps and restart: memory (the cache, the handlers and  *)
(* their transaction) is lost, committed rows are kept.                    *)
(***************************************************************************)
EXTENDS NonceTable, Sequences

CONSTANTS
    Agent,      \* installed agents
    Handler,    \* request goroutines of the server
    Nonce,      \* the nonces agents draw (uuid.NewString, client.go:106)
    Machine,    \* machine identifiers
    Key,        \* signing keys
    Config,     \* agent -> how it was installed
    KeyDir,     \* machine -> key, the *.pub files read at start (keys.go:70)
    NMetric,    \* metrics carried by a push
    Skew,       \* timestampSkew
    Stall,      \* longest wait of a handler before a clock read or the mutex
    MaxNow,     \* bound on the clock
    NoHandler,  \* the connection is free
    NoPush      \* the handler serves no request

ProtocolVersion == 1

\* machine: BIENTOT machine id; cn: its certificate's CN; key: its signing key;
\* version: the protocol it speaks; fits: its body is within maxPayloadSize;
\* offset: its clock minus the server's.
AgentConfig == [machine : Machine, cn : Machine, key : Key,
                version : Nat, fits : BOOLEAN, offset : Int]
Push == [nonce : Nonce, agent : Agent, ts : Int]

ASSUME ConfigAssumption == Config \in [Agent -> AgentConfig]
ASSUME SkewAssumption == Skew \in Nat
ASSUME StallAssumption == Stall \in Nat
\* A push is acceptable for 2 * Skew, and two handlers serving it may be apart
\* by two more waits: the cache must remember it for longer than that.
ASSUME WindowAssumption == 2 * Skew + 2 * Stall < TTL
ASSUME NMetricAssumption == NMetric \in Nat
ASSUME MaxNowAssumption == MaxNow \in Nat
ASSUME NoHandlerAssumption == NoHandler \notin Handler
ASSUME NoPushAssumption == NoPush \notin Push

VARIABLES
    now,        \* the server's clock
    sent,       \* every push an agent ever sent
    seen,       \* Cache.seen of this lifetime of the server
    pc,         \* handler -> where it is in handlePush or SavePush
    req,        \* handler -> the push it serves
    at,         \* handler -> the time it read last and still needs
    code,       \* handler -> the status it is about to answer
    conn,       \* the handler whose transaction holds the connection
    work,       \* the database as the open transaction sees it
    db,         \* the committed database
    passed,     \* history: nonces this lifetime's cache declared fresh
    acked       \* history: nonces answered 200

vars == <<now, sent, seen, pc, req, at, code, conn, work, db, passed, acked>>

-----------------------------------------------------------------------------
(* The database (schema.sql): a row of `pushes` has its id as index. *)

EmptyDb == [pushes |-> <<>>, metrics |-> {}, agents |-> [m \in {} |-> 0]]

Row == [nonce : Nonce, machine : Machine, receivedAt : 0..MaxNow]
Seen == [first : 0..MaxNow, last : 0..MaxNow]

MachineOf(m) == Config[m.agent].machine
Stored(d) == {d.pushes[i].nonce : i \in DOMAIN d.pushes}

\* INSERT INTO agents ... ON CONFLICT DO UPDATE SET last_push_at.
Upsert(agents, m, t) ==
    [x \in DOMAIN agents \cup {m} |->
        IF x # m THEN agents[x]
        ELSE [first |-> IF m \in DOMAIN agents THEN agents[m].first ELSE t,
              last  |-> t]]

-----------------------------------------------------------------------------
(* The checks before the cache. *)

Fresh(m) == now - m.ts <= Skew /\ now - m.ts >= -Skew

\* The certificate the TLS server has verified bears the machine's name.
Certified(c) == c.cn = c.machine

\* pubKeys[machine] exists, and verifies the signature.
Known(c) == c.machine \in DOMAIN KeyDir
Signed(c) == KeyDir[c.machine] = c.key

\* Mutant of Refusals: the certificate's CN is not compared with machine_id.
RefusalsAnyCN(m) ==
    LET c == Config[m.agent] IN
    IF ~c.fits THEN {400, 401, 403}
    ELSE IF c.version # ProtocolVersion THEN {400}
    ELSE IF ~Fresh(m) THEN {400}
    ELSE IF ~Known(c) THEN {401}
    ELSE IF ~Signed(c) THEN {403}
    ELSE {}

\* The statuses the checks may answer, in their order; {} when all pass.  (What
\* is not a POST is answered 405 before anything is read, and changes nothing.)
\* An oversized body is cut by the LimitReader: it no longer decodes, or it
\* decodes without its last field, the signature.
Refusals(m) ==
    LET c == Config[m.agent] IN
    IF ~c.fits THEN {400, 401, 403}
    ELSE IF c.version # ProtocolVersion THEN {400}
    ELSE IF ~Fresh(m) THEN {400}
    ELSE IF ~Certified(c) THEN {403}
    ELSE IF ~Known(c) THEN {401}
    ELSE IF ~Signed(c) THEN {403}
    ELSE {}

-----------------------------------------------------------------------------
Init == /\ now = 0
        /\ sent = {}
        /\ seen = EmptyTable
        /\ pc = [h \in Handler |-> "idle"]
        /\ req = [h \in Handler |-> NoPush]
        /\ at = [h \in Handler |-> 0]
        /\ code = [h \in Handler |-> 0]
        /\ conn = NoHandler
        /\ work = EmptyDb
        /\ db = EmptyDb
        /\ passed = {}
        /\ acked = {}

Goto(h, from, to) == pc[h] = from /\ pc' = [pc EXCEPT ![h] = to]

\* A handler between its skew check and the cache's critical section has waited
\* as long as it may for its next step.
Overdue == \E h \in Handler : pc[h] \in {"verified", "locking"} /\ now - at[h] >= Stall

Tick == /\ now < MaxNow
        /\ ~Overdue
        /\ now' = now + 1
        /\ UNCHANGED <<sent, seen, pc, req, at, code, conn, work, db, passed, acked>>

\* Client.Push stamps and signs a new request with a new nonce.
Send(a, n) ==
    /\ \A m \in sent : m.nonce # n
    /\ sent' = sent \cup {[nonce |-> n, agent |-> a, ts |-> now + Config[a].offset]}
    /\ UNCHANGED <<now, seen, pc, req, at, code, conn, work, db, passed, acked>>

\* handlePush up to the signature check, with the clock read once the body is
\* in; 400 is also the answer when reading the body fails (server.go:139-144).
Receive(h, m) ==
    /\ pc[h] = "idle"
    /\ \/ /\ Refusals(m) = {}
          /\ pc' = [pc EXCEPT ![h] = "verified"]
          /\ at' = [at EXCEPT ![h] = now]
          /\ UNCHANGED code
       \/ \E s \in Refusals(m) \cup {400} :
             /\ pc' = [pc EXCEPT ![h] = "reply"]
             /\ code' = [code EXCEPT ![h] = s]
             /\ UNCHANGED at
    /\ req' = [req EXCEPT ![h] = m]
    /\ UNCHANGED <<now, sent, seen, conn, work, db, passed, acked>>

\* time.Now() is evaluated before CheckAndAdd queues for the mutex.
ReadClock(h) ==
    /\ Goto(h, "verified", "locking")
    /\ at' = [at EXCEPT ![h] = now]
    /\ UNCHANGED <<now, sent, seen, req, code, conn, work, db, passed, acked>>

CheckAndAdd(h) ==
    LET n == req[h].nonce IN
    /\ pc[h] = "locking"
    /\ \/ /\ Rejects(seen, n, at[h])
          /\ Goto(h, "locking", "reply")
          /\ code' = [code EXCEPT ![h] = 409]
          /\ UNCHANGED <<seen, passed>>
       \/ /\ ~Rejects(seen, n, at[h])
          /\ Goto(h, "locking", "save")
          /\ seen' = Put(seen, n, at[h])
          /\ passed' = passed \cup {n}
          /\ UNCHANGED code
    /\ UNCHANGED <<now, sent, req, at, conn, work, db, acked>>

\* The evictor's critical section, with a time t it read before the mutex.
EvictOnce(t) ==
    /\ seen' = Evicted(seen, t)
    /\ UNCHANGED <<now, sent, pc, req, at, code, conn, work, db, passed, acked>>

\* receivedAt := time.Now(), before the wait for the connection.
StampReceived(h) ==
    /\ Goto(h, "save", "begin")
    /\ at' = [at EXCEPT ![h] = now]
    /\ UNCHANGED <<now, sent, seen, req, code, conn, work, db, passed, acked>>

\* BeginTx gets the only connection (MaxOpenConns = 1).
BeginTx(h) ==
    /\ conn = NoHandler
    /\ Goto(h, "begin", "push")
    /\ conn' = h
    /\ UNCHANGED <<now, sent, seen, req, at, code, work, db, passed, acked>>

\* Mutant of InsertPush: the nonce column without its UNIQUE constraint.
InsertPushAnyNonce(h) ==
    /\ Goto(h, "push", "metrics")
    /\ work' = [work EXCEPT !.pushes = Append(@,
                  [nonce |-> req[h].nonce, machine |-> MachineOf(req[h]),
                   receivedAt |-> at[h]])]
    /\ UNCHANGED <<now, sent, seen, req, at, code, conn, db, passed, acked>>

InsertPush(h) ==
    /\ Goto(h, "push", "metrics")
    /\ req[h].nonce \notin Stored(work)
    /\ work' = [work EXCEPT !.pushes = Append(@,
                  [nonce |-> req[h].nonce, machine |-> MachineOf(req[h]),
                   receivedAt |-> at[h]])]
    /\ UNCHANGED <<now, sent, seen, req, at, code, conn, db, passed, acked>>

\* Mutant of InsertMetric: the statement runs on the database, not on the tx.
InsertMetricNoTx(h, k) ==
    /\ pc[h] = "metrics"
    /\ k \in 1..NMetric
    /\ <<Len(work.pushes), k>> \notin work.metrics
    /\ \A j \in 1..(k-1) : <<Len(work.pushes), j>> \in work.metrics
    /\ work' = [work EXCEPT !.metrics = @ \cup {<<Len(work.pushes), k>>}]
    /\ db' = [db EXCEPT !.metrics = @ \cup {<<Len(work.pushes), k>>}]
    /\ UNCHANGED <<now, sent, seen, pc, req, at, code, conn, passed, acked>>

\* One pass of the metrics loop; the push's metrics are numbered 1..NMetric.
InsertMetric(h, k) ==
    /\ pc[h] = "metrics"
    /\ k \in 1..NMetric
    /\ <<Len(work.pushes), k>> \notin work.metrics
    /\ \A j \in 1..(k-1) : <<Len(work.pushes), j>> \in work.metrics
    /\ work' = [work EXCEPT !.metrics = @ \cup {<<Len(work.pushes), k>>}]
    /\ UNCHANGED <<now, sent, seen, pc, req, at, code, conn, db, passed, acked>>

UpsertAgent(h) ==
    /\ \A k \in 1..NMetric : <<Len(work.pushes), k>> \in work.metrics
    /\ Goto(h, "metrics", "commit")
    /\ work' = [work EXCEPT !.agents = Upsert(@, MachineOf(req[h]), at[h])]
    /\ UNCHANGED <<now, sent, seen, req, at, code, conn, db, passed, acked>>

\* The push is committed, whatever is answered: 500 when the response cannot be
\* marshalled (server.go:225-230).
Commit(h) ==
    /\ Goto(h, "commit", "reply")
    /\ \E s \in {200, 500} : code' = [code EXCEPT ![h] = s]
    /\ db' = work
    /\ conn' = NoHandler
    /\ UNCHANGED <<now, sent, seen, req, at, work, passed, acked>>

\* Mutant of Abort: SavePush returns without its deferred Rollback.
AbortKeepsConnection(h) ==
    /\ pc' = [pc EXCEPT ![h] = "reply"]
    /\ code' = [code EXCEPT ![h] = 500]
    /\ UNCHANGED <<now, sent, seen, req, at, conn, work, db, passed, acked>>

\* SavePush returns an error: the deferred Rollback gives the connection back.
Abort(h) ==
    /\ pc' = [pc EXCEPT ![h] = "reply"]
    /\ code' = [code EXCEPT ![h] = 500]
    /\ IF conn = h THEN conn' = NoHandler /\ work' = db
                   ELSE UNCHANGED <<conn, work>>
    /\ UNCHANGED <<now, sent, seen, req, at, db, passed, acked>>

\* The nonce is in `pushes` already: UNIQUE (schema.sql:7).
DuplicateNonce(h) ==
    /\ pc[h] = "push"
    /\ req[h].nonce \in Stored(work)
    /\ Abort(h)

\* A statement fails, or the request's context is cancelled.
SaveFails(h) ==
    /\ pc[h] \in {"save", "begin", "push", "metrics", "commit"}
    /\ Abort(h)

\* The status is written; the handler returns.
Reply(h) ==
    /\ Goto(h, "reply", "idle")
    /\ acked' = IF code[h] = 200 THEN acked \cup {req[h].nonce} ELSE acked
    /\ req' = [req EXCEPT ![h] = NoPush]
    /\ at' = [at EXCEPT ![h] = 0]
    /\ code' = [code EXCEPT ![h] = 0]
    /\ UNCHANGED <<now, sent, seen, conn, work, db, passed>>

\* The process dies and starts again: Run builds a new cache (server.go:75).
Restart ==
    /\ seen' = EmptyTable
    /\ pc' = [h \in Handler |-> "idle"]
    /\ req' = [h \in Handler |-> NoPush]
    /\ at' = [h \in Handler |-> 0]
    /\ code' = [h \in Handler |-> 0]
    /\ conn' = NoHandler
    /\ work' = db
    /\ passed' = {}
    /\ UNCHANGED <<now, sent, db, acked>>

\* The steps a handler takes by itself once it has a request.
Proceed(h) == \/ ReadClock(h) \/ CheckAndAdd(h) \/ StampReceived(h) \/ BeginTx(h)
              \/ InsertPush(h) \/ DuplicateNonce(h) \/ UpsertAgent(h)
              \/ \E k \in 1..NMetric : InsertMetric(h, k)
              \/ Commit(h) \/ Reply(h)

Next == \/ Tick
        \/ \E a \in Agent, n \in Nonce : Send(a, n)
        \/ \E h \in Handler : \E m \in sent : Receive(h, m)
        \/ \E h \in Handler : Proceed(h)
        \/ \E h \in Handler : SaveFails(h)
        \/ \E t \in 0..now : EvictOnce(t)
        \/ Restart

Spec == Init /\ [][Next]_vars

\* The Go scheduler runs every runnable goroutine, and nothing else is owed.
FairSpec == Spec /\ \A h \in Handler : WF_vars(Proceed(h))

-----------------------------------------------------------------------------
(* Properties *)

Status == {200, 400, 401, 403, 409, 500}
Stage == {"idle", "verified", "locking", "save", "begin", "push", "metrics",
          "commit", "reply"}

DbOK(d) == /\ d.pushes \in Seq(Row)
           /\ d.metrics \subseteq Nat \X (1..NMetric)
           /\ DOMAIN d.agents \subseteq Machine
           /\ \A m \in DOMAIN d.agents : d.agents[m] \in Seen

TypeOK == /\ now \in 0..MaxNow
          /\ sent \subseteq Push
          /\ DOMAIN seen \subseteq Nonce /\ \A n \in DOMAIN seen : seen[n] \in 0..MaxNow
          /\ pc \in [Handler -> Stage]
          /\ req \in [Handler -> Push \cup {NoPush}]
          /\ \A h \in Handler : pc[h] # "idle" => req[h] \in sent
          /\ at \in [Handler -> 0..MaxNow]
          /\ code \in [Handler -> Status \cup {0}]
          /\ conn \in Handler \cup {NoHandler}
          /\ DbOK(work) /\ DbOK(db)
          /\ passed \subseteq Nonce
          /\ acked \subseteq Nonce

(***************************************************************************)
(* The replay window of server.go:24-30 is closed: within one lifetime of  *)
(* the server the cache never passes a nonce a second time.  Skew and TTL  *)
(* are checked by different steps, against times read at different         *)
(* moments, and the evictor removes the entries the second check relies    *)
(* on; what ties them is 2 * Skew + 2 * Stall < TTL.                       *)
(***************************************************************************)
NoSecondPass ==
    [][\A h \in Handler :
         pc[h] = "locking" /\ pc'[h] = "save" => req[h].nonce \notin passed]_vars

(***************************************************************************)
(* A push is stored at most once and acknowledged at most once, and only   *)
(* after it is stored, whatever is delivered twice or late, whatever fails *)
(* and whenever the server restarts (server.go:194-204, schema.sql:7).     *)
(***************************************************************************)
Log == INSTANCE PushLog WITH
         pushed <- {m.nonce : m \in sent},
         log    <- [i \in DOMAIN db.pushes |-> db.pushes[i].nonce]
ImplementsPushLog == Log!Spec

(***************************************************************************)
(* "All writes happen in a single transaction" (pushes.go:22): in the      *)
(* committed database every push has exactly its metrics, and the row of   *)
(* an agent carries the reception times of its first and its last push.    *)
(***************************************************************************)
AgentRowOf(d, m) ==
    \E i, j \in DOMAIN d.pushes :
        /\ d.pushes[i].machine = m /\ d.pushes[j].machine = m
        /\ \A k \in DOMAIN d.pushes : d.pushes[k].machine = m => i <= k /\ k <= j
        /\ d.agents[m] = [first |-> d.pushes[i].receivedAt,
                          last  |-> d.pushes[j].receivedAt]

Agree(d) ==
    /\ d.metrics = (1..Len(d.pushes)) \X (1..NMetric)
    /\ DOMAIN d.agents = {d.pushes[i].machine : i \in DOMAIN d.pushes}
    /\ \A m \in DOMAIN d.agents : AgentRowOf(d, m)

TablesAgree == Agree(db)

(***************************************************************************)
(* Only a push whose sender's certificate and registered key vouch for the *)
(* machine it names leaves a trace: a row, or a nonce in the cache.  A     *)
(* refused push thus never burns a nonce (server.go:167-194).              *)
(***************************************************************************)
Vouched(m) == LET c == Config[m.agent] IN
              /\ c.fits /\ c.version = ProtocolVersion
              /\ Certified(c) /\ Known(c) /\ Signed(c)

OnlyVouched ==
    /\ \A n \in DOMAIN seen : \E m \in sent : m.nonce = n /\ Vouched(m)
    /\ \A i \in DOMAIN db.pushes : \E m \in sent :
          /\ m.nonce = db.pushes[i].nonce /\ Vouched(m)
          /\ MachineOf(m) = db.pushes[i].machine
          /\ m.ts <= db.pushes[i].receivedAt + Skew

(***************************************************************************)
(* Every request is answered unless the server restarts: no error path     *)
(* keeps the only connection, and no handler waits for it forever.         *)
(***************************************************************************)
EveryRequestAnswered ==
    \A h \in Handler : pc[h] # "idle" ~> pc[h] = "idle"
=============================================================================
