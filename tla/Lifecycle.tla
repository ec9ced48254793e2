------------------------------ MODULE Lifecycle -----------------------------
(***************************************************************************)
(* The dashboard process from its start to its exit (cmd/dashboard/main.go *)
(* and Server.Run): two HTTP servers under one errgroup, a goroutine that  *)
(* shuts each of them down, the requests they are serving, and the storage *)
(* handle they all share, which main closes on its way out.                *)
(***************************************************************************)
EXTENDS Naturals

CONSTANTS Push,         \* requests to the mTLS server (/v1/push)
          Page          \* requests to the web and API server

VARIABLES
    main,       \* "start", "wait" in group.Wait, "closing", "exited"
    exit,       \* "clean" (code 0), "failure" (1), "none" while the process runs
    cancelled,  \* ctx: a signal was received
    failed,     \* a goroutine of the errgroup returned an error
    mtls,       \* Server.Run: "idle", "setup", "serving", "returned"
    mtlsStop,   \* its shutdown goroutine: "none", "waiting", "draining", "done"
    web,        \* httpSrv.ListenAndServe: "idle", "serving", "returned"
    webStop,    \* its shutdown goroutine: "none", "waiting", "draining", "done"
    storage,    \* "open", "closed" (sql.DB.Close), "nil" (s.db = nil)
    push,       \* request -> where its handler is
    page

servers == <<mtls, mtlsStop, web, webStop>>
requests == <<push, page>>
vars == <<main, exit, cancelled, failed, servers, storage, requests>>

HandlerState == {"none", "running", "checked", "tx", "answered", "error", "panic"}

\* Besides the types: a server that serves has a goroutine to shut it down.

TypeOK == /\ main \in {"start", "wait", "closing", "exited"}
          /\ exit \in {"none", "clean", "failure"}
          /\ cancelled \in BOOLEAN /\ failed \in BOOLEAN
          /\ mtls \in {"idle", "setup", "serving", "returned"}
          /\ web \in {"idle", "serving", "returned"}
          /\ mtlsStop \in {"none", "waiting", "draining", "done"}
          /\ webStop \in {"none", "waiting", "draining", "done"}
          /\ storage \in {"open", "closed", "nil"}
          /\ push \in [Push -> HandlerState]
          /\ page \in [Page -> HandlerState]
          /\ exit # "none" <=> main = "exited"
          /\ mtls = "serving" => mtlsStop # "none"
          /\ web = "serving" => webStop # "none"

Init == /\ main = "start" /\ exit = "none"
        /\ cancelled = FALSE /\ failed = FALSE
        /\ mtls = "idle" /\ mtlsStop = "none"
        /\ web = "idle" /\ webStop = "none"
        /\ storage = "open"
        /\ push = [p \in Push |-> "none"]
        /\ page = [p \in Page |-> "none"]

InFlight(r) == r \in {"running", "checked", "tx"}

\* groupCtx is done: its parent was cancelled, or a member returned an error.
GroupDone == cancelled \/ failed

Alive == main # "exited"

-----------------------------------------------------------------------------
(* The main goroutine and the signal goroutine. *)

\* The routers are built and the errgroup started (main.go:71-123) ...
StartGroup ==
    /\ main = "start"
    /\ main' = "wait"
    /\ mtls' = "setup"
    /\ web' = "serving"
    /\ webStop' = "waiting"
    /\ UNCHANGED <<exit, cancelled, failed, mtlsStop, storage, requests>>

\* ... or the templates do not parse: os.Exit(1).
StartFails ==
    /\ main = "start"
    /\ main' = "exited" /\ exit' = "failure"
    /\ UNCHANGED <<cancelled, failed, servers, storage, requests>>

Signal ==
    /\ Alive /\ ~cancelled
    /\ cancelled' = TRUE
    /\ UNCHANGED <<main, exit, failed, servers, storage, requests>>

GroupReturned == mtls = "returned" /\ web = "returned" /\ webStop = "done"

\* group.Wait returns an error: os.Exit(1), which runs no deferred call.
ExitOnError ==
    /\ main = "wait" /\ GroupReturned /\ failed
    /\ main' = "exited" /\ exit' = "failure"
    /\ UNCHANGED <<cancelled, failed, servers, storage, requests>>

\* group.Wait returns nil: main falls through to its deferred calls, of which
\* cancel() runs first.
WaitReturns ==
    /\ main = "wait" /\ GroupReturned /\ ~failed
    /\ main' = "closing"
    /\ cancelled' = TRUE
    /\ UNCHANGED <<exit, failed, servers, storage, requests>>

\* Storage.Close: the pool is closed, then the handle is set to nil.
CloseStorage ==
    /\ main = "closing"
    /\ \/ storage = "open" /\ storage' = "closed"
       \/ storage = "closed" /\ storage' = "nil"
    /\ UNCHANGED <<main, exit, cancelled, failed, servers, requests>>

MainReturns ==
    /\ main = "closing" /\ storage = "nil"
    /\ main' = "exited" /\ exit' = "clean"
    /\ UNCHANGED <<cancelled, failed, servers, storage, requests>>

-----------------------------------------------------------------------------
(* The mTLS server: Server.Run. *)

\* Mutant of RunListens: the goroutine is started after ListenAndServeTLS, which
\* blocks (server.go:95, 105).
RunListensFirst ==
    /\ Alive /\ mtls = "setup"
    /\ mtls' = "serving"
    /\ UNCHANGED <<main, exit, cancelled, failed, mtlsStop, web, webStop, storage, requests>>

\* Certificates and keys are loaded, the shutdown goroutine is started.
RunListens ==
    /\ Alive /\ mtls = "setup"
    /\ mtls' = "serving" /\ mtlsStop' = "waiting"
    /\ UNCHANGED <<main, exit, cancelled, failed, web, webStop, storage, requests>>

\* They do not load, or the listener fails.
RunFails ==
    /\ Alive
    /\ mtls = "setup" \/ (mtls = "serving" /\ mtlsStop = "waiting")
    /\ mtls' = "returned" /\ failed' = TRUE
    /\ UNCHANGED <<main, exit, cancelled, mtlsStop, web, webStop, storage, requests>>

\* srv.Shutdown closes the listener and starts to wait for active requests ...
MtlsShutdown ==
    /\ Alive /\ mtlsStop = "waiting" /\ GroupDone
    /\ mtlsStop' = "draining"
    /\ UNCHANGED <<main, exit, cancelled, failed, mtls, web, webStop, storage, requests>>

\* ... and ListenAndServeTLS returns ErrServerClosed at once, so Run returns.
RunReturns ==
    /\ Alive /\ mtls = "serving" /\ mtlsStop \in {"draining", "done"}
    /\ mtls' = "returned"
    /\ UNCHANGED <<main, exit, cancelled, failed, mtlsStop, web, webStop, storage, requests>>

\* No request is left, or 5 s have passed: the error is only logged.
MtlsDrained ==
    /\ Alive /\ mtlsStop = "draining"
    /\ mtlsStop' = "done"
    /\ UNCHANGED <<main, exit, cancelled, failed, mtls, web, webStop, storage, requests>>

-----------------------------------------------------------------------------
(* The web and API server: two members of the errgroup. *)

WebFails ==
    /\ Alive /\ web = "serving" /\ webStop = "waiting"
    /\ web' = "returned" /\ failed' = TRUE
    /\ UNCHANGED <<main, exit, cancelled, mtls, mtlsStop, webStop, storage, requests>>

\* Mutant of WebShutdown: it waits for the signal, not for the group.
WebShutdownOnSignal ==
    /\ Alive /\ webStop = "waiting" /\ cancelled
    /\ webStop' = "draining"
    /\ UNCHANGED <<main, exit, cancelled, failed, mtls, mtlsStop, web, storage, requests>>

WebShutdown ==
    /\ Alive /\ webStop = "waiting" /\ GroupDone
    /\ webStop' = "draining"
    /\ UNCHANGED <<main, exit, cancelled, failed, mtls, mtlsStop, web, storage, requests>>

WebReturns ==
    /\ Alive /\ web = "serving" /\ webStop \in {"draining", "done"}
    /\ web' = "returned"
    /\ UNCHANGED <<main, exit, cancelled, failed, mtls, mtlsStop, webStop, storage, requests>>

\* Mutant of WebDrained: the goroutine does not wait for Shutdown's result.
WebDrainedEarly ==
    /\ Alive /\ webStop = "draining"
    /\ webStop' = "done"
    /\ UNCHANGED <<main, exit, cancelled, failed, mtls, mtlsStop, web, storage, requests>>

WebDrained ==
    /\ Alive /\ webStop = "draining"
    /\ \A p \in Page : ~InFlight(page[p])
    /\ webStop' = "done"
    /\ UNCHANGED <<main, exit, cancelled, failed, mtls, mtlsStop, web, storage, requests>>

\* 5 s have passed with a request still active: "http shutdown: ..."
WebDrainTimesOut ==
    /\ Alive /\ webStop = "draining"
    /\ \E p \in Page : InFlight(page[p])
    /\ webStop' = "done" /\ failed' = TRUE
    /\ UNCHANGED <<main, exit, cancelled, mtls, mtlsStop, web, storage, requests>>

-----------------------------------------------------------------------------
(* The requests.  Shutdown closes the listener, but a connection accepted  *)
(* before may still deliver one while Shutdown waits for it to be idle.    *)

PushStep(p, from, to) ==
    /\ Alive /\ push[p] = from /\ push' = [push EXCEPT ![p] = to]
    /\ UNCHANGED <<main, exit, cancelled, failed, servers, storage, page>>

PushArrives(p) ==
    /\ mtlsStop \in {"waiting", "draining"}
    /\ PushStep(p, "none", "running")

\* SavePush: "if s.db == nil" (pushes.go:28) ...
PushFindsClosed(p) == storage = "nil" /\ PushStep(p, "running", "error")
PushFindsOpen(p) == storage # "nil" /\ PushStep(p, "running", "checked")

\* ... and, after the marshalling, s.db.BeginTx (pushes.go:44) on the handle
\* as it is by then.  A panic is recovered by net/http: no answer is sent.
PushBegins(p) ==
    \/ storage = "open" /\ PushStep(p, "checked", "tx")
    \/ storage = "closed" /\ PushStep(p, "checked", "error")
    \/ storage = "nil" /\ PushStep(p, "checked", "panic")

PushCommits(p) == PushStep(p, "tx", "answered")

PageStep(p, from, to) ==
    /\ Alive /\ page[p] = from /\ page' = [page EXCEPT ![p] = to]
    /\ UNCHANGED <<main, exit, cancelled, failed, servers, storage, push>>

PageArrives(p) ==
    /\ webStop \in {"waiting", "draining"}
    /\ PageStep(p, "none", "running")

\* A page or API handler runs its queries on the handle: they fail once it is
\* closed.
PageAnswers(p) ==
    PageStep(p, "running", IF storage = "open" THEN "answered" ELSE "error")

-----------------------------------------------------------------------------
MainSteps == StartGroup \/ StartFails \/ ExitOnError \/ WaitReturns
             \/ CloseStorage \/ MainReturns
MtlsSteps == RunListens \/ RunReturns
WebStopSteps == WebShutdown \/ WebDrained \/ WebDrainTimesOut

Next == \/ MainSteps \/ Signal
        \/ MtlsSteps \/ RunFails \/ MtlsShutdown \/ MtlsDrained
        \/ WebFails \/ WebReturns \/ WebStopSteps
        \/ \E p \in Push : \/ PushArrives(p) \/ PushFindsClosed(p)
                           \/ PushFindsOpen(p) \/ PushBegins(p) \/ PushCommits(p)
        \/ \E p \in Page : PageArrives(p) \/ PageAnswers(p)

Spec == Init /\ [][Next]_vars

\* Every goroutine of the process runs; no request is promised to finish, the
\* 5 s of Shutdown run out instead.
FairSpec == /\ Spec
            /\ WF_vars(MainSteps) /\ WF_vars(MtlsSteps) /\ WF_vars(MtlsShutdown)
            /\ WF_vars(WebReturns) /\ WF_vars(WebStopSteps)

-----------------------------------------------------------------------------
(* Properties *)

(***************************************************************************)
(* The web side of the shutdown is graceful: no page or API request finds  *)
(* the storage closed under it, and an exit with code 0 leaves none of     *)
(* them unanswered and the storage closed (main.go:53-57, 115-128).        *)
(***************************************************************************)
PagesServedToTheEnd ==
    /\ \A p \in Page : page[p] # "error"
    /\ exit = "clean" => /\ storage = "nil"
                   /\ \A p \in Page : ~InFlight(page[p])

(***************************************************************************)
(* "fail coordonné" (REFONTE.md:222): a signal, or the failure of either   *)
(* server, ends the whole process, whatever the requests in flight do.     *)
(***************************************************************************)
StopsTogether == GroupDone ~> exit # "none"

(***************************************************************************)
(* server.go:91-94 explains its context by the "graceful shutdown window": *)
(* a clean exit would leave no push in flight.                             *)
(***************************************************************************)
PushesDrained == exit = "clean" => \A p \in Push : ~InFlight(push[p])
=============================================================================
