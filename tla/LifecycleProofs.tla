--------------------------- MODULE LifecycleProofs --------------------------
(***************************************************************************)
(* The web side of the shutdown is graceful, for any number of requests.   *)
(***************************************************************************)
EXTENDS Lifecycle, TLAPS

LEMMA TypeInit == Init => TypeOK
BY DEF Init, TypeOK, HandlerState

LEMMA MainType ==
  ASSUME TypeOK, MainSteps \/ Signal
  PROVE  TypeOK'
BY DEF MainSteps, Signal, StartGroup, StartFails, ExitOnError, WaitReturns, CloseStorage,
       MainReturns, TypeOK, servers, requests

LEMMA MtlsType ==
  ASSUME TypeOK, MtlsSteps \/ RunFails \/ MtlsShutdown \/ MtlsDrained
  PROVE  TypeOK'
BY DEF MtlsSteps, RunListens, RunReturns, RunFails, MtlsShutdown, MtlsDrained, TypeOK,
       requests

LEMMA WebType ==
  ASSUME TypeOK, WebFails \/ WebReturns \/ WebStopSteps
  PROVE  TypeOK'
BY DEF WebFails, WebReturns, WebStopSteps, WebShutdown, WebDrained, WebDrainTimesOut,
       TypeOK, requests

LEMMA PushType ==
  ASSUME TypeOK, NEW p \in Push, NEW from, NEW to \in HandlerState, PushStep(p, from, to)
  PROVE  TypeOK'
BY DEF PushStep, TypeOK, servers

LEMMA PageType ==
  ASSUME TypeOK, NEW p \in Page, NEW from, NEW to \in HandlerState, PageStep(p, from, to)
  PROVE  TypeOK'
BY DEF PageStep, TypeOK, servers

LEMMA TypeStep == TypeOK /\ [Next]_vars => TypeOK'
<1> SUFFICES ASSUME TypeOK, [Next]_vars PROVE TypeOK'
  OBVIOUS
<1>1. ASSUME NEW p \in Push,
             \/ PushArrives(p) \/ PushFindsClosed(p) \/ PushFindsOpen(p)
             \/ PushBegins(p) \/ PushCommits(p)
      PROVE  TypeOK'
  BY <1>1, PushType DEF PushArrives, PushFindsClosed, PushFindsOpen, PushBegins,
                        PushCommits, HandlerState
<1>2. ASSUME NEW p \in Page, PageArrives(p) \/ PageAnswers(p) PROVE TypeOK'
  BY <1>2, PageType DEF PageArrives, PageAnswers, HandlerState
<1>3. CASE UNCHANGED vars
  BY <1>3 DEF vars, servers, requests, TypeOK
<1> QED BY <1>1, <1>2, <1>3, MainType, MtlsType, WebType DEF Next

\* Every goroutine of the process keeps to its states (main.go, server.go:62-131).
THEOREM TypeCorrect == Spec => []TypeOK
BY TypeInit, TypeStep, PTL DEF Spec

-----------------------------------------------------------------------------
(* Why the storage is closed under no page: main closes it only when Wait  *)
(* has returned nil; then the shutdown goroutine of the web server is done *)
(* and returned nil too, so it saw no request in flight; and none has been *)
(* accepted since the listener closed.                                     *)

ClosedLast == storage # "open" => main \in {"closing", "exited"}

NilAfterGroup == main = "closing" => GroupReturned /\ ~failed

DrainedWhenDone == webStop = "done" /\ ~failed => \A p \in Page : ~InFlight(page[p])

CleanExit == exit = "clean" => main = "exited" /\ storage = "nil" /\ webStop = "done" /\ ~failed

NoPageFails == \A p \in Page : page[p] # "error"

ShutdownInv == ClosedLast /\ NilAfterGroup /\ DrainedWhenDone /\ CleanExit /\ NoPageFails

LEMMA MainKeeps ==
  ASSUME TypeOK, ShutdownInv, MainSteps \/ Signal
  PROVE  ShutdownInv'
BY DEF TypeOK, ShutdownInv, ClosedLast, NilAfterGroup, DrainedWhenDone, CleanExit,
       NoPageFails, GroupReturned, Alive, MainSteps, Signal, StartGroup, StartFails,
       ExitOnError, WaitReturns, CloseStorage, MainReturns, servers, requests

LEMMA MtlsKeeps ==
  ASSUME TypeOK, ShutdownInv, MtlsSteps \/ RunFails \/ MtlsShutdown \/ MtlsDrained
  PROVE  ShutdownInv'
BY DEF TypeOK, ShutdownInv, ClosedLast, NilAfterGroup, DrainedWhenDone, CleanExit,
       NoPageFails, GroupReturned, Alive, MtlsSteps, RunListens, RunReturns, RunFails,
       MtlsShutdown, MtlsDrained, requests

LEMMA WebKeeps ==
  ASSUME TypeOK, ShutdownInv, WebFails \/ WebReturns \/ WebStopSteps
  PROVE  ShutdownInv'
BY DEF TypeOK, ShutdownInv, ClosedLast, NilAfterGroup, DrainedWhenDone, CleanExit,
       NoPageFails, GroupReturned, Alive, WebFails, WebReturns, WebStopSteps, WebShutdown,
       WebDrained, WebDrainTimesOut, requests

LEMMA PagesKeep ==
  ASSUME TypeOK, ShutdownInv, NEW p \in Page, PageArrives(p) \/ PageAnswers(p)
  PROVE  ShutdownInv'
<1>1. UNCHANGED <<main, exit, cancelled, failed, mtls, mtlsStop, web, webStop, storage>>
  BY DEF PageArrives, PageAnswers, PageStep, servers
<1>2. CASE PageArrives(p)
  <2>1. webStop # "done" /\ page' = [page EXCEPT ![p] = "running"]
    BY <1>2 DEF PageArrives, PageStep
  <2> QED BY <1>1, <2>1 DEF TypeOK, ShutdownInv, ClosedLast, NilAfterGroup, GroupReturned,
                            DrainedWhenDone, CleanExit, NoPageFails
<1>3. CASE PageAnswers(p)
  <2>1. main # "exited" /\ page[p] = "running"
    BY <1>3 DEF PageAnswers, PageStep, Alive
  <2>2. storage = "open"
    <3>1. SUFFICES ASSUME storage # "open" PROVE FALSE
      OBVIOUS
    <3>2. webStop = "done" /\ ~failed
      BY <2>1, <3>1 DEF ShutdownInv, ClosedLast, NilAfterGroup, GroupReturned
    <3> QED BY <2>1, <3>2 DEF ShutdownInv, DrainedWhenDone, InFlight
  <2>3. page' = [page EXCEPT ![p] = "answered"]
    BY <1>3, <2>2 DEF PageAnswers, PageStep
  <2> QED BY <1>1, <2>3 DEF TypeOK, ShutdownInv, ClosedLast, NilAfterGroup, GroupReturned,
                            DrainedWhenDone, CleanExit, NoPageFails, InFlight
<1> QED BY <1>2, <1>3

LEMMA ShutdownStep == TypeOK /\ ShutdownInv /\ [Next]_vars => ShutdownInv'
<1> SUFFICES ASSUME TypeOK, ShutdownInv, [Next]_vars PROVE ShutdownInv'
  OBVIOUS
<1>1. CASE UNCHANGED <<main, exit, failed, servers, storage, page>>
  BY <1>1 DEF servers, ShutdownInv, ClosedLast, NilAfterGroup, GroupReturned,
              DrainedWhenDone, CleanExit, NoPageFails
<1>2. ASSUME NEW p \in Push,
             \/ PushArrives(p) \/ PushFindsClosed(p) \/ PushFindsOpen(p)
             \/ PushBegins(p) \/ PushCommits(p)
      PROVE  UNCHANGED <<main, exit, failed, servers, storage, page>>
  BY <1>2 DEF PushArrives, PushFindsClosed, PushFindsOpen, PushBegins, PushCommits, PushStep
<1> QED BY <1>1, <1>2, MainKeeps, MtlsKeeps, WebKeeps, PagesKeep DEF Next, vars, requests

\* No page or API request finds the storage closed, and a clean exit leaves none
\* unanswered (main.go:53-57, 115-128).
THEOREM PagesServed == Spec => []PagesServedToTheEnd
<1>1. Init => ShutdownInv
  BY DEF Init, ShutdownInv, ClosedLast, NilAfterGroup, DrainedWhenDone, CleanExit,
         NoPageFails
<1>2. ShutdownInv => PagesServedToTheEnd
  BY DEF ShutdownInv, NoPageFails, CleanExit, DrainedWhenDone, PagesServedToTheEnd
<1> QED BY TypeInit, TypeStep, <1>1, <1>2, ShutdownStep, PTL DEF Spec
=============================================================================
