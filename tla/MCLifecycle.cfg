\* Signals and failures at any time, two requests on each server.
\* The process stops: deadlock is not an error.
CONSTANTS
    Push = {p1, p2}
    Page = {w1, w2}
SPECIFICATION FairSpec
INVARIANTS
    TypeOK
    PagesServedToTheEnd
PROPERTY StopsTogether
CHECK_DEADLOCK FALSE
