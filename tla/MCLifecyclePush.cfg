\* A signal while a push is being served.
CONSTANTS
    Push = {p1, p2}
    Page = {w1, w2}
SPECIFICATION Spec
INVARIANT PushesDrained
CHECK_DEADLOCK FALSE
