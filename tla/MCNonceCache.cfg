\* Handlers and evictor around the nonce cache.
CONSTANTS
    Nonce = {n1, n2}
    Caller = {c1, c2}
    TTL = 4
    Stall = 1
    Period = 2
    MaxNow = 11
SYMMETRY Symmetry
SPECIFICATION Spec
INVARIANTS
    TypeOK
    ResidencyBounded
PROPERTY KeepsReplayWindow
