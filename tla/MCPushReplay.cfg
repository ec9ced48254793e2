\* One push of a good or of a bad agent, delivered for longer than the TTL.
CONSTANTS
    vps = vps
    nas = nas
    k1 = k1
    k2 = k2
    ahead = ahead
    cn = cn
    key = key
    unknown = unknown
    large = large
    old = old
    clock = clock
    Agent = {ahead, cn, key, unknown, large, old, clock}
    Config <- MixedConfig
    KeyDir <- OneKey
    Machine = {vps, nas}
    Key = {k1, k2}
    Handler = {h1, h2, h3}
    Nonce = {n1}
    NMetric = 1
    MaxNow = 7
    Stall = 1
    TTL = 5
    Skew = 1
    NoHandler = NoHandler
    NoPush = NoPush
SYMMETRY Symmetry
SPECIFICATION Spec
INVARIANTS
    TypeOK
    OnlyVouched
PROPERTY NoSecondPass
