\* Two agents on one connection, failures and restarts between any two statements.
CONSTANTS
    vps = vps
    nas = nas
    k1 = k1
    k2 = k2
    ahead = ahead
    cn = cn
    key = key
    unknown = unknown
    large = large
    old = old
    clock = clock
    Agent = {ahead, unknown}
    Config <- TwoConfig
    KeyDir <- TwoKeys
    Machine = {vps, nas}
    Key = {k1, k2}
    Handler = {h1, h2}
    Nonce = {n1, n2}
    NMetric = 1
    MaxNow = 1
    Stall = 1
    TTL = 5
    Skew = 1
    NoHandler = NoHandler
    NoPush = NoPush
SPECIFICATION FairSpec
INVARIANT TablesAgree
PROPERTIES
    ImplementsPushLog
    EveryRequestAnswered
