\* Two handlers save at most two pushes around each request.
CONSTANTS
    up = up
    total = total
    avail = avail
    heartbeat = heartbeat
    system = system
    memory = memory
    Handler = {h1, h2}
    Machine = {1, 2}
    Name = {up, total, avail}
    ModuleOf <- MCModuleOf
    Carries <- MCCarries
    Card = {memory}
    Needs <- MCNeeds
    Skew = 1
    Stall = 1
    Delay = 1
    Offsets <- MCOffsets
    Threshold = 2
    MaxNow = 4
    MaxPushes = 2
    NoPush = NoPush
SYMMETRY Symmetry
SPECIFICATION Spec
INVARIANTS
    TypeOK
    BoundedStaleness
    PartsAgree
    OnePushPerCard
    AgeHonest
    LinksHold
PROPERTY NeverGoesBack
