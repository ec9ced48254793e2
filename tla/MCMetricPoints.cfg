\* Three pushes, any of whose times may be ahead by the skew or behind by skew and delay.
CONSTANTS
    load1 = load1
    load5 = load5
    Metric = {load1, load5}
    Carries <- MCCarries
    Query <- MCQuery
    Absent = Absent
    Malformed = Malformed
    Default = 4
    Half = 16
    Milli = 2
    MaxPoints = 2
    Skew = 1
    Delay = 1
    Drift <- MCDrift
    MaxNow = 5
    MaxPushes = 3
SPECIFICATION Spec
INVARIANTS
    TypeOK
    WindowHonoured
    WindowsJoin
    KeptBackBySkewOnly
    ChartIsFaithful
    NewestOfMillisecond
