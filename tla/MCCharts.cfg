\* Clicks, resizes, failures and answers in any order, before and after the week is refused.
CONSTANTS
    load = load
    memory = memory
    m1 = m1
    m2 = m2
    m3 = m3
    hour = hour
    day = day
    week = week
    Chart = {load}
    Metric = {m1, m2, m3}
    MetricsOf <- MCMetricsOf
    Range = {hour, day, week}
    Hours <- MCHours
    Default = day
    PerHour = 120
    MaxPoints = 10000
    Ages = {0, 84}
    MaxRounds = 3
SPECIFICATION FairSpec
INVARIANTS
    TypeOK
    OneInstance
    LastRoundRules
PROPERTY LoadingEnds
