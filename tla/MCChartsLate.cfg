\* An answer that overtakes the answers of a later round.
CONSTANTS
    load = load
    memory = memory
    m1 = m1
    m2 = m2
    m3 = m3
    hour = hour
    day = day
    week = week
    Chart = {load, memory}
    Metric = {m1, m2, m3}
    MetricsOf <- MCMetricsOf
    Range = {hour, day, week}
    Hours <- MCHours
    Default = day
    PerHour = 120
    MaxPoints = 10000
    Ages = {0, 24, 83, 84, 168}
    MaxRounds = 2
SPECIFICATION Spec
INVARIANT ShowsSelection
