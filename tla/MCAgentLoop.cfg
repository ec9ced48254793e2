\* One unit is five seconds: a push every 30 s, 10 s for a push.
\* The process exits: deadlock is not an error.
CONSTANTS
    heartbeat = heartbeat
    system = system
    Modules <- MCModules
    Installs <- MCInstalls
    Remote = {system}
    Interval = 6
    Timeout = 2
    Latency = 1
    Threshold = 7
SPECIFICATION FairSpec
INVARIANTS
    TypeOK
    HealthyShownOnline
    RecoveredModulePushed
PROPERTIES
    FreeAtTick
    KeepsTrying
CHECK_DEADLOCK FALSE
