SPECIFICATION FairSpec
CONSTANTS
    Task = {t1, t2}
    Worker = {w1, w2}
    NoTask = NoTask
    MaxStops = 2
    Faults = TRUE
\* when every task is settled or left behind, nothing is left to do
CHECK_DEADLOCK FALSE
INVARIANTS
    TypeOK
    RunsCounted
PROPERTIES
    ImplementsTaskQueue
    SettledOrOrphaned
