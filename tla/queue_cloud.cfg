SPECIFICATION Spec
CONSTANTS
    Task = {t1, t2}
    Worker = {w1, w2}
    NoOne = NoOne
    MaxStops = 1
    MaxLate = 2
    MaxFaults = 1
\* when every task is finished or failed, nothing is left to do
CHECK_DEADLOCK FALSE
INVARIANTS
    TypeOK
    NothingLost
PROPERTIES
    ImplementsAtLeastOnce
    DoneIsFinal
    SettledOrPoison
