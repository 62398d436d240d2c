SPECIFICATION Spec
CONSTANTS
    Conv = {c1, c2, c3}
    Worker = {w1}
    NoConv = NoConv
    Limit = 2
    Targets <- Moves
    MaxRivals = 1
    MaxQueued = 1
    MaxFaults = 1
INVARIANTS
    TypeOK
PROPERTIES
    OverdueIsSwept
