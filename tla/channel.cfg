SPECIFICATION Spec
CONSTANTS
    Sid = {s1}
    Kinds = {"text", "audio", "goodbye", "local"}
    Worker = {w1, w2}
    MaxRuns = 2
    Parts = 2
    Targets <- Moves
    MaxMoves = 1
    MaxFaults = 1
\* when every task is settled, nothing is left to do
CHECK_DEADLOCK FALSE
INVARIANTS
    TypeOK
    CopiesNeedFaults
    AnsweredForTheRow
    SentIsDelivered
PROPERTIES
    StoredIsAnswered
