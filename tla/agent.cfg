SPECIFICATION Spec
CONSTANTS
    Turn = {t1, t2}
    t1 = t1
    t2 = t2
    t3 = t3
    p1 = p1
    p2 = p2
    Proc <- Procs
    Earlier = {"past"}
    Past <- Pasts
    MaxSteps <- Steps
    Feature = {"finance", "identity"}
    Limit = 5
    MaxMessages = 5
    MaxFaults = 1
INVARIANTS
    TypeOK
    ToolsBounded
    SaidIsAnswered
    RememberedWasSent
    RemembersLast
PROPERTIES
    TurnEnds

CHECK_DEADLOCK FALSE
