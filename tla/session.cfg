SPECIFICATION Spec
CONSTANTS
    Message = {m1, m2, m3}
    Backend = "supabase"
    Form = {"prefixed"}
    Targets <- Status
    MaxRivals = 1
    Serial = FALSE
    MaxAttempts = 4
SYMMETRY Symmetry
\* every message is handled once: when all have been, nothing is left to do
CHECK_DEADLOCK FALSE
INVARIANTS
    TypeOK
    GivenUpOnlyToAgents
PROPERTIES
    LinksToEnded
