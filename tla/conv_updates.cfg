SPECIFICATION Spec
CONSTANTS
    Caller = {c1, c2, c3}
    Backend = "supabase"
    Calls <- VersionedCalls
    InitStatus <- OpenStatuses
    Faults = TRUE
SYMMETRY Symmetry
\* every caller makes one call: when all have returned, nothing is left to do
CHECK_DEADLOCK FALSE
INVARIANTS
    NoTransferLost
    GoodbyeHeard
