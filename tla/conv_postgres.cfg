SPECIFICATION Spec
CONSTANTS
    Caller = {c1, c2}
    Backend = "postgres"
    Calls <- AuditedCalls
    InitStatus <- OpenStatuses
    Faults = TRUE
\* every caller makes one call: when all have returned, nothing is left to do
CHECK_DEADLOCK FALSE
INVARIANTS
    TypeOK
    StatusFresh
PROPERTIES
    FreshWritesObey
    ImplementsAuditTrail
