SPECIFICATION Spec
CONSTANTS
    Caller <- Callers
    Mixes <- AllMixes
    Backends = {"postgres", "supabase"}
    Plan <- Plans
    Script <- Scripted
    Offered = {{}, {"pro"}}
    MaxAmount = 1
    MaxUses = 1
    MaxFaults = 1
\* every caller makes one call: when all have returned, nothing is left to do
CHECK_DEADLOCK FALSE
INVARIANTS
    TypeOK
    OverrunBounded
    SeedGivesFeatures
PROPERTIES
    CheckoutSettles
