SPECIFICATION Spec
CONSTANTS
    Caller = {c1, c2, c3, c4}
    Calls <- AllCalls
    Backends = {"postgres", "supabase"}
    Seeds <- AllSeeds
    None = None
\* every caller makes one call: when all have returned, nothing is left to do
CHECK_DEADLOCK FALSE
INVARIANTS
    TypeOK
    PhoneSharedByRace
    OnlyNamesakesTakeOver
