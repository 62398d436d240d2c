SPECIFICATION Spec
CONSTANTS
    Backends = {"supabase", "postgres"}
    Amounts = {0, 3, 1123}
    Rates = {19}
    Words = {"rent"}
    Wheres <- AllAsked
    MaxRows = 2
INVARIANTS
    ToldWithinACent
    
