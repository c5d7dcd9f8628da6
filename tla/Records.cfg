SPECIFICATION Spec
CONSTANTS
    a1 = a1
    a2 = a2
SYMMETRY Symmetric
INVARIANTS StoredIsSound EntitlementIsOfThisSession 
PROPERTIES GenerationFallsOnlyInARace LoginIsItsOwn  BindIsExclusive
CHECK_DEADLOCK FALSE
