CONSTANTS
    PoolWords = 7
    MaxLen = 3
SPECIFICATION Spec
INVARIANTS TypeOK BlocksIntact
PROPERTIES NullOnlyWhenFull FreeIsExact UsedIsExact
