CONSTANTS
    Size = 4
    Wrap = 8
    Bytes = {0, 1}
    Roles <- OneSideEach
    MaxLen = 3
    ClearAlone = TRUE
SPECIFICATION Spec
INVARIANTS Inv
PROPERTIES ImplementsQueue SizeIsReal
