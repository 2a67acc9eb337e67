CONSTANTS
    VarNum = 2
    SectorNum = 1
    CycleSector = 1
    Data = {1, 2}
    Erased = 5
    Faults = {"powerFail", "error"}
    Reinits = FALSE
SPECIFICATION Spec
PROPERTIES AckIsDurable
