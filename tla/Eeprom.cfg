CONSTANTS
    VarNum = 2
    SectorNum = 2
    CycleSector = 2
    Data = {0, 5}
    Erased = 5
    Faults = {"powerFail", "error"}
    Reinits = TRUE
SPECIFICATION FairSpec
INVARIANTS TypeOK ReadsAreDurable NeverFails CrcIsRemainder
PROPERTIES ImplementsStore GetsReady
