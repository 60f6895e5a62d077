SPECIFICATION PersistSpec
CONSTANTS
    Firmware <- MCFirmware
    Schema <- MCSchema
    Length <- MCLength
    Pages <- MCPages
    Default <- MCDefault
    MaxLength = 2
    Word = {0, 1}
    NoRecord = NoRecord
    MaxFaults = 1
INVARIANTS
    PersistInv
    SavedIsKept
PROPERTIES
    RegionsAreStores
