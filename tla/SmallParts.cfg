SPECIFICATION PartsSpec

CONSTANTS
    Shelves <- MCShelves
    Saves = 3
    Versions <- MCVersions
    Movies = {bambi, shane}
    PriceCodes <- MCPriceCodes
    DaysRented <- MCDaysRented
    MaxRentals = 3

INVARIANTS
    FilesTypeOK
    LoadsWhatWasWritten
    OneVersion
    StatementStands

PROPERTY LoadEnds
