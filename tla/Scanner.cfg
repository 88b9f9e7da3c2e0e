SPECIFICATION FloorSpec

CONSTANTS
    Classifications <- MCClassifications
    TypeOf <- MCTypeOf
    BranchIds <- MCBranchIds
    CheckedOut = out
    Cards <- MCCards
    DefaultCard = p0
    NoDate = NoDate
    Days <- MCDays
    Texts <- MCTexts
    Scanners = {s1, s2}
    Codes <- MCCodes
    InventoryCard = i999999
    NoId = none
    b1 = b1
    p1 = p1
    MaxEntries = 2
    MaxPatrons = 2
    MaxStored = 1
    MaxAll = 3
    MaxFine = 10

CONSTRAINT Bounds

SYMMETRY Symmetry

CHECK_DEADLOCK FALSE

INVARIANTS
    FloorTypeOK
    OutSinceADay

PROPERTIES
    LendsFromShelf
    LentInSession
    ShelvedAtDesk
    SessionKept
