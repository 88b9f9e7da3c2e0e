SPECIFICATION FloorSpec

CONSTANTS
    Classifications <- MCClassifications
    TypeOf <- MCTypeOf
    BranchIds <- MCBranchIds
    CheckedOut = out
    Cards <- MCCards
    DefaultCard = p0
    NoDate = NoDate
    Days = {0, 22}
    Texts <- MCTexts
    Scanners = {s1}
    Codes <- MCCodes
    InventoryCard = i999999
    NoId = none
    b1 = b1
    p1 = p1
    trial1 = trial1

CONSTRAINT Bounds

CHECK_DEADLOCK FALSE

INVARIANT HoldingsAreNoPatrons
