SPECIFICATION DeskSpec

CONSTANTS
    Classifications <- MCClassifications
    TypeOf <- MCTypeOf
    BranchIds = {b1, out}
    CheckedOut = out
    Cards = {p1, p2}
    DefaultCard = p0
    NoDate = NoDate
    Days <- MCDays
    Texts <- MCTexts
    MaxFine = 10

CONSTRAINT Bounds

PROPERTY ChargedPerDay
