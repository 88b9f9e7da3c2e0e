SPECIFICATION DeskSpec

CONSTANTS
    Classifications <- MCClassifications
    TypeOf <- MCTypeOf
    BranchIds = {b1, b2, out}
    CheckedOut = out
    Cards = {p0, p1}
    DefaultCard = p0
    NoDate = NoDate
    Days <- MCDays
    Texts <- MCTexts
    MaxFine = 10

CONSTRAINT Bounds

SYMMETRY Symmetry

INVARIANTS
    NoFailure
    Custody

PROPERTY KeepsPromises
