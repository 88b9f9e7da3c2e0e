SPECIFICATION Spec

CONSTANTS
    Classifications <- MCClassifications
    TypeOf <- MCTypeOf
    BranchIds = {b1, out}
    CheckedOut = out
    Cards = {p0, p1}
    DefaultCard = p0
    NoDate = NoDate
    Days <- MCDays
    Texts <- MCTexts
    MaxEntries = 2
    MaxPatrons = 2
    MaxMarks = 2
    MaxFine = 10

CONSTRAINT Bounds

CHECK_DEADLOCK FALSE

INVARIANTS
    TypeOK
    ShadowsInert
    ShadowPatronsInert
    LoansDated

PROPERTIES
    OutUndatedByName
    LoanEndsInReturn
    LoanStartsInCatalog
    FinedForTitleHeld
    ThrowFootprint
    ReportStaysBroken
