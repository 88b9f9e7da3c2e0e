SPECIFICATION CashierSpec

CONSTANTS
    Classifications <- MCClassifications
    TypeOf <- MCTypeOf
    BranchIds = {b1, out}
    CheckedOut = out
    Cards = {p1, p2}
    DefaultCard = p0
    NoDate = NoDate
    Days <- MCDays
    Texts <- MCTexts
    Clerks = {k1, k2}
    Amounts <- MCAmounts
    Nobody = Nobody
    MaxFine = 10
    MaxRemitted = 10

CONSTRAINT Bounds

SYMMETRY Symmetry

INVARIANT Custody

PROPERTY KeepsAccounts
