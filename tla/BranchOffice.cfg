SPECIFICATION OfficeSpec

CONSTANTS
    Names = {north, east, west}
    GivenIds <- MCGivenIds
    MaxBranches = 4
    other = other

CONSTRAINT Bounds

SYMMETRY Symmetry

INVARIANTS
    TypeOK
    GeneratesUniqueId
    NumbersWithinSize

PROPERTY KeepsDirectory
