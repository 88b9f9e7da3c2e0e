SPECIFICATION Spec

CONSTANTS
    Names = {north, east, west}
    GivenIds <- MCGivenIds
    other = other

CONSTRAINT Bounds

INVARIANT GeneratesUniqueId
