---------------------------- MODULE MCLendingClaims ----------------------------
(***************************************************************************)
(* LendingClaims for TLC: two copies of one book, two patrons, and days a  *)
(* lending period and two days apart.                                      *)
(***************************************************************************)
EXTENDS LendingClaims

CONSTANT MaxFine

MCClassifications == {"trial"}

MCTypeOf == [c \in MCClassifications |-> "book"]

MCDays == {0, 23}

Plain(c, n) == [colon |-> TRUE, cls |-> c, num |-> n, exact |-> TRUE]

MCTexts == {Plain("trial", 1), Plain("trial", 2)}

Bounds == \A j \in DOMAIN patrons : patrons[j].fine <= MaxFine

==============================================================================
