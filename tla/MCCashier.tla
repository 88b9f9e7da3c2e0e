------------------------------- MODULE MCCashier -------------------------------
(***************************************************************************)
(* Cashier for TLC: two clerks and a desk, two patrons, a copy of a book,  *)
(* and days on which its return is late or not.                            *)
(***************************************************************************)
EXTENDS Cashier, TLC

CONSTANTS MaxFine, MaxRemitted

MCClassifications == {"trial"}

MCTypeOf == [c \in MCClassifications |-> "book"]

MCDays == {0, 22}

Plain(c, n) == [colon |-> TRUE, cls |-> c, num |-> n, exact |-> TRUE]

MCTexts == {Plain("trial", 1)}

MCAmounts == {10}

Symmetry == Permutations(Clerks)

Bounds ==
    /\ \A j \in DOMAIN patrons : patrons[j].fine \in -MaxFine..MaxFine
    /\ \A k \in Clerks : remitted[k] <= MaxRemitted

==============================================================================
