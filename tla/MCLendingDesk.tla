----------------------------- MODULE MCLendingDesk -----------------------------
(***************************************************************************)
(* LendingDesk for TLC: two copies of a book and one of a movie, two       *)
(* branches and one that has the id of CHECKED_OUT, two cards, one of them *)
(* the default one, and the days on which a book is lent, due and late.    *)
(***************************************************************************)
EXTENDS LendingDesk, TLC

CONSTANT MaxFine

MCClassifications == {"trial", "se7en"}

MCTypeOf == [c \in MCClassifications |->
               IF c = "trial" THEN "book" ELSE "movie"]

MCDays == {0, 21, 22}

Plain(c, n) == [colon |-> TRUE, cls |-> c, num |-> n, exact |-> TRUE]

MCTexts == {Plain("trial", 1), Plain("trial", 65538), Plain("trial", 2),
            Plain("se7en", 1)}

Symmetry == Permutations(DeskBranches)

Bounds == \A j \in DOMAIN patrons : patrons[j].fine <= MaxFine

==============================================================================
