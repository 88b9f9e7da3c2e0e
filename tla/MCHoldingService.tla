---------------------------- MODULE MCHoldingService ----------------------------
(***************************************************************************)
(* HoldingService for TLC: one title with two copies and one title that    *)
(* nobody listed, a branch of the clients' and one that has the id of      *)
(* CHECKED_OUT, a card beside the default one, and two days more than a    *)
(* lending period apart.                                                   *)
(***************************************************************************)
EXTENDS InventoryReport, FiniteSets

CONSTANTS MaxEntries, MaxPatrons, MaxMarks, MaxFine

MCClassifications == {"trial", "xxx"}

MCTypeOf == [c \in MCClassifications |->
               IF c = "trial" THEN "book" ELSE "unlisted"]

MCDays == {0, 22}

Plain(c, n) == [colon |-> TRUE, cls |-> c, num |-> n, exact |-> TRUE]

\* "trial:1", "trial:2", "xxx:1", then texts that are read as copy 1 of "trial"
\* but are not its bar code ("trial:65537"), and a text without a colon
MCTexts == {Plain("trial", 1), Plain("trial", 2), Plain("xxx", 1),
            Plain("trial", 65537),
            [colon |-> FALSE, cls |-> "trial", num |-> 0, exact |-> FALSE]}

Loans == UNION {{j} \X patrons[j].held : j \in DOMAIN patrons}

Fined == {j \in DOMAIN patrons : patrons[j].fine > 0}

\* copies out since no day
Strays == {i \in DOMAIN catalog : /\ FirstCopy(i, catalog[i].copy)
                                  /\ ~IsAvailable(catalog[i])
                                  /\ catalog[i].lastOut = NoDate}

\* A call that refused its bar code has changed nothing (ThrowFootprint) and no call
\* asks how the last one ended: what may follow it follows the state before it too.
Followed == outcome \in {"ok", "ClassificationNotFound"}

Bounds ==
    /\ Followed
    /\ Len(catalog) <= MaxEntries
    /\ Len(patrons) <= MaxPatrons
    /\ Cardinality(Loans) + Cardinality(Fined) + Cardinality(Strays) <= MaxMarks
    /\ \A j \in DOMAIN patrons : patrons[j].fine <= MaxFine

==============================================================================
