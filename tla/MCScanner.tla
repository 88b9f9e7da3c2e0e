-------------------------------- MODULE MCScanner --------------------------------
(***************************************************************************)
(* Scanner for TLC: two desks, one branch card (a scanner may also be left *)
(* with no branch), a patron's card and the default one, two copies of a   *)
(* listed title, a bar code that is read as copy 1 but is not its text,    *)
(* and two days a lending period apart.                                    *)
(***************************************************************************)
EXTENDS Scanner, TLC

CONSTANTS b1, p1, MaxEntries, MaxPatrons, MaxStored, MaxAll, MaxFine

MCClassifications == {"trial"}

MCTypeOf == [c \in MCClassifications |-> "book"]

MCDays == {0, 22}

NoBar == [colon |-> FALSE, cls |-> "trial", num |-> 0, exact |-> FALSE]

Plain(c, n) == [colon |-> TRUE, cls |-> c, num |-> n, exact |-> TRUE]

MCTexts == {Plain("trial", 1), Plain("trial", 2), Plain("trial", 65537), NoBar}

Card(x, l) == [id |-> x, letter |-> l, bar |-> NoBar]

MCCodes == {Card(b1, "B"), Card(p1, "P"), Card(DefaultCard, "P"),
            Card(InventoryCard, "other"), Card(NoId, "other")}
            \cup {[id |-> NoId, letter |-> "other", bar |-> t] :
                    t \in MCTexts \ {NoBar}}

Symmetry == Permutations(Scanners)

MCBranchIds == {b1, NoId, CheckedOut}

MCCards == {p1, DefaultCard}

Bounds ==
    /\ Len(catalog) <= MaxEntries
    /\ Len(patrons) <= MaxPatrons
    /\ Len(storedTimes) <= MaxStored
    /\ Len(catalog) + Len(patrons) + Len(storedTimes) <= MaxAll
    /\ \A j \in DOMAIN patrons : patrons[j].fine <= MaxFine

==============================================================================
