----------------------------- MODULE MCScannerClaims -----------------------------
(***************************************************************************)
(* ScannerClaims for TLC: one desk, one branch, one card, and a copy of    *)
(* "PZ3.K11 Tr2" (The Trial) and of "ML420.C265 A3 1997", both listed.     *)
(***************************************************************************)
EXTENDS ScannerClaims

CONSTANTS b1, p1, trial1

MCClassifications == {"PZ3.K11 Tr2", "ML420.C265 A3 1997"}

MCTypeOf == [c \in MCClassifications |-> "book"]

Plain(c) == [colon |-> TRUE, cls |-> c, num |-> 1, exact |-> TRUE]

NoBar == [Plain("PZ3.K11 Tr2") EXCEPT !.colon = FALSE, !.exact = FALSE]

MCTexts == {Plain(c) : c \in MCClassifications} \cup {NoBar}

Card(x, l) == [id |-> x, letter |-> l, bar |-> NoBar]

MCCodes == {Card(b1, "B"), Card(p1, "P"), Card(InventoryCard, "other"),
            [id |-> trial1, letter |-> "P", bar |-> Plain("PZ3.K11 Tr2")],
            [id |-> NoId, letter |-> "other", bar |-> Plain("ML420.C265 A3 1997")]}

MCBranchIds == {b1, NoId}

MCCards == {p1, trial1, DefaultCard}

Bounds == Len(catalog) <= 2 /\ Len(patrons) <= 1 /\ storedTimes = <<>>

==============================================================================
