------------------------------ MODULE LendingDesk ------------------------------
(***************************************************************************)
(* HoldingService as a careful desk uses it: what clients must do for the  *)
(* service to keep the promises of Lending.  The desk                      *)
(*   - registers a card once, and acquires a copy once, of a listed title; *)
(*   - moves and lends only copies that are on a shelf;                    *)
(*   - lends only to a registered card, and no second copy of a title      *)
(*     while one is out, because checkIn looks for the borrower by title;  *)
(*   - takes back only copies that are out;                                *)
(*   - never names a branch that has the id of Branch::CHECKED_OUT, which  *)
(*     BranchService gives a branch of its own accord (the 99th added);    *)
(*   - never empties a store;                                              *)
(*   - lends and takes back on the day its calendar shows.                 *)
(* Each action is the call of HoldingService under those conditions.       *)
(***************************************************************************)
EXTENDS HoldingService

VARIABLE today      \* the day the desk passes to the calls that take one

deskVars == <<vars, today>>

DeskInit == Init /\ today \in Days

DeskCopies == {ParseBarcode(t) : t \in {u \in Texts : u.colon}}

DeskBranches == BranchIds \ {CheckedOut}

ShelvedAs(i, t) == FoundByBarCode(i, t) /\ IsAvailable(catalog[i])

LentAs(i, t) == FoundByBarCode(i, t) /\ ~IsAvailable(catalog[i])

TitleOut(cls) == \E j \in DOMAIN patrons : HoldsTitle(patrons[j], cls)

Join(c) == ~Registered(c) /\ AddPatron(c)

Acquire(b, t) ==
    /\ t.colon
    /\ TypeOf[t.cls] # "unlisted"
    /\ ~Catalogued(ParseBarcode(t))
    /\ AddAtBranch(b, t)

Move(t, b) ==
    /\ \E i \in DOMAIN catalog : ShelvedAs(i, t)
    /\ Transfer(t, b)

Lend(c, t) ==
    /\ \E i \in DOMAIN catalog : ShelvedAs(i, t)
    /\ Registered(c)
    /\ ~TitleOut(t.cls)
    /\ CheckOut(c, t, today)

TakeBack(t, b) ==
    /\ \E i \in DOMAIN catalog : LentAs(i, t)
    /\ CheckIn(t, today, b)

DeskCall ==
    \/ \E c \in Cards : Join(c)
    \/ \E b \in DeskBranches, t \in Texts : Acquire(b, t)
    \/ \E b \in DeskBranches, t \in Texts : Move(t, b)
    \/ \E c \in Cards, t \in Texts : Lend(c, t)
    \/ \E b \in DeskBranches, t \in Texts : TakeBack(t, b)

NextDay ==
    /\ \E d \in Days : today' = d
    /\ UNCHANGED vars

DeskNext ==
    \/ DeskCall /\ UNCHANGED today
    \/ NextDay

DeskSpec == DeskInit /\ [][DeskNext]_deskVars

-----------------------------------------------------------------------------

\* No call of a careful desk throws or runs past the end of a store.
NoFailure == outcome = "ok"

\* Every copy and every card has one entry.
OneEntryEach ==
    /\ \A i, j \in DOMAIN catalog : catalog[i].copy = catalog[j].copy => i = j
    /\ \A i, j \in DOMAIN patrons : patrons[i].card = patrons[j].card => i = j

\* The catalogue and the patrons agree: a copy is out exactly when one patron
\* holds it, since the day the catalogue gives.
Custody ==
    /\ \A i \in DOMAIN catalog :
         ~IsAvailable(catalog[i])
            => \E j \in DOMAIN patrons : catalog[i] \in patrons[j].held
    /\ \A j \in DOMAIN patrons : \A h \in patrons[j].held :
         \E i \in DOMAIN catalog : catalog[i] = h

\* At most one copy of a title is out, which is what lets checkIn find the
\* borrower by title.
OneOfTitleOut ==
    \A i, j \in DOMAIN patrons :
        \A h \in patrons[i].held, g \in patrons[j].held :
            h.copy.cls = g.copy.cls => i = j /\ h = g

-----------------------------------------------------------------------------
(* The promises of Lending, read off the two stores.                       *)

accounts == {<<patrons[j].card, patrons[j].fine>> : j \in DOMAIN patrons}

shelf == {<<catalog[i].copy, catalog[i].branch>> :
            i \in {l \in DOMAIN catalog : IsAvailable(catalog[l])}}

loans == UNION {{<<h.copy, patrons[j].card, h.lastOut>> : h \in patrons[j].held} :
                  j \in DOMAIN patrons}

Fee == [k \in DeskCopies |-> [since \in Days |-> [d \in Days |->
          IF d > since + CheckoutPeriod(TypeOf[k.cls])
            THEN LateFine(TypeOf[k.cls]) ELSE 0]]]

L == INSTANCE Lending WITH Copies <- DeskCopies, Branches <- DeskBranches

\* Lent, moved, returned and fined as Lending says: the right patron loses the
\* loan and is fined for it, although checkIn never asks who has the copy.
KeepsPromises == L!Spec

==============================================================================
