------------------------------ MODULE LendingClaims ------------------------------
(***************************************************************************)
(* What the comments inside HoldingService::checkIn say it does, where the *)
(* code does something else.                                               *)
(***************************************************************************)
EXTENDS LendingDesk

\* A desk that lends the second copy of a title while the first is out, as any
\* library with two copies of a book does, and is careful otherwise.
LendAnyCopy(c, t) ==
    /\ \E i \in DOMAIN catalog : ShelvedAs(i, t)
    /\ Registered(c)
    /\ CheckOut(c, t, today)

SharedTitleCall ==
    \/ \E c \in Cards : Join(c)
    \/ \E b \in DeskBranches, t \in Texts : Acquire(b, t)
    \/ \E c \in Cards, t \in Texts : LendAnyCopy(c, t)
    \/ \E b \in DeskBranches, t \in Texts : TakeBack(t, b)

SharedTitleNext ==
    \/ SharedTitleCall /\ UNCHANGED today
    \/ NextDay

SharedTitleSpec == DeskInit /\ [][SharedTitleNext]_deskVars

\* checkIn's comments: "locate the patron with the checked out book" and "remove
\* the book from the patron".  A copy that is back on a shelf is held by no patron.
BookRemovedFromPatron ==
    \A j \in DOMAIN patrons : \A h \in patrons[j].held : ~OnShelf(h.copy)

\* checkIn's comment: "calculate # of days past due".  The fine of a late return
\* is the daily fine for each day past due, the movies' within its limit of 1000.
DaysPastDue(k, since, d) == d - (since + CheckoutPeriod(TypeOf[k.cls]))

DailyFee == [k \in DeskCopies |-> [since \in Days |-> [d \in Days |->
               IF DaysPastDue(k, since, d) > 0
                 THEN FineForDays(TypeOf[k.cls], DaysPastDue(k, since, d))
                 ELSE 0]]]

Daily == INSTANCE Lending WITH Copies <- DeskCopies, Branches <- DeskBranches,
                               Fee <- DailyFee

ChargedPerDay == Daily!Spec

==============================================================================
