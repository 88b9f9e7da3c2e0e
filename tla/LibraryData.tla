------------------------------ MODULE LibraryData ------------------------------
(***************************************************************************)
(* The value types of the library: classifications and their lending       *)
(* terms, bar-code texts, holdings and patrons.  Nothing here has state;   *)
(* the services that keep these values in stores extend this module.       *)
(*                                                                         *)
(* A classification is an abstract value whose type TypeOf gives; those    *)
(* ClassificationService does not know are "unlisted".  A bar code typed   *)
(* at a desk is abstracted to what the code tells apart: whether it has a  *)
(* colon, the classification before it, the number atoi reads after it,    *)
(* and whether the text is the plain decimal form of that number.          *)
(* A branch is its id, since Branch::operator== compares nothing else: a   *)
(* client's own branch with the id of Branch::CHECKED_OUT is CHECKED_OUT.  *)
(***************************************************************************)
EXTENDS Integers, Sequences

CONSTANTS
    Classifications,    \* what the text before the colon can be
    TypeOf,             \* the type of book of each classification
    BranchIds,          \* the ids clients name when they name a branch
    CheckedOut,         \* the id of Branch::CHECKED_OUT, "99" in the code
    Cards,              \* patron card numbers in use
    DefaultCard,        \* the card of a default-constructed Patron, "p0"
    NoDate,             \* not_a_date_time
    Days                \* the dates clients pass

BookTypes == {"book", "movie", "new release", "unlisted"}

ASSUME TypeAssumption == TypeOf \in [Classifications -> BookTypes]
ASSUME DateAssumption == Days \subseteq Nat /\ NoDate \notin Nat

-----------------------------------------------------------------------------
(* Bar codes.  A copy number is an unsigned short.                         *)

CopyNumbers == 0..65535

Copy == [cls : Classifications, num : CopyNumbers]

BarcodeText ==
    [colon : BOOLEAN, cls : Classifications, num : Int, exact : BOOLEAN]

\* slip: the number kept as the int atoi returns
ToCopyNumberWide(n) == n

\* atoi's result assigned to the unsigned short
ToCopyNumber(n) == n % 65536

\* The copy that Holding(barcode) makes of a text with a colon.
ParseBarcode(t) == [cls |-> t.cls, num |-> ToCopyNumber(t.num)]

\* The text Holding::barcode() gives back for a copy.
ConstructBarcode(k) ==
    [colon |-> TRUE, cls |-> k.cls, num |-> k.num, exact |-> TRUE]

-----------------------------------------------------------------------------
(* Lending terms.                                                          *)

(* What follows is asked only of listed types.                             *)

CheckoutPeriod(type) ==
    IF type = "movie" THEN 7 ELSE IF type = "new release" THEN 3 ELSE 21

DaysLate == 1

FineForDays(type, days) ==
    IF type = "movie"
      THEN IF 100 + 100 * days > 1000 THEN 1000 ELSE 100 + 100 * days
      ELSE IF type = "new release" THEN 20 * days ELSE 10 * days

LateFine(type) == FineForDays(type, DaysLate)

-----------------------------------------------------------------------------
(* Holdings: a copy, the branch it is at, the day it was last lent.        *)

Branches == BranchIds \cup {CheckedOut}

Holding == [copy : Copy, branch : Branches, lastOut : Days \cup {NoDate}]

NewHolding(k) == [copy |-> k, branch |-> CheckedOut, lastOut |-> NoDate]

IsAvailable(h) == h.branch # CheckedOut

TransferHolding(h, b) == [h EXCEPT !.branch = b]

\* slip: the day forgotten
CheckOutHoldingUndated(h, d) == [h EXCEPT !.branch = CheckedOut]

CheckOutHolding(h, d) == [h EXCEPT !.lastOut = d, !.branch = CheckedOut]

\* slip: the day of the last loan wiped
CheckInHoldingWiped(h, b) == [h EXCEPT !.branch = b, !.lastOut = NoDate]

\* Holding::checkIn does not use the date and leaves lastOut as it is.
CheckInHolding(h, b) == [h EXCEPT !.branch = b]

\* slip: the day a holding is due is late already
IsLateWhenDue(h, d) ==
    /\ h.lastOut # NoDate
    /\ d >= h.lastOut + CheckoutPeriod(TypeOf[h.copy.cls])

\* dueDate() of a holding never lent is not_a_date_time, which boost orders
\* after every real date: no day is late for it.
IsLate(h, d) ==
    /\ h.lastOut # NoDate
    /\ d > h.lastOut + CheckoutPeriod(TypeOf[h.copy.cls])

FineFor(h, d) == IF IsLate(h, d) THEN LateFine(TypeOf[h.copy.cls]) ELSE 0

-----------------------------------------------------------------------------
(* Patrons: a card, the holdings borrowed, the balance of fines.           *)

Patron == [card : Cards \cup {DefaultCard}, held : SUBSET Holding, fine : Int]

NewPatron(c) == [card |-> c, held |-> {}, fine |-> 0]

\* slip: a copy held already inserted again
BorrowAgain(p, h) == [p EXCEPT !.held = @ \cup {h}]

\* std::set::insert leaves an equal element alone, and two holdings are
\* equal when they are the same copy.
Borrow(p, h) ==
    IF \E x \in p.held : x.copy = h.copy
      THEN p
      ELSE [p EXCEPT !.held = @ \cup {h}]

\* slip: every copy of the title erased
ReturnTitle(p, h) == [p EXCEPT !.held = {x \in @ : x.copy.cls # h.copy.cls}]

\* slip: erased only if equal in every field
ReturnIdentical(p, h) == [p EXCEPT !.held = {x \in @ : x # h}]

ReturnHolding(p, h) == [p EXCEPT !.held = {x \in @ : x.copy # h.copy}]

AddFine(p, amount) == [p EXCEPT !.fine = @ + amount]

\* slip: the payment is added to the balance
RemitAdded(p, amount) == [p EXCEPT !.fine = @ + amount]

Remit(p, amount) == [p EXCEPT !.fine = @ - amount]

HoldsTitle(p, cls) == \E x \in p.held : x.copy.cls = cls

HoldsCopy(p, k) == \E x \in p.held : x.copy = k

==============================================================================
