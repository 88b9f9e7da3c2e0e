----------------------------- MODULE HoldingService -----------------------------
(***************************************************************************)
(* HoldingService with the two static stores every instance of it shares:  *)
(* the catalogue (Catalog::mHoldings) and the patrons                      *)
(* (PatronAccess::mPatrons), both vectors searched from the front.         *)
(*                                                                         *)
(* One action is one call, which runs to its end: the program has one      *)
(* thread.  A call may throw half-way, and two things it does have no      *)
(* defined result: it copies *end() when a bar code is not found           *)
(* (Catalog::findByBarCode) and assigns to *end() when a patron is not     *)
(* (PatronAccess::update).  Reading past the end ends the program or       *)
(* yields no catalogued holding, so that the update after it throws;       *)
(* writing past the end ends the program or is lost.  Past the end of an   *)
(* empty vector is a null pointer.                                         *)
(***************************************************************************)
EXTENDS LibraryData

CONSTANT Texts          \* the bar codes clients type

ASSUME TextsAssumption == Texts \subseteq BarcodeText

VARIABLES
    catalog,            \* Catalog::mHoldings
    patrons,            \* PatronAccess::mPatrons
    outcome             \* how the last call ended

vars == <<catalog, patrons, outcome>>

Outcomes == {"ok", "InvalidBarcode", "HoldingNotFound",
             "ClassificationNotFound", "crashed"}

TypeOK ==
    /\ catalog \in Seq(Holding)
    /\ patrons \in Seq(Patron)
    /\ outcome \in Outcomes

Init ==
    /\ catalog = <<>>
    /\ patrons = <<>>
    /\ outcome = "ok"

Running == outcome # "crashed"

-----------------------------------------------------------------------------
(* Searching the stores.                                                   *)

Catalogued(k) == \E i \in DOMAIN catalog : catalog[i].copy = k

\* slip: the search goes on to the last equal entry
LastCopy(i, k) ==
    /\ i \in DOMAIN catalog
    /\ catalog[i].copy = k
    /\ \A j \in DOMAIN catalog : j > i => catalog[j].copy # k

\* i is where std::find stops for the copy k
FirstCopy(i, k) ==
    /\ i \in DOMAIN catalog
    /\ catalog[i].copy = k
    /\ \A j \in 1..(i-1) : catalog[j].copy # k

\* i is where Catalog::findByBarCode stops: it compares texts
FoundByBarCode(i, t) ==
    /\ ConstructBarcode(ParseBarcode(t)) = t
    /\ FirstCopy(i, ParseBarcode(t))

Registered(c) == \E j \in DOMAIN patrons : patrons[j].card = c

\* slip: the search goes on to the last equal record
LastPatron(j, c) ==
    /\ j \in DOMAIN patrons
    /\ patrons[j].card = c
    /\ \A l \in DOMAIN patrons : l > j => patrons[l].card # c

FirstPatron(j, c) ==
    /\ j \in DOMAIN patrons
    /\ patrons[j].card = c
    /\ \A l \in 1..(j-1) : patrons[l].card # c

ReadPastEnd(store) ==
    outcome' \in IF store = <<>> THEN {"crashed"}
                                 ELSE {"crashed", "HoldingNotFound"}

LostWrite(store) ==
    outcome' \in IF store = <<>> THEN {"crashed"} ELSE {"crashed", "ok"}

\* findByBarCode(t) of a bar code that is not found, and the rest of the call
BarcodeMissing(t) ==
    /\ ~ \E i \in DOMAIN catalog : FoundByBarCode(i, t)
    /\ ReadPastEnd(catalog)
    /\ UNCHANGED <<catalog, patrons>>

\* the copy of the record that PatronService::find leaves in a patron object
\* made for card c: the first such record, or the object as it was made
PatronRecord(c) ==
    IF Registered(c) THEN {patrons[j] : j \in {l \in DOMAIN patrons : FirstPatron(l, c)}}
                     ELSE {NewPatron(c)}

\* PatronAccess::update writes the whole record over the first of that card
UpdatePatron(p) ==
    \/ \E j \in DOMAIN patrons :
         /\ FirstPatron(j, p.card)
         /\ patrons' = [patrons EXCEPT ![j] = p]
         /\ outcome' = "ok"
    \/ /\ ~Registered(p.card)
       /\ LostWrite(patrons)
       /\ UNCHANGED patrons

\* the patron checkIn takes for the borrower: the last in the store that holds
\* any copy of the title, a default Patron when nobody does
LastBorrower(j, cls) ==
    /\ j \in DOMAIN patrons
    /\ HoldsTitle(patrons[j], cls)
    /\ \A l \in DOMAIN patrons : l > j => ~HoldsTitle(patrons[l], cls)

\* slip: the search takes the last patron it sees
LastPatronRecord(cls) ==
    IF patrons # <<>> THEN {patrons[Len(patrons)]} ELSE {NewPatron(DefaultCard)}

\* slip: the search leaves out the last patron
BorrowerRecordShort(cls) ==
    IF \E j \in 1..(Len(patrons)-1) : HoldsTitle(patrons[j], cls)
      THEN {patrons[j] : j \in {l \in DOMAIN patrons : LastBorrower(l, cls)}}
      ELSE {NewPatron(DefaultCard)}

BorrowerRecord(cls) ==
    IF \E j \in DOMAIN patrons : HoldsTitle(patrons[j], cls)
      THEN {patrons[j] : j \in {l \in DOMAIN patrons : LastBorrower(l, cls)}}
      ELSE {NewPatron(DefaultCard)}

-----------------------------------------------------------------------------
(* The calls.                                                              *)

\* PatronService::add(name, cardNumber)
AddPatron(c) ==
    /\ Running
    /\ patrons' = Append(patrons, NewPatron(c))
    /\ outcome' = "ok"
    /\ UNCHANGED catalog

\* addAtBranch: push_back, then update, which writes the first equal entry
AddAtBranch(b, t) ==
    /\ Running
    /\ UNCHANGED patrons
    /\ \/ /\ ~t.colon
          /\ outcome' = "InvalidBarcode"
          /\ UNCHANGED catalog
       \/ /\ t.colon
          /\ outcome' = "ok"
          /\ LET h     == NewHolding(ParseBarcode(t))
                 added == Append(catalog, h)
             IN  \/ /\ ~Catalogued(h.copy)
                    /\ catalog' = Append(catalog, TransferHolding(h, b))
                 \/ \E i \in DOMAIN catalog :
                      /\ FirstCopy(i, h.copy)
                      /\ catalog' = [added EXCEPT ![i] = TransferHolding(h, b)]

\* transfer(barcode, branchId)
Transfer(t, b) ==
    /\ Running
    /\ \/ BarcodeMissing(t)
       \/ \E i \in DOMAIN catalog :
            /\ FoundByBarCode(i, t)
            /\ catalog' = [catalog EXCEPT ![i] = TransferHolding(@, b)]
            /\ outcome' = "ok"
            /\ UNCHANGED patrons

\* transfer(holding, branch) with an object of the client's: a fresh Holding,
\* or a copy of a catalogued one, lent on some day since
TransferObject(k, d, b) ==
    /\ Running
    /\ UNCHANGED patrons
    /\ \/ /\ ~Catalogued(k)
          /\ outcome' = "HoldingNotFound"
          /\ UNCHANGED catalog
       \/ \E i \in DOMAIN catalog :
            /\ FirstCopy(i, k)
            /\ catalog' = [catalog EXCEPT ![i] =
                             [copy |-> k, branch |-> b, lastOut |-> d]]
            /\ outcome' = "ok"

\* slip: the patron borrows the holding before it is checked out
CheckOutLate(c, t, d) ==
    /\ Running
    /\ \/ BarcodeMissing(t)
       \/ \E i \in DOMAIN catalog :
            /\ FoundByBarCode(i, t)
            /\ catalog' = [catalog EXCEPT ![i] = CheckOutHolding(@, d)]
            /\ \E p \in PatronRecord(c) : UpdatePatron(Borrow(p, catalog[i]))

\* checkOut: the catalogue first, then the patron; nothing asks whether the
\* holding is available or the patron known
CheckOut(c, t, d) ==
    /\ Running
    /\ \/ BarcodeMissing(t)
       \/ \E i \in DOMAIN catalog :
            /\ FoundByBarCode(i, t)
            /\ LET h == CheckOutHolding(catalog[i], d)
               IN  /\ catalog' = [catalog EXCEPT ![i] = h]
                   /\ \E p \in PatronRecord(c) : UpdatePatron(Borrow(p, h))

\* checkIn: the catalogue first, then the search for the borrower, then
\* dueDate(), which throws for a classification nobody listed
CheckIn(t, d, b) ==
    /\ Running
    /\ \/ BarcodeMissing(t)
       \/ \E i \in DOMAIN catalog :
            /\ FoundByBarCode(i, t)
            /\ LET h   == CheckInHolding(catalog[i], b)
                   cls == h.copy.cls
               IN  /\ catalog' = [catalog EXCEPT ![i] = h]
                   /\ \/ /\ TypeOf[cls] = "unlisted"
                         /\ outcome' = "ClassificationNotFound"
                         /\ UNCHANGED patrons
                      \/ /\ TypeOf[cls] # "unlisted"
                         /\ \E p \in BorrowerRecord(cls) :
                              UpdatePatron(AddFine(ReturnHolding(p, h),
                                                   FineFor(h, d)))

DeleteHoldings ==
    /\ Running
    /\ catalog' = <<>>
    /\ outcome' = "ok"
    /\ UNCHANGED patrons

DeletePatrons ==
    /\ Running
    /\ patrons' = <<>>
    /\ outcome' = "ok"
    /\ UNCHANGED catalog

Next ==
    \/ \E c \in Cards : AddPatron(c)
    \/ \E b \in BranchIds, t \in Texts : AddAtBranch(b, t)
    \/ \E b \in BranchIds, t \in Texts : Transfer(t, b)
    \/ \E t \in Texts, d \in Days \cup {NoDate}, b \in BranchIds :
         t.colon /\ TransferObject(ParseBarcode(t), d, b)
    \/ \E c \in Cards, t \in Texts, d \in Days : CheckOut(c, t, d)
    \/ \E b \in BranchIds, t \in Texts, d \in Days : CheckIn(t, d, b)
    \/ DeleteHoldings
    \/ DeletePatrons

Spec == Init /\ [][Next]_vars

-----------------------------------------------------------------------------
(* What holds whatever clients call, in any order, naming any branch.      *)

\* addAtBranch takes a bar code it already has.  The extra entry is never the
\* one a search stops at, so no call ever reaches it: it stays as add() made it,
\* checked out since no date, and the first entry alone is the copy.
ShadowsInert ==
    \A i, j \in DOMAIN catalog :
        i < j /\ catalog[i].copy = catalog[j].copy
            => catalog[j] = NewHolding(catalog[j].copy)

\* PatronAccess::save takes a card it already has: the same holds of patrons.
\* No loan and no fine is ever recorded where no search finds it.
ShadowPatronsInert ==
    \A i, j \in DOMAIN patrons :
        i < j /\ patrons[i].card = patrons[j].card
            => patrons[j] = NewPatron(patrons[j].card)

\* What a patron holds was lent on a day: his own copy of the holding is always
\* checked out and dated, and he holds a copy once, whatever became of the
\* catalogue's entry since.
LoansDated ==
    \A j \in DOMAIN patrons : \A h \in patrons[j].held :
        /\ ~IsAvailable(h)
        /\ h.lastOut \in Days
        /\ \A g \in patrons[j].held : g.copy = h.copy => g = h

\* The shelf a search for copy k finds it on, if any.
OnShelf(k) == \E i \in DOMAIN catalog : FirstCopy(i, k) /\ IsAvailable(catalog[i])

\* Where a search for copy k finds it: at branch b.
FiledAt(k, b) == \E i \in DOMAIN catalog : FirstCopy(i, k) /\ catalog[i].branch = b

\* The step is a return of copy k at branch b.
Returns(k, b) ==
    \E t \in Texts, d \in Days : ParseBarcode(t) = k /\ CheckIn(t, d, b)

\* The step is a call about copy k in which the client names, as the branch, one
\* with the id of Branch::CHECKED_OUT.
NamesCheckedOut(k) ==
    \E t \in Texts :
        /\ ParseBarcode(t) = k
        /\ \/ AddAtBranch(CheckedOut, t)
           \/ Transfer(t, CheckedOut)
           \/ \E d \in Days \cup {NoDate} : TransferObject(k, d, CheckedOut)
           \/ \E d \in Days : CheckIn(t, d, CheckedOut)

\* A catalogued copy comes to be out since no day, a state in which no return is
\* late, only when a client names branch 99 for it, which no call refuses: being
\* lent, re-added, moved, or left by a call that fails half-way never does it.
OutUndatedByName ==
    [][\A i \in DOMAIN catalog' :
          LET h == catalog'[i]
          IN  /\ FirstCopy(i, catalog[i].copy)'
              /\ ~IsAvailable(h)
              /\ h.lastOut \notin Days
              => \/ i \in DOMAIN catalog /\ catalog[i] = h
                 \/ NamesCheckedOut(h.copy)]_vars

\* The same record before and after a step: patrons are only appended, until
\* deleteAll empties the store.
Kept(j) == j \in DOMAIN patrons /\ j \in DOMAIN patrons'

\* A patron stops holding a copy only in a return of that very copy, after which
\* the catalogue has it at the branch of the return: checkIn may pick the wrong
\* patron, but never takes from him a copy other than the one returned.  (A return
\* at branch 99 ends the loan too, and leaves the copy out.)  The default card is
\* the exception: its record is overwritten when checkIn finds no borrower.
LoanEndsInReturn ==
    [][\A j \in DOMAIN patrons : \A h \in patrons[j].held :
          /\ Kept(j)
          /\ patrons[j].card # DefaultCard
          /\ ~HoldsCopy(patrons'[j], h.copy)
          => \E b \in BranchIds :
               Returns(h.copy, b) /\ FiledAt(h.copy, b)']_vars

\* A patron starts to hold a copy only in a call that leaves the catalogue
\* saying the same of that copy, out since the same day, although the two stores
\* are written one after the other.
LoanStartsInCatalog ==
    [][\A j \in DOMAIN patrons' : \A h \in patrons'[j].held :
          /\ Kept(j)
          /\ h \notin patrons[j].held
          => \E i \in DOMAIN catalog' :
               FirstCopy(i, h.copy)' /\ catalog'[i] = h]_vars

\* A balance changes only by the fine of a title the patron held, in a return of a
\* copy of that title which had been lent, and which the catalogue then has at the
\* branch of the return.  The default card is again the exception.
FinedForTitleHeld ==
    [][\A j \in DOMAIN patrons :
          /\ Kept(j)
          /\ patrons[j].card # DefaultCard
          /\ patrons'[j].fine # patrons[j].fine
          => \E h \in {catalog[i] : i \in DOMAIN catalog}, b \in BranchIds :
               /\ Returns(h.copy, b)
               /\ FiledAt(h.copy, b)'
               /\ HoldsTitle(patrons[j], h.copy.cls)
               /\ h.lastOut \in Days
               /\ patrons'[j].fine =
                    patrons[j].fine + LateFine(TypeOf[h.copy.cls])]_vars

\* How much of a call that throws is done: nothing when the bar code is bad or
\* unknown; when the title is unlisted, one copy is at the branch of the return
\* while every patron keeps what he held.
ThrowFootprint ==
    [][/\ outcome' \in {"InvalidBarcode", "HoldingNotFound"}
            => UNCHANGED <<catalog, patrons>>
       /\ outcome' = "ClassificationNotFound"
            => /\ UNCHANGED patrons
               /\ \E i \in DOMAIN catalog : \E b \in BranchIds :
                    /\ catalog' = [catalog EXCEPT ![i].branch = b]
                    /\ TypeOf[catalog[i].copy.cls] = "unlisted"]_vars

==============================================================================
