-------------------------- MODULE HoldingServiceProofs --------------------------
(***************************************************************************)
(* Invariants of HoldingService for every set of classifications, cards,   *)
(* branches, days and bar codes.                                           *)
(*                                                                         *)
(* The inductive invariant is the conjunction of the invariants: none of   *)
(* them stands alone.  A write reaches the first entry of a copy, so what  *)
(* an update does to the others is nothing only because searches stop at   *)
(* the first; and what a patron gets to hold is dated because checkOut     *)
(* dates the catalogue's entry before it copies it.                        *)
(*                                                                         *)
(* Every call changes each store in one of a few ways (CatalogStep,        *)
(* PatronStep): the calls are reduced to them first, and each invariant is *)
(* then preserved by each way of changing its store.  A call that writes   *)
(* the catalogue files one copy at the branch the client names (FilesAt)   *)
(* or lends one out (LendsOut): no entry is out since no day but by name.  *)
(*                                                                         *)
(* What a single call may do to loans, fines and the inventory report      *)
(* follows from the invariants and the ways its search can go.             *)
(***************************************************************************)
EXTENDS InventoryReport, SequenceTheorems, TLAPS

IInv ==
    /\ TypeOK
    /\ ShadowsInert
    /\ ShadowPatronsInert
    /\ LoansDated

-----------------------------------------------------------------------------
(* The values.                                                             *)

LEMMA ToCopyNumberType == \A n \in Int : ToCopyNumber(n) \in CopyNumbers
<1>1. PICK top \in Int : top = 65535
  OBVIOUS
<1>2. CopyNumbers = 0..top
  BY <1>1 DEF CopyNumbers
<1>3. ASSUME NEW n \in Int
      PROVE  ToCopyNumber(n) \in Int /\ 0 <= ToCopyNumber(n) /\ ToCopyNumber(n) <= top
  BY <1>1 DEF ToCopyNumber
<1> QED BY <1>2, <1>3

LEMMA ParseBarcodeType ==
    ASSUME NEW t \in BarcodeText
    PROVE  ParseBarcode(t) \in Copy
BY ToCopyNumberType DEF BarcodeText, ParseBarcode, Copy

LEMMA LateFineType == \A type : LateFine(type) \in Nat
BY DEF LateFine, FineForDays, DaysLate

LEMMA FineForType ==
    ASSUME NEW h \in Holding, NEW d \in Days
    PROVE  FineFor(h, d) \in Nat
BY LateFineType DEF FineFor

LEMMA FiledHolding ==
    ASSUME NEW h \in Holding, NEW b \in BranchIds
    PROVE  /\ TransferHolding(h, b) \in Holding
           /\ TransferHolding(h, b).copy = h.copy
           /\ TransferHolding(h, b).branch = b
           /\ TransferHolding(h, b).lastOut = h.lastOut
           /\ CheckInHolding(h, b) = TransferHolding(h, b)
BY DEF Holding, Branches, TransferHolding, CheckInHolding

LEMMA LentHolding ==
    ASSUME NEW h \in Holding, NEW d \in Days
    PROVE  /\ CheckOutHolding(h, d) \in Holding
           /\ CheckOutHolding(h, d).copy = h.copy
           /\ CheckOutHolding(h, d).lastOut = d
           /\ ~IsAvailable(CheckOutHolding(h, d))
BY DEF Holding, Branches, CheckOutHolding, IsAvailable

LEMMA NewHoldingType ==
    ASSUME NEW k \in Copy
    PROVE  /\ NewHolding(k) \in Holding
           /\ NewHolding(k).copy = k
           /\ ~IsAvailable(NewHolding(k))
BY DEF NewHolding, Holding, Branches, IsAvailable

\* What LoansDated says of one patron.
LoansOf(p) ==
    \A h \in p.held :
        /\ ~IsAvailable(h)
        /\ h.lastOut \in Days
        /\ \A g \in p.held : g.copy = h.copy => g = h

LEMMA NewPatronType ==
    ASSUME NEW c \in Cards \cup {DefaultCard}
    PROVE  /\ NewPatron(c) \in Patron
           /\ NewPatron(c).card = c
           /\ LoansOf(NewPatron(c))
BY DEF NewPatron, Patron, LoansOf

LEMMA BorrowType ==
    ASSUME NEW p \in Patron, LoansOf(p),
           NEW h \in Holding, ~IsAvailable(h), h.lastOut \in Days
    PROVE  /\ Borrow(p, h) \in Patron
           /\ Borrow(p, h).card = p.card
           /\ LoansOf(Borrow(p, h))
<1>1. CASE \E x \in p.held : x.copy = h.copy
  BY <1>1 DEF Borrow
<1>2. CASE ~ \E x \in p.held : x.copy = h.copy
  <2>1. Borrow(p, h) = [p EXCEPT !.held = @ \cup {h}]
    BY <1>2 DEF Borrow
  <2>2. /\ Borrow(p, h) \in Patron
        /\ Borrow(p, h).card = p.card
        /\ Borrow(p, h).held = p.held \cup {h}
    BY <2>1 DEF Patron
  <2> QED BY <1>2, <2>2 DEF LoansOf
<1> QED BY <1>1, <1>2

LEMMA ReturnType ==
    ASSUME NEW p \in Patron, LoansOf(p), NEW h \in Holding, NEW n \in Nat,
           NEW q, q = AddFine(ReturnHolding(p, h), n)
    PROVE  /\ q \in Patron
           /\ q.card = p.card
           /\ q.fine = p.fine + n
           /\ q.held = {x \in p.held : x.copy # h.copy}
           /\ LoansOf(q)
<1> DEFINE r == ReturnHolding(p, h)
<1>1. /\ r \in Patron
      /\ r.card = p.card
      /\ r.fine = p.fine
      /\ r.held = {x \in p.held : x.copy # h.copy}
  BY DEF ReturnHolding, Patron
<1> HIDE DEF r
<1>2. /\ q = [r EXCEPT !.fine = @ + n]
      /\ r.fine + n \in Int
  BY <1>1 DEF AddFine, r, Patron
<1>3. /\ q \in Patron
      /\ q.card = r.card
      /\ q.fine = r.fine + n
      /\ q.held = r.held
  BY <1>1, <1>2 DEF Patron
<1> QED BY <1>1, <1>3 DEF LoansOf

-----------------------------------------------------------------------------
(* How a call changes each store.                                          *)

EntryAdded(h) ==
    /\ ~Catalogued(h.copy)
    /\ catalog' = Append(catalog, h)

EntryShadowed(h) ==
    \E i \in DOMAIN catalog :
        /\ FirstCopy(i, h.copy)
        /\ catalog' = [Append(catalog, NewHolding(h.copy)) EXCEPT ![i] = h]

EntryWritten(h) ==
    \E i \in DOMAIN catalog :
        /\ FirstCopy(i, h.copy)
        /\ catalog' = [catalog EXCEPT ![i] = h]

EntryStep(h) == EntryAdded(h) \/ EntryShadowed(h) \/ EntryWritten(h)

\* Copy k filed at branch b, and some copy lent out.
FilesAt(k, b) == \E h \in Holding : h.copy = k /\ h.branch = b /\ EntryStep(h)

LendsOut == \E h \in Holding : h.lastOut \in Days /\ EntryStep(h)

CatalogStep ==
    \/ UNCHANGED catalog
    \/ catalog' = <<>>
    \/ LendsOut
    \/ \E k \in Copy, b \in BranchIds :
         FilesAt(k, b) /\ (b = CheckedOut => NamesCheckedOut(k))

PatronAdded ==
    \E c \in Cards : patrons' = Append(patrons, NewPatron(c))

PatronWritten ==
    \E p \in Patron : \E j \in DOMAIN patrons :
        /\ FirstPatron(j, p.card)
        /\ LoansOf(p)
        /\ patrons' = [patrons EXCEPT ![j] = p]

PatronStep ==
    UNCHANGED patrons \/ PatronAdded \/ PatronWritten \/ patrons' = <<>>

LEMMA PatronAtType ==
    ASSUME TypeOK, NEW j \in DOMAIN patrons
    PROVE  patrons[j] \in Patron
BY LenProperties, ElementOfSeq DEF TypeOK

LEMMA EntryType ==
    ASSUME TypeOK, NEW i \in DOMAIN catalog
    PROVE  catalog[i] \in Holding
BY LenProperties, ElementOfSeq DEF TypeOK

LEMMA UpdateIsPatronStep ==
    ASSUME NEW p \in Patron, LoansOf(p), UpdatePatron(p)
    PROVE  PatronStep /\ outcome' \in Outcomes
BY DEF UpdatePatron, PatronStep, PatronWritten, LostWrite, Outcomes

LEMMA PatronRecordType ==
    ASSUME IInv, NEW c \in Cards, NEW p \in PatronRecord(c)
    PROVE  p \in Patron /\ LoansOf(p) /\ p.card = c
BY PatronAtType, NewPatronType
   DEF PatronRecord, IInv, LoansDated, LoansOf, FirstPatron

LEMMA BorrowerRecordType ==
    ASSUME IInv, NEW cls, NEW p \in BorrowerRecord(cls)
    PROVE  p \in Patron /\ LoansOf(p)
BY PatronAtType, NewPatronType
   DEF BorrowerRecord, IInv, LoansDated, LoansOf, LastBorrower

LEMMA MissingIsStep ==
    ASSUME NEW t, BarcodeMissing(t)
    PROVE  UNCHANGED catalog /\ PatronStep /\ outcome' \in Outcomes
BY DEF BarcodeMissing, ReadPastEnd, PatronStep, Outcomes

LEMMA AddIsStep ==
    ASSUME NEW b \in BranchIds, NEW t \in Texts, AddAtBranch(b, t)
    PROVE  /\ UNCHANGED catalog \/ FilesAt(ParseBarcode(t), b)
           /\ ParseBarcode(t) \in Copy
           /\ PatronStep
           /\ outcome' \in Outcomes
<1>1. PatronStep /\ outcome' \in Outcomes /\ ParseBarcode(t) \in Copy
  BY ParseBarcodeType, TextsAssumption DEF AddAtBranch, PatronStep, Outcomes
<1>2. CASE ~t.colon
  BY <1>1, <1>2 DEF AddAtBranch
<1>3. CASE t.colon
  <2> DEFINE n == NewHolding(ParseBarcode(t))
             h == TransferHolding(n, b)
  <2>1. /\ n \in Holding
        /\ n.copy = ParseBarcode(t)
        /\ h \in Holding
        /\ h.copy = n.copy
        /\ h.branch = b
    BY <1>1, NewHoldingType, FiledHolding
  <2>2. \/ /\ ~Catalogued(n.copy)
           /\ catalog' = Append(catalog, h)
        \/ \E i \in DOMAIN catalog :
             /\ FirstCopy(i, n.copy)
             /\ catalog' = [Append(catalog, n) EXCEPT ![i] = h]
    BY <1>3 DEF AddAtBranch
  <2>3. n = NewHolding(h.copy)
    BY <2>1
  <2>4. h.copy = ParseBarcode(t)
    BY <2>1
  <2> HIDE DEF n, h
  <2>5. EntryStep(h)
    BY <2>1, <2>2, <2>3 DEF EntryStep, EntryAdded, EntryShadowed
  <2> QED BY <1>1, <2>1, <2>4, <2>5 DEF FilesAt
<1> QED BY <1>2, <1>3

LEMMA TransferIsStep ==
    ASSUME TypeOK, NEW b \in BranchIds, NEW t \in Texts, Transfer(t, b)
    PROVE  /\ UNCHANGED catalog \/ FilesAt(ParseBarcode(t), b)
           /\ PatronStep
           /\ outcome' \in Outcomes
<1>1. CASE BarcodeMissing(t)
  BY <1>1, MissingIsStep
<1>2. ASSUME NEW i \in DOMAIN catalog,
             FoundByBarCode(i, t),
             catalog' = [catalog EXCEPT ![i] = TransferHolding(@, b)],
             outcome' = "ok",
             UNCHANGED patrons
      PROVE  FilesAt(ParseBarcode(t), b) /\ PatronStep /\ outcome' \in Outcomes
  <2> DEFINE h == TransferHolding(catalog[i], b)
  <2>1. h \in Holding /\ h.copy = catalog[i].copy /\ h.branch = b
    BY EntryType, FiledHolding
  <2>2. FirstCopy(i, h.copy) /\ h.copy = ParseBarcode(t)
    BY <1>2, <2>1 DEF FoundByBarCode, FirstCopy
  <2>3. catalog' = [catalog EXCEPT ![i] = h]
    BY <1>2
  <2> HIDE DEF h
  <2> QED BY <1>2, <2>1, <2>2, <2>3
          DEF FilesAt, EntryStep, EntryWritten, PatronStep, Outcomes
<1> QED BY <1>1, <1>2 DEF Transfer

LEMMA TransferObjectIsStep ==
    ASSUME NEW k \in Copy, NEW d \in Days \cup {NoDate}, NEW b \in BranchIds,
           TransferObject(k, d, b)
    PROVE  /\ UNCHANGED catalog \/ FilesAt(k, b)
           /\ PatronStep
           /\ outcome' \in Outcomes
<1> DEFINE h == [copy |-> k, branch |-> b, lastOut |-> d]
<1>1. h \in Holding /\ h.copy = k /\ h.branch = b
  BY DEF Holding, Branches
<1>2. \/ UNCHANGED catalog /\ outcome' = "HoldingNotFound"
      \/ /\ \E i \in DOMAIN catalog :
               FirstCopy(i, k) /\ catalog' = [catalog EXCEPT ![i] = h]
         /\ outcome' = "ok"
  BY DEF TransferObject
<1>3. UNCHANGED patrons
  BY DEF TransferObject
<1> HIDE DEF h
<1> QED BY <1>1, <1>2, <1>3
        DEF FilesAt, EntryStep, EntryWritten, PatronStep, Outcomes

LEMMA CheckOutIsStep ==
    ASSUME IInv, NEW c \in Cards, NEW t \in Texts, NEW d \in Days, CheckOut(c, t, d)
    PROVE  /\ UNCHANGED catalog \/ LendsOut
           /\ PatronStep
           /\ outcome' \in Outcomes
<1>1. CASE BarcodeMissing(t)
  BY <1>1, MissingIsStep
<1>2. ASSUME NEW i \in DOMAIN catalog, FoundByBarCode(i, t),
             NEW h, h = CheckOutHolding(catalog[i], d),
             catalog' = [catalog EXCEPT ![i] = h],
             NEW p \in PatronRecord(c), UpdatePatron(Borrow(p, h))
      PROVE  LendsOut /\ PatronStep /\ outcome' \in Outcomes
  <2>1. /\ h \in Holding
        /\ h.copy = catalog[i].copy
        /\ h.lastOut \in Days
        /\ ~IsAvailable(h)
    <3>1. catalog[i] \in Holding
      BY EntryType DEF IInv
    <3> QED BY <1>2, <3>1, LentHolding
  <2>2. LendsOut
    BY <1>2, <2>1 DEF LendsOut, EntryStep, EntryWritten, FoundByBarCode, FirstCopy
  <2>3. Borrow(p, h) \in Patron /\ LoansOf(Borrow(p, h))
    BY <1>2, <2>1, PatronRecordType, BorrowType
  <2> QED BY <1>2, <2>2, <2>3, UpdateIsPatronStep
<1> QED BY <1>1, <1>2 DEF CheckOut

LEMMA CheckInIsStep ==
    ASSUME IInv, NEW b \in BranchIds, NEW t \in Texts, NEW d \in Days, CheckIn(t, d, b)
    PROVE  /\ UNCHANGED catalog \/ FilesAt(ParseBarcode(t), b)
           /\ PatronStep
           /\ outcome' \in Outcomes
<1>1. CASE BarcodeMissing(t)
  BY <1>1, MissingIsStep
<1>2. ASSUME NEW i \in DOMAIN catalog, FoundByBarCode(i, t),
             NEW h, h = CheckInHolding(catalog[i], b),
             catalog' = [catalog EXCEPT ![i] = h],
             \/ outcome' = "ClassificationNotFound" /\ UNCHANGED patrons
             \/ \E p \in BorrowerRecord(h.copy.cls) :
                  UpdatePatron(AddFine(ReturnHolding(p, h), FineFor(h, d)))
      PROVE  FilesAt(ParseBarcode(t), b) /\ PatronStep /\ outcome' \in Outcomes
  <2>1. h \in Holding /\ h.copy = catalog[i].copy /\ h.branch = b
    <3>1. catalog[i] \in Holding
      BY EntryType DEF IInv
    <3> QED BY <1>2, <3>1, FiledHolding
  <2>2. FirstCopy(i, h.copy) /\ h.copy = ParseBarcode(t)
    BY <1>2, <2>1 DEF FoundByBarCode, FirstCopy
  <2>3. FilesAt(ParseBarcode(t), b)
    BY <1>2, <2>1, <2>2 DEF FilesAt, EntryStep, EntryWritten
  <2>4. CASE outcome' = "ClassificationNotFound" /\ UNCHANGED patrons
    BY <2>3, <2>4 DEF PatronStep, Outcomes
  <2>5. ASSUME NEW p \in BorrowerRecord(h.copy.cls),
               NEW q, q = AddFine(ReturnHolding(p, h), FineFor(h, d)),
               UpdatePatron(q)
        PROVE  PatronStep /\ outcome' \in Outcomes
    <3>1. p \in Patron /\ LoansOf(p) /\ FineFor(h, d) \in Nat
      BY <2>1, BorrowerRecordType, FineForType
    <3>2. q \in Patron /\ LoansOf(q)
      BY <2>1, <2>5, <3>1, ReturnType
    <3> QED BY <2>5, <3>2, UpdateIsPatronStep
  <2> QED BY <1>2, <2>3, <2>4, <2>5
<1> QED BY <1>1, <1>2 DEF CheckIn

LEMMA CallIsStep ==
    ASSUME IInv, Next
    PROVE  CatalogStep /\ PatronStep /\ outcome' \in Outcomes
<1> USE DEF IInv, CatalogStep
<1>1. \A t \in Texts : ParseBarcode(t) \in Copy
  BY ParseBarcodeType, TextsAssumption
<1>2. CASE \E c \in Cards : AddPatron(c)
  BY <1>2 DEF AddPatron, PatronStep, PatronAdded, Outcomes
<1>3. ASSUME NEW b \in BranchIds, NEW t \in Texts, AddAtBranch(b, t)
      PROVE  CatalogStep /\ PatronStep /\ outcome' \in Outcomes
  <2>1. b = CheckedOut => NamesCheckedOut(ParseBarcode(t))
    BY <1>3 DEF NamesCheckedOut
  <2> QED BY <1>3, <2>1, AddIsStep
<1>4. ASSUME NEW b \in BranchIds, NEW t \in Texts, Transfer(t, b)
      PROVE  CatalogStep /\ PatronStep /\ outcome' \in Outcomes
  <2>1. b = CheckedOut => NamesCheckedOut(ParseBarcode(t))
    BY <1>4 DEF NamesCheckedOut
  <2> QED BY <1>1, <1>4, <2>1, TransferIsStep
<1>5. ASSUME NEW t \in Texts, NEW d \in Days \cup {NoDate}, NEW b \in BranchIds,
             TransferObject(ParseBarcode(t), d, b)
      PROVE  CatalogStep /\ PatronStep /\ outcome' \in Outcomes
  <2>1. b = CheckedOut => NamesCheckedOut(ParseBarcode(t))
    BY <1>5 DEF NamesCheckedOut
  <2> QED BY <1>1, <1>5, <2>1, TransferObjectIsStep
<1>6. ASSUME NEW c \in Cards, NEW t \in Texts, NEW d \in Days, CheckOut(c, t, d)
      PROVE  CatalogStep /\ PatronStep /\ outcome' \in Outcomes
  BY <1>6, CheckOutIsStep
<1>7. ASSUME NEW b \in BranchIds, NEW t \in Texts, NEW d \in Days, CheckIn(t, d, b)
      PROVE  CatalogStep /\ PatronStep /\ outcome' \in Outcomes
  <2>1. b = CheckedOut => NamesCheckedOut(ParseBarcode(t))
    BY <1>7 DEF NamesCheckedOut
  <2> QED BY <1>1, <1>7, <2>1, CheckInIsStep
<1>8. CASE DeleteHoldings \/ DeletePatrons
  BY <1>8 DEF DeleteHoldings, DeletePatrons, PatronStep, Outcomes
<1> QED BY <1>2, <1>3, <1>4, <1>5, <1>6, <1>7, <1>8 DEF Next
-----------------------------------------------------------------------------
(* The invariants under each way of changing a store.                      *)

\* What the catalogue has after entry h is written: of the entries that searches
\* find, h is the only one that was not there.
Written(h) ==
    /\ catalog' \in Seq(Holding)
    /\ ShadowsInert'
    /\ \A i \in DOMAIN catalog' :
         FirstCopy(i, catalog[i].copy)' =>
           \/ catalog'[i] = h
           \/ /\ i \in DOMAIN catalog
              /\ catalog'[i] = catalog[i]
              /\ FirstCopy(i, catalog[i].copy)

LEMMA EntryStepWrites ==
    ASSUME IInv, NEW h \in Holding, EntryStep(h)
    PROVE  Written(h)
<1> DEFINE n == Len(catalog)
<1>1. /\ catalog \in Seq(Holding)
      /\ n \in Nat
      /\ DOMAIN catalog = 1..n
      /\ \A i \in 1..n : catalog[i] \in Holding
  BY EntryType, LenProperties DEF IInv, TypeOK
<1> HIDE DEF n
<1>2. CASE EntryAdded(h)
  <2>1. /\ catalog' \in Seq(Holding)
        /\ DOMAIN catalog' = 1..(n+1)
        /\ \A i \in 1..n : catalog'[i] = catalog[i]
        /\ catalog'[n+1] = h
    BY <1>1, <1>2, AppendProperties, LenProperties DEF n, EntryAdded
  <2>2. ShadowsInert'
    BY <1>1, <1>2, <2>1 DEF IInv, ShadowsInert, Catalogued, EntryAdded
  <2>3. ASSUME NEW i \in 1..n, FirstCopy(i, catalog[i].copy)'
        PROVE  FirstCopy(i, catalog[i].copy)
    BY <1>1, <2>1, <2>3 DEF FirstCopy
  <2> QED BY <1>1, <2>1, <2>2, <2>3 DEF Written
<1>3. ASSUME NEW f \in DOMAIN catalog, FirstCopy(f, h.copy),
             catalog' = [Append(catalog, NewHolding(h.copy)) EXCEPT ![f] = h]
      PROVE  Written(h)
  <2> DEFINE m == NewHolding(h.copy)
             added == Append(catalog, m)
  <2>1. m \in Holding /\ m.copy = h.copy
    BY NewHoldingType DEF Holding
  <2> HIDE DEF m
  <2>2. /\ added \in Seq(Holding)
        /\ Len(added) = n + 1
        /\ \A i \in 1..n : added[i] = catalog[i]
        /\ added[n+1] = m
    BY <1>1, <2>1, AppendProperties DEF n
  <2>3. catalog' = [added EXCEPT ![f] = h] /\ f \in 1..Len(added)
    BY <1>1, <1>3, <2>2 DEF m
  <2> HIDE DEF added
  <2>4. /\ catalog' \in Seq(Holding)
        /\ DOMAIN catalog' = 1..(n+1)
        /\ \A i \in 1..n : catalog'[i] = IF i = f THEN h ELSE catalog[i]
        /\ catalog'[n+1] = m
    <3>1. /\ catalog' \in Seq(Holding)
          /\ Len(catalog') = Len(added)
          /\ \A i \in 1..Len(added) : catalog'[i] = IF i = f THEN h ELSE added[i]
      BY <2>2, <2>3, ExceptSeq
    <3> QED BY <1>1, <1>3, <2>2, <3>1, LenProperties
  <2>5. \A i \in 1..n : catalog'[i].copy = catalog[i].copy
    BY <1>1, <1>3, <2>4 DEF FirstCopy
  <2>6. ShadowsInert'
    <3> SUFFICES ASSUME NEW i \in 1..(n+1), NEW j \in 1..(n+1), i < j,
                        catalog'[i].copy = catalog'[j].copy
                 PROVE  catalog'[j] = NewHolding(catalog'[j].copy)
      BY <2>4 DEF ShadowsInert
    <3>1. CASE j = n + 1
      BY <2>1, <2>4, <3>1 DEF m
    <3>2. CASE j \in 1..n
      BY <1>1, <1>3, <2>4, <2>5, <3>2 DEF IInv, ShadowsInert, FirstCopy
    <3> QED BY <1>1, <3>1, <3>2
  <2>7. ASSUME NEW i \in 1..(n+1), FirstCopy(i, catalog[i].copy)', i # f
        PROVE  /\ i \in 1..n
               /\ catalog'[i] = catalog[i]
               /\ FirstCopy(i, catalog[i].copy)
    <3>1. i # n + 1
      BY <1>1, <1>3, <2>1, <2>4, <2>5, <2>7 DEF FirstCopy
    <3>2. i \in 1..n /\ catalog'[i] = catalog[i]
      BY <1>1, <2>4, <2>7, <3>1
    <3> QED BY <1>1, <2>4, <2>5, <2>7, <3>2 DEF FirstCopy
  <2>8. catalog'[f] = h
    BY <1>1, <1>3, <2>4
  <2> QED BY <1>1, <2>4, <2>6, <2>7, <2>8 DEF Written
<1>4. ASSUME NEW f \in DOMAIN catalog, FirstCopy(f, h.copy),
             catalog' = [catalog EXCEPT ![f] = h]
      PROVE  Written(h)
  <2>1. /\ catalog' \in Seq(Holding)
        /\ DOMAIN catalog' = 1..n
        /\ \A i \in 1..n : catalog'[i] = IF i = f THEN h ELSE catalog[i]
    <3>1. f \in 1..Len(catalog)
      BY <1>1 DEF n
    <3> QED BY <1>1, <1>4, <3>1, ExceptSeq, LenProperties DEF n
  <2>2. \A i \in 1..n : catalog'[i].copy = catalog[i].copy
    BY <1>1, <1>4, <2>1 DEF FirstCopy
  <2>3. ShadowsInert'
    BY <1>1, <1>4, <2>1, <2>2 DEF IInv, ShadowsInert, FirstCopy
  <2>4. ASSUME NEW i \in 1..n, FirstCopy(i, catalog[i].copy)'
        PROVE  FirstCopy(i, catalog[i].copy)
    BY <1>1, <2>1, <2>2, <2>4 DEF FirstCopy
  <2> QED BY <1>1, <2>1, <2>3, <2>4 DEF Written
<1> QED BY <1>2, <1>3, <1>4 DEF EntryStep, EntryShadowed, EntryWritten

LEMMA CatalogInvariant ==
    ASSUME IInv, CatalogStep
    PROVE  catalog' \in Seq(Holding) /\ ShadowsInert'
<1>1. CASE UNCHANGED catalog
  BY <1>1 DEF IInv, TypeOK, ShadowsInert
<1>2. CASE catalog' = <<>>
  <2>1. catalog' \in Seq(Holding) /\ DOMAIN catalog' = {}
    BY <1>2, EmptySeq, LenProperties
  <2> QED BY <2>1 DEF ShadowsInert
<1>3. ASSUME NEW h \in Holding, EntryStep(h)
      PROVE  catalog' \in Seq(Holding) /\ ShadowsInert'
  BY <1>3, EntryStepWrites DEF Written
<1> QED BY <1>1, <1>2, <1>3 DEF CatalogStep, LendsOut, FilesAt

LEMMA PatronInvariant ==
    ASSUME IInv, PatronStep
    PROVE  patrons' \in Seq(Patron) /\ ShadowPatronsInert' /\ LoansDated'
<1> DEFINE n == Len(patrons)
<1>1. /\ patrons \in Seq(Patron)
      /\ n \in Nat
      /\ DOMAIN patrons = 1..n
      /\ \A j \in 1..n : patrons[j] \in Patron /\ LoansOf(patrons[j])
  BY PatronAtType, LenProperties DEF IInv, TypeOK, LoansDated, LoansOf
<1> HIDE DEF n
<1>2. CASE UNCHANGED patrons
  BY <1>1, <1>2 DEF IInv, ShadowPatronsInert, LoansDated
<1>3. ASSUME NEW c \in Cards, patrons' = Append(patrons, NewPatron(c))
      PROVE  patrons' \in Seq(Patron) /\ ShadowPatronsInert' /\ LoansDated'
  <2> DEFINE p == NewPatron(c)
  <2>1. p \in Patron /\ p.card = c /\ LoansOf(p)
    BY NewPatronType
  <2>2. p = NewPatron(p.card)
    BY <2>1
  <2>3. patrons' = Append(patrons, p)
    BY <1>3
  <2> HIDE DEF p
  <2>4. /\ patrons' \in Seq(Patron)
        /\ DOMAIN patrons' = 1..(n+1)
        /\ \A j \in 1..n : patrons'[j] = patrons[j]
        /\ patrons'[n+1] = p
    BY <1>1, <2>1, <2>3, AppendProperties, LenProperties DEF n
  <2>5. ShadowPatronsInert'
    BY <1>1, <2>2, <2>4 DEF IInv, ShadowPatronsInert
  <2>6. LoansDated'
    BY <1>1, <2>1, <2>4 DEF LoansDated, LoansOf
  <2> QED BY <2>4, <2>5, <2>6
<1>4. ASSUME NEW p \in Patron, NEW f \in DOMAIN patrons,
             FirstPatron(f, p.card), LoansOf(p),
             patrons' = [patrons EXCEPT ![f] = p]
      PROVE  patrons' \in Seq(Patron) /\ ShadowPatronsInert' /\ LoansDated'
  <2>1. /\ patrons' \in Seq(Patron)
        /\ DOMAIN patrons' = 1..n
        /\ \A j \in 1..n : patrons'[j] = IF j = f THEN p ELSE patrons[j]
    <3>1. f \in 1..Len(patrons)
      BY <1>1 DEF n
    <3> QED BY <1>1, <1>4, <3>1, ExceptSeq, LenProperties DEF n
  <2>2. ShadowPatronsInert'
    BY <1>1, <1>4, <2>1 DEF IInv, ShadowPatronsInert, FirstPatron
  <2>3. LoansDated'
    BY <1>1, <1>4, <2>1 DEF LoansDated, LoansOf
  <2> QED BY <2>1, <2>2, <2>3
<1>5. CASE patrons' = <<>>
  <2>1. patrons' \in Seq(Patron) /\ DOMAIN patrons' = {}
    BY <1>5, EmptySeq, LenProperties
  <2> QED BY <2>1 DEF ShadowPatronsInert, LoansDated
<1> QED
  BY <1>2, <1>3, <1>4, <1>5 DEF PatronStep, PatronAdded, PatronWritten

-----------------------------------------------------------------------------

LEMMA InitInvariant == Init => IInv
<1> SUFFICES ASSUME Init PROVE IInv
  OBVIOUS
<1>1. catalog \in Seq(Holding) /\ patrons \in Seq(Patron)
  BY EmptySeq DEF Init
<1>2. DOMAIN catalog = {} /\ DOMAIN patrons = {}
  BY EmptySeq, LenProperties DEF Init
<1> QED
  BY <1>1, <1>2
     DEF Init, IInv, TypeOK, Outcomes, ShadowsInert, ShadowPatronsInert,
         LoansDated

LEMMA NextInvariant == IInv /\ [Next]_vars => IInv'
<1> SUFFICES ASSUME IInv, [Next]_vars PROVE IInv'
  OBVIOUS
<1>1. CatalogStep /\ PatronStep /\ outcome' \in Outcomes
  <2>1. CASE Next
    BY <2>1, CallIsStep
  <2>2. CASE UNCHANGED vars
    BY <2>2 DEF vars, CatalogStep, PatronStep, IInv, TypeOK
  <2> QED BY <2>1, <2>2
<1> QED
  BY <1>1, CatalogInvariant, PatronInvariant DEF IInv, TypeOK

\* The stores hold what their types say, duplicated entries and records stay as
\* they were added, and what a patron holds is dated: whatever clients call, for
\* all parameters.
THEOREM Invariance == Spec => []IInv
BY InitInvariant, NextInvariant, PTL DEF Spec

\* Type correctness of the catalogue, the patrons and the outcome.
THEOREM TypeCorrectness == Spec => []TypeOK
BY Invariance, PTL DEF IInv

\* An entry added for a bar code that was there already is never reached.
THEOREM ShadowsStayInert == Spec => []ShadowsInert
BY Invariance, PTL DEF IInv

\* A record added for a card that was there already is never reached.
THEOREM ShadowPatronsStayInert == Spec => []ShadowPatronsInert
BY Invariance, PTL DEF IInv

\* Patrons hold dated, checked-out copies, each once.
THEOREM LoansStayDated == Spec => []LoansDated
BY Invariance, PTL DEF IInv

UndatedByName ==
    \A i \in DOMAIN catalog' :
        LET h == catalog'[i]
        IN  /\ FirstCopy(i, catalog[i].copy)'
            /\ ~IsAvailable(h)
            /\ h.lastOut \notin Days
            => \/ i \in DOMAIN catalog /\ catalog[i] = h
               \/ NamesCheckedOut(h.copy)

\* In any use of the service by any clients, naming any branches, an entry that a
\* search finds is out since no day only by a call that names branch 99 for it.
THEOREM UndatedOnlyByName == Spec => OutUndatedByName
<1>1. IInv /\ [Next]_vars => UndatedByName
  <2> SUFFICES ASSUME IInv, [Next]_vars PROVE UndatedByName
    OBVIOUS
  <2>1. CatalogStep
    BY CallIsStep DEF vars, CatalogStep
  <2>2. CASE UNCHANGED catalog
    BY <2>2 DEF UndatedByName
  <2>3. CASE catalog' = <<>>
    BY <2>3, EmptySeq, LenProperties DEF UndatedByName
  <2>4. CASE LendsOut
    BY <2>4, EntryStepWrites DEF LendsOut, Written, UndatedByName
  <2>5. ASSUME NEW k \in Copy, NEW b \in BranchIds, FilesAt(k, b),
               b = CheckedOut => NamesCheckedOut(k)
        PROVE  UndatedByName
    BY <2>5, EntryStepWrites DEF FilesAt, Written, UndatedByName, IsAvailable
  <2> QED BY <2>1, <2>2, <2>3, <2>4, <2>5 DEF CatalogStep
<1> QED BY <1>1, Invariance, PTL DEF Spec, OutUndatedByName, UndatedByName

-----------------------------------------------------------------------------
(* What a call does to loans and balances.  The records a call writes are  *)
(* found by two searches that need not agree: the one checkIn makes for a  *)
(* holder of the title, which stops at the last, and the one update makes  *)
(* for the card, which stops at the first.  That they do agree is          *)
(* ShadowPatronsInert.                                                     *)

LEMMA FirstPatronIsOne ==
    ASSUME TypeOK, NEW c, NEW j, NEW l, FirstPatron(j, c), FirstPatron(l, c)
    PROVE  j = l
<1>1. j \in 1..Len(patrons) /\ l \in 1..Len(patrons) /\ Len(patrons) \in Nat
  BY LenProperties DEF TypeOK, FirstPatron
<1> QED BY <1>1 DEF FirstPatron

LoanMade(i, h) ==
    /\ i \in DOMAIN catalog
    /\ FirstCopy(i, h.copy)
    /\ catalog' = [catalog EXCEPT ![i] = h]
    /\ \/ UNCHANGED patrons
       \/ \E j \in DOMAIN patrons :
            patrons' = [patrons EXCEPT ![j] = Borrow(patrons[j], h)]

LEMMA CheckOutLends ==
    ASSUME IInv, NEW c \in Cards, NEW t \in Texts, NEW d \in Days, CheckOut(c, t, d)
    PROVE  UNCHANGED <<catalog, patrons>> \/ \E i, h : LoanMade(i, h)
<1>1. CASE BarcodeMissing(t)
  BY <1>1 DEF BarcodeMissing
<1>2. ASSUME NEW i \in DOMAIN catalog, FoundByBarCode(i, t),
             NEW h, h = CheckOutHolding(catalog[i], d),
             catalog' = [catalog EXCEPT ![i] = h],
             NEW p \in PatronRecord(c), UpdatePatron(Borrow(p, h))
      PROVE  LoanMade(i, h)
  <2>1. h \in Holding /\ h.copy = catalog[i].copy
        /\ h.lastOut \in Days /\ ~IsAvailable(h)
    <3>1. catalog[i] \in Holding
      BY EntryType DEF IInv
    <3> QED BY <1>2, <3>1, LentHolding
  <2>2. FirstCopy(i, h.copy)
    BY <1>2, <2>1 DEF FoundByBarCode, FirstCopy
  <2>3. p.card = c /\ Borrow(p, h).card = c
    BY <2>1, PatronRecordType, BorrowType
  <2>4. ASSUME NEW j \in DOMAIN patrons, FirstPatron(j, c)
        PROVE  p = patrons[j]
    <3>1. Registered(c)
      BY <2>4 DEF FirstPatron, Registered
    <3>2. PICK l \in DOMAIN patrons : FirstPatron(l, c) /\ p = patrons[l]
      BY <3>1 DEF PatronRecord
    <3> QED BY <2>4, <3>2, FirstPatronIsOne DEF IInv
  <2> QED BY <1>2, <2>2, <2>3, <2>4 DEF UpdatePatron, LoanMade
<1> QED BY <1>1, <1>2 DEF CheckOut

CopyFiled(i, h, b) ==
    /\ i \in DOMAIN catalog
    /\ catalog[i] \in Holding
    /\ FirstCopy(i, h.copy)
    /\ h.branch = b
    /\ h.lastOut = catalog[i].lastOut
    /\ catalog' = [catalog EXCEPT ![i] = h]

LoanReturned(h, d) ==
    \E j \in DOMAIN patrons :
        /\ HoldsTitle(patrons[j], h.copy.cls)
        /\ patrons' = [patrons EXCEPT ![j] =
                         AddFine(ReturnHolding(patrons[j], h), FineFor(h, d))]

DefaultOverwritten ==
    \E j \in DOMAIN patrons : \E q :
        /\ patrons[j].card = DefaultCard
        /\ q.held = {}
        /\ patrons' = [patrons EXCEPT ![j] = q]

LEMMA CheckInFiles ==
    ASSUME IInv, NEW b \in BranchIds, NEW t \in Texts, NEW d \in Days, CheckIn(t, d, b)
    PROVE  \/ UNCHANGED <<catalog, patrons>>
           \/ \E i, h : /\ CopyFiled(i, h, b)
                        /\ Returns(h.copy, b)
                        /\ \/ UNCHANGED patrons
                           \/ LoanReturned(h, d)
                           \/ DefaultOverwritten
<1>1. CASE BarcodeMissing(t)
  BY <1>1 DEF BarcodeMissing
<1>2. ASSUME NEW i \in DOMAIN catalog, FoundByBarCode(i, t),
             NEW h, h = CheckInHolding(catalog[i], b),
             catalog' = [catalog EXCEPT ![i] = h],
             \/ UNCHANGED patrons
             \/ \E p \in BorrowerRecord(h.copy.cls) :
                  UpdatePatron(AddFine(ReturnHolding(p, h), FineFor(h, d)))
      PROVE  /\ CopyFiled(i, h, b)
             /\ Returns(h.copy, b)
             /\ UNCHANGED patrons \/ LoanReturned(h, d) \/ DefaultOverwritten
  <2>1. /\ h \in Holding
        /\ h.copy = catalog[i].copy
        /\ CopyFiled(i, h, b)
        /\ Returns(h.copy, b)
    <3>1. catalog[i] \in Holding
      BY EntryType DEF IInv
    <3>2. h = TransferHolding(catalog[i], b)
      BY <1>2, <3>1, FiledHolding
    <3>3. h \in Holding /\ h.copy = catalog[i].copy /\ h.copy = ParseBarcode(t)
      BY <1>2, <3>1, <3>2, FiledHolding DEF FoundByBarCode, FirstCopy
    <3>4. CopyFiled(i, h, b)
      BY <1>2, <3>1, <3>2, <3>3, FiledHolding DEF CopyFiled, FoundByBarCode
    <3> QED BY <3>3, <3>4 DEF Returns
  <2>2. ASSUME NEW p \in BorrowerRecord(h.copy.cls),
               NEW q, q = AddFine(ReturnHolding(p, h), FineFor(h, d)),
               NEW f \in DOMAIN patrons, FirstPatron(f, q.card),
               patrons' = [patrons EXCEPT ![f] = q]
        PROVE  LoanReturned(h, d) \/ DefaultOverwritten
    <3>1. p \in Patron /\ LoansOf(p) /\ FineFor(h, d) \in Nat
      BY <2>1, BorrowerRecordType, FineForType
    <3>2. q.card = p.card /\ q.held = {x \in p.held : x.copy # h.copy}
      BY <2>1, <2>2, <3>1, ReturnType
    <3>3. CASE \E j \in DOMAIN patrons : HoldsTitle(patrons[j], h.copy.cls)
      <4>1. PICK l \in DOMAIN patrons :
              p = patrons[l] /\ HoldsTitle(patrons[l], h.copy.cls)
        BY <3>3 DEF BorrowerRecord, LastBorrower
      <4>2. patrons[l] # NewPatron(patrons[l].card)
        BY <4>1 DEF NewPatron, HoldsTitle
      <4>3. f \in 1..Len(patrons) /\ l \in 1..Len(patrons) /\ Len(patrons) \in Nat
        BY LenProperties DEF IInv, TypeOK
      <4>4. patrons[f].card = patrons[l].card /\ ~(l < f)
        BY <2>2, <3>2, <4>1, <4>3 DEF FirstPatron
      <4>5. ~(f < l)
        BY <4>2, <4>4 DEF IInv, ShadowPatronsInert
      <4>6. f = l
        BY <4>3, <4>4, <4>5
      <4> QED BY <2>2, <4>1, <4>6 DEF LoanReturned
    <3>4. CASE ~ \E j \in DOMAIN patrons : HoldsTitle(patrons[j], h.copy.cls)
      <4>1. p = NewPatron(DefaultCard)
        BY <3>4 DEF BorrowerRecord
      <4>2. p.card = DefaultCard /\ p.held = {}
        BY <4>1 DEF NewPatron
      <4> QED BY <2>2, <3>2, <4>2 DEF DefaultOverwritten, FirstPatron
    <3> QED BY <3>3, <3>4
  <2> QED BY <1>2, <2>1, <2>2 DEF UpdatePatron
<1> QED BY <1>1, <1>2 DEF CheckIn

\* Every other call leaves each patron as he was.
RecordsKept == \A j \in DOMAIN patrons : j \in DOMAIN patrons' => patrons'[j] = patrons[j]

NewRecordsEmpty ==
    \A j \in DOMAIN patrons' : j \notin DOMAIN patrons => patrons'[j].held = {}

LEMMA OtherCallsKeep ==
    ASSUME IInv, UNCHANGED patrons \/ PatronAdded \/ patrons' = <<>>
    PROVE  RecordsKept
<1>1. ASSUME NEW c \in Cards, patrons' = Append(patrons, NewPatron(c))
      PROVE  RecordsKept
  <2>1. patrons \in Seq(Patron) /\ NewPatron(c) \in Patron
    BY NewPatronType DEF IInv, TypeOK
  <2>2. \A j \in 1..Len(patrons) : Append(patrons, NewPatron(c))[j] = patrons[j]
    BY <2>1, AppendProperties
  <2> QED BY <1>1, <2>1, <2>2, LenProperties DEF RecordsKept
<1>2. CASE patrons' = <<>>
  BY <1>2, EmptySeq, LenProperties DEF RecordsKept
<1> QED BY <1>1, <1>2 DEF RecordsKept, PatronAdded

\* A call is a loan, a return, or neither.
LEMMA CallIsLoanOrReturn ==
    ASSUME IInv, [Next]_vars
    PROVE  \/ RecordsKept
           \/ \E i, h : LoanMade(i, h)
           \/ \E i, h : \E b \in BranchIds, d \in Days :
                /\ CopyFiled(i, h, b)
                /\ Returns(h.copy, b)
                /\ UNCHANGED patrons \/ LoanReturned(h, d) \/ DefaultOverwritten
<1>1. ASSUME NEW c \in Cards, NEW t \in Texts, NEW d \in Days, CheckOut(c, t, d)
      PROVE  RecordsKept \/ \E i, h : LoanMade(i, h)
  BY <1>1, CheckOutLends DEF RecordsKept
<1>2. ASSUME NEW b \in BranchIds, NEW t \in Texts, NEW d \in Days, CheckIn(t, d, b)
      PROVE  \/ RecordsKept
             \/ \E i, h : /\ CopyFiled(i, h, b)
                          /\ Returns(h.copy, b)
                          /\ UNCHANGED patrons \/ LoanReturned(h, d) \/ DefaultOverwritten
  BY <1>2, CheckInFiles DEF RecordsKept
<1>3. ASSUME \/ UNCHANGED vars
             \/ \E c \in Cards : AddPatron(c)
             \/ \E b \in BranchIds, t \in Texts : AddAtBranch(b, t)
             \/ \E b \in BranchIds, t \in Texts : Transfer(t, b)
             \/ \E t \in Texts, d \in Days \cup {NoDate}, b \in BranchIds :
                  TransferObject(ParseBarcode(t), d, b)
             \/ DeleteHoldings
             \/ DeletePatrons
      PROVE  RecordsKept
  <2>1. UNCHANGED patrons \/ PatronAdded \/ patrons' = <<>>
    BY <1>3 DEF vars, AddPatron, PatronAdded, AddAtBranch, Transfer, BarcodeMissing,
                TransferObject, DeleteHoldings, DeletePatrons
  <2> QED BY <2>1, OtherCallsKeep
<1> QED BY <1>1, <1>2, <1>3 DEF Next

LEMMA FiledIsFiledAt ==
    ASSUME TypeOK, NEW i, NEW h, NEW b, CopyFiled(i, h, b)
    PROVE  FiledAt(h.copy, b)'
<1>1. /\ i \in 1..Len(catalog) /\ Len(catalog) \in Nat
      /\ DOMAIN catalog = 1..Len(catalog)
      /\ DOMAIN catalog' = DOMAIN catalog
      /\ catalog'[i] = h
      /\ \A l \in DOMAIN catalog : l # i => catalog'[l] = catalog[l]
  BY LenProperties DEF CopyFiled, TypeOK
<1>2. FirstCopy(i, h.copy)'
  BY <1>1 DEF FirstCopy, CopyFiled
<1> QED BY <1>1, <1>2 DEF FiledAt, CopyFiled

LEMMA BorrowKeeps ==
    ASSUME NEW p \in Patron, NEW h
    PROVE  /\ Borrow(p, h).fine = p.fine
           /\ p.held \subseteq Borrow(p, h).held
           /\ Borrow(p, h).held \subseteq p.held \cup {h}
BY DEF Borrow, Patron

EndsInReturn ==
    \A j \in DOMAIN patrons : \A h \in patrons[j].held :
        /\ Kept(j)
        /\ patrons[j].card # DefaultCard
        /\ ~HoldsCopy(patrons'[j], h.copy)
        => \E b \in BranchIds : Returns(h.copy, b) /\ FiledAt(h.copy, b)'

\* In any use of the service by any clients, a patron ceases to hold a copy only
\* in a return of that copy, which files it at the branch of the return.
THEOREM LoansEndInReturn == Spec => LoanEndsInReturn
<1>1. IInv /\ [Next]_vars => EndsInReturn
  <2> SUFFICES ASSUME IInv, [Next]_vars, NEW j \in DOMAIN patrons,
                      NEW g \in patrons[j].held, Kept(j),
                      patrons[j].card # DefaultCard,
                      ~HoldsCopy(patrons'[j], g.copy)
               PROVE  \E b \in BranchIds : Returns(g.copy, b) /\ FiledAt(g.copy, b)'
    BY DEF EndsInReturn
  <2>1. patrons[j] \in Patron /\ LoansOf(patrons[j])
    BY PatronAtType DEF IInv, LoansDated, LoansOf
  <2>2. CASE RecordsKept
    BY <2>2 DEF RecordsKept, Kept, HoldsCopy
  <2>3. ASSUME NEW i, NEW h, LoanMade(i, h)
        PROVE  FALSE
    BY <2>1, <2>3, BorrowKeeps DEF LoanMade, HoldsCopy
  <2>4. ASSUME NEW i, NEW h, NEW b \in BranchIds, NEW d \in Days,
               CopyFiled(i, h, b), Returns(h.copy, b),
               UNCHANGED patrons \/ LoanReturned(h, d) \/ DefaultOverwritten
        PROVE  Returns(g.copy, b) /\ FiledAt(g.copy, b)'
    <3>1. CASE UNCHANGED patrons
      BY <3>1 DEF HoldsCopy
    <3>2. CASE LoanReturned(h, d)
      <4>1. PICK l \in DOMAIN patrons :
              patrons' = [patrons EXCEPT ![l] =
                            AddFine(ReturnHolding(patrons[l], h), FineFor(h, d))]
        BY <3>2 DEF LoanReturned
      <4>2. l = j
        BY <4>1 DEF HoldsCopy
      <4>3. patrons'[j].held = {x \in patrons[j].held : x.copy # h.copy}
        BY <2>1, <4>1, <4>2 DEF AddFine, ReturnHolding, Patron
      <4>4. g.copy = h.copy
        BY <4>3 DEF HoldsCopy
      <4>5. FiledAt(h.copy, b)'
        BY <2>4, FiledIsFiledAt DEF IInv
      <4> QED BY <2>4, <4>4, <4>5
    <3>3. CASE DefaultOverwritten
      BY <3>3 DEF DefaultOverwritten, HoldsCopy
    <3> QED BY <2>4, <3>1, <3>2, <3>3
  <2> QED BY <2>2, <2>3, <2>4, CallIsLoanOrReturn
<1> QED BY <1>1, Invariance, PTL DEF Spec, LoanEndsInReturn, EndsInReturn

StartsInCatalog ==
    \A j \in DOMAIN patrons' : \A h \in patrons'[j].held :
        /\ Kept(j)
        /\ h \notin patrons[j].held
        => \E i \in DOMAIN catalog' : FirstCopy(i, h.copy)' /\ catalog'[i] = h

\* In any use of the service, a patron gets to hold only what the catalogue then
\* says is out, since the same day.
THEOREM LoansStartInCatalog == Spec => LoanStartsInCatalog
<1>1. IInv /\ [Next]_vars => StartsInCatalog
  <2> SUFFICES ASSUME IInv, [Next]_vars, NEW j \in DOMAIN patrons',
                      NEW g \in patrons'[j].held, Kept(j), g \notin patrons[j].held
               PROVE  \E i \in DOMAIN catalog' :
                        FirstCopy(i, g.copy)' /\ catalog'[i] = g
    BY DEF StartsInCatalog
  <2>1. j \in DOMAIN patrons /\ patrons[j] \in Patron
    BY PatronAtType DEF IInv, Kept
  <2>2. ~RecordsKept
    BY <2>1 DEF RecordsKept
  <2>3. ASSUME NEW i, NEW h, LoanMade(i, h)
        PROVE  \E l \in DOMAIN catalog' : FirstCopy(l, g.copy)' /\ catalog'[l] = g
    <3>1. g = h
      BY <2>1, <2>3, BorrowKeeps DEF LoanMade
    <3>2. /\ i \in 1..Len(catalog) /\ Len(catalog) \in Nat
          /\ DOMAIN catalog = 1..Len(catalog)
          /\ DOMAIN catalog' = DOMAIN catalog
          /\ catalog'[i] = h
          /\ \A l \in DOMAIN catalog : l # i => catalog'[l] = catalog[l]
      BY <2>3, LenProperties DEF LoanMade, IInv, TypeOK
    <3>3. FirstCopy(i, h.copy)'
      BY <2>3, <3>2 DEF FirstCopy, LoanMade
    <3> QED BY <3>1, <3>2, <3>3
  <2>4. ASSUME NEW h, NEW d \in Days,
               UNCHANGED patrons \/ LoanReturned(h, d) \/ DefaultOverwritten
        PROVE  FALSE
    <3>1. ~LoanReturned(h, d)
      <4>1. ASSUME NEW l \in DOMAIN patrons,
                   patrons' = [patrons EXCEPT ![l] =
                                 AddFine(ReturnHolding(patrons[l], h), FineFor(h, d))]
            PROVE  FALSE
        <5>1. l = j
          BY <2>1, <4>1
        <5>2. patrons'[j].held \subseteq patrons[j].held
          BY <2>1, <4>1, <5>1 DEF AddFine, ReturnHolding, Patron
        <5> QED BY <5>2
      <4> QED BY <4>1 DEF LoanReturned
    <3>2. ~DefaultOverwritten
      BY <2>1 DEF DefaultOverwritten
    <3> QED BY <2>4, <3>1, <3>2
  <2> QED BY <2>2, <2>3, <2>4, CallIsLoanOrReturn
<1> QED BY <1>1, Invariance, PTL DEF Spec, LoanStartsInCatalog, StartsInCatalog

FinedInReturn ==
    \A j \in DOMAIN patrons :
        /\ Kept(j)
        /\ patrons[j].card # DefaultCard
        /\ patrons'[j].fine # patrons[j].fine
        => \E h \in {catalog[i] : i \in DOMAIN catalog}, b \in BranchIds :
             /\ Returns(h.copy, b)
             /\ FiledAt(h.copy, b)'
             /\ HoldsTitle(patrons[j], h.copy.cls)
             /\ h.lastOut \in Days
             /\ patrons'[j].fine = patrons[j].fine + LateFine(TypeOf[h.copy.cls])

\* In any use of the service, a patron pays only for a title he holds, when a
\* copy of it that had been lent is returned, and its fine.
THEOREM FinesForTitlesHeld == Spec => FinedForTitleHeld
<1>1. IInv /\ [Next]_vars => FinedInReturn
  <2> SUFFICES ASSUME IInv, [Next]_vars, NEW j \in DOMAIN patrons, Kept(j),
                      patrons[j].card # DefaultCard,
                      patrons'[j].fine # patrons[j].fine
               PROVE  \E g \in {catalog[i] : i \in DOMAIN catalog}, b \in BranchIds :
                        /\ Returns(g.copy, b)
                        /\ FiledAt(g.copy, b)'
                        /\ HoldsTitle(patrons[j], g.copy.cls)
                        /\ g.lastOut \in Days
                        /\ patrons'[j].fine =
                             patrons[j].fine + LateFine(TypeOf[g.copy.cls])
    BY DEF FinedInReturn
  <2>1. patrons[j] \in Patron
    BY PatronAtType DEF IInv
  <2>2. ~RecordsKept
    BY DEF RecordsKept, Kept
  <2>3. ASSUME NEW i, NEW h
        PROVE  ~LoanMade(i, h)
    BY <2>1, BorrowKeeps DEF LoanMade
  <2>4. ASSUME NEW i, NEW h, NEW b \in BranchIds, NEW d \in Days,
               CopyFiled(i, h, b), Returns(h.copy, b),
               UNCHANGED patrons \/ LoanReturned(h, d) \/ DefaultOverwritten,
               NEW g, g = catalog[i]
        PROVE  /\ i \in DOMAIN catalog
               /\ Returns(g.copy, b)
               /\ FiledAt(g.copy, b)'
               /\ HoldsTitle(patrons[j], g.copy.cls)
               /\ g.lastOut \in Days
               /\ patrons'[j].fine =
                    patrons[j].fine + LateFine(TypeOf[g.copy.cls])
    <3>1. LoanReturned(h, d)
      BY <2>4 DEF DefaultOverwritten
    <3>2. PICK l \in DOMAIN patrons :
            /\ HoldsTitle(patrons[l], h.copy.cls)
            /\ patrons' = [patrons EXCEPT ![l] =
                             AddFine(ReturnHolding(patrons[l], h), FineFor(h, d))]
      BY <3>1 DEF LoanReturned
    <3>3. l = j
      BY <3>2
    <3>4. patrons'[j].fine = patrons[j].fine + FineFor(h, d)
      BY <2>1, <3>2, <3>3 DEF AddFine, ReturnHolding, Patron
    <3>5. FineFor(h, d) # 0
      BY <2>1, <3>4 DEF Patron
    <3>6. h.lastOut # NoDate /\ FineFor(h, d) = LateFine(TypeOf[h.copy.cls])
      BY <3>5 DEF FineFor, IsLate
    <3>7. i \in DOMAIN catalog /\ h.copy = g.copy
      BY <2>4 DEF CopyFiled, FirstCopy
    <3>8. g.lastOut \in Days
      BY <2>4, <3>6 DEF CopyFiled, Holding
    <3>9. FiledAt(h.copy, b)'
      BY <2>4, FiledIsFiledAt DEF IInv
    <3>10. FiledAt(g.copy, b)'
      BY <3>7, <3>9
    <3> QED BY <2>4, <3>2, <3>3, <3>4, <3>6, <3>7, <3>8, <3>10
  <2>5. PICK i, h : \E b \in BranchIds, d \in Days :
          /\ CopyFiled(i, h, b)
          /\ Returns(h.copy, b)
          /\ UNCHANGED patrons \/ LoanReturned(h, d) \/ DefaultOverwritten
    BY <2>2, <2>3, CallIsLoanOrReturn
  <2> QED BY <2>4, <2>5
<1> QED BY <1>1, Invariance, PTL DEF Spec, FinedForTitleHeld, FinedInReturn

Footprint ==
    /\ outcome' \in {"InvalidBarcode", "HoldingNotFound"}
         => UNCHANGED <<catalog, patrons>>
    /\ outcome' = "ClassificationNotFound"
         => /\ UNCHANGED patrons
            /\ \E i \in DOMAIN catalog : \E b \in BranchIds :
                 /\ catalog' = [catalog EXCEPT ![i].branch = b]
                 /\ TypeOf[catalog[i].copy.cls] = "unlisted"

\* In any use of the service, a call that refuses its bar code has done nothing,
\* and one that fails on an unlisted title has only moved that copy.
THEOREM ThrowsLeaveFootprint == Spec => ThrowFootprint
<1>1. [Next]_vars => [Footprint]_vars
  <2> USE DEF Footprint
  <2>1. ASSUME NEW t, BarcodeMissing(t)
        PROVE  Footprint
    BY <2>1 DEF BarcodeMissing, ReadPastEnd
  <2>2. ASSUME NEW p, UpdatePatron(p)
        PROVE  outcome' \in {"ok", "crashed"}
    BY <2>2 DEF UpdatePatron, LostWrite
  <2>3. ASSUME NEW c \in Cards, NEW t \in Texts, NEW d \in Days, CheckOut(c, t, d)
        PROVE  Footprint
    BY <2>1, <2>2, <2>3 DEF CheckOut
  <2>4. ASSUME NEW b \in BranchIds, NEW t \in Texts, NEW d \in Days, CheckIn(t, d, b)
        PROVE  Footprint
    <3>1. CASE BarcodeMissing(t)
      BY <2>1, <3>1
    <3>2. ASSUME NEW i \in DOMAIN catalog,
                 catalog' = [catalog EXCEPT ![i] = CheckInHolding(catalog[i], b)],
                 TypeOf[CheckInHolding(catalog[i], b).copy.cls] = "unlisted",
                 UNCHANGED patrons, outcome' = "ClassificationNotFound"
          PROVE  Footprint
      <4>1. CheckInHolding(catalog[i], b) = [catalog[i] EXCEPT !.branch = b]
        BY DEF CheckInHolding
      <4>2. CheckInHolding(catalog[i], b).copy = catalog[i].copy
        BY <4>1
      <4> QED BY <3>2, <4>1, <4>2
    <3> QED BY <2>2, <2>4, <3>1, <3>2 DEF CheckIn
  <2>5. ASSUME \/ \E c \in Cards : AddPatron(c)
               \/ \E b \in BranchIds, t \in Texts : AddAtBranch(b, t)
               \/ \E t \in Texts, d \in Days \cup {NoDate}, b \in BranchIds :
                    TransferObject(ParseBarcode(t), d, b)
               \/ DeleteHoldings
               \/ DeletePatrons
        PROVE  Footprint
    BY <2>5 DEF AddPatron, AddAtBranch, TransferObject, DeleteHoldings, DeletePatrons
  <2>6. ASSUME NEW b \in BranchIds, NEW t \in Texts, Transfer(t, b)
        PROVE  Footprint
    BY <2>1, <2>6 DEF Transfer
  <2> QED BY <2>3, <2>4, <2>5, <2>6 DEF Next
<1> QED BY <1>1, PTL DEF Spec, ThrowFootprint, Footprint

-----------------------------------------------------------------------------
(* The inventory report.                                                   *)

Stops(i) == TypeOf[catalog[i].copy.cls] \in {"unlisted", "book"}

CopiesStay ==
    \A i \in DOMAIN catalog :
        i \in DOMAIN catalog' /\ catalog'[i].copy = catalog[i].copy

\* Entries keep their places and their copies; new ones come after them.
LEMMA StepsKeepCopies ==
    ASSUME IInv, CatalogStep
    PROVE  catalog' = <<>> \/ CopiesStay
<1> catalog \in Seq(Holding)
  BY DEF IInv, TypeOK
<1>1. ASSUME NEW h
      PROVE  /\ DOMAIN catalog \subseteq DOMAIN Append(catalog, h)
             /\ \A i \in DOMAIN catalog : Append(catalog, h)[i] = catalog[i]
  OBVIOUS
<1>2. ASSUME NEW h, EntryShadowed(h)
      PROVE  CopiesStay
  <2>1. PICK i \in DOMAIN catalog :
               /\ catalog[i].copy = h.copy
               /\ catalog' = [Append(catalog, NewHolding(h.copy)) EXCEPT ![i] = h]
    BY <1>2 DEF EntryShadowed, FirstCopy
  <2> DEFINE added == Append(catalog, NewHolding(h.copy))
  <2>2. /\ DOMAIN catalog \subseteq DOMAIN added
        /\ \A j \in DOMAIN catalog : added[j] = catalog[j]
    BY <1>1
  <2>3. catalog' = [added EXCEPT ![i] = h]
    BY <2>1
  <2> HIDE DEF added
  <2> QED BY <2>1, <2>2, <2>3 DEF CopiesStay
<1>3. ASSUME NEW h, EntryWritten(h)
      PROVE  CopiesStay
  BY <1>3 DEF EntryWritten, FirstCopy, CopiesStay
<1>4. ASSUME NEW h, EntryStep(h)
      PROVE  CopiesStay
  BY <1>1, <1>2, <1>3, <1>4 DEF EntryStep, EntryAdded, CopiesStay
<1> QED BY <1>4 DEF CatalogStep, LendsOut, FilesAt, CopiesStay

\* The report ends at the first entry that stops it.
StopsAtBook ==
    \E i \in DOMAIN catalog :
        /\ TypeOf[catalog[i].copy.cls] = "book"
        /\ \A j \in DOMAIN catalog : Stops(j) => i <= j

LEMMA HowReportEnds ==
    Report = IF ~ \E i \in DOMAIN catalog : Stops(i) THEN "printed"
             ELSE IF StopsAtBook THEN "connection unavailable"
             ELSE "ClassificationNotFound"
BY DEF Report, StopsAtBook, Stops

LEMMA SameReport ==
    ASSUME IInv, CopiesStay, catalog' \in Seq(Holding), Report # "printed"
    PROVE  Report' = Report
<1>1. /\ DOMAIN catalog = 1..Len(catalog) /\ Len(catalog) \in Nat
      /\ DOMAIN catalog' = 1..Len(catalog') /\ Len(catalog') \in Nat
  BY LenProperties DEF IInv, TypeOK
<1>2. \A i \in DOMAIN catalog : i \in DOMAIN catalog' /\ (Stops(i) <=> Stops(i)')
  BY DEF CopiesStay, Stops
<1>3. PICK k \in DOMAIN catalog : Stops(k)
  BY HowReportEnds
<1>4. StopsAtBook => StopsAtBook'
  BY <1>1, <1>2 DEF StopsAtBook, CopiesStay
<1>5. StopsAtBook' => StopsAtBook
  <2> SUFFICES ASSUME NEW i \in DOMAIN catalog',
                      TypeOf[catalog'[i].copy.cls] = "book",
                      \A j \in DOMAIN catalog' : Stops(j)' => i <= j
               PROVE  StopsAtBook
    BY DEF StopsAtBook
  <2>1. i <= k
    BY <1>2, <1>3
  <2>2. i \in DOMAIN catalog
    BY <1>1, <2>1
  <2> QED BY <1>2, <2>2 DEF StopsAtBook, CopiesStay
<1>6. k \in DOMAIN catalog' /\ Stops(k)'
  BY <1>2, <1>3
<1>7. Report' = IF ~ \E i \in DOMAIN catalog' : Stops(i)' THEN "printed"
                ELSE IF StopsAtBook' THEN "connection unavailable"
                ELSE "ClassificationNotFound"
  BY DEF Report, StopsAtBook, Stops
<1> QED BY <1>3, <1>4, <1>5, <1>6, <1>7, HowReportEnds

\* In any use of the service, one entry that cannot be listed ends every later report
\* in the same way until the catalogue is emptied.
THEOREM ReportsStayBroken == Spec => ReportStaysBroken
<1>1. ASSUME IInv, IInv', [Next]_vars,
             catalog' \notin {catalog, <<>>}, Report # "printed"
      PROVE  Report' = Report
  <2>1. CatalogStep
    BY <1>1, CallIsStep DEF vars, CatalogStep
  <2>2. CopiesStay /\ catalog' \in Seq(Holding)
    BY <1>1, <2>1, StepsKeepCopies DEF IInv, TypeOK
  <2> QED BY <1>1, <2>2, SameReport
<1> QED BY <1>1, Invariance, PTL DEF Spec, ReportStaysBroken

==============================================================================
