--------------------------- MODULE LendingDeskProofs ---------------------------
(***************************************************************************)
(* The careful desk, for all parameters: catalogue and patrons agree, no   *)
(* call fails, and the service keeps the promises of Lending.              *)
(*                                                                         *)
(* None of the invariants is inductive alone.  That checkIn finds the      *)
(* right patron needs both that somebody holds the copy (Custody) and that *)
(* nobody else holds its title (OneOfTitleOut); that the copy it removes   *)
(* is the one the catalogue shelves needs one entry per copy.  DeskInv is  *)
(* their conjunction with the invariants of HoldingService and the facts   *)
(* that only listed copies of the desk are catalogued (Listed) and only    *)
(* cards in use joined (Joined).                                           *)
(***************************************************************************)
EXTENDS LendingDesk, HoldingServiceProofs

Listed ==
    \A i \in DOMAIN catalog :
        /\ catalog[i].copy \in DeskCopies
        /\ TypeOf[catalog[i].copy.cls] # "unlisted"

Joined == \A j \in DOMAIN patrons : patrons[j].card \in Cards

DeskInv ==
    /\ IInv
    /\ NoFailure
    /\ OneEntryEach
    /\ Custody
    /\ OneOfTitleOut
    /\ Listed
    /\ Joined
    /\ today \in Days

-----------------------------------------------------------------------------
(* The steps of the desk, with the searches resolved.                      *)

LoanAdded(p, h) ==
    [card |-> p.card, held |-> p.held \cup {h}, fine |-> p.fine]

LoanEnded(p, h, n) ==
    [card |-> p.card, held |-> p.held \ {h}, fine |-> p.fine + n]

JoinStep(c) ==
    /\ ~Registered(c)
    /\ patrons' = Append(patrons, NewPatron(c))
    /\ UNCHANGED catalog

AcquireStep(k, b) ==
    /\ ~Catalogued(k)
    /\ TypeOf[k.cls] # "unlisted"
    /\ catalog' = Append(catalog, TransferHolding(NewHolding(k), b))
    /\ UNCHANGED patrons

MoveStep(i, b) ==
    /\ IsAvailable(catalog[i])
    /\ catalog' = [catalog EXCEPT ![i] = TransferHolding(catalog[i], b)]
    /\ UNCHANGED patrons

LendStep(i, j, d) ==
    LET h == CheckOutHolding(catalog[i], d)
    IN  /\ IsAvailable(catalog[i])
        /\ ~TitleOut(catalog[i].copy.cls)
        /\ catalog' = [catalog EXCEPT ![i] = h]
        /\ patrons' = [patrons EXCEPT ![j] = LoanAdded(patrons[j], h)]

ReturnStep(i, j, d, b) ==
    /\ catalog[i] \in patrons[j].held
    /\ catalog' = [catalog EXCEPT ![i] = TransferHolding(catalog[i], b)]
    /\ patrons' = [patrons EXCEPT ![j] =
                     LoanEnded(patrons[j], catalog[i], FineFor(catalog[i], d))]

DeskStep ==
    \/ \E c \in Cards : JoinStep(c)
    \/ \E k \in DeskCopies, b \in DeskBranches : AcquireStep(k, b)
    \/ \E i \in DOMAIN catalog, b \in DeskBranches : MoveStep(i, b)
    \/ \E i \in DOMAIN catalog, j \in DOMAIN patrons : LendStep(i, j, today)
    \/ \E i \in DOMAIN catalog, j \in DOMAIN patrons, b \in DeskBranches :
         ReturnStep(i, j, today, b)

\* What a desk files is on a shelf.
LEMMA DeskHolding ==
    ASSUME NEW h \in Holding, NEW b \in DeskBranches
    PROVE  /\ TransferHolding(h, b) \in Holding
           /\ TransferHolding(h, b).copy = h.copy
           /\ TransferHolding(h, b).lastOut = h.lastOut
           /\ IsAvailable(TransferHolding(h, b))
           /\ CheckInHolding(h, b) = TransferHolding(h, b)
BY FiledHolding DEF DeskBranches, IsAvailable

LEMMA FoundIsUnique ==
    ASSUME OneEntryEach, NEW t, NEW i \in DOMAIN catalog, NEW l \in DOMAIN catalog,
           FoundByBarCode(i, t), FoundByBarCode(l, t)
    PROVE  i = l
BY DEF OneEntryEach, FoundByBarCode, FirstCopy

\* With a found bar code a call does not run past the end of the catalogue.
LEMMA FoundIsNotMissing ==
    ASSUME NEW t, NEW i \in DOMAIN catalog, FoundByBarCode(i, t)
    PROVE  ~BarcodeMissing(t)
BY DEF BarcodeMissing

LEMMA FoundCopy ==
    ASSUME NEW t, NEW i, FoundByBarCode(i, t)
    PROVE  catalog[i].copy.cls = t.cls
BY DEF FoundByBarCode, FirstCopy, ParseBarcode

\* With its card registered a patron's record is written, not lost.
LEMMA UpdateOfRegistered ==
    ASSUME DeskInv, NEW j \in DOMAIN patrons,
           NEW q, q.card = patrons[j].card, UpdatePatron(q)
    PROVE  /\ patrons' = [patrons EXCEPT ![j] = q]
           /\ outcome' = "ok"
BY DEF DeskInv, OneEntryEach, UpdatePatron, FirstPatron, Registered

LEMMA RegisteredRecord ==
    ASSUME DeskInv, NEW j \in DOMAIN patrons, NEW p \in PatronRecord(patrons[j].card)
    PROVE  p = patrons[j]
BY DEF DeskInv, OneEntryEach, PatronRecord, FirstPatron, Registered

\* The patron checkIn takes for the borrower has the copy that came back.
LEMMA BorrowerIsHolder ==
    ASSUME DeskInv, NEW j \in DOMAIN patrons, NEW h \in patrons[j].held,
           NEW p \in BorrowerRecord(h.copy.cls)
    PROVE  p = patrons[j]
<1>1. HoldsTitle(patrons[j], h.copy.cls)
  BY DEF HoldsTitle
<1>2. \A l \in DOMAIN patrons : HoldsTitle(patrons[l], h.copy.cls) => l = j
  BY DEF DeskInv, OneOfTitleOut, HoldsTitle
<1> QED BY <1>1, <1>2 DEF BorrowerRecord, LastBorrower
LEMMA DeskCallIsStep ==
    ASSUME DeskInv, DeskCall
    PROVE  DeskStep /\ outcome' = "ok"
<1> USE DEF DeskInv
<1>0. TypeOK
  BY DEF IInv
<1>1. ASSUME NEW c \in Cards, Join(c)
      PROVE  DeskStep /\ outcome' = "ok"
  BY <1>1 DEF Join, AddPatron, DeskStep, JoinStep
<1>2. ASSUME NEW b \in DeskBranches, NEW t \in Texts, Acquire(b, t)
      PROVE  DeskStep /\ outcome' = "ok"
  <2> DEFINE k == ParseBarcode(t)
  <2>1. k \in DeskCopies /\ k.cls = t.cls /\ NewHolding(k).copy = k
    BY <1>2 DEF Acquire, DeskCopies, ParseBarcode, NewHolding
  <2>2. /\ ~Catalogued(k)
        /\ t.colon
        /\ TypeOf[t.cls] # "unlisted"
        /\ UNCHANGED patrons
        /\ outcome' = "ok"
    BY <1>2 DEF Acquire, AddAtBranch
  <2>3. ~ \E i \in DOMAIN catalog : FirstCopy(i, k)
    BY <2>2 DEF Catalogued, FirstCopy
  <2>4. catalog' = Append(catalog, TransferHolding(NewHolding(k), b))
    BY <1>2, <2>1, <2>2, <2>3 DEF Acquire, AddAtBranch
  <2> HIDE DEF k
  <2> QED BY <2>1, <2>2, <2>4 DEF DeskStep, AcquireStep
<1>3. ASSUME NEW b \in DeskBranches, NEW t \in Texts, Move(t, b)
      PROVE  DeskStep /\ outcome' = "ok"
  <2>1. PICK i \in DOMAIN catalog : FoundByBarCode(i, t) /\ IsAvailable(catalog[i])
    BY <1>3 DEF Move, ShelvedAs
  <2>2. /\ catalog' = [catalog EXCEPT ![i] = TransferHolding(catalog[i], b)]
        /\ outcome' = "ok"
        /\ UNCHANGED patrons
    BY <1>3, <2>1, FoundIsUnique, FoundIsNotMissing DEF Move, Transfer
  <2> QED BY <2>1, <2>2 DEF DeskStep, MoveStep
<1>4. ASSUME NEW c \in Cards, NEW t \in Texts, Lend(c, t)
      PROVE  DeskStep /\ outcome' = "ok"
  <2>1. PICK i \in DOMAIN catalog : FoundByBarCode(i, t) /\ IsAvailable(catalog[i])
    BY <1>4 DEF Lend, ShelvedAs
  <2>2. PICK j \in DOMAIN patrons : patrons[j].card = c
    BY <1>4 DEF Lend, Registered
  <2> DEFINE h == CheckOutHolding(catalog[i], today)
  <2>3. /\ catalog' = [catalog EXCEPT ![i] = h]
        /\ \E p \in PatronRecord(c) : UpdatePatron(Borrow(p, h))
    BY <1>4, <2>1, FoundIsUnique, FoundIsNotMissing DEF Lend, CheckOut
  <2>4. h.copy = catalog[i].copy
    BY <1>0, EntryType, LentHolding
  <2> HIDE DEF h
  <2>5. UpdatePatron(Borrow(patrons[j], h))
    BY <2>2, <2>3, RegisteredRecord
  <2>6. ~TitleOut(catalog[i].copy.cls)
    BY <1>4, <2>1, FoundCopy DEF Lend
  <2>7. ~ \E x \in patrons[j].held : x.copy = h.copy
    BY <2>4, <2>6 DEF TitleOut, HoldsTitle
  <2>8. Borrow(patrons[j], h) = LoanAdded(patrons[j], h)
    <3>1. patrons[j] \in Patron
      BY <1>0, PatronAtType
    <3> QED BY <2>7, <3>1 DEF Borrow, LoanAdded, Patron
  <2>9. LoanAdded(patrons[j], h).card = patrons[j].card
    BY DEF LoanAdded
  <2>10. patrons' = [patrons EXCEPT ![j] = LoanAdded(patrons[j], h)] /\ outcome' = "ok"
    BY <2>5, <2>8, <2>9, UpdateOfRegistered
  <2> QED BY <2>1, <2>3, <2>6, <2>10 DEF DeskStep, LendStep, h
<1>5. ASSUME NEW b \in DeskBranches, NEW t \in Texts, TakeBack(t, b)
      PROVE  DeskStep /\ outcome' = "ok"
  <2>1. PICK i \in DOMAIN catalog : FoundByBarCode(i, t) /\ ~IsAvailable(catalog[i])
    BY <1>5 DEF TakeBack, LentAs
  <2>2. PICK j \in DOMAIN patrons : catalog[i] \in patrons[j].held
    BY <2>1 DEF Custody
  <2> DEFINE h == TransferHolding(catalog[i], b)
             q == AddFine(ReturnHolding(patrons[j], h), FineFor(h, today))
  <2>3. /\ catalog[i] \in Holding
        /\ h = CheckInHolding(catalog[i], b)
        /\ h \in Holding
        /\ h.copy = catalog[i].copy
        /\ h.lastOut = catalog[i].lastOut
    BY <1>0, EntryType, DeskHolding
  <2>4. /\ catalog' = [catalog EXCEPT ![i] = h]
        /\ \E p \in BorrowerRecord(h.copy.cls) :
             UpdatePatron(AddFine(ReturnHolding(p, h), FineFor(h, today)))
    <3>1. TypeOf[h.copy.cls] # "unlisted"
      BY <2>3 DEF Listed
    <3> QED
      BY <1>5, <2>1, <2>3, <3>1, FoundIsUnique, FoundIsNotMissing
         DEF TakeBack, CheckIn
  <2>5. UpdatePatron(q)
    BY <2>2, <2>3, <2>4, BorrowerIsHolder
  <2>6. patrons[j] \in Patron /\ LoansOf(patrons[j])
    BY <1>0, PatronAtType DEF IInv, LoansDated, LoansOf
  <2>7. FineFor(h, today) = FineFor(catalog[i], today) /\ FineFor(h, today) \in Nat
    BY <2>3, FineForType DEF FineFor, IsLate
  <2> HIDE DEF h
  <2>8. /\ q \in Patron
        /\ q.card = patrons[j].card
        /\ q.fine = patrons[j].fine + FineFor(h, today)
        /\ q.held = {x \in patrons[j].held : x.copy # h.copy}
    BY <2>3, <2>6, <2>7, ReturnType
  <2> HIDE DEF q
  <2>9. q.held = patrons[j].held \ {catalog[i]}
    BY <2>2, <2>3, <2>6, <2>8 DEF LoansOf
  <2>10. q = LoanEnded(patrons[j], catalog[i], FineFor(catalog[i], today))
    BY <2>7, <2>8, <2>9 DEF LoanEnded, Patron
  <2>11. patrons' = [patrons EXCEPT ![j] = q] /\ outcome' = "ok"
    BY <2>5, <2>8, UpdateOfRegistered
  <2> QED BY <2>2, <2>4, <2>10, <2>11 DEF DeskStep, ReturnStep, h
<1> QED BY <1>1, <1>2, <1>3, <1>4, <1>5 DEF DeskCall
-----------------------------------------------------------------------------
(* Each step keeps the two stores in agreement.                            *)

Agreement == OneEntryEach /\ Custody /\ OneOfTitleOut /\ Listed /\ Joined

LEMMA AppendExtends ==
    ASSUME NEW S, NEW s \in Seq(S), NEW e \in S
    PROVE  \E n : /\ n \notin DOMAIN s
                 /\ DOMAIN Append(s, e) = DOMAIN s \cup {n}
                 /\ Append(s, e)[n] = e
                 /\ \A i \in DOMAIN s : Append(s, e)[i] = s[i]
<1>1. /\ Append(s, e) \in Seq(S)
      /\ Len(s) \in Nat
      /\ DOMAIN s = 1..Len(s)
      /\ DOMAIN Append(s, e) = 1..(Len(s) + 1)
      /\ Append(s, e)[Len(s) + 1] = e
      /\ \A i \in 1..Len(s) : Append(s, e)[i] = s[i]
  BY AppendProperties, LenProperties
<1>2. /\ Len(s) + 1 \notin DOMAIN s
      /\ DOMAIN Append(s, e) = DOMAIN s \cup {Len(s) + 1}
  BY <1>1
<1> QED BY <1>1, <1>2

LEMMA JoinAgreement ==
    ASSUME DeskInv, NEW c \in Cards, JoinStep(c)
    PROVE  Agreement'
<1> DEFINE p == NewPatron(c)
<1>1. p \in Patron /\ p.card = c /\ p.held = {}
  BY NewPatronType DEF NewPatron
<1>2. patrons \in Seq(Patron) /\ patrons' = Append(patrons, p)
  BY DEF JoinStep, DeskInv, IInv, TypeOK
<1> HIDE DEF p
<1>3. PICK n : /\ n \notin DOMAIN patrons
               /\ DOMAIN patrons' = DOMAIN patrons \cup {n}
               /\ patrons'[n] = p
               /\ \A j \in DOMAIN patrons : patrons'[j] = patrons[j]
  BY <1>1, <1>2, AppendExtends
<1>4. OneEntryEach'
  BY <1>1, <1>3 DEF DeskInv, OneEntryEach, JoinStep, Registered
<1>5. Custody'
  BY <1>1, <1>3 DEF DeskInv, Custody, JoinStep
<1>6. OneOfTitleOut'
  BY <1>1, <1>3 DEF DeskInv, OneOfTitleOut
<1>7. Listed'
  BY DEF DeskInv, Listed, JoinStep
<1>8. Joined'
  BY <1>1, <1>3 DEF DeskInv, Joined
<1> QED BY <1>4, <1>5, <1>6, <1>7, <1>8 DEF Agreement

LEMMA DeskCopyType == DeskCopies \subseteq Copy
BY ParseBarcodeType, TextsAssumption DEF DeskCopies

LEMMA AcquireAgreement ==
    ASSUME DeskInv, NEW k \in DeskCopies, NEW b \in DeskBranches, AcquireStep(k, b)
    PROVE  Agreement'
<1> DEFINE h == TransferHolding(NewHolding(k), b)
<1>1. h \in Holding /\ h.copy = k /\ IsAvailable(h)
  BY DeskCopyType, NewHoldingType, DeskHolding
<1>2. catalog \in Seq(Holding) /\ catalog' = Append(catalog, h)
  BY DEF AcquireStep, DeskInv, IInv, TypeOK
<1> HIDE DEF h
<1>3. PICK n : /\ n \notin DOMAIN catalog
               /\ DOMAIN catalog' = DOMAIN catalog \cup {n}
               /\ catalog'[n] = h
               /\ \A i \in DOMAIN catalog : catalog'[i] = catalog[i]
  BY <1>1, <1>2, AppendExtends
<1>4. OneEntryEach'
  BY <1>1, <1>3 DEF DeskInv, OneEntryEach, AcquireStep, Catalogued
<1>5. Custody'
  BY <1>1, <1>3 DEF DeskInv, Custody, AcquireStep
<1>6. OneOfTitleOut'
  BY DEF DeskInv, OneOfTitleOut, AcquireStep
<1>7. Listed'
  BY <1>1, <1>3 DEF DeskInv, Listed, AcquireStep
<1>8. Joined'
  BY DEF DeskInv, Joined, AcquireStep
<1> QED BY <1>4, <1>5, <1>6, <1>7, <1>8 DEF Agreement

\* What a patron holds is not on a shelf.
LEMMA HeldIsOut ==
    ASSUME DeskInv, NEW j \in DOMAIN patrons, NEW h \in patrons[j].held
    PROVE  ~IsAvailable(h)
BY DEF DeskInv, IInv, LoansDated

LEMMA MoveAgreement ==
    ASSUME DeskInv, NEW i \in DOMAIN catalog, NEW b \in DeskBranches, MoveStep(i, b)
    PROVE  Agreement'
<1> DEFINE h == TransferHolding(catalog[i], b)
<1>1. h.copy = catalog[i].copy /\ IsAvailable(h)
  BY EntryType, DeskHolding DEF DeskInv, IInv
<1>2. catalog' = [catalog EXCEPT ![i] = h] /\ patrons' = patrons
  BY DEF MoveStep
<1> HIDE DEF h
<1>3. /\ DOMAIN catalog' = DOMAIN catalog
      /\ \A l \in DOMAIN catalog : catalog'[l] = IF l = i THEN h ELSE catalog[l]
  BY <1>2
<1>4. OneEntryEach'
  BY <1>1, <1>2, <1>3 DEF DeskInv, OneEntryEach
<1>5. Custody'
  BY <1>1, <1>2, <1>3, HeldIsOut DEF DeskInv, Custody, MoveStep
<1>6. OneOfTitleOut'
  BY <1>2 DEF DeskInv, OneOfTitleOut
<1>7. Listed'
  BY <1>1, <1>3 DEF DeskInv, Listed
<1>8. Joined'
  BY <1>2 DEF DeskInv, Joined
<1> QED BY <1>4, <1>5, <1>6, <1>7, <1>8 DEF Agreement

LEMMA LendAgreement ==
    ASSUME DeskInv, NEW i \in DOMAIN catalog, NEW j \in DOMAIN patrons, NEW d \in Days,
           LendStep(i, j, d)
    PROVE  Agreement'
<1> DEFINE h == CheckOutHolding(catalog[i], d)
           p == LoanAdded(patrons[j], h)
<1>1. h.copy = catalog[i].copy /\ ~IsAvailable(h)
  BY EntryType, LentHolding DEF DeskInv, IInv
<1>2. p.card = patrons[j].card /\ p.held = patrons[j].held \cup {h}
  BY DEF LoanAdded
<1>3. /\ catalog' = [catalog EXCEPT ![i] = h]
      /\ patrons' = [patrons EXCEPT ![j] = p]
      /\ IsAvailable(catalog[i])
      /\ ~TitleOut(h.copy.cls)
  BY <1>1 DEF LendStep
<1> HIDE DEF h, p
<1>4. /\ DOMAIN catalog' = DOMAIN catalog
      /\ \A l \in DOMAIN catalog : catalog'[l] = IF l = i THEN h ELSE catalog[l]
      /\ DOMAIN patrons' = DOMAIN patrons
      /\ \A l \in DOMAIN patrons : patrons'[l] = IF l = j THEN p ELSE patrons[l]
  BY <1>3
<1>5. OneEntryEach'
  BY <1>1, <1>2, <1>4 DEF DeskInv, OneEntryEach
<1>6. Custody'
  <2>1. ASSUME NEW l \in DOMAIN catalog, ~IsAvailable(catalog'[l])
        PROVE  \E m \in DOMAIN patrons : catalog'[l] \in patrons'[m].held
    BY <1>2, <1>4, <2>1 DEF DeskInv, Custody
  <2>2. ASSUME NEW m \in DOMAIN patrons, NEW g \in patrons'[m].held
        PROVE  \E l \in DOMAIN catalog : catalog'[l] = g
    <3>1. CASE g \in patrons[m].held
      BY <1>3, <1>4, <3>1, HeldIsOut DEF DeskInv, Custody
    <3>2. CASE g = h
      BY <1>4, <3>2
    <3> QED BY <1>2, <1>4, <3>1, <3>2
  <2> QED BY <1>4, <2>1, <2>2 DEF Custody
<1>7. OneOfTitleOut'
  <2>1. \A l \in DOMAIN patrons : \A g \in patrons[l].held : g.copy.cls # h.copy.cls
    BY <1>3 DEF TitleOut, HoldsTitle
  <2> QED BY <1>2, <1>4, <2>1 DEF DeskInv, OneOfTitleOut
<1>8. Listed'
  BY <1>1, <1>4 DEF DeskInv, Listed
<1>9. Joined'
  BY <1>2, <1>4 DEF DeskInv, Joined
<1> QED BY <1>5, <1>6, <1>7, <1>8, <1>9 DEF Agreement

LEMMA ReturnAgreement ==
    ASSUME DeskInv, NEW i \in DOMAIN catalog, NEW j \in DOMAIN patrons,
           NEW d \in Days, NEW b \in DeskBranches, ReturnStep(i, j, d, b)
    PROVE  Agreement'
<1> DEFINE h == TransferHolding(catalog[i], b)
           p == LoanEnded(patrons[j], catalog[i], FineFor(catalog[i], d))
<1>1. h.copy = catalog[i].copy /\ IsAvailable(h)
  BY EntryType, DeskHolding DEF DeskInv, IInv
<1>2. p.card = patrons[j].card /\ p.held = patrons[j].held \ {catalog[i]}
  BY DEF LoanEnded
<1>3. /\ catalog' = [catalog EXCEPT ![i] = h]
      /\ patrons' = [patrons EXCEPT ![j] = p]
      /\ catalog[i] \in patrons[j].held
  BY DEF ReturnStep
<1> HIDE DEF h, p
<1>4. /\ DOMAIN catalog' = DOMAIN catalog
      /\ \A l \in DOMAIN catalog : catalog'[l] = IF l = i THEN h ELSE catalog[l]
      /\ DOMAIN patrons' = DOMAIN patrons
      /\ \A l \in DOMAIN patrons : patrons'[l] = IF l = j THEN p ELSE patrons[l]
  BY <1>3
<1>5. OneEntryEach'
  BY <1>1, <1>2, <1>4 DEF DeskInv, OneEntryEach
<1>6. Custody'
  <2>1. ASSUME NEW l \in DOMAIN catalog, ~IsAvailable(catalog'[l])
        PROVE  \E m \in DOMAIN patrons : catalog'[l] \in patrons'[m].held
    <3>1. l # i /\ catalog'[l] = catalog[l]
      BY <1>1, <1>4, <2>1
    <3>2. catalog[l] # catalog[i]
      BY <3>1 DEF DeskInv, OneEntryEach
    <3>3. PICK m \in DOMAIN patrons : catalog[l] \in patrons[m].held
      BY <2>1, <3>1 DEF DeskInv, Custody
    <3> QED BY <1>2, <1>4, <3>1, <3>2, <3>3
  <2>2. ASSUME NEW m \in DOMAIN patrons, NEW g \in patrons'[m].held
        PROVE  \E l \in DOMAIN catalog : catalog'[l] = g
    <3>1. g \in patrons[m].held
      BY <1>2, <1>4, <2>2
    <3>2. g # catalog[i]
      <4>1. CASE m = j
        BY <1>2, <1>4, <2>2, <4>1
      <4>2. CASE m # j
        BY <1>3, <3>1, <4>2 DEF DeskInv, OneOfTitleOut
      <4> QED BY <4>1, <4>2
    <3>3. PICK l \in DOMAIN catalog : catalog[l] = g
      BY <3>1 DEF DeskInv, Custody
    <3> QED BY <1>4, <3>2, <3>3
  <2> QED BY <1>4, <2>1, <2>2 DEF Custody
<1>7. OneOfTitleOut'
  BY <1>2, <1>4 DEF DeskInv, OneOfTitleOut
<1>8. Listed'
  BY <1>1, <1>4 DEF DeskInv, Listed
<1>9. Joined'
  BY <1>2, <1>4 DEF DeskInv, Joined
<1> QED BY <1>5, <1>6, <1>7, <1>8, <1>9 DEF Agreement
-----------------------------------------------------------------------------
(* The invariance theorems.                                                *)

LEMMA DeskCallIsCall == today \in Days /\ DeskCall => Next
BY DEF DeskCall, DeskBranches, Next, Join, Acquire, Move, Lend, TakeBack

LEMMA DeskInitInvariant == DeskInit => DeskInv
<1> SUFFICES ASSUME DeskInit PROVE DeskInv
  OBVIOUS
<1>1. Init /\ DOMAIN catalog = {} /\ DOMAIN patrons = {} /\ outcome = "ok"
  BY EmptySeq, LenProperties DEF Init, DeskInit
<1> QED
  BY <1>1, InitInvariant
     DEF DeskInv, NoFailure, OneEntryEach, Custody, OneOfTitleOut, Listed, Joined,
         DeskInit

LEMMA DeskNextInvariant == DeskInv /\ [DeskNext]_deskVars => DeskInv'
<1> SUFFICES ASSUME DeskInv, [DeskNext]_deskVars PROVE DeskInv'
  OBVIOUS
<1>1. [DeskCall]_vars /\ today' \in Days
  BY DEF DeskNext, NextDay, deskVars, DeskInv
<1>2. IInv'
  BY <1>1, DeskCallIsCall, NextInvariant DEF DeskInv
<1>3. CASE DeskCall
  <2>1. DeskStep /\ outcome' = "ok"
    BY <1>3, DeskCallIsStep
  <2>2. Agreement'
    BY <2>1, JoinAgreement, AcquireAgreement, MoveAgreement, LendAgreement,
       ReturnAgreement DEF DeskStep, DeskInv
  <2> QED BY <1>1, <1>2, <2>1, <2>2 DEF DeskInv, Agreement, NoFailure
<1>4. CASE UNCHANGED vars
  BY <1>1, <1>2, <1>4
     DEF vars, DeskInv, NoFailure, OneEntryEach, Custody, OneOfTitleOut, Listed, Joined
<1> QED BY <1>1, <1>3, <1>4

\* The inductive invariant of the careful desk.
THEOREM DeskInvariance == DeskSpec => []DeskInv
BY DeskInitInvariant, DeskNextInvariant, PTL DEF DeskSpec

\* No call of a careful desk throws, and none runs past the end of a store.
THEOREM DeskNeverFails == DeskSpec => []NoFailure
BY DeskInvariance, PTL DEF DeskInv

\* A copy is out exactly when one patron holds it, since the day the catalogue
\* gives: checkOut and checkIn, which write the stores one after the other and
\* look for the borrower by title, keep them in agreement.
THEOREM DeskKeepsCustody == DeskSpec => [](OneEntryEach /\ Custody /\ OneOfTitleOut)
BY DeskInvariance, PTL DEF DeskInv
-----------------------------------------------------------------------------
(* The desk implements Lending: each step is a step of Lending on what the *)
(* stores say.                                                             *)

LEMMA InAccounts ==
    \A x : x \in accounts <=>
            \E j \in DOMAIN patrons : x = <<patrons[j].card, patrons[j].fine>>
BY DEF accounts

LEMMA InShelf ==
    \A x : x \in shelf <=>
            \E i \in DOMAIN catalog :
                IsAvailable(catalog[i]) /\ x = <<catalog[i].copy, catalog[i].branch>>
BY DEF shelf

LEMMA InLoans ==
    \A x : x \in loans <=>
            \E j \in DOMAIN patrons : \E h \in patrons[j].held :
                x = <<h.copy, patrons[j].card, h.lastOut>>
BY DEF loans

LEMMA SamePatrons ==
    ASSUME UNCHANGED patrons
    PROVE  UNCHANGED <<accounts, loans>>
BY DEF accounts, loans

LEMMA SameCatalog ==
    ASSUME UNCHANGED catalog
    PROVE  UNCHANGED shelf
BY DEF shelf

LEMMA FeeValue ==
    ASSUME NEW k \in DeskCopies, NEW since \in Days, NEW d \in Days
    PROVE  Fee[k][since][d] = IF d > since + CheckoutPeriod(TypeOf[k.cls])
                                  THEN LateFine(TypeOf[k.cls]) ELSE 0
BY DEF Fee

LEMMA JoinRefines ==
    ASSUME DeskInv, NEW c \in Cards, JoinStep(c), UNCHANGED today
    PROVE  L!Join(c)
<1> DEFINE p == NewPatron(c)
<1>1. p \in Patron /\ p.card = c /\ p.fine = 0 /\ p.held = {}
  BY NewPatronType DEF NewPatron
<1>2. /\ patrons \in Seq(Patron)
      /\ patrons' = Append(patrons, p)
      /\ UNCHANGED catalog
  BY DEF JoinStep, DeskInv, IInv, TypeOK
<1> HIDE DEF p
<1>3. PICK n : /\ n \notin DOMAIN patrons
               /\ DOMAIN patrons' = DOMAIN patrons \cup {n}
               /\ patrons'[n] = p
               /\ \A j \in DOMAIN patrons : patrons'[j] = patrons[j]
  BY <1>1, <1>2, AppendExtends
<1>4. \A x \in accounts : x[1] # c
  BY InAccounts DEF JoinStep, Registered
<1>5. accounts' = accounts \cup {<<c, 0>>}
  BY <1>1, <1>3 DEF accounts
<1>6. loans' = loans
  BY <1>1, <1>3 DEF loans
<1> QED BY <1>2, <1>4, <1>5, <1>6, SameCatalog DEF L!Join

LEMMA AcquireRefines ==
    ASSUME DeskInv, NEW k \in DeskCopies, NEW b \in DeskBranches, AcquireStep(k, b),
           UNCHANGED today
    PROVE  L!Acquire(k, b)
<1> DEFINE h == TransferHolding(NewHolding(k), b)
<1>1. h \in Holding /\ h.copy = k /\ h.branch = b /\ IsAvailable(h)
  BY DeskCopyType, NewHoldingType, DeskHolding DEF TransferHolding, NewHolding
<1>2. /\ catalog \in Seq(Holding)
      /\ catalog' = Append(catalog, h)
      /\ UNCHANGED patrons
  BY DEF AcquireStep, DeskInv, IInv, TypeOK
<1> HIDE DEF h
<1>3. PICK n : /\ n \notin DOMAIN catalog
               /\ DOMAIN catalog' = DOMAIN catalog \cup {n}
               /\ catalog'[n] = h
               /\ \A i \in DOMAIN catalog : catalog'[i] = catalog[i]
  BY <1>1, <1>2, AppendExtends
<1>4. \A x \in shelf : x[1] # k
  BY InShelf DEF AcquireStep, Catalogued
<1>5. \A x \in loans : x[1] # k
  BY InLoans DEF AcquireStep, Catalogued, DeskInv, Custody
<1>6. shelf' = shelf \cup {<<k, b>>}
  BY <1>1, <1>3 DEF shelf
<1> QED BY <1>2, <1>4, <1>5, <1>6, SamePatrons DEF L!Acquire

LEMMA MoveRefines ==
    ASSUME DeskInv, NEW i \in DOMAIN catalog, NEW b \in DeskBranches, MoveStep(i, b),
           UNCHANGED today
    PROVE  L!Move(catalog[i].copy, catalog[i].branch, b)
<1> DEFINE h == TransferHolding(catalog[i], b)
<1>1. h.copy = catalog[i].copy /\ h.branch = b /\ IsAvailable(h)
  BY EntryType, DeskHolding DEF DeskInv, IInv, TransferHolding, Holding
<1>2. /\ catalog' = [catalog EXCEPT ![i] = h]
      /\ IsAvailable(catalog[i])
      /\ UNCHANGED patrons
  BY DEF MoveStep
<1> HIDE DEF h
<1>3. /\ DOMAIN catalog' = DOMAIN catalog
      /\ \A l \in DOMAIN catalog : catalog'[l] = IF l = i THEN h ELSE catalog[l]
  BY <1>2
<1>4. <<catalog[i].copy, catalog[i].branch>> \in shelf
  BY <1>2, InShelf
<1>5. shelf' = (shelf \ {<<catalog[i].copy, catalog[i].branch>>})
                 \cup {<<catalog[i].copy, b>>}
  BY <1>1, <1>2, <1>3 DEF shelf, DeskInv, OneEntryEach
<1> QED BY <1>2, <1>4, <1>5, SamePatrons DEF L!Move

LEMMA LendRefines ==
    ASSUME DeskInv, NEW i \in DOMAIN catalog, NEW j \in DOMAIN patrons,
           LendStep(i, j, today), UNCHANGED today
    PROVE  L!Lend(catalog[i].copy, catalog[i].branch, patrons[j].card)
<1> DEFINE h == CheckOutHolding(catalog[i], today)
           p == LoanAdded(patrons[j], h)
<1>1. h.copy = catalog[i].copy /\ h.lastOut = today /\ ~IsAvailable(h)
  BY EntryType, LentHolding DEF DeskInv, IInv
<1>2. /\ p.card = patrons[j].card
      /\ p.fine = patrons[j].fine
      /\ p.held = patrons[j].held \cup {h}
  BY DEF LoanAdded
<1>3. /\ catalog' = [catalog EXCEPT ![i] = h]
      /\ patrons' = [patrons EXCEPT ![j] = p]
      /\ IsAvailable(catalog[i])
  BY DEF LendStep
<1> HIDE DEF h, p
<1>4. /\ DOMAIN catalog' = DOMAIN catalog
      /\ \A l \in DOMAIN catalog : catalog'[l] = IF l = i THEN h ELSE catalog[l]
      /\ DOMAIN patrons' = DOMAIN patrons
      /\ \A l \in DOMAIN patrons : patrons'[l] = IF l = j THEN p ELSE patrons[l]
  BY <1>3
<1>5. <<catalog[i].copy, catalog[i].branch>> \in shelf
  BY <1>3, InShelf
<1>6. \E x \in accounts : x[1] = patrons[j].card
  <2> DEFINE x == <<patrons[j].card, patrons[j].fine>>
  <2>1. x \in accounts
    BY InAccounts
  <2> QED BY <2>1
<1>7. shelf' = shelf \ {<<catalog[i].copy, catalog[i].branch>>}
  BY <1>1, <1>3, <1>4 DEF shelf, DeskInv, OneEntryEach
<1>8. loans' = loans \cup {<<catalog[i].copy, patrons[j].card, today>>}
  BY <1>1, <1>2, <1>4 DEF loans
<1>9. accounts' = accounts
  BY <1>2, <1>4 DEF accounts
<1> QED BY <1>5, <1>6, <1>7, <1>8, <1>9 DEF L!Lend

LEMMA ReturnRefines ==
    ASSUME DeskInv, NEW i \in DOMAIN catalog, NEW j \in DOMAIN patrons,
           NEW b \in DeskBranches, ReturnStep(i, j, today, b), UNCHANGED today
    PROVE  /\ catalog[i].lastOut \in Days
           /\ L!Return(catalog[i].copy, patrons[j].card, catalog[i].lastOut, b)
<1> DEFINE h == TransferHolding(catalog[i], b)
           n == FineFor(catalog[i], today)
           p == LoanEnded(patrons[j], catalog[i], n)
<1>1. h.copy = catalog[i].copy /\ h.branch = b /\ IsAvailable(h)
  BY EntryType, DeskHolding DEF DeskInv, IInv, TransferHolding, Holding
<1>2. /\ p.card = patrons[j].card
      /\ p.fine = patrons[j].fine + n
      /\ p.held = patrons[j].held \ {catalog[i]}
  BY DEF LoanEnded
<1>3. /\ catalog' = [catalog EXCEPT ![i] = h]
      /\ patrons' = [patrons EXCEPT ![j] = p]
      /\ catalog[i] \in patrons[j].held
  BY DEF ReturnStep
<1> HIDE DEF h, p
<1>4. /\ DOMAIN catalog' = DOMAIN catalog
      /\ \A l \in DOMAIN catalog : catalog'[l] = IF l = i THEN h ELSE catalog[l]
      /\ DOMAIN patrons' = DOMAIN patrons
      /\ \A l \in DOMAIN patrons : patrons'[l] = IF l = j THEN p ELSE patrons[l]
  BY <1>3
<1>5. ~IsAvailable(catalog[i]) /\ catalog[i].lastOut \in Days
  BY <1>3 DEF DeskInv, IInv, LoansDated
<1>6. Fee[catalog[i].copy][catalog[i].lastOut][today] = n
  <2>1. catalog[i].copy \in DeskCopies /\ catalog[i].lastOut # NoDate
    BY <1>5, DateAssumption DEF DeskInv, Listed
  <2>2. today \in Days
    BY DEF DeskInv
  <2> QED BY <1>5, <2>1, <2>2, FeeValue DEF FineFor, IsLate
<1> HIDE DEF n
<1>7. <<catalog[i].copy, patrons[j].card, catalog[i].lastOut>> \in loans
  BY <1>3, InLoans
<1>8. shelf' = shelf \cup {<<catalog[i].copy, b>>}
  BY <1>1, <1>4, <1>5 DEF shelf
<1>9. loans' = loans \ {<<catalog[i].copy, patrons[j].card, catalog[i].lastOut>>}
  <2>1. \A l \in DOMAIN patrons : \A g \in patrons[l].held :
          g.copy = catalog[i].copy => l = j /\ g = catalog[i]
    BY <1>3 DEF DeskInv, OneOfTitleOut
  <2>2. \A x : x \in loans' <=>
               \E l \in DOMAIN patrons : \E g \in patrons'[l].held :
                   x = <<g.copy, patrons[l].card, g.lastOut>>
    BY <1>2, <1>4, InLoans DEF loans
  <2> QED BY <1>2, <1>3, <1>4, <2>1, <2>2, InLoans
<1>10. accounts' = (accounts \ {<<patrons[j].card, patrons[j].fine>>})
                     \cup {<<patrons[j].card, patrons[j].fine + n>>}
  BY <1>2, <1>4 DEF accounts, DeskInv, OneEntryEach
<1>11. <<patrons[j].card, patrons[j].fine>> \in accounts
  BY InAccounts
<1> QED BY <1>5, <1>6, <1>7, <1>8, <1>9, <1>10, <1>11 DEF L!Return
LEMMA DeskStepRefines ==
    ASSUME DeskInv, DeskStep, UNCHANGED today
    PROVE  L!Next
<1>1. ASSUME NEW c \in Cards, JoinStep(c)
      PROVE  L!Next
  BY <1>1, JoinRefines DEF L!Next
<1>2. ASSUME NEW k \in DeskCopies, NEW b \in DeskBranches, AcquireStep(k, b)
      PROVE  L!Next
  BY <1>2, AcquireRefines DEF L!Next
<1>3. ASSUME NEW i \in DOMAIN catalog
      PROVE  /\ catalog[i].copy \in DeskCopies
             /\ IsAvailable(catalog[i]) => catalog[i].branch \in DeskBranches
  BY EntryType DEF DeskBranches, DeskInv, IInv, Listed, Holding, Branches, IsAvailable
<1>4. ASSUME NEW i \in DOMAIN catalog, NEW b \in DeskBranches, MoveStep(i, b)
      PROVE  L!Next
  BY <1>3, <1>4, MoveRefines DEF L!Next, MoveStep
<1>5. ASSUME NEW i \in DOMAIN catalog, NEW j \in DOMAIN patrons,
             LendStep(i, j, today)
      PROVE  L!Next
  BY <1>3, <1>5, LendRefines DEF L!Next, LendStep, DeskInv, Joined
<1>6. ASSUME NEW i \in DOMAIN catalog, NEW j \in DOMAIN patrons,
             NEW b \in DeskBranches, ReturnStep(i, j, today, b)
      PROVE  L!Next
  BY <1>3, <1>6, ReturnRefines DEF L!Next, DeskInv, Joined
<1> QED BY <1>1, <1>2, <1>4, <1>5, <1>6 DEF DeskStep

LEMMA InitRefines == DeskInit => L!Init
<1> SUFFICES ASSUME DeskInit PROVE L!Init
  OBVIOUS
<1>1. DOMAIN catalog = {} /\ DOMAIN patrons = {} /\ today \in Days
  BY EmptySeq, LenProperties DEF DeskInit, Init
<1> QED BY <1>1, InAccounts, InShelf, InLoans DEF L!Init

\* The careful desk implements Lending: the copy returned is taken from the patron
\* it was lent to, and the fee for that loan goes on his balance and on nobody
\* else's, although checkIn never asks who has the copy.
THEOREM DeskImplementsLending == DeskSpec => KeepsPromises
<1>1. DeskInv /\ [DeskNext]_deskVars => [L!Next]_L!lendingVars
  <2> SUFFICES ASSUME DeskInv, [DeskNext]_deskVars PROVE [L!Next]_L!lendingVars
    OBVIOUS
  <2>1. CASE DeskCall /\ UNCHANGED today
    BY <2>1, DeskCallIsStep, DeskStepRefines
  <2>2. CASE NextDay
    BY <2>2, SamePatrons, SameCatalog DEF NextDay, vars, L!NextDay, L!Next
  <2>3. CASE UNCHANGED deskVars
    BY <2>3, SamePatrons, SameCatalog DEF deskVars, vars, L!lendingVars
  <2> QED BY <2>1, <2>2, <2>3 DEF DeskNext
<1> QED
  BY <1>1, InitRefines, DeskInvariance, PTL DEF DeskSpec, KeepsPromises, L!Spec

==============================================================================
