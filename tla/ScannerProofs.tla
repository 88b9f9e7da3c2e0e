------------------------------ MODULE ScannerProofs ------------------------------
(***************************************************************************)
(* The scanners, for all parameters: everything they do to the stores is a *)
(* call of HoldingService, so that what is proved of its calls holds for   *)
(* any number of scanners; a lending session is disturbed by no scan;      *)
(* scanners lend only what is on a shelf; and what is out was lent.        *)
(*                                                                         *)
(* That scans are calls needs to know that a scanner that lends has a      *)
(* patron's card (Equipped), and that what is out was lent that a scanner  *)
(* never has the branch 99 (AtBranch).  Lending from a shelf needs         *)
(* the invariant of HoldingService, because checkIn writes a record of its *)
(* own over the first one of that card, and takes nothing in only if a     *)
(* second record of a card holds nothing.                                  *)
(***************************************************************************)
EXTENDS Scanner, HoldingServiceProofs, WellFoundedInduction

Equipped == \A s \in Scanners : mode[s] = "checkout" => patronId[s] \in Cards

AtBranch == \A s \in Scanners : branchId[s] # CheckedOut

SessionTypeOK ==
    /\ mode \in [Scanners -> Modes]
    /\ branchId \in [Scanners -> BranchIds]
    /\ patronId \in [Scanners -> Cards \cup {NoId}]
    /\ ended \in BOOLEAN

FloorInv ==
    /\ ClockTypeOK
    /\ SessionTypeOK
    /\ Equipped
    /\ AtBranch

-----------------------------------------------------------------------------
(* The invariant of the sessions and the clock.                            *)

LEMMA ClockDayType == ClockTypeOK => ClockDay \in Days
<1> SUFFICES ASSUME ClockTypeOK PROVE ClockDay \in Days
  OBVIOUS
<1>1. CASE storedTimes = <<>>
  BY <1>1 DEF ClockTypeOK, ClockDay, IsExhausted
<1>2. CASE storedTimes # <<>>
  BY <1>2, HeadTailProperties DEF ClockTypeOK, ClockDay, IsExhausted
<1> QED BY <1>1, <1>2

LEMMA ClockStepType ==
    ASSUME ClockTypeOK,
           \/ UNCHANGED clock
           \/ \E d \in Days : Now(d)
           \/ Midnight
           \/ \E d \in Days : QueueNextTime(d)
           \/ ClearQueue
    PROVE  ClockTypeOK'
<1>1. CASE UNCHANGED clock
  BY <1>1 DEF clock, ClockTypeOK
<1>2. ASSUME NEW d \in Days, Now(d) PROVE ClockTypeOK'
  BY <1>2, HeadTailProperties DEF Now, ClockTypeOK, IsExhausted
<1>3. CASE Midnight
  BY <1>3 DEF Midnight, ClockTypeOK
<1>4. ASSUME NEW d \in Days, QueueNextTime(d) PROVE ClockTypeOK'
  BY <1>4, AppendProperties DEF QueueNextTime, ClockTypeOK
<1>5. CASE ClearQueue
  BY <1>5, EmptySeq DEF ClearQueue, ClockTypeOK
<1> QED BY <1>1, <1>2, <1>3, <1>4, <1>5

LEMMA FloorInitInvariant == FloorInit => FloorInv
BY EmptySeq, CodeAssumption
   DEF FloorInit, ClockInit, FloorInv, ClockTypeOK, SessionTypeOK, Modes, Equipped,
       AtBranch

\* What a scan of a holding does to the clock and the rest.
LEMMA HoldingScanClock ==
    ASSUME FloorInv, NEW s \in Scanners, NEW c \in Codes, ScanHolding(s, c)
    PROVE  /\ UNCHANGED clock \/ \E d \in Days : Now(d)
           /\ ended' \in BOOLEAN
BY DEF ScanHolding, WaitingHolding, CheckinHolding, CheckoutHolding, InventoryHolding,
       Shown, Lend, FloorInv, SessionTypeOK

LEMMA FloorNextInvariant == FloorInv /\ [FloorNext]_floorVars => FloorInv'
<1> SUFFICES ASSUME FloorInv, [FloorNext]_floorVars PROVE FloorInv'
  OBVIOUS
<1> USE DEF FloorInv
<1>1. ASSUME NEW s \in Scanners, NEW c \in Codes, ScanBranchCard(s, c)
      PROVE  FloorInv'
  <2>1. ClockTypeOK'
    BY <1>1, ClockStepType DEF ScanBranchCard
  <2>2. c.id \in BranchIds \ {CheckedOut}
    BY <1>1, CodeAssumption DEF ScanBranchCard, IsBranchId
  <2>3. SessionTypeOK'
    BY <1>1, <2>2
       DEF ScanBranchCard, LeaveWaiting, SetMode, SetBranch, SessionTypeOK, Modes
  <2>4. Equipped'
    BY <1>1
       DEF ScanBranchCard, LeaveWaiting, SetMode, SessionTypeOK, Equipped
  <2>5. AtBranch'
    BY <1>1, <2>2
       DEF ScanBranchCard, LeaveWaiting, SetBranch, SessionTypeOK, AtBranch
  <2> QED BY <2>1, <2>3, <2>4, <2>5
<1>2. ASSUME NEW s \in Scanners, NEW c \in Codes, ScanPatronCard(s, c)
      PROVE  FloorInv'
  <2>1. ClockTypeOK'
    BY <1>2, ClockStepType DEF ScanPatronCard
  <2>2. c.id \in Cards
    BY <1>2, CodeAssumption DEF ScanPatronCard, IsPatronId
  <2>3. SessionTypeOK' /\ Equipped' /\ AtBranch'
    BY <1>2, <2>2 DEF ScanPatronCard, SetMode, SessionTypeOK, Modes, Equipped, AtBranch
  <2> QED BY <2>1, <2>3
<1>3. ASSUME NEW s \in Scanners, NEW c \in Codes, ScanInventoryCard(s, c)
      PROVE  FloorInv'
  <2>1. ClockTypeOK'
    BY <1>3, ClockStepType DEF ScanInventoryCard
  <2>2. SessionTypeOK' /\ Equipped' /\ AtBranch'
    BY <1>3 DEF ScanInventoryCard, SetMode, SessionTypeOK, Modes, Equipped, AtBranch
  <2> QED BY <2>1, <2>2
<1>4. ASSUME NEW s \in Scanners, NEW c \in Codes, ScanHolding(s, c)
      PROVE  FloorInv'
  <2>1. ClockTypeOK' /\ ended' \in BOOLEAN
    BY <1>4, HoldingScanClock, ClockStepType
  <2>2. UNCHANGED session
    BY <1>4 DEF ScanHolding
  <2> QED BY <2>1, <2>2 DEF session, SessionTypeOK, Equipped, AtBranch
<1>5. ASSUME NEW s \in Scanners, PressDone(s)
      PROVE  FloorInv'
  <2>1. ClockTypeOK'
    BY <1>5, ClockStepType DEF PressDone
  <2>2. SessionTypeOK' /\ Equipped' /\ AtBranch'
    BY <1>5 DEF PressDone, SetMode, SessionTypeOK, Modes, Equipped, AtBranch
  <2> QED BY <2>1, <2>2
<1>6. ASSUME NEW c \in Cards, Register(c)
      PROVE  FloorInv'
  <2>1. ClockTypeOK'
    BY <1>6, ClockStepType DEF Register
  <2> QED BY <1>6, <2>1 DEF Register, session, SessionTypeOK, Equipped, AtBranch
<1>7. CASE Tick
  <2>1. ClockTypeOK'
    BY <1>7, ClockStepType DEF Tick
  <2> QED BY <1>7, <2>1 DEF Tick, session, SessionTypeOK, Equipped, AtBranch
<1>8. CASE UNCHANGED floorVars
  BY <1>8 DEF floorVars, session, clock, ClockTypeOK, SessionTypeOK, Equipped, AtBranch
<1> QED BY <1>1, <1>2, <1>3, <1>4, <1>5, <1>6, <1>7, <1>8 DEF FloorNext

THEOREM FloorInvariance == FloorSpec => []FloorInv
BY FloorInitInvariant, FloorNextInvariant, PTL DEF FloorSpec

-----------------------------------------------------------------------------
(* Every scan is a call of HoldingService or none.                         *)

LEMMA ScanIsCall ==
    ASSUME FloorInv, NEW s \in Scanners, NEW c \in Codes, ScanHolding(s, c)
    PROVE  [Next]_vars
<1>1. /\ c.bar \in Texts
      /\ branchId[s] \in BranchIds
      /\ mode[s] = "checkout" => patronId[s] \in Cards
  BY CodeAssumption DEF Code, FloorInv, SessionTypeOK, Equipped
<1>2. CASE CheckinHolding(s, c)
  BY <1>1, <1>2 DEF CheckinHolding, Next
<1>3. CASE CheckoutHolding(s, c)
  <2>1. CASE UNCHANGED vars
    BY <2>1
  <2>2. CASE Lend(s, c.bar)
    BY <1>1, <1>3, <2>2 DEF CheckoutHolding, Lend, Next
  <2> QED BY <1>3, <2>1, <2>2 DEF CheckoutHolding, Shown
<1>4. CASE InventoryHolding(s, c)
  BY <1>1, <1>4 DEF InventoryHolding, Next
<1>5. CASE WaitingHolding(s)
  BY <1>5 DEF WaitingHolding, Shown
<1> QED BY <1>2, <1>3, <1>4, <1>5 DEF ScanHolding

LEMMA FloorStepIsCall == FloorInv /\ [FloorNext]_floorVars => [Next]_vars
<1> SUFFICES ASSUME FloorInv, [FloorNext]_floorVars PROVE [Next]_vars
  OBVIOUS
<1>1. ASSUME NEW s \in Scanners, NEW c \in Codes,
             ScanBranchCard(s, c) \/ ScanPatronCard(s, c) \/ ScanInventoryCard(s, c)
      PROVE  UNCHANGED vars
  BY <1>1 DEF ScanBranchCard, ScanPatronCard, ScanInventoryCard
<1>2. ASSUME NEW c \in Cards, Register(c) PROVE Next
  BY <1>2 DEF Register, Next
<1>3. (\E s \in Scanners : PressDone(s)) \/ Tick => UNCHANGED vars
  BY DEF PressDone, Tick
<1>4. UNCHANGED floorVars => UNCHANGED vars
  BY DEF floorVars
<1> QED BY <1>1, <1>2, <1>3, <1>4, ScanIsCall DEF FloorNext

\* The scanners implement HoldingService: whatever they are scanned, in any order
\* at any number of desks, the stores change by its calls and by nothing else.
THEOREM ScannersUseService == FloorSpec => Spec
<1>1. FloorInit => Init
  BY DEF FloorInit
<1> QED BY <1>1, FloorInvariance, FloorStepIsCall, PTL DEF FloorSpec, Spec

\* The types of the stores, the clock and the sessions.
THEOREM FloorTypeCorrectness == FloorSpec => []FloorTypeOK
<1>1. FloorInv /\ TypeOK => FloorTypeOK
  BY DEF FloorInv, SessionTypeOK, FloorTypeOK
<1> QED BY <1>1, FloorInvariance, ScannersUseService, TypeCorrectness, PTL

-----------------------------------------------------------------------------
(* Sessions.                                                               *)

Undisturbed ==
    \A s \in Scanners :
        mode[s] = "checkout" =>
            /\ mode'[s] \in {"checkout", "checkin"}
            /\ patronId'[s] = patronId[s]
            /\ branchId'[s] = branchId[s]

LEMMA FloorStepKeepsSessions == FloorInv /\ [FloorNext]_floorVars => Undisturbed
<1> SUFFICES ASSUME FloorInv, [FloorNext]_floorVars PROVE Undisturbed
  OBVIOUS
<1> USE DEF FloorInv, SessionTypeOK, Undisturbed, SetMode
<1>1. ASSUME NEW s \in Scanners, NEW c \in Codes, ScanBranchCard(s, c)
      PROVE  Undisturbed
  BY <1>1 DEF ScanBranchCard, LeaveWaiting, SetBranch
<1>2. ASSUME NEW s \in Scanners, NEW c \in Codes, ScanPatronCard(s, c)
      PROVE  Undisturbed
  BY <1>2 DEF ScanPatronCard
<1>3. ASSUME NEW s \in Scanners, NEW c \in Codes, ScanInventoryCard(s, c)
      PROVE  Undisturbed
  BY <1>3 DEF ScanInventoryCard
<1>4. ASSUME NEW s \in Scanners, PressDone(s) PROVE Undisturbed
  BY <1>4 DEF PressDone
<1>5. ASSUME UNCHANGED session PROVE Undisturbed
  BY <1>5 DEF session
<1> QED
  BY <1>1, <1>2, <1>3, <1>4, <1>5
     DEF FloorNext, ScanHolding, Register, Tick, floorVars

\* Nothing scanned at any desk changes whom a lending desk lends to.
THEOREM SessionsStayUndisturbed == FloorSpec => SessionKept
<1>1. FloorInv /\ [FloorNext]_floorVars => [Undisturbed]_floorVars
  BY FloorStepKeepsSessions
<1> QED
  BY <1>1, FloorInvariance, PTL DEF FloorSpec, SessionKept, Undisturbed

-----------------------------------------------------------------------------
(* Lending from a shelf.                                                   *)

NothingLent ==
    \A j \in DOMAIN patrons : \A h \in patrons'[j].held : HoldsCopy(patrons[j], h.copy)

LentFromShelf ==
    \A j \in DOMAIN patrons : \A h \in patrons'[j].held :
        Lent(j, h) => OnShelf(h.copy)

LEMMA NothingLentIsFine == NothingLent => LentFromShelf
BY DEF NothingLent, LentFromShelf, Lent

LEMMA SamePatronsLendNothing == UNCHANGED patrons => NothingLent
BY DEF NothingLent, HoldsCopy

LEMMA JoiningLendsNothing ==
    ASSUME TypeOK, NEW c \in Cards, AddPatron(c)
    PROVE  NothingLent
<1>1. patrons \in Seq(Patron) /\ NewPatron(c) \in Patron
  BY NewPatronType DEF TypeOK
<1>2. \A j \in DOMAIN patrons : Append(patrons, NewPatron(c))[j] = patrons[j]
  BY <1>1, AppendProperties, LenProperties
<1>3. patrons' = Append(patrons, NewPatron(c))
  BY DEF AddPatron
<1>4. \A j \in DOMAIN patrons : patrons'[j] = patrons[j]
  BY <1>2, <1>3, Zenon
<1> QED BY <1>4, Zenon DEF NothingLent, HoldsCopy

\* A record a patron was searched in, or none, written back with less in it.
LEMMA ReturnLendsNothing ==
    ASSUME IInv, NEW h \in Holding, NEW n \in Nat, NEW p \in BorrowerRecord(h.copy.cls),
           UpdatePatron(AddFine(ReturnHolding(p, h), n))
    PROVE  NothingLent
<1> DEFINE q == AddFine(ReturnHolding(p, h), n)
<1>1. p \in Patron /\ LoansOf(p)
  BY BorrowerRecordType
<1>2. q \in Patron /\ q.card = p.card /\ q.held \subseteq p.held
  BY <1>1, ReturnType
<1> HIDE DEF q
<1>3. UpdatePatron(q)
  BY DEF q
<1>4. CASE UNCHANGED patrons
  BY <1>4, SamePatronsLendNothing
<1>5. ASSUME NEW l \in DOMAIN patrons, FirstPatron(l, q.card),
             patrons' = [patrons EXCEPT ![l] = q]
      PROVE  NothingLent
  <2>1. p.held = {} \/ p = patrons[l]
    <3>1. CASE p = NewPatron(DefaultCard)
      BY <3>1 DEF NewPatron
    <3>2. ASSUME NEW m \in DOMAIN patrons, p = patrons[m]
          PROVE  p.held = {} \/ p = patrons[l]
      <4>1. l \in Nat /\ m \in Nat /\ m >= 1
        BY LenProperties DEF IInv, TypeOK
      <4>2. patrons[l].card = patrons[m].card
        BY <1>2, <1>5, <3>2 DEF FirstPatron
      <4>3. ~(m < l)
        BY <1>2, <1>5, <3>2, <4>1 DEF FirstPatron
      <4>4. CASE l < m
        BY <3>2, <4>2, <4>4 DEF IInv, ShadowPatronsInert, NewPatron
      <4> QED BY <3>2, <4>1, <4>3, <4>4
    <3> QED BY <3>1, <3>2 DEF BorrowerRecord
  <2> QED BY <1>2, <1>5, <2>1 DEF NothingLent, HoldsCopy
<1> QED BY <1>3, <1>4, <1>5 DEF UpdatePatron

LEMMA CheckinLendsNothing ==
    ASSUME IInv, NEW t \in Texts, NEW d \in Days, NEW b \in BranchIds, CheckIn(t, d, b)
    PROVE  NothingLent
<1>1. CASE BarcodeMissing(t)
  BY <1>1, SamePatronsLendNothing DEF BarcodeMissing
<1>2. ASSUME NEW i \in DOMAIN catalog,
             NEW h, h = CheckInHolding(catalog[i], b),
             \/ UNCHANGED patrons
             \/ \E p \in BorrowerRecord(h.copy.cls) :
                  UpdatePatron(AddFine(ReturnHolding(p, h), FineFor(h, d)))
      PROVE  NothingLent
  <2>1. h \in Holding
    <3>1. catalog[i] \in Holding
      BY EntryType DEF IInv
    <3> QED BY <1>2, <3>1, FiledHolding
  <2>2. FineFor(h, d) \in Nat
    BY <2>1, FineForType
  <2>3. CASE UNCHANGED patrons
    BY <2>3, SamePatronsLendNothing
  <2>4. ASSUME NEW p \in BorrowerRecord(h.copy.cls),
               UpdatePatron(AddFine(ReturnHolding(p, h), FineFor(h, d)))
        PROVE  NothingLent
    BY <2>1, <2>2, <2>4, ReturnLendsNothing
  <2> QED BY <1>2, <2>3, <2>4
<1> QED BY <1>1, <1>2 DEF CheckIn

\* checkOut of a copy that is on a shelf
LEMMA CheckoutLendsIt ==
    ASSUME IInv, NEW c \in Cards, NEW t \in Texts, NEW d \in Days,
           IsAvailableAt(t), CheckOut(c, t, d)
    PROVE  LentFromShelf
<1>1. PICK i \in DOMAIN catalog :
        /\ FoundByBarCode(i, t)
        /\ \E p \in PatronRecord(c) :
             UpdatePatron(Borrow(p, CheckOutHolding(catalog[i], d)))
  BY DEF CheckOut, IsAvailableAt, BarcodeMissing
<1> DEFINE h == CheckOutHolding(catalog[i], d)
<1>2. h \in Holding /\ h.copy = catalog[i].copy /\ h.lastOut \in Days /\ ~IsAvailable(h)
  <2>1. catalog[i] \in Holding
    BY EntryType DEF IInv
  <2> QED BY <2>1, LentHolding
<1>3. OnShelf(h.copy)
  <2>1. PICK l \in DOMAIN catalog : FoundByBarCode(l, t) /\ IsAvailable(catalog[l])
    BY DEF IsAvailableAt
  <2>2. FirstCopy(l, h.copy)
    BY <1>1, <1>2, <2>1 DEF FoundByBarCode, FirstCopy
  <2> QED BY <2>1, <2>2 DEF OnShelf
<1> HIDE DEF h
<1>4. ASSUME NEW p \in PatronRecord(c), UpdatePatron(Borrow(p, h))
      PROVE  LentFromShelf
  <2>1. p \in Patron /\ LoansOf(p) /\ p.card = c
    BY PatronRecordType
  <2>2. /\ Borrow(p, h).card = p.card
        /\ Borrow(p, h).held \subseteq p.held \cup {h}
    BY <2>1 DEF Borrow, Patron
  <2>3. CASE UNCHANGED patrons
    BY <2>3, SamePatronsLendNothing, NothingLentIsFine
  <2>4. ASSUME NEW l \in DOMAIN patrons, FirstPatron(l, c),
               patrons' = [patrons EXCEPT ![l] = Borrow(p, h)]
        PROVE  LentFromShelf
    <3>1. p = patrons[l]
      <4>1. p \in {patrons[j] : j \in {m \in DOMAIN patrons : FirstPatron(m, c)}}
        BY <2>4 DEF PatronRecord, Registered, FirstPatron
      <4>2. \A m \in DOMAIN patrons : FirstPatron(m, c) => m = l
        BY <2>4, LenProperties DEF FirstPatron, IInv, TypeOK
      <4> QED BY <4>1, <4>2
    <3> QED BY <1>3, <2>2, <2>4, <3>1 DEF LentFromShelf, Lent, HoldsCopy
  <2> QED BY <1>4, <2>1, <2>2, <2>3, <2>4 DEF UpdatePatron
<1> QED BY <1>1, <1>4 DEF h

LEMMA ScanLendsFromShelf ==
    ASSUME FloorInv, IInv, NEW s \in Scanners, NEW c \in Codes, ScanHolding(s, c)
    PROVE  LentFromShelf
<1>1. /\ c.bar \in Texts
      /\ branchId[s] \in BranchIds
      /\ mode[s] = "checkout" => patronId[s] \in Cards
  BY CodeAssumption DEF Code, FloorInv, SessionTypeOK, Equipped
<1>2. CASE UNCHANGED vars
  BY <1>2, SamePatronsLendNothing, NothingLentIsFine DEF vars
<1>3. CASE CheckinHolding(s, c)
  BY <1>1, <1>3, CheckinLendsNothing, NothingLentIsFine DEF CheckinHolding
<1>4. CASE InventoryHolding(s, c)
  BY <1>4, SamePatronsLendNothing, NothingLentIsFine DEF InventoryHolding, AddAtBranch
<1>5. CASE CheckoutHolding(s, c) /\ Lend(s, c.bar)
  <2>1. PICK d \in Days : CheckOut(patronId[s], c.bar, d)
    BY <1>5 DEF Lend
  <2>2. CASE IsAvailableAt(c.bar)
    BY <1>1, <1>5, <2>1, <2>2, CheckoutLendsIt DEF CheckoutHolding
  <2>3. CASE ~IsAvailableAt(c.bar)
    <3>1. UNCHANGED vars \/ ReadsPastEnd(c.bar)
      BY <1>5, <2>3 DEF CheckoutHolding, Shown
    <3>2. CASE ReadsPastEnd(c.bar)
      BY <2>1, <3>2, SamePatronsLendNothing, NothingLentIsFine
         DEF CheckOut, ReadsPastEnd, BarcodeMissing
    <3> QED BY <1>2, <3>1, <3>2
  <2> QED BY <2>2, <2>3
<1> QED
  BY <1>2, <1>3, <1>4, <1>5
     DEF ScanHolding, WaitingHolding, Shown, CheckoutHolding

\* Scanners never lend what is not on a shelf, whatever the other desks do.
THEOREM ScannersLendFromShelf == FloorSpec => LendsFromShelf
<1>1. FloorInv /\ IInv /\ [FloorNext]_floorVars => [LentFromShelf]_floorVars
  <2> SUFFICES ASSUME FloorInv, IInv, FloorNext PROVE LentFromShelf
    OBVIOUS
  <2>1. ASSUME NEW c \in Cards, Register(c) PROVE LentFromShelf
    BY <2>1, JoiningLendsNothing, NothingLentIsFine DEF Register, IInv
  <2>2. ASSUME UNCHANGED vars PROVE LentFromShelf
    BY <2>2, SamePatronsLendNothing, NothingLentIsFine DEF vars
  <2> QED
    BY <2>1, <2>2, ScanLendsFromShelf
       DEF FloorNext, ScanBranchCard, ScanPatronCard, ScanInventoryCard, PressDone, Tick
<1> QED
  BY <1>1, FloorInvariance, ScannersUseService, Invariance, PTL
     DEF FloorSpec, LendsFromShelf, LentFromShelf

-----------------------------------------------------------------------------
(* Lending in a session.                                                   *)

InSession ==
    /\ \A j \in DOMAIN patrons : \A h \in patrons'[j].held :
         Lent(j, h) =>
           /\ h.lastOut = ClockDay
           /\ ~IsExhausted => storedTimes' = Tail(storedTimes)
           /\ \E s \in Scanners : /\ mode[s] = "checkout"
                                  /\ patronId[s] = patrons[j].card

LEMMA NothingLentInSession == NothingLent => InSession
BY DEF NothingLent, InSession, Lent

\* Whatever checkOut lends, it lends to that card and on that day.
LEMMA CheckoutLendsTo ==
    ASSUME IInv, NEW c \in Cards, NEW t \in Texts, NEW d \in Days, CheckOut(c, t, d),
           NEW j \in DOMAIN patrons, NEW h \in patrons'[j].held, Lent(j, h)
    PROVE  patrons[j].card = c /\ h.lastOut = d
<1>1. ~BarcodeMissing(t)
  BY SamePatronsLendNothing DEF BarcodeMissing, NothingLent, Lent
<1>2. PICK i \in DOMAIN catalog :
        \E p \in PatronRecord(c) : UpdatePatron(Borrow(p, CheckOutHolding(catalog[i], d)))
  BY <1>1 DEF CheckOut
<1> DEFINE g == CheckOutHolding(catalog[i], d)
<1>3. g \in Holding /\ g.lastOut = d /\ ~IsAvailable(g)
  <2>1. catalog[i] \in Holding
    BY EntryType DEF IInv
  <2> QED BY <2>1, LentHolding
<1> HIDE DEF g
<1>4. ASSUME NEW p \in PatronRecord(c), UpdatePatron(Borrow(p, g))
      PROVE  patrons[j].card = c /\ h.lastOut = d
  <2>1. p \in Patron /\ LoansOf(p) /\ p.card = c
    BY PatronRecordType
  <2>2. Borrow(p, g).card = c /\ Borrow(p, g).held \subseteq p.held \cup {g}
    BY <2>1, BorrowKeeps DEF Borrow, Patron
  <2>3. PICK l \in DOMAIN patrons :
          FirstPatron(l, c) /\ patrons' = [patrons EXCEPT ![l] = Borrow(p, g)]
    BY <1>4, <2>2, SamePatronsLendNothing DEF UpdatePatron, NothingLent, Lent
  <2>4. p = patrons[l]
    <3>1. Registered(c)
      BY <2>3 DEF FirstPatron, Registered
    <3>2. PICK m \in DOMAIN patrons : FirstPatron(m, c) /\ p = patrons[m]
      BY <3>1 DEF PatronRecord
    <3> QED BY <2>3, <3>2, FirstPatronIsOne DEF IInv
  <2>5. j = l
    BY <2>3 DEF Lent, HoldsCopy
  <2>6. h = g
    BY <2>2, <2>3, <2>4, <2>5 DEF Lent, HoldsCopy
  <2> QED BY <1>3, <2>1, <2>4, <2>5, <2>6
<1> QED BY <1>2, <1>4 DEF g

LEMMA ScanLendsInSession ==
    ASSUME FloorInv, IInv, NEW s \in Scanners, NEW c \in Codes, ScanHolding(s, c)
    PROVE  InSession
<1>1. /\ c.bar \in Texts
      /\ branchId[s] \in BranchIds
      /\ mode[s] = "checkout" => patronId[s] \in Cards
  BY CodeAssumption DEF Code, FloorInv, SessionTypeOK, Equipped
<1>2. CASE UNCHANGED vars
  BY <1>2, SamePatronsLendNothing, NothingLentInSession DEF vars
<1>3. CASE CheckinHolding(s, c)
  BY <1>1, <1>3, CheckinLendsNothing, NothingLentInSession DEF CheckinHolding
<1>4. CASE InventoryHolding(s, c)
  BY <1>4, SamePatronsLendNothing, NothingLentInSession DEF InventoryHolding, AddAtBranch
<1>5. CASE CheckoutHolding(s, c) /\ Lend(s, c.bar)
  <2>1. PICK d \in Days : Now(d) /\ CheckOut(patronId[s], c.bar, d)
    BY <1>5 DEF Lend
  <2>2. mode[s] = "checkout"
    BY <1>5 DEF CheckoutHolding
  <2>3. d = ClockDay /\ (~IsExhausted => storedTimes' = Tail(storedTimes))
    BY <2>1 DEF Now, ClockDay
  <2> QED BY <1>1, <2>1, <2>2, <2>3, CheckoutLendsTo DEF InSession
<1> QED
  BY <1>2, <1>3, <1>4, <1>5
     DEF ScanHolding, WaitingHolding, Shown, CheckoutHolding

\* A loan is made in a session, to its patron, on the clock's day.
THEOREM ScannersLendInSession == FloorSpec => LentInSession
<1>1. FloorInv /\ IInv /\ [FloorNext]_floorVars => [InSession]_floorVars
  <2> SUFFICES ASSUME FloorInv, IInv, FloorNext PROVE InSession
    OBVIOUS
  <2>1. ASSUME NEW c \in Cards, Register(c) PROVE InSession
    BY <2>1, JoiningLendsNothing, NothingLentInSession DEF Register, IInv
  <2>2. ASSUME UNCHANGED vars PROVE InSession
    BY <2>2, SamePatronsLendNothing, NothingLentInSession DEF vars
  <2> QED
    BY <2>1, <2>2, ScanLendsInSession
       DEF FloorNext, ScanBranchCard, ScanPatronCard, ScanInventoryCard, PressDone, Tick
<1> QED
  BY <1>1, FloorInvariance, ScannersUseService, Invariance, PTL
     DEF FloorSpec, LentInSession, InSession

-----------------------------------------------------------------------------
(* Shelving at a desk.                                                     *)

AtDesk ==
    \A i \in DOMAIN catalog' :
        /\ FirstCopy(i, catalog[i].copy)'
        /\ IsAvailable(catalog'[i])
        /\ i \in DOMAIN catalog => catalog'[i].branch # catalog[i].branch
        => \E s \in Scanners : /\ mode[s] \in {"checkin", "inventory"}
                               /\ branchId[s] = catalog'[i].branch

\* All that comes to a shelf comes to the one of branch b.
OnlyTo(b) ==
    \A i \in DOMAIN catalog' :
        \/ ~IsAvailable(catalog'[i])
        \/ catalog'[i].branch = b
        \/ i \in DOMAIN catalog /\ catalog'[i].branch = catalog[i].branch

LEMMA SameCatalogAtDesk == UNCHANGED catalog => AtDesk
BY DEF AtDesk

LEMMA OnlyToDesk ==
    ASSUME NEW s \in Scanners, mode[s] \in {"checkin", "inventory"}, OnlyTo(branchId[s])
    PROVE  AtDesk
BY DEF OnlyTo, AtDesk

LEMMA AddShelvesOnlyThere ==
    ASSUME TypeOK, NEW b \in BranchIds, NEW t \in Texts, AddAtBranch(b, t)
    PROVE  OnlyTo(b)
<1>1. CASE ~t.colon
  BY <1>1 DEF AddAtBranch, OnlyTo
<1>2. CASE t.colon
  <2> DEFINE n == NewHolding(ParseBarcode(t))
             h == TransferHolding(n, b)
  <2>1. /\ n \in Holding /\ ~IsAvailable(n)
        /\ h \in Holding /\ h.branch = b
    BY ParseBarcodeType, TextsAssumption, NewHoldingType, FiledHolding
       DEF TransferHolding, NewHolding
  <2>2. \/ catalog' = Append(catalog, h)
        \/ \E i \in DOMAIN catalog : catalog' = [Append(catalog, n) EXCEPT ![i] = h]
    BY <1>2 DEF AddAtBranch
  <2> HIDE DEF n, h
  <2>3. ASSUME NEW e \in Holding, NEW j \in DOMAIN Append(catalog, e)
        PROVE  \/ j \in DOMAIN catalog /\ Append(catalog, e)[j] = catalog[j]
               \/ Append(catalog, e)[j] = e
    BY <2>3, AppendProperties, LenProperties DEF TypeOK
  <2> QED BY <2>1, <2>2, <2>3 DEF OnlyTo
<1> QED BY <1>1, <1>2

LEMMA ScanShelvesAtDesk ==
    ASSUME FloorInv, IInv, NEW s \in Scanners, NEW c \in Codes, ScanHolding(s, c)
    PROVE  AtDesk
<1>1. /\ c.bar \in Texts
      /\ branchId[s] \in BranchIds
      /\ mode[s] = "checkout" => patronId[s] \in Cards
  BY CodeAssumption DEF Code, FloorInv, SessionTypeOK, Equipped
<1>2. CASE UNCHANGED catalog
  BY <1>2, SameCatalogAtDesk
<1>3. CASE CheckinHolding(s, c)
  <2>1. CASE BarcodeMissing(c.bar)
    BY <1>2, <2>1 DEF BarcodeMissing
  <2>2. ASSUME NEW i \in DOMAIN catalog,
               catalog' = [catalog EXCEPT ![i] = CheckInHolding(catalog[i], branchId[s])]
        PROVE  OnlyTo(branchId[s])
    <3>1. catalog[i] \in Holding
      BY EntryType DEF IInv
    <3>2. CheckInHolding(catalog[i], branchId[s]).branch = branchId[s]
      BY <3>1 DEF CheckInHolding, Holding
    <3> QED BY <2>2, <3>2 DEF OnlyTo
  <2> QED BY <1>3, <2>1, <2>2, OnlyToDesk DEF CheckinHolding, CheckIn
<1>4. CASE InventoryHolding(s, c)
  BY <1>1, <1>4, AddShelvesOnlyThere, OnlyToDesk DEF InventoryHolding, IInv
<1>5. CASE CheckoutHolding(s, c) /\ Lend(s, c.bar)
  <2>1. PICK d \in Days : CheckOut(patronId[s], c.bar, d)
    BY <1>5 DEF Lend
  <2>2. CASE BarcodeMissing(c.bar)
    BY <1>2, <2>2 DEF BarcodeMissing
  <2>3. ASSUME NEW i \in DOMAIN catalog,
               catalog' = [catalog EXCEPT ![i] = CheckOutHolding(catalog[i], d)]
        PROVE  AtDesk
    <3>1. ~IsAvailable(CheckOutHolding(catalog[i], d))
      <4>1. catalog[i] \in Holding
        BY EntryType DEF IInv
      <4> QED BY <4>1, LentHolding
    <3> QED BY <2>3, <3>1 DEF AtDesk
  <2> QED BY <2>1, <2>2, <2>3 DEF CheckOut
<1> QED
  BY <1>2, <1>3, <1>4, <1>5
     DEF ScanHolding, WaitingHolding, Shown, CheckoutHolding, vars

\* What comes to a shelf was scanned at a desk of that branch taking returns or
\* stock.
THEOREM ScannersShelveAtDesk == FloorSpec => ShelvedAtDesk
<1>1. FloorInv /\ IInv /\ [FloorNext]_floorVars => [AtDesk]_floorVars
  <2> SUFFICES ASSUME FloorInv, IInv, FloorNext PROVE AtDesk
    OBVIOUS
  <2>1. ASSUME UNCHANGED catalog PROVE AtDesk
    BY <2>1, SameCatalogAtDesk
  <2> QED
    BY <2>1, ScanShelvesAtDesk
       DEF FloorNext, ScanBranchCard, ScanPatronCard, ScanInventoryCard, PressDone, Tick,
           Register, AddPatron, vars
<1> QED
  BY <1>1, FloorInvariance, ScannersUseService, Invariance, PTL
     DEF FloorSpec, ShelvedAtDesk, AtDesk

-----------------------------------------------------------------------------
(* What is out was lent.                                                   *)

\* No step of the floor files a copy at branch 99.
FloorCatalogStep ==
    \/ UNCHANGED catalog
    \/ LendsOut
    \/ \E k \in Copy, b \in BranchIds \ {CheckedOut} : FilesAt(k, b)

LEMMA ScanFilesAtDesk ==
    ASSUME FloorInv, IInv, NEW s \in Scanners, NEW c \in Codes, ScanHolding(s, c)
    PROVE  FloorCatalogStep
<1>1. /\ c.bar \in Texts
      /\ ParseBarcode(c.bar) \in Copy
      /\ branchId[s] \in BranchIds \ {CheckedOut}
      /\ mode[s] = "checkout" => patronId[s] \in Cards
  BY CodeAssumption, TextsAssumption, ParseBarcodeType
     DEF Code, FloorInv, SessionTypeOK, Equipped, AtBranch
<1> USE DEF FloorCatalogStep
<1>2. CASE UNCHANGED vars
  BY <1>2 DEF vars
<1>3. CASE CheckinHolding(s, c)
  BY <1>1, <1>3, CheckInIsStep DEF CheckinHolding
<1>4. CASE InventoryHolding(s, c)
  BY <1>1, <1>4, AddIsStep DEF InventoryHolding
<1>5. CASE CheckoutHolding(s, c) /\ Lend(s, c.bar)
  BY <1>1, <1>5, CheckOutIsStep DEF CheckoutHolding, Lend
<1> QED
  BY <1>2, <1>3, <1>4, <1>5
     DEF ScanHolding, WaitingHolding, Shown, CheckoutHolding

LEMMA DatedStaysDated ==
    ASSUME IInv, OutSinceADay, FloorCatalogStep
    PROVE  OutSinceADay'
<1>1. CASE UNCHANGED catalog
  BY <1>1 DEF OutSinceADay, FirstCopy
<1>2. ASSUME NEW h \in Holding, EntryStep(h),
             h.lastOut \in Days \/ IsAvailable(h)
      PROVE  OutSinceADay'
  BY <1>2, EntryStepWrites DEF Written, OutSinceADay
<1> QED BY <1>1, <1>2 DEF FloorCatalogStep, LendsOut, FilesAt, IsAvailable

\* However many desks lend, take back and take stock, and whatever they scan, the
\* entry a search finds of a copy that is out has the day it was lent.
THEOREM OutMeansLent == FloorSpec => []OutSinceADay
<1>1. FloorInit => OutSinceADay
  <2> SUFFICES ASSUME FloorInit PROVE OutSinceADay
    OBVIOUS
  <2>1. DOMAIN catalog = {}
    BY EmptySeq, LenProperties DEF FloorInit, Init
  <2> QED BY <2>1 DEF OutSinceADay
<1>2. FloorInv /\ IInv /\ OutSinceADay /\ [FloorNext]_floorVars => OutSinceADay'
  <2> SUFFICES ASSUME FloorInv, IInv, OutSinceADay, [FloorNext]_floorVars
               PROVE  FloorCatalogStep
    BY DatedStaysDated
  <2>1. ASSUME UNCHANGED catalog PROVE FloorCatalogStep
    BY <2>1 DEF FloorCatalogStep
  <2> QED
    BY <2>1, ScanFilesAtDesk
       DEF FloorNext, ScanBranchCard, ScanPatronCard, ScanInventoryCard, PressDone, Tick,
           Register, AddPatron, vars, floorVars
<1> QED
  BY <1>1, <1>2, FloorInvariance, ScannersUseService, Invariance, PTL DEF FloorSpec

-----------------------------------------------------------------------------
(* What the service promises.                                              *)

\* Whatever is proved of HoldingService alone is true of it under any number of
\* scanners, each in a state of its own.
THEOREM ServicePromisesOnFloor ==
    FloorSpec => /\ [](ShadowsInert /\ ShadowPatronsInert /\ LoansDated)
                 /\ OutUndatedByName
                 /\ LoanEndsInReturn
                 /\ LoanStartsInCatalog
                 /\ FinedForTitleHeld
                 /\ ThrowFootprint
                 /\ ReportStaysBroken
<1>1. Spec => [](ShadowsInert /\ ShadowPatronsInert /\ LoansDated)
  BY Invariance, PTL DEF IInv
<1> QED
  BY <1>1, ScannersUseService, UndatedOnlyByName, LoansEndInReturn, LoansStartInCatalog,
     FinesForTitlesHeld, ThrowsLeaveFootprint, ReportsStayBroken, PTL

-----------------------------------------------------------------------------
(* Reading past the end of the catalogue.                                  *)

\* What Holding::barcode() may give back for some copy.
PlainText(t) == t.colon /\ t.exact /\ t.num \in CopyNumbers

\* An unsigned short keeps the numbers it has room for.
LEMMA NumbersKept ==
    ASSUME NEW m \in Int
    PROVE  m = ToCopyNumber(m) <=> m \in CopyNumbers
<1>1. PICK top \in Int : top = 65535
  OBVIOUS
<1>2. CopyNumbers = 0..top
  BY <1>1 DEF CopyNumbers
<1>3. m = ToCopyNumber(m) <=> 0 <= m /\ m <= top
  BY <1>1 DEF ToCopyNumber
<1> QED BY <1>2, <1>3

LEMMA PlainTextsComeBack ==
    ASSUME NEW t \in BarcodeText
    PROVE  ConstructBarcode(ParseBarcode(t)) = t <=> PlainText(t)
<1> DEFINE n == ToCopyNumber(t.num)
<1>1. /\ t = [colon |-> t.colon, cls |-> t.cls, num |-> t.num, exact |-> t.exact]
      /\ t.num \in Int /\ t.colon \in BOOLEAN /\ t.exact \in BOOLEAN
  BY DEF BarcodeText
<1>2. t.num = n <=> t.num \in CopyNumbers
  BY <1>1, NumbersKept
<1> HIDE DEF n
<1>3. ConstructBarcode(ParseBarcode(t)) =
        [colon |-> TRUE, cls |-> t.cls, num |-> n, exact |-> TRUE]
  BY DEF ConstructBarcode, ParseBarcode, n
<1> QED BY <1>1, <1>2, <1>3 DEF PlainText

\* A copy that is in the catalogue has an entry where searches for it stop.
LEMMA FirstCopyExists ==
    ASSUME TypeOK, NEW k, Catalogued(k)
    PROVE  \E i \in DOMAIN catalog : FirstCopy(i, k)
<1> DEFINE T == {i \in DOMAIN catalog : catalog[i].copy = k}
<1>1. DOMAIN catalog = 1..Len(catalog) /\ Len(catalog) \in Nat
  BY LenProperties DEF TypeOK
<1>2. T \subseteq Nat /\ T # {}
  BY <1>1 DEF Catalogued
<1>3. PICK n \in T : \A m \in T : <<m, n>> \notin OpToRel(<, Nat)
  <2> HIDE DEF T, OpToRel
  <2> QED BY <1>2, NatLessThanWellFounded, WFMin
<1>4. \A m \in T : ~ (m < n)
  BY <1>2, <1>3 DEF OpToRel
<1>5. ASSUME NEW j \in 1..(n-1)
      PROVE  catalog[j].copy # k
  BY <1>1, <1>4
<1> QED BY <1>5 DEF FirstCopy

\* contains() takes a copy's number from whatever atoi makes of the text, but
\* findByBarCode finds it by its plain text only: for copies in the catalogue, scanners
\* read past its end with the other texts (leading zeros, 65536 too many, ...), and with
\* no text that is plain.
THEOREM OtherTextsReadPastEnd ==
    FloorSpec => [](\A t \in Texts :
                      ReadsPastEnd(t) <=> Catalogued(ParseBarcode(t)) /\ ~PlainText(t))
<1>1. TypeOK => \A t \in Texts :
                  ReadsPastEnd(t) <=> Catalogued(ParseBarcode(t)) /\ ~PlainText(t)
  <2> SUFFICES ASSUME TypeOK, NEW t \in Texts
               PROVE  ReadsPastEnd(t) <=> Catalogued(ParseBarcode(t)) /\ ~PlainText(t)
    OBVIOUS
  <2>1. ConstructBarcode(ParseBarcode(t)) = t <=> PlainText(t)
    BY TextsAssumption, PlainTextsComeBack
  <2>2. Catalogued(ParseBarcode(t)) =>
          \E i \in DOMAIN catalog : FirstCopy(i, ParseBarcode(t))
    BY FirstCopyExists
  <2>3. (\E i \in DOMAIN catalog : FoundByBarCode(i, t))
          <=> PlainText(t) /\ \E i \in DOMAIN catalog : FirstCopy(i, ParseBarcode(t))
    BY <2>1 DEF FoundByBarCode
  <2> QED BY <2>2, <2>3 DEF ReadsPastEnd
<1> QED BY <1>1, ScannersUseService, TypeCorrectness, PTL

==============================================================================
