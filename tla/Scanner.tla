--------------------------------- MODULE Scanner ---------------------------------
(***************************************************************************)
(* Several scanners at the desks of a library, over one HoldingService.    *)
(* Each Scanner is a state machine (ScannerStateWaiting, ...Checkin,       *)
(* ...Checkout, ...Inventory) with the branch and the patron it was given  *)
(* last.  A scanned code is taken for a branch card or a patron card by    *)
(* its first letter before it is tried as a holding's bar code.            *)
(*                                                                         *)
(* One action is one scan or one key; the scans of different scanners      *)
(* interleave.  Messages to the display are left out: a scan that only     *)
(* shows one changes nothing.                                              *)
(***************************************************************************)
EXTENDS HoldingService, TimestampSource

CONSTANTS
    Scanners,
    Codes,              \* what is scanned
    InventoryCard,      \* Scanner::INVENTORY_CARD_NUMBER
    NoId                \* the empty string, a scanner's ids before any scan

\* A code as a text of its own (id), its first letter in upper case when that is
\* B or P, and the bar code it is if read as a holding's.
Code == [id : BranchIds \cup Cards \cup {InventoryCard, NoId},
         letter : {"B", "P", "other"}, bar : Texts]

\* A branch card's id begins with B, and Branch::CHECKED_OUT's is "99".
ASSUME CodeAssumption ==
    /\ Codes \subseteq Code
    /\ NoId \in BranchIds \ {CheckedOut}
    /\ \A c \in Codes : c.letter = "B" => c.id \in BranchIds \ {CheckedOut}
    /\ \A c \in Codes : c.letter = "P" => c.id \in Cards
    /\ \A c \in Codes : c.id = InventoryCard => c.letter = "other"

VARIABLES
    mode,               \* the class of Scanner::mCurrentState
    branchId,           \* Scanner::mBranchId
    patronId,           \* Scanner::mPatronId
    ended               \* the program died in a scan, outside the service's calls

session == <<mode, branchId, patronId>>

floorVars == <<vars, clock, session, ended>>

Modes == {"waiting", "checkin", "checkout", "inventory"}

FloorTypeOK ==
    /\ TypeOK
    /\ ClockTypeOK
    /\ mode \in [Scanners -> Modes]
    /\ branchId \in [Scanners -> BranchIds]
    /\ patronId \in [Scanners -> Cards \cup {NoId}]
    /\ ended \in BOOLEAN

FloorInit ==
    /\ Init
    /\ ClockInit
    /\ mode = [s \in Scanners |-> "waiting"]
    /\ branchId = [s \in Scanners |-> NoId]
    /\ patronId = [s \in Scanners |-> NoId]
    /\ ended = FALSE

Alive == Running /\ ~ended

-----------------------------------------------------------------------------
(* Scanner::scan tells codes apart in this order.                          *)

IsInventoryCard(c) == c.id = InventoryCard

IsBranchId(c) == ~IsInventoryCard(c) /\ c.letter = "B"

IsPatronId(c) == ~IsInventoryCard(c) /\ c.letter = "P"

IsHoldingBarcode(c) == ~IsInventoryCard(c) /\ c.letter = "other" /\ c.bar.colon

-----------------------------------------------------------------------------
(* Cards.                                                                  *)

SetMode(s, m) == mode' = [mode EXCEPT ![s] = m]

SetBranch(s, c) == branchId' = [branchId EXCEPT ![s] = c.id]

\* ScannerStateWaiting::scanBranchCard replaces the current state, which deletes
\* the object it is a method of, and then sets the branch through it: the freed
\* object still leads to the scanner, leads elsewhere, or ends the program.
LeaveWaiting(s, c) ==
    /\ mode[s] = "waiting"
    /\ SetMode(s, "checkin")
    /\ \/ SetBranch(s, c) /\ UNCHANGED ended
       \/ UNCHANGED <<branchId, ended>>
       \/ ended' = TRUE /\ UNCHANGED branchId

ScanBranchCard(s, c) ==
    /\ Alive
    /\ IsBranchId(c)
    /\ UNCHANGED <<vars, clock, patronId>>
    /\ \/ LeaveWaiting(s, c)
       \/ /\ mode[s] \in {"checkin", "inventory"}
          /\ SetBranch(s, c)
          /\ UNCHANGED <<mode, ended>>
       \/ /\ mode[s] = "checkout"
          /\ UNCHANGED <<mode, branchId, ended>>

\* slip: one patron id for all scanners
ScanPatronCardShared(s, c) ==
    /\ Alive
    /\ IsPatronId(c)
    /\ UNCHANGED <<vars, clock, branchId, ended>>
    /\ mode[s] = "checkin"
    /\ SetMode(s, "checkout")
    /\ patronId' = [r \in Scanners |-> c.id]

ScanPatronCard(s, c) ==
    /\ Alive
    /\ IsPatronId(c)
    /\ UNCHANGED <<vars, clock, branchId, ended>>
    /\ \/ /\ mode[s] = "checkin"
          /\ SetMode(s, "checkout")
          /\ patronId' = [patronId EXCEPT ![s] = c.id]
       \/ /\ mode[s] # "checkin"
          /\ UNCHANGED <<mode, patronId>>

ScanInventoryCard(s, c) ==
    /\ Alive
    /\ IsInventoryCard(c)
    /\ UNCHANGED <<vars, clock, branchId, patronId, ended>>
    /\ \/ mode[s] = "checkin" /\ SetMode(s, "inventory")
       \/ mode[s] # "checkin" /\ UNCHANGED mode

PressDone(s) ==
    /\ Alive
    /\ UNCHANGED <<vars, clock, branchId, patronId, ended>>
    /\ \/ mode[s] \in {"checkout", "inventory"} /\ SetMode(s, "checkin")
       \/ mode[s] \in {"waiting", "checkin"} /\ UNCHANGED mode

-----------------------------------------------------------------------------
(* Holdings.                                                               *)

\* slip: the copy put where some other scanner is
CheckinHoldingElsewhere(s, c) ==
    /\ mode[s] = "checkin"
    /\ \E r \in Scanners, d \in Days : Now(d) /\ CheckIn(c.bar, d, branchId[r])
    /\ UNCHANGED ended

CheckinHolding(s, c) ==
    /\ mode[s] = "checkin"
    /\ \E d \in Days : Now(d) /\ CheckIn(c.bar, d, branchId[s])
    /\ UNCHANGED ended

Shown == UNCHANGED <<vars, clock, ended>>

Lend(s, t) ==
    /\ \E d \in Days : Now(d) /\ CheckOut(patronId[s], t, d)
    /\ UNCHANGED ended

\* contains() reads the bar code as a copy, findByBarCode compares its text: what
\* is in the catalogue for the one may be past the end for the other.
ReadsPastEnd(t) ==
    /\ Catalogued(ParseBarcode(t))
    /\ ~ \E i \in DOMAIN catalog : FoundByBarCode(i, t)

IsAvailableAt(t) ==
    \E i \in DOMAIN catalog : FoundByBarCode(i, t) /\ IsAvailable(catalog[i])

\* slip: availability not asked
CheckoutHoldingUnasked(s, c) ==
    /\ mode[s] = "checkout"
    /\ IF Catalogued(ParseBarcode(c.bar)) THEN Lend(s, c.bar) ELSE Shown

\* What is read past the end ends the program or looks available or not.
CheckoutHolding(s, c) ==
    /\ mode[s] = "checkout"
    /\ \/ ~Catalogued(ParseBarcode(c.bar)) /\ Shown
       \/ /\ Catalogued(ParseBarcode(c.bar))
          /\ ~IsAvailableAt(c.bar)
          /\ Shown
       \/ IsAvailableAt(c.bar) /\ Lend(s, c.bar)
       \/ ReadsPastEnd(c.bar) /\ Lend(s, c.bar)
       \/ ReadsPastEnd(c.bar) /\ ended' = TRUE /\ UNCHANGED <<vars, clock>>

InventoryHolding(s, c) ==
    /\ mode[s] = "inventory"
    /\ AddAtBranch(branchId[s], c.bar)
    /\ UNCHANGED <<clock, ended>>

WaitingHolding(s) == mode[s] = "waiting" /\ Shown

ScanHolding(s, c) ==
    /\ Alive
    /\ IsHoldingBarcode(c)
    /\ UNCHANGED session
    /\ \/ WaitingHolding(s)
       \/ CheckinHolding(s, c)
       \/ CheckoutHolding(s, c)
       \/ InventoryHolding(s, c)

-----------------------------------------------------------------------------

\* a client of PatronService registers a card
Register(c) ==
    /\ Alive
    /\ AddPatron(c)
    /\ UNCHANGED <<clock, session, ended>>

Tick ==
    /\ Alive
    /\ \/ Midnight
       \/ \E d \in Days : QueueNextTime(d)
       \/ ClearQueue
    /\ UNCHANGED <<vars, session, ended>>

FloorNext ==
    \/ \E s \in Scanners, c \in Codes :
         \/ ScanBranchCard(s, c)
         \/ ScanPatronCard(s, c)
         \/ ScanInventoryCard(s, c)
         \/ ScanHolding(s, c)
    \/ \E s \in Scanners : PressDone(s)
    \/ \E c \in Cards : Register(c)
    \/ Tick

FloorSpec == FloorInit /\ [][FloorNext]_floorVars

-----------------------------------------------------------------------------
(* What holds for the people at the desks, whatever the other scanners do.  *)

\* h is new in the record j
Lent(j, h) == h \in patrons'[j].held /\ ~HoldsCopy(patrons[j], h.copy)

\* Scanners lend only what is on a shelf, though HoldingService::checkOut never
\* asks: a copy another desk has lent meanwhile, or one whose bar code is read
\* but not found, is lent to nobody.
LendsFromShelf ==
    [][\A j \in DOMAIN patrons : \A h \in patrons'[j].held :
          Lent(j, h) => OnShelf(h.copy)]_floorVars

\* A loan goes to the patron whose card was scanned at a desk that is lending,
\* and carries the clock's day.  The days queued are used one by one.
LentInSession ==
    [][/\ \A j \in DOMAIN patrons : \A h \in patrons'[j].held :
            Lent(j, h) =>
              /\ h.lastOut = ClockDay
              /\ ~IsExhausted => storedTimes' = Tail(storedTimes)
              /\ \E s \in Scanners : /\ mode[s] = "checkout"
                                     /\ patronId[s] = patrons[j].card]_floorVars

\* A copy that is out was lent on a day: the calls of the service that leave one out
\* since no day name branch 99, and no scan makes a scanner name it, neither one
\* that finds the scanner gone nor one that comes before any branch card.
OutSinceADay ==
    \A i \in DOMAIN catalog :
        FirstCopy(i, catalog[i].copy) /\ ~IsAvailable(catalog[i])
            => catalog[i].lastOut \in Days

\* A copy comes to a shelf, or goes from one branch to another, only at a desk
\* taking returns or stock, and at the branch its scanner has.
ShelvedAtDesk ==
    [][\A i \in DOMAIN catalog' :
          /\ FirstCopy(i, catalog[i].copy)'
          /\ IsAvailable(catalog'[i])
          /\ i \in DOMAIN catalog => catalog'[i].branch # catalog[i].branch
          => \E s \in Scanners : /\ mode[s] \in {"checkin", "inventory"}
                                 /\ branchId[s] = catalog'[i].branch]_floorVars

\* While a desk lends to a patron no card changes whom it lends to or where,
\* neither there nor at another desk: the session ends with the done key.
SessionKept ==
    [][\A s \in Scanners :
          mode[s] = "checkout" =>
            /\ mode'[s] \in {"checkout", "checkin"}
            /\ patronId'[s] = patronId[s]
            /\ branchId'[s] = branchId[s]]_floorVars

==============================================================================
