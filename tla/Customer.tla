-------------------------------- MODULE Customer --------------------------------
(***************************************************************************)
(* A customer's rentals and the statement of what they cost.  A rental     *)
(* keeps a copy of the movie, made when it is rented; the price of the     *)
(* movie may change since.  Amounts are in halves, as nothing in them is   *)
(* smaller.                                                                *)
(***************************************************************************)
EXTENDS Integers, Sequences

CONSTANTS
    Movies,
    PriceCodes,     \* "regular", "new release", "childrens" or none of these
    DaysRented,
    MaxRentals

ASSUME DaysRentedAssumption == DaysRented \subseteq Int

VARIABLES
    price,          \* the price code of each Movie object
    rentals,        \* mRentals
    tab             \* history: what the rentals cost when they were made

customerVars == <<price, rentals, tab>>

ThisAmount(code, days) ==
    LET beyond == IF days > 2 THEN (days - 2) * 3 ELSE 0
    IN  CASE code = "regular"     -> 4 + beyond
          [] code = "new release" -> days * 6
          [] code = "childrens"   -> 3 + beyond
          [] OTHER                -> 0

Points(code, days) == IF code = "new release" /\ days > 1 THEN 2 ELSE 1

NothingDue == [amount |-> 0, points |-> 0]

Charged(due, code, days) ==
    [amount |-> due.amount + ThisAmount(code, days),
     points |-> due.points + Points(code, days)]

CustomerInit ==
    /\ price \in [Movies -> PriceCodes]
    /\ rentals = <<>>
    /\ tab = NothingDue

SetPriceCode(m, code) ==
    /\ price' = [price EXCEPT ![m] = code]
    /\ UNCHANGED <<rentals, tab>>

AddRental(m, days) ==
    /\ Len(rentals) < MaxRentals
    /\ rentals' = Append(rentals, [movie |-> m, code |-> price[m], days |-> days])
    /\ tab' = Charged(tab, price[m], days)
    /\ UNCHANGED price

CustomerNext ==
    \/ \E m \in Movies, code \in PriceCodes : SetPriceCode(m, code)
    \/ \E m \in Movies, days \in DaysRented : AddRental(m, days)

CustomerSpec == CustomerInit /\ [][CustomerNext]_customerVars

\* Slip: a rental refers to the client's Movie.
CodeOfMovie(r) == price[r.movie]

CodeOf(r) == r.code

\* What is due after each turn of the loop in statement().
Sums ==
    LET sums[i \in 0..Len(rentals)] ==
          IF i = 0 THEN NothingDue
          ELSE Charged(sums[i-1], CodeOf(rentals[i]), rentals[i].days)
    IN  sums

Statement == Sums[Len(rentals)]

-----------------------------------------------------------------------------

\* A statement charges each rental, and rewards it, at the price of the day it was
\* made, whatever becomes of the movie's price and whatever is rented since.
StatementStands == Statement = tab

==============================================================================
