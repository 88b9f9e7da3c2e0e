-------------------------------- MODULE Cashier --------------------------------
(***************************************************************************)
(* Clerks at the till beside a careful desk.  A clerk finds a patron,      *)
(* remits what the patron pays from the balance of his own Patron object,  *)
(* and updates the store with that object, which overwrites the whole      *)
(* record, loans and fines included.  Between those calls the desk and     *)
(* the other clerks make theirs.                                           *)
(*                                                                         *)
(* One more duty keeps the promises of LendingTill: a clerk updates only   *)
(* if the record still is what he found; otherwise he finds it again, and  *)
(* takes the money again.                                                  *)
(***************************************************************************)
EXTENDS LendingDesk

CONSTANTS
    Clerks,
    Amounts,    \* what a patron hands over at a time
    Nobody      \* a clerk has found no patron yet

ASSUME CashierAssumption == Amounts \subseteq Nat /\ Nobody \notin Patron

VARIABLES
    own,        \* the Patron object of each clerk
    found,      \* the record as it was when the clerk found or updated it last
    remitted,   \* history: what was remitted on his object since
    received    \* history: <<card, amount>> of the payment just made, if any

cashierVars == <<deskVars, own, found, remitted, received>>

CashierInit ==
    /\ DeskInit
    /\ own = [k \in Clerks |-> Nobody]
    /\ found = own
    /\ remitted = [k \in Clerks |-> 0]
    /\ received = {}

Find(k, c) ==
    /\ Running
    /\ Registered(c)
    /\ \E p \in PatronRecord(c) :
         /\ own' = [own EXCEPT ![k] = p]
         /\ found' = [found EXCEPT ![k] = p]
    /\ remitted' = [remitted EXCEPT ![k] = 0]
    /\ received' = {}
    /\ UNCHANGED deskVars

TakePayment(k, amount) ==
    /\ Running
    /\ own[k] # Nobody
    /\ own' = [own EXCEPT ![k] = Remit(@, amount)]
    /\ remitted' = [remitted EXCEPT ![k] = @ + amount]
    /\ received' = {}
    /\ UNCHANGED <<deskVars, found>>

\* The duty: nothing was lent to, returned or paid by the patron meanwhile.
Fresh(k) ==
    \E j \in DOMAIN patrons :
        FirstPatron(j, own[k].card) /\ patrons[j] = found[k]

Update(k) ==
    /\ Running
    /\ own[k] # Nobody
    /\ Fresh(k)
    /\ UpdatePatron(own[k])
    /\ found' = [found EXCEPT ![k] = own[k]]
    /\ remitted' = [remitted EXCEPT ![k] = 0]
    /\ received' = {<<own[k].card, remitted[k]>>}
    /\ UNCHANGED <<catalog, today, own>>

CashierNext ==
    \/ DeskNext /\ received' = {} /\ UNCHANGED <<own, found, remitted>>
    \/ \E k \in Clerks, c \in Cards : Find(k, c)
    \/ \E k \in Clerks, amount \in Amounts : TakePayment(k, amount)
    \/ \E k \in Clerks : Update(k)

CashierSpec == CashierInit /\ [][CashierNext]_cashierVars

-----------------------------------------------------------------------------

T == INSTANCE LendingTill WITH Copies <- DeskCopies, Branches <- DeskBranches

\* No payment, fine or loan is lost between a clerk's find and his update: the
\* service with clerks at the till is a lending library where members can pay.
KeepsAccounts == T!TillSpec

==============================================================================
