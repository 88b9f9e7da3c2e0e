----------------------------- MODULE CashierProofs -----------------------------
(***************************************************************************)
(* Clerks at the till, for any number of them and any amounts: the stores  *)
(* agree, and the service keeps the accounts of LendingTill.               *)
(*                                                                         *)
(* What a clerk's object has in common with the record he found is         *)
(* Accounted: the same patron and the same loans, and a balance less by    *)
(* what he remitted.  His duty makes the record found the one stored, so   *)
(* that writing his object over it is a payment (PayStep) and nothing else.*)
(***************************************************************************)
EXTENDS Cashier, LendingDeskProofs

Accounted ==
    \A k \in Clerks : own[k] # Nobody =>
        /\ found[k] \in Patron
        /\ remitted[k] \in Nat
        /\ own[k] = [found[k] EXCEPT !.fine = @ - remitted[k]]

TillInv ==
    /\ DeskInv
    /\ DOMAIN own = Clerks /\ DOMAIN found = Clerks /\ DOMAIN remitted = Clerks
    /\ Accounted

PayStep(j, n) ==
    /\ patrons' = [patrons EXCEPT ![j] = Remit(@, n)]
    /\ outcome' = "ok"
    /\ UNCHANGED <<catalog, today>>

LEMMA RemitType ==
    ASSUME NEW p \in Patron, NEW n \in Nat
    PROVE  /\ Remit(p, n) \in Patron
           /\ Remit(p, n).card = p.card
           /\ Remit(p, n).held = p.held
           /\ Remit(p, n).fine = p.fine - n
BY DEF Remit, Patron

\* What Accounted says of one clerk, once for two payments in a row.
LEMMA RemitTwice ==
    ASSUME NEW p \in Patron, NEW m \in Nat, NEW n \in Nat
    PROVE  Remit([p EXCEPT !.fine = @ - m], n) = [p EXCEPT !.fine = @ - (m + n)]
<1>1. p.fine \in Int
  BY DEF Patron
<1>2. p.fine - m - n = p.fine - (m + n)
  BY <1>1
<1> QED BY <1>2 DEF Remit, Patron

\* The step of a careful clerk is a payment on the record in the store.
LEMMA UpdateIsPay ==
    ASSUME TillInv, NEW k \in Clerks, Update(k)
    PROVE  /\ own[k] \in Patron
           /\ \E j \in DOMAIN patrons :
                /\ patrons[j].card = own[k].card
                /\ PayStep(j, remitted[k])
           /\ remitted[k] \in Nat
<1>1. /\ own[k] # Nobody
      /\ found[k] \in Patron
      /\ remitted[k] \in Nat
      /\ own[k] = Remit(found[k], remitted[k])
  BY DEF Update, TillInv, Accounted, Remit
<1>2. PICK j \in DOMAIN patrons : patrons[j] = found[k]
  BY DEF Update, Fresh
<1>3. own[k] \in Patron /\ own[k].card = patrons[j].card
  BY <1>1, <1>2, RemitType
<1>4. patrons' = [patrons EXCEPT ![j] = own[k]] /\ outcome' = "ok"
  BY <1>3, UpdateOfRegistered DEF Update, TillInv
<1>5. PayStep(j, remitted[k])
  BY <1>1, <1>2, <1>4 DEF PayStep, Update
<1> QED BY <1>1, <1>3, <1>5

LEMMA PayKeepsDesk ==
    ASSUME DeskInv, NEW j \in DOMAIN patrons, NEW n \in Nat, PayStep(j, n)
    PROVE  DeskInv'
<1> DEFINE q == Remit(patrons[j], n)
<1>1. patrons[j] \in Patron /\ LoansOf(patrons[j])
  BY PatronAtType DEF DeskInv, IInv, LoansDated, LoansOf
<1>2. /\ q \in Patron
      /\ q.card = patrons[j].card
      /\ q.held = patrons[j].held
      /\ LoansOf(q)
  BY <1>1, RemitType DEF LoansOf
<1>3. /\ patrons' = [patrons EXCEPT ![j] = q]
      /\ outcome' = "ok"
      /\ catalog' = catalog
      /\ today' = today
  BY DEF PayStep
<1> HIDE DEF q
<1>4. FirstPatron(j, q.card)
  <2>1. DOMAIN patrons = 1..Len(patrons) /\ Len(patrons) \in Nat
    BY LenProperties DEF DeskInv, IInv, TypeOK
  <2>2. \A l \in 1..(j-1) : l \in DOMAIN patrons /\ l # j
    BY <2>1
  <2> QED BY <1>2, <2>2 DEF DeskInv, OneEntryEach, FirstPatron
<1>5. IInv'
  <2>1. CatalogStep /\ PatronStep /\ outcome' \in Outcomes
    BY <1>2, <1>3, <1>4 DEF CatalogStep, PatronStep, PatronWritten, Outcomes
  <2>2. IInv
    BY DEF DeskInv
  <2> QED BY <2>1, <2>2, CatalogInvariant, PatronInvariant DEF IInv, TypeOK
<1>6. /\ DOMAIN patrons' = DOMAIN patrons
      /\ \A l \in DOMAIN patrons : /\ patrons'[l].card = patrons[l].card
                                   /\ patrons'[l].held = patrons[l].held
  BY <1>2, <1>3
<1>7. OneEntryEach' /\ Custody'
  BY <1>3, <1>6 DEF DeskInv, OneEntryEach, Custody
<1>8. OneOfTitleOut' /\ Listed' /\ Joined'
  BY <1>3, <1>6 DEF DeskInv, OneOfTitleOut, Listed, Joined
<1> QED BY <1>3, <1>5, <1>7, <1>8 DEF DeskInv, NoFailure

-----------------------------------------------------------------------------

LEMMA CashierInitInvariant == CashierInit => TillInv
BY DeskInitInvariant DEF CashierInit, TillInv, Accounted

LEMMA DeskVarsKept == DeskInv /\ UNCHANGED deskVars => DeskInv'
BY DeskNextInvariant

LEMMA CashierNextInvariant == TillInv /\ [CashierNext]_cashierVars => TillInv'
<1> SUFFICES ASSUME TillInv, [CashierNext]_cashierVars PROVE TillInv'
  OBVIOUS
<1> USE DEF TillInv
<1>1. CASE DeskNext /\ received' = {} /\ UNCHANGED <<own, found, remitted>>
  BY <1>1, DeskNextInvariant DEF Accounted
<1>2. ASSUME NEW k \in Clerks, NEW c \in Cards, Find(k, c)
      PROVE  TillInv'
  <2>1. PICK p \in PatronRecord(c) : /\ own' = [own EXCEPT ![k] = p]
                                     /\ found' = [found EXCEPT ![k] = p]
    BY <1>2 DEF Find
  <2>2. p \in Patron
    BY PatronRecordType DEF DeskInv
  <2>3. p = [p EXCEPT !.fine = @ - 0]
    BY <2>2 DEF Patron
  <2>4. DeskInv' /\ remitted' = [remitted EXCEPT ![k] = 0]
    BY <1>2, DeskVarsKept DEF Find
  <2> QED BY <2>1, <2>2, <2>3, <2>4 DEF Accounted
<1>3. ASSUME NEW k \in Clerks, NEW amount \in Amounts, TakePayment(k, amount)
      PROVE  TillInv'
  <2>1. /\ own' = [own EXCEPT ![k] = Remit(@, amount)]
        /\ remitted' = [remitted EXCEPT ![k] = @ + amount]
        /\ own[k] # Nobody
        /\ found' = found
        /\ DeskInv'
    BY <1>3, DeskVarsKept DEF TakePayment
  <2>2. amount \in Nat
    BY CashierAssumption
  <2>3. /\ found[k] \in Patron
        /\ remitted[k] \in Nat
        /\ own[k] = [found[k] EXCEPT !.fine = @ - remitted[k]]
    BY <2>1 DEF Accounted
  <2>4. Remit(own[k], amount) = [found[k] EXCEPT !.fine = @ - (remitted[k] + amount)]
    BY <2>2, <2>3, RemitTwice
  <2>5. remitted[k] + amount \in Nat
    BY <2>2, <2>3
  <2> QED BY <2>1, <2>3, <2>4, <2>5 DEF Accounted
<1>4. ASSUME NEW k \in Clerks, Update(k)
      PROVE  TillInv'
  <2>1. DeskInv' /\ own[k] \in Patron
    BY <1>4, UpdateIsPay, PayKeepsDesk
  <2>2. /\ found' = [found EXCEPT ![k] = own[k]]
        /\ remitted' = [remitted EXCEPT ![k] = 0]
        /\ own' = own
    BY <1>4 DEF Update
  <2>3. own[k] = [own[k] EXCEPT !.fine = @ - 0]
    BY <2>1 DEF Patron
  <2> QED BY <2>1, <2>2, <2>3 DEF Accounted
<1>5. CASE UNCHANGED cashierVars
  BY <1>5, DeskVarsKept DEF cashierVars, Accounted
<1> QED BY <1>1, <1>2, <1>3, <1>4, <1>5 DEF CashierNext

\* The inductive invariant of the till.
THEOREM TillInvariance == CashierSpec => []TillInv
BY CashierInitInvariant, CashierNextInvariant, PTL DEF CashierSpec

\* An update with a clerk's object never brings back a loan that was returned
\* meanwhile nor drops one that was made.
THEOREM TillKeepsCustody == CashierSpec => []Custody
BY TillInvariance, PTL DEF TillInv, DeskInv

-----------------------------------------------------------------------------
(* The till implements LendingTill.                                        *)

LEMMA PayRefines ==
    ASSUME DeskInv, NEW j \in DOMAIN patrons, NEW n \in Nat, PayStep(j, n),
           received' = {<<patrons[j].card, n>>}
    PROVE  T!TillNext
<1> DEFINE q == Remit(patrons[j], n)
           c == patrons[j].card
<1>1. patrons[j] \in Patron
  BY PatronAtType DEF DeskInv, IInv
<1>2. q.card = c /\ q.held = patrons[j].held /\ q.fine = patrons[j].fine - n
  BY <1>1, RemitType
<1>3. /\ patrons' = [patrons EXCEPT ![j] = q]
      /\ UNCHANGED <<catalog, today>>
  BY DEF PayStep
<1> HIDE DEF q
<1>4. /\ DOMAIN patrons' = DOMAIN patrons
      /\ \A l \in DOMAIN patrons : patrons'[l] = IF l = j THEN q ELSE patrons[l]
  BY <1>3
<1>5. c \in Cards
  BY DEF DeskInv, Joined
<1>6. <<c, patrons[j].fine>> \in accounts
  BY InAccounts
<1>7. accounts' = (accounts \ {<<c, patrons[j].fine>>})
                    \cup {<<c, patrons[j].fine - n>>}
  BY <1>2, <1>4 DEF accounts, DeskInv, OneEntryEach
<1>8. loans' = loans
  BY <1>2, <1>4 DEF loans
<1> HIDE DEF c
<1>9. T!Pay(c, n)
  BY <1>3, <1>6, <1>7, <1>8, SameCatalog DEF T!Pay, c
<1> QED BY <1>5, <1>9 DEF T!TillNext, c

LEMMA DeskNextRefines ==
    ASSUME DeskInv, [DeskNext]_deskVars
    PROVE  [T!Next]_T!lendingVars
<1>1. CASE DeskCall /\ UNCHANGED today
  <2>1. L!Next
    BY <1>1, DeskCallIsStep, DeskStepRefines
  <2> QED BY <2>1 DEF L!Next, T!Next, L!NextDay, T!NextDay, L!Join, T!Join,
             L!Acquire, T!Acquire, L!Move, T!Move, L!Lend, T!Lend, L!Return, T!Return
<1>2. CASE NextDay
  BY <1>2, SamePatrons, SameCatalog DEF NextDay, vars, T!NextDay, T!Next
<1>3. CASE UNCHANGED deskVars
  BY <1>3, SamePatrons, SameCatalog DEF deskVars, vars, T!lendingVars
<1> QED BY <1>1, <1>2, <1>3 DEF DeskNext

LEMMA TillInitRefines == CashierInit => T!TillInit
<1> SUFFICES ASSUME CashierInit PROVE T!TillInit
  OBVIOUS
<1>1. L!Init /\ received = {}
  BY InitRefines DEF CashierInit
<1> QED BY <1>1 DEF L!Init, T!Init, T!TillInit

\* Payments remitted on clerks' objects, while the desk lends, takes back and
\* fines, all reach the accounts, each once and on the right one, and cost nobody
\* a loan or a fine, provided clerks update only what they found.
THEOREM TillImplementsLendingTill == CashierSpec => KeepsAccounts
<1>1. TillInv /\ [CashierNext]_cashierVars => [T!TillNext]_T!tillVars
  <2> SUFFICES ASSUME TillInv, [CashierNext]_cashierVars
               PROVE  [T!TillNext]_T!tillVars
    OBVIOUS
  <2>1. CASE DeskNext /\ received' = {}
    BY <2>1, DeskNextRefines DEF T!TillNext, TillInv
  <2>2. CASE UNCHANGED deskVars /\ received' = {}
    BY <2>2, DeskNextRefines DEF T!TillNext, TillInv
  <2>3. ASSUME NEW k \in Clerks, Update(k)
        PROVE  T!TillNext
    BY <2>3, UpdateIsPay, PayRefines DEF Update, TillInv
  <2>4. CASE UNCHANGED cashierVars
    BY <2>4, SamePatrons, SameCatalog
       DEF cashierVars, deskVars, vars, T!lendingVars, T!tillVars
  <2> QED BY <2>1, <2>2, <2>3, <2>4 DEF CashierNext, Find, TakePayment
<1> QED
  BY <1>1, TillInitRefines, TillInvariance, PTL
     DEF CashierSpec, KeepsAccounts, T!TillSpec

==============================================================================
