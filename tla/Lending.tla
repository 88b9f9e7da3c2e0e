-------------------------------- MODULE Lending --------------------------------
(***************************************************************************)
(* What a lending library promises, with one record per fact and no order  *)
(* among them: a copy is on the shelf of one branch or lent to one patron  *)
(* since one day; a return ends the loan of the patron who has the copy    *)
(* and adds the fee for that loan to his balance and to nobody else's.     *)
(***************************************************************************)
EXTENDS Integers

CONSTANTS
    Copies, Branches, Cards, Days,
    Fee     \* Fee[k][since][day]: due for copy k lent since and back on day

VARIABLES
    accounts,   \* <<card, balance>>, for every member
    shelf,      \* <<copy, branch>>
    loans,      \* <<copy, card, since>>
    today

lendingVars == <<accounts, shelf, loans, today>>

Init ==
    /\ accounts = {}
    /\ shelf = {}
    /\ loans = {}
    /\ today \in Days

NextDay ==
    /\ \E day \in Days : today' = day
    /\ UNCHANGED <<accounts, shelf, loans>>

Join(c) ==
    /\ \A a \in accounts : a[1] # c
    /\ accounts' = accounts \cup {<<c, 0>>}
    /\ UNCHANGED <<shelf, loans, today>>

Acquire(k, b) ==
    /\ \A s \in shelf : s[1] # k
    /\ \A l \in loans : l[1] # k
    /\ shelf' = shelf \cup {<<k, b>>}
    /\ UNCHANGED <<accounts, loans, today>>

Move(k, from, b) ==
    /\ <<k, from>> \in shelf
    /\ shelf' = (shelf \ {<<k, from>>}) \cup {<<k, b>>}
    /\ UNCHANGED <<accounts, loans, today>>

Lend(k, from, c) ==
    /\ <<k, from>> \in shelf
    /\ \E a \in accounts : a[1] = c
    /\ shelf' = shelf \ {<<k, from>>}
    /\ loans' = loans \cup {<<k, c, today>>}
    /\ UNCHANGED <<accounts, today>>

Return(k, c, since, b) ==
    /\ <<k, c, since>> \in loans
    /\ loans' = loans \ {<<k, c, since>>}
    /\ shelf' = shelf \cup {<<k, b>>}
    /\ \E a \in accounts :
         /\ a[1] = c
         /\ accounts' = (accounts \ {a}) \cup {<<c, a[2] + Fee[k][since][today]>>}
    /\ UNCHANGED today

Next ==
    \/ NextDay
    \/ \E c \in Cards : Join(c)
    \/ \E k \in Copies, b \in Branches : Acquire(k, b)
    \/ \E k \in Copies, from, b \in Branches : Move(k, from, b)
    \/ \E k \in Copies, from \in Branches, c \in Cards : Lend(k, from, c)
    \/ \E k \in Copies, c \in Cards, since \in Days, b \in Branches :
         Return(k, c, since, b)

Spec == Init /\ [][Next]_lendingVars

==============================================================================
