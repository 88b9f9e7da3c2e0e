------------------------------ MODULE LendingTill ------------------------------
(***************************************************************************)
(* Lending with a till: a member pays on his account.  A payment changes   *)
(* that account by what was paid and nothing else, whatever is lent and    *)
(* returned before and after it.                                           *)
(***************************************************************************)
EXTENDS Lending

VARIABLE received   \* <<card, amount>> of the payment just made, if any

tillVars == <<lendingVars, received>>

TillInit == Init /\ received = {}

Pay(c, amount) ==
    /\ \E a \in accounts :
         /\ a[1] = c
         /\ accounts' = (accounts \ {a}) \cup {<<c, a[2] - amount>>}
    /\ received' = {<<c, amount>>}
    /\ UNCHANGED <<shelf, loans, today>>

TillNext ==
    \/ received' = {} /\ [Next]_lendingVars
    \/ \E p \in received' : p \in Cards \X Nat /\ Pay(p[1], p[2])

TillSpec == TillInit /\ [][TillNext]_tillVars

==============================================================================
