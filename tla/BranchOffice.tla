------------------------------ MODULE BranchOffice ------------------------------
(***************************************************************************)
(* BranchService for clients that do not number ahead: an id they give     *)
(* spells no number, or one that is at most the number of branches plus    *)
(* one.  That is all it takes for generated ids to be new.                 *)
(***************************************************************************)
EXTENDS BranchService

AddNotAhead(id, n) ==
    /\ id \in Nat => id <= size + 1
    /\ AddBranch(id, n)

OfficeNext ==
    \/ \E n \in Names : AddNamed(n) \/ RefuseNamed(n)
    \/ \E id \in GivenIds, n \in Names : AddNotAhead(id, n)
    \/ deleteAll

OfficeSpec == Init /\ [][OfficeNext]_vars

\* No id that spells a number is greater than the number of branches: the next
\* id generated is free, though branches with other ids are counted too and ids
\* may be skipped.
NumbersWithinSize == \A id \in DOMAIN branches \cap Nat : id <= size

\* The id of Branch::CHECKED_OUT, where a holding counts as lent.
CheckedOutId == 99

\* While there are fewer branches than that, none has this id, generated or given:
\* no holding shelved at a branch counts as lent.
NoBranchIsCheckedOut == size < CheckedOutId => CheckedOutId \notin DOMAIN branches

\* A branch opened by name is found under the id that was returned.
IssuedListed == \A p \in issued : p[1] \in DOMAIN branches

D == INSTANCE BranchDirectory

\* Each add of a name gives a branch of its own, in nobody's place.  (A branch added
\* under a given id takes the place of the one there.)
KeepsDirectory == D!Spec

==============================================================================
