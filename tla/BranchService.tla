----------------------------- MODULE BranchService -----------------------------
(***************************************************************************)
(* BranchService over the static map of KeyedMemoryPersistence: branches   *)
(* kept by id, given by the client (add of a Branch) or generated (add of  *)
(* a name).  A branch is its name; its address follows it everywhere.      *)
(*                                                                         *)
(* Ids are numbers where their text spells one, anything else otherwise.   *)
(***************************************************************************)
EXTENDS Naturals, FiniteSets

CONSTANTS
    Names,
    GivenIds    \* the ids clients give to their own branches

VARIABLES
    branches,   \* KeyedMemoryPersistence<Branch>::mData, id to name
    issued,     \* history: <<id, name>> of each add of a name since deleteAll
    refused     \* the names the last call threw DuplicateBranchNameException for

vars == <<branches, issued, refused>>

Ids == Nat \cup GivenIds

NoBranches == [id \in {} |-> id]

Init ==
    /\ branches = NoBranches
    /\ issued = {}
    /\ refused = {}

size == Cardinality(DOMAIN branches)

Listed(n) == \E id \in DOMAIN branches : branches[id] = n

\* Slip: a matching name is not reported.
MayAnswerAnything(n, answer) == answer => DOMAIN branches # {}

\* The lambda that matches() hands to find_if returns true for an entry of that
\* name and nothing at all for the others, so what find_if takes for an answer
\* there is the build's: with gcc false at -O0 and true from -O1 on.
MayAnswer(n, answer) ==
    IF answer THEN DOMAIN branches # {} ELSE ~Listed(n)

existsWithName(n, answer) == MayAnswer(n, answer)

\* Slip: an existing entry is kept.
SaveNew(id, n) ==
    branches' = [i \in DOMAIN branches \cup {id} |->
                   IF i \in DOMAIN branches THEN branches[i] ELSE n]

save(id, n) ==
    branches' = [i \in DOMAIN branches \cup {id} |->
                   IF i = id THEN n ELSE branches[i]]

\* Slip: the id is the number of branches.
SizeAsId == size

\* Slip: the id is counted after the branch is stored.
SizeAfterNext == size + 2

GeneratedId == size + 1

AddNamed(n) ==
    /\ existsWithName(n, FALSE)
    /\ save(GeneratedId, n)
    /\ issued' = issued \cup {<<GeneratedId, n>>}
    /\ refused' = {}

RefuseNamed(n) ==
    /\ existsWithName(n, TRUE)
    /\ refused' = {n}
    /\ UNCHANGED <<branches, issued>>

AddBranch(id, n) ==
    /\ save(id, n)
    /\ refused' = {}
    /\ UNCHANGED issued

deleteAll ==
    /\ branches' = NoBranches
    /\ issued' = {}
    /\ refused' = {}

Next ==
    \/ \E n \in Names : AddNamed(n) \/ RefuseNamed(n)
    \/ \E id \in GivenIds, n \in Names : AddBranch(id, n)
    \/ deleteAll

Spec == Init /\ [][Next]_vars

-----------------------------------------------------------------------------

TypeOK ==
    /\ IsFiniteSet(DOMAIN branches)
    /\ DOMAIN branches \subseteq Ids
    /\ branches \in [DOMAIN branches -> Names]
    /\ issued \subseteq ((Nat \ {0}) \X Names)
    /\ refused \subseteq Names

\* BranchServiceTest's AddGeneratesUniqueId: two adds of names return two ids.
GeneratesUniqueId == \A p, q \in issued : p[1] = q[1] => p = q

\* BranchServiceTest's AddThrowsWhenNameNotUnique, and the name of the exception:
\* only a name some branch has is refused.
RefusedIsListed == \A n \in refused : Listed(n)

==============================================================================
