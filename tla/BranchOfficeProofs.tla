--------------------------- MODULE BranchOfficeProofs ---------------------------
(***************************************************************************)
(* For all names, given ids and numbers of branches: with clients that do  *)
(* not number ahead, generated ids are new.                                *)
(*                                                                         *)
(* GeneratesUniqueId is not inductive: the id generated next is new only   *)
(* because it is greater than every number among the ids                   *)
(* (NumbersWithinSize), and not that of an earlier branch opened by name   *)
(* only because that branch still is among those counted (IssuedListed).   *)
(***************************************************************************)
EXTENDS BranchOffice, FiniteSetTheorems, TLAPS

OfficeInv ==
    /\ TypeOK
    /\ GeneratesUniqueId
    /\ NumbersWithinSize
    /\ IssuedListed

LEMMA SizeType == ASSUME TypeOK PROVE size \in Nat
BY FS_CardinalityType DEF TypeOK, size

\* What saving a branch does to the ids, their number and the names.
LEMMA SaveEntry ==
    ASSUME TypeOK, NEW id \in Ids, NEW n \in Names, save(id, n)
    PROVE  /\ DOMAIN branches' = DOMAIN branches \cup {id}
           /\ IsFiniteSet(DOMAIN branches')
           /\ branches' \in [DOMAIN branches' -> Names]
           /\ size' = IF id \in DOMAIN branches THEN size ELSE size + 1
<1>1. DOMAIN branches' = DOMAIN branches \cup {id}
  BY DEF save
<1>2. branches' \in [DOMAIN branches' -> Names]
  BY <1>1 DEF save, TypeOK
<1>3. /\ IsFiniteSet(DOMAIN branches \cup {id})
      /\ Cardinality(DOMAIN branches \cup {id}) =
           IF id \in DOMAIN branches THEN size ELSE size + 1
  BY FS_AddElement DEF TypeOK, size
<1> QED BY <1>1, <1>2, <1>3 DEF size

LEMMA GeneratedIsFree ==
    ASSUME OfficeInv
    PROVE  /\ GeneratedId \in Nat \ {0}
           /\ GeneratedId \notin DOMAIN branches
           /\ \A p \in issued : p[1] # GeneratedId
<1>1. GeneratedId \in Nat \ {0}
  BY SizeType DEF OfficeInv, GeneratedId
<1>2. GeneratedId \notin DOMAIN branches
  BY <1>1, SizeType DEF OfficeInv, NumbersWithinSize, GeneratedId
<1> QED BY <1>1, <1>2 DEF OfficeInv, IssuedListed

LEMMA OfficeInitInvariant == Init => OfficeInv
<1> SUFFICES ASSUME Init PROVE OfficeInv
  OBVIOUS
<1>1. DOMAIN branches = {} /\ issued = {} /\ refused = {}
  BY DEF Init, NoBranches
<1>2. TypeOK
  BY <1>1, FS_EmptySet DEF TypeOK, Init, NoBranches
<1> QED
  BY <1>1, <1>2 DEF OfficeInv, GeneratesUniqueId, NumbersWithinSize, IssuedListed

LEMMA AddNamedInvariant ==
    ASSUME OfficeInv, NEW n \in Names, AddNamed(n)
    PROVE  OfficeInv'
<1>1. TypeOK /\ size \in Nat /\ GeneratedId \in Ids
  BY SizeType, GeneratedIsFree DEF OfficeInv, Ids
<1>2. /\ DOMAIN branches' = DOMAIN branches \cup {GeneratedId}
      /\ IsFiniteSet(DOMAIN branches')
      /\ branches' \in [DOMAIN branches' -> Names]
      /\ size' = size + 1
  BY <1>1, SaveEntry, GeneratedIsFree DEF AddNamed
<1>3. issued' = issued \cup {<<GeneratedId, n>>} /\ refused' = {}
  BY DEF AddNamed
<1>4. TypeOK'
  BY <1>1, <1>2, <1>3, GeneratedIsFree DEF TypeOK, Ids
<1>5. GeneratesUniqueId'
  <2> SUFFICES ASSUME NEW p \in issued', NEW q \in issued', p[1] = q[1]
               PROVE  p = q
    BY DEF GeneratesUniqueId
  <2>1. CASE p \in issued /\ q \in issued
    BY <2>1 DEF OfficeInv, GeneratesUniqueId
  <2> QED BY <1>3, <2>1, GeneratedIsFree
<1>6. NumbersWithinSize'
  BY <1>1, <1>2, GeneratedIsFree DEF OfficeInv, NumbersWithinSize, GeneratedId
<1>7. IssuedListed'
  BY <1>2, <1>3 DEF OfficeInv, IssuedListed
<1> QED BY <1>4, <1>5, <1>6, <1>7 DEF OfficeInv

LEMMA AddNotAheadInvariant ==
    ASSUME OfficeInv, NEW id \in GivenIds, NEW n \in Names, AddNotAhead(id, n)
    PROVE  OfficeInv'
<1>1. TypeOK /\ size \in Nat /\ id \in Ids
  BY SizeType DEF OfficeInv, Ids
<1>2. /\ DOMAIN branches' = DOMAIN branches \cup {id}
      /\ IsFiniteSet(DOMAIN branches')
      /\ branches' \in [DOMAIN branches' -> Names]
      /\ size' = IF id \in DOMAIN branches THEN size ELSE size + 1
  BY <1>1, SaveEntry DEF AddNotAhead, AddBranch
<1>3. issued' = issued /\ refused' = {} /\ (id \in Nat => id <= size + 1)
  BY DEF AddNotAhead, AddBranch
<1>4. TypeOK'
  BY <1>1, <1>2, <1>3 DEF TypeOK
<1>5. NumbersWithinSize'
  <2> SUFFICES ASSUME NEW i \in DOMAIN branches' \cap Nat
               PROVE  i <= size'
    BY DEF NumbersWithinSize
  <2>1. CASE i \in DOMAIN branches
    BY <1>1, <1>2, <2>1 DEF OfficeInv, NumbersWithinSize
  <2>2. CASE i \notin DOMAIN branches
    BY <1>1, <1>2, <1>3, <2>2
  <2> QED BY <2>1, <2>2
<1>6. IssuedListed' /\ GeneratesUniqueId'
  BY <1>2, <1>3 DEF OfficeInv, IssuedListed, GeneratesUniqueId
<1> QED BY <1>4, <1>5, <1>6 DEF OfficeInv

LEMMA OfficeNextInvariant == OfficeInv /\ [OfficeNext]_vars => OfficeInv'
<1> SUFFICES ASSUME OfficeInv, [OfficeNext]_vars PROVE OfficeInv'
  OBVIOUS
<1>1. ASSUME NEW n \in Names, RefuseNamed(n)
      PROVE  OfficeInv'
  BY <1>1 DEF RefuseNamed, OfficeInv, TypeOK, GeneratesUniqueId, NumbersWithinSize,
              IssuedListed, size
<1>2. CASE deleteAll
  <2>1. DOMAIN branches' = {} /\ issued' = {} /\ refused' = {}
    BY <1>2 DEF deleteAll, NoBranches
  <2>2. TypeOK'
    BY <1>2, <2>1, FS_EmptySet DEF TypeOK, deleteAll, NoBranches
  <2> QED
    BY <2>1, <2>2 DEF OfficeInv, GeneratesUniqueId, NumbersWithinSize, IssuedListed
<1>3. CASE UNCHANGED vars
  BY <1>3 DEF vars, OfficeInv, TypeOK, GeneratesUniqueId, NumbersWithinSize,
              IssuedListed, size
<1> QED
  BY <1>1, <1>2, <1>3, AddNamedInvariant, AddNotAheadInvariant DEF OfficeNext

\* The inductive invariant of the office.
THEOREM OfficeInvariance == OfficeSpec => []OfficeInv
BY OfficeInitInvariant, OfficeNextInvariant, PTL DEF OfficeSpec

\* Through adds, refusals and deletes the map keeps its type, and what adds of names
\* return are positive numbers.
THEOREM OfficeTypeCorrectness == OfficeSpec => []TypeOK
  BY OfficeInvariance, PTL DEF OfficeInv

\* No two adds of names return the same id, when clients do not number ahead.
THEOREM IdsAreUnique == OfficeSpec => []GeneratesUniqueId
BY OfficeInvariance, PTL DEF OfficeInv

\* No id that spells a number is ahead of the number of branches.
THEOREM NoneAhead == OfficeSpec => []NumbersWithinSize
BY OfficeInvariance, PTL DEF OfficeInv

\* No branch has the id of Branch::CHECKED_OUT before there are 99 of them: the
\* 99th opened by name is the first that can, and holdings there look lent.
THEOREM CheckedOutStaysFree == OfficeSpec => []NoBranchIsCheckedOut
<1>1. OfficeInv => NoBranchIsCheckedOut
  BY SizeType DEF OfficeInv, NumbersWithinSize, NoBranchIsCheckedOut, CheckedOutId
<1> QED BY <1>1, OfficeInvariance, PTL

\* BranchService is a directory that never takes away a branch it opened: every
\* add of a name opens a branch under an id and a name that no branch has.
THEOREM OfficeKeepsDirectory == OfficeSpec => KeepsDirectory
<1>1. Init => D!Init
  BY DEF Init, NoBranches, D!Init
<1>2. OfficeInv /\ [OfficeNext]_vars => [D!Next]_D!directory
  <2> SUFFICES ASSUME OfficeInv, [OfficeNext]_vars
               PROVE  [D!Next]_D!directory
    OBVIOUS
  <2>1. ASSUME NEW n \in Names, AddNamed(n)
        PROVE  D!Next
    <3>1. \A i \in DOMAIN branches : branches[i] # n
      BY <2>1 DEF AddNamed, existsWithName, MayAnswer, Listed
    <3>2. D!Enter(GeneratedId, n) /\ GeneratedId \in DOMAIN branches'
      BY <2>1 DEF AddNamed, save, D!Enter
    <3>3. D!Open(GeneratedId, n)
      BY <2>1, <3>1, <3>2, GeneratedIsFree DEF AddNamed, D!Open
    <3> QED BY <3>2, <3>3 DEF D!Next
  <2>2. ASSUME NEW id \in GivenIds, NEW n \in Names, AddNotAhead(id, n)
        PROVE  D!Next
    <3>1. D!Register(id, n) /\ id \in DOMAIN branches'
      BY <2>2 DEF AddNotAhead, AddBranch, save, D!Register, D!Enter
    <3> QED BY <3>1 DEF D!Next
  <2>3. ASSUME NEW n \in Names, RefuseNamed(n)
        PROVE  UNCHANGED D!directory
    BY <2>3 DEF RefuseNamed, D!directory
  <2>4. CASE deleteAll
    BY <2>4 DEF deleteAll, NoBranches, D!Next, D!Clear
  <2>5. CASE UNCHANGED vars
    BY <2>5 DEF vars, D!directory
  <2> QED BY <2>1, <2>2, <2>3, <2>4, <2>5 DEF OfficeNext
<1> QED
  BY <1>1, <1>2, OfficeInvariance, PTL DEF OfficeSpec, KeepsDirectory, D!Spec

==============================================================================
