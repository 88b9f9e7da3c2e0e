---------------------------- MODULE SmallPartsProofs ----------------------------
(***************************************************************************)
(* What the small parts of the library promise, for any branches, versions *)
(* of the file on the server, movies and numbers of days.                  *)
(*                                                                         *)
(* Two of them compute with loops, which the modules write as recursive    *)
(* functions: CountingUp is the induction all that is said of them rests   *)
(* on, LoopExists shows that such a function computes what its definition  *)
(* says, LoopsAgree that only one does.                                    *)
(***************************************************************************)
EXTENDS LineFiles, FileReport, Customer, SequenceTheorems, WellFoundedInduction,
        TLAPS

-----------------------------------------------------------------------------
(***************************************************************************)
(* Loops.                                                                  *)
(***************************************************************************)

\* A set of numbers that is not empty has a least one.
LEMMA LeastNumber ==
    ASSUME NEW T, T \subseteq Nat, T # {}
    PROVE  \E n \in T : \A m \in T : n <= m
<1>1. PICK n \in T : \A m \in T : <<m, n>> \notin OpToRel(<, Nat)
  <2> HIDE DEF OpToRel
  <2> QED BY NatLessThanWellFounded, WFMin
<1>2. \A m \in T : ~ (m < n)
  BY <1>1 DEF OpToRel
<1> QED BY <1>2

\* What is so at 0, and at the next number wherever it is so, is so all the way up.
LEMMA CountingUp ==
    ASSUME NEW n \in Nat, NEW P, 0 \in P,
           \A i \in 0..(n-1) : i \in P => i+1 \in P
    PROVE  \A i \in 0..n : i \in P
<1> DEFINE T == (0..n) \ P
<1> SUFFICES ASSUME T # {} PROVE FALSE
  OBVIOUS
<1>1. T \subseteq Nat
  OBVIOUS
<1>2. PICK i \in T : \A j \in T : i <= j
  BY <1>1, LeastNumber
<1>3. i # 0 /\ i-1 \in 0..(n-1) /\ i-1+1 = i
  BY <1>2
<1>4. i-1 \in P
  BY <1>2, <1>3
<1> QED BY <1>3, <1>4

\* f holds what a loop over a has computed after each of its first n turns.
Turns(f, base, step, a, n) ==
    /\ f[0] = base
    /\ \A i \in 1..n : f[i] = step[a[i]][f[i-1]]

LEMMA LoopsAgree ==
    ASSUME NEW n \in Nat, NEW base, NEW step, NEW a, NEW f, NEW g,
           Turns(f, base, step, a, n), Turns(g, base, step, a, n)
    PROVE  \A i \in 0..n : f[i] = g[i]
<1> DEFINE P == {i \in 0..n : f[i] = g[i]}
<1>1. 0 \in P
  BY DEF Turns
<1>2. ASSUME NEW i \in 0..(n-1), i \in P
      PROVE  i+1 \in P
  <2>1. i+1 \in 1..n /\ i+1-1 = i /\ f[i] = g[i]
    BY <1>2
  <2>2. f[i+1] = g[i+1]
    BY <2>1 DEF Turns
  <2> QED BY <2>1, <2>2
<1>3. \A i \in 0..n : i \in P
  <2> HIDE DEF P
  <2> QED BY <1>1, <1>2, CountingUp
<1> QED BY <1>3

LEMMA OneMoreTurn ==
    ASSUME NEW S, NEW A, NEW base \in S, NEW step \in [A -> [S -> S]], NEW a,
           NEW n \in Nat, a[n+1] \in A,
           NEW f \in [0..n -> S], Turns(f, base, step, a, n)
    PROVE  \E g \in [0..(n+1) -> S] : Turns(g, base, step, a, n+1)
<1> DEFINE last == step[a[n+1]][f[n]]
           g == [i \in 0..(n+1) |-> IF i = n+1 THEN last ELSE f[i]]
<1>1. last \in S
  OBVIOUS
<1>2. g[n+1] = last
  OBVIOUS
<1> HIDE DEF last
<1>3. g \in [0..(n+1) -> S] /\ \A i \in 0..n : g[i] = f[i]
  BY <1>1
<1> HIDE DEF g
<1>4. g[0] = base
  BY <1>3 DEF Turns
<1>5. ASSUME NEW i \in 1..(n+1)
      PROVE  g[i] = step[a[i]][g[i-1]]
  <2>1. CASE i = n+1
    BY <1>2, <1>3, <2>1 DEF last
  <2>2. CASE i # n+1
    <3>1. i \in 1..n /\ i-1 \in 0..n /\ i \in 0..n
      BY <2>2
    <3>2. f[i] = step[a[i]][f[i-1]]
      BY <3>1 DEF Turns
    <3> QED BY <1>3, <3>1, <3>2
  <2> QED BY <2>1, <2>2
<1> QED BY <1>3, <1>4, <1>5 DEF Turns

LEMMA LoopExists ==
    ASSUME NEW S, NEW A, NEW base \in S, NEW step \in [A -> [S -> S]],
           NEW n \in Nat, NEW a, \A i \in 1..n : a[i] \in A
    PROVE  \E f \in [0..n -> S] : Turns(f, base, step, a, n)
<1> DEFINE Done(m) == \E f \in [0..m -> S] : Turns(f, base, step, a, m)
           P == {m \in 0..n : Done(m)}
<1>1. Done(0)
  <2>1. [i \in 0..0 |-> base] \in [0..0 -> S] /\ Turns([i \in 0..0 |-> base], base, step, a, 0)
    BY DEF Turns
  <2> QED BY <2>1
<1>2. ASSUME NEW m \in 0..(n-1), Done(m)
      PROVE  Done(m+1)
  <2>1. m \in Nat /\ m+1 \in 1..n
    OBVIOUS
  <2>2. a[m+1] \in A
    BY <2>1
  <2>3. PICK f \in [0..m -> S] : Turns(f, base, step, a, m)
    BY <1>2
  <2>4. \E g \in [0..(m+1) -> S] : Turns(g, base, step, a, m+1)
    BY <2>1, <2>2, <2>3, OneMoreTurn
  <2> QED BY <2>4
<1> HIDE DEF Done
<1>3. 0 \in P /\ \A m \in 0..(n-1) : m \in P => m+1 \in P
  <2>1. ASSUME NEW m \in 0..(n-1), m \in P PROVE m+1 \in P
    <3>1. m+1 \in 0..n /\ Done(m)
      BY <2>1
    <3> QED BY <3>1, <1>2
  <2> QED BY <1>1, <2>1
<1>4. n \in P
  <2> HIDE DEF P
  <2> QED BY <1>3, CountingUp
<1> QED BY <1>4 DEF Done

\* It holds them as long as its values are among those the steps are defined for.
TypedTurns(S, f, base, step, a, n) ==
    /\ f[0] = base
    /\ \A i \in 1..n : f[i-1] \in S => f[i] = step[a[i]][f[i-1]]

\* What takes these turns stays in the set that they stay in.
LEMMA LoopComputes ==
    ASSUME NEW S, NEW A, NEW base \in S, NEW step \in [A -> [S -> S]],
           NEW n \in Nat, NEW a, \A i \in 1..n : a[i] \in A,
           NEW f, TypedTurns(S, f, base, step, a, n)
    PROVE  Turns(f, base, step, a, n) /\ \A i \in 0..n : f[i] \in S
<1> DEFINE P == {i \in 0..n : f[i] \in S}
<1> USE DEF TypedTurns
<1>1. 0 \in P
  OBVIOUS
<1>2. ASSUME NEW i \in 0..(n-1), i \in P
      PROVE  i+1 \in P
  <2>1. i+1 \in 1..n /\ i+1-1 = i /\ f[i] \in S
    BY <1>2
  <2>2. a[i+1] \in A /\ f[i+1] = step[a[i+1]][f[i]]
    BY <2>1
  <2> QED BY <2>1, <2>2
<1>3. \A i \in 0..n : i \in P
  <2> HIDE DEF P
  <2> QED BY <1>1, <1>2, CountingUp
<1>4. \A i \in 0..n : f[i] \in S
  BY <1>3
<1>5. \A i \in 1..n : f[i-1] \in S
  BY <1>4
<1> QED BY <1>4, <1>5 DEF Turns

-----------------------------------------------------------------------------
(***************************************************************************)
(* Reports show one version of the file on the server, for any versions    *)
(* and any number of attempts, failures and restarts.  What local.txt      *)
(* holds is always the beginning of a version once served, because the     *)
(* transfer starts by emptying it, and versions served are only followed   *)
(* by later ones.                                                          *)
(***************************************************************************)

Begins(lines) == \E v \in 1..served : lines \in CutsOf(Versions[v])

VersionInv ==
    /\ served \in DOMAIN Versions
    /\ Begins(local)
    /\ report = <<Blank>> \/ Begins(report)

LEMMA ServedIsVersion ==
    ASSUME served \in DOMAIN Versions
    PROVE  /\ served \in Nat /\ served >= 1
           /\ Versions[served] \in Seq(WholeLine)
BY VersionsAssumption, LenProperties, ElementOfSeq

\* An empty file is the beginning of any.
LEMMA NothingBegins ==
    ASSUME served \in DOMAIN Versions
    PROVE  Begins(<<>>)
<1>1. SubSeq(Versions[served], 1, 0) = <<>>
  BY ServedIsVersion, SubSeqProperties, EmptySeq
<1>2. 0 \in 0..Len(Versions[served])
  BY ServedIsVersion, LenProperties
<1>3. <<>> \in CutsOf(Versions[served])
  BY <1>1, <1>2 DEF CutsOf
<1>4. served \in 1..served
  BY ServedIsVersion
<1> QED BY <1>3, <1>4 DEF Begins

LEMMA VersionInit == ReportInit => VersionInv
BY NothingBegins DEF ReportInit, VersionInv

LEMMA VersionNext == VersionInv /\ [ReportNext]_reportVars => VersionInv'
<1> SUFFICES ASSUME VersionInv, [ReportNext]_reportVars PROVE VersionInv'
  OBVIOUS
<1> USE DEF VersionInv
<1>1. CASE Publish
  <2>1. served \in Nat /\ served' = served + 1 /\ served' \in DOMAIN Versions
    BY <1>1, ServedIsVersion DEF Publish
  <2>2. \A lines : Begins(lines) => Begins(lines)'
    BY <2>1 DEF Begins
  <2> QED BY <1>1, <2>1, <2>2 DEF Publish, Begins
<1>2. CASE ftpGet
  <2>1. served \in 1..served
    BY ServedIsVersion
  <2>2. Begins(local)'
    BY <1>2, <2>1 DEF ftpGet, Transferred, Begins
  <2> QED BY <1>2, <2>2 DEF ftpGet, Begins
<1>3. CASE Restart
  BY <1>3, NothingBegins DEF Restart, Begins
<1>4. CASE load
  BY <1>4 DEF load, Begins
<1>5. CASE UNCHANGED reportVars
  BY <1>5 DEF reportVars, Begins
<1> QED BY <1>1, <1>2, <1>3, <1>4, <1>5 DEF ReportNext

\* No report ever mixes two versions or shows one that was never served.
THEOREM ReportsShowOneVersion == ReportSpec => []OneVersion
<1>1. VersionInv => OneVersion
  BY DEF VersionInv, OneVersion, Begins
<1> QED BY <1>1, VersionInit, VersionNext, PTL DEF ReportSpec

-----------------------------------------------------------------------------
(***************************************************************************)
(* Statements stand, for any movies, prices and days.  A rental keeps the  *)
(* price of its day, and one more of them adds one turn to the loop, whose *)
(* earlier turns stay what they were.                                      *)
(***************************************************************************)

Rental == [movie : Movies, code : PriceCodes, days : DaysRented]

Due == [amount : Int, points : Int]

Charging == [r \in Rental |-> [due \in Due |-> Charged(due, CodeOf(r), r.days)]]

LEMMA AmountType ==
    ASSUME NEW code, NEW days \in Int
    PROVE  ThisAmount(code, days) \in Int
<1> DEFINE beyond == IF days > 2 THEN (days - 2) * 3 ELSE 0
<1>1. beyond \in Int /\ days * 6 \in Int
  OBVIOUS
<1>2. ThisAmount(code, days) = CASE code = "regular"     -> 4 + beyond
                                 [] code = "new release" -> days * 6
                                 [] code = "childrens"   -> 3 + beyond
                                 [] OTHER                -> 0
  BY DEF ThisAmount
<1> HIDE DEF beyond
<1>3. CASE code = "regular"
  BY <1>1, <1>2, <1>3
<1>4. CASE code = "new release"
  BY <1>1, <1>2, <1>4
<1>5. CASE code = "childrens"
  BY <1>1, <1>2, <1>5
<1>6. CASE code # "regular" /\ code # "new release" /\ code # "childrens"
  <2>1. ThisAmount(code, days) = 0
    BY <1>2, <1>6
  <2> QED BY <2>1
<1> QED BY <1>3, <1>4, <1>5, <1>6

LEMMA ChargedType ==
    ASSUME NEW due \in Due, NEW r \in Rental
    PROVE  Charged(due, CodeOf(r), r.days) \in Due
<1>1. r.days \in Int
  BY DaysRentedAssumption DEF Rental
<1>2. ThisAmount(CodeOf(r), r.days) \in Int
  BY <1>1, AmountType
<1>3. Points(CodeOf(r), r.days) \in Int
  BY DEF Points
<1> QED BY <1>2, <1>3 DEF Charged, Due

LEMMA ChargingType ==
    /\ Charging \in [Rental -> [Due -> Due]]
    /\ NothingDue \in Due
    /\ \A r \in Rental, due \in Due : Charging[r][due] = Charged(due, CodeOf(r), r.days)
BY ChargedType DEF Charging, NothingDue, Due

\* The loop of statement() takes these turns.
LEMMA SumsLoop ==
    ASSUME NEW n \in Nat, NEW a, \A i \in 1..n : a[i] \in Rental,
           NEW f,
           f = CHOOSE g : g = [i \in 0..n |->
                  IF i = 0 THEN NothingDue
                  ELSE Charged(g[i-1], CodeOf(a[i]), a[i].days)]
    PROVE  Turns(f, NothingDue, Charging, a, n) /\ \A i \in 0..n : f[i] \in Due
<1> DEFINE turn(g, i) == IF i = 0 THEN NothingDue
                         ELSE Charged(g[i-1], CodeOf(a[i]), a[i].days)
<1>1. PICK h \in [0..n -> Due] : Turns(h, NothingDue, Charging, a, n)
  BY ChargingType, LoopExists
<1>2. \A i \in 0..n : h[i] = turn(h, i)
  <2>1. h[0] = turn(h, 0)
    BY <1>1 DEF Turns
  <2>2. ASSUME NEW i \in 1..n PROVE h[i] = turn(h, i)
    <3>1. h[i-1] \in Due /\ a[i] \in Rental /\ h[i] = Charging[a[i]][h[i-1]]
      BY <1>1 DEF Turns
    <3> QED BY <3>1, ChargingType
  <2>3. \A i \in 0..n : i = 0 \/ i \in 1..n
    OBVIOUS
  <2> HIDE DEF turn
  <2> QED BY <2>1, <2>2, <2>3
<1>3. h = [i \in 0..n |-> turn(h, i)]
  <2>1. h = [i \in 0..n |-> h[i]]
    BY <1>1
  <2> HIDE DEF turn
  <2> QED BY <1>2, <2>1
<1>4. f = CHOOSE g : g = [i \in 0..n |-> turn(g, i)]
  OBVIOUS
<1>5. f = [i \in 0..n |-> turn(f, i)]
  <2> HIDE DEF turn
  <2> QED BY <1>3, <1>4, Zenon
<1>6. f[0] = NothingDue /\ \A i \in 1..n : f[i] = Charged(f[i-1], CodeOf(a[i]), a[i].days)
  <2>1. \A i \in 0..n : f[i] = turn(f, i)
    <3> HIDE DEF turn
    <3> QED BY <1>5, Zenon
  <2>2. 0 \in 0..n /\ \A i \in 1..n : i \in 0..n /\ i # 0
    OBVIOUS
  <2> QED BY <2>1, <2>2, Zenon
<1>7. \A i \in 1..n : f[i-1] \in Due => f[i] = Charging[a[i]][f[i-1]]
  BY <1>6, ChargingType
<1>8. TypedTurns(Due, f, NothingDue, Charging, a, n)
  BY <1>6, <1>7 DEF TypedTurns
<1> QED BY <1>8, ChargingType, LoopComputes

LEMMA SumsTurns ==
    rentals \in Seq(Rental)
    => /\ Turns(Sums, NothingDue, Charging, rentals, Len(rentals))
       /\ \A i \in 0..Len(rentals) : Sums[i] \in Due
<1> HAVE rentals \in Seq(Rental)
<1>1. Len(rentals) \in Nat /\ \A i \in 1..Len(rentals) : rentals[i] \in Rental
  BY LenProperties, ElementOfSeq
<1>2. Sums = CHOOSE g : g = [i \in 0..Len(rentals) |->
                IF i = 0 THEN NothingDue
                ELSE Charged(g[i-1], CodeOf(rentals[i]), rentals[i].days)]
  BY Zenon DEF Sums
<1> QED BY <1>1, <1>2, SumsLoop, Zenon

CustomerInv ==
    /\ price \in [Movies -> PriceCodes]
    /\ rentals \in Seq(Rental)
    /\ tab = Statement

LEMMA CustomerInvInit == CustomerInit => CustomerInv
<1> SUFFICES ASSUME CustomerInit PROVE CustomerInv
  OBVIOUS
<1>1. rentals = <<>> /\ rentals \in Seq(Rental) /\ Len(rentals) = 0
  BY DEF CustomerInit
<1>2. Sums[0] = NothingDue
  BY <1>1, SumsTurns DEF Turns
<1> QED BY <1>1, <1>2 DEF CustomerInit, CustomerInv, Statement

LEMMA CustomerInvNext == CustomerInv /\ [CustomerNext]_customerVars => CustomerInv'
<1> SUFFICES ASSUME CustomerInv, [CustomerNext]_customerVars PROVE CustomerInv'
  OBVIOUS
<1> USE DEF CustomerInv
<1>0. rentals' = rentals => Statement' = Statement
  BY Zenon DEF Statement, Sums, CodeOf
<1>1. ASSUME NEW m \in Movies, NEW code \in PriceCodes, SetPriceCode(m, code)
      PROVE  CustomerInv'
  BY <1>0, <1>1 DEF SetPriceCode
<1>2. ASSUME NEW m \in Movies, NEW days \in DaysRented, AddRental(m, days)
      PROVE  CustomerInv'
  <2> DEFINE n == Len(rentals)
             r == [movie |-> m, code |-> price[m], days |-> days]
  <2>1. r \in Rental /\ price' = price /\ rentals' = Append(rentals, r)
    BY <1>2 DEF AddRental, Rental
  <2>2. CodeOf(r) = price[m] /\ r.days = days
    BY DEF CodeOf
  <2>3. tab' = Charged(tab, price[m], days)
    BY <1>2 DEF AddRental
  <2> HIDE DEF r
  <2>4. n \in Nat /\ rentals' \in Seq(Rental) /\ Len(rentals') = n+1
        /\ rentals'[n+1] = r /\ \A i \in 1..n : rentals'[i] = rentals[i]
    BY <2>1
  <2>5. Turns(Sums, NothingDue, Charging, rentals, n) /\ Sums[n] \in Due
    BY <2>4, SumsTurns
  <2>6. Turns(Sums', NothingDue, Charging, rentals', n+1)
    <3>1. (rentals \in Seq(Rental))'
          => Turns(Sums, NothingDue, Charging, rentals, Len(rentals))'
      BY SumsTurns, PTL
    <3>2. Charging' = Charging
      BY DEF Charging, CodeOf
    <3> QED BY <2>4, <3>1, <3>2 DEF Rental, NothingDue, Turns
  <2>7. Turns(Sums', NothingDue, Charging, rentals, n)
    BY <2>4, <2>6 DEF Turns
  <2>8. Sums'[n] = Sums[n]
    BY <2>4, <2>5, <2>7, LoopsAgree
  <2>9. Sums'[n+1] = Charging[r][Sums[n]]
    BY <2>4, <2>6, <2>8 DEF Turns
  <2>10. Sums'[n+1] = Charged(Sums[n], price[m], days)
    BY <2>1, <2>2, <2>5, <2>9, ChargingType
  <2> QED BY <2>1, <2>3, <2>4, <2>10 DEF Statement
<1>3. CASE UNCHANGED customerVars
  BY <1>0, <1>3 DEF customerVars
<1> QED BY <1>1, <1>2, <1>3 DEF CustomerNext

\* A statement charges, for any movies, prices and numbers of days, what the rentals
\* cost when they were made.
THEOREM StatementsStand == CustomerSpec => []StatementStands
<1>1. CustomerInv => StatementStands
  BY DEF CustomerInv, StatementStands
<1> QED BY <1>1, CustomerInvInit, CustomerInvNext, PTL DEF CustomerSpec


-----------------------------------------------------------------------------
(***************************************************************************)
(* Branches in a file, for any shelves and any number of saves.            *)
(***************************************************************************)

FileLine == [text : STRING, part : BOOLEAN]

FileBranch == [id : Field, name : Field, address : Field]

FilesTypes ==
    /\ FilesTypeOK
    /\ file \in Seq(FileLine)
    /\ rest \in Seq(FileLine)
    /\ queue \in Seq(FileBranch)
    /\ written \in Seq(FileBranch)
    /\ whole \in BOOLEAN

LEMMA LinesOfType ==
    ASSUME NEW b \in FileBranch
    PROVE  LinesOf(b) \in Seq(FileLine)
<1>1. WholeLine \subseteq FileLine
  BY DEF WholeLine, FileLine
<1>2. b.id \in Seq(FileLine) /\ b.name \in Seq(FileLine) /\ b.address \in Seq(FileLine)
  BY <1>1 DEF FileBranch, Field
<1> QED BY <1>2 DEF LinesOf

LEMMA CutsOfType ==
    ASSUME NEW lines \in Seq(FileLine), NEW cut \in CutsOf(lines)
    PROVE  cut \in Seq(FileLine)
<1>1. ASSUME NEW n \in 0..Len(lines)
      PROVE  SubSeq(lines, 1, n) \in Seq(FileLine)
  OBVIOUS
<1>2. ASSUME NEW n \in DOMAIN lines
      PROVE  Append(SubSeq(lines, 1, n-1), [lines[n] EXCEPT !.part = TRUE]) \in Seq(FileLine)
  <2>1. n-1 \in 0..Len(lines) /\ lines[n] \in FileLine
    OBVIOUS
  <2>2. [lines[n] EXCEPT !.part = TRUE] \in FileLine
    BY <2>1 DEF FileLine
  <2> QED BY <1>1, <2>1, <2>2
<1> QED BY <1>1, <1>2 DEF CutsOf

LEMMA FilesTypesInit == FilesInit => FilesTypes
BY SavesAssumption DEF FilesInit, FilesTypes, FilesTypeOK

LEMMA FilesTypesNext == FilesTypes /\ [FilesNext]_filesVars => FilesTypes'
<1> SUFFICES ASSUME FilesTypes, [FilesNext]_filesVars PROVE FilesTypes'
  OBVIOUS
<1> USE DEF FilesTypes, FilesTypeOK
<1>0. ASSUME NEW f \in Seq(FileLine), NEW i \in DOMAIN f
      PROVE  f[i] \in [text : STRING, part : BOOLEAN]
  <2>1. i \in 1..Len(f)
    OBVIOUS
  <2>2. f[i] \in FileLine
    BY <2>1, ElementOfSeq
  <2> QED BY <2>2 DEF FileLine
<1>1. ASSUME NEW branches \in Shelves, OpenOutput(branches)
      PROVE  FilesTypes'
  <2>1. branches \in Seq(FileBranch)
    BY ShelvesAssumption DEF FileBranch
  <2>2. rest = <<>> /\ saves - 1 \in 0..Saves
    BY <1>1, SavesAssumption DEF OpenOutput, Free
  <2>3. file' = <<>> /\ phase' = "writing" /\ queue' = branches /\ written' = branches
        /\ whole' = FALSE /\ saves' = saves - 1 /\ stream' = stream /\ rest' = rest
    BY <1>1 DEF OpenOutput, Opened
  <2>4. file' \in Seq(FileLine) /\ Len(file') = 0 /\ Len(rest') = 0 /\ rest' \in Seq(FileLine)
    BY <2>2, <2>3
  <2>5. FilesTypeOK'
    <3>1. \A i \in DOMAIN file' : file'[i] \in [text : STRING, part : BOOLEAN]
      BY <1>0, <2>4
    <3> QED BY <2>2, <2>3, <2>4, <3>1
  <2> QED BY <2>1, <2>3, <2>4, <2>5
<1>2. CASE OutputFails
  BY <1>2, SavesAssumption DEF OutputFails
<1>3. CASE WriteOn
  <2>1. Head(queue) \in FileBranch /\ Tail(queue) \in Seq(FileBranch)
    BY <1>3 DEF WriteOn
  <2>2. file' \in Seq(FileLine)
    BY <1>3, <2>1, LinesOfType DEF WriteOn
  <2>3. rest = <<>>
    BY <1>3 DEF WriteOn
  <2> QED BY <1>0, <1>3, <2>1, <2>2, <2>3 DEF WriteOn
<1>4. CASE CloseOutput
  BY <1>4 DEF CloseOutput
<1>5. CASE StopWriting
  <2>1. Head(queue) \in FileBranch
    BY <1>5 DEF StopWriting
  <2>2. PICK lines \in CutsOf(LinesOf(Head(queue))) : file' = file \o lines
    BY <1>5 DEF StopWriting
  <2>3. file' \in Seq(FileLine)
    BY <2>1, <2>2, LinesOfType, CutsOfType
  <2>4. rest = <<>>
    BY <1>5 DEF StopWriting
  <2> QED BY <1>0, <1>5, <2>3, <2>4 DEF StopWriting
<1>6. CASE OpenInput
  BY <1>6 DEF OpenInput, Free
<1>7. CASE LoadBranch
  <2>1. rest' \in Seq(FileLine) /\ Len(rest') <= Len(rest)
        /\ (Len(rest) < 3 => rest' = <<>>)
    BY <1>7 DEF LoadBranch
  <2> QED BY <1>7, <2>1 DEF LoadBranch, More
<1>8. CASE CloseInput
  BY <1>8 DEF CloseInput, More
<1>9. CASE UNCHANGED filesVars
  BY <1>9 DEF filesVars
<1> QED BY <1>1, <1>2, <1>3, <1>4, <1>5, <1>6, <1>7, <1>8, <1>9 DEF FilesNext

LEMMA FilesTyped == FilesSpec => []FilesTypes
BY FilesTypesInit, FilesTypesNext, PTL DEF FilesSpec

\* The file, and what load has yet to read, are lines; they and the branches to be
\* written are there only while their streams are open.
THEOREM FilesWellTyped == FilesSpec => []FilesTypeOK
<1>1. FilesTypes => FilesTypeOK
  BY DEF FilesTypes
<1> QED BY <1>1, FilesTyped, PTL


\* The branch load makes of the three lines from here on.
BranchAt(f, i) ==
    [id |-> <<Read(f, i)>>, name |-> <<Read(f, i+1)>>, address |-> <<Read(f, i+2)>>]

From(f, i) == SubSeq(f, i, Len(f))

LEMMA FromProperties ==
    ASSUME NEW S, NEW f \in Seq(S), NEW i \in Nat \ {0}
    PROVE  /\ From(f, i) \in Seq(S)
           /\ Len(From(f, i)) = IF i <= Len(f) THEN Len(f) - i + 1 ELSE 0
           /\ \A j \in 1..Len(From(f, i)) : From(f, i)[j] = f[i+j-1]
BY DEF From

LEMMA BranchFrom ==
    ASSUME NEW f \in Seq(FileLine), NEW i \in Nat \ {0}
    PROVE  Branch(From(f, i)) = BranchAt(f, i)
<1>1. ASSUME NEW j \in 1..3
      PROVE  Read(From(f, i), j) = Read(f, i+j-1)
  <2> DEFINE s == From(f, i)
  <2>1. /\ s \in Seq(FileLine)
        /\ Len(s) = IF i <= Len(f) THEN Len(f) - i + 1 ELSE 0
        /\ \A m \in 1..Len(s) : s[m] = f[i+m-1]
    BY FromProperties
  <2> HIDE DEF s
  <2>2. j <= Len(s) <=> i+j-1 <= Len(f)
    BY <2>1
  <2>3. Read(s, j) = Read(f, i+j-1)
    BY <2>1, <2>2 DEF Read
  <2> QED BY <2>3 DEF s
<1>2. i+1-1 = i /\ i+2-1 = i+1 /\ i+3-1 = i+2
  OBVIOUS
<1> QED BY <1>1, <1>2 DEF Branch, BranchAt

\* Lines written later change no branch that is there ...
LEMMA BranchBefore ==
    ASSUME NEW f \in Seq(FileLine), NEW g \in Seq(FileLine),
           NEW i \in Nat \ {0}, i+2 <= Len(f)
    PROVE  BranchAt(f \o g, i) = BranchAt(f, i)
<1>1. ASSUME NEW j \in i..(i+2)
      PROVE  Read(f \o g, j) = Read(f, j)
  <2>1. j \in 1..Len(f) /\ j <= Len(f) /\ j <= Len(f \o g)
    BY ConcatProperties
  <2>2. (f \o g)[j] = f[j]
    BY <2>1, ConcatProperties
  <2> QED BY <2>1, <2>2 DEF Read
<1> QED BY <1>1 DEF BranchAt

\* ... and are what is there after the lines that were.
LEMMA FromEnd ==
    ASSUME NEW f \in Seq(FileLine), NEW g \in Seq(FileLine)
    PROVE  From(f \o g, Len(f) + 1) = g
<1> DEFINE h == f \o g
           s == From(h, Len(f) + 1)
<1>1. /\ h \in Seq(FileLine) /\ Len(h) = Len(f) + Len(g)
      /\ \A i \in 1..Len(h) : h[i] = IF i <= Len(f) THEN f[i] ELSE g[i - Len(f)]
  BY ConcatProperties
<1> HIDE DEF h
<1>2. /\ s \in Seq(FileLine) /\ Len(s) = Len(g)
      /\ \A i \in 1..Len(s) : s[i] = h[Len(f)+1+i-1]
  BY <1>1, FromProperties
<1> HIDE DEF s
<1>3. ASSUME NEW i \in 1..Len(g) PROVE s[i] = g[i]
  <2>1. Len(f) \in Nat /\ Len(g) \in Nat
    OBVIOUS
  <2>2. /\ Len(f)+1+i-1 = Len(f)+i /\ Len(f)+i \in 1..Len(h)
        /\ ~ (Len(f)+i <= Len(f)) /\ Len(f)+i - Len(f) = i
    BY <1>1, <2>1
  <2>3. s[i] = h[Len(f)+i]
    BY <1>2, <2>2
  <2> QED BY <1>1, <2>2, <2>3
<1>4. s = g
  BY <1>2, <1>3, SeqEqual
<1> QED BY <1>4 DEF s, h

LEMMA PlainLines ==
    ASSUME NEW b \in FileBranch, Plain(b)
    PROVE  /\ LinesOf(b) \in Seq(FileLine)
           /\ Len(LinesOf(b)) = 3
           /\ <<LinesOf(b)[1]>> = b.id
           /\ Branch(LinesOf(b)) = b
<1>1. LinesOf(b) \in Seq(FileLine)
  BY LinesOfType
<1>2. b.id \in Seq(WholeLine) /\ b.name \in Seq(WholeLine) /\ b.address \in Seq(WholeLine)
  BY DEF FileBranch, Field
<1>3. Len(b.id) = 1 /\ Len(b.name) = 1 /\ Len(b.address) = 1
  BY DEF Plain
<1>4. ASSUME NEW s \in Seq(WholeLine), Len(s) = 1
      PROVE  s = <<s[1]>>
  BY <1>4
<1> DEFINE x == b.id \o b.name
<1>5. x \in Seq(WholeLine) /\ Len(x) = 2 /\ x[1] = b.id[1] /\ x[2] = b.name[1]
  <2>1. /\ x \in Seq(WholeLine) /\ Len(x) = Len(b.id) + Len(b.name)
        /\ \A i \in 1..Len(b.id) + Len(b.name) :
              x[i] = IF i <= Len(b.id) THEN b.id[i] ELSE b.name[i - Len(b.id)]
    BY <1>2, ConcatProperties
  <2> HIDE DEF x
  <2> QED BY <1>3, <2>1
<1> HIDE DEF x
<1>6. Len(x \o b.address) = 3 /\ (x \o b.address)[1] = x[1] /\ (x \o b.address)[2] = x[2]
      /\ (x \o b.address)[3] = b.address[1]
  BY <1>2, <1>3, <1>5, ConcatProperties
<1>7. LinesOf(b) = x \o b.address
  BY DEF LinesOf, x
<1>8. Branch(LinesOf(b)) = [id |-> <<b.id[1]>>, name |-> <<b.name[1]>>,
                            address |-> <<b.address[1]>>]
  BY <1>5, <1>6, <1>7 DEF Branch, Read
<1>9. b.id = <<b.id[1]>> /\ b.name = <<b.name[1]>> /\ b.address = <<b.address[1]>>
  BY <1>2, <1>3, <1>4
<1>10. b = [id |-> b.id, name |-> b.name, address |-> b.address]
  BY DEF FileBranch
<1> QED BY <1>1, <1>5, <1>6, <1>7, <1>8, <1>9, <1>10

\* A writer that was stopped leaves at most the three lines, and an id only of a
\* branch that has one.
LEMMA CutReads ==
    ASSUME NEW b \in FileBranch, Plain(b), NEW cut \in CutsOf(LinesOf(b))
    PROVE  /\ cut \in Seq(FileLine)
           /\ Len(cut) <= 3
           /\ Kept(Branch(cut)) => Kept(b)
<1> DEFINE L == LinesOf(b)
<1>1. L \in Seq(FileLine) /\ Len(L) = 3 /\ <<L[1]>> = b.id
  BY PlainLines
<1>2. cut \in Seq(FileLine)
  BY LinesOfType, CutsOfType
<1> HIDE DEF L
<1>3. ASSUME NEW n \in 0..3, cut = SubSeq(L, 1, n)
      PROVE  Len(cut) <= 3 /\ (Kept(Branch(cut)) => Kept(b))
  <2>1. Len(cut) = n /\ (n > 0 => cut[1] = L[1])
    BY <1>1, <1>3
  <2>2. Read(cut, 1) = Blank \/ <<Read(cut, 1)>> = b.id
    BY <1>1, <2>1 DEF Read
  <2>3. Branch(cut).id = <<Read(cut, 1)>>
    BY DEF Branch
  <2> QED BY <2>1, <2>2, <2>3 DEF Kept
<1>4. ASSUME NEW n \in 1..3, L[n] # Blank,
             cut = Append(SubSeq(L, 1, n-1), [L[n] EXCEPT !.part = TRUE])
      PROVE  Len(cut) <= 3 /\ (Kept(Branch(cut)) => Kept(b))
  <2> DEFINE last == [L[n] EXCEPT !.part = TRUE]
             start == SubSeq(L, 1, n-1)
  <2>1. start \in Seq(FileLine) /\ Len(start) = n-1 /\ (n-1 > 0 => start[1] = L[1])
    BY <1>1
  <2>2. cut = Append(start, last)
    BY <1>4
  <2> HIDE DEF start, last
  <2>3. Len(cut) = n /\ (n-1 > 0 => cut[1] = L[1])
    BY <2>1, <2>2
  <2>4. CASE n = 1
    <3>1. b.id # <<Blank>>
      BY <1>1, <1>4, <2>4
    <3> QED BY <2>3, <3>1 DEF Kept
  <2>5. CASE n > 1
    <3>1. <<Read(cut, 1)>> = b.id
      BY <1>1, <2>3, <2>5 DEF Read
    <3>2. Branch(cut).id = <<Read(cut, 1)>>
      BY DEF Branch
    <3> QED BY <2>3, <3>1, <3>2 DEF Kept
  <2> QED BY <2>4, <2>5
<1>5. \/ \E n \in 0..3 : cut = SubSeq(L, 1, n)
      \/ \E n \in 1..3 : L[n] # Blank /\ cut = Append(SubSeq(L, 1, n-1), [L[n] EXCEPT !.part = TRUE])
  <2>1. cut \in CutsOf(L) /\ DOMAIN L = 1..3
    BY <1>1 DEF L
  <2> QED BY <1>1, <2>1 DEF CutsOf
<1> QED BY <1>2, <1>3, <1>4, <1>5

LEMMA AllRemains ==
    ASSUME NEW b \in FileBranch, Plain(b)
    PROVE  b \in Remains(b)
<1> DEFINE L == LinesOf(b)
<1>1. L \in Seq(FileLine) /\ Len(L) = 3 /\ Branch(L) = b
  BY PlainLines
<1> HIDE DEF L
<1>2. SubSeq(L, 1, 3) = L
  BY <1>1, SubSeqFull
<1>3. L \in CutsOf(L)
  BY <1>1, <1>2 DEF CutsOf
<1>4. LinesOf(b) \in CutsOf(LinesOf(b)) /\ Branch(LinesOf(b)) = b
  BY <1>1, <1>3 DEF L
<1> QED BY <1>4 DEF Remains

Keeping(S) == [b \in S |-> [s \in Seq(S) |-> PushBack(s, b)]]

LEMMA KeepingType ==
    ASSUME NEW S
    PROVE  /\ Keeping(S) \in [S -> [Seq(S) -> Seq(S)]]
           /\ \A b \in S, s \in Seq(S) : Keeping(S)[b][s] = PushBack(s, b)
<1>1. \A b \in S, s \in Seq(S) : PushBack(s, b) \in Seq(S)
  BY AppendProperties DEF PushBack
<1> QED BY <1>1, Zenon DEF Keeping

\* How a recursive function is read: some function of which its equation is true.
KeptLoop(f, base, a, n) ==
    f = CHOOSE g : g = [i \in 0..n |-> IF i = 0 THEN base ELSE PushBack(g[i-1], a[i])]

\* The steps of such a loop, on what is in T.
KeptSteps(keep, S, T) ==
    /\ keep \in [S -> [T -> T]]
    /\ \A b \in S, s \in T : keep[b][s] = PushBack(s, b)

\* The loop of load, if it reads these branches, takes these turns.
LEMMA KeptLoopTurns ==
    ASSUME NEW S, NEW T, NEW keep, NEW base, NEW n, NEW a, NEW f,
           KeptSteps(keep, S, T), KeptLoop(f, base, a, n),
           base \in T, n \in Nat, \A i \in 1..n : a[i] \in S
    PROVE  Turns(f, base, keep, a, n) /\ \A i \in 0..n : f[i] \in T
<1> DEFINE turn(g, i) == IF i = 0 THEN base ELSE PushBack(g[i-1], a[i])
<1> USE DEF KeptSteps
<1>1. PICK h \in [0..n -> T] : Turns(h, base, keep, a, n)
  BY LoopExists
<1>2. \A i \in 0..n : h[i] = turn(h, i)
  <2>1. h[0] = turn(h, 0)
    BY <1>1 DEF Turns
  <2>2. ASSUME NEW i \in 1..n PROVE h[i] = turn(h, i)
    <3>1. h[i-1] \in T /\ a[i] \in S /\ h[i] = keep[a[i]][h[i-1]]
      BY <1>1 DEF Turns
    <3> QED BY <3>1
  <2>3. \A i \in 0..n : i = 0 \/ i \in 1..n
    OBVIOUS
  <2> HIDE DEF turn
  <2> QED BY <2>1, <2>2, <2>3
<1>3. h = [i \in 0..n |-> turn(h, i)]
  <2>1. h = [i \in 0..n |-> h[i]]
    BY <1>1
  <2> HIDE DEF turn
  <2> QED BY <1>2, <2>1
<1>4. f = CHOOSE g : g = [i \in 0..n |-> turn(g, i)]
  BY DEF KeptLoop
<1>5. f = [i \in 0..n |-> turn(f, i)]
  <2> HIDE DEF turn
  <2> QED BY <1>3, <1>4, Zenon
<1>6. f[0] = base /\ \A i \in 1..n : f[i] = PushBack(f[i-1], a[i])
  <2>1. \A i \in 0..n : f[i] = turn(f, i)
    <3> HIDE DEF turn
    <3> QED BY <1>5, Zenon
  <2>2. 0 \in 0..n /\ \A i \in 1..n : i \in 0..n /\ i # 0
    OBVIOUS
  <2> QED BY <2>1, <2>2, Zenon
<1>7. TypedTurns(T, f, base, keep, a, n)
  BY <1>6 DEF TypedTurns
<1> QED BY <1>7, LoopComputes

LEMMA KeptTurns ==
    ASSUME NEW S, NEW branches \in Seq(S)
    PROVE  /\ KeptAmong(branches)[0] = <<>>
           /\ \A i \in 0..Len(branches) : KeptAmong(branches)[i] \in Seq(S)
           /\ \A i \in 1..Len(branches) :
                 KeptAmong(branches)[i] = PushBack(KeptAmong(branches)[i-1], branches[i])
<1> DEFINE n == Len(branches)
           K == KeptAmong(branches)
<1>1. n \in Nat /\ \A i \in 1..n : branches[i] \in S
  BY LenProperties, ElementOfSeq
<1>2. K = CHOOSE g : g = [i \in 0..n |-> IF i = 0 THEN <<>> ELSE PushBack(g[i-1], branches[i])]
  BY Zenon DEF KeptAmong
<1> DEFINE none == <<>>
           T == Seq(S)
           keep == Keeping(S)
<1>3. none \in T
  BY EmptySeq
<1> HIDE DEF n, K
<1>4. Turns(K, none, keep, branches, n) /\ \A i \in 0..n : K[i] \in T
  <2>1. KeptLoop(K, none, branches, n)
    BY <1>2 DEF KeptLoop
  <2>2. KeptSteps(keep, S, T)
    BY KeepingType DEF KeptSteps
  <2>3. n \in Nat
    BY <1>1
  <2>4. \A i \in 1..n : branches[i] \in S
    BY <1>1
  <2> HIDE DEF none, T, keep
  <2> QED BY <1>3, <2>1, <2>2, <2>3, <2>4, KeptLoopTurns
<1>5. K[0] = <<>>
  BY <1>4, Zenon DEF Turns
<1>6. ASSUME NEW i \in 1..n PROVE K[i] = PushBack(K[i-1], branches[i])
  <2>1. i-1 \in 0..n
    BY <1>1
  <2> QED BY <1>1, <1>4, <2>1, KeepingType, Zenon DEF Turns
<1> QED BY <1>4, <1>5, <1>6 DEF n, K

\* The branches kept so far are those at the beginning of the branches kept later.
LEMMA KeptGrows ==
    ASSUME NEW S, NEW branches \in Seq(S), NEW j \in 0..Len(branches)
    PROVE  \A m \in j..Len(branches) :
              /\ Len(KeptAmong(branches)[j]) <= Len(KeptAmong(branches)[m])
              /\ \A i \in 1..Len(KeptAmong(branches)[j]) :
                    KeptAmong(branches)[j][i] = KeptAmong(branches)[m][i]
<1> DEFINE n == Len(branches)
           K == KeptAmong(branches)
           P == {m \in 0..n : j <= m => /\ Len(K[j]) <= Len(K[m])
                                        /\ \A i \in 1..Len(K[j]) : K[j][i] = K[m][i]}
<1>1. /\ n \in Nat /\ \A i \in 1..n : branches[i] \in S
      /\ \A i \in 0..n : K[i] \in Seq(S)
      /\ \A i \in 1..n : K[i] = PushBack(K[i-1], branches[i])
  BY KeptTurns, LenProperties, ElementOfSeq
<1> HIDE DEF K
<1>2. 0 \in P
  BY <1>1
<1>3. ASSUME NEW m \in 0..(n-1), m \in P
      PROVE  m+1 \in P
  <2>1. /\ m \in 0..n /\ m+1 \in 1..n /\ m+1 \in 0..n
        /\ K[m+1] = PushBack(K[m], branches[m+1])
        /\ K[m] \in Seq(S) /\ branches[m+1] \in S
    BY <1>1
  <2>2. /\ Len(K[m]) <= Len(K[m+1])
        /\ \A i \in 1..Len(K[m]) : K[m][i] = K[m+1][i]
    BY <2>1, AppendProperties DEF PushBack
  <2>3. CASE j <= m
    <3>1. /\ Len(K[j]) <= Len(K[m])
          /\ \A i \in 1..Len(K[j]) : K[j][i] = K[m][i]
      BY <1>3, <2>3
    <3>2. Len(K[j]) \in Nat /\ Len(K[m]) \in Nat /\ Len(K[m+1]) \in Nat
      BY <1>1, <2>1
    <3> QED BY <2>1, <2>2, <3>1, <3>2
  <2>4. CASE j = m+1
    BY <1>1, <2>1, <2>4
  <2>5. CASE j > m+1
    BY <2>1, <2>5
  <2> QED BY <1>1, <2>3, <2>4, <2>5
<1>4. \A m \in 0..n : m \in P
  <2> HIDE DEF P
  <2> QED BY <1>1, <1>2, <1>3, CountingUp
<1> QED BY <1>1, <1>4 DEF K

-----------------------------------------------------------------------------
(***************************************************************************)
(* What a load returns.  As long as the branches last written are plain,   *)
(* the file holds so many of them whole, and what is there of the next one *)
(* if its writer was stopped; a load that has read so many returns what it *)
(* would have kept of these.                                               *)
(***************************************************************************)

AllPlain == \A i \in 1..Len(written) : Plain(written[i])

Kepts == KeptAmong(written)

Holds(k) ==
    /\ 3*k <= Len(file)
    /\ \A r \in 0..(k-1) : BranchAt(file, 3*r + 1) = written[r+1]

Writing(k) ==
    /\ ~whole
    /\ Len(file) = 3*k
    /\ queue = SubSeq(written, k+1, Len(written))

Saved(k) ==
    IF k = Len(written) THEN Len(file) = 3*k
    ELSE ~whole /\ From(file, 3*k + 1) \in CutsOf(LinesOf(written[k+1]))

\* Something of the branch after the first k has an id, and was kept.
KeptAfter(k) ==
    /\ k < Len(written)
    /\ Kept(written[k+1])
    /\ \E b \in Remains(written[k+1]) : objects = Append(Kepts[k], b)

Loading(k) ==
    \/ stream = "unopened" /\ objects = <<>>
    \/ stream = "good" /\ \E r \in 0..k : rest = From(file, 3*r + 1) /\ objects = Kepts[r]
    \/ stream # "unopened" /\ rest = <<>> /\ (objects = Kepts[k] \/ KeptAfter(k))

FileIs(k) ==
    /\ Holds(k)
    /\ phase = "writing" => Writing(k)
    /\ phase # "writing" => Saved(k)
    /\ phase \in {"reading", "loaded"} => Loading(k)

FilesInv ==
    /\ FilesTypes
    /\ phase = "loaded" => stream # "good"
    /\ AllPlain => \E k \in 0..Len(written) : FileIs(k)

LEMMA FilesInvInit == FilesInit => FilesInv
<1> SUFFICES ASSUME FilesInit PROVE FilesInv
  OBVIOUS
<1>1. FilesTypes
  BY FilesTypesInit
<1>2. Len(written) = 0 /\ Len(file) = 0 /\ phase = "idle"
  BY DEF FilesInit
<1>3. FileIs(0)
  BY <1>2 DEF FileIs, Holds, Saved
<1> QED BY <1>1, <1>2, <1>3 DEF FilesInv

\* A file opened for output holds no branch.
LEMMA OpenOutputFile ==
    ASSUME NEW branches \in Seq(FileBranch), OpenOutput(branches)
    PROVE  FileIs(0)'
<1>1. /\ file' = <<>> /\ phase' = "writing" /\ queue' = branches /\ written' = branches
      /\ ~whole'
  BY DEF OpenOutput, Opened
<1>2. Len(file') = 0 /\ SubSeq(branches, 1, Len(branches)) = branches
  BY <1>1, SubSeqFull
<1>3. Holds(0)'
  BY <1>2 DEF Holds
<1>4. Writing(0)'
  BY <1>1, <1>2 DEF Writing
<1> QED BY <1>1, <1>3, <1>4 DEF FileIs

\* Lines after those of the branches it holds leave them there.
LEMMA HoldsOn ==
    ASSUME file \in Seq(FileLine), NEW lines \in Seq(FileLine), NEW k \in Nat, Holds(k),
           file' = file \o lines, written' = written
    PROVE  Holds(k)'
<1>1. Len(file') = Len(file) + Len(lines) /\ Len(file) \in Nat /\ Len(lines) \in Nat
  BY ConcatProperties, LenProperties
<1>2. 3*k <= Len(file')
  BY <1>1 DEF Holds
<1>3. ASSUME NEW r \in 0..(k-1)
      PROVE  BranchAt(file', 3*r + 1) = written'[r+1]
  <2>1. 3*r + 1 \in Nat \ {0} /\ 3*r + 1 + 2 <= Len(file)
    BY <1>1 DEF Holds
  <2>2. BranchAt(file', 3*r + 1) = BranchAt(file, 3*r + 1)
    BY <2>1, BranchBefore
  <2> QED BY <2>2 DEF Holds
<1> QED BY <1>2, <1>3 DEF Holds

LEMMA WriteOnFile ==
    ASSUME FilesTypes, AllPlain, NEW k \in 0..Len(written), FileIs(k), WriteOn
    PROVE  k+1 \in 0..Len(written) /\ FileIs(k+1)'
<1> DEFINE n == Len(written)
           b == written[k+1]
           L == LinesOf(b)
<1>1. n \in Nat /\ written \in Seq(FileBranch) /\ file \in Seq(FileLine)
  BY DEF FilesTypes
<1>2. /\ phase = "writing" /\ queue # <<>> /\ file' = file \o LinesOf(Head(queue))
      /\ queue' = Tail(queue) /\ written' = written /\ whole' = whole /\ phase' = phase
  BY DEF WriteOn
<1>3. Holds(k) /\ ~whole /\ Len(file) = 3*k /\ queue = SubSeq(written, k+1, n)
  BY <1>2 DEF FileIs, Writing
<1>4. k < n
  BY <1>1, <1>2, <1>3, SubSeqEmpty
<1>5. k+1 \in 1..n
  BY <1>1, <1>4
<1>6. Head(queue) = b /\ queue' = SubSeq(written, k+2, n)
  <2>1. n \in (k+1)..n /\ k+1+1 = k+2
    BY <1>1, <1>5
  <2> QED BY <1>1, <1>2, <1>3, <1>5, <2>1, HeadTailOfSubSeq
<1>7. b \in FileBranch /\ Plain(b)
  BY <1>1, <1>5, ElementOfSeq DEF AllPlain
<1>8. L \in Seq(FileLine) /\ Len(L) = 3 /\ Branch(L) = b
  BY <1>7, PlainLines
<1>9. file' = file \o L
  BY <1>2, <1>6
<1> HIDE DEF L, b
<1>10. Len(file') = 3*(k+1) /\ file' \in Seq(FileLine)
  <2>1. Len(file \o L) = Len(file) + Len(L) /\ file \o L \in Seq(FileLine)
    BY <1>1, <1>8, ConcatProperties
  <2> QED BY <1>3, <1>8, <1>9, <2>1
<1>11. Holds(k)'
  <2>1. k \in Nat
    BY <1>1
  <2>2. file \in Seq(FileLine)
    BY <1>1
  <2>3. written' = written
    BY <1>2
  <2>4. Holds(k)
    BY <1>3
  <2>5. L \in Seq(FileLine)
    BY <1>8
  <2> QED BY <1>9, <2>1, <2>2, <2>3, <2>4, <2>5, HoldsOn
<1>12. BranchAt(file', 3*k + 1) = b
  <2>1. From(file', Len(file) + 1) = L
    BY <1>1, <1>8, <1>9, FromEnd
  <2>2. 3*k + 1 \in Nat \ {0}
    OBVIOUS
  <2> QED BY <1>3, <1>8, <1>10, <2>1, <2>2, BranchFrom
<1>13. Holds(k+1)'
  <2>1. ASSUME NEW r \in 0..(k+1-1)
        PROVE  BranchAt(file', 3*r + 1) = written'[r+1]
    <3>1. CASE r = k
      BY <1>2, <1>12, <3>1 DEF b
    <3>2. CASE r # k
      BY <1>11, <3>2 DEF Holds
    <3> QED BY <3>1, <3>2
  <2> QED BY <1>10, <2>1 DEF Holds
<1>14. Writing(k+1)'
  <2>1. k+1+1 = k+2
    OBVIOUS
  <2> QED BY <1>2, <1>3, <1>6, <1>10, <2>1 DEF Writing
<1> QED BY <1>1, <1>2, <1>5, <1>13, <1>14 DEF FileIs

LEMMA CloseOutputFile ==
    ASSUME FilesTypes, NEW k \in 0..Len(written), FileIs(k), CloseOutput
    PROVE  FileIs(k)'
<1>1. /\ phase = "writing" /\ queue = <<>> /\ phase' = "idle"
      /\ file' = file /\ written' = written
  BY DEF CloseOutput
<1>2. Len(file) = 3*k /\ queue = SubSeq(written, k+1, Len(written)) /\ Holds(k)
  BY <1>1 DEF FileIs, Writing
<1>3. k = Len(written)
  <2>1. written \in Seq(FileBranch) /\ Len(written) \in Nat
    BY DEF FilesTypes
  <2>2. ASSUME k < Len(written) PROVE FALSE
    <3>1. k+1 \in 1..Len(written) /\ Len(written) \in (k+1)..Len(written)
      BY <2>1, <2>2
    <3>2. queue = <<written[k+1]>> \o SubSeq(written, k+1+1, Len(written))
      BY <1>2, <2>1, <3>1, SubSeqRecursiveFirst
    <3>3. written[k+1] \in FileBranch /\ SubSeq(written, k+1+1, Len(written)) \in Seq(FileBranch)
      BY <2>1, <3>1
    <3>4. <<written[k+1]>> \in Seq(FileBranch) /\ Len(<<written[k+1]>>) = 1
      BY <3>3
    <3>5. Len(queue) >= 1
      BY <3>2, <3>3, <3>4, ConcatProperties, LenProperties
    <3> QED BY <1>1, <3>5
  <2> QED BY <2>1, <2>2
<1>4. Holds(k)' /\ Saved(k)'
  BY <1>1, <1>2, <1>3 DEF Holds, Saved
<1> QED BY <1>1, <1>4 DEF FileIs

LEMMA StopWritingFile ==
    ASSUME FilesTypes, AllPlain, NEW k \in 0..Len(written), FileIs(k), StopWriting
    PROVE  FileIs(k)'
<1> DEFINE n == Len(written)
           b == written[k+1]
<1>1. n \in Nat /\ written \in Seq(FileBranch) /\ file \in Seq(FileLine)
  BY DEF FilesTypes
<1>2. /\ phase = "writing" /\ queue # <<>> /\ phase' = "idle"
      /\ written' = written /\ whole' = whole
  BY DEF StopWriting
<1>3. PICK lines \in CutsOf(LinesOf(Head(queue))) : file' = file \o lines
  BY DEF StopWriting
<1>4. Holds(k) /\ ~whole /\ Len(file) = 3*k /\ queue = SubSeq(written, k+1, n)
  BY <1>2 DEF FileIs, Writing
<1>5. k < n /\ k+1 \in 1..n
  BY <1>1, <1>2, <1>4, SubSeqEmpty
<1>6. Head(queue) = b
  <2>1. n \in (k+1)..n
    BY <1>1, <1>5
  <2> QED BY <1>1, <1>4, <1>5, <2>1, HeadTailOfSubSeq
<1>7. b \in FileBranch /\ Plain(b)
  BY <1>1, <1>5, ElementOfSeq DEF AllPlain
<1>8. lines \in CutsOf(LinesOf(b)) /\ lines \in Seq(FileLine)
  BY <1>3, <1>6, <1>7, CutReads
<1>9. From(file', 3*k + 1) = lines
  BY <1>1, <1>3, <1>4, <1>8, FromEnd
<1>10. Holds(k)'
  <2>1. k \in Nat
    BY <1>1
  <2>2. file \in Seq(FileLine)
    BY <1>1
  <2>3. written' = written
    BY <1>2
  <2>4. Holds(k)
    BY <1>4
  <2>5. lines \in Seq(FileLine)
    BY <1>8
  <2> QED BY <1>3, <2>1, <2>2, <2>3, <2>4, <2>5, HoldsOn
<1>11. Saved(k)'
  BY <1>2, <1>4, <1>5, <1>8, <1>9 DEF Saved
<1> QED BY <1>2, <1>10, <1>11 DEF FileIs

LEMMA OpenInputFile ==
    ASSUME FilesTypes, NEW k \in 0..Len(written), FileIs(k), OpenInput
    PROVE  FileIs(k)'
<1>1. /\ phase # "writing" /\ phase' = "reading" /\ stream' \in {"good", "unopened"}
      /\ (stream' = "good" => rest' = file) /\ objects' = <<>>
      /\ file' = file /\ written' = written /\ whole' = whole
  BY DEF OpenInput, Free
<1>2. Holds(k)' /\ Saved(k)'
  BY <1>1 DEF FileIs, Holds, Saved
<1>3. Kepts' = Kepts /\ Kepts[0] = <<>>
  BY <1>1, KeptTurns DEF Kepts, FilesTypes
<1>4. From(file, 3*0 + 1) = file
  BY SubSeqFull DEF From, FilesTypes
<1>5. Loading(k)'
  BY <1>1, <1>3, <1>4 DEF Loading
<1> QED BY <1>1, <1>2, <1>5 DEF FileIs


LEMMA FromFrom ==
    ASSUME NEW f \in Seq(FileLine), NEW i \in Nat \ {0}
    PROVE  From(From(f, i), 4) = From(f, i+3)
<1> DEFINE s == From(f, i)
           t == From(s, 4)
           u == From(f, i+3)
<1>1. /\ s \in Seq(FileLine)
      /\ Len(s) = IF i <= Len(f) THEN Len(f) - i + 1 ELSE 0
      /\ \A j \in 1..Len(s) : s[j] = f[i+j-1]
  BY FromProperties
<1>2. /\ u \in Seq(FileLine)
      /\ Len(u) = IF i+3 <= Len(f) THEN Len(f) - (i+3) + 1 ELSE 0
      /\ \A j \in 1..Len(u) : u[j] = f[i+3+j-1]
  BY FromProperties
<1> HIDE DEF s, u
<1>3. /\ t \in Seq(FileLine)
      /\ Len(t) = IF 4 <= Len(s) THEN Len(s) - 4 + 1 ELSE 0
      /\ \A j \in 1..Len(t) : t[j] = s[4+j-1]
  BY <1>1, FromProperties
<1> HIDE DEF t
<1>4. Len(f) \in Nat
  OBVIOUS
<1>5. Len(t) = Len(u)
  BY <1>1, <1>2, <1>3, <1>4
<1>6. ASSUME NEW j \in 1..Len(t) PROVE t[j] = u[j]
  <2>1. /\ 4+j-1 \in 1..Len(s) /\ i+(4+j-1)-1 = i+3+j-1
        /\ j \in 1..Len(u)
    BY <1>1, <1>3, <1>4, <1>5
  <2> QED BY <1>1, <1>2, <1>3, <2>1
<1>7. t = u
  BY <1>2, <1>3, <1>5, <1>6, SeqEqual
<1> QED BY <1>7 DEF t, u, s

\* Past the lines of a file load reads no branch, and its loop is over.
LEMMA NothingLeft ==
    ASSUME LoadBranch, rest = <<>>
    PROVE  objects' = objects /\ rest' = <<>> /\ stream' = "ended"
<1>1. Len(rest) = 0 /\ SubSeq(rest, 4, Len(rest)) = <<>>
  BY EmptySeq, SubSeqEmpty
<1>2. ~ Kept(Branch(rest))
  BY <1>1 DEF Kept, Branch, Read
<1> QED BY <1>1, <1>2 DEF LoadBranch, PushBack, More

LEMMA LoadBranchFile ==
    ASSUME FilesTypes, AllPlain, NEW k \in 0..Len(written), FileIs(k), LoadBranch
    PROVE  FileIs(k)'
<1> DEFINE n == Len(written)
<1>1. n \in Nat /\ k \in Nat /\ written \in Seq(FileBranch) /\ file \in Seq(FileLine)
  BY DEF FilesTypes
<1>2. /\ phase = "reading" /\ phase' = "reading" /\ stream = "good"
      /\ objects' = PushBack(objects, Branch(rest)) /\ rest' = From(rest, 4)
      /\ stream' = IF Len(rest) < 3 THEN "ended" ELSE "good"
      /\ file' = file /\ written' = written /\ whole' = whole
  BY DEF LoadBranch, More, From
<1>3. Holds(k) /\ Saved(k) /\ Loading(k)
  BY <1>2 DEF FileIs
<1>4. Kepts' = Kepts
  BY <1>2 DEF Kepts
<1>5. Holds(k)' /\ Saved(k)'
  BY <1>2, <1>3 DEF Holds, Saved
<1>6. CASE rest = <<>> /\ (objects = Kepts[k] \/ KeptAfter(k))
  <2>1. objects' = objects /\ rest' = <<>> /\ stream' # "unopened"
    BY <1>6, NothingLeft
  <2>2. objects' = Kepts'[k] \/ KeptAfter(k)'
    BY <1>2, <1>4, <1>6, <2>1 DEF KeptAfter
  <2>3. Loading(k)'
    BY <2>1, <2>2 DEF Loading
  <2> QED BY <1>2, <1>5, <2>3 DEF FileIs
<1>7. ASSUME NEW r \in 0..k, rest = From(file, 3*r + 1), objects = Kepts[r]
      PROVE  FileIs(k)'
  <2>1. 3*r + 1 \in Nat \ {0} /\ r \in Nat
    BY <1>1
  <2>2. Branch(rest) = BranchAt(file, 3*r + 1)
    BY <1>1, <1>7, <2>1, BranchFrom
  <2>3. rest \in Seq(FileLine)
        /\ Len(rest) = IF 3*r + 1 <= Len(file) THEN Len(file) - (3*r + 1) + 1 ELSE 0
    BY <1>1, <1>7, <2>1, FromProperties
  <2>4. rest' = From(file, 3*(r+1) + 1)
    <3>1. 3*r + 1 + 3 = 3*(r+1) + 1
      BY <2>1
    <3> QED BY <1>1, <1>2, <1>7, <2>1, <3>1, FromFrom
  <2>5. CASE r < k
    <3>1. r \in 0..(k-1) /\ r+1 \in 0..k /\ r+1 \in 1..n /\ r+1-1 = r
      BY <1>1, <2>1, <2>5
    <3>2. Branch(rest) = written[r+1]
      BY <1>3, <2>2, <3>1 DEF Holds
    <3>3. Kepts[r+1] = PushBack(Kepts[r], written[r+1])
      BY <1>1, <3>1, KeptTurns DEF Kepts
    <3>4. objects' = Kepts'[r+1]
      BY <1>2, <1>4, <1>7, <3>2, <3>3
    <3>5. 3*k <= Len(file) /\ Len(file) \in Nat
      BY <1>1, <1>3 DEF Holds
    <3>6. Len(rest) >= 3
      BY <1>1, <2>1, <2>3, <2>5, <3>5
    <3>7. stream' = "good"
      BY <1>2, <2>3, <3>6
    <3>8. Loading(k)'
      BY <1>2, <2>4, <3>1, <3>4, <3>7 DEF Loading
    <3> QED BY <1>2, <1>5, <3>8 DEF FileIs
  <2>6. CASE r = k /\ k = n
    <3>1. Len(file) = 3*k
      BY <1>3, <2>6 DEF Saved
    <3>2. Len(rest) = 0
      BY <1>1, <2>3, <2>6, <3>1
    <3>3. rest = <<>>
      BY <2>3, <3>2, EmptySeq
    <3> QED BY <1>6, <1>7, <2>6, <3>3
  <2>7. CASE r = k /\ k # n
    <3> DEFINE b == written[k+1]
    <3>1. k+1 \in 1..n /\ k < n
      BY <1>1, <2>7
    <3>2. rest \in CutsOf(LinesOf(b))
      BY <1>3, <1>7, <2>7 DEF Saved
    <3>3. b \in FileBranch /\ Plain(b)
      BY <1>1, <3>1, ElementOfSeq DEF AllPlain
    <3>4. Len(rest) <= 3 /\ (Kept(Branch(rest)) => Kept(b))
      BY <3>2, <3>3, CutReads
    <3>5. rest' = <<>>
      <4>1. Len(rest) \in Int /\ Len(rest) < 4
        BY <2>3, <3>4
      <4> QED BY <1>2, <4>1, SubSeqEmpty DEF From
    <3>6. objects' = Kepts[k] \/ KeptAfter(k)'
      <4>1. CASE Kept(Branch(rest))
        <5>1. objects' = Append(Kepts[k], Branch(rest))
          BY <1>2, <1>7, <2>7, <4>1 DEF PushBack
        <5>2. Branch(rest) \in Remains(b)
          BY <3>2 DEF Remains
        <5> QED BY <1>2, <1>4, <3>1, <3>4, <4>1, <5>1, <5>2 DEF KeptAfter
      <4>2. CASE ~ Kept(Branch(rest))
        BY <1>2, <1>7, <2>7, <4>2 DEF PushBack
      <4> QED BY <4>1, <4>2
    <3>7. Loading(k)'
      BY <1>2, <1>4, <3>5, <3>6 DEF Loading
    <3> QED BY <1>2, <1>5, <3>7 DEF FileIs
  <2> QED BY <2>1, <2>5, <2>6, <2>7
<1> QED BY <1>2, <1>3, <1>6, <1>7 DEF Loading

LEMMA CloseInputFile ==
    ASSUME NEW k \in 0..Len(written), FileIs(k), CloseInput
    PROVE  FileIs(k)'
BY DEF CloseInput, FileIs, Holds, Saved, Loading, Kepts, KeptAfter

LEMMA SameFile ==
    ASSUME NEW k \in 0..Len(written), FileIs(k),
           UNCHANGED <<file, phase, queue, stream, rest, objects, written, whole>>
    PROVE  FileIs(k)'
BY DEF FileIs, Holds, Writing, Saved, Loading, Kepts, KeptAfter

LEMMA FilesInvNext == FilesInv /\ [FilesNext]_filesVars => FilesInv'
<1> SUFFICES ASSUME FilesInv, [FilesNext]_filesVars PROVE FilesInv'
  OBVIOUS
<1>0. FilesTypes /\ FilesTypes' /\ (phase = "loaded" => stream # "good")
  BY FilesTypesNext DEF FilesInv
<1>1. ASSUME NEW branches \in Shelves, OpenOutput(branches)
      PROVE  FilesInv'
  <2>1. branches \in Seq(FileBranch) /\ phase' = "writing" /\ written' = branches
    BY <1>1, ShelvesAssumption DEF FileBranch, OpenOutput
  <2>2. FileIs(0)'
    BY <1>1, <2>1, OpenOutputFile
  <2>3. 0 \in 0..Len(written')
    BY <2>1
  <2> QED BY <1>0, <2>1, <2>2, <2>3 DEF FilesInv
<1> DEFINE others == \/ OutputFails \/ WriteOn \/ CloseOutput \/ StopWriting
                     \/ OpenInput \/ LoadBranch \/ CloseInput
                     \/ UNCHANGED filesVars
<1> SUFFICES ASSUME others
             PROVE  FilesInv'
  BY <1>1 DEF FilesNext
<1>2. written' = written /\ (phase' = "loaded" => stream' # "good")
  BY <1>0 DEF OutputFails, WriteOn, CloseOutput, StopWriting, OpenInput, LoadBranch,
              CloseInput, Free, More, filesVars
<1> SUFFICES ASSUME AllPlain'
             PROVE  \E k \in 0..Len(written') : FileIs(k)'
  BY <1>0, <1>2 DEF FilesInv
<1>3. AllPlain
  BY <1>2 DEF AllPlain
<1>4. PICK k \in 0..Len(written) : FileIs(k)
  BY <1>3 DEF FilesInv
<1> SUFFICES \E m \in 0..Len(written) : FileIs(m)'
  BY <1>2
<1>5. CASE OutputFails
  BY <1>4, <1>5, SameFile DEF OutputFails
<1>6. CASE WriteOn
  BY <1>0, <1>3, <1>4, <1>6, WriteOnFile
<1>7. CASE CloseOutput
  BY <1>0, <1>4, <1>7, CloseOutputFile
<1>8. CASE StopWriting
  BY <1>0, <1>3, <1>4, <1>8, StopWritingFile
<1>9. CASE OpenInput
  BY <1>0, <1>4, <1>9, OpenInputFile
<1>10. CASE LoadBranch
  BY <1>0, <1>3, <1>4, <1>10, LoadBranchFile
<1>11. CASE CloseInput
  BY <1>4, <1>11, CloseInputFile
<1>12. CASE UNCHANGED filesVars
  BY <1>4, <1>12, SameFile DEF filesVars
<1> QED BY <1>5, <1>6, <1>7, <1>8, <1>9, <1>10, <1>11, <1>12

\* With the loop over, objects is what was kept of the branches in the file.
LEMMA LoadedIsKept ==
    ASSUME FilesTypes, AllPlain, phase = "loaded", stream # "good",
           NEW k \in 0..Len(written), FileIs(k)
    PROVE  LoadsWhatWasWritten
<1> DEFINE n == Len(written)
           K == Kepts
           expected == K[n]
           PlainBranch == {b \in FileBranch : Plain(b)}
<1>1. n \in Nat /\ k \in Nat /\ written \in Seq(PlainBranch)
  <2>1. written \in Seq(FileBranch) /\ n \in Nat
    BY DEF FilesTypes
  <2>2. \A i \in 1..n : written[i] \in PlainBranch
    BY <2>1, ElementOfSeq DEF AllPlain
  <2>3. written \in Seq(PlainBranch)
    BY <2>1, <2>2
  <2> QED BY <2>1, <2>3
<1>2. /\ \A i \in 0..n : K[i] \in Seq(PlainBranch)
      /\ \A i \in 1..n : K[i] = PushBack(K[i-1], written[i])
  <2> HIDE DEF PlainBranch
  <2> QED BY <1>1, KeptTurns DEF Kepts
<1>3. \A j \in 0..n : /\ Len(K[j]) <= Len(expected)
                      /\ \A i \in 1..Len(K[j]) : K[j][i] = expected[i]
  <2>1. \A j \in 0..n : n \in j..n
    BY <1>1
  <2> HIDE DEF PlainBranch
  <2> QED BY <1>1, <2>1, KeptGrows DEF Kepts
<1> HIDE DEF K
<1>4. \A b \in PlainBranch : b \in Remains(b)
  BY AllRemains
<1> HIDE DEF PlainBranch
<1>5. Saved(k) /\ Loading(k)
  BY DEF FileIs
<1> DEFINE Good(s, e) == /\ Len(s) <= Len(e)
                         /\ \A i \in 1..(Len(s) - 1) : s[i] = e[i]
                         /\ Len(s) > 0 => s[Len(s)] \in Remains(e[Len(s)])
<1>6. ASSUME NEW j \in 0..n
      PROVE  Good(K[j], expected)
  <2>1. K[j] \in Seq(PlainBranch) /\ Len(K[j]) \in Nat
    BY <1>2, LenProperties
  <2>2. ASSUME Len(K[j]) > 0 PROVE K[j][Len(K[j])] \in Remains(expected[Len(K[j])])
    <3>1. Len(K[j]) \in 1..Len(K[j])
      BY <2>1, <2>2
    <3>2. K[j][Len(K[j])] \in PlainBranch
      BY <2>1, <3>1, ElementOfSeq
    <3>3. K[j][Len(K[j])] = expected[Len(K[j])]
      BY <1>3, <3>1
    <3> QED BY <1>4, <3>2, <3>3
  <2>3. \A i \in 1..(Len(K[j]) - 1) : i \in 1..Len(K[j])
    BY <2>1
  <2> QED BY <1>3, <2>2, <2>3
<1>7. objects = <<>> => Good(objects, expected)
  <2>1. Len(expected) \in Nat /\ Len(<<>>) = 0
    BY <1>1, <1>2, LenProperties
  <2> QED BY <2>1
<1>8. KeptAfter(k) => Good(objects, expected)
  <2> SUFFICES ASSUME KeptAfter(k) PROVE Good(objects, expected)
    OBVIOUS
  <2>1. k+1 \in 1..n /\ k \in 0..n /\ k+1 \in 0..n /\ k+1-1 = k /\ Kept(written[k+1])
    BY <1>1 DEF KeptAfter
  <2>2. PICK b \in Remains(written[k+1]) : objects = Append(K[k], b)
    BY DEF KeptAfter, K
  <2> DEFINE m == Len(K[k])
  <2>3. K[k] \in Seq(PlainBranch) /\ m \in Nat /\ written[k+1] \in PlainBranch
    BY <1>1, <1>2, <2>1, LenProperties, ElementOfSeq
  <2>4. K[k+1] = Append(K[k], written[k+1])
    <3>1. K[k+1] = PushBack(K[k+1-1], written[k+1])
      BY <1>2, <2>1
    <3>2. K[k+1] = PushBack(K[k], written[k+1])
      BY <2>1, <3>1
    <3> QED BY <2>1, <3>2 DEF PushBack
  <2>5. Len(K[k+1]) = m+1 /\ K[k+1][m+1] = written[k+1]
    BY <2>3, <2>4, AppendProperties
  <2>6. Len(objects) = m+1 /\ objects[m+1] = b /\ \A i \in 1..m : objects[i] = K[k][i]
    <3> DEFINE A == PlainBranch \cup {b}
    <3>1. K[k] \in Seq(A) /\ b \in A
      BY <2>3
    <3> HIDE DEF A
    <3> QED BY <2>2, <3>1, AppendProperties
  <2>7. m+1 <= Len(expected) /\ expected[m+1] = written[k+1]
    <3>1. m+1 \in 1..Len(K[k+1])
      BY <2>3, <2>5
    <3> QED BY <1>3, <2>1, <2>5, <3>1
  <2>8. \A i \in 1..m : objects[i] = expected[i]
    BY <1>3, <2>1, <2>6
  <2>9. Len(objects) - 1 = m
    BY <2>3, <2>6
  <2> QED BY <2>2, <2>6, <2>7, <2>8, <2>9
<1>9. Good(objects, expected)
  <2>1. objects = <<>> \/ objects = K[k] \/ KeptAfter(k)
    BY <1>5 DEF Loading, K
  <2> QED BY <1>6, <1>7, <1>8, <2>1
<1>10. whole /\ stream # "unopened" => objects = expected
  <2> SUFFICES ASSUME whole, stream # "unopened" PROVE objects = expected
    OBVIOUS
  <2>1. k = n
    BY <1>5 DEF Saved
  <2> QED BY <1>1, <1>5, <2>1 DEF Loading, KeptAfter, K
<1> QED BY <1>9, <1>10 DEF LoadsWhatWasWritten, K, Kepts

\* A load returns, for any branches and however often their writer was stopped, what
\* is said of it.
THEOREM LoadsReturnWhatWasWritten == FilesSpec => []LoadsWhatWasWritten
<1>1. FilesInv => LoadsWhatWasWritten
  <2>1. FilesTypes => (1..Len(written) = DOMAIN written)
    BY LenProperties DEF FilesTypes
  <2> QED BY <2>1, LoadedIsKept DEF FilesInv, FilesTypes, AllPlain, LoadsWhatWasWritten
<1> QED BY <1>1, FilesInvInit, FilesInvNext, PTL DEF FilesSpec

\* The turns the loop of load has yet to take, at most.
TurnsLeft == IF stream = "good" THEN Len(rest) + 1 ELSE 0

LoadTurn == phase = "reading" => TurnsLeft' < TurnsLeft \/ (TurnsLeft = 0 /\ phase' = "loaded")

\* Whatever is in the file, and if there is none, each turn of load's loop leaves it
\* fewer to take, and with none left it returns.
THEOREM LoadsRunOut == FilesSpec => [](TurnsLeft \in Nat) /\ [][LoadTurn]_filesVars
<1>1. FilesTypes => TurnsLeft \in Nat
  BY LenProperties DEF FilesTypes, TurnsLeft
<1>2. ASSUME FilesTypes, LoadBranch
      PROVE  TurnsLeft' < TurnsLeft
  <2>1. /\ stream = "good"
        /\ stream' = IF Len(rest) < 3 THEN "ended" ELSE "good"
        /\ rest' = SubSeq(rest, 4, Len(rest))
        /\ rest \in Seq(FileLine)
    BY <1>2 DEF LoadBranch, More, FilesTypes
  <2>2. CASE Len(rest) < 3
    BY <2>1, <2>2, LenProperties DEF TurnsLeft
  <2>3. CASE ~(Len(rest) < 3)
    <3>1. Len(rest) \in Nat /\ Len(rest) >= 3
      BY <2>1, <2>3, LenProperties
    <3>2. \A i \in 4..Len(rest) : rest[i] \in FileLine
      BY <2>1, ElementOfSeq
    <3>3. Len(SubSeq(rest, 4, Len(rest))) = IF 4 <= Len(rest) THEN Len(rest) - 4 + 1 ELSE 0
      BY <3>1, <3>2, SubSeqProperties
    <3> QED BY <2>1, <2>3, <3>1, <3>3 DEF TurnsLeft
  <2> QED BY <2>2, <2>3
<1>3. ASSUME CloseInput
      PROVE  TurnsLeft = 0 /\ phase' = "loaded"
  BY <1>3 DEF CloseInput, More, TurnsLeft
<1>4. FilesTypes /\ [FilesNext]_filesVars => [LoadTurn]_filesVars
  BY <1>2, <1>3
     DEF FilesNext, LoadTurn, OpenOutput, OutputFails, WriteOn, CloseOutput, StopWriting,
         OpenInput, Free
<1> QED BY <1>1, <1>4, FilesTyped, PTL DEF FilesSpec

==============================================================================
