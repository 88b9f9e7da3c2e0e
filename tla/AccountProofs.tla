----------------------------- MODULE AccountProofs -----------------------------
(***************************************************************************)
(* Account::deposit for any threads, amounts and numbers of deposits.      *)
(*                                                                         *)
(* A deposit carries what it will write from its first step to its last,   *)
(* so the invariant AuditInv says of each thread within deposit what       *)
(* WithinDeposits and BalanceLogged say of the balance: its new balance is *)
(* within what was deposited and its own amount (SumsWithin), and once     *)
(* logged, without an overlap, it is in the log (SumsLogged).  What was    *)
(* logged stays in the log because it stands where no thread that appends  *)
(* will write (Audited): one that overlaps nobody leaves no other behind   *)
(* in push_back (OverlapsKnown), and who begins later begins after it.     *)
(*                                                                         *)
(* With the callers' lock one thread is in deposit at a time (OneInside),  *)
(* and what it remembers is the balance (Current); the log ends with the   *)
(* balance, or with the one about to be written (LogEnds).                 *)
(***************************************************************************)
EXTENDS Account, SequenceTheorems, TLAPS

Inside(d) == stage[d] # "out"

SumsWithin ==
    \A d \in Depositors : Inside(d) =>
        /\ newBalance[d] >= AmountOf[d]
        /\ newBalance[d] <= deposited + AmountOf[d]

OverlapsKnown ==
    \A c, d \in Depositors : c \in Logging /\ d \in Logging /\ c # d => overlapped[c]

\* The entry i, with the new balance n, is one that no push_back under way replaces.
AuditedAt(i, n) ==
    /\ i \in 1..Len(log)
    /\ log[i][2] = n
    /\ \A c \in Depositors : c \in Logging => i <= slot[c]

Audited(n) == \E i \in Nat : AuditedAt(i, n)

BalanceAudited == balance # 0 /\ ~blurred => Audited(balance)

SumsLogged ==
    \A d \in Depositors : stage[d] = "logged" /\ ~overlapped[d] => Audited(newBalance[d])

AuditInv ==
    /\ AccountTypeOK
    /\ WithinDeposits
    /\ OverlapsKnown
    /\ BalanceAudited
    /\ SumsWithin
    /\ SumsLogged

LEMMA AmountType ==
    ASSUME NEW d \in Depositors
    PROVE  AmountOf[d] \in Nat /\ AmountOf[d] > 0
BY AccountAssumption

\* What is appended to the log is found in it, and so is what was there before.
LEMMA LogGrows ==
    ASSUME log \in Seq(Nat \X Nat), NEW e \in Nat \X Nat, log' = Append(log, e)
    PROVE  /\ log' \in Seq(Nat \X Nat)
           /\ Len(log) \in Nat
           /\ Len(log') = Len(log) + 1
           /\ DOMAIN log = 1..Len(log)
           /\ DOMAIN log' = 1..(Len(log) + 1)
           /\ log'[Len(log) + 1] = e
           /\ \A i \in DOMAIN log : i \in DOMAIN log' /\ log'[i] = log[i]
<1>1. /\ log' \in Seq(Nat \X Nat)
      /\ Len(log') = Len(log) + 1
      /\ \A i \in 1..Len(log) : log'[i] = log[i]
      /\ log'[Len(log) + 1] = e
  BY AppendProperties
<1>2. /\ Len(log) \in Nat
      /\ DOMAIN log = 1..Len(log)
      /\ DOMAIN log' = 1..Len(log')
  BY <1>1, LenProperties, Zenon
<1> QED BY <1>1, <1>2

\* However two threads share a slot of the log, what was there before stays.
LEMMA SlotShared ==
    ASSUME AccountTypeOK, NEW d \in Depositors, Entry(d) \in Nat \X Nat, ShareSlot(d)
    PROVE  /\ log' \in Seq(Nat \X Nat)
           /\ \A i \in 1..Len(log) : i <= slot[d] => i \in 1..Len(log') /\ log'[i] = log[i]
<1> DEFINE e == Entry(d)
           s == slot[d]
<1>0. PICK i \in (s + 1)..Len(log) :
        \E n \in i..Len(log) :
          \E shared \in {log, [log EXCEPT ![i] = e]} : log' = SubSeq(shared, 1, n)
  BY Zenon DEF ShareSlot
<1>1. PICK n \in i..Len(log) :
        \E shared \in {log, [log EXCEPT ![i] = e]} : log' = SubSeq(shared, 1, n)
  BY <1>0, Zenon
<1>2. PICK shared \in {log, [log EXCEPT ![i] = e]} : log' = SubSeq(shared, 1, n)
  BY <1>1, Zenon
<1>3. e \in Nat \X Nat /\ log \in Seq(Nat \X Nat) /\ s \in Nat
  BY DEF AccountTypeOK
<1> HIDE DEF e, s
<1>4. Len(log) \in Nat /\ log \in [1..Len(log) -> Nat \X Nat]
  BY <1>3, LenProperties
<1>5. /\ i \in Nat /\ n \in Nat /\ s < i /\ i <= n /\ n <= Len(log)
      /\ 1 <= n
  BY <1>1, <1>3, <1>4
<1>6. shared \in [1..Len(log) -> Nat \X Nat]
  BY <1>2, <1>3, <1>4
<1>7. \A j \in 1..Len(log) : j # i => shared[j] = log[j]
  BY <1>2, <1>4
<1>8. \A j \in 1..n : shared[j] \in Nat \X Nat
  BY <1>4, <1>5, <1>6
<1>9. /\ log' \in Seq(Nat \X Nat)
      /\ Len(log') = n
      /\ \A j \in 1..n : log'[j] = shared[j]
  <2> DEFINE t == SubSeq(shared, 1, n)
  <2>1. /\ t \in Seq(Nat \X Nat)
        /\ Len(t) = IF 1 <= n THEN n - 1 + 1 ELSE 0
        /\ \A j \in 1..(n - 1 + 1) : t[j] = shared[1 + j - 1]
    <3> HIDE DEF t
    <3>1. 1 \in Int /\ n \in Int
      BY <1>5
    <3> QED BY <1>8, <3>1, SubSeqProperties DEF t
  <2>2. log' = t
    BY <1>2
  <2> HIDE DEF t
  <2>3. n - 1 + 1 = n /\ \A j \in 1..n : 1 + j - 1 = j
    BY <1>5
  <2> QED BY <1>5, <2>1, <2>2, <2>3
<1>10. ASSUME NEW j \in 1..Len(log), j <= s
       PROVE  j \in 1..Len(log') /\ log'[j] = log[j]
  <2>1. j \in Nat /\ 1 <= j /\ j < i
    BY <1>3, <1>4, <1>5, <1>10
  <2>2. j \in 1..n /\ shared[j] = log[j]
    BY <1>5, <1>7, <2>1
  <2>3. j \in 1..Len(log')
    BY <1>9, <2>2
  <2> QED BY <1>9, <2>2, <2>3
<1> QED BY <1>9, <1>10 DEF s

\* An entry that no push_back replaces stays one, as long as no thread begins to
\* append before it and none that appends touches it.
LEMMA AuditedStays ==
    ASSUME \A c \in Depositors : c \in Logging' =>
               \/ c \in Logging /\ slot'[c] = slot[c]
               \/ Len(log) \in Nat /\ slot'[c] = Len(log),
           NEW i \in Nat, NEW n, AuditedAt(i, n),
           i \in 1..Len(log') /\ log'[i] = log[i]
    PROVE  AuditedAt(i, n)'
BY DEF AuditedAt

LEMMA ReadKeepsAudit ==
    ASSUME AuditInv, NEW d \in Depositors, ReadBalance(d)
    PROVE  AuditInv'
<1>1. AmountOf[d] \in Nat /\ balance + AmountOf[d] \in Nat /\ balance \in Nat
  BY AmountType DEF AuditInv, AccountTypeOK
<1>2. /\ stage' = [stage EXCEPT ![d] = "summed"]
      /\ stage[d] = "out"
      /\ newBalance' = [newBalance EXCEPT ![d] = balance + AmountOf[d]]
      /\ due[d] > 0
      /\ UNCHANGED <<balance, log, oldBalance, due, slot, overlapped, torn, blurred,
                     deposited, guarded>>
  BY DEF ReadBalance
<1>3. AccountTypeOK'
  BY <1>1, <1>2 DEF AuditInv, AccountTypeOK
<1>4. SumsWithin'
  <2>1. /\ balance + AmountOf[d] >= AmountOf[d]
        /\ balance + AmountOf[d] <= deposited + AmountOf[d]
    BY <1>1 DEF AuditInv, AccountTypeOK, WithinDeposits
  <2> QED BY <1>2, <2>1 DEF AuditInv, AccountTypeOK, SumsWithin, Inside
<1>5. Logging' = Logging
  BY <1>2 DEF Logging, AuditInv, AccountTypeOK
<1>6. \A i, n : AuditedAt(i, n) => AuditedAt(i, n)'
  BY <1>2, <1>5 DEF AuditedAt
<1>7. BalanceAudited' /\ SumsLogged'
  <2>1. \A n : Audited(n) => Audited(n)'
    BY <1>6, Zenon DEF Audited
  <2>2. BalanceAudited'
    BY <1>2, <2>1, Zenon DEF AuditInv, BalanceAudited
  <2>3. ASSUME NEW c \in Depositors, stage'[c] = "logged", ~overlapped'[c]
        PROVE  stage[c] = "logged" /\ ~overlapped[c] /\ newBalance'[c] = newBalance[c]
    BY <1>2, <2>3 DEF AuditInv, AccountTypeOK
  <2>4. SumsLogged'
    BY <2>1, <2>3, Zenon DEF AuditInv, SumsLogged
  <2> QED BY <2>2, <2>4
<1>8. WithinDeposits' /\ OverlapsKnown'
  BY <1>2, <1>5 DEF AuditInv, WithinDeposits, OverlapsKnown
<1> QED BY <1>3, <1>4, <1>7, <1>8 DEF AuditInv

LEMMA BeginLogKeepsAudit ==
    ASSUME AuditInv, NEW d \in Depositors, BeginLog(d)
    PROVE  AuditInv'
<1>1. /\ stage' = [stage EXCEPT ![d] = "logging"]
      /\ stage[d] = "summed"
      /\ oldBalance' = [oldBalance EXCEPT ![d] = balance]
      /\ slot' = [slot EXCEPT ![d] = Len(log)]
      /\ overlapped' = [c \in Depositors |->
            IF c = d THEN Logging # {} ELSE overlapped[c] \/ c \in Logging]
      /\ UNCHANGED <<balance, log, newBalance, due, torn, blurred, deposited, guarded>>
  BY DEF BeginLog
<1>2. Len(log) \in Nat
  BY LenProperties DEF AuditInv, AccountTypeOK
<1>3. \A c \in Depositors : overlapped'[c] \in BOOLEAN
  <2>1. d \notin Logging
    BY <1>1 DEF Logging
  <2> QED BY <1>1 DEF AuditInv, AccountTypeOK
<1>4. AccountTypeOK'
  <2>1. overlapped' \in [Depositors -> BOOLEAN]
    BY <1>1, <1>3
  <2> QED BY <1>1, <1>2, <2>1 DEF AuditInv, AccountTypeOK
<1>5. \A c \in Depositors : (c \in Logging') <=> (c = d \/ c \in Logging)
  BY <1>1 DEF Logging, AuditInv, AccountTypeOK
<1>6. OverlapsKnown'
  <2>1. ASSUME NEW b \in Depositors, NEW c \in Depositors,
               b \in Logging', c \in Logging', b # c
        PROVE  overlapped'[b]
    <3>1. CASE b = d
      <4>1. c \in Logging
        BY <1>5, <2>1, <3>1
      <4> QED BY <1>1, <3>1, <4>1
    <3>2. CASE b # d
      <4>1. b \in Logging
        BY <1>5, <2>1, <3>2
      <4> QED BY <1>1, <3>2, <4>1
    <3> QED BY <3>1, <3>2
  <2> QED BY <2>1, Zenon DEF OverlapsKnown
<1>7. ASSUME NEW i \in Nat, NEW n, AuditedAt(i, n)
      PROVE  AuditedAt(i, n)'
  <2>1. \A c \in Depositors : c \in Logging' =>
            \/ c \in Logging /\ slot'[c] = slot[c]
            \/ Len(log) \in Nat /\ slot'[c] = Len(log)
    BY <1>1, <1>2, <1>5 DEF AuditInv, AccountTypeOK
  <2>2. i \in 1..Len(log') /\ log'[i] = log[i]
    BY <1>1, <1>7 DEF AuditedAt
  <2> QED BY <1>7, <2>1, <2>2, AuditedStays
<1>8. \A n : Audited(n) => Audited(n)'
  BY <1>7, Zenon DEF Audited
<1>9. BalanceAudited' /\ SumsLogged'
  <2>1. BalanceAudited'
    BY <1>1, <1>8, Zenon DEF AuditInv, BalanceAudited
  <2>2. ASSUME NEW c \in Depositors, stage'[c] = "logged", ~overlapped'[c]
        PROVE  stage[c] = "logged" /\ ~overlapped[c] /\ newBalance'[c] = newBalance[c]
    BY <1>1, <2>2 DEF AuditInv, AccountTypeOK
  <2>3. SumsLogged'
    BY <1>8, <2>2, Zenon DEF AuditInv, SumsLogged
  <2> QED BY <2>1, <2>3
<1>10. SumsWithin' /\ WithinDeposits'
  BY <1>1 DEF AuditInv, AccountTypeOK, SumsWithin, WithinDeposits, Inside
<1> QED BY <1>4, <1>6, <1>9, <1>10 DEF AuditInv

LEMMA EndLogKeepsAudit ==
    ASSUME AuditInv, NEW d \in Depositors, EndLog(d)
    PROVE  AuditInv'
<1> DEFINE e == Entry(d)
<1>1. e \in Nat \X Nat /\ e[2] = newBalance[d]
  BY DEF AuditInv, AccountTypeOK, Entry
<1>2. /\ stage' = [stage EXCEPT ![d] = "logged"]
      /\ stage[d] = "logging"
      /\ log' = Append(log, e) \/ ShareSlot(d)
      /\ UNCHANGED <<balance, newBalance, oldBalance, due, slot, overlapped, torn,
                     blurred, deposited, guarded>>
  BY DEF EndLog
<1>3. \A c \in Depositors : (c \in Logging') <=> (c # d /\ c \in Logging)
  BY <1>2 DEF Logging, AuditInv, AccountTypeOK
<1>4. d \in Logging
  BY <1>2 DEF Logging
<1>5. /\ log' \in Seq(Nat \X Nat)
      /\ \A i \in 1..Len(log) : i <= slot[d] => i \in 1..Len(log') /\ log'[i] = log[i]
  <2>1. CASE log' = Append(log, e)
    <3> HIDE DEF e
    <3>1. /\ log' \in Seq(Nat \X Nat)
          /\ Len(log) \in Nat
          /\ Len(log') = Len(log) + 1
          /\ DOMAIN log = 1..Len(log)
          /\ \A i \in DOMAIN log : i \in DOMAIN log' /\ log'[i] = log[i]
      BY <1>1, <2>1, LogGrows DEF AuditInv, AccountTypeOK
    <3>2. ASSUME NEW i \in 1..Len(log)
          PROVE  i \in 1..Len(log') /\ log'[i] = log[i]
      BY <3>1
    <3> QED BY <3>1, <3>2
  <2>2. CASE ShareSlot(d)
    BY <1>1, <2>2, SlotShared DEF AuditInv
  <2> QED BY <1>2, <2>1, <2>2
<1> HIDE DEF e
<1>6. AccountTypeOK'
  BY <1>2, <1>5 DEF AuditInv, AccountTypeOK
<1>7. OverlapsKnown'
  BY <1>2, <1>3 DEF AuditInv, OverlapsKnown
<1>8. ASSUME NEW i \in Nat, NEW n, AuditedAt(i, n)
      PROVE  AuditedAt(i, n)'
  <2>1. \A c \in Depositors : c \in Logging' =>
            \/ c \in Logging /\ slot'[c] = slot[c]
            \/ Len(log) \in Nat /\ slot'[c] = Len(log)
    BY <1>2, <1>3
  <2>2. i \in 1..Len(log') /\ log'[i] = log[i]
    BY <1>4, <1>5, <1>8 DEF AuditedAt
  <2> QED BY <1>8, <2>1, <2>2, AuditedStays
<1>9. \A n : Audited(n) => Audited(n)'
  BY <1>8, Zenon DEF Audited
<1>10. BalanceAudited'
  BY <1>2, <1>9, Zenon DEF AuditInv, BalanceAudited
<1>11. ASSUME ~overlapped[d]
       PROVE  Audited(newBalance[d])'
  <2>1. log' = Append(log, e)
    BY <1>2, <1>11 DEF ShareSlot
  <2>2. /\ Len(log) \in Nat
        /\ Len(log') = Len(log) + 1
        /\ log'[Len(log) + 1] = e
    BY <1>1, <2>1, LogGrows DEF AuditInv, AccountTypeOK
  <2>3. \A c \in Depositors : c \notin Logging'
    BY <1>3, <1>4, <1>11 DEF AuditInv, OverlapsKnown
  <2>4. PICK k \in Nat : k \in 1..Len(log') /\ log'[k][2] = newBalance'[d]
    <3>1. Len(log) + 1 \in Nat /\ Len(log) + 1 \in 1..Len(log')
      BY <2>2
    <3>2. log'[Len(log) + 1][2] = newBalance'[d]
      BY <1>1, <1>2, <2>2
    <3> QED BY <3>1, <3>2, Zenon
  <2>5. AuditedAt(k, newBalance[d])'
    BY <2>3, <2>4 DEF AuditedAt
  <2> QED BY <2>4, <2>5, Zenon DEF Audited
<1>12. SumsLogged'
  <2>1. ASSUME NEW c \in Depositors, stage'[c] = "logged", ~overlapped'[c]
        PROVE  Audited(newBalance[c])'
    <3>1. CASE c = d
      BY <1>2, <1>11, <2>1, <3>1
    <3>2. CASE c # d
      <4>1. stage[c] = "logged" /\ ~overlapped[c]
        BY <1>2, <2>1, <3>2 DEF AuditInv, AccountTypeOK
      <4>2. Audited(newBalance[c])
        BY <4>1 DEF AuditInv, SumsLogged
      <4> QED BY <1>2, <1>9, <4>2
    <3> QED BY <3>1, <3>2
  <2> QED BY <2>1, Zenon DEF SumsLogged
<1>13. SumsWithin' /\ WithinDeposits'
  BY <1>2 DEF AuditInv, AccountTypeOK, SumsWithin, WithinDeposits, Inside
<1> QED BY <1>6, <1>7, <1>10, <1>12, <1>13 DEF AuditInv

LEMMA WriteKeepsAudit ==
    ASSUME AuditInv, NEW d \in Depositors, WriteBalance(d)
    PROVE  AuditInv'
<1> DEFINE n == newBalance[d]
           a == AmountOf[d]
<1>1. /\ a \in Nat /\ a > 0
      /\ n \in Nat /\ n >= a /\ n <= deposited + a
      /\ deposited \in Nat
      /\ due[d] \in 1..Deposits
      /\ ~overlapped[d] => Audited(n)
  <2>1. stage[d] = "logged" /\ a \in Nat /\ a > 0
    BY AmountType DEF WriteBalance
  <2>2. n \in Nat /\ deposited \in Nat
    BY DEF AuditInv, AccountTypeOK
  <2>3. n >= a /\ n <= deposited + a
    BY <2>1 DEF AuditInv, SumsWithin, Inside
  <2>4. due[d] \in 1..Deposits
    <3>1. due[d] \in 0..Deposits /\ due[d] > 0
      BY <2>1 DEF AuditInv, AccountTypeOK
    <3> QED BY <3>1, AccountAssumption
  <2>5. ~overlapped[d] => Audited(n)
    BY <2>1, Zenon DEF AuditInv, SumsLogged
  <2> QED BY <2>1, <2>2, <2>3, <2>4, <2>5
<1>2. /\ stage' = [stage EXCEPT ![d] = "out"]
      /\ stage[d] = "logged"
      /\ balance' = n
      /\ due' = [due EXCEPT ![d] = due[d] - 1]
      /\ deposited' = deposited + a
      /\ blurred' = overlapped[d]
      /\ UNCHANGED <<log, newBalance, oldBalance, slot, overlapped, torn, guarded>>
  BY DEF WriteBalance, BalanceWritten
<1>3. AccountTypeOK'
  <2>1. due[d] - 1 \in 0..Deposits
    BY <1>1, AccountAssumption
  <2>2. due' \in [Depositors -> 0..Deposits]
    BY <1>2, <2>1 DEF AuditInv, AccountTypeOK
  <2>3. \A c \in Depositors : stage'[c] # "out" => due'[c] > 0
    BY <1>2 DEF AuditInv, AccountTypeOK
  <2>4. deposited' \in Nat /\ balance' \in Nat
    BY <1>1, <1>2
  <2>5. blurred' \in BOOLEAN
    BY <1>2 DEF AuditInv, AccountTypeOK
  <2> HIDE DEF n, a
  <2> QED BY <1>2, <2>2, <2>3, <2>4, <2>5 DEF AuditInv, AccountTypeOK
<1>4. WithinDeposits'
  BY <1>1, <1>2 DEF WithinDeposits
<1> HIDE DEF n, a
<1>5. Logging' = Logging
  BY <1>2 DEF Logging, AuditInv, AccountTypeOK
<1>6. OverlapsKnown'
  BY <1>2, <1>5 DEF AuditInv, OverlapsKnown
<1>7. \A i, m : AuditedAt(i, m) => AuditedAt(i, m)'
  BY <1>2, <1>5 DEF AuditedAt
<1>8. \A m : Audited(m) => Audited(m)'
  BY <1>7, Zenon DEF Audited
<1>9. BalanceAudited'
  BY <1>1, <1>2, <1>8, Zenon DEF BalanceAudited
<1>10. SumsWithin'
  <2>1. ASSUME NEW c \in Depositors, stage'[c] # "out"
        PROVE  /\ newBalance[c] >= AmountOf[c]
               /\ newBalance[c] <= deposited + a + AmountOf[c]
    <3>1. stage[c] # "out" /\ newBalance[c] \in Nat /\ AmountOf[c] \in Nat
      BY <1>2, <2>1, AmountType DEF AuditInv, AccountTypeOK
    <3>2. newBalance[c] >= AmountOf[c] /\ newBalance[c] <= deposited + AmountOf[c]
      BY <3>1 DEF AuditInv, SumsWithin, Inside
    <3> QED BY <1>1, <3>1, <3>2
  <2> QED BY <1>2, <2>1 DEF SumsWithin, Inside
<1>11. SumsLogged'
  <2>1. ASSUME NEW c \in Depositors, stage'[c] = "logged", ~overlapped'[c]
        PROVE  stage[c] = "logged" /\ ~overlapped[c] /\ newBalance'[c] = newBalance[c]
    BY <1>2, <2>1 DEF AuditInv, AccountTypeOK
  <2> QED BY <1>8, <2>1, Zenon DEF AuditInv, SumsLogged
<1> QED BY <1>3, <1>4, <1>6, <1>9, <1>10, <1>11 DEF AuditInv

LEMMA AuditInit == AccountInit => AuditInv
<1> SUFFICES ASSUME AccountInit PROVE AuditInv
  OBVIOUS
<1>1. log \in Seq(Nat \X Nat)
  BY EmptySeq DEF AccountInit
<1>2. AccountTypeOK
  BY <1>1 DEF AccountInit, AccountTypeOK
<1>3. WithinDeposits /\ BalanceAudited
  BY DEF AccountInit, WithinDeposits, BalanceAudited
<1>4. SumsWithin /\ SumsLogged /\ OverlapsKnown
  BY DEF AccountInit, SumsWithin, SumsLogged, OverlapsKnown, Logging, Inside
<1> QED BY <1>2, <1>3, <1>4 DEF AuditInv

LEMMA AuditNext == AuditInv /\ [AccountNext]_accountVars => AuditInv'
<1> SUFFICES ASSUME AuditInv, [AccountNext]_accountVars PROVE AuditInv'
  OBVIOUS
<1>1. ASSUME UNCHANGED <<balance, log, stage, newBalance, oldBalance, due, slot,
                         overlapped, blurred, deposited, guarded>>,
             torn' \in BOOLEAN
      PROVE  AuditInv'
  BY <1>1 DEF AuditInv, AccountTypeOK, WithinDeposits, OverlapsKnown, BalanceAudited,
              SumsWithin, SumsLogged, Audited, AuditedAt, Logging, Inside
<1>2. ASSUME NEW d \in Depositors, TearLog(d)
      PROVE  AuditInv'
  BY <1>1, <1>2 DEF TearLog
<1>3. CASE UNCHANGED accountVars
  BY <1>1, <1>3 DEF accountVars, AuditInv, AccountTypeOK
<1> QED
  BY <1>2, <1>3, ReadKeepsAudit, BeginLogKeepsAudit, EndLogKeepsAudit,
     WriteKeepsAudit DEF AccountNext, deposit, Joined

\* The inductive invariant of the unguarded account.
THEOREM AuditInvariance == AccountSpec => []AuditInv
BY AuditInit, AuditNext, PTL DEF AccountSpec

\* The balance, the log and what each thread remembers keep their types.
THEOREM AccountTypeCorrectness == AccountSpec => []AccountTypeOK
BY AuditInvariance, PTL DEF AuditInv

\* Racing deposits never make money, and never lose all of it.
THEOREM NoMoneyMade == AccountSpec => []WithinDeposits
BY AuditInvariance, PTL DEF AuditInv

\* In any interleaving, and whatever pushes overlapped before, the balance shown was
\* logged unless the push of the deposit that wrote it overlapped another.
THEOREM BalanceIsLogged == AccountSpec => []BalanceLogged
<1>1. AuditInv => BalanceLogged
  <2> SUFFICES ASSUME AuditInv, balance # 0, ~blurred
               PROVE  \E i \in DOMAIN log : log[i][2] = balance
    BY DEF BalanceLogged
  <2>1. PICK i \in Nat : AuditedAt(i, balance)
    BY DEF AuditInv, BalanceAudited, Audited
  <2>2. DOMAIN log = 1..Len(log)
    BY LenProperties DEF AuditInv, AccountTypeOK
  <2> QED BY <2>1, <2>2 DEF AuditedAt
<1> QED BY <1>1, AuditInvariance, PTL

-----------------------------------------------------------------------------
(* With the lock.                                                          *)

OneInside == \A c, d \in Depositors : Inside(c) /\ Inside(d) => c = d

Current ==
    \A d \in Depositors :
        /\ Inside(d) => newBalance[d] = balance + AmountOf[d]
        /\ stage[d] = "logging" => oldBalance[d] = balance

LastLogged == IF Len(log) = 0 THEN 0 ELSE log[Len(log)][2]

LogEnds ==
    /\ \A d \in Depositors : stage[d] = "logged" => LastLogged = newBalance[d]
    /\ (\A d \in Depositors : stage[d] # "logged") => LastLogged = balance

LogChained ==
    \A i \in DOMAIN log : log[i][1] = IF i = 1 THEN 0 ELSE log[i-1][2]

NoneOverlaps == \A d \in Depositors : ~overlapped[d]

OneAtATime ==
    /\ ~torn /\ OneInside /\ NoneOverlaps
    /\ Current /\ balance = deposited
    /\ LogEnds /\ LogChained

GuardedInv == AuditInv /\ (guarded => OneAtATime)

LEMMA GuardedInit == AccountInit => GuardedInv
<1> SUFFICES ASSUME AccountInit PROVE GuardedInv
  OBVIOUS
<1>1. Len(log) = 0 /\ DOMAIN log = {}
  BY EmptySeq, LenProperties DEF AccountInit
<1> QED
  BY <1>1, AuditInit
     DEF AccountInit, GuardedInv, OneAtATime, OneInside, NoneOverlaps, Current,
         LogEnds, LogChained, LastLogged, Inside

LEMMA GuardedStep ==
    ASSUME AuditInv, OneAtATime, guarded, NEW d \in Depositors, deposit(d)
    PROVE  OneAtATime'
<1>0. /\ AmountOf[d] \in Nat
      /\ balance \in Nat
      /\ stage \in [Depositors -> {"out", "summed", "logging", "logged"}]
      /\ newBalance \in [Depositors -> Nat]
      /\ oldBalance \in [Depositors -> Nat]
      /\ log \in Seq(Nat \X Nat)
  BY AmountType DEF AuditInv, AccountTypeOK
<1>1. CASE ReadBalance(d)
  <2>1. /\ stage' = [stage EXCEPT ![d] = "summed"]
        /\ newBalance' = [newBalance EXCEPT ![d] = balance + AmountOf[d]]
        /\ AllOut
        /\ UNCHANGED <<balance, log, oldBalance, overlapped, torn, deposited, guarded>>
    BY <1>1 DEF ReadBalance
  <2>2. OneInside' /\ Current' /\ NoneOverlaps'
    BY <1>0, <2>1 DEF AllOut, OneAtATime, OneInside, NoneOverlaps, Current, Inside
  <2>3. LogEnds' /\ LogChained'
    BY <1>0, <2>1 DEF AllOut, OneAtATime, LogEnds, LastLogged, LogChained
  <2> QED BY <2>1, <2>2, <2>3 DEF OneAtATime
<1>2. CASE BeginLog(d)
  <2>1. /\ stage' = [stage EXCEPT ![d] = "logging"]
        /\ stage[d] = "summed"
        /\ oldBalance' = [oldBalance EXCEPT ![d] = balance]
        /\ overlapped' = [c \in Depositors |->
              IF c = d THEN Logging # {} ELSE overlapped[c] \/ c \in Logging]
        /\ UNCHANGED <<balance, log, newBalance, torn, deposited, guarded>>
    BY <1>2 DEF BeginLog
  <2>2. OneInside' /\ Current'
    BY <1>0, <2>1 DEF OneAtATime, OneInside, Current, Inside
  <2>3. LogEnds' /\ LogChained'
    BY <1>0, <2>1 DEF OneAtATime, LogEnds, LastLogged, LogChained
  <2>4. Logging = {}
    BY <2>1 DEF Logging, OneAtATime, OneInside, Inside
  <2>5. NoneOverlaps'
    BY <2>1, <2>4 DEF OneAtATime, NoneOverlaps
  <2> QED BY <2>1, <2>2, <2>3, <2>5 DEF OneAtATime
<1>3. CASE EndLog(d)
  <2> DEFINE e == Entry(d)
  <2>1. /\ stage' = [stage EXCEPT ![d] = "logged"]
        /\ stage[d] = "logging"
        /\ log' = Append(log, e)
        /\ UNCHANGED <<balance, newBalance, oldBalance, overlapped, torn, deposited,
                       guarded>>
    BY <1>3 DEF EndLog, ShareSlot, OneAtATime, NoneOverlaps
  <2>2. \A c \in Depositors \ {d} : stage[c] = "out"
    BY <2>1 DEF OneAtATime, OneInside, Inside
  <2>3. e \in Nat \X Nat /\ e[1] = balance /\ e[2] = newBalance[d]
    BY <1>0, <2>1 DEF OneAtATime, Current, Entry
  <2> HIDE DEF e
  <2>4. /\ Len(log) \in Nat
        /\ log' \in Seq(Nat \X Nat)
        /\ DOMAIN log = 1..Len(log)
        /\ DOMAIN log' = 1..(Len(log) + 1)
        /\ log'[Len(log) + 1] = e
        /\ \A i \in DOMAIN log : log'[i] = log[i]
    BY <1>0, <2>1, <2>3, LogGrows
  <2>5. Len(log') = Len(log) + 1
    BY <2>4, LenProperties
  <2>6. LastLogged = balance
    BY <2>1, <2>2 DEF OneAtATime, LogEnds
  <2>7. LastLogged' = newBalance[d]
    BY <2>3, <2>4, <2>5 DEF LastLogged
  <2>8. LogEnds'
    BY <1>0, <2>1, <2>2, <2>7 DEF LogEnds
  <2>9. LogChained'
    <3>1. ASSUME NEW i \in 1..Len(log)
          PROVE  log'[i][1] = IF i = 1 THEN 0 ELSE log'[i-1][2]
      <4>1. log[i][1] = IF i = 1 THEN 0 ELSE log[i-1][2]
        BY <2>4 DEF OneAtATime, LogChained
      <4>2. i # 1 => i - 1 \in 1..Len(log)
        BY <2>4
      <4> QED BY <2>4, <4>1, <4>2
    <3>2. log'[Len(log) + 1][1] =
            IF Len(log) + 1 = 1 THEN 0 ELSE log'[Len(log) + 1 - 1][2]
      <4>1. CASE Len(log) = 0
        BY <2>3, <2>4, <2>6, <4>1 DEF LastLogged
      <4>2. CASE Len(log) # 0
        <5>1. Len(log) + 1 - 1 = Len(log) /\ Len(log) \in DOMAIN log
          BY <2>4, <4>2
        <5>2. log'[Len(log)] = log[Len(log)] /\ log[Len(log)][2] = balance
          BY <2>4, <2>6, <4>2, <5>1 DEF LastLogged
        <5> QED BY <2>3, <2>4, <4>2, <5>1, <5>2
      <4> QED BY <4>1, <4>2
    <3>3. ASSUME NEW i \in DOMAIN log'
          PROVE  log'[i][1] = IF i = 1 THEN 0 ELSE log'[i-1][2]
      <4>1. i \in 1..Len(log) \/ i = Len(log) + 1
        BY <2>4
      <4> QED BY <3>1, <3>2, <4>1
    <3> QED BY <3>3 DEF LogChained
  <2>10. OneInside' /\ Current' /\ NoneOverlaps'
    BY <1>0, <2>1 DEF OneAtATime, OneInside, NoneOverlaps, Current, Inside
  <2> QED BY <2>1, <2>8, <2>9, <2>10 DEF OneAtATime
<1>4. CASE WriteBalance(d)
  <2>1. /\ stage' = [stage EXCEPT ![d] = "out"]
        /\ stage[d] = "logged"
        /\ balance' = newBalance[d]
        /\ deposited' = deposited + AmountOf[d]
        /\ UNCHANGED <<log, newBalance, oldBalance, overlapped, torn, guarded>>
    BY <1>4 DEF WriteBalance, BalanceWritten
  <2>2. \A c \in Depositors : stage'[c] = "out"
    BY <1>0, <2>1 DEF OneAtATime, OneInside, Inside
  <2>3. /\ newBalance[d] = balance + AmountOf[d]
        /\ LastLogged = newBalance[d]
        /\ balance = deposited
    BY <2>1 DEF OneAtATime, Current, LogEnds, Inside
  <2>4. LogEnds' /\ LogChained'
    BY <2>1, <2>2, <2>3 DEF OneAtATime, LogEnds, LastLogged, LogChained
  <2> QED
    BY <2>1, <2>2, <2>3, <2>4
       DEF OneAtATime, OneInside, NoneOverlaps, Current, Inside
<1>5. ~TearLog(d)
  BY DEF TearLog, OneAtATime, NoneOverlaps
<1> QED BY <1>1, <1>2, <1>3, <1>4, <1>5 DEF deposit

LEMMA GuardedNext == GuardedInv /\ [AccountNext]_accountVars => GuardedInv'
<1> SUFFICES ASSUME GuardedInv, [AccountNext]_accountVars PROVE GuardedInv'
  OBVIOUS
<1>1. AuditInv' /\ guarded' = guarded
  BY AuditNext
     DEF GuardedInv, AccountNext, deposit, ReadBalance, BeginLog, EndLog, TearLog,
         WriteBalance, Joined, accountVars
<1>2. CASE UNCHANGED accountVars
  BY <1>1, <1>2
     DEF accountVars, GuardedInv, OneAtATime, OneInside, NoneOverlaps, Current,
         LogEnds, LogChained, LastLogged, Inside
<1> QED BY <1>1, <1>2, GuardedStep DEF GuardedInv, AccountNext, Joined

\* With a lock around deposit the balance is the sum of the deposits, and the log
\* the unbroken account of it.
THEOREM LockSuffices == AccountSpec => []LockKeepsDeposits
<1>1. GuardedInv => LockKeepsDeposits
  BY DEF GuardedInv, OneAtATime, LogChained, LockKeepsDeposits
<1> QED BY <1>1, GuardedInit, GuardedNext, PTL DEF AccountSpec

-----------------------------------------------------------------------------
(* The threads run out of steps.                                           *)

\* The steps a thread has yet to take, at most.
StepsLeft(d) ==
    4 * due[d] - (IF stage[d] = "out" THEN 0
                  ELSE IF stage[d] = "summed" THEN 1
                  ELSE IF stage[d] = "logging" THEN 2 ELSE 3)

OneStepFewer ==
    \/ torn'
    \/ \E d \in Depositors : /\ StepsLeft(d)' < StepsLeft(d)
                             /\ \A c \in Depositors \ {d} : StepsLeft(c)' = StepsLeft(c)

LEMMA StepsLeftType ==
    ASSUME AuditInv, NEW d \in Depositors
    PROVE  StepsLeft(d) \in Nat
<1>1. due[d] \in Nat /\ (stage[d] # "out" => due[d] > 0)
  BY AccountAssumption DEF AuditInv, AccountTypeOK
<1> QED BY <1>1 DEF StepsLeft

LEMMA DepositTakesAStep ==
    ASSUME AuditInv, NEW d \in Depositors, deposit(d)
    PROVE  OneStepFewer
<1>1. /\ due[d] \in Int
      /\ stage \in [Depositors -> {"out", "summed", "logging", "logged"}]
      /\ due \in [Depositors -> 0..Deposits]
  BY AccountAssumption DEF AuditInv, AccountTypeOK
<1>2. CASE ReadBalance(d)
  BY <1>1, <1>2 DEF ReadBalance, OneStepFewer, StepsLeft
<1>3. CASE BeginLog(d)
  BY <1>1, <1>3 DEF BeginLog, OneStepFewer, StepsLeft
<1>4. CASE EndLog(d)
  <2>1. /\ stage[d] = "logging"
        /\ stage' = [stage EXCEPT ![d] = "logged"]
        /\ due' = due
    BY <1>4 DEF EndLog
  <2> QED BY <1>1, <2>1 DEF OneStepFewer, StepsLeft
<1>5. CASE WriteBalance(d)
  <2>1. /\ stage[d] = "logged"
        /\ stage' = [stage EXCEPT ![d] = "out"]
        /\ due' = [due EXCEPT ![d] = due[d] - 1]
    BY <1>5 DEF WriteBalance
  <2> QED BY <1>1, <2>1 DEF OneStepFewer, StepsLeft
<1>6. CASE TearLog(d)
  BY <1>6 DEF TearLog, OneStepFewer
<1> QED BY <1>2, <1>3, <1>4, <1>5, <1>6 DEF deposit

\* However the threads are interleaved, with the lock or without, each step uses up
\* one of finitely many of the thread that takes it and of no other, unless two tear
\* the log: deposit never starts over.
THEOREM DepositorsRunOut ==
    AccountSpec => /\ [](\A d \in Depositors : StepsLeft(d) \in Nat)
                   /\ [][OneStepFewer]_accountVars
<1>1. AuditInv => \A d \in Depositors : StepsLeft(d) \in Nat
  BY StepsLeftType
<1>2. AuditInv /\ [AccountNext]_accountVars => [OneStepFewer]_accountVars
  BY DepositTakesAStep DEF AccountNext, Joined
<1> QED BY <1>1, <1>2, AuditInvariance, PTL DEF AccountSpec

==============================================================================
