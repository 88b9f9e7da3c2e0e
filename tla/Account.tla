-------------------------------- MODULE Account --------------------------------
(***************************************************************************)
(* Account::deposit in several threads.  A deposit reads the balance for   *)
(* the sum, reads it again for the log, appends to the log, a vector, and  *)
(* writes the balance last.  Of two threads that append at once one may    *)
(* write over the other's entry, and both go on to write their balance; or *)
(* they tear the vector, after which nothing is said.                      *)
(***************************************************************************)
EXTENDS Integers, Sequences

CONSTANTS
    Depositors,     \* threads
    AmountOf,       \* what each deposits at a time
    Deposits        \* how often at most

ASSUME AccountAssumption ==
    /\ AmountOf \in [Depositors -> Nat \ {0}]
    /\ Deposits \in Nat

VARIABLES
    balance,        \* _balance
    log,            \* _logMessages: <<old balance, new balance>>
    stage,          \* where each thread is in deposit
    newBalance,     \* newBalance of each thread
    oldBalance,     \* oldBalance, the argument of log()
    due,            \* the deposits each thread has yet to make
    slot,           \* the size of the log when each thread began to append
    overlapped,     \* another appended while it did
    torn,           \* the log's memory is
    blurred,        \* history: who wrote the balance had overlapped
    deposited,      \* history: the sum of the deposits written
    guarded         \* the callers hold a lock of their own while in deposit

accountVars == <<balance, log, stage, newBalance, oldBalance, due, slot,
                 overlapped, torn, blurred, deposited, guarded>>

AccountInit ==
    /\ balance = 0
    /\ log = <<>>
    /\ stage = [d \in Depositors |-> "out"]
    /\ newBalance = [d \in Depositors |-> 0]
    /\ oldBalance = [d \in Depositors |-> 0]
    /\ due \in [Depositors -> 0..Deposits]
    /\ slot = [d \in Depositors |-> 0]
    /\ overlapped = [d \in Depositors |-> FALSE]
    /\ torn = FALSE
    /\ blurred = FALSE
    /\ deposited = 0
    /\ guarded \in BOOLEAN

AllOut == \A d \in Depositors : stage[d] = "out"

\* Slip: once more.
ReadBalanceAgain(d) ==
    /\ ~torn
    /\ stage[d] = "out"
    /\ guarded => AllOut
    /\ stage' = [stage EXCEPT ![d] = "summed"]
    /\ newBalance' = [newBalance EXCEPT ![d] = balance + AmountOf[d]]
    /\ UNCHANGED <<balance, log, oldBalance, due, slot, overlapped, torn, blurred,
                   deposited, guarded>>

ReadBalance(d) ==
    /\ ~torn
    /\ stage[d] = "out"
    /\ due[d] > 0
    /\ guarded => AllOut
    /\ stage' = [stage EXCEPT ![d] = "summed"]
    /\ newBalance' = [newBalance EXCEPT ![d] = balance + AmountOf[d]]
    /\ UNCHANGED <<balance, log, oldBalance, due, slot, overlapped, torn, blurred,
                   deposited, guarded>>

Logging == {d \in Depositors : stage[d] = "logging"}

\* The balance is read again, and push_back begins.
BeginLog(d) ==
    /\ ~torn
    /\ stage[d] = "summed"
    /\ stage' = [stage EXCEPT ![d] = "logging"]
    /\ oldBalance' = [oldBalance EXCEPT ![d] = balance]
    /\ slot' = [slot EXCEPT ![d] = Len(log)]
    /\ overlapped' = [c \in Depositors |->
                        IF c = d THEN Logging # {} ELSE overlapped[c] \/ c \in Logging]
    /\ UNCHANGED <<balance, log, newBalance, due, torn, blurred, deposited, guarded>>

\* Slip: the balances change places.
EntrySwapped(d) == <<newBalance[d], oldBalance[d]>>

Entry(d) == <<oldBalance[d], newBalance[d]>>

\* Where others have appended meanwhile, the entry may replace one of theirs or be
\* replaced by it, and a stale end of the vector drop later ones.
ShareSlot(d) ==
    /\ overlapped[d]
    /\ \E i \in (slot[d] + 1)..Len(log) :
         \E n \in i..Len(log) :
           \E shared \in {log, [log EXCEPT ![i] = Entry(d)]} :
             log' = SubSeq(shared, 1, n)

EndLog(d) ==
    /\ ~torn
    /\ stage[d] = "logging"
    /\ log' = Append(log, Entry(d)) \/ ShareSlot(d)
    /\ stage' = [stage EXCEPT ![d] = "logged"]
    /\ UNCHANGED <<balance, newBalance, oldBalance, due, slot, overlapped, torn,
                   blurred, deposited, guarded>>

\* What two threads in push_back may come to besides.
TearLog(d) ==
    /\ ~torn
    /\ stage[d] = "logging"
    /\ overlapped[d]
    /\ torn' = TRUE
    /\ UNCHANGED <<balance, log, stage, newBalance, oldBalance, due, slot, overlapped,
                   blurred, deposited, guarded>>

\* Slip: the amount is added to the balance there is by now.
BalanceIncremented(d) == balance + AmountOf[d]

\* Slip: += for =.
BalanceAdded(d) == balance + newBalance[d]

BalanceWritten(d) == newBalance[d]

\* Slip: retried, without another look, while the balance is not the one logged.
WriteBalanceIfSame(d) ==
    /\ stage[d] = "logged"
    /\ IF balance = oldBalance[d]
         THEN /\ ~torn
              /\ balance' = BalanceWritten(d)
              /\ stage' = [stage EXCEPT ![d] = "out"]
              /\ due' = [due EXCEPT ![d] = @ - 1]
              /\ deposited' = deposited + AmountOf[d]
              /\ blurred' = overlapped[d]
              /\ UNCHANGED <<log, newBalance, oldBalance, slot, overlapped, torn,
                             guarded>>
         ELSE UNCHANGED accountVars

WriteBalance(d) ==
    /\ ~torn
    /\ stage[d] = "logged"
    /\ balance' = BalanceWritten(d)
    /\ stage' = [stage EXCEPT ![d] = "out"]
    /\ due' = [due EXCEPT ![d] = @ - 1]
    /\ deposited' = deposited + AmountOf[d]
    /\ blurred' = overlapped[d]
    /\ UNCHANGED <<log, newBalance, oldBalance, slot, overlapped, torn, guarded>>

deposit(d) ==
    ReadBalance(d) \/ BeginLog(d) \/ EndLog(d) \/ TearLog(d) \/ WriteBalance(d)

\* The threads are joined.
Joined ==
    /\ torn \/ \A d \in Depositors : due[d] = 0
    /\ UNCHANGED accountVars

AccountNext ==
    \/ \E d \in Depositors : deposit(d)
    \/ Joined

AccountSpec == AccountInit /\ [][AccountNext]_accountVars

\* The threads are run by a preemptive scheduler: each that can step does.
DepositorsRun == \A d \in Depositors : WF_accountVars(deposit(d))

-----------------------------------------------------------------------------

AccountTypeOK ==
    /\ balance \in Nat
    /\ log \in Seq(Nat \X Nat)
    /\ stage \in [Depositors -> {"out", "summed", "logging", "logged"}]
    /\ newBalance \in [Depositors -> Nat]
    /\ oldBalance \in [Depositors -> Nat]
    /\ due \in [Depositors -> 0..Deposits]
    /\ slot \in [Depositors -> Nat]
    /\ overlapped \in [Depositors -> BOOLEAN]
    /\ torn \in BOOLEAN
    /\ blurred \in BOOLEAN
    /\ deposited \in Nat
    /\ guarded \in BOOLEAN
    /\ \A d \in Depositors : stage[d] # "out" => due[d] > 0

\* However many deposits are lost, the account never shows money nobody brought,
\* and never nothing after the first deposit: the last one written is not lost.
WithinDeposits ==
    /\ balance <= deposited
    /\ deposited > 0 => \E d \in Depositors : balance >= AmountOf[d]

\* Although reads and writes of the balance race, and whatever pushes overlapped
\* earlier or since, a balance shown is the new balance of an entry of the log, unless
\* the deposit that wrote it was itself in log() at the same time as another: of such
\* a deposit the entry may be gone, and the balance is written all the same.
BalanceLogged ==
    balance # 0 /\ ~blurred => \E i \in DOMAIN log : log[i][2] = balance

\* AccountTest's IncreasesBalanceOnDeposit, for callers that hold a lock: the
\* balance is the sum of the deposits, and each entry of the log begins with the
\* balance the one before ends with.
LockKeepsDeposits ==
    guarded =>
        /\ ~torn
        /\ AllOut => balance = deposited
        /\ \A i \in DOMAIN log :
             log[i][1] = IF i = 1 THEN 0 ELSE log[i-1][2]

\* With or without the lock, all threads return from their deposits, so that the
\* joins of the test end, unless two tear the log.
AllDeposited == <>(torn \/ \A d \in Depositors : due[d] = 0)

==============================================================================
