SPECIFICATION ThreadsSpec

CONSTANTS
    Threads = {t1, t2, t3, t4}
    VoteOf <- Crowd
    Its = 2
    Messages = {m1, m2}
    t1 = t1
    t2 = t2
    t3 = t3
    t4 = t4
    m1 = m1
    m2 = m2
    Depositors = {d1, d2, d3}
    AmountOf <- Money
    Deposits = 2
    d1 = d1
    d2 = d2
    d3 = d3

INVARIANTS
    TypeOK
    WithinVotes
    VotesShow
    LockKeepsVotes
    AccountTypeOK
    WithinDeposits
    BalanceLogged
    LockKeepsDeposits

PROPERTIES
    AllVoted
    AllDeposited
