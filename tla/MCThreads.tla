------------------------------- MODULE MCThreads -------------------------------
(***************************************************************************)
(* The concurrency tests of VoteEngine and Account for TLC: two threads    *)
(* that vote one message up and two that vote another up and down, or      *)
(* three that deposit different amounts.  Nothing is shared between the    *)
(* tests, so one at a time has anything to do.                             *)
(***************************************************************************)
EXTENDS VoteEngine, Account, TLC

CONSTANTS t1, t2, t3, t4, m1, m2, d1, d2, d3

Up(m) == [messageId |-> m, isUpvote |-> TRUE]

Down(m) == [messageId |-> m, isUpvote |-> FALSE]

Crowd == t1 :> Up(m1) @@ t2 :> Up(m1) @@ t3 :> Up(m2) @@ t4 :> Down(m2)

Money == d1 :> 1 @@ d2 :> 2 @@ d3 :> 4

NobodyVotes == left = [t \in Threads |-> 0]

NobodyDeposits == due = [d \in Depositors |-> 0]

ThreadsInit ==
    /\ Init
    /\ AccountInit
    /\ \/ left = [t \in Threads |-> Its] /\ NobodyDeposits /\ ~guarded
       \/ NobodyVotes /\ ~locked /\ due = (d1 :> 2 @@ d2 :> 2 @@ d3 :> 1)

ThreadsNext ==
    \/ Next /\ UNCHANGED accountVars
    \/ AccountNext /\ UNCHANGED vars

ThreadsSpec ==
    /\ ThreadsInit
    /\ [][ThreadsNext]_<<vars, accountVars>>
    /\ VotersRun
    /\ DepositorsRun

==============================================================================
