------------------------------- MODULE VoteEngine -------------------------------
(***************************************************************************)
(* VoteEngine::accept in several threads: the count of a message is read   *)
(* through _counts[id], which inserts a message not seen before, and       *)
(* written back one statement later.  Each thread repeats one vote, as     *)
(* those of the disabled concurrency test do.                              *)
(*                                                                         *)
(* Two threads on one counter lose votes.  A thread in the map while       *)
(* another inserts into it is worse: it may find the message missing, or   *)
(* the map broken, after which nothing is said.                            *)
(***************************************************************************)
EXTENDS Integers, FiniteSets

CONSTANTS
    Threads, Messages,
    VoteOf,     \* VoteOf[t]: the [messageId, isUpvote] that t repeats
    Its         \* how often at most

ASSUME VotesAssumption ==
    /\ VoteOf \in [Threads -> [messageId : Messages, isUpvote : BOOLEAN]]
    /\ Its \in Nat

VARIABLES
    counts,     \* _counts
    pc,         \* where each thread is in accept
    current,    \* currentCount of each thread
    left,       \* the votes each thread has yet to cast
    broken,     \* the map's links are
    ups, downs, \* history: the votes written for each message
    locked      \* the callers hold a lock of their own while in accept

vars == <<counts, pc, current, left, broken, ups, downs, locked>>

Init ==
    /\ counts = [m \in {} |-> 0]
    /\ pc = [t \in Threads |-> "out"]
    /\ current = [t \in Threads |-> 0]
    /\ left \in [Threads -> 0..Its]
    /\ broken = FALSE
    /\ ups = [m \in Messages |-> 0]
    /\ downs = [m \in Messages |-> 0]
    /\ locked \in BOOLEAN

\* Slip: the sign is lost.
DeltaFlipped(t) == IF VoteOf[t].isUpvote THEN -1 ELSE 1

Delta(t) == IF VoteOf[t].isUpvote THEN 1 ELSE -1

\* Another thread is inserting.
Race(t) == \E u \in Threads \ {t} : pc[u] = "inserting"

\* Slip: once more.
EntersAgain(t) ==
    /\ ~broken
    /\ pc[t] = "out"
    /\ left[t] >= 0
    /\ locked => \A u \in Threads : pc[u] = "out"

Enters(t) ==
    /\ ~broken
    /\ pc[t] = "out"
    /\ left[t] > 0
    /\ locked => \A u \in Threads : pc[u] = "out"

\* Slip: a count read once is not read again.
ReadOnce(t) ==
    /\ Enters(t)
    /\ VoteOf[t].messageId \in DOMAIN counts
    /\ pc' = [pc EXCEPT ![t] = "read"]
    /\ IF left[t] = Its
         THEN current' = [current EXCEPT ![t] = counts[VoteOf[t].messageId]]
         ELSE UNCHANGED current
    /\ UNCHANGED <<counts, left, broken, ups, downs, locked>>

\* The count is found.
Read(t) ==
    /\ Enters(t)
    /\ VoteOf[t].messageId \in DOMAIN counts
    /\ pc' = [pc EXCEPT ![t] = "read"]
    /\ current' = [current EXCEPT ![t] = counts[VoteOf[t].messageId]]
    /\ UNCHANGED <<counts, left, broken, ups, downs, locked>>

\* It is not: operator[] starts to insert one.
BeginInsert(t) ==
    /\ Enters(t)
    /\ VoteOf[t].messageId \notin DOMAIN counts
    /\ pc' = [pc EXCEPT ![t] = "inserting"]
    /\ UNCHANGED <<counts, current, left, broken, ups, downs, locked>>

\* The new entry is linked, in front of one another thread inserted since.
EndInsert(t) ==
    /\ ~broken
    /\ pc[t] = "inserting"
    /\ counts' = [m \in DOMAIN counts \cup {VoteOf[t].messageId} |->
                    IF m = VoteOf[t].messageId THEN 0 ELSE counts[m]]
    /\ pc' = [pc EXCEPT ![t] = "read"]
    /\ current' = [current EXCEPT ![t] = 0]
    /\ UNCHANGED <<left, broken, ups, downs, locked>>

\* Slip: += for =.
ResultAdded(t) == counts[VoteOf[t].messageId] + current[t] + Delta(t)

Result(t) == current[t] + Delta(t)

\* Slip: retried, without another look, while the count is not the one read.
WriteIfUnchanged(t) ==
    LET m == VoteOf[t].messageId
    IN  /\ pc[t] = "read"
        /\ IF counts[m] = current[t]
             THEN /\ ~broken
                  /\ counts' = [counts EXCEPT ![m] = Result(t)]
                  /\ pc' = [pc EXCEPT ![t] = "out"]
                  /\ left' = [left EXCEPT ![t] = @ - 1]
                  /\ ups' = [ups EXCEPT ![m] = IF VoteOf[t].isUpvote THEN @ + 1 ELSE @]
                  /\ downs' = [downs EXCEPT ![m] = IF VoteOf[t].isUpvote THEN @ ELSE @ + 1]
                  /\ UNCHANGED <<current, broken, locked>>
             ELSE UNCHANGED vars

Write(t) ==
    LET m == VoteOf[t].messageId
    IN  /\ ~broken
        /\ pc[t] = "read"
        /\ counts' = [counts EXCEPT ![m] = Result(t)]
        /\ pc' = [pc EXCEPT ![t] = "out"]
        /\ left' = [left EXCEPT ![t] = @ - 1]
        /\ ups' = [ups EXCEPT ![m] = IF VoteOf[t].isUpvote THEN @ + 1 ELSE @]
        /\ downs' = [downs EXCEPT ![m] = IF VoteOf[t].isUpvote THEN @ ELSE @ + 1]
        /\ UNCHANGED <<current, broken, locked>>

\* What a race inside the map may come to besides.
Break(t) ==
    /\ Race(t)
    /\ Enters(t) \/ pc[t] = "read"
    /\ broken' = TRUE
    /\ UNCHANGED <<counts, pc, current, left, ups, downs, locked>>

accept(t) == Read(t) \/ BeginInsert(t) \/ EndInsert(t) \/ Write(t) \/ Break(t)

\* Everybody has voted, or the map is broken and nothing more is said.
Ended ==
    /\ broken \/ \A t \in Threads : left[t] = 0
    /\ UNCHANGED vars

Next ==
    \/ \E t \in Threads : accept(t)
    \/ Ended

Spec == Init /\ [][Next]_vars

\* The threads are run by a preemptive scheduler: each that can step does.
VotersRun == \A t \in Threads : WF_vars(accept(t))

-----------------------------------------------------------------------------

TypeOK ==
    /\ DOMAIN counts \subseteq Messages
    /\ counts \in [DOMAIN counts -> Int]
    /\ pc \in [Threads -> {"out", "inserting", "read"}]
    /\ current \in [Threads -> Int]
    /\ left \in [Threads -> 0..Its]
    /\ broken \in BOOLEAN
    /\ locked \in BOOLEAN
    /\ ups \in [Messages -> Nat]
    /\ downs \in [Messages -> Nat]
    /\ \A t \in Threads : pc[t] # "out" => left[t] > 0

\* A count is made of votes for that message, none of them counted twice, however
\* many are lost.
WithinVotes ==
    \A m \in DOMAIN counts : -downs[m] <= counts[m] /\ counts[m] <= ups[m]

\* A message that is only voted up has votes to show for it as soon as nobody is
\* voting on it: of all the votes lost, the last one written is not.
VotesShow ==
    \A m \in DOMAIN counts :
        (\A t \in Threads : VoteOf[t].messageId = m => VoteOf[t].isUpvote)
            => \/ counts[m] >= 1
               \/ \E t \in Threads : VoteOf[t].messageId = m /\ pc[t] # "out"

\* VoteTest's SupportsConcurrency: when all threads are out the count is what the
\* votes add up to.
NoVoteLost ==
    ~broken /\ (\A t \in Threads : pc[t] = "out")
        => \A m \in DOMAIN counts : counts[m] = ups[m] - downs[m]

\* A lock around accept is all that it takes.
LockKeepsVotes == locked => ~broken /\ NoVoteLost

\* With or without the lock, all threads cast their votes and return, so that the
\* joins of the test end, unless a race breaks the map.
AllVoted == <>(broken \/ \A t \in Threads : left[t] = 0)

==============================================================================
