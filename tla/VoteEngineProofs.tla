---------------------------- MODULE VoteEngineProofs ----------------------------
(***************************************************************************)
(* For any threads, messages and numbers of votes: whatever the threads do *)
(* to each other, a count is made of votes cast for its message, and with  *)
(* a lock around accept of all of them.                                    *)
(*                                                                         *)
(* What a thread has read is as old as its last step, so the bounds of     *)
(* WithinVotes must hold of it too (ReadsWithin); they do for good, as the *)
(* votes written only grow in number.                                      *)
(***************************************************************************)
EXTENDS VoteEngine, TLAPS

ReadsWithin ==
    \A t \in Threads : pc[t] = "read" =>
        /\ VoteOf[t].messageId \in DOMAIN counts
        /\ -downs[VoteOf[t].messageId] <= current[t]
        /\ current[t] <= ups[VoteOf[t].messageId]

VotedUpOnly(m) ==
    \A t \in Threads : VoteOf[t].messageId = m => VoteOf[t].isUpvote

NoneDown == \A m \in Messages : VotedUpOnly(m) => downs[m] = 0

VoteInv ==
    /\ TypeOK
    /\ WithinVotes
    /\ ReadsWithin
    /\ NoneDown
    /\ VotesShow

LEMMA VoteType ==
    ASSUME NEW t \in Threads
    PROVE  /\ VoteOf[t].messageId \in Messages
           /\ VoteOf[t].isUpvote \in BOOLEAN
           /\ Delta(t) = IF VoteOf[t].isUpvote THEN 1 ELSE -1
BY VotesAssumption DEF Delta

LEMMA VoteInitInvariant == Init => VoteInv
<1> SUFFICES ASSUME Init PROVE VoteInv
  OBVIOUS
<1>1. DOMAIN counts = {} /\ counts \in [DOMAIN counts -> Int]
  BY DEF Init
<1>2. TypeOK
  <2>1. left \in [Threads -> 0..Its] /\ current \in [Threads -> Int]
    BY VotesAssumption DEF Init
  <2>2. ups \in [Messages -> Nat] /\ downs \in [Messages -> Nat]
    BY DEF Init
  <2>3. /\ pc \in [Threads -> {"out", "inserting", "read"}]
        /\ broken \in BOOLEAN /\ locked \in BOOLEAN
        /\ \A t \in Threads : pc[t] = "out"
    BY DEF Init
  <2> QED BY <1>1, <2>1, <2>2, <2>3 DEF TypeOK
<1>3. WithinVotes /\ VotesShow
  BY <1>1 DEF WithinVotes, VotesShow
<1>4. ReadsWithin /\ NoneDown
  BY DEF Init, ReadsWithin, NoneDown
<1> QED BY <1>2, <1>3, <1>4 DEF VoteInv

LEMMA ReadInvariant ==
    ASSUME VoteInv, NEW t \in Threads, Read(t)
    PROVE  VoteInv'
<1> USE VoteType DEF VoteInv, Read, Enters
<1>1. TypeOK'
  BY DEF TypeOK
<1>2. WithinVotes' /\ NoneDown'
  BY DEF WithinVotes, NoneDown, VotedUpOnly
<1>3. ReadsWithin'
  BY DEF ReadsWithin, WithinVotes, TypeOK
<1>4. VotesShow'
  BY DEF VotesShow, TypeOK
<1> QED BY <1>1, <1>2, <1>3, <1>4

LEMMA BeginInsertInvariant ==
    ASSUME VoteInv, NEW t \in Threads, BeginInsert(t)
    PROVE  VoteInv'
<1> USE VoteType DEF VoteInv, BeginInsert, Enters
<1>1. TypeOK'
  BY DEF TypeOK
<1>2. WithinVotes' /\ NoneDown'
  BY DEF WithinVotes, NoneDown, VotedUpOnly
<1>3. ReadsWithin'
  BY DEF ReadsWithin, TypeOK
<1>4. VotesShow'
  BY DEF VotesShow, TypeOK
<1> QED BY <1>1, <1>2, <1>3, <1>4

LEMMA EndInsertInvariant ==
    ASSUME VoteInv, NEW t \in Threads, EndInsert(t)
    PROVE  VoteInv'
<1> USE VoteType DEF VoteInv, EndInsert
<1>1. TypeOK'
  BY DEF TypeOK
<1>2. WithinVotes' /\ NoneDown'
  BY DEF WithinVotes, NoneDown, VotedUpOnly, TypeOK
<1>3. ReadsWithin'
  BY DEF ReadsWithin, TypeOK
<1>4. VotesShow'
  BY DEF VotesShow, TypeOK
<1> QED BY <1>1, <1>2, <1>3, <1>4

LEMMA WriteInvariant ==
    ASSUME VoteInv, NEW t \in Threads, Write(t)
    PROVE  VoteInv'
<1> DEFINE m == VoteOf[t].messageId
<1>1. /\ m \in Messages
      /\ pc[t] = "read"
      /\ m \in DOMAIN counts
      /\ Result(t) \in Int
      /\ Result(t) = current[t] + Delta(t)
      /\ Delta(t) = IF VoteOf[t].isUpvote THEN 1 ELSE -1
      /\ current[t] \in Int
      /\ -downs[m] <= current[t]
      /\ current[t] <= ups[m]
  BY VoteType DEF VoteInv, TypeOK, ReadsWithin, Write, Result
<1>2. /\ counts' = [counts EXCEPT ![m] = Result(t)]
      /\ pc' = [pc EXCEPT ![t] = "out"]
      /\ left' = [left EXCEPT ![t] = left[t] - 1]
      /\ ups' = [ups EXCEPT ![m] = IF VoteOf[t].isUpvote THEN ups[m] + 1 ELSE ups[m]]
      /\ downs' = [downs EXCEPT ![m] =
                     IF VoteOf[t].isUpvote THEN downs[m] ELSE downs[m] + 1]
      /\ UNCHANGED <<current, broken, locked>>
  BY DEF Write
<1>3. TypeOK
  BY DEF VoteInv
<1> HIDE DEF m
<1>4. TypeOK'
  <2>1. left' \in [Threads -> 0..Its]
    BY <1>1, <1>2, <1>3, VotesAssumption DEF TypeOK
  <2>2. /\ pc' \in [Threads -> {"out", "inserting", "read"}]
        /\ \A u \in Threads : pc'[u] # "out" => left'[u] > 0
    BY <1>1, <1>2, <1>3 DEF TypeOK
  <2>3. /\ ups' \in [Messages -> Nat]
        /\ downs' \in [Messages -> Nat]
    BY <1>1, <1>2, <1>3 DEF TypeOK
  <2>4. /\ DOMAIN counts' \subseteq Messages
        /\ counts' \in [DOMAIN counts' -> Int]
    BY <1>1, <1>2, <1>3 DEF TypeOK
  <2> QED BY <1>2, <1>3, <2>1, <2>2, <2>3, <2>4 DEF TypeOK
<1>5. \A k \in Messages : /\ ups[k] <= ups'[k]
                          /\ downs[k] <= downs'[k]
                          /\ ups[k] \in Nat /\ ups'[k] \in Nat
                          /\ downs[k] \in Nat /\ downs'[k] \in Nat
  BY <1>1, <1>2, <1>3, <1>4 DEF TypeOK
<1>6. WithinVotes'
  <2> SUFFICES ASSUME NEW k \in DOMAIN counts
               PROVE  -downs'[k] <= counts'[k] /\ counts'[k] <= ups'[k]
    BY <1>2 DEF WithinVotes
  <2>1. k \in Messages /\ counts[k] \in Int
    BY <1>3 DEF TypeOK
  <2>2. CASE k = m
    BY <1>1, <1>2, <1>3, <1>5, <2>1, <2>2 DEF TypeOK
  <2>3. CASE k # m
    BY <1>2, <1>5, <2>1, <2>3 DEF VoteInv, WithinVotes
  <2> QED BY <2>2, <2>3
<1>7. ReadsWithin'
  <2> SUFFICES ASSUME NEW u \in Threads, pc'[u] = "read"
               PROVE  /\ VoteOf[u].messageId \in DOMAIN counts'
                      /\ -downs'[VoteOf[u].messageId] <= current'[u]
                      /\ current'[u] <= ups'[VoteOf[u].messageId]
    BY DEF ReadsWithin
  <2>1. pc[u] = "read" /\ current'[u] = current[u] /\ current[u] \in Int
    BY <1>2, <1>3 DEF TypeOK
  <2>2. VoteOf[u].messageId \in Messages
    BY VoteType
  <2> QED BY <1>2, <1>5, <2>1, <2>2 DEF VoteInv, ReadsWithin
<1>8. NoneDown'
  BY <1>1, <1>2, <1>3 DEF VoteInv, NoneDown, VotedUpOnly, TypeOK, m
<1>9. VotesShow'
  <2> SUFFICES ASSUME NEW k \in DOMAIN counts, VotedUpOnly(k)
               PROVE  \/ counts'[k] >= 1
                      \/ \E u \in Threads : VoteOf[u].messageId = k /\ pc'[u] # "out"
    BY <1>2 DEF VotesShow, VotedUpOnly
  <2>1. CASE k = m
    <3>1. downs[m] = 0 /\ VoteOf[t].isUpvote
      BY <1>1, <2>1 DEF VoteInv, NoneDown, VotedUpOnly, m
    <3> QED BY <1>1, <1>2, <1>3, <2>1, <3>1 DEF TypeOK
  <2>2. CASE k # m
    <3>1. counts'[k] = counts[k]
      BY <1>2, <2>2
    <3>2. CASE counts[k] >= 1
      BY <3>1, <3>2
    <3>3. ASSUME NEW u \in Threads, VoteOf[u].messageId = k, pc[u] # "out"
          PROVE  pc'[u] # "out"
      BY <1>2, <1>3, <2>2, <3>3 DEF TypeOK, m
    <3> QED BY <3>2, <3>3 DEF VoteInv, VotesShow, VotedUpOnly
  <2> QED BY <2>1, <2>2
<1> QED BY <1>4, <1>6, <1>7, <1>8, <1>9 DEF VoteInv

LEMMA VoteNextInvariant == VoteInv /\ [Next]_vars => VoteInv'
<1> SUFFICES ASSUME VoteInv, [Next]_vars PROVE VoteInv'
  OBVIOUS
<1>1. ASSUME NEW t \in Threads, Break(t)
      PROVE  VoteInv'
  BY <1>1 DEF Break, VoteInv, TypeOK, WithinVotes, ReadsWithin, NoneDown, VotesShow,
              VotedUpOnly
<1>2. CASE UNCHANGED vars
  BY <1>2 DEF vars, VoteInv, TypeOK, WithinVotes, ReadsWithin, NoneDown, VotesShow,
              VotedUpOnly
<1> QED
  BY <1>1, <1>2, ReadInvariant, BeginInsertInvariant, EndInsertInvariant,
     WriteInvariant DEF Next, accept, Ended

\* The inductive invariant of the unlocked engine.
THEOREM VoteInvariance == Spec => []VoteInv
BY VoteInitInvariant, VoteNextInvariant, PTL DEF Spec

\* Through every interleaving of votes the counts, and what each thread remembers
\* in accept, keep their types; no thread votes more often than it has votes.
THEOREM VoteTypeCorrectness == Spec => []TypeOK
  BY VoteInvariance, PTL DEF VoteInv

\* No vote counts twice or for another message, in any interleaving.
THEOREM NoVoteCountsTwice == Spec => []WithinVotes
BY VoteInvariance, PTL DEF VoteInv

\* The last of several racing upvotes is never lost.
THEOREM LastVoteShows == Spec => []VotesShow
BY VoteInvariance, PTL DEF VoteInv
-----------------------------------------------------------------------------
(* With the lock.                                                          *)

OneInside == \A t, u \in Threads : pc[t] # "out" /\ pc[u] # "out" => t = u

Fresh ==
    \A t \in Threads :
        /\ pc[t] = "read" => current[t] = counts[VoteOf[t].messageId]
        /\ pc[t] = "inserting" => VoteOf[t].messageId \notin DOMAIN counts

AllCounted ==
    /\ \A m \in DOMAIN counts : counts[m] = ups[m] - downs[m]
    /\ \A m \in Messages \ DOMAIN counts : ups[m] = 0 /\ downs[m] = 0

Serial == ~broken /\ OneInside /\ Fresh /\ AllCounted

LockedInv == VoteInv /\ (locked => Serial)

LEMMA LockedInitInvariant == Init => LockedInv
BY VoteInitInvariant DEF Init, LockedInv, Serial, OneInside, Fresh, AllCounted

LEMMA LockedStep ==
    ASSUME VoteInv, Serial, locked, NEW t \in Threads, accept(t)
    PROVE  Serial'
<1>1. TypeOK /\ VoteOf[t].messageId \in Messages
  BY VoteType DEF VoteInv
<1>2. CASE Read(t)
  BY <1>1, <1>2 DEF Read, Enters, Serial, OneInside, Fresh, AllCounted, TypeOK
<1>3. CASE BeginInsert(t)
  BY <1>1, <1>3 DEF BeginInsert, Enters, Serial, OneInside, Fresh, AllCounted, TypeOK
<1>4. CASE EndInsert(t)
  BY <1>1, <1>4 DEF EndInsert, Serial, OneInside, Fresh, AllCounted, TypeOK
<1>5. CASE Write(t)
  <2> DEFINE m == VoteOf[t].messageId
  <2>1. /\ m \in DOMAIN counts
        /\ current[t] = ups[m] - downs[m]
        /\ ups[m] \in Nat /\ downs[m] \in Nat
        /\ Result(t) = current[t] + (IF VoteOf[t].isUpvote THEN 1 ELSE -1)
    BY <1>1, <1>5, VoteType
       DEF Write, Result, VoteInv, Serial, ReadsWithin, Fresh, AllCounted, TypeOK
  <2>2. /\ counts' = [counts EXCEPT ![m] = Result(t)]
        /\ pc' = [pc EXCEPT ![t] = "out"]
        /\ ups' = [ups EXCEPT ![m] = IF VoteOf[t].isUpvote THEN ups[m] + 1 ELSE ups[m]]
        /\ downs' = [downs EXCEPT ![m] =
                       IF VoteOf[t].isUpvote THEN downs[m] ELSE downs[m] + 1]
        /\ ~broken'
    BY <1>5 DEF Write
  <2>3. \A u \in Threads \ {t} : pc[u] = "out"
    BY <1>5 DEF Write, Serial, OneInside
  <2> HIDE DEF m
  <2>4. \A u \in Threads : pc'[u] = "out"
    BY <1>1, <2>2, <2>3 DEF TypeOK
  <2>5. AllCounted'
    BY <1>1, <2>1, <2>2 DEF Serial, AllCounted, TypeOK
  <2> QED BY <2>2, <2>4, <2>5 DEF Serial, OneInside, Fresh
<1>6. ~Break(t)
  BY DEF Break, Race, Enters, Serial, OneInside
<1> QED BY <1>2, <1>3, <1>4, <1>5, <1>6 DEF accept

LEMMA LockedNextInvariant == LockedInv /\ [Next]_vars => LockedInv'
<1> SUFFICES ASSUME LockedInv, [Next]_vars PROVE LockedInv'
  OBVIOUS
<1>1. VoteInv' /\ locked' = locked
  BY VoteNextInvariant
     DEF LockedInv, Next, accept, Read, BeginInsert, EndInsert, Write, Break, Ended, vars
<1>2. CASE UNCHANGED vars
  BY <1>1, <1>2 DEF vars, LockedInv, Serial, OneInside, Fresh, AllCounted
<1> QED BY <1>1, <1>2, LockedStep DEF LockedInv, Next, Ended

\* A lock around accept is all it takes: the map stays whole and no vote is lost.
THEOREM LockSuffices == Spec => []LockKeepsVotes
<1>1. LockedInv => LockKeepsVotes
  BY DEF LockedInv, Serial, AllCounted, NoVoteLost, LockKeepsVotes
<1> QED BY <1>1, LockedInitInvariant, LockedNextInvariant, PTL DEF Spec

-----------------------------------------------------------------------------
(* The threads run out of steps.                                           *)

\* The steps a thread has yet to take, at most.
StepsLeft(t) ==
    3 * left[t] - (IF pc[t] = "out" THEN 0 ELSE IF pc[t] = "inserting" THEN 1 ELSE 2)

OneStepFewer ==
    \/ broken'
    \/ \E t \in Threads : /\ StepsLeft(t)' < StepsLeft(t)
                          /\ \A u \in Threads \ {t} : StepsLeft(u)' = StepsLeft(u)

LEMMA StepsLeftType ==
    ASSUME VoteInv, NEW t \in Threads
    PROVE  StepsLeft(t) \in Nat
<1>1. left[t] \in Nat /\ (pc[t] # "out" => left[t] > 0)
  BY VotesAssumption DEF VoteInv, TypeOK
<1> QED BY <1>1 DEF StepsLeft

LEMMA AcceptTakesAStep ==
    ASSUME VoteInv, NEW t \in Threads, accept(t)
    PROVE  OneStepFewer
<1>1. /\ left[t] \in Int
      /\ pc \in [Threads -> {"out", "inserting", "read"}]
      /\ left \in [Threads -> 0..Its]
  BY VotesAssumption DEF VoteInv, TypeOK
<1>2. CASE Read(t)
  BY <1>1, <1>2 DEF Read, Enters, OneStepFewer, StepsLeft
<1>3. CASE BeginInsert(t)
  BY <1>1, <1>3 DEF BeginInsert, Enters, OneStepFewer, StepsLeft
<1>4. CASE EndInsert(t)
  BY <1>1, <1>4 DEF EndInsert, OneStepFewer, StepsLeft
<1>5. CASE Write(t)
  <2>1. /\ pc[t] = "read"
        /\ pc' = [pc EXCEPT ![t] = "out"]
        /\ left' = [left EXCEPT ![t] = left[t] - 1]
    BY <1>5 DEF Write
  <2> QED BY <1>1, <2>1 DEF OneStepFewer, StepsLeft
<1>6. CASE Break(t)
  BY <1>6 DEF Break, OneStepFewer
<1> QED BY <1>2, <1>3, <1>4, <1>5, <1>6 DEF accept

\* However the threads are interleaved, with the lock or without, each step uses up
\* one of finitely many of the thread that takes it and of no other, unless a race
\* breaks the map: accept never starts over.
THEOREM VotersRunOut ==
    Spec => [](\A t \in Threads : StepsLeft(t) \in Nat) /\ [][OneStepFewer]_vars
<1>1. VoteInv => \A t \in Threads : StepsLeft(t) \in Nat
  BY StepsLeftType
<1>2. VoteInv /\ [Next]_vars => [OneStepFewer]_vars
  BY AcceptTakesAStep DEF Next, Ended
<1> QED BY <1>1, <1>2, VoteInvariance, PTL DEF Spec

==============================================================================
