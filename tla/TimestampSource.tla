----------------------------- MODULE TimestampSource -----------------------------
(***************************************************************************)
(* TimestampSource: the day a scan takes place.  now() gives the system's  *)
(* day, unless days were queued beforehand: then it gives the first of     *)
(* them and drops it.  The queue is static, shared by all who ask.         *)
(***************************************************************************)
EXTENDS LibraryData

VARIABLES
    storedTimes,        \* TimestampSource::mStoredTimes
    today               \* day_clock::local_day()

clock == <<storedTimes, today>>

ClockTypeOK ==
    /\ storedTimes \in Seq(Days)
    /\ today \in Days

ClockInit ==
    /\ storedTimes = <<>>
    /\ today \in Days

IsExhausted == storedTimes = <<>>

ClockDay == IF IsExhausted THEN today ELSE Head(storedTimes)

\* slip: the front of the queue taken and not dropped
NowAgain(d) ==
    /\ d = ClockDay
    /\ UNCHANGED clock

\* now() returns d
Now(d) ==
    /\ d = ClockDay
    /\ storedTimes' = IF IsExhausted THEN storedTimes ELSE Tail(storedTimes)
    /\ UNCHANGED today

QueueNextTime(d) ==
    /\ storedTimes' = Append(storedTimes, d)
    /\ UNCHANGED today

ClearQueue ==
    /\ storedTimes' = <<>>
    /\ UNCHANGED today

Midnight ==
    /\ \E d \in Days : d > today /\ today' = d
    /\ UNCHANGED storedTimes

==============================================================================
