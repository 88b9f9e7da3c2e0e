------------------------------- MODULE FileReport -------------------------------
(***************************************************************************)
(* FileReport: a report is what local.txt holds after ftpGet, whose Get    *)
(* may fail unnoticed.  FtpXfer opens local.txt, which empties it, before  *)
(* it asks the server for robots.txt, and may stop anywhere in the file.   *)
(* The program may end in between; local.txt stays.                        *)
(***************************************************************************)
EXTENDS TextFile

CONSTANT Versions   \* the lines of robots.txt, one version after the other

ASSUME VersionsAssumption == Versions \in Seq(Seq(WholeLine))

VARIABLES
    served,     \* the version of robots.txt on the server
    local,      \* local.txt
    got,        \* ftpGet is done, load is not
    report      \* the lines of the report made last, name and text

reportVars == <<served, local, got, report>>

ReportInit ==
    /\ served \in DOMAIN Versions
    /\ local = <<>>
    /\ got = FALSE
    /\ report = <<>>

Publish ==
    /\ served + 1 \in DOMAIN Versions
    /\ served' = served + 1
    /\ UNCHANGED <<local, got, report>>

\* Slip: local.txt is opened to append.
TransferredAfter == {local \o lines : lines \in CutsOf(Versions[served])}

\* What is in local.txt once it could be opened: nothing if robots.txt cannot be
\* had, all of it, or as much as came.
Transferred == CutsOf(Versions[served])

\* Get, and Quit: the connection and the log-in succeeded.  Otherwise the
\* constructor throws before it, and nothing has changed.
ftpGet ==
    /\ ~got
    /\ local' \in {local} \cup Transferred
    /\ got' = TRUE
    /\ UNCHANGED <<served, report>>

\* The program ends between the two.
Restart ==
    /\ got
    /\ got' = FALSE
    /\ report' = <<>>
    /\ UNCHANGED <<served, local>>

\* The first line is the name, an empty one if there is none, and the others are
\* the text; a file that cannot be opened is read as an empty one.
load ==
    /\ got
    /\ \E lines \in {local, <<>>} :
         report' = IF lines = <<>> THEN <<Blank>> ELSE lines
    /\ got' = FALSE
    /\ UNCHANGED <<served, local>>

ReportNext == Publish \/ ftpGet \/ Restart \/ load

ReportSpec == ReportInit /\ [][ReportNext]_reportVars

-----------------------------------------------------------------------------

\* However many gets failed, were cut or were left by a program that ended, a
\* report shows the beginning of one version that was on the server, or is empty:
\* never the lines of two.
OneVersion ==
    \A lines \in {local, report} :
        lines = <<Blank>> \/ \E v \in 1..served : lines \in CutsOf(Versions[v])

==============================================================================
