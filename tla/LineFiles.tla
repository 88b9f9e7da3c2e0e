-------------------------------- MODULE LineFiles --------------------------------
(***************************************************************************)
(* Branches in a file: VectorWriter::writeAll puts each field of each on a *)
(* line of its own, VectorReader::load reads them back three lines at a    *)
(* time for as long as the stream allows.  Nobody looks at the state of    *)
(* the output stream, so a writer that cannot open the file, or is stopped *)
(* by a full disk, returns like one that is done; it may also be stopped   *)
(* with the program.  What is in the file is all that the next reader      *)
(* knows.                                                                  *)
(*                                                                         *)
(* A field is a sequence of lines: more than one if it has line breaks.     *)
(***************************************************************************)
EXTENDS TextFile

CONSTANTS
    Shelves,    \* the vectors of branches that are written
    Saves       \* how often at most

Field == Seq(WholeLine) \ {<<>>}

ASSUME SavesAssumption == Saves \in Nat
ASSUME ShelvesAssumption == Shelves \subseteq Seq([id : Field, name : Field, address : Field])

VARIABLES
    file,
    phase,      \* what the program is doing with it
    queue,      \* the branches writeAll has yet to write
    stream,     \* the state of load's ifstream
    rest,       \* the lines it has yet to read
    objects,    \* load's result
    written,    \* history: the branches the file was last opened to hold
    whole,      \* history: it holds them all
    saves       \* the calls of writeAll yet to come

filesVars == <<file, phase, queue, stream, rest, objects, written, whole, saves>>

FilesInit ==
    /\ file = <<>>
    /\ phase = "idle"
    /\ queue = <<>>
    /\ stream = "unopened"
    /\ rest = <<>>
    /\ objects = <<>>
    /\ written = <<>>
    /\ whole = TRUE
    /\ saves \in 0..Saves

Free == phase \in {"idle", "loaded"}

\* Slip: the stream appends.
OpenedAppending == file

\* What an ofstream makes of the file when it opens it.
Opened == <<>>

OpenOutput(branches) ==
    /\ Free
    /\ saves > 0
    /\ saves' = saves - 1
    /\ file' = Opened
    /\ phase' = "writing"
    /\ queue' = branches
    /\ written' = branches
    /\ whole' = FALSE
    /\ UNCHANGED <<stream, rest, objects>>

OutputFails ==
    /\ Free
    /\ saves > 0
    /\ saves' = saves - 1
    /\ UNCHANGED <<file, phase, queue, stream, rest, objects, written, whole>>

LinesOf(b) == b.id \o b.name \o b.address

WriteOn ==
    /\ phase = "writing"
    /\ queue # <<>>
    /\ file' = file \o LinesOf(Head(queue))
    /\ queue' = Tail(queue)
    /\ UNCHANGED <<phase, stream, rest, objects, written, whole, saves>>

\* Slip: the stream is closed inside the loop.
CloseOutputEarly ==
    /\ phase = "writing"
    /\ phase' = "idle"
    /\ whole' = TRUE
    /\ UNCHANGED <<file, queue, stream, rest, objects, written, saves>>

CloseOutput ==
    /\ phase = "writing"
    /\ queue = <<>>
    /\ phase' = "idle"
    /\ whole' = TRUE
    /\ UNCHANGED <<file, queue, stream, rest, objects, written, saves>>

\* The disk is full, or the program ends.
StopWriting ==
    /\ phase = "writing"
    /\ queue # <<>>
    /\ \E lines \in CutsOf(LinesOf(Head(queue))) : file' = file \o lines
    /\ phase' = "idle"
    /\ queue' = <<>>
    /\ UNCHANGED <<stream, rest, objects, written, whole, saves>>

OpenInput ==
    /\ Free
    /\ phase' = "reading"
    /\ stream' \in {"good", "unopened"}
    /\ rest' = IF stream' = "good" THEN file ELSE <<>>
    /\ objects' = <<>>
    /\ UNCHANGED <<file, queue, written, whole, saves>>

\* Slip: the loop waits for the end of a file that was never opened.
MoreUntilEnd == stream # "ended"

\* while (mStream)
More == stream = "good"

\* What getline makes of the i-th of these lines, if it is not there.
Read(lines, i) == IF i <= Len(lines) THEN lines[i] ELSE Blank

Branch(lines) ==
    [id |-> <<Read(lines, 1)>>, name |-> <<Read(lines, 2)>>,
     address |-> <<Read(lines, 3)>>]

Kept(b) == b.id # <<Blank>>

\* if (object.id() != "") objects.push_back(object)
PushBack(branches, b) == IF Kept(b) THEN Append(branches, b) ELSE branches

LoadBranch ==
    /\ phase = "reading"
    /\ More
    /\ objects' = PushBack(objects, Branch(rest))
    /\ stream' = IF stream = "good" /\ Len(rest) < 3 THEN "ended" ELSE stream
    /\ rest' = SubSeq(rest, 4, Len(rest))
    /\ UNCHANGED <<file, phase, queue, written, whole, saves>>

CloseInput ==
    /\ phase = "reading"
    /\ ~More
    /\ phase' = "loaded"
    /\ UNCHANGED <<file, queue, stream, rest, objects, written, whole, saves>>

FilesNext ==
    \/ \E branches \in Shelves : OpenOutput(branches)
    \/ OutputFails
    \/ WriteOn
    \/ CloseOutput
    \/ StopWriting
    \/ OpenInput
    \/ LoadBranch
    \/ CloseInput

FilesSpec == FilesInit /\ [][FilesNext]_filesVars

\* load is a loop that nothing suspends.
LoaderRuns == WF_filesVars(LoadBranch \/ CloseInput)

-----------------------------------------------------------------------------

FilesTypeOK ==
    /\ \A i \in DOMAIN file : file[i] \in [text : STRING, part : BOOLEAN]
    /\ phase \in {"idle", "writing", "reading", "loaded"}
    /\ stream \in {"unopened", "good", "ended"}
    /\ queue # <<>> => phase = "writing"
    /\ rest # <<>> => phase = "reading" /\ stream = "good"
    /\ Len(rest) <= Len(file)
    /\ saves \in 0..Saves

Plain(b) == Len(b.id) = 1 /\ Len(b.name) = 1 /\ Len(b.address) = 1

\* What load can make of a branch whose last lines are missing or cut: fields are
\* as written, then at most one is in part, then all are empty.
Remains(b) == {Branch(lines) : lines \in CutsOf(LinesOf(b))}

\* The branches with an id among the first so many of these.
KeptAmong(branches) ==
    LET kept[i \in 0..Len(branches)] ==
          IF i = 0 THEN <<>> ELSE PushBack(kept[i-1], branches[i])
    IN  kept

\* VectorReaderTest's CanRead, and what it does not test: a load returns the branches
\* last written in their order, without those that have no id, and without the
\* last ones if the writer was stopped; at most one is in part, and that is the
\* last one loaded.  Only branches with line breaks in a field may be read as others.
LoadsWhatWasWritten ==
    LET expected == KeptAmong(written)[Len(written)]
        n        == Len(objects)
    IN  phase = "loaded" /\ (\A i \in DOMAIN written : Plain(written[i]))
          => /\ n <= Len(expected)
             /\ \A i \in 1..(n - 1) : objects[i] = expected[i]
             /\ n > 0 => objects[n] \in Remains(expected[n])
             /\ whole /\ stream # "unopened" => objects = expected

\* Whatever is in the file, and if there is none, the loop ends.
LoadEnds == phase = "reading" ~> phase = "loaded"

==============================================================================
