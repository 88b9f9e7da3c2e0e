-------------------------------- MODULE TextFile --------------------------------
(***************************************************************************)
(* Text files as sequences of lines, for the modules that write and read   *)
(* them.  The writer of a file may be stopped anywhere: the last line may  *)
(* be a part of what was to be written.                                    *)
(***************************************************************************)
EXTENDS Naturals, Sequences

WholeLine == [text : STRING, part : {FALSE}]

Line(text) == [text |-> text, part |-> FALSE]

Blank == Line("")

\* What writing these lines can leave of them when it stops early.
CutsOf(lines) ==
    {SubSeq(lines, 1, n) : n \in 0..Len(lines)}
      \cup {Append(SubSeq(lines, 1, n - 1), [lines[n] EXCEPT !.part = TRUE]) :
              n \in {i \in DOMAIN lines : lines[i] # Blank}}

==============================================================================
