------------------------------ MODULE MCReader ------------------------------
(***************************************************************************)
(* The parts of CommitReader, each small enough for TLC, and beside them   *)
(*   endings   the check for changed line endings                          *)
(*   lines     the parser of rendered diffs                                *)
(* A commit has either any entries and no imports, or Python files only.   *)
(***************************************************************************)
EXTENDS CommitReader, CommitEntries, Sequences, TLC

CONSTANTS obj1, obj2, obj3, pack1, pack2

VARIABLES
  imports,   \* which of the two a commit has
  old, new, verdict,
  diff, parse, at, oldLine, newLine, oldLeft, newLeft, lines

endingVars == <<old, new, verdict>>
lineVars   == <<diff, parse, at, oldLine, newLine, oldLeft, newLeft, lines>>

\* Limits that are no multiple of what one read asks for.
Limits == ("out" :> 3) @@ ("err" :> 1)
\* Three objects in two directories, one of them packed, one not yet there.
TwoDirs == <<"00", "ff">>
DirOf == (obj1 :> "00") @@ (obj2 :> "ff") @@ (obj3 :> "00")
TwoPacks == <<pack1, pack2>>
OnePacked == (pack1 :> {obj2}) @@ (pack2 :> {})
AnyEntries == ChangedEntries \cup {Added}
ThreeFiles == <<"a.py", "b.py", "c.py">>
Ending == INSTANCE LineEndings WITH
  Contents <- {"a", "b"}, Endings <- {"LF", "CRLF", "CR"}, Separators <- {}, MaxLines <- 3
Line == INSTANCE DiffLines WITH
  pc <- parse, old <- oldLine, new <- newLine,
  MaxSkip <- 1, MaxLines <- 2, MaxHunks <- 2, JoiningSecrets <- FALSE

ASSUME PartAssumptions ==
  /\ CopyAssumption /\ CommitAssumption
  /\ Ending!EndingAssumption /\ Line!BoundAssumption

IdleEndings == old = 0 /\ new = 0 /\ verdict = 0
IdleLines ==
  /\ diff = 0 /\ parse = "idle" /\ at = 0 /\ oldLine = 0 /\ newLine = 0 /\ oldLeft = 0
  /\ newLeft = 0 /\ lines = 0
IdleReader == IdleCapture /\ IdleObjects /\ IdleCommit

PartsInit ==
  \/ /\ ReaderInit /\ IdleEndings /\ IdleLines
     /\ imports \in IF which = "commit" THEN BOOLEAN ELSE {FALSE}
     /\ which = "commit" /\ ~imports => tree = {}
  \/ which = "endings" /\ Ending!Init /\ IdleReader /\ IdleLines /\ imports = FALSE
  \/ which = "lines" /\ Line!Init /\ IdleReader /\ IdleEndings /\ imports = FALSE

\* The next step reads an entry or an import that such a commit has.
Small ==
  which = "commit" =>
    IF imports THEN Len(files') > Len(files) => Commit!ReadEntry(Added) ELSE asked' = {}

PartsNext ==
  /\ UNCHANGED imports
  /\ \/ ReaderNext /\ Small /\ UNCHANGED <<endingVars, lineVars>>
     \/ /\ which = "endings" /\ Ending!Next
        /\ UNCHANGED <<which, readerPartVars, lineVars>>
     \/ /\ which = "lines" /\ Line!Next
        /\ UNCHANGED <<which, readerPartVars, endingVars>>

\* The fairness of GitCapture.
PartsSpec ==
  /\ PartsInit
  /\ [][PartsNext]_<<which, imports, readerPartVars, endingVars, lineVars>>
  /\ WF_vars(which = "git" /\ GitExits("killed"))
  /\ \A s \in Streams : WF_vars(which = "git" /\ Read(s))
  /\ WF_vars(which = "git" /\ Caller)

-----------------------------------------------------------------------------
\* A call of a git that leaves nothing behind returns.
CallReturns == which = "git" => CaptureReturnsAlone

\* A complete diff determines the new text byte for byte, and a change within one
\* kind of line ending is shown completely.  A line the parser of diffs yields is
\* the line of that side and number, and no line of the part that is shown is lost.
DiffsAreTrue ==
  /\ which = "endings" => Ending!EndingsDetermined /\ Ending!QuietWhenUniform
  /\ which = "lines" => Line!LinesAreTrue /\ Line!NothingSkipped
=============================================================================
