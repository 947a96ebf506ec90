---------------------------- MODULE CommitEntries ----------------------------
(* What GitCommitReader.read may find in an entry of a commit's raw diff.    *)
EXTENDS Naturals

\* What one side of an entry may be.
Missing == [type |-> "none", big |-> FALSE, binary |-> FALSE, utf8 |-> TRUE]
Gitlink == [Missing EXCEPT !.type = "commit"]
Text    == [Missing EXCEPT !.type = "blob"]
Big     == [Text EXCEPT !.big = TRUE]
Binary  == [Text EXCEPT !.binary = TRUE]
Latin   == [Text EXCEPT !.utf8 = FALSE]

\* A changed entry: its two sides; the changed lines of text that a line diff
\* shows, whether one of them is a secret or an instruction to the reviewer;
\* whether line endings or the mode change.
Blobs == {Text, Big, Binary, Latin}
EntryRecords ==
  [old : Blobs \cup {Gitlink, Missing}, new : Blobs \cup {Gitlink, Missing},
   text : Nat, eol : BOOLEAN, secret : BOOLEAN,
   instruction : {"none", "comment", "inline", "bare"}, mode : BOOLEAN, python : BOOLEAN]

\* Something is on one side.  Endings change where there is text, a mode where
\* there are two sides.
Possible(e) ==
  /\ {e.old, e.new} # {Missing}
  /\ e.secret \/ e.instruction # "none" => e.text > 0
  /\ e.text > 0 \/ e.eol => {e.old, e.new} \subseteq {Text, Latin, Missing}
  /\ e.mode => Missing \notin {e.old, e.new}
\* Entries that are not in Python, one by one.
AllEntries ==
  {[old |-> p[1], new |-> p[2], text |-> t, eol |-> eol, secret |-> secret,
    instruction |-> i, mode |-> mode, python |-> FALSE] :
     p \in (Blobs \cup {Gitlink, Missing}) \X (Blobs \cup {Gitlink, Missing}), t \in {0, 1, 3},
     eol \in BOOLEAN, secret \in BOOLEAN, mode \in BOOLEAN,
     i \in {"none", "comment", "inline", "bare"}}
ChangedEntries == {e \in AllEntries : Possible(e)}
\* A Python file that is added.
Added == [old |-> Missing, new |-> Text, text |-> 1, eol |-> FALSE, secret |-> FALSE,
          instruction |-> "none", mode |-> FALSE, python |-> TRUE]
=============================================================================
