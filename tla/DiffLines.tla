------------------------------ MODULE DiffLines ------------------------------
(***************************************************************************)
(* How a finding gets its line: the diff of a file, rendered, redacted and *)
(* cut, is parsed back into changed lines with their sides and numbers     *)
(* (_parsed_diff_lines), and only these can be evidence.                   *)
(*                                                                         *)
(* A source line is known by its place in the edit script.  An entry of    *)
(* the diff is a hunk's header, a line that carries a sign, or text that   *)
(* is neither.                                                             *)
(***************************************************************************)
EXTENDS Integers, Sequences, SequencesExt, FiniteSets, FiniteSetsExt

CONSTANTS
  MaxSkip,       \* bound: unchanged lines not shown before a hunk
  MaxLines,      \* bound: lines of a hunk
  MaxHunks,      \* bound: hunks of a diff
  JoiningSecrets \* whether a secret may take several lines of the diff

BoundAssumption ==
  MaxSkip \in Nat /\ MaxLines \in Nat \ {0} /\ MaxHunks \in Nat \ {0}
  /\ JoiningSecrets \in BOOLEAN

VARIABLES
  diff,    \* what is rendered, redacted and cut
  pc, at,  \* where the parser is
  old, new, oldLeft, newLeft,   \* its counters; NotInHunk
  lines    \* what it yielded: [side, old, new, of]
vars == <<diff, pc, at, old, new, oldLeft, newLeft, lines>>
parser == <<old, new, oldLeft, newLeft, lines>>

NotInHunk == -1
Signs == {"added", "removed", "context"}
Old(ops) == Len(SelectSeq(ops, LAMBDA o : o # "added"))
New(ops) == Len(SelectSeq(ops, LAMBDA o : o # "removed"))

-----------------------------------------------------------------------------
(* Rendering *)

\* A hunk's start counts from one, or is the line before when it has no lines
\* of that side; a count of one is left out.
NoCount == -1
Count(n) == IF n = 1 THEN NoCount ELSE n
Header(o, n, ops) ==
  [kind |-> "hunk",
   old |-> IF Old(ops) = 0 THEN o - 1 ELSE o, oldCount |-> Count(Old(ops)),
   new |-> IF New(ops) = 0 THEN n - 1 ELSE n, newCount |-> Count(New(ops))]

\* The lines of one hunk whose first lines are o and n.
Numbered(o, n, ops) ==
  [i \in DOMAIN ops |->
     [side |-> ops[i], old |-> o + Old(SubSeq(ops, 1, i - 1)),
      new |-> n + New(SubSeq(ops, 1, i - 1))]]
Shown(o, n, ops) ==
  <<Header(o, n, ops)>> \o
  [i \in DOMAIN ops |-> [kind |-> "line", side |-> ops[i], of |-> Numbered(o, n, ops)[i]]]

Other == [kind |-> "other"]
\* _mode_change_diff, and the end of _unified_diff: what is said of the file's
\* metadata is a hunk that adds a first line.
Metadata == Shown(1, 1, <<"added">>)

Scripts == {s \in UNION {[1 .. n -> Signs] : n \in 1 .. MaxLines} : \E i \in DOMAIN s : s[i] # "context"}

\* difflib.unified_diff: hunks with unchanged lines between them, which move
\* the two versions by what the hunk before added and removed.
RECURSIVE Hunks(_, _, _)
Hunks(o, n, edits) ==
  IF edits = <<>> THEN <<>>
  ELSE LET e == Head(edits)
           first == Shown(o + e.skip, n + e.skip, e.ops)
       IN  first \o Hunks(o + e.skip + Old(e.ops), n + e.skip + New(e.ops), Tail(edits))

Edits == {e \in UNION {[1 .. k -> [skip : 0 .. MaxSkip, ops : Scripts]] : k \in 1 .. MaxHunks} :
            \A i \in 2 .. Len(e) : e[i].skip > 0}

\* The mode change, the file names, the hunks, the change of line endings.
Rendered(edits, mode, endings) ==
  (IF mode THEN <<Other>> \o Metadata ELSE <<>>) \o <<Other>> \o Hunks(1, 1, edits)
  \o (IF endings THEN Metadata ELSE <<>>)

\* redact_text: a secret that ends on a later line takes the lines' ends with
\* it.  What is left has the sign of the first line.
Redacted(d, i, j) == SubSeq(d, 1, i) \o SubSeq(d, j + 1, Len(d))

\* rendered[:remaining] and the notice: what is left of the entry that is cut
\* has its sign or nothing.
Cut(d, n, whole) == SubSeq(d, 1, n) \o (IF whole THEN <<>> ELSE <<Other>>) \o <<Other>>

Init ==
  /\ \E edits \in Edits, mode, endings \in BOOLEAN :
       LET d == Rendered(edits, mode, endings)
           joined == IF JoiningSecrets
                     THEN {Redacted(d, p[1], p[2]) :
                             p \in {q \in (1 .. Len(d)) \X (1 .. Len(d)) :
                                      q[1] < q[2] /\ d[q[1]].kind = "line"}}
                     ELSE {}
       IN  diff \in {d} \cup joined
                     \cup {Cut(d, n, w) : n \in 0 .. Len(d), w \in BOOLEAN}
  /\ pc = "parse" /\ at = 1
  /\ old = NotInHunk /\ new = NotInHunk /\ oldLeft = 0 /\ newLeft = 0
  /\ lines = {}

-----------------------------------------------------------------------------
(* _parsed_diff_lines *)

\* A count that is left out is one.
Counted(c) == IF c = NoCount THEN 1 ELSE c

NextLine == pc = "parse" /\ at <= Len(diff) /\ at' = at + 1 /\ UNCHANGED <<diff, pc>>
Now == diff[at]
Yield == lines' = lines \cup {[side |-> Now.side, old |-> old, new |-> new, of |-> Now.of]}

ParseHeader ==
  /\ NextLine /\ Now.kind = "hunk"
  /\ old' = Now.old /\ new' = Now.new
  /\ oldLeft' = Counted(Now.oldCount) /\ newLeft' = Counted(Now.newCount)
  /\ UNCHANGED lines

\* Fault: the hunk is over as soon as one version's part of it is.
InHunk_Both == old # NotInHunk /\ oldLeft # 0 /\ newLeft # 0

InHunk == old # NotInHunk /\ (oldLeft # 0 \/ newLeft # 0)

\* The line has a sign, and its versions have lines left in the hunk.
Fits ==
  /\ Now.kind = "line" /\ InHunk
  /\ Now.side # "removed" => newLeft > 0
  /\ Now.side # "added" => oldLeft > 0

ParseAdded ==
  /\ NextLine /\ Fits /\ Now.side = "added"
  /\ Yield
  /\ new' = new + 1 /\ newLeft' = newLeft - 1
  /\ UNCHANGED <<old, oldLeft>>

ParseRemoved ==
  /\ NextLine /\ Fits /\ Now.side = "removed"
  /\ Yield
  /\ old' = old + 1 /\ oldLeft' = oldLeft - 1
  /\ UNCHANGED <<new, newLeft>>

ParseContext ==
  /\ NextLine /\ Fits /\ Now.side = "context"
  /\ Yield
  /\ old' = old + 1 /\ new' = new + 1
  /\ oldLeft' = oldLeft - 1 /\ newLeft' = newLeft - 1

\* The hunk is over, or the line has no place in it.
Leave ==
  /\ NextLine /\ Now.kind # "hunk" /\ ~Fits
  /\ old' = NotInHunk /\ new' = NotInHunk
  /\ UNCHANGED <<oldLeft, newLeft, lines>>

Finish ==
  /\ pc = "parse" /\ at > Len(diff)
  /\ pc' = "done"
  /\ UNCHANGED <<diff, at>> /\ UNCHANGED parser

Next == ParseHeader \/ ParseAdded \/ ParseRemoved \/ ParseContext \/ Leave \/ Finish
Spec == Init /\ [][Next]_vars

-----------------------------------------------------------------------------
(* Properties *)

\* README.md:129: evidence is mapped "to one unique changed line".  A line the
\* parser yields is the line of that side and number, after a cut as well.
LinesAreTrue ==
  \A l \in lines :
    /\ l.side # "added" => l.old = l.of.old
    /\ l.side # "removed" => l.new = l.of.new

\* No line of the part that is shown is lost to the parser: what it has read
\* of the diff, it has yielded.
NothingSkipped ==
  \A i \in 1 .. at - 1 : diff[i].kind = "line" => \E l \in lines : l.of = diff[i].of
                                                                /\ l.side = diff[i].side
=============================================================================
