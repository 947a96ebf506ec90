---------------------------- MODULE LineEndings ----------------------------
(***************************************************************************)
(* How GitCommitReader decides whether the diff it shows tells all there   *)
(* is to a change of text (commit_review.py, _unified_diff,                *)
(* _line_ending_kinds_changed): the diff is one of logical lines, and how  *)
(* they end is not in it.                                                  *)
(*                                                                         *)
(* A text is a sequence of logical lines, as str.splitlines has them, each *)
(* with what ends it.  bytes.splitlines knows fewer endings: to it the     *)
(* lines that end in a form feed and the like are part of the next one.    *)
(***************************************************************************)
EXTENDS Naturals, Sequences, FiniteSets, SequencesExt

CONSTANTS
  Contents,    \* what a line may say
  Endings,     \* LF, CRLF, CR
  Separators,  \* endings only str.splitlines knows: form feed, U+2028, ...
  MaxLines     \* bound: logical lines of a text

None == "NONE"  \* the last line of a text need not end
EndingAssumption ==
  None \notin Endings \cup Separators /\ Endings \cap Separators = {}

TextsOf(n) ==
  {t \in [1 .. n -> [content : Contents, ending : Endings \cup Separators \cup {None}]] :
     \A i \in 1 .. n : t[i].ending = None => i = n}
Texts == UNION {TextsOf(n) : n \in 0 .. MaxLines}

Lines(t) == [i \in DOMAIN t |-> t[i].content]
Ends(t)  == [i \in DOMAIN t |-> t[i].ending]

VARIABLES old, new, verdict
vars == <<old, new, verdict>>

-----------------------------------------------------------------------------
(* difflib: the longest block that two sequences share, the earliest of    *)
(* several, and then the same to its left and to its right.                *)

Shared(f, g, i, j, k) == SubSeq(f, i + 1, i + k) = SubSeq(g, j + 1, j + k)
Longest(f, g, al, ah, bl, bh) ==
  LET blocks == {b \in (al .. ah) \X (bl .. bh) \X (1 .. (ah - al)) :
                   /\ b[1] + b[3] <= ah /\ b[2] + b[3] <= bh
                   /\ Shared(f, g, b[1], b[2], b[3])}
  IN  IF blocks = {} THEN <<al, bl, 0>>
      ELSE CHOOSE b \in blocks : \A c \in blocks :
             \/ b[3] > c[3]
             \/ b[3] = c[3] /\ (b[1] < c[1] \/ (b[1] = c[1] /\ b[2] <= c[2]))

\* The opcodes of ranges (al, ah] and (bl, bh]: [from, to] of each, equal or
\* not.
RECURSIVE Opcodes(_, _, _, _, _, _)
Opcodes(f, g, al, ah, bl, bh) ==
  LET b == Longest(f, g, al, ah, bl, bh)
  IN  IF al = ah /\ bl = bh THEN {}
      ELSE IF b[3] = 0 THEN {[from |-> <<al, bl>>, to |-> <<ah, bh>>, equal |-> FALSE]}
      ELSE Opcodes(f, g, al, b[1], bl, b[2])
             \cup {[from |-> <<b[1], b[2]>>, to |-> <<b[1] + b[3], b[2] + b[3]>>,
                    equal |-> TRUE]}
             \cup Opcodes(f, g, b[1] + b[3], ah, b[2] + b[3], bh)
OpcodesOf(f, g) == Opcodes(f, g, 0, Len(f), 0, Len(g))

\* As many new lines as old ones: equal, or replaced one for one.
OneForOne(c) == c.to[1] - c.from[1] = c.to[2] - c.from[2]

-----------------------------------------------------------------------------
(* The decision *)

\* _byte_line_records.
Ended(t) == {i \in DOMAIN t : t[i].ending \notin Separators \/ i = Len(t)}
RecordOf(t, i) ==
  LET before == {j \in Ended(t) : j < i}
      first  == IF before = {} THEN 1 ELSE 1 + CHOOSE j \in before : \A k \in before : k <= j
  IN  [content |-> [j \in 1 .. i - first + 1 |->
                      <<t[first + j - 1].content,
                        IF t[first + j - 1].ending \in Separators
                        THEN t[first + j - 1].ending ELSE None>>],
       ending  |-> IF t[i].ending \in Separators THEN None ELSE t[i].ending]
Records(t) ==
  LET ended == SetToSortSeq(Ended(t), <)
  IN  [n \in DOMAIN ended |-> RecordOf(t, ended[n])]
Kinds(t) == ToSet(Ends(Records(t)))

SameEndings(c) ==
  SubSeq(Ends(Records(old)), c.from[1] + 1, c.to[1])
    = SubSeq(Ends(Records(new)), c.from[2] + 1, c.to[2])

\* A line more or less in a text of mixed endings.
Moves(c) == ~OneForOne(c) /\ Cardinality(Kinds(old) \cup Kinds(new)) > 1

\* Two texts that are there, compared line by line.
Differ ==
  \/ Kinds(old) # Kinds(new)
  \/ \E c \in OpcodesOf(Lines(Records(old)), Lines(Records(new))) :
       Moves(c) \/ (OneForOne(c) /\ ~SameEndings(c))

\* _line_ending_kinds_changed.
KindsChanged ==
  IF old = <<>> \/ new = <<>> THEN Cardinality(Kinds(old) \cup Kinds(new)) > 1
  ELSE Differ

\* The second result of _unified_diff: what is shown is not the whole change.
Incomplete ==
  IF Lines(old) # Lines(new) THEN KindsChanged ELSE old # new

Init ==
  /\ old \in Texts /\ new \in Texts
  /\ verdict = "none"

Decide ==
  /\ verdict = "none"
  /\ verdict' = IF Incomplete THEN "incomplete" ELSE "complete"
  /\ UNCHANGED <<old, new>>

Next == Decide
Spec == Init /\ [][Next]_vars

-----------------------------------------------------------------------------
(* Properties *)

\* The diff that is shown: that of the logical lines.  difflib leaves lines that
\* are frequent in texts of 200 lines or more out of its alignment here, and
\* OpcodesOf does not.
Shown == OpcodesOf(Lines(old), Lines(new))

\* Where a new line's ending comes from: the old line that stands in its place,
\* unchanged or replaced one for one.
Origin(j) ==
  {i \in DOMAIN old :
     \E c \in Shown : /\ OneForOne(c) /\ c.from[1] < i /\ i <= c.to[1]
                      /\ i - c.from[1] = j - c.from[2]}

\* A complete diff determines the new text byte for byte: each line ends as its
\* origin does or, in a text of one kind of ending, as all do.  No conversion
\* or redistribution of endings and no mixed new text passes as complete.
EndingsDetermined ==
  verdict = "complete" =>
    IF old = <<>> THEN Cardinality(ToSet(Ends(new))) <= 1
    ELSE \A j \in DOMAIN new :
           \/ \E i \in Origin(j) : Ends(new)[j] = Ends(old)[i]
           \/ Origin(j) = {} /\ ToSet(Ends(old)) = {Ends(new)[j]}

\* A change within one kind of ending is shown completely: the check cries wolf
\* over no ordinary edit.
QuietWhenUniform ==
  verdict = "incomplete" => Cardinality(Kinds(old) \cup Kinds(new)) > 1

\* A line a complete diff shows as unchanged is unchanged.  docs/safety.md:28:
\* "Byte changes that collapse under logical-line rendering are summarized with
\* line-ending metadata and force INCOMPLETE".
UnchangedIsUnchanged ==
  verdict = "complete" =>
    \A j \in DOMAIN new, c \in Shown :
      c.equal /\ c.from[2] < j /\ j <= c.to[2] =>
        Ends(new)[j] = Ends(old)[c.from[1] + j - c.from[2]]
=============================================================================
