---------------------------- MODULE EvidenceMatch ----------------------------
(***************************************************************************)
(* CommitReviewer._match_changed_evidence: a model quotes evidence and     *)
(* says on which side of the change it is; the finding is put on one       *)
(* changed line, or dropped.                                               *)
(*                                                                         *)
(* A text is a sequence of characters, without the blanks around it; of    *)
(* the characters only the markers "+" and "-" and those of Words, which   *)
(* are letters and digits, are told from the others.                       *)
(***************************************************************************)
EXTENDS Naturals, FiniteSets, Sequences, FiniteSetsExt

CONSTANTS
  Texts,      \* the texts of source lines
  Quotes,     \* the texts of evidence lines
  Words,      \* the characters that are letters or digits
  Preferences, \* the sets of texts a preferred term may occur in
  MaxLine,    \* bound: lines of a side
  MaxChanges, \* bound: changed lines
  MaxQuotes   \* bound: evidence lines
ASSUME TextAssumption ==
  /\ Texts \cup Quotes \subseteq Seq(STRING)
  /\ \A t \in Texts \cup Quotes : Len(t) > 0
  /\ Words \cap {"+", "-"} = {}
  /\ {MaxLine, MaxChanges, MaxQuotes} \subseteq Nat

VARIABLES
  changed,    \* [line, text, side], at most one for a line and side
  evidence, change,
  preferred,  \* the texts a preferred term occurs in
  pc, match   \* NoMatch or [line, text]
vars == <<changed, evidence, change, preferred, pc, match>>

Sides == {"added", "removed"}
Opposite(side) == IF side = "added" THEN "removed" ELSE "added"
Marker(side) == IF side = "added" THEN "+" ELSE "-"
Marked(side, t) == <<Marker(side)>> \o t
NoMatch == [line |-> 0, text |-> <<>>]

On(side) == {c \in changed : c.side = side}
TextsOn(side) == {c.text : c \in On(side)}

Changes ==
  {[line |-> n, text |-> t, side |-> s] : n \in 1 .. MaxLine, t \in Texts, s \in Sides}

Init ==
  /\ \E k \in 0 .. MaxChanges : changed \in kSubset(k, Changes)
  /\ \A c, d \in changed : c.side = d.side /\ c.line = d.line => c = d
  /\ \E k \in 1 .. MaxQuotes : evidence \in kSubset(k, Quotes)
  /\ change \in Sides
  /\ preferred \in Preferences
  /\ pc = "match" /\ match = NoMatch

-----------------------------------------------------------------------------

Telling(t) == \E i \in DOMAIN t : t[i] \in Words

\* The evidence lines that are looked at: a brace of its own says nothing.
Quotations == {v \in evidence : Telling(v)}

\* A quotation that no changed line equals is tried without its first character
\* if that is a marker.
Stripped(v) ==
  /\ Len(v) > 1 /\ Head(v) \in {"+", "-"}
  /\ v \notin TextsOn("added") \cup TextsOn("removed")

\* A line of the other side, as it is or with that side's marker.
Misplaced(v) ==
  \/ v \in TextsOn(Opposite(change)) \ TextsOn(change)
  \/ /\ Stripped(v) /\ Head(v) = Marker(Opposite(change))
     /\ Tail(v) \in TextsOn("added") \cup TextsOn("removed")

\* What the quotations show of the declared side.
Declared ==
  (Quotations \cap (TextsOn(change) \ TextsOn(Opposite(change))))
  \cup {Tail(v) : v \in {w \in Quotations :
                           Stripped(w) /\ Head(w) = Marker(change) /\ Tail(w) \in TextsOn(change)}}

\* Fault: the first line that has the text is taken.
UniqueLines_First ==
  {c \in On(change) : /\ c.text \in Declared
                      /\ \A d \in On(change) : d.text = c.text => d.line >= c.line}

\* _unique_evidence_matches.
UniqueLines == {c \in On(change) : c.text \in Declared /\ \A d \in On(change) : d.text = c.text => d = c}

\* The longest, of these the first.
Best(cs) ==
  CHOOSE c \in cs : \A d \in cs : \/ Len(d.text) < Len(c.text)
                                  \/ Len(d.text) = Len(c.text) /\ d.line >= c.line

Wanted ==
  LET terms == {c \in UniqueLines : c.text \in preferred}
  IN  IF terms # {} THEN terms ELSE UniqueLines

Match ==
  /\ pc = "match"
  /\ match' = IF (\E v \in Quotations : Misplaced(v)) \/ UniqueLines = {} THEN NoMatch
              ELSE [line |-> Best(Wanted).line, text |-> Best(Wanted).text]
  /\ pc' = "done"
  /\ UNCHANGED <<changed, evidence, change, preferred>>

Next == Match
Spec == Init /\ [][Next]_vars

-----------------------------------------------------------------------------
(* Properties *)

Found == pc = "done" /\ match # NoMatch

\* README.md:129: "maps to one unique changed line".  The line has the side the
\* model named, is the only one of that side with its text, is more than
\* punctuation, and what makes it evidence is a quotation of it that is of no other
\* changed line: word for word and not of the other side too, or with the side's
\* marker.
OneChangedLine ==
  Found =>
    /\ Telling(match.text)
    /\ {c \in On(change) : c.text = match.text}
         = {[line |-> match.line, text |-> match.text, side |-> change]}
    /\ \/ match.text \in evidence \ TextsOn(Opposite(change))
       \/ /\ Marked(change, match.text) \in evidence
          /\ \A c \in changed : c.text # Marked(change, match.text)

\* docs/safety.md:28: "diff-prefixed model quotations do not invalidate
\* removed-line findings".  Lines copied from the diff are evidence for the
\* side they are on, unless source looks like them; lines of punctuation among them
\* neither help nor harm.
DiffQuotationsCount ==
  pc = "done" =>
    LET quoted == {c \in On(change) : Marked(change, c.text) \in Quotations}
        unique(c) == \A d \in On(change) : d.text = c.text => d = c
    IN  (/\ Quotations = {Marked(change, c.text) : c \in quoted}
         /\ \A v \in Quotations, c \in changed : c.text # v
         /\ \E c \in quoted : unique(c))
          => match # NoMatch /\ Marked(change, match.text) \in Quotations

\* tests/test_commit_review.py:2100: a block with a line changed on the other
\* side only, as it is or as the diff shows it, is evidence of nothing.  A line of
\* punctuation does not count, whichever side it is on.
NoMixedBlocks ==
  Found =>
    \A c \in {d \in On(Opposite(change)) : Telling(d.text)} :
      /\ c.text \in evidence => c.text \in TextsOn(change)
      /\ Marked(c.side, c.text) \in evidence =>
           Marked(c.side, c.text) \in TextsOn(change)

\* Evidence that is found is a quotation of one changed line of its side, lines
\* copied from the diff are evidence for the side they are on, and a block with a
\* line of the other side is evidence of nothing.
EvidenceIsALine == OneChangedLine /\ DiffQuotationsCount /\ NoMixedBlocks

=============================================================================
