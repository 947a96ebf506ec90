----------------------------- MODULE ReviewProofs -----------------------------
(***************************************************************************)
(* What a review reports, for any proposals and settings, and on which     *)
(* line, for any changed lines and quotations.                             *)
(*                                                                         *)
(* The line (EvidenceMatch) is chosen as the longest of the quoted ones    *)
(* and of these as the first: BestExists says that there is one, by        *)
(* induction over the lines.  The properties follow from where a match     *)
(* comes from.                                                             *)
(*                                                                         *)
(* The report (CandidateReview) is made by recursive functions.  Iterates  *)
(* says that such a function exists, and an induction over its arguments   *)
(* what it holds: Unique, UniqueKeys, AddUnlessRestated and FlattenSeq     *)
(* what they keep of a sequence, Turns that the list stays Balanced.       *)
(* ReviewInv then says where the list, the count and the report come from. *)
(***************************************************************************)
EXTENDS EvidenceMatch, CandidateReview, TotalsProofs, FiniteSetTheorems

-----------------------------------------------------------------------------
(* The line of a finding *)

OnePerLine(cs) == \A c, d \in cs : c.side = d.side /\ c.line = d.line => c = d

\* What Match answers.
Answer ==
  IF (\E v \in Quotations : Misplaced(v)) \/ UniqueLines = {} THEN NoMatch
  ELSE [line |-> Best(Wanted).line, text |-> Best(Wanted).text]

\* The changed lines are such as a diff has, and an answer is the one for them.
EvidenceInv ==
  /\ changed \subseteq Changes /\ OnePerLine(changed)
  /\ evidence \subseteq Quotes
  /\ change \in Sides
  /\ pc \in {"match", "done"}
  /\ pc = "done" => match = Answer

-----------------------------------------------------------------------------
IsBest(c, cs) ==
  c \in cs /\ \A d \in cs : \/ Len(d.text) < Len(c.text)
                            \/ Len(d.text) = Len(c.text) /\ d.line >= c.line

Lines == [line : Nat, text : Seq(STRING), side : Sides]

\* Of some lines, none of them at the same place, one is the longest, or the first
\* of the longest.
LEMMA BestExists ==
  ASSUME NEW n \in Nat,
         NEW all \in SUBSET Lines,
         all # {}, \A c, d \in all : c.line = d.line => c = d,
         \A c \in all : c.line <= n
  PROVE  \E c \in all : IsBest(c, all)
<1> DEFINE S == {k \in Nat : \A cs \in SUBSET all :
                   cs # {} /\ (\A c \in cs : c.line <= k) => \E c \in cs : IsBest(c, cs)}
<1>0. \A c \in all : c.line \in Nat /\ Len(c.text) \in Nat
  BY DEF Lines
<1>1. 0 \in S
  <2> SUFFICES ASSUME NEW cs \in SUBSET all, cs # {}, \A c \in cs : c.line <= 0
               PROVE  \E c \in cs : IsBest(c, cs)
    OBVIOUS
  <2>1. PICK c \in cs : TRUE
    OBVIOUS
  <2>2. \A d \in cs : d = c
    BY <1>0
  <2> QED
    BY <1>0, <2>1, <2>2 DEF IsBest
<1>2. ASSUME NEW k \in Nat, k \in S PROVE k + 1 \in S
  <2> SUFFICES ASSUME NEW cs \in SUBSET all, cs # {}, \A c \in cs : c.line <= k + 1
               PROVE  \E c \in cs : IsBest(c, cs)
    OBVIOUS
  <2> DEFINE low == {c \in cs : c.line <= k}
  <2>1. \A c \in cs \ low : c.line = k + 1
    BY <1>0
  <2>2. CASE low = {}
    <3>1. PICK c \in cs : TRUE
      OBVIOUS
    <3>2. \A d \in cs : d = c
      BY <2>1, <2>2
    <3> QED
      BY <1>0, <3>1, <3>2 DEF IsBest
  <2>3. CASE low # {}
    <3>1. PICK b \in low : IsBest(b, low)
      BY <1>2, <2>3
    <3>2. CASE cs = low
      BY <3>1, <3>2
    <3>3. CASE cs # low
      <4>1. PICK t \in cs : t \notin low
        BY <3>3
      <4>2. \A d \in cs \ low : d = t
        BY <2>1, <4>1
      <4>3. CASE Len(t.text) > Len(b.text)
        <5>1. \A d \in low : Len(d.text) < Len(t.text)
          BY <1>0, <3>1, <4>1, <4>3 DEF IsBest
        <5>2. \A d \in cs \ low : Len(d.text) = Len(t.text) /\ d.line >= t.line
          BY <1>0, <4>1, <4>2
        <5> QED
          BY <4>1, <5>1, <5>2 DEF IsBest
      <4>4. CASE Len(t.text) <= Len(b.text)
        <5>1. t.line >= b.line
          BY <1>0, <2>1, <3>1, <4>1
        <5>2. \A d \in cs \ low : \/ Len(d.text) < Len(b.text)
                                  \/ Len(d.text) = Len(b.text) /\ d.line >= b.line
          BY <1>0, <3>1, <4>1, <4>2, <4>4, <5>1
        <5> QED
          BY <3>1, <5>2 DEF IsBest
      <4> QED
        BY <1>0, <3>1, <4>1, <4>3, <4>4
    <3> QED
      BY <3>2, <3>3
  <2> QED
    BY <2>2, <2>3
<1> HIDE DEF S
<1>3. n \in S
  BY <1>1, <1>2, Induct
<1> QED
  BY <1>3 DEF S

-----------------------------------------------------------------------------
\* A match is one of the changed lines of its side, and unique there.
LEMMA BestIsWanted ==
  ASSUME changed \subseteq Changes, OnePerLine(changed), UniqueLines # {}
  PROVE  Best(Wanted) \in UniqueLines
<1>1. Wanted \subseteq UniqueLines /\ Wanted # {}
  BY DEF Wanted
<1>2. Wanted \in SUBSET Lines /\ \A c \in Wanted : c.line <= MaxLine
  BY <1>1, TextAssumption DEF UniqueLines, On, Changes, Lines
<1>3. \A c, d \in Wanted : c.line = d.line => c = d
  BY <1>1 DEF OnePerLine, UniqueLines, On
<1>4. \E c \in Wanted : IsBest(c, Wanted)
  BY <1>1, <1>2, <1>3, TextAssumption, BestExists
<1>5. Best(Wanted) \in Wanted
  BY <1>4 DEF Best, IsBest
<1> QED
  BY <1>1, <1>5

LEMMA Marking ==
  ASSUME NEW side \in Sides, NEW t \in Seq(STRING), Len(t) > 0
  PROVE  /\ Head(Marked(side, t)) = Marker(side) /\ Tail(Marked(side, t)) = t
         /\ Len(Marked(side, t)) > 1 /\ Marker(side) \in {"+", "-"}
         /\ Marker(side) # Marker(Opposite(side))
<1>1. Marker(side) \in {"+", "-"} /\ Marker(side) # Marker(Opposite(side))
  BY DEF Sides, Marker, Opposite
<1> QED
  BY <1>1 DEF Marked

LEMMA Unmarking ==
  ASSUME NEW v \in Seq(STRING), Len(v) > 1, NEW side, Head(v) = Marker(side)
  PROVE  v = Marked(side, Tail(v))
BY DEF Marked

\* What is known of the quoted and of the changed texts.
LEMMA TextTypes ==
  ASSUME changed \subseteq Changes, evidence \subseteq Quotes
  PROVE  /\ \A v \in evidence : v \in Seq(STRING) /\ Len(v) > 0
         /\ \A c \in changed : /\ c.text \in Seq(STRING) /\ Len(c.text) > 0
                               /\ c.side \in Sides /\ c.line \in Nat \ {0}
                               /\ c = [line |-> c.line, text |-> c.text, side |-> c.side]
BY TextAssumption DEF Changes

\* A match is a quoted line of the declared side.
\* A marker is no letter.
LEMMA MarksSayNothing ==
  ASSUME NEW side \in Sides, NEW t \in Seq(STRING), Len(t) > 0
  PROVE  Telling(Marked(side, t)) <=> Telling(t)
<1> DEFINE v == Marked(side, t)
<1>1. /\ DOMAIN v = 1 .. Len(t) + 1 /\ DOMAIN t = 1 .. Len(t) /\ Len(t) \in Nat
      /\ v[1] = Marker(side) /\ \A i \in 1 .. Len(t) : v[i + 1] = t[i]
  <2> DEFINE S == STRING \cup {Marker(side)}
             m == <<Marker(side)>>
  <2>1. /\ t \in Seq(S) /\ Len(t) \in Nat
        /\ m \in Seq(S) /\ Len(m) = 1 /\ m[1] = Marker(side)
    BY LenProperties
  <2> HIDE DEF m, S
  <2>2. /\ Len(m \o t) = 1 + Len(t)
        /\ \A i \in 1 .. 1 + Len(t) : (m \o t)[i] = IF i <= 1 THEN m[i] ELSE t[i - 1]
        /\ m \o t \in Seq(S)
    <3>1. /\ Len(m \o t) = Len(m) + Len(t)
          /\ \A i \in 1 .. Len(m) + Len(t) :
               (m \o t)[i] = IF i <= Len(m) THEN m[i] ELSE t[i - Len(m)]
          /\ m \o t \in Seq(S)
      BY <2>1, ConcatProperties
    <3> QED
      BY <2>1, <3>1
  <2>3. v = m \o t
    BY DEF Marked, m
  <2> HIDE DEF v
  <2>4. DOMAIN v = 1 .. Len(t) + 1 /\ DOMAIN t = 1 .. Len(t)
    BY <2>1, <2>2, <2>3, LenProperties
  <2> QED
    BY <2>1, <2>2, <2>3, <2>4
<1>2. Marker(side) \notin Words
  BY TextAssumption DEF Marker
<1> HIDE DEF v
<1>3. ASSUME Telling(v) PROVE Telling(t)
  <2>1. PICK i \in 1 .. Len(t) + 1 : v[i] \in Words
    BY <1>1, <1>3 DEF Telling
  <2>2. i # 1 /\ i - 1 \in 1 .. Len(t) /\ i = (i - 1) + 1
    BY <1>1, <1>2, <2>1
  <2>3. t[i - 1] \in Words
    BY <1>1, <2>1, <2>2
  <2> QED
    BY <1>1, <2>2, <2>3 DEF Telling
<1>4. ASSUME Telling(t) PROVE Telling(v)
  <2>1. PICK i \in 1 .. Len(t) : t[i] \in Words
    BY <1>1, <1>4 DEF Telling
  <2>2. i + 1 \in DOMAIN v /\ v[i + 1] = t[i]
    BY <1>1, <2>1
  <2> QED
    BY <2>1, <2>2 DEF Telling
<1> QED
  BY <1>3, <1>4 DEF v

LEMMA FoundIsDeclared ==
  ASSUME EvidenceInv, Found
  PROVE  \E b \in On(change) :
           /\ match = [line |-> b.line, text |-> b.text] /\ b.text \in Declared
           /\ \A d \in On(change) : d.text = b.text => d = b
           /\ \A v \in Quotations : ~Misplaced(v)
<1>1. UniqueLines # {} /\ (\A v \in Quotations : ~Misplaced(v))
      /\ match = [line |-> Best(Wanted).line, text |-> Best(Wanted).text]
  BY DEF EvidenceInv, Found, Answer
<1>2. Best(Wanted) \in UniqueLines
  BY <1>1, BestIsWanted DEF EvidenceInv
<1> DEFINE b == Best(Wanted)
<1>3. b \in On(change) /\ b.text \in Declared
      /\ \A d \in On(change) : d.text = b.text => d = b
  BY <1>2 DEF UniqueLines
<1> QED
  BY <1>1, <1>3

LEMMA LineIsUnique == ASSUME EvidenceInv PROVE OneChangedLine
<1> SUFFICES ASSUME Found
             PROVE  /\ Telling(match.text)
                    /\ {c \in On(change) : c.text = match.text}
                         = {[line |-> match.line, text |-> match.text, side |-> change]}
                    /\ \/ match.text \in evidence \ TextsOn(Opposite(change))
                       \/ /\ Marked(change, match.text) \in evidence
                          /\ \A c \in changed : c.text # Marked(change, match.text)
  BY DEF OneChangedLine
<1>1. PICK b \in On(change) :
           /\ match = [line |-> b.line, text |-> b.text] /\ b.text \in Declared
           /\ \A d \in On(change) : d.text = b.text => d = b
  BY FoundIsDeclared
<1>2. b = [line |-> b.line, text |-> b.text, side |-> change]
  BY TextTypes DEF On, EvidenceInv, Quotations
<1>3. match.line = b.line /\ match.text = b.text
  BY <1>1
<1>4. {c \in On(change) : c.text = match.text} = {b}
  BY <1>1, <1>3
<1>5. CASE b.text \in Quotations \cap (TextsOn(change) \ TextsOn(Opposite(change)))
  BY <1>2, <1>3, <1>4, <1>5 DEF Quotations
<1>6. CASE \E w \in Quotations : /\ Stripped(w) /\ Head(w) = Marker(change)
                               /\ b.text = Tail(w)
  <2>1. PICK w \in Quotations : Stripped(w) /\ Head(w) = Marker(change) /\ b.text = Tail(w)
    BY <1>6
  <2>2. w = Marked(change, b.text)
    <3>1. w \in Seq(STRING)
      BY TextTypes DEF EvidenceInv, Quotations
    <3> QED
      BY <2>1, <3>1, Unmarking DEF Stripped
  <2>3. \A c \in changed : c.text # w
    <3>1. w \notin TextsOn("added") \cup TextsOn("removed")
      BY <2>1 DEF Stripped
    <3>2. \A c \in changed : c.side \in Sides
      BY TextTypes DEF EvidenceInv, Quotations
    <3> QED
      BY <3>1, <3>2 DEF TextsOn, On, Sides
  <2>4. Telling(b.text)
    <3>1. change \in Sides /\ b.text \in Seq(STRING) /\ Len(b.text) > 0
      BY TextTypes DEF EvidenceInv, On
    <3> QED
      BY <2>1, <2>2, <3>1, MarksSayNothing DEF Quotations
  <2> QED
    BY <1>2, <1>3, <1>4, <2>1, <2>2, <2>3, <2>4 DEF Quotations
<1> QED
  BY <1>1, <1>5, <1>6 DEF Declared

LEMMA BlocksAreNotMixed == ASSUME EvidenceInv PROVE NoMixedBlocks
<1> SUFFICES ASSUME Found, NEW c \in On(Opposite(change)), Telling(c.text)
             PROVE  /\ c.text \in evidence => c.text \in TextsOn(change)
                    /\ Marked(c.side, c.text) \in evidence =>
                         Marked(c.side, c.text) \in TextsOn(change)
  BY DEF NoMixedBlocks
<1>1. \A v \in Quotations : ~Misplaced(v)
  BY FoundIsDeclared
<1>2. c \in changed /\ c.side = Opposite(change) /\ c.side \in Sides
      /\ c.text \in Seq(STRING) /\ Len(c.text) > 0
  BY TextTypes DEF On, EvidenceInv, Quotations
<1>3. c.text \in TextsOn(Opposite(change))
  BY DEF TextsOn
<1>4. change \in Sides /\ TextsOn("added") \cup TextsOn("removed")
                            = TextsOn(change) \cup TextsOn(Opposite(change))
  BY DEF EvidenceInv, Sides, Opposite
<1>5. c.text \in evidence => c.text \in TextsOn(change)
  BY <1>1, <1>3 DEF Misplaced, Quotations
<1>6. ASSUME Marked(c.side, c.text) \in evidence
      PROVE  Marked(c.side, c.text) \in TextsOn(change)
  <2> DEFINE v == Marked(c.side, c.text)
  <2>1. Head(v) = Marker(Opposite(change)) /\ Tail(v) = c.text
        /\ Len(v) > 1 /\ Head(v) \in {"+", "-"}
    <3> HIDE DEF v
    <3>1. /\ Head(v) = Marker(c.side) /\ Tail(v) = c.text
          /\ Len(v) > 1 /\ Marker(c.side) \in {"+", "-"}
      BY <1>2, Marking DEF v
    <3> QED
      BY <1>2, <3>1
  <2> HIDE DEF v
  <2>2. ~Misplaced(v)
    <3>1. Telling(v)
      BY <1>2, MarksSayNothing DEF v
    <3> QED
      BY <1>1, <1>6, <3>1 DEF v, Quotations
  <2>3. ~Stripped(v)
    BY <1>3, <1>4, <2>1, <2>2 DEF Misplaced
  <2>4. v \in TextsOn(change) \cup TextsOn(Opposite(change))
    BY <1>4, <2>1, <2>3 DEF Stripped
  <2>5. v \in TextsOn(change)
    BY <2>2, <2>4 DEF Misplaced
  <2> QED
    BY <2>5 DEF v
<1> QED
  BY <1>5, <1>6

LEMMA DiffQuotationsAreEvidence == ASSUME EvidenceInv PROVE DiffQuotationsCount
<1> DEFINE quoted == {c \in On(change) : Marked(change, c.text) \in Quotations}
           unique(c) == \A d \in On(change) : d.text = c.text => d = c
<1> SUFFICES ASSUME pc = "done", Quotations = {Marked(change, c.text) : c \in quoted},
                    \A v \in Quotations, c \in changed : c.text # v,
                    \E c \in quoted : unique(c)
             PROVE  match # NoMatch /\ Marked(change, match.text) \in Quotations
  BY DEF DiffQuotationsCount
<1>1. ASSUME NEW v \in Quotations
      PROVE  \E c \in On(change) :
               /\ v = Marked(change, c.text) /\ Tail(v) = c.text /\ Head(v) = Marker(change)
               /\ Stripped(v) /\ ~Misplaced(v)
  <2>1. PICK c \in quoted : v = Marked(change, c.text)
    OBVIOUS
  <2>2. c \in On(change) /\ change \in Sides /\ c.text \in Seq(STRING) /\ Len(c.text) > 0
    BY TextTypes DEF On, EvidenceInv, Quotations
  <2>3. /\ Head(v) = Marker(change) /\ Tail(v) = c.text
        /\ Len(v) > 1 /\ Head(v) \in {"+", "-"} /\ Marker(change) # Marker(Opposite(change))
    BY <2>1, <2>2, Marking
  <2>4. v \notin TextsOn("added") \cup TextsOn("removed")
    BY DEF TextsOn, On
  <2>5. v \notin TextsOn(Opposite(change))
    BY DEF TextsOn, On
  <2>6. Stripped(v)
    BY <2>3, <2>4 DEF Stripped
  <2>7. ~Misplaced(v)
    BY <2>3, <2>5 DEF Misplaced
  <2> QED
    BY <2>1, <2>2, <2>3, <2>6, <2>7
<1>2. UniqueLines # {}
  <2>1. PICK c \in quoted : unique(c)
    OBVIOUS
  <2>2. Marked(change, c.text) \in Quotations /\ c \in On(change)
    OBVIOUS
  <2>3. change \in Sides /\ c.text \in Seq(STRING) /\ Len(c.text) > 0
    BY <2>2, TextTypes DEF On, EvidenceInv
  <2>4. Tail(Marked(change, c.text)) = c.text
    BY <2>3, Marking
  <2>5. c.text \in TextsOn(change)
    BY <2>2 DEF TextsOn
  <2>6. c.text \in Declared
    <3>1. PICK v \in Quotations : v = Marked(change, c.text)
      BY <2>2
    <3>2. Stripped(v) /\ Head(v) = Marker(change)
      BY <1>1
    <3>3. Tail(v) = c.text /\ Tail(v) \in TextsOn(change)
      BY <2>4, <2>5, <3>1
    <3> HIDE DEF quoted, unique
    <3> QED
      BY <3>2, <3>3 DEF Declared
  <2> QED
    BY <2>1, <2>2, <2>6 DEF UniqueLines
<1>3. match = [line |-> Best(Wanted).line, text |-> Best(Wanted).text]
  BY <1>1, <1>2 DEF EvidenceInv, Answer
<1>4. Best(Wanted) \in UniqueLines
  BY <1>2, BestIsWanted DEF EvidenceInv
<1> DEFINE b == Best(Wanted)
<1> HIDE DEF quoted, unique
<1>5. b \in On(change) /\ b.text \in Declared
  BY <1>4 DEF UniqueLines
<1>6. b.line \in Nat \ {0}
  BY <1>5, TextTypes DEF On, EvidenceInv
<1>7. match.line = b.line /\ match.text = b.text
  BY <1>3
<1>8. match # NoMatch
  BY <1>6, <1>7 DEF NoMatch
<1>9. b.text \notin Quotations
  BY <1>5 DEF On
<1>10. PICK w \in Quotations : Head(w) = Marker(change) /\ b.text = Tail(w)
  BY <1>5, <1>9 DEF Declared
<1>11. w = Marked(change, b.text)
  BY <1>1, <1>10
<1> QED
  BY <1>7, <1>8, <1>10, <1>11

-----------------------------------------------------------------------------
THEOREM EvidenceInvariant == Spec => []EvidenceInv
<1>1. Init => EvidenceInv
  BY DEF Init, EvidenceInv, OnePerLine, kSubset
<1>2. EvidenceInv /\ [Next]_vars => EvidenceInv'
  <2> SUFFICES ASSUME EvidenceInv, [Next]_vars PROVE EvidenceInv'
    OBVIOUS
  <2>1. CASE Match
    <3>1. UNCHANGED <<changed, evidence, change, preferred>> /\ pc' = "done"
      BY <2>1 DEF Match
    <3>2. match' = Answer
      BY <2>1 DEF Match, Answer
    <3>3. Answer' = Answer
      BY <3>1 DEF Answer, Misplaced, Stripped, UniqueLines, Declared, Wanted, TextsOn, On,
         Quotations
    <3>4. match' = Answer'
      BY <3>2, <3>3
    <3> HIDE DEF Answer
    <3> QED
      BY <3>1, <3>4 DEF EvidenceInv, Changes
  <2>2. CASE UNCHANGED vars
    <3>1. UNCHANGED <<changed, evidence, change, preferred, pc, match>>
      BY <2>2 DEF vars
    <3>2. Answer' = Answer
      BY <3>1 DEF Answer, Misplaced, Stripped, UniqueLines, Declared, Wanted, TextsOn, On,
         Quotations
    <3> QED
      BY <3>1, <3>2 DEF EvidenceInv, Changes
  <2> QED
    BY <2>1, <2>2 DEF Next
<1> QED
  BY <1>1, <1>2, PTL DEF Spec

\* A finding is put on the one changed line of its side that its evidence quotes,
\* lines copied from the diff count, and a block that mixes the sides does not.
THEOREM EvidenceIsAlwaysALine == Spec => []EvidenceIsALine
<1>1. EvidenceInv => EvidenceIsALine
  BY LineIsUnique, BlocksAreNotMixed, DiffQuotationsAreEvidence DEF EvidenceIsALine
<1> QED
  BY <1>1, EvidenceInvariant, PTL

-----------------------------------------------------------------------------
(* Sequences as what they hold *)

LEMMA Held ==
  ASSUME NEW S, NEW s \in Seq(S)
  PROVE  /\ Len(s) \in Nat /\ DOMAIN s = 1 .. Len(s)
         /\ ToSet(s) = {s[i] : i \in 1 .. Len(s)}
         /\ ToSet(s) \subseteq S /\ \A i \in 1 .. Len(s) : s[i] \in S
<1>1. Len(s) \in Nat /\ DOMAIN s = 1 .. Len(s) /\ \A i \in 1 .. Len(s) : s[i] \in S
  BY LenProperties, ElementOfSeq
<1> QED
  BY <1>1 DEF ToSet

LEMMA HeldByNone == <<>> \in Seq(Ids) /\ Len(<<>>) = 0 /\ ToSet(<<>>) = {} /\ IsInjective(<<>>)
<1>1. <<>> \in Seq(Ids) /\ Len(<<>>) = 0
  BY EmptySeq
<1>2. DOMAIN <<>> = 1 .. 0 /\ ToSet(<<>>) = {<<>>[i] : i \in 1 .. 0}
  BY <1>1, Held
<1>3. 1 .. 0 = {}
  OBVIOUS
<1> QED
  BY <1>1, <1>2, <1>3 DEF IsInjective

\* One more in a sequence.
LEMMA HeldByMore ==
  ASSUME NEW S, NEW s \in Seq(S), NEW c \in S
  PROVE  /\ Append(s, c) \in Seq(S) /\ Len(Append(s, c)) = Len(s) + 1
         /\ ToSet(Append(s, c)) = ToSet(s) \cup {c}
         /\ IsInjective(s) /\ c \notin ToSet(s) => IsInjective(Append(s, c))
<1> DEFINE t == Append(s, c)
<1>1. /\ t \in Seq(S) /\ Len(t) = Len(s) + 1 /\ t[Len(s) + 1] = c
      /\ \A i \in 1 .. Len(s) : t[i] = s[i]
  BY AppendProperties
<1> HIDE DEF t
<1>2. /\ Len(s) \in Nat /\ DOMAIN s = 1 .. Len(s) /\ DOMAIN t = 1 .. Len(t)
      /\ ToSet(s) = {s[i] : i \in 1 .. Len(s)} /\ ToSet(t) = {t[i] : i \in 1 .. Len(t)}
  BY <1>1, Held
<1>3. ToSet(t) = ToSet(s) \cup {c}
  <2>1. ASSUME NEW x \in ToSet(t) PROVE x \in ToSet(s) \cup {c}
    BY <1>1, <1>2
  <2>2. ASSUME NEW x \in ToSet(s) \cup {c} PROVE x \in ToSet(t)
    <3>1. CASE x = c
      <4>1. Len(s) + 1 \in 1 .. Len(t)
        BY <1>1, <1>2
      <4> QED
        BY <1>1, <1>2, <3>1, <4>1
    <3>2. CASE x # c
      <4>1. PICK i \in 1 .. Len(s) : x = s[i]
        BY <1>2, <3>2, <2>2
      <4>2. i \in 1 .. Len(t) /\ t[i] = x
        BY <1>1, <1>2, <4>1
      <4> QED
        BY <1>2, <4>2
    <3> QED
      BY <3>1, <3>2
  <2> QED
    BY <2>1, <2>2
<1>4. ASSUME IsInjective(s), c \notin ToSet(s) PROVE IsInjective(t)
  <2>1. \A i \in 1 .. Len(s) : s[i] # c
    BY <1>2, <1>4
  <2> QED
    BY <1>1, <1>2, <1>4, <2>1 DEF IsInjective
<1> QED
  BY <1>1, <1>3, <1>4 DEF t

\* A sequence without repetitions is as long as what it holds is large.
LEMMA HeldOnce ==
  ASSUME NEW S, NEW s \in Seq(S)
  PROVE  /\ IsFiniteSet(ToSet(s)) /\ Cardinality(ToSet(s)) \in Nat
         /\ Cardinality(ToSet(s)) <= Len(s)
         /\ IsInjective(s) => Len(s) = Cardinality(ToSet(s))
<1>1. /\ Len(s) \in Nat /\ DOMAIN s = 1 .. Len(s) /\ ToSet(s) = {s[i] : i \in 1 .. Len(s)}
  BY Held
<1> DEFINE D == 1 .. Len(s)
           T == ToSet(s)
<1>2. IsFiniteSet(D) /\ Cardinality(D) = Len(s)
  BY <1>1, FS_Interval
<1>3. s \in [D -> T]
  <2>1. s = [i \in D |-> s[i]]
    BY <1>1
  <2>2. \A i \in D : s[i] \in T
    BY <1>1
  <2> HIDE DEF D, T
  <2> QED
    BY <2>1, <2>2
<1>4. s \in Surjection(D, T)
  <2>1. \A t \in T : \E i \in D : s[i] = t
    BY <1>1
  <2> QED
    BY <1>3, <2>1 DEF Surjection
<1>5. IsInjective(s) => s \in Injection(D, T)
  BY <1>3 DEF Injection
<1> HIDE DEF D, T
<1>6. IsFiniteSet(T) /\ Cardinality(T) <= Cardinality(D)
      /\ (Cardinality(T) = Cardinality(D) <=> s \in Injection(D, T))
  BY <1>2, <1>4, FS_Surjection
<1>7. Cardinality(T) \in Nat
  BY <1>6, FS_CardinalityType
<1> QED
  BY <1>2, <1>5, <1>6, <1>7 DEF T

\* The first of a sequence.
LEMMA HeldAtFirst ==
  ASSUME NEW S, NEW s \in Seq(S), NEW max \in Nat
  PROVE  LET first == SubSeq(s, 1, Min({max, Len(s)}))
         IN  /\ first \in Seq(S) /\ ToSet(first) \subseteq ToSet(s)
             /\ Len(first) <= max
             /\ IsInjective(s) => IsInjective(first)
             /\ Len(s) <= max => first = s
             /\ Len(s) > max => Len(first) = max
<1> DEFINE n == Min({max, Len(s)})
           first == SubSeq(s, 1, n)
<1>1. Len(s) \in Nat
  BY Held
<1>2. n \in Nat /\ n <= max /\ n <= Len(s) /\ n \in {max, Len(s)}
  <2>1. \E x \in {max, Len(s)} : \A y \in {max, Len(s)} : x <= y
    BY <1>1
  <2>2. n \in {max, Len(s)} /\ \A y \in {max, Len(s)} : n <= y
    BY <2>1 DEF Min
  <2> QED
    BY <1>1, <2>2
<1> HIDE DEF n
<1>3. /\ first \in Seq(S) /\ Len(first) = n
      /\ \A i \in 1 .. n : first[i] = s[i]
  BY <1>1, <1>2, SubSeqProperties
<1>4. Len(s) <= max => first = s
  <2> SUFFICES ASSUME Len(s) <= max PROVE first = s
    OBVIOUS
  <2>1. n = Len(s)
    BY <1>1, <1>2
  <2> QED
    BY <2>1, SubSeqFull
<1>5. /\ DOMAIN s = 1 .. Len(s) /\ ToSet(s) = {s[i] : i \in 1 .. Len(s)}
      /\ DOMAIN first = 1 .. n /\ ToSet(first) = {first[i] : i \in 1 .. n}
  <2> HIDE DEF first
  <2> QED
    BY <1>3, Held
<1> HIDE DEF first
<1>6. ToSet(first) \subseteq ToSet(s)
  BY <1>1, <1>2, <1>3, <1>5
<1>7. IsInjective(s) => IsInjective(first)
  <2>1. \A i \in 1 .. n : i \in 1 .. Len(s) /\ first[i] = s[i]
    BY <1>1, <1>2, <1>3
  <2> QED
    BY <1>5, <2>1 DEF IsInjective
<1>8. Len(first) <= max /\ (Len(s) > max => Len(first) = max)
  BY <1>1, <1>2, <1>3
<1> QED
  BY <1>3, <1>4, <1>6, <1>7, <1>8 DEF first, n

-----------------------------------------------------------------------------
(* Recursive functions *)

\* f goes from init on in n steps.
Iteration(f, S, init, n, step) ==
  /\ f \in [0 .. n -> S]
  /\ f[0] = init /\ \A k \in 1 .. n : f[k] = step[<<k, f[k - 1]>>]

\* What is defined step by step exists.
LEMMA Iterates ==
  ASSUME NEW S, NEW init \in S, NEW n \in Nat, NEW step \in [(1 .. n) \X S -> S]
  PROVE  \E f : Iteration(f, S, init, n, step)
<1> DEFINE R == {m \in Nat : m <= n =>
                   \E f \in [0 .. m -> S] :
                     f[0] = init /\ \A k \in 1 .. m : f[k] = step[<<k, f[k - 1]>>]}
<1>1. 0 \in R
  <2> DEFINE f == [k \in 0 .. 0 |-> init]
  <2>1. f \in [0 .. 0 -> S] /\ f[0] = init /\ \A k \in 1 .. 0 : f[k] = step[<<k, f[k - 1]>>]
    OBVIOUS
  <2> QED
    BY <2>1
<1>2. ASSUME NEW m \in Nat, m \in R PROVE m + 1 \in R
  <2> SUFFICES ASSUME m + 1 <= n
               PROVE  \E f \in [0 .. m + 1 -> S] :
                        f[0] = init /\ \A k \in 1 .. m + 1 : f[k] = step[<<k, f[k - 1]>>]
    OBVIOUS
  <2>1. PICK g \in [0 .. m -> S] :
               g[0] = init /\ \A k \in 1 .. m : g[k] = step[<<k, g[k - 1]>>]
    BY <1>2
  <2> DEFINE last == step[<<m + 1, g[m]>>]
             f == [k \in 0 .. m + 1 |-> IF k <= m THEN g[k] ELSE last]
  <2>2. last \in S
    <3>1. <<m + 1, g[m]>> \in (1 .. n) \X S
      BY <2>1
    <3> QED
      BY <3>1
  <2> HIDE DEF last
  <2>3. f \in [0 .. m + 1 -> S] /\ f[0] = init
    BY <2>1, <2>2
  <2>4. ASSUME NEW k \in 1 .. m + 1 PROVE f[k] = step[<<k, f[k - 1]>>]
    <3>1. f[k - 1] = g[k - 1]
      OBVIOUS
    <3>2. CASE k <= m
      <4>1. k \in 1 .. m /\ f[k] = g[k]
        BY <3>2
      <4> QED
        BY <2>1, <3>1, <4>1
    <3>3. CASE k = m + 1
      <4>1. f[k] = last /\ k - 1 = m
        BY <3>3
      <4> QED
        BY <3>1, <3>3, <4>1 DEF last
    <3> QED
      BY <3>2, <3>3
  <2> QED
    BY <2>3, <2>4
<1> HIDE DEF R
<1>3. n \in R
  BY <1>1, <1>2, Induct
<1> QED
  BY <1>3 DEF R, Iteration

-----------------------------------------------------------------------------
(* The first of each identity *)

\* Unique takes its argument one by one.
LEMMA UniqueSteps ==
  ASSUME NEW s \in Seq(Ids)
  PROVE  \E f : /\ f[0] = <<>>
                /\ \A n \in 1 .. Len(s) :
                     f[n] = IF s[n] \in ToSet(f[n - 1]) THEN f[n - 1]
                            ELSE Append(f[n - 1], s[n])
                /\ Unique(s) = f[Len(s)]
<1> DEFINE One(n, so) == IF s[n] \in ToSet(so) THEN so ELSE Append(so, s[n])
           Body(f) == [n \in 0 .. Len(s) |-> IF n = 0 THEN <<>> ELSE One(n, f[n - 1])]
           step == [p \in (1 .. Len(s)) \X Seq(Ids) |-> One(p[1], p[2])]
<1>1. Len(s) \in Nat /\ \A n \in 1 .. Len(s) : s[n] \in Ids
  BY Held
<1>2. step \in [(1 .. Len(s)) \X Seq(Ids) -> Seq(Ids)]
  <2>1. ASSUME NEW n \in 1 .. Len(s), NEW so \in Seq(Ids) PROVE One(n, so) \in Seq(Ids)
    BY <1>1, HeldByMore
  <2> QED
    BY <2>1
<1>3. PICK g \in [0 .. Len(s) -> Seq(Ids)] :
             g[0] = <<>> /\ \A n \in 1 .. Len(s) : g[n] = step[<<n, g[n - 1]>>]
  <2> DEFINE N == Len(s)
             Q == Seq(Ids)
             none == <<>>
  <2>1. N \in Nat /\ none \in Q /\ step \in [(1 .. N) \X Q -> Q]
    BY <1>1, <1>2, HeldByNone
  <2> HIDE DEF step, N, Q, none
  <2>2. \E g : Iteration(g, Q, none, N, step)
    BY <2>1, Iterates
  <2> QED
    BY <2>2 DEF N, Q, none, Iteration
<1>4. g = Body(g)
  <2>1. ASSUME NEW n \in 1 .. Len(s) PROVE g[n] = One(n, g[n - 1])
    <3>1. g[n - 1] \in Seq(Ids)
      BY <1>1
    <3>2. step[<<n, g[n - 1]>>] = One(n, g[n - 1])
      BY <3>1
    <3> QED
      BY <1>3, <3>2
  <2> HIDE DEF One, step
  <2>2. \A n \in 0 .. Len(s) : g[n] = Body(g)[n]
    BY <1>1, <1>3, <2>1
  <2> QED
    BY <2>2
<1> DEFINE f == CHOOSE f : f = Body(f)
<1>5. f = Body(f)
  <2> HIDE DEF Body
  <2> QED
    BY <1>4
<1>6. Unique(s) = f[Len(s)]
  BY Zenon DEF Unique
<1> HIDE DEF f
<1>7. f[0] = <<>> /\ \A n \in 1 .. Len(s) : f[n] = One(n, f[n - 1])
  <2> HIDE DEF One
  <2>1. \A n \in 0 .. Len(s) : f[n] = IF n = 0 THEN <<>> ELSE One(n, f[n - 1])
    BY <1>5
  <2> QED
    BY <1>1, <2>1
<1> QED
  BY <1>6, <1>7

LEMMA UniqueHolds ==
  ASSUME NEW s \in Seq(Ids)
  PROVE  Unique(s) \in Seq(Ids) /\ ToSet(Unique(s)) = ToSet(s) /\ IsInjective(Unique(s))
<1>1. PICK f : /\ f[0] = <<>>
               /\ \A n \in 1 .. Len(s) :
                    f[n] = IF s[n] \in ToSet(f[n - 1]) THEN f[n - 1]
                           ELSE Append(f[n - 1], s[n])
               /\ Unique(s) = f[Len(s)]
  BY UniqueSteps
<1>2. Len(s) \in Nat /\ (\A n \in 1 .. Len(s) : s[n] \in Ids)
      /\ ToSet(s) = {s[n] : n \in 1 .. Len(s)}
  BY Held
<1> DEFINE Good(n) == /\ f[n] \in Seq(Ids) /\ IsInjective(f[n])
                      /\ ToSet(f[n]) = {s[i] : i \in 1 .. n}
           R == {n \in Nat : n <= Len(s) => Good(n)}
<1>3. 0 \in R
  <2>1. {s[i] : i \in 1 .. 0} = {}
    OBVIOUS
  <2> QED
    BY <1>1, <2>1, HeldByNone
<1>4. ASSUME NEW n \in Nat, n \in R PROVE n + 1 \in R
  <2> SUFFICES ASSUME n + 1 <= Len(s) PROVE Good(n + 1)
    OBVIOUS
  <2>1. n + 1 \in 1 .. Len(s) /\ (n + 1) - 1 = n /\ n <= Len(s)
    BY <1>2
  <2>2. Good(n) /\ s[n + 1] \in Ids
    BY <1>2, <1>4, <2>1
  <2>3. {s[i] : i \in 1 .. n + 1} = {s[i] : i \in 1 .. n} \cup {s[n + 1]}
    <3>1. \A i \in 1 .. n + 1 : i \in 1 .. n \/ i = n + 1
      OBVIOUS
    <3>2. \A i \in 1 .. n : i \in 1 .. n + 1
      OBVIOUS
    <3>3. n + 1 \in 1 .. n + 1
      OBVIOUS
    <3> QED
      BY Zenon, <3>1, <3>2, <3>3
  <2>4. f[n + 1] = IF s[n + 1] \in ToSet(f[n]) THEN f[n] ELSE Append(f[n], s[n + 1])
    BY <1>1, <2>1
  <2>5. CASE s[n + 1] \in ToSet(f[n])
    BY <2>2, <2>3, <2>4, <2>5
  <2>6. CASE s[n + 1] \notin ToSet(f[n])
    <3>1. /\ Append(f[n], s[n + 1]) \in Seq(Ids) /\ IsInjective(Append(f[n], s[n + 1]))
          /\ ToSet(Append(f[n], s[n + 1])) = ToSet(f[n]) \cup {s[n + 1]}
      BY <2>2, <2>6, HeldByMore
    <3> QED
      BY <2>2, <2>3, <2>4, <2>6, <3>1
  <2> QED
    BY <2>5, <2>6
<1> HIDE DEF R
<1>5. Len(s) \in R
  BY <1>2, <1>3, <1>4, Induct
<1> QED
  BY <1>1, <1>2, <1>5 DEF R

-----------------------------------------------------------------------------
(* The first of each key *)

SameKey(c, so) == \E i \in DOMAIN so : about[so[i]].key = about[c].key

LEMMA UniqueKeysSteps ==
  ASSUME NEW s \in Seq(Ids), NEW chosen
  PROVE  \E f : /\ f[0] = <<>>
                /\ \A n \in 1 .. Len(s) :
                     f[n] = IF s[n] \notin chosen \/ SameKey(s[n], f[n - 1]) THEN f[n - 1]
                            ELSE Append(f[n - 1], s[n])
                /\ UniqueKeys(s, chosen) = f[Len(s)]
<1> DEFINE One(n, so) == IF s[n] \notin chosen \/ \E i \in DOMAIN so : about[so[i]].key = about[s[n]].key THEN so ELSE Append(so, s[n])
           Body(f) == [n \in 0 .. Len(s) |-> IF n = 0 THEN <<>> ELSE One(n, f[n - 1])]
           step == [p \in (1 .. Len(s)) \X Seq(Ids) |-> One(p[1], p[2])]
<1>1. Len(s) \in Nat /\ \A n \in 1 .. Len(s) : s[n] \in Ids
  BY Held
<1>2. step \in [(1 .. Len(s)) \X Seq(Ids) -> Seq(Ids)]
  <2>1. ASSUME NEW n \in 1 .. Len(s), NEW so \in Seq(Ids) PROVE One(n, so) \in Seq(Ids)
    BY <1>1, HeldByMore
  <2> QED
    BY <2>1
<1>3. PICK g \in [0 .. Len(s) -> Seq(Ids)] :
             g[0] = <<>> /\ \A n \in 1 .. Len(s) : g[n] = step[<<n, g[n - 1]>>]
  <2> DEFINE N == Len(s)
             Q == Seq(Ids)
             none == <<>>
  <2>1. N \in Nat /\ none \in Q /\ step \in [(1 .. N) \X Q -> Q]
    BY <1>1, <1>2, HeldByNone
  <2> HIDE DEF step, N, Q, none
  <2>2. \E g : Iteration(g, Q, none, N, step)
    BY <2>1, Iterates
  <2> QED
    BY <2>2 DEF N, Q, none, Iteration
<1>4. g = Body(g)
  <2>1. ASSUME NEW n \in 1 .. Len(s) PROVE g[n] = One(n, g[n - 1])
    <3>1. g[n - 1] \in Seq(Ids)
      BY <1>1
    <3>2. step[<<n, g[n - 1]>>] = One(n, g[n - 1])
      BY <3>1
    <3> QED
      BY <1>3, <3>2
  <2> HIDE DEF One, step
  <2>2. \A n \in 0 .. Len(s) : g[n] = Body(g)[n]
    BY <1>1, <1>3, <2>1
  <2> QED
    BY <2>2
<1> DEFINE f == CHOOSE f : f = Body(f)
<1>5. f = Body(f)
  <2> HIDE DEF Body
  <2> QED
    BY <1>4
<1>6. UniqueKeys(s, chosen) = f[Len(s)]
  BY Zenon DEF UniqueKeys
<1> HIDE DEF f
<1>7. f[0] = <<>> /\ \A n \in 1 .. Len(s) : f[n] = One(n, f[n - 1])
  <2> HIDE DEF One
  <2>1. \A n \in 0 .. Len(s) : f[n] = IF n = 0 THEN <<>> ELSE One(n, f[n - 1])
    BY <1>5
  <2> QED
    BY <1>1, <2>1
<1> QED
  BY <1>6, <1>7 DEF SameKey


\* It keeps what is chosen, but for what has the key of something kept.
LEMMA UniqueKeysHold ==
  ASSUME NEW s \in Seq(Ids), NEW chosen
  PROVE  LET u == UniqueKeys(s, chosen)
         IN  /\ u \in Seq(Ids) /\ IsInjective(u) /\ ToSet(u) \subseteq ToSet(s) \cap chosen
             /\ \A c \in ToSet(s) \cap chosen :
                  \E m \in ToSet(u) : about[m].key = about[c].key
<1>1. PICK f : /\ f[0] = <<>>
               /\ \A n \in 1 .. Len(s) :
                    f[n] = IF s[n] \notin chosen \/ SameKey(s[n], f[n - 1]) THEN f[n - 1]
                           ELSE Append(f[n - 1], s[n])
               /\ UniqueKeys(s, chosen) = f[Len(s)]
  BY UniqueKeysSteps
<1>2. Len(s) \in Nat /\ (\A n \in 1 .. Len(s) : s[n] \in Ids)
      /\ ToSet(s) = {s[n] : n \in 1 .. Len(s)}
  BY Held
<1> DEFINE Keyed(n, i) == s[i] \in chosen => \E m \in ToSet(f[n]) : about[m].key = about[s[i]].key
           Good(n) == /\ f[n] \in Seq(Ids) /\ IsInjective(f[n])
                      /\ ToSet(f[n]) \subseteq ToSet(s) \cap chosen
                      /\ \A i \in 1 .. n : Keyed(n, i)
           R == {n \in Nat : n <= Len(s) => Good(n)}
<1>3. 0 \in R
  <2>1. 1 .. 0 = {}
    OBVIOUS
  <2> QED
    BY <1>1, <2>1, HeldByNone
<1>4. ASSUME NEW n \in Nat, n \in R PROVE n + 1 \in R
  <2> SUFFICES ASSUME n + 1 <= Len(s) PROVE Good(n + 1)
    OBVIOUS
  <2> DEFINE c == s[n + 1]
             so == f[n]
             more == f[n + 1]
  <2>1. n + 1 \in 1 .. Len(s) /\ (n + 1) - 1 = n /\ n <= Len(s)
    BY <1>2
  <2>2. Good(n) /\ c \in Ids /\ c \in ToSet(s)
    BY <1>2, <1>4, <2>1
  <2>3. more = IF c \notin chosen \/ SameKey(c, so) THEN so ELSE Append(so, c)
    BY <1>1, <2>1
  <2>4. SameKey(c, so) <=> \E m \in ToSet(so) : about[m].key = about[c].key
    BY DEF SameKey, ToSet
  <2>5. /\ more \in Seq(Ids) /\ IsInjective(more) /\ ToSet(more) \subseteq ToSet(s) \cap chosen
        /\ ToSet(so) \subseteq ToSet(more)
        /\ c \in chosen => \E m \in ToSet(more) : about[m].key = about[c].key
    <3>1. CASE c \notin chosen \/ SameKey(c, so)
      BY <2>2, <2>3, <2>4, <3>1
    <3>2. CASE ~(c \notin chosen \/ SameKey(c, so))
      <4>1. c \notin ToSet(so) /\ c \in chosen
        BY <2>4, <3>2
      <4>2. more = Append(so, c) /\ so \in Seq(Ids) /\ IsInjective(so)
        BY <2>2, <2>3, <3>2
      <4>3. /\ more \in Seq(Ids) /\ ToSet(more) = ToSet(so) \cup {c}
            /\ IsInjective(more)
        BY <2>2, <4>1, <4>2, HeldByMore
      <4> QED
        BY <2>2, <4>1, <4>3
    <3> QED
      BY <3>1, <3>2
  <2>6. ASSUME NEW i \in 1 .. n + 1 PROVE Keyed(n + 1, i)
    <3>1. CASE i = n + 1
      BY <2>5, <3>1
    <3>2. CASE i # n + 1
      <4>1. Keyed(n, i)
        BY <2>2, <3>2
      <4> QED
        BY <2>5, <4>1
    <3> QED
      BY <3>1, <3>2
  <2> QED
    BY <2>5, <2>6
<1> HIDE DEF R
<1>5. Len(s) \in R
  BY <1>2, <1>3, <1>4, Induct
<1>6. Good(Len(s))
  BY <1>2, <1>5 DEF R
<1>7. ASSUME NEW c \in ToSet(s) \cap chosen
      PROVE  \E m \in ToSet(f[Len(s)]) : about[m].key = about[c].key
  <2>1. PICK i \in 1 .. Len(s) : c = s[i]
    BY <1>2
  <2> QED
    BY <1>6, <2>1
<1> HIDE DEF Good
<1>8. /\ f[Len(s)] \in Seq(Ids) /\ IsInjective(f[Len(s)])
      /\ ToSet(f[Len(s)]) \subseteq ToSet(s) \cap chosen
  BY <1>6 DEF Good
<1> QED
  BY <1>1, <1>7, <1>8

-----------------------------------------------------------------------------
(* Restatements *)

LEMMA AddSteps ==
  ASSUME candidates \in Seq(Ids), NEW proven \in Seq(Ids)
  PROVE  \E f : /\ f[0] = proven
                /\ \A n \in 1 .. Len(candidates) :
                     f[n] = IF candidates[n] \notin supported \/ Restates(f[n - 1], candidates[n]) THEN f[n - 1]
                            ELSE Append(f[n - 1], candidates[n])
                /\ AddUnlessRestated(proven) = f[Len(candidates)]
<1> DEFINE One(n, so) == IF candidates[n] \notin supported \/ Restates(so, candidates[n]) THEN so ELSE Append(so, candidates[n])
           Body(f) == [n \in 0 .. Len(candidates) |-> IF n = 0 THEN proven ELSE One(n, f[n - 1])]
           step == [p \in (1 .. Len(candidates)) \X Seq(Ids) |-> One(p[1], p[2])]
<1>1. Len(candidates) \in Nat /\ \A n \in 1 .. Len(candidates) : candidates[n] \in Ids
  BY Held
<1>2. step \in [(1 .. Len(candidates)) \X Seq(Ids) -> Seq(Ids)]
  <2>1. ASSUME NEW n \in 1 .. Len(candidates), NEW so \in Seq(Ids) PROVE One(n, so) \in Seq(Ids)
    BY <1>1, HeldByMore
  <2> QED
    BY <2>1
<1>3. PICK g \in [0 .. Len(candidates) -> Seq(Ids)] :
             g[0] = proven /\ \A n \in 1 .. Len(candidates) : g[n] = step[<<n, g[n - 1]>>]
  <2> DEFINE N == Len(candidates)
             Q == Seq(Ids)
             none == proven
  <2>1. N \in Nat /\ none \in Q /\ step \in [(1 .. N) \X Q -> Q]
    BY <1>1, <1>2, HeldByNone
  <2> HIDE DEF step, N, Q, none
  <2>2. \E g : Iteration(g, Q, none, N, step)
    BY <2>1, Iterates
  <2> QED
    BY <2>2 DEF N, Q, none, Iteration
<1>4. g = Body(g)
  <2>1. ASSUME NEW n \in 1 .. Len(candidates) PROVE g[n] = One(n, g[n - 1])
    <3>1. g[n - 1] \in Seq(Ids)
      BY <1>1
    <3>2. step[<<n, g[n - 1]>>] = One(n, g[n - 1])
      BY <3>1
    <3> QED
      BY <1>3, <3>2
  <2> HIDE DEF One, step
  <2>2. \A n \in 0 .. Len(candidates) : g[n] = Body(g)[n]
    BY <1>1, <1>3, <2>1
  <2> QED
    BY <2>2
<1> DEFINE f == CHOOSE f : f = Body(f)
<1>5. f = Body(f)
  <2> HIDE DEF Body
  <2> QED
    BY <1>4
<1>6. AddUnlessRestated(proven) = f[Len(candidates)]
  BY Zenon DEF AddUnlessRestated
<1> HIDE DEF f
<1>7. f[0] = proven /\ \A n \in 1 .. Len(candidates) : f[n] = One(n, f[n - 1])
  <2> HIDE DEF One
  <2>1. \A n \in 0 .. Len(candidates) : f[n] = IF n = 0 THEN proven ELSE One(n, f[n - 1])
    BY <1>5
  <2> QED
    BY <1>1, <2>1
<1> QED
  BY <1>6, <1>7


\* What is supported is added, or restates what has been.
LEMMA AddHolds ==
  ASSUME candidates \in Seq(Ids), NEW proven \in Seq(Ids), ToSet(proven) \subseteq supported
  PROVE  LET all == AddUnlessRestated(proven)
         IN  /\ all \in Seq(Ids) /\ ToSet(all) \subseteq ToSet(proven) \cup ToSet(candidates)
             /\ ToSet(all) \subseteq supported
             /\ \A c \in supported \cap ToSet(candidates) :
                  \/ c \in ToSet(all)
                  \/ /\ about[c].cats # {}
                     /\ \A cat \in about[c].cats :
                          \E m \in ToSet(all) : cat \in about[m].cats /\ Anchors(m, c)
<1> DEFINE L == Len(candidates)
           Proven(c, ms) == /\ about[c].cats # {}
                            /\ \A cat \in about[c].cats :
                                 \E m \in ms : cat \in about[m].cats /\ Anchors(m, c)
<1>0. \A c, so : Restates(so, c) => Proven(c, ToSet(so))
  <2> SUFFICES ASSUME NEW c, NEW so, Restates(so, c) PROVE Proven(c, ToSet(so))
    OBVIOUS
  <2>1. \A i \in DOMAIN so : so[i] \in ToSet(so)
    BY DEF ToSet
  <2> QED
    BY <2>1 DEF Restates
<1>1. PICK f : /\ f[0] = proven
               /\ \A n \in 1 .. L :
                    f[n] = IF candidates[n] \notin supported \/ Restates(f[n - 1], candidates[n])
                           THEN f[n - 1] ELSE Append(f[n - 1], candidates[n])
               /\ AddUnlessRestated(proven) = f[L]
  BY AddSteps
<1>2. L \in Nat /\ (\A n \in 1 .. L : candidates[n] \in Ids)
      /\ ToSet(candidates) = {candidates[n] : n \in 1 .. L}
  BY Held
<1> DEFINE Kept(n, c) == c \in supported => c \in ToSet(f[n]) \/ Proven(c, ToSet(f[n]))
           Good(n) == /\ f[n] \in Seq(Ids)
                      /\ ToSet(f[n]) \subseteq ToSet(proven) \cup ToSet(candidates)
                      /\ ToSet(f[n]) \subseteq supported
                      /\ \A i \in 1 .. n : Kept(n, candidates[i])
           R == {n \in Nat : n <= L => Good(n)}
<1>3. 0 \in R
  <2>1. 1 .. 0 = {}
    OBVIOUS
  <2> QED
    BY <1>1, <2>1
<1>4. ASSUME NEW n \in Nat, n \in R PROVE n + 1 \in R
  <2> SUFFICES ASSUME n + 1 <= L PROVE Good(n + 1)
    <3> HIDE DEF Good
    <3> QED
      OBVIOUS
  <2> DEFINE c == candidates[n + 1]
             so == f[n]
             more == f[n + 1]
  <2>1. n + 1 \in 1 .. L /\ (n + 1) - 1 = n /\ n <= L
    BY <1>2
  <2>2. Good(n) /\ c \in Ids /\ c \in ToSet(candidates)
    BY <1>2, <1>4, <2>1
  <2>3. more = IF c \notin supported \/ Restates(so, c) THEN so ELSE Append(so, c)
    BY <1>1, <2>1
  <2>4. /\ more \in Seq(Ids) /\ ToSet(more) \subseteq ToSet(proven) \cup ToSet(candidates)
        /\ ToSet(more) \subseteq supported /\ ToSet(so) \subseteq ToSet(more)
        /\ Kept(n + 1, c)
    <3>1. CASE c \notin supported \/ Restates(so, c)
      BY <1>0, <2>2, <2>3, <3>1
    <3>2. CASE ~(c \notin supported \/ Restates(so, c))
      <4>1. more = Append(so, c) /\ so \in Seq(Ids) /\ c \in supported
        BY <2>2, <2>3, <3>2
      <4>2. more \in Seq(Ids) /\ ToSet(more) = ToSet(so) \cup {c}
        BY <2>2, <4>1, HeldByMore
      <4> QED
        BY <2>2, <4>1, <4>2
    <3> QED
      BY <3>1, <3>2
  <2>5. ASSUME NEW i \in 1 .. n + 1 PROVE Kept(n + 1, candidates[i])
    <3>1. CASE i = n + 1
      BY <2>4, <3>1
    <3>2. CASE i # n + 1
      <4>1. i \in 1 .. n
        BY <3>2
      <4>2. Kept(n, candidates[i])
        <5> HIDE DEF Kept
        <5> QED
          BY <2>2, <4>1
      <4> QED
        BY <2>4, <4>2
    <3> QED
      BY <3>1, <3>2
  <2> QED
    BY <2>4, <2>5
<1> HIDE DEF R
<1>5. L \in R
  BY <1>2, <1>3, <1>4, Induct
<1>6. Good(L)
  BY <1>2, <1>5 DEF R
<1>7. ASSUME NEW c \in supported \cap ToSet(candidates)
      PROVE  c \in ToSet(f[L]) \/ Proven(c, ToSet(f[L]))
  <2>1. PICK i \in 1 .. L : c = candidates[i]
    BY <1>2
  <2>2. Kept(L, candidates[i])
    BY <1>6, <2>1
  <2> QED
    BY <2>1, <2>2
<1>8. /\ f[L] \in Seq(Ids) /\ ToSet(f[L]) \subseteq ToSet(proven) \cup ToSet(candidates)
      /\ ToSet(f[L]) \subseteq supported
  BY <1>6
<1> HIDE DEF Good, L
<1> QED
  BY <1>1, <1>7, <1>8

-----------------------------------------------------------------------------
(* The report *)

\* Of a bounded list of candidates everything supported is in the report, or what
\* it says is.
LEMMA MergeHolds ==
  ASSUME candidates \in Seq(Ids), Len(candidates) <= MAX_FINDINGS, MAX_FINDINGS \in Nat,
         supported \subseteq ToSet(candidates)
  PROVE  /\ MergeSupported \in Seq(Ids) /\ ToSet(MergeSupported) \subseteq supported
         /\ \A c \in supported :
              \/ \E f \in ToSet(MergeSupported) : about[f].key = about[c].key
              \/ /\ about[c].cats # {}
                 /\ \A cat \in about[c].cats :
                      \E m \in supported :
                        /\ cat \in about[m].cats /\ Anchors(m, c)
                        /\ \E f \in ToSet(MergeSupported) : about[f].key = about[m].key
<1> DEFINE proven == UniqueKeys(candidates, supported \cap Static)
           all    == AddUnlessRestated(proven)
           merged == UniqueKeys(all, supported)
           first  == SubSeq(merged, 1, Min({MAX_FINDINGS, Len(merged)}))
           C      == ToSet(candidates)
           Keyed(c) == \E f \in ToSet(merged) : about[f].key = about[c].key
           Proven(c) == /\ about[c].cats # {}
                        /\ \A cat \in about[c].cats :
                             \E m \in ToSet(all) : cat \in about[m].cats /\ Anchors(m, c)
<1>1. proven \in Seq(Ids) /\ ToSet(proven) \subseteq supported
  BY UniqueKeysHold
<1>2. /\ all \in Seq(Ids) /\ ToSet(all) \subseteq supported
      /\ \A c \in supported \cap C : c \in ToSet(all) \/ Proven(c)
  <2> HIDE DEF proven
  <2> QED
    BY <1>1, AddHolds
<1>3. /\ merged \in Seq(Ids) /\ IsInjective(merged)
      /\ ToSet(merged) \subseteq supported
      /\ \A c \in ToSet(all) \cap supported : Keyed(c)
  <2> HIDE DEF all
  <2> QED
    BY <1>2, UniqueKeysHold
<1>4. first = merged
  <2> HIDE DEF merged
  <2>1. IsFiniteSet(C) /\ Cardinality(C) <= Len(candidates) /\ Cardinality(C) \in Nat
    BY HeldOnce
  <2>2. Len(merged) = Cardinality(ToSet(merged)) /\ Len(merged) \in Nat
    BY <1>3, HeldOnce, Held
  <2>3. ToSet(merged) \subseteq C
    BY <1>3
  <2>4. Cardinality(ToSet(merged)) <= Cardinality(C)
    BY <2>1, <2>3, FS_Subset
  <2>5. Len(candidates) \in Nat
    BY Held
  <2>6. Len(merged) <= MAX_FINDINGS
    BY <2>1, <2>2, <2>4, <2>5
  <2> QED
    BY <1>3, <2>6, HeldAtFirst
<1>5. MergeSupported = merged
  BY <1>4 DEF MergeSupported
<1> HIDE DEF proven, all, merged, first, C
<1>6. ASSUME NEW c \in supported PROVE Keyed(c) \/ Proven(c)
  <2>1. c \in C
    BY DEF C
  <2> HIDE DEF Keyed, Proven
  <2> QED
    BY <1>2, <1>3, <2>1
<1>7. \A m \in ToSet(all) : m \in supported /\ Keyed(m)
  <2> HIDE DEF Keyed
  <2> QED
    BY <1>2, <1>3
<1> QED
  BY <1>3, <1>5, <1>6, <1>7

-----------------------------------------------------------------------------
(* All proposals *)

LEMMA HeldByBoth ==
  ASSUME NEW s \in Seq(Ids), NEW t \in Seq(Ids)
  PROVE  s \o t \in Seq(Ids) /\ ToSet(s \o t) = ToSet(s) \cup ToSet(t)
<1>1. s \o t \in Seq(Ids)
  BY ConcatProperties
<1>2. Range(s \o t) = Range(s) \cup Range(t)
  BY RangeConcatenation
<1> QED
  BY <1>1, <1>2 DEF ToSet, Range

\* A concatenation of sequences holds what they hold.
LEMMA FlattenHolds ==
  ASSUME NEW ss \in Seq(Seq(Ids)), Len(ss) > 0
  PROVE  /\ FlattenSeq(ss) \in Seq(Ids)
         /\ ToSet(FlattenSeq(ss)) = UNION {ToSet(ss[k]) : k \in 1 .. Len(ss)}
<1> DEFINE L == Len(ss)
           Q == Seq(Ids)
           none == <<>>
           step == [p \in (1 .. L) \X Q |-> p[2] \o ss[p[1]]]
           Body(f) == [i \in 1 .. L |-> IF i = 1 THEN ss[i] ELSE f[i - 1] \o ss[i]]
<1>1. L \in Nat /\ \A k \in 1 .. L : ss[k] \in Q
  BY Held
<1>2. none \in Q /\ step \in [(1 .. L) \X Q -> Q]
  BY <1>1, HeldByBoth, HeldByNone
<1>3. PICK g : Iteration(g, Q, none, L, step)
  <2> HIDE DEF L, Q, none, step
  <2> QED
    BY <1>1, <1>2, Iterates
<1>4. /\ g \in [0 .. L -> Q] /\ g[0] = <<>>
      /\ \A k \in 1 .. L : g[k] = g[k - 1] \o ss[k]
  <2>1. ASSUME NEW k \in 1 .. L PROVE g[k] = g[k - 1] \o ss[k]
    <3>1. g[k - 1] \in Q
      <4>1. k - 1 \in 0 .. L
        BY <1>1
      <4> HIDE DEF Q, L, none, step
      <4> QED
        BY <1>3, <4>1 DEF Iteration
    <3>2. g[k] = step[<<k, g[k - 1]>>]
      BY <1>3 DEF Iteration
    <3> HIDE DEF L, Q
    <3> QED
      BY <3>1, <3>2
  <2> QED
    BY <1>3, <2>1 DEF Iteration
<1> DEFINE h == [i \in 1 .. L |-> g[i]]
<1>5. h = Body(h)
  <2>1. ASSUME NEW i \in 1 .. L PROVE h[i] = Body(h)[i]
    <3>1. CASE i = 1
      <4>0. 1 \in 1 .. L /\ 1 - 1 = 0
        BY <3>1
      <4>1. g[1] = <<>> \o ss[1] /\ ss[1] \in Seq(Ids)
        <5> HIDE DEF L
        <5>1. g[1] = g[0] \o ss[1]
          BY <1>4, <4>0
        <5> QED
          BY <1>1, <1>4, <4>0, <5>1
      <4>2. g[1] = ss[1]
        BY <4>1, ConcatEmptySeq
      <4> HIDE DEF L
      <4> QED
        BY <3>1, <4>2
    <3>2. CASE i # 1
      <4>1. i - 1 \in 1 .. L
        BY <1>1, <3>2
      <4> HIDE DEF L
      <4>2. g[i] = g[i - 1] \o ss[i]
        BY <1>4
      <4> QED
        BY <3>2, <4>1, <4>2
    <3> QED
      BY <3>1, <3>2
  <2> QED
    BY <2>1
<1> DEFINE f == CHOOSE f : f = Body(f)
<1>6. f = Body(f)
  <2> HIDE DEF Body, h
  <2> QED
    BY <1>5
<1>7. FlattenSeq(ss) = f[L]
  <2>1. Len(ss) # 0
    BY <1>1
  <2> QED
    BY Zenon, <2>1 DEF FlattenSeq
<1> HIDE DEF f
<1>8. \A i \in 1 .. L : f[i] = IF i = 1 THEN ss[i] ELSE f[i - 1] \o ss[i]
  <2> HIDE DEF L
  <2> QED
    BY <1>6
<1> DEFINE Good(n) == f[n] \in Q /\ ToSet(f[n]) = UNION {ToSet(ss[k]) : k \in 1 .. n}
           R == {n \in Nat : n + 1 <= L => Good(n + 1)}
<1>9. 0 \in R
  <2>1. f[1] = ss[1] /\ ss[1] \in Q
    BY <1>1, <1>8
  <2>2. 1 .. 1 = {1}
    OBVIOUS
  <2>3. UNION {ToSet(ss[k]) : k \in {1}} = ToSet(ss[1])
    OBVIOUS
  <2>4. Good(1)
    <3> HIDE DEF Q
    <3> QED
      BY <2>1, <2>2, <2>3
  <2>5. 0 + 1 = 1
    OBVIOUS
  <2> HIDE DEF Good
  <2> QED
    BY <2>4, <2>5
<1>10. ASSUME NEW n \in Nat, n \in R PROVE n + 1 \in R
  <2> SUFFICES ASSUME (n + 1) + 1 <= L PROVE Good((n + 1) + 1)
    OBVIOUS
  <2> DEFINE m == n + 1
  <2>1. m \in Nat /\ m + 1 \in 1 .. L /\ m + 1 # 1 /\ (m + 1) - 1 = m /\ m <= L
    BY <1>1
  <2>2. Good(m)
    BY <1>10, <2>1
  <2> HIDE DEF m
  <2>3. f[m + 1] = f[m] \o ss[m + 1] /\ ss[m + 1] \in Q
    BY <1>1, <1>8, <2>1
  <2>4. f[m + 1] \in Q /\ ToSet(f[m + 1]) = ToSet(f[m]) \cup ToSet(ss[m + 1])
    BY <2>2, <2>3, HeldByBoth
  <2>5. UNION {ToSet(ss[k]) : k \in 1 .. m + 1}
          = (UNION {ToSet(ss[k]) : k \in 1 .. m}) \cup ToSet(ss[m + 1])
    <3>1. \A k : k \in 1 .. m + 1 <=> k \in 1 .. m \/ k = m + 1
      BY <2>1
    <3> QED
      BY Zenon, <3>1
  <2>6. Good(m + 1)
    BY <2>2, <2>4, <2>5
  <2> QED
    BY <2>6 DEF m
<1> HIDE DEF R
<1>11. L - 1 \in R
  <2>1. Nat \subseteq R
    BY <1>9, <1>10, Induct
  <2>2. L - 1 \in Nat
    BY <1>1
  <2> QED
    BY <2>1, <2>2
<1>12. Good(L)
  <2>1. (L - 1) + 1 = L
    BY <1>1
  <2> QED
    BY <1>1, <1>11, <2>1 DEF R
<1> QED
  BY <1>7, <1>12

\* The detectors' proposals and every scout's.
SourceTypes == /\ Scouts \in Nat \ {0} /\ MAX_FINDINGS \in Nat \ {0}
               /\ sources \in Seq(Seq(Ids)) /\ Len(sources) = Scouts + 1

LEMMA AllHolds ==
  ASSUME SourceTypes
  PROVE  All \in Seq(Ids) /\ ToSet(All) = Static \cup Model /\ IsInjective(All)
<1>1. Len(sources) > 0 /\ Len(sources) \in Nat
  BY DEF SourceTypes
<1>2. /\ FlattenSeq(sources) \in Seq(Ids)
      /\ ToSet(FlattenSeq(sources)) = UNION {ToSet(sources[k]) : k \in 1 .. Len(sources)}
  BY <1>1, FlattenHolds DEF SourceTypes
<1>3. UNION {ToSet(sources[k]) : k \in 1 .. Len(sources)} = Static \cup Model
  <2>1. \A k : k \in 1 .. Len(sources) <=> k = 1 \/ k \in 2 .. Len(sources)
    BY <1>1
  <2> QED
    BY Zenon, <2>1 DEF Static, Model
<1> QED
  BY <1>2, <1>3, UniqueHolds DEF All

-----------------------------------------------------------------------------
(* The turns of the scouts *)

Proposed(k) == ToSet(sources[k + 1])
Turning == [list : Seq(Ids), next : 1 .. Scouts]

LEMMA SourcesHold ==
  ASSUME SourceTypes
  PROVE  /\ sources[1] \in Seq(Ids) /\ Static = ToSet(sources[1])
         /\ \A k \in 1 .. Scouts : sources[k + 1] \in Seq(Ids) /\ Proposed(k) \subseteq Ids
<1>1. \A k \in 1 .. Len(sources) : sources[k] \in Seq(Ids)
  BY Held DEF SourceTypes
<1>2. 1 \in 1 .. Len(sources) /\ \A k \in 1 .. Scouts : k + 1 \in 1 .. Len(sources)
  BY DEF SourceTypes
<1> QED
  BY <1>1, <1>2, Held DEF Static, Proposed

\* In a turn one proposal of the scout is added that is not in the list nor a
\* detector's, if there is one and the list is not full.
LEMMA TurnHolds ==
  ASSUME SourceTypes, NEW so \in Turning
  PROVE  LET fresh == Proposed(so.next) \ (ToSet(so.list) \cup Static)
         IN  /\ Turn(so) \in Turning
             /\ Turn(so).next = IF so.next = Scouts THEN 1 ELSE so.next + 1
             /\ Len(so.list) >= MAX_FINDINGS \/ fresh = {} => Turn(so).list = so.list
             /\ ~(Len(so.list) >= MAX_FINDINGS \/ fresh = {}) =>
                  \E c \in fresh : Turn(so).list = Append(so.list, c)
<1> DEFINE k == so.next
           list == so.list
           queue == Queue(k)
           places == Fresh(list, queue)
           fresh == Proposed(k) \ (ToSet(list) \cup Static)
           Full == Len(list) >= MAX_FINDINGS
           then == IF k = Scouts THEN 1 ELSE k + 1
<1>1. list \in Seq(Ids) /\ k \in 1 .. Scouts /\ then \in 1 .. Scouts
  BY DEF Turning, SourceTypes
<1>2. queue \in Seq(Ids) /\ ToSet(queue) = Proposed(k)
  <2>1. sources[k + 1] \in Seq(Ids)
    BY <1>1, SourcesHold
  <2> QED
    BY <2>1, UniqueHolds DEF Queue, Proposed
<1>3. DOMAIN queue = 1 .. Len(queue) /\ Len(queue) \in Nat
      /\ ToSet(queue) = {queue[i] : i \in 1 .. Len(queue)}
  <2> HIDE DEF queue
  <2> QED
    BY <1>2, Held
<1>4. places = {i \in 1 .. Len(queue) : queue[i] \notin ToSet(list) \cup Static}
  BY <1>3 DEF Fresh
<1>5. fresh = {} <=> places = {}
  <2> HIDE DEF places, queue, list, k
  <2> QED
    BY <1>2, <1>3, <1>4
<1>6. places # {} => queue[Min(places)] \in fresh
  <2> SUFFICES ASSUME places # {} PROVE queue[Min(places)] \in fresh
    OBVIOUS
  <2> HIDE DEF queue, list, k
  <2>1. places \in SUBSET Nat
    BY <1>3, <1>4
  <2> HIDE DEF places
  <2>2. \E n \in places : \A m \in places : n <= m
    BY <2>1, Least
  <2>3. Min(places) \in places
    BY <2>2 DEF Min
  <2> QED
    BY <1>2, <1>3, <1>4, <2>3
<1>7. Turn(so) = [list |-> IF Full \/ places = {} THEN list ELSE Append(list, queue[Min(places)]),
                  next |-> then]
  BY DEF Turn
<1> DEFINE c == queue[Min(places)]
<1> HIDE DEF places, queue, c, list, k, then
<1>8. Turn(so).next = then
  BY <1>7
<1>9. CASE Full \/ fresh = {}
  <2>1. Turn(so) = [list |-> list, next |-> then]
    BY <1>5, <1>7, <1>9
  <2>2. Turn(so).list = list
    BY <2>1
  <2> QED
    BY <1>1, <1>8, <1>9, <2>1, <2>2 DEF Turning, list, k, then
<1>10. CASE ~(Full \/ fresh = {})
  <2>1. Turn(so) = [list |-> Append(list, c), next |-> then] /\ c \in fresh
    BY <1>5, <1>6, <1>7, <1>10 DEF c
  <2>2. c \in Ids
    BY <1>1, <2>1, SourcesHold
  <2>3. Append(list, c) \in Seq(Ids)
    BY <1>1, <2>2, HeldByMore
  <2>4. Turn(so).list = Append(list, c)
    BY <2>1
  <2>5. Turn(so) \in Turning
    BY <1>1, <2>1, <2>3 DEF Turning
  <2> QED
    BY <1>8, <1>10, <2>1, <2>4, <2>5 DEF list, k, then
<1> QED
  BY <1>9, <1>10

TurnLimit == Scouts * MAX_FINDINGS
TurnFirst ==
  [list |-> SubSeq(Unique(sources[1]), 1, Min({MAX_FINDINGS, Len(Unique(sources[1]))})),
   next |-> 1]

LEMMA TurnLimits == ASSUME SourceTypes PROVE TurnLimit \in Nat
<1>1. Scouts \in Nat /\ MAX_FINDINGS \in Nat
  BY DEF SourceTypes
<1>2. \A a, b \in Nat : a * b \in Nat
  OBVIOUS
<1> QED
  BY <1>1, <1>2 DEF TurnLimit

\* The detectors' proposals come first, and fill the list or are all in it.
LEMMA FirstHolds ==
  ASSUME SourceTypes
  PROVE  /\ TurnFirst \in Turning /\ TurnFirst.next = 1
         /\ Len(TurnFirst.list) <= MAX_FINDINGS /\ IsInjective(TurnFirst.list)
         /\ ToSet(TurnFirst.list) \subseteq Static
         /\ Static \subseteq ToSet(TurnFirst.list) \/ Len(TurnFirst.list) = MAX_FINDINGS
<1> DEFINE s == Unique(sources[1])
           first == SubSeq(s, 1, Min({MAX_FINDINGS, Len(s)}))
<1>1. s \in Seq(Ids) /\ ToSet(s) = Static /\ IsInjective(s)
  BY SourcesHold, UniqueHolds
<1>2. MAX_FINDINGS \in Nat /\ 1 \in 1 .. Scouts
  BY DEF SourceTypes
<1> HIDE DEF s
<1>3. /\ first \in Seq(Ids) /\ ToSet(first) \subseteq ToSet(s)
      /\ Len(first) <= MAX_FINDINGS /\ IsInjective(first)
      /\ Len(s) <= MAX_FINDINGS => first = s
      /\ Len(s) > MAX_FINDINGS => Len(first) = MAX_FINDINGS
  BY <1>1, <1>2, HeldAtFirst
<1>4. Len(s) \in Nat
  BY <1>1, Held
<1>5. Static \subseteq ToSet(first) \/ Len(first) = MAX_FINDINGS
  <2> HIDE DEF first
  <2>1. CASE Len(s) <= MAX_FINDINGS
    BY <1>1, <1>3, <2>1
  <2>2. CASE Len(s) > MAX_FINDINGS
    BY <1>3, <2>2
  <2> QED
    BY <1>2, <1>4, <2>1, <2>2
<1>6. TurnFirst = [list |-> first, next |-> 1]
  BY DEF TurnFirst, s
<1> HIDE DEF first
<1>7. TurnFirst.list = first /\ TurnFirst.next = 1
  BY <1>6
<1> QED
  BY <1>1, <1>2, <1>3, <1>5, <1>6, <1>7 DEF Turning

LEMMA TurnsSteps ==
  ASSUME SourceTypes
  PROVE  Turns[0] = TurnFirst /\ \A n \in 1 .. TurnLimit : Turns[n] = Turn(Turns[n - 1])
<1> DEFINE L == TurnLimit
           Body(f) == [n \in 0 .. L |-> IF n = 0 THEN TurnFirst ELSE Turn(f[n - 1])]
           step == [p \in (1 .. L) \X Turning |-> Turn(p[2])]
<1>1. L \in Nat /\ TurnFirst \in Turning
  BY TurnLimits, FirstHolds
<1>2. step \in [(1 .. L) \X Turning -> Turning]
  <2>1. \A so \in Turning : Turn(so) \in Turning
    BY TurnHolds
  <2> QED
    BY <2>1
<1> HIDE DEF L
<1>3. PICK g : Iteration(g, Turning, TurnFirst, L, step)
  <2> HIDE DEF step
  <2> QED
    BY <1>1, <1>2, Iterates
<1>4. g = Body(g)
  <2>1. g \in [0 .. L -> Turning] /\ g[0] = TurnFirst
    BY <1>3 DEF Iteration
  <2>2. ASSUME NEW n \in 1 .. L PROVE g[n] = Turn(g[n - 1])
    <3>1. n - 1 \in 0 .. L
      BY <1>1
    <3>2. g[n - 1] \in Turning
      BY <2>1, <3>1
    <3>3. g[n] = step[<<n, g[n - 1]>>]
      BY <1>3 DEF Iteration
    <3> QED
      BY <3>2, <3>3
  <2>3. \A n \in 0 .. L : g[n] = Body(g)[n]
    BY <1>1, <2>1, <2>2
  <2> QED
    BY <2>1, <2>3
<1>5. Turns = CHOOSE f : f = Body(f)
  BY Zenon DEF Turns, TurnFirst, TurnLimit, L
<1>6. Turns = Body(Turns)
  <2> HIDE DEF Body
  <2> QED
    BY <1>4, <1>5
<1>7. \A n \in 0 .. L : Turns[n] = IF n = 0 THEN TurnFirst ELSE Turn(Turns[n - 1])
  <2> DEFINE t == Turns
  <2>1. t = Body(t)
    BY <1>6
  <2> HIDE DEF t
  <2>2. \A n \in 0 .. L : t[n] = IF n = 0 THEN TurnFirst ELSE Turn(t[n - 1])
    BY <2>1
  <2> QED
    BY <2>2 DEF t
<1> QED
  BY <1>1, <1>7 DEF L

\* A list in the making: no repetitions, not too long, the detectors' proposals
\* first.
GoodList(so) ==
  /\ so \in Turning /\ Len(so.list) <= MAX_FINDINGS /\ IsInjective(so.list)
  /\ \/ Static \subseteq ToSet(so.list)
     \/ Len(so.list) = MAX_FINDINGS /\ ToSet(so.list) \subseteq Static

LEMMA TurnIsGood ==
  ASSUME SourceTypes, NEW so, GoodList(so)
  PROVE  GoodList(Turn(so))
<1> DEFINE fresh == Proposed(so.next) \ (ToSet(so.list) \cup Static)
           Full == Len(so.list) >= MAX_FINDINGS
<1>1. /\ Turn(so) \in Turning
      /\ Full \/ fresh = {} => Turn(so).list = so.list
      /\ ~(Full \/ fresh = {}) => \E c \in fresh : Turn(so).list = Append(so.list, c)
  BY TurnHolds DEF GoodList
<1>2. CASE Full \/ fresh = {}
  <2>1. Turn(so).list = so.list
    BY <1>1, <1>2
  <2> QED
    BY <1>1, <2>1 DEF GoodList
<1>3. CASE ~(Full \/ fresh = {})
  <2>1. PICK c \in fresh : Turn(so).list = Append(so.list, c)
    BY <1>1, <1>3
  <2>2. so.list \in Seq(Ids) /\ so.next \in 1 .. Scouts /\ IsInjective(so.list)
    BY DEF GoodList, Turning
  <2>3. c \in Ids /\ c \notin ToSet(so.list)
    BY <2>2, SourcesHold
  <2>4. /\ Len(Turn(so).list) = Len(so.list) + 1 /\ IsInjective(Turn(so).list)
        /\ ToSet(Turn(so).list) = ToSet(so.list) \cup {c}
    BY <2>1, <2>2, <2>3, HeldByMore
  <2>5. Len(so.list) \in Nat /\ MAX_FINDINGS \in Nat /\ Len(so.list) < MAX_FINDINGS
    BY <1>3, <2>2, Held DEF SourceTypes
  <2>6. Static \subseteq ToSet(so.list)
    BY <2>5 DEF GoodList
  <2> QED
    BY <1>1, <2>4, <2>5, <2>6 DEF GoodList
<1> QED
  BY <1>2, <1>3

\* What of a list scout k proposed, and what no other did.
Of(k, listed) == (Proposed(k) \cap listed) \ Static
Own(k, listed) == Of(k, listed) \ UNION {Proposed(j) : j \in (1 .. Scouts) \ {k}}
Had(k, so) == IF k < so.next THEN 1 ELSE 0

\* While k has proposals left, it has had one accepted in each of its turns, and
\* j has at most one more of its own.
Balanced(k, j, so) ==
  Proposed(k) \ (ToSet(so.list) \cup Static) # {} =>
    /\ Cardinality(Own(j, ToSet(so.list))) <= Cardinality(Of(k, ToSet(so.list))) + 1
    /\ Len(so.list) < MAX_FINDINGS =>
         \E r \in Nat : /\ Cardinality(Of(k, ToSet(so.list))) >= r + Had(k, so)
                        /\ Cardinality(Own(j, ToSet(so.list))) <= r + Had(j, so)

\* How these change when c is added to a list in scout i's turn.
LEMMA OneIsAdded ==
  ASSUME SourceTypes, NEW list \in Seq(Ids), NEW i \in 1 .. Scouts,
         NEW c \in Proposed(i) \ (ToSet(list) \cup Static),
         NEW k \in 1 .. Scouts, NEW j \in 1 .. Scouts
  PROVE  LET old == ToSet(list)
             new == ToSet(list) \cup {c}
         IN  /\ Cardinality(Of(k, old)) \in Nat /\ Cardinality(Of(k, new)) \in Nat
             /\ Cardinality(Own(j, old)) \in Nat /\ Cardinality(Own(j, new)) \in Nat
             /\ Cardinality(Of(k, new)) >= Cardinality(Of(k, old)) + (IF i = k THEN 1 ELSE 0)
             /\ Cardinality(Own(j, new)) <= Cardinality(Own(j, old)) + (IF i = j THEN 1 ELSE 0)
<1> DEFINE old == ToSet(list)
           new == old \cup {c}
<1>1. IsFiniteSet(old)
  BY HeldOnce
<1>2. IsFiniteSet(new)
  BY <1>1, FS_AddElement
<1> HIDE DEF old
<1>3. /\ IsFiniteSet(Of(k, old)) /\ IsFiniteSet(Of(k, new))
      /\ IsFiniteSet(Own(j, old)) /\ IsFiniteSet(Own(j, new))
  <2>1. /\ Of(k, old) \in SUBSET old /\ Own(j, old) \in SUBSET old
        /\ Of(k, new) \in SUBSET new /\ Own(j, new) \in SUBSET new
    BY DEF Of, Own
  <2> HIDE DEF new
  <2> QED
    BY <1>1, <1>2, <2>1, FS_Subset
<1>4. /\ Cardinality(Of(k, old)) \in Nat /\ Cardinality(Of(k, new)) \in Nat
      /\ Cardinality(Own(j, old)) \in Nat /\ Cardinality(Own(j, new)) \in Nat
  BY <1>3, FS_CardinalityType
<1>5. Cardinality(Of(k, new)) >= Cardinality(Of(k, old)) + (IF i = k THEN 1 ELSE 0)
  <2>1. CASE i = k
    <3>1. Of(k, new) = Of(k, old) \cup {c} /\ c \notin Of(k, old)
      BY <2>1 DEF Of, old
    <3>2. Cardinality(Of(k, new)) = Cardinality(Of(k, old)) + 1
      BY <1>3, <3>1, FS_AddElement
    <3> QED
      BY <1>4, <2>1, <3>2
  <2>2. CASE i # k
    <3>1. Of(k, old) \in SUBSET Of(k, new)
      BY DEF Of
    <3>2. Cardinality(Of(k, old)) <= Cardinality(Of(k, new))
      BY <1>3, <3>1, FS_Subset
    <3> QED
      BY <1>4, <2>2, <3>2
  <2> QED
    BY <2>1, <2>2
<1>6. Cardinality(Own(j, new)) <= Cardinality(Own(j, old)) + (IF i = j THEN 1 ELSE 0)
  <2>1. CASE i = j
    <3>1. Own(j, new) \in SUBSET (Own(j, old) \cup {c})
      BY DEF Own, Of
    <3>2. /\ IsFiniteSet(Own(j, old) \cup {c})
          /\ Cardinality(Own(j, old) \cup {c})
               = IF c \in Own(j, old) THEN Cardinality(Own(j, old)) ELSE Cardinality(Own(j, old)) + 1
      BY <1>3, FS_AddElement
    <3>3. Cardinality(Own(j, new)) <= Cardinality(Own(j, old) \cup {c})
      BY <3>1, <3>2, FS_Subset
    <3> QED
      BY <1>4, <2>1, <3>2, <3>3
  <2>2. CASE i # j
    <3>1. c \in UNION {Proposed(h) : h \in (1 .. Scouts) \ {j}}
      BY <2>2
    <3>2. Own(j, new) \in SUBSET Own(j, old)
      BY <3>1 DEF Own, Of
    <3>3. Cardinality(Own(j, new)) <= Cardinality(Own(j, old))
      BY <1>3, <3>2, FS_Subset
    <3> QED
      BY <1>4, <2>2, <3>3
  <2> QED
    BY <2>1, <2>2
<1> QED
  BY <1>4, <1>5, <1>6 DEF old

LEMMA TurnIsBalanced ==
  ASSUME SourceTypes, NEW so, GoodList(so),
         NEW k \in 1 .. Scouts, NEW j \in 1 .. Scouts, Balanced(k, j, so)
  PROVE  Balanced(k, j, Turn(so))
<1> DEFINE i == so.next
           t == Turn(so)
           old == ToSet(so.list)
           new == ToSet(t.list)
           fresh == Proposed(i) \ (old \cup Static)
           Full == Len(so.list) >= MAX_FINDINGS
<1>0. /\ so.list \in Seq(Ids) /\ i \in 1 .. Scouts
      /\ Scouts \in Nat /\ MAX_FINDINGS \in Nat /\ Len(so.list) \in Nat
  BY Held DEF GoodList, Turning, SourceTypes
<1>1. /\ t.next = IF i = Scouts THEN 1 ELSE i + 1
      /\ Full \/ fresh = {} => t.list = so.list
      /\ ~(Full \/ fresh = {}) => \E c \in fresh : t.list = Append(so.list, c)
  BY TurnHolds DEF GoodList
<1> SUFFICES ASSUME Proposed(k) \ (new \cup Static) # {}
             PROVE  /\ Cardinality(Own(j, new)) <= Cardinality(Of(k, new)) + 1
                    /\ Len(t.list) < MAX_FINDINGS =>
                         \E r \in Nat : /\ Cardinality(Of(k, new)) >= r + Had(k, t)
                                        /\ Cardinality(Own(j, new)) <= r + Had(j, t)
  BY DEF Balanced
<1> HIDE DEF t, i
<1>2. CASE Full
  <2>1. t.list = so.list
    BY <1>1, <1>2
  <2>2. Cardinality(Own(j, new)) <= Cardinality(Of(k, new)) + 1
    BY <2>1 DEF Balanced
  <2>3. ~(Len(t.list) < MAX_FINDINGS)
    BY <1>0, <1>2, <2>1
  <2> QED
    BY <2>2, <2>3
<1>3. CASE ~Full
  <2> DEFINE ok == Cardinality(Of(k, old))
             oj == Cardinality(Own(j, old))
             nk == Cardinality(Of(k, new))
             nj == Cardinality(Own(j, new))
             Goes(x) == IF i = x THEN 1 ELSE 0
             Has(x) == IF x < i THEN 1 ELSE 0
             Will(x) == IF x < t.next THEN 1 ELSE 0
  <2>1. old \subseteq new
    <3>1. CASE fresh = {}
      BY <1>1, <3>1
    <3>2. CASE fresh # {}
      <4>1. PICK c \in fresh : t.list = Append(so.list, c)
        BY <1>1, <1>3, <3>2
      <4>2. c \in Ids
        BY <1>0, SourcesHold
      <4> QED
        BY <1>0, <4>1, <4>2, HeldByMore
    <3> QED
      BY <3>1, <3>2
  <2>2. Proposed(k) \ (old \cup Static) # {}
    BY <2>1
  <2>3. PICK r \in Nat : ok >= r + Has(k) /\ oj <= r + Has(j)
    BY <1>0, <1>3, <2>2 DEF Balanced, Had, i
  <2>4. /\ ok \in Nat /\ nk \in Nat /\ oj \in Nat /\ nj \in Nat
        /\ nk >= ok + Goes(k) /\ nj <= oj + Goes(j)
    <3>1. CASE fresh = {}
      <4>1. t.list = so.list /\ i # k
        BY <1>1, <2>2, <3>1
      <4>2. IsFiniteSet(old)
        BY <1>0, HeldOnce
      <4>3. Of(k, old) \in SUBSET old /\ Own(j, old) \in SUBSET old
        BY DEF Of, Own
      <4>4. ok \in Nat /\ oj \in Nat
        <5> HIDE DEF old
        <5>1. IsFiniteSet(Of(k, old)) /\ IsFiniteSet(Own(j, old))
          BY <4>2, <4>3, FS_Subset
        <5> QED
          BY <5>1, FS_CardinalityType
      <4>5. nk = ok /\ nj = oj
        BY <4>1
      <4> HIDE DEF ok, oj, nk, nj
      <4> QED
        BY <4>1, <4>4, <4>5
    <3>2. CASE fresh # {}
      <4>1. PICK c \in fresh : t.list = Append(so.list, c)
        BY <1>1, <1>3, <3>2
      <4>2. c \in Ids
        BY <1>0, SourcesHold
      <4>3. new = old \cup {c}
        BY <1>0, <4>1, <4>2, HeldByMore
      <4> QED
        BY <1>0, <4>1, <4>3, OneIsAdded
    <3> QED
      BY <3>1, <3>2
  <2>5. nj <= nk + 1 /\ \E q \in Nat : nk >= q + Will(k) /\ nj <= q + Will(j)
    <3> DEFINE q == IF i = Scouts THEN r + 1 ELSE r
    <3>1. t.next = IF i = Scouts THEN 1 ELSE i + 1
      BY <1>1
    <3> HIDE DEF ok, oj, nk, nj
    <3>2. q \in Nat
      OBVIOUS
    <3>3. nk >= q + Will(k) /\ nj <= q + Will(j)
      <4>1. CASE i = Scouts
        BY <1>0, <2>3, <2>4, <3>1, <4>1
      <4>2. CASE i # Scouts
        BY <1>0, <2>3, <2>4, <3>1, <4>2
      <4> QED
        BY <4>1, <4>2
    <3>4. nj <= nk + 1
      BY <2>3, <2>4
    <3> QED
      BY <3>2, <3>3, <3>4
  <2> QED
    BY <2>5 DEF Had
<1> QED
  BY <1>2, <1>3

\* Every list the turns make.
LEMMA TurnsHold ==
  ASSUME SourceTypes
  PROVE  LET so == Turns[TurnLimit]
         IN  GoodList(so) /\ \A k, j \in 1 .. Scouts : Balanced(k, j, so)
<1> DEFINE Good(n) == /\ GoodList(Turns[n])
                      /\ \A k, j \in 1 .. Scouts : Balanced(k, j, Turns[n])
           R == {n \in Nat : n <= TurnLimit => Good(n)}
<1>1. /\ TurnLimit \in Nat /\ Turns[0] = TurnFirst
      /\ \A n \in 1 .. TurnLimit : Turns[n] = Turn(Turns[n - 1])
  BY TurnLimits, TurnsSteps
<1>2. 0 \in R
  <2>1. GoodList(TurnFirst)
    BY FirstHolds DEF GoodList
  <2>2. ASSUME NEW k \in 1 .. Scouts, NEW j \in 1 .. Scouts PROVE Balanced(k, j, TurnFirst)
    <3>1. Of(k, ToSet(TurnFirst.list)) = {} /\ Own(j, ToSet(TurnFirst.list)) = {}
      BY FirstHolds DEF Of, Own
    <3>2. Cardinality({}) = 0
      BY FS_EmptySet
    <3>3. Had(k, TurnFirst) = 0 /\ Had(j, TurnFirst) = 0
      BY FirstHolds DEF Had, SourceTypes
    <3> QED
      BY <3>1, <3>2, <3>3 DEF Balanced
  <2> QED
    BY <1>1, <2>1, <2>2
<1>3. ASSUME NEW n \in Nat, n \in R PROVE n + 1 \in R
  <2> SUFFICES ASSUME n + 1 <= TurnLimit PROVE Good(n + 1)
    OBVIOUS
  <2>1. n + 1 \in 1 .. TurnLimit /\ (n + 1) - 1 = n /\ n <= TurnLimit
    BY <1>1
  <2>2. Turns[n + 1] = Turn(Turns[n]) /\ Good(n)
    BY <1>1, <1>3, <2>1
  <2>3. GoodList(Turn(Turns[n]))
    BY <2>2, TurnIsGood
  <2>4. \A k, j \in 1 .. Scouts : Balanced(k, j, Turn(Turns[n]))
    BY <2>2, TurnIsBalanced
  <2> QED
    BY <2>2, <2>3, <2>4
<1> HIDE DEF R
<1>4. TurnLimit \in R
  BY <1>1, <1>2, <1>3, Induct
<1> QED
  BY <1>1, <1>4 DEF R

\* The list of candidates: bounded, without repetitions, detectors first, scouts
\* on an equal footing, and either nothing is left out or something is displaced.
LEMMA MergeIsFair ==
  ASSUME SourceTypes
  PROVE  LET listed == ToSet(Merge)
         IN  /\ Merge \in Seq(Ids) /\ Len(Merge) <= MAX_FINDINGS /\ IsInjective(Merge)
             /\ Static \subseteq listed \/ listed \subseteq Static
             /\ \A k, j \in 1 .. Scouts :
                  Proposed(k) \ (listed \cup Static) # {} =>
                    Cardinality(Own(j, listed)) <= Cardinality(Of(k, listed)) + 1
             /\ ~Displaced => Static \cup Model \subseteq listed
<1>1. MAX_FINDINGS \in Nat /\ All \in Seq(Ids) /\ Len(All) \in Nat
      /\ ToSet(All) = Static \cup Model /\ IsInjective(All)
  BY AllHolds, Held DEF SourceTypes
<1>2. CASE Len(All) <= MAX_FINDINGS
  <2>1. Merge = All
    BY <1>2 DEF Merge
  <2>2. ASSUME NEW k \in 1 .. Scouts PROVE Proposed(k) \subseteq Model
    <3>1. k + 1 \in 2 .. Len(sources)
      BY DEF SourceTypes
    <3> QED
      BY <3>1 DEF Proposed, Model
  <2> QED
    BY <1>1, <1>2, <2>1, <2>2
<1>3. CASE ~(Len(All) <= MAX_FINDINGS)
  <2> DEFINE so == Turns[TurnLimit]
  <2>1. Merge = so.list
    BY <1>3 DEF Merge, TurnLimit
  <2>2. GoodList(so) /\ \A k, j \in 1 .. Scouts : Balanced(k, j, so)
    BY TurnsHold
  <2> HIDE DEF so
  <2>3. /\ Merge \in Seq(Ids) /\ Len(Merge) <= MAX_FINDINGS /\ IsInjective(Merge)
        /\ Static \subseteq ToSet(Merge) \/ ToSet(Merge) \subseteq Static
    BY <2>1, <2>2 DEF GoodList, Turning
  <2>4. ASSUME NEW k \in 1 .. Scouts, NEW j \in 1 .. Scouts,
               Proposed(k) \ (ToSet(Merge) \cup Static) # {}
        PROVE  Cardinality(Own(j, ToSet(Merge))) <= Cardinality(Of(k, ToSet(Merge))) + 1
    BY <2>1, <2>2, <2>4 DEF Balanced
  <2>5. Displaced
    <3>1. Len(Merge) \in Nat
      BY <2>3, Held
    <3> QED
      BY <1>1, <1>3, <2>3, <3>1 DEF Displaced
  <2> QED
    BY <2>3, <2>4, <2>5
<1> QED
  BY <1>2, <1>3

-----------------------------------------------------------------------------
(* The review *)

Proposing == stage \in {"detect", "scout"}
Listed == stage \in {"adjudicate", "report", "done"}

\* The list is the merged one from the time on that it is made, and the count of
\* what is discarded goes along with it; the report is made of it.
ReviewInv ==
  /\ setting \in Settings /\ omitted \in BOOLEAN
  /\ stage \in {"detect", "scout", "adjudicate", "report", "done", "failed"}
  /\ sources \in Seq(Seq(Ids)) /\ Len(sources) <= Scouts + 1
  /\ dropped \in Nat
  /\ Proposing => candidates = <<>>
  /\ Proposing \/ stage = "adjudicate" => accepted = {} /\ supported = {}
  /\ Listed \/ candidates # <<>> => Len(sources) = Scouts + 1 /\ candidates = Merge
  /\ Listed => displaced = Displaced
  /\ supported \subseteq accepted /\ accepted \subseteq ToSet(candidates)
  /\ stage = "adjudicate" => discarded = dropped + Cardinality(Model \ ToSet(candidates))
  /\ stage \in {"report", "done"} =>
       discarded = (dropped + Cardinality(Model \ ToSet(candidates)))
                     + Refused(accepted \ supported, ToSet(candidates) \ accepted)
  /\ report = IF stage = "done"
              THEN [verdict  |-> Verdict(MergeSupported),
                    findings |-> MergeSupported,
                    model    |-> Cardinality(supported \cap Model)]
              ELSE NoReport

LEMMA ReviewTypes ==
  ASSUME ReviewInv
  PROVE  /\ Scouts \in Nat \ {0} /\ MAX_FINDINGS \in Nat \ {0}
         /\ Listed \/ candidates # <<>> => SourceTypes
         /\ candidates \in Seq(Ids) /\ Len(candidates) <= MAX_FINDINGS
         /\ IsInjective(candidates)
<1>1. Scouts \in Nat \ {0} /\ MAX_FINDINGS \in Nat \ {0}
  BY SettingAssumption DEF ReviewInv, Scouts, MAX_FINDINGS
<1>2. Listed \/ candidates # <<>> => SourceTypes
  BY <1>1 DEF ReviewInv, SourceTypes
<1>3. CASE Listed \/ candidates # <<>>
  BY <1>1, <1>2, <1>3, MergeIsFair DEF ReviewInv
<1>4. CASE candidates = <<>>
  <2>1. <<>> \in Seq(Ids) /\ Len(<<>>) = 0 /\ IsInjective(<<>>)
    BY HeldByNone
  <2> QED
    BY <1>1, <1>2, <1>4, <2>1
<1> QED
  BY <1>3, <1>4

LEMMA BudgetIsFair == ASSUME ReviewInv PROVE FairBudget
<1> SUFFICES ASSUME candidates # <<>> PROVE FairBudget
  BY DEF FairBudget
<1> DEFINE listed == ToSet(candidates)
           of(k)  == (ToSet(sources[k]) \cap listed) \ Static
           own(k) == of(k) \ UNION {ToSet(sources[j]) : j \in (2 .. Len(sources)) \ {k}}
<1>1. SourceTypes /\ candidates = Merge /\ Len(sources) = Scouts + 1 /\ Scouts \in Nat
  BY ReviewTypes DEF ReviewInv
<1>2. /\ Static \subseteq listed \/ listed \subseteq Static
      /\ \A k, j \in 1 .. Scouts :
           Proposed(k) \ (listed \cup Static) # {} =>
             Cardinality(Own(j, listed)) <= Cardinality(Of(k, listed)) + 1
  BY <1>1, MergeIsFair
<1> HIDE DEF listed
<1>3. ASSUME NEW k \in 2 .. Len(sources)
      PROVE  /\ k - 1 \in 1 .. Scouts /\ Proposed(k - 1) = ToSet(sources[k])
             /\ Of(k - 1, listed) = of(k) /\ Own(k - 1, listed) = own(k)
  <2>1. k - 1 \in 1 .. Scouts /\ (k - 1) + 1 = k
    BY <1>1
  <2>2. Proposed(k - 1) = ToSet(sources[k])
    BY <2>1 DEF Proposed
  <2>3. Of(k - 1, listed) = of(k)
    BY <2>2 DEF Of
  <2>4. UNION {Proposed(j) : j \in (1 .. Scouts) \ {k - 1}}
          = UNION {ToSet(sources[j]) : j \in (2 .. Len(sources)) \ {k}}
    <3>1. ASSUME NEW j \in (1 .. Scouts) \ {k - 1}
          PROVE  j + 1 \in (2 .. Len(sources)) \ {k} /\ Proposed(j) = ToSet(sources[j + 1])
      BY <1>1 DEF Proposed
    <3>2. ASSUME NEW j \in (2 .. Len(sources)) \ {k}
          PROVE  j - 1 \in (1 .. Scouts) \ {k - 1} /\ Proposed(j - 1) = ToSet(sources[j])
      <4>1. j - 1 \in (1 .. Scouts) \ {k - 1} /\ (j - 1) + 1 = j
        BY <1>1
      <4> QED
        BY <4>1 DEF Proposed
    <3> DEFINE A == (1 .. Scouts) \ {k - 1}
               B == (2 .. Len(sources)) \ {k}
    <3>3. \A j \in A : \E h \in B : Proposed(j) = ToSet(sources[h])
      BY <3>1
    <3>4. \A h \in B : \E j \in A : Proposed(j) = ToSet(sources[h])
      BY <3>2
    <3> HIDE DEF A, B
    <3>5. UNION {Proposed(j) : j \in A} = UNION {ToSet(sources[j]) : j \in B}
      BY <3>3, <3>4
    <3> QED
      BY <3>5 DEF A, B
  <2> QED
    BY <2>1, <2>2, <2>3, <2>4 DEF Own
<1>4. ASSUME NEW k \in 2 .. Len(sources), (ToSet(sources[k]) \ listed) \ Static # {},
             NEW j \in 2 .. Len(sources)
      PROVE  Cardinality(own(j)) <= Cardinality(of(k)) + 1
  <2>1. Proposed(k - 1) \ (listed \cup Static) # {}
    BY <1>3, <1>4
  <2> HIDE DEF own, of
  <2> QED
    BY <1>2, <1>3, <2>1
<1> QED
  BY <1>2, <1>4 DEF FairBudget, listed

LEMMA DisplacingShows == ASSUME ReviewInv PROVE DisplacedIsIncomplete
<1> SUFFICES ASSUME Done, report.verdict # "INCOMPLETE"
             PROVE  ~omitted /\ Static \cup Model \subseteq ToSet(candidates)
  BY DEF DisplacedIsIncomplete
<1>1. Listed /\ stage = "done"
  BY DEF Done, Listed
<1>2. report.verdict = Verdict(MergeSupported)
  BY <1>1 DEF ReviewInv
<1>3. ~omitted /\ ~displaced
  BY <1>2 DEF Verdict
<1>4. SourceTypes /\ candidates = Merge /\ ~Displaced
  BY <1>1, <1>3, ReviewTypes DEF ReviewInv
<1> QED
  BY <1>3, <1>4, MergeIsFair

\* The parts of a finite set add up: of two, of five.
LEMMA TwoAddUp ==
  ASSUME NEW S, IsFiniteSet(S), NEW T, IsFiniteSet(T), S \cap T = {}, NEW U, U = S \cup T
  PROVE  Cardinality(U) = Cardinality(S) + Cardinality(T)
<1>1. Cardinality(S \cup T) = Cardinality(S) + Cardinality(T) - Cardinality(S \cap T)
  BY FS_Union
<1>2. Cardinality(S \cap T) = 0
  BY FS_EmptySet
<1>3. Cardinality(S) \in Nat /\ Cardinality(T) \in Nat
  BY FS_CardinalityType
<1>4. Cardinality(U) = Cardinality(S \cup T)
  OBVIOUS
<1> QED
  BY <1>1, <1>2, <1>3, <1>4

AddUp(M, C, A, S, T) ==
  /\ Cardinality(M \ C) \in Nat /\ Cardinality((A \ S) \cap M) \in Nat
  /\ Cardinality(((C \ A) \cap M) \ T) \in Nat
  /\ Cardinality(S \cap M) \in Nat /\ Cardinality(((C \ A) \cap M) \cap T) \in Nat
  /\ Cardinality(M) = (((Cardinality(M \ C) + Cardinality((A \ S) \cap M))
                         + Cardinality(((C \ A) \cap M) \ T))
                        + Cardinality(S \cap M))
                       + Cardinality(((C \ A) \cap M) \cap T)

LEMMA PartsAddUp ==
  ASSUME NEW M, IsFiniteSet(M), NEW C, NEW A, NEW S, S \subseteq A, A \subseteq C, NEW T
  PROVE  AddUp(M, C, A, S, T)
<1> DEFINE a == M \ C
           b == (A \ S) \cap M
           no == (C \ A) \cap M
           c == no \ T
           d == S \cap M
           e == no \cap T
           in == M \cap C
           yes == M \cap A
<1>1. /\ a \in SUBSET M /\ b \in SUBSET M /\ no \in SUBSET M /\ c \in SUBSET M
      /\ d \in SUBSET M /\ e \in SUBSET M /\ in \in SUBSET M /\ yes \in SUBSET M
  OBVIOUS
<1>2. /\ M = a \cup in /\ a \cap in = {}
      /\ in = no \cup yes /\ no \cap yes = {}
      /\ yes = b \cup d /\ b \cap d = {}
      /\ no = c \cup e /\ c \cap e = {}
  OBVIOUS
<1> HIDE DEF a, b, c, d, e, no, in, yes
<1>3. /\ IsFiniteSet(a) /\ IsFiniteSet(b) /\ IsFiniteSet(c) /\ IsFiniteSet(d)
      /\ IsFiniteSet(e) /\ IsFiniteSet(no) /\ IsFiniteSet(in) /\ IsFiniteSet(yes)
  BY <1>1, FS_Subset
<1>5. /\ Cardinality(a) \in Nat /\ Cardinality(b) \in Nat /\ Cardinality(c) \in Nat
      /\ Cardinality(d) \in Nat /\ Cardinality(e) \in Nat /\ Cardinality(no) \in Nat
      /\ Cardinality(in) \in Nat /\ Cardinality(yes) \in Nat
  BY <1>3, FS_CardinalityType
<1>6. Cardinality(M) = Cardinality(a) + Cardinality(in)
  BY <1>2, <1>3, TwoAddUp
<1>7. Cardinality(in) = Cardinality(no) + Cardinality(yes)
  BY <1>2, <1>3, TwoAddUp
<1>8. Cardinality(yes) = Cardinality(b) + Cardinality(d)
  BY <1>2, <1>3, TwoAddUp
<1>9. Cardinality(no) = Cardinality(c) + Cardinality(e)
  BY <1>2, <1>3, TwoAddUp
<1>10. Cardinality(M) = (((Cardinality(a) + Cardinality(b)) + Cardinality(c)) + Cardinality(d))
                          + Cardinality(e)
  BY <1>5, <1>6, <1>7, <1>8, <1>9
<1> QED
  BY <1>5, <1>10 DEF AddUp, a, b, c, d, e, no

LEMMA ModelIsFinite == ASSUME SourceTypes PROVE IsFiniteSet(Model)
<1>1. IsFiniteSet(ToSet(All)) /\ Model \in SUBSET ToSet(All)
  BY AllHolds, HeldOnce
<1> QED
  BY <1>1, FS_Subset

LEMMA CountsAddUp == ASSUME ReviewInv PROVE HypothesesAddUp
<1> SUFFICES ASSUME Done PROVE HypothesesAddUp
  BY DEF HypothesesAddUp
<1> DEFINE C == ToSet(candidates)
<1>1. stage = "done" /\ Listed
  BY DEF Done, Listed
<1>2. SourceTypes
  BY <1>1, ReviewTypes
<1>3. /\ discarded = (dropped + Cardinality(Model \ C)) + Refused(accepted \ supported, C \ accepted)
      /\ report.model = Cardinality(supported \cap Model)
      /\ supported \subseteq accepted /\ accepted \subseteq C /\ dropped \in Nat
  BY <1>1 DEF ReviewInv
<1> HIDE DEF C
<1>4. Refused(accepted \ supported, C \ accepted)
        = Cardinality((accepted \ supported) \cap Model)
            + Cardinality(((C \ accepted) \cap Model) \ Static)
  BY DEF Refused
<1> DEFINE a == Cardinality(Model \ C)
           b == Cardinality((accepted \ supported) \cap Model)
           c == Cardinality(((C \ accepted) \cap Model) \ Static)
           d == Cardinality(supported \cap Model)
           e == Cardinality(((C \ accepted) \cap Model) \cap Static)
           m == Cardinality(Model)
<1>5. /\ a \in Nat /\ b \in Nat /\ c \in Nat /\ d \in Nat /\ e \in Nat
      /\ m = (((a + b) + c) + d) + e
  <2>1. IsFiniteSet(Model)
    BY <1>2, ModelIsFinite
  <2>2. AddUp(Model, C, accepted, supported, Static)
    BY <1>3, <2>1, PartsAddUp
  <2> QED
    BY <2>2 DEF AddUp
<1>6. discarded = (dropped + a) + (b + c) /\ report.model = d
  BY <1>3, <1>4
<1> HIDE DEF a, b, c, d, e, m
<1>7. discarded + report.model + e = dropped + m
  BY <1>3, <1>5, <1>6
<1> QED
  BY <1>7 DEF HypothesesAddUp, C, e, m

\* What a report of candidates holds.
LEMMA ReportHolds ==
  ASSUME ReviewInv
  PROVE  TypeOK /\ OnlySupported /\ NothingVanishes
<1>1. /\ candidates \in Seq(Ids) /\ Len(candidates) <= MAX_FINDINGS /\ MAX_FINDINGS \in Nat
      /\ IsInjective(candidates)
  BY ReviewTypes
<1>2. supported \subseteq ToSet(candidates)
  BY DEF ReviewInv
<1>3. CASE stage = "done"
  <2>1. report.findings = MergeSupported /\ report.verdict = Verdict(MergeSupported)
    BY <1>3 DEF ReviewInv
  <2>2. report.verdict \in {"none", "PASS", "FINDINGS", "INCOMPLETE"}
    BY <2>1 DEF Verdict
  <2>3. Findings = ToSet(MergeSupported)
    BY <2>1 DEF Findings
  <2>4. OnlySupported /\ NothingVanishes
    BY <1>1, <1>2, <2>3, MergeHolds DEF OnlySupported, NothingVanishes
  <2> QED
    BY <1>1, <2>2, <2>4 DEF TypeOK, ReviewInv
<1>4. CASE stage # "done"
  <2>1. report = NoReport
    BY <1>4 DEF ReviewInv
  <2>2. report.verdict = "none" /\ report.findings = <<>>
    BY <2>1 DEF NoReport
  <2>3. Findings = {}
    BY <2>2, HeldByNone DEF Findings
  <2> QED
    BY <1>1, <1>4, <2>2, <2>3 DEF TypeOK, OnlySupported, NothingVanishes, Done, ReviewInv
<1> QED
  BY <1>3, <1>4

-----------------------------------------------------------------------------
\* What is computed depends on no more than it says.
LEMMA SameSources ==
  ASSUME setting' = setting, sources' = sources
  PROVE  /\ Scouts' = Scouts /\ MAX_FINDINGS' = MAX_FINDINGS /\ Static' = Static
         /\ Model' = Model /\ Merge' = Merge /\ Displaced' = Displaced
         /\ \A yes, no : Refused(yes, no)' = Refused(yes, no)
<1>1. Scouts' = Scouts /\ MAX_FINDINGS' = MAX_FINDINGS
  BY DEF Scouts, MAX_FINDINGS
<1>2. Static' = Static /\ Model' = Model /\ All' = All
  BY DEF Static, Model, All
<1>3. Turns' = Turns
  BY <1>1, <1>2 DEF Turns, Turn, Queue, Fresh
<1>4. Merge' = Merge
  BY <1>1, <1>2, <1>3 DEF Merge
<1> QED
  BY <1>1, <1>2, <1>4 DEF Displaced, Refused

LEMMA SameReport ==
  ASSUME setting' = setting, sources' = sources, candidates' = candidates,
         supported' = supported
  PROVE  MergeSupported' = MergeSupported
<1>1. Static' = Static /\ MAX_FINDINGS' = MAX_FINDINGS
  BY SameSources
<1> QED
  BY <1>1 DEF MergeSupported, UniqueKeys, AddUnlessRestated, Restates, Anchors, about

LEMMA ProposalsAreSequences == ASSUME NEW n \in Nat PROVE Proposals(n) \subseteq Seq(Ids)
<1> SUFFICES ASSUME NEW s \in Proposals(n) PROVE s \in Seq(Ids)
  OBVIOUS
<1>1. PICK m \in 0 .. n : s \in [1 .. m -> Ids]
  BY DEF Proposals
<1> QED
  BY <1>1, SeqDef

LEMMA SettingTypes ==
  ASSUME setting \in Settings
  PROVE  Scouts \in Nat \ {0} /\ setting.static \in Nat /\ setting.proposals \in Nat
BY SettingAssumption DEF Scouts

LEMMA ReviewStarts == ReviewInit => ReviewInv
<1> SUFFICES ASSUME ReviewInit PROVE ReviewInv
  OBVIOUS
<1> USE DEF ReviewInit
<1>1. Scouts \in Nat \ {0}
  BY SettingTypes
<1>2. sources \in Seq(Seq(Ids)) /\ Len(sources) = 0
  BY EmptySeq
<1>3. Len(sources) <= Scouts + 1
  BY <1>1, <1>2
<1> QED
  BY <1>2, <1>3 DEF ReviewInv, Proposing, Listed

LEMMA DetectStep == ASSUME ReviewInv, Detect PROVE ReviewInv'
<1>1. Scouts \in Nat \ {0} /\ setting.static \in Nat /\ Scouts' = Scouts
  BY SettingTypes DEF ReviewInv, Detect, Scouts
<1>2. PICK found \in Proposals(setting.static) : sources' = <<found>>
  BY DEF Detect
<1>3. found \in Seq(Ids)
  BY <1>1, ProposalsAreSequences
<1>4. sources' \in Seq(Seq(Ids)) /\ Len(sources') = 1
  BY <1>2, <1>3
<1>5. Len(sources') <= Scouts' + 1
  BY <1>1, <1>4
<1> QED
  BY <1>4, <1>5 DEF ReviewInv, Detect, Proposing, Listed

LEMMA ScoutStep == ASSUME ReviewInv, Scout PROVE ReviewInv'
<1>1. Scouts \in Nat \ {0} /\ setting.proposals \in Nat /\ Scouts' = Scouts
  BY SettingTypes DEF ReviewInv, Scout, Scouts
<1>2. PICK found \in Proposals(setting.proposals), n \in 0 .. 1 :
             sources' = Append(sources, found) /\ dropped' = dropped + n
  BY DEF Scout
<1>3. found \in Seq(Ids) /\ sources \in Seq(Seq(Ids)) /\ dropped \in Nat
  BY <1>1, ProposalsAreSequences DEF ReviewInv
<1>4. sources' \in Seq(Seq(Ids)) /\ Len(sources') = Len(sources) + 1
  BY <1>2, <1>3, AppendProperties
<1>5. Len(sources') <= Scouts' + 1 /\ dropped' \in Nat
  <2>1. Len(sources) \in Nat /\ Len(sources) <= Scouts
    BY <1>3, Held DEF Scout
  <2> QED
    BY <1>1, <1>2, <1>3, <1>4, <2>1
<1> QED
  BY <1>4, <1>5 DEF ReviewInv, Scout, Proposing, Listed

LEMMA FailsStep == ASSUME ReviewInv, Fails PROVE ReviewInv'
<1>1. setting' = setting /\ sources' = sources /\ stage' = "failed" /\ stage # "done"
  BY DEF Fails
<1>2. Scouts' = Scouts /\ Merge' = Merge
  BY <1>1, SameSources
<1>3. ~Proposing' /\ ~Listed'
  BY <1>1 DEF Proposing, Listed
<1> QED
  BY <1>1, <1>2, <1>3 DEF ReviewInv, Fails, Listed

LEMMA CollectStep == ASSUME ReviewInv, Collect PROVE ReviewInv'
<1>1. /\ setting' = setting /\ sources' = sources /\ stage = "scout" /\ dropped' = dropped
      /\ accepted' = accepted /\ supported' = supported /\ report' = report
      /\ omitted' = omitted
      /\ Len(sources) = Scouts + 1 /\ candidates' = Merge /\ displaced' = Displaced
      /\ discarded' = dropped + Cardinality(Model \ ToSet(Merge))
      /\ stage' = IF Merge = <<>> THEN "report" ELSE "adjudicate"
  BY DEF Collect
<1>2. /\ Scouts' = Scouts /\ Merge' = Merge /\ Displaced' = Displaced /\ Model' = Model
      /\ \A yes, no : Refused(yes, no)' = Refused(yes, no)
  BY <1>1, SameSources
<1>3. /\ setting \in Settings /\ omitted \in BOOLEAN /\ sources \in Seq(Seq(Ids))
      /\ Len(sources) <= Scouts + 1
      /\ dropped \in Nat /\ accepted = {} /\ supported = {} /\ report = NoReport
  BY <1>1 DEF ReviewInv, Proposing
<1>4. SourceTypes
  <2>1. MAX_FINDINGS \in Nat \ {0} /\ Scouts \in Nat \ {0}
    BY ReviewTypes
  <2> QED
    BY <1>1, <1>3, <2>1 DEF SourceTypes
<1>5. stage' = "report" => discarded' = (dropped + Cardinality(Model \ ToSet(Merge)))
                                          + Refused({}, ToSet(Merge))
  <2> SUFFICES ASSUME Merge = <<>>
               PROVE  discarded' = (dropped + Cardinality(Model \ ToSet(Merge)))
                                     + Refused({}, ToSet(Merge))
    BY <1>1
  <2>1. ToSet(Merge) = {}
    BY HeldByNone
  <2>2. ({} \cap Model) = {} /\ (({} \cap Model) \ Static) = {} /\ Cardinality({}) = 0
    BY FS_EmptySet
  <2>3. Refused({}, {}) = 0
    BY <2>2 DEF Refused
  <2>4. IsFiniteSet(Model)
    BY <1>4, ModelIsFinite
  <2>5. Cardinality(Model \ {}) \in Nat
    BY <2>4, FS_Difference, FS_CardinalityType
  <2> DEFINE m == Cardinality(Model \ ToSet(Merge))
             r == Refused({}, ToSet(Merge))
  <2>6. m \in Nat /\ r = 0 /\ discarded' = dropped + m
    BY <1>1, <2>1, <2>3, <2>5
  <2> HIDE DEF m, r
  <2>7. discarded' = (dropped + m) + r
    BY <1>3, <2>6
  <2> QED
    BY <2>7 DEF m, r
<1>6. /\ stage' \in {"adjudicate", "report"} /\ ~Proposing' /\ Listed'
  BY <1>1 DEF Proposing, Listed
<1>7. accepted' \ supported' = {} /\ ToSet(candidates') \ accepted' = ToSet(Merge)
  BY <1>1, <1>3
<1>8. stage' \in {"report", "done"} =>
        discarded' = (dropped' + Cardinality(Model' \ ToSet(candidates')))
                       + Refused(accepted \ supported, ToSet(candidates) \ accepted)'
  <2>1. Refused(accepted \ supported, ToSet(candidates) \ accepted)' = Refused({}, ToSet(Merge))
    BY <1>2, <1>7 DEF Refused
  <2> QED
    BY <1>1, <1>2, <1>5, <1>6, <2>1
<1> QED
  BY <1>1, <1>2, <1>3, <1>6, <1>8 DEF ReviewInv

LEMMA AdjudicateStep == ASSUME ReviewInv, Adjudicate PROVE ReviewInv'
<1> DEFINE C == ToSet(candidates)
<1>1. /\ stage = "adjudicate" /\ stage' = "report" /\ setting' = setting
      /\ sources' = sources /\ dropped' = dropped /\ candidates' = candidates
      /\ displaced' = displaced /\ report' = report /\ omitted' = omitted
  BY DEF Adjudicate
<1>2. PICK yes \in SUBSET C, kept \in SUBSET C :
             /\ kept \subseteq yes /\ accepted' = yes /\ supported' = kept
             /\ discarded' = discarded + Refused(yes \ kept, C \ yes)
  BY DEF Adjudicate
<1>3. /\ Scouts' = Scouts /\ Merge' = Merge /\ Displaced' = Displaced /\ Model' = Model
      /\ \A a, b : Refused(a, b)' = Refused(a, b)
  BY <1>1, SameSources
<1>4. ~Proposing' /\ Listed /\ Listed'
  BY <1>1 DEF Proposing, Listed
<1>5. discarded' = (dropped' + Cardinality(Model' \ ToSet(candidates')))
                     + Refused(accepted \ supported, ToSet(candidates) \ accepted)'
  <2>1. discarded = dropped + Cardinality(Model \ C)
    BY <1>1 DEF ReviewInv
  <2>2. Refused(accepted \ supported, ToSet(candidates) \ accepted)' = Refused(yes \ kept, C \ yes)
    <3>1. Static' = Static
      BY <1>1, SameSources
    <3> QED
      BY <1>1, <1>2, <1>3, <3>1 DEF Refused
  <2>3. Model' \ ToSet(candidates') = Model \ C
    BY <1>1, <1>3
  <2> QED
    BY <1>1, <1>2, <2>1, <2>2, <2>3
<1>6. supported' \subseteq accepted' /\ accepted' \subseteq ToSet(candidates')
  BY <1>1, <1>2
<1> QED
  BY <1>1, <1>3, <1>4, <1>5, <1>6 DEF ReviewInv

LEMMA ReportStep == ASSUME ReviewInv, Report PROVE ReviewInv'
<1>1. /\ stage = "report" /\ stage' = "done" /\ setting' = setting
      /\ sources' = sources /\ dropped' = dropped /\ candidates' = candidates
      /\ displaced' = displaced /\ omitted' = omitted /\ accepted' = accepted
      /\ supported' = supported /\ discarded' = discarded
      /\ report' = [verdict  |-> Verdict(MergeSupported),
                    findings |-> MergeSupported,
                    model    |-> Cardinality(supported \cap Model)]
  BY DEF Report
<1>2. /\ Scouts' = Scouts /\ Merge' = Merge /\ Displaced' = Displaced /\ Model' = Model
      /\ Static' = Static /\ MergeSupported' = MergeSupported
  BY <1>1, SameSources, SameReport
<1>3. ~Proposing' /\ Listed /\ Listed'
  BY <1>1 DEF Proposing, Listed
<1>4. Verdict(MergeSupported)' = Verdict(MergeSupported)
  BY <1>1, <1>2 DEF Verdict
<1>5. Refused(accepted \ supported, ToSet(candidates) \ accepted)'
        = Refused(accepted \ supported, ToSet(candidates) \ accepted)
  BY <1>1, <1>2 DEF Refused
<1>6. Cardinality(supported \cap Model)' = Cardinality(supported \cap Model)
  BY <1>1, <1>2
<1>7. report' = [verdict  |-> Verdict(MergeSupported)',
                 findings |-> MergeSupported',
                 model    |-> Cardinality(supported \cap Model)']
  BY <1>1, <1>2, <1>4, <1>6
<1>8. ToSet(candidates') = ToSet(candidates)
      /\ Cardinality(Model' \ ToSet(candidates')) = Cardinality(Model \ ToSet(candidates))
  BY <1>1, <1>2
<1>9. discarded' = (dropped' + Cardinality(Model' \ ToSet(candidates')))
                     + Refused(accepted \ supported, ToSet(candidates) \ accepted)'
  BY <1>1, <1>5, <1>8 DEF ReviewInv
<1>10. /\ setting' \in Settings /\ omitted' \in BOOLEAN /\ sources' \in Seq(Seq(Ids))
       /\ Len(sources') = Scouts' + 1 /\ Len(sources') <= Scouts' + 1 /\ dropped' \in Nat
       /\ candidates' = Merge' /\ displaced' = Displaced'
       /\ supported' \subseteq accepted' /\ accepted' \subseteq ToSet(candidates')
  BY <1>1, <1>2, <1>3 DEF ReviewInv
<1> QED
  BY <1>1, <1>3, <1>7, <1>9, <1>10 DEF ReviewInv

LEMMA ReviewStutters == ASSUME ReviewInv, UNCHANGED reviewVars PROVE ReviewInv'
<1>1. /\ stage' = stage /\ setting' = setting /\ sources' = sources /\ dropped' = dropped
      /\ candidates' = candidates /\ displaced' = displaced /\ omitted' = omitted
      /\ accepted' = accepted /\ supported' = supported /\ discarded' = discarded
      /\ report' = report
  BY DEF reviewVars
<1>2. /\ Scouts' = Scouts /\ Merge' = Merge /\ Displaced' = Displaced /\ Model' = Model
      /\ Static' = Static /\ MergeSupported' = MergeSupported
  BY <1>1, SameSources, SameReport
<1>3. Proposing' = Proposing /\ Listed' = Listed
  BY <1>1 DEF Proposing, Listed
<1>4. Verdict(MergeSupported)' = Verdict(MergeSupported)
  BY <1>1, <1>2 DEF Verdict
<1>5. Refused(accepted \ supported, ToSet(candidates) \ accepted)'
        = Refused(accepted \ supported, ToSet(candidates) \ accepted)
  BY <1>1, <1>2 DEF Refused
<1>6. Cardinality(supported \cap Model)' = Cardinality(supported \cap Model)
      /\ Cardinality(Model \ ToSet(candidates))' = Cardinality(Model \ ToSet(candidates))
  BY <1>1, <1>2
<1> QED
  BY <1>1, <1>2, <1>3, <1>4, <1>5, <1>6 DEF ReviewInv

\* What is listed, counted and reported is as ReviewInv says.
THEOREM ReviewInvariant == ReviewSpec => []ReviewInv
<1>1. ReviewInit => ReviewInv
  BY ReviewStarts
<1>2. ReviewInv /\ [ReviewNext]_reviewVars => ReviewInv'
  <2> SUFFICES ASSUME ReviewInv, [ReviewNext]_reviewVars PROVE ReviewInv'
    OBVIOUS
  <2>1. CASE Detect
    BY <2>1, DetectStep
  <2>2. CASE Scout
    BY <2>2, ScoutStep
  <2>3. CASE Fails
    BY <2>3, FailsStep
  <2>4. CASE Collect
    BY <2>4, CollectStep
  <2>5. CASE Adjudicate
    BY <2>5, AdjudicateStep
  <2>6. CASE Report
    BY <2>6, ReportStep
  <2>7. CASE UNCHANGED reviewVars
    BY <2>7, ReviewStutters
  <2> QED
    BY <2>1, <2>2, <2>3, <2>4, <2>5, <2>6, <2>7 DEF ReviewNext
<1> QED
  BY <1>1, <1>2, PTL DEF ReviewSpec

\* README.md:129 and docs/safety.md:28: whatever the detectors and the scouts
\* propose, the list of candidates is divided fairly, displacing is never silent,
\* every hypothesis is counted once, and the report is the supported findings.
THEOREM ReportIsAlwaysFair == ReviewSpec => []ReportIsFair
<1>1. ReviewInv => ReportIsFair
  BY BudgetIsFair, DisplacingShows, CountsAddUp, ReportHolds DEF ReportIsFair
<1> QED
  BY <1>1, ReviewInvariant, PTL
=============================================================================
