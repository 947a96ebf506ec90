------------------------------ MODULE MCReview ------------------------------
(***************************************************************************)
(* The parts of the commit reviewer and of its benchmark that decide what  *)
(* is reported, each on instances small enough for TLC and independent of  *)
(* the others.  which says what a behaviour is about:                      *)
(*   report         candidates that compete for a list, that restate each  *)
(*                  other (CandidateReview, extended)                      *)
(*   evidence       the line a finding's evidence stands for               *)
(*                  (EvidenceMatch, extended)                              *)
(*   score, choice  a report scored, findings assigned in several ways     *)
(* Otherwise variables are at rest.                                        *)
(***************************************************************************)
EXTENDS EvidenceMatch, CandidateReview, TLC

VARIABLES
  which,
  findings, modelFindings, verdict, minModel, maxUnmatched, maxAlternative, phase, passed,
  missing, unmatched

scoreVars == <<findings, modelFindings, verdict, minModel, maxUnmatched, maxAlternative,
               phase, passed, missing, unmatched>>

-----------------------------------------------------------------------------
Three == {"c1", "c2", "c3"}
\* Defects that have nothing in common.
Place(n) == [key |-> ToString(n), place |-> n, quote |-> ToString(n), cats |-> {},
             roots |-> {n}]
Apart == {[c \in Three |-> CASE c = "c1" -> Place(1) [] c = "c2" -> Place(2)
                             [] OTHER -> Place(3)]}
\* Three findings of one file with one of two titles, on one of two lines.  What
\* c1 shows has both lines as its roots.
Related ==
  {[c \in Three |-> [key |-> k[c] \o ToString(at[c]), place |-> at[c],
                     quote |-> ToString(at[c]), cats |-> g[c],
                     roots |-> IF c = "c1" THEN {1, 2} ELSE {at[c]}]] :
     k \in {t \in [Three -> {"k", "l"}] : t["c1"] = "k"},
     at \in {q \in [Three -> {1, 2}] : q["c1"] = 1 /\ q["c3"] = 2},
     g \in {h \in [Three -> {{}, {"x"}, {"x", "y"}}] : h["c1"] = {"x", "y"}}}
Reviews ==
  {[scouts |-> 2, max |-> 2, about |-> a, static |-> 3, proposals |-> 2] : a \in Apart}
  \cup
  {[scouts |-> 1, max |-> 3, about |-> a, static |-> 1, proposals |-> 2] : a \in Related}

\* Two texts of different length, one that begins with a marker (the other marker is
\* its mirror image), one without a letter, and what a model may quote of them.
Lettered == {<<"a">>, <<"a", "b">>, <<"-", "a">>}
SomeTexts == Lettered \cup {<<"}">>}
SomeQuotes == SomeTexts \cup {<<m>> \o t : m \in {"+", "-"}, t \in Lettered} \cup {<<"-", "}">>}
Letters == {"a", "b"}
SomePreferences == {{}, {<<"a">>}}

\* One expectation of two groups and one of one group.
Expected == <<{1, 2}, {1}>>
Score == INSTANCE BenchmarkScore WITH
  pc <- phase, MatchFindings <- 2, MAX_MATCH_OPTIONS <- 256,
  MaxFindings <- 2, MaxModelFindings <- 2,
  Severities <- {"P1", "P3"}, Allowed <- {"P3"}, MaxAllowance <- 0
Choice == INSTANCE BenchmarkScore WITH
  pc <- phase, MatchFindings <- 2, MAX_MATCH_OPTIONS <- 256,
  MaxFindings <- 3, MaxModelFindings <- 0,
  Severities <- {"P1", "P3"}, Allowed <- {"P3"}, MaxAllowance <- 1

ASSUME PartAssumptions ==
  /\ Score!CaseAssumption /\ Choice!CaseAssumption

-----------------------------------------------------------------------------
\* A review that has failed.
IdleReview ==
  /\ setting = CHOOSE s \in Settings : TRUE
  /\ stage = "failed" /\ omitted = FALSE
  /\ sources = <<>> /\ dropped = 0 /\ candidates = <<>> /\ displaced = FALSE
  /\ accepted = {} /\ supported = {} /\ discarded = 0 /\ report = NoReport
IdleEvidence ==
  changed = 0 /\ evidence = 0 /\ change = 0 /\ preferred = 0 /\ pc = "idle" /\ match = 0
IdleScore ==
  /\ findings = 0 /\ modelFindings = 0 /\ verdict = 0 /\ minModel = 0 /\ maxUnmatched = 0
  /\ maxAlternative = 0 /\ phase = 0 /\ passed = 0 /\ missing = 0 /\ unmatched = 0

PartsInit ==
  \/ which = "report" /\ ReviewInit /\ IdleEvidence /\ IdleScore
  \/ which = "evidence" /\ Init /\ IdleReview /\ IdleScore
  \/ which = "score" /\ Score!Init /\ IdleReview /\ IdleEvidence
  \/ which = "choice" /\ Choice!Init /\ IdleReview /\ IdleEvidence

PartsNext ==
  /\ UNCHANGED which
  /\ \/ /\ which = "report" /\ ReviewNext
        /\ UNCHANGED <<vars, scoreVars>>
     \/ /\ which = "evidence" /\ Next
        /\ UNCHANGED <<reviewVars, scoreVars>>
     \/ /\ \/ which = "score" /\ Score!Next
           \/ which = "choice" /\ Choice!Next
        /\ UNCHANGED <<reviewVars, vars>>

PartsSpec == PartsInit /\ [][PartsNext]_<<which, reviewVars, vars, scoreVars>>

-----------------------------------------------------------------------------
(* The properties of the parts *)

\* A case that passes has an assignment for the report and for the scouts, nothing
\* is called missing when all expectations can be assigned, and no other
\* assignment leaves fewer alternatives over.
ScoreIsExact ==
  /\ which = "score" => Score!PassIsEarned /\ Score!SearchIsExact
  /\ which = "choice" => Choice!SearchIsExact /\ Choice!ChoiceIsBest
=============================================================================
