---------------------------- MODULE BenchmarkScore ----------------------------
(***************************************************************************)
(* score_review: a report is compared with the findings a benchmark case   *)
(* expects.  An expectation is a set of keyword groups; a finding covers   *)
(* the groups it speaks of when it is grounded in one of the expectation's *)
(* anchors.  Which words a text contains is left out: "covers" says it.    *)
(***************************************************************************)
EXTENDS Naturals, FiniteSets, Sequences, SequencesExt, FiniteSetsExt, Functions

CONSTANTS
  Expected,            \* the expectations, a sequence of sets of groups
  MatchFindings,       \* max_match_findings, of every expectation
  MAX_MATCH_OPTIONS,
  MaxFindings,         \* bound: findings of the report
  MaxModelFindings,    \* bound: findings the scouts had a part in
  Severities, Allowed, \* allowed_unmatched_severities
  MaxAllowance         \* bound: max_unmatched_findings, max_alternative_findings

CaseAssumption ==
  /\ Expected \in Seq(SUBSET Nat) /\ {} \notin Range(Expected)
  /\ MatchFindings \in Nat \ {0} /\ MAX_MATCH_OPTIONS \in Nat \ {0}
  /\ MaxFindings \in Nat /\ MaxModelFindings \in Nat /\ MaxAllowance \in Nat
  /\ Allowed \subseteq Severities

VARIABLES
  findings,       \* what each of the report covers: [covers, severity]
  modelFindings,  \* report.model_findings
  verdict,        \* the report's
  minModel, maxUnmatched, maxAlternative,
  pc, passed, missing, unmatched
vars == <<findings, modelFindings, verdict, minModel, maxUnmatched, maxAlternative, pc,
          passed, missing, unmatched>>

Groups == UNION Range(Expected)
Wants == DOMAIN Expected
\* _finding_coverage of a finding of an accepted path and severity that is
\* grounded; otherwise the finding covers nothing.
Covers == {c \in [Wants -> SUBSET Groups] : \A e \in Wants : c[e] \subseteq Expected[e]}
Finding == [covers : Covers, severity : Severities]

Init ==
  /\ \E n \in 0 .. MaxFindings : findings \in [1 .. n -> Finding]
  /\ \E n \in 0 .. MaxModelFindings :
       modelFindings \in [1 .. n -> [covers : Covers, severity : Allowed]]
  /\ verdict \in {"PASS", "INCOMPLETE"}
  /\ minModel \in 0 .. MaxModelFindings
  /\ maxUnmatched \in 0 .. MaxAllowance /\ maxAlternative \in 0 .. MaxAllowance
  /\ pc = "score"
  /\ passed = FALSE /\ missing = {} /\ unmatched = {}

-----------------------------------------------------------------------------
(* Options *)

Union(list, set, e) == UNION {list[i].covers[e] : i \in set}

\* The set of findings covers the expectation, and none of it is redundant.
Option(list, set, e) ==
  /\ Union(list, set, e) = Expected[e]
  /\ \A i \in set : ~(list[i].covers[e] \subseteq Union(list, set \ {i}, e))

\* combinations: smaller sets first, sets of one size in the order of findings.
Value(set) == FoldSet(LAMBDA i, v : v + 2^(i - 1), 0, set)
Before(a, b) ==
  \/ Cardinality(a) < Cardinality(b)
  \/ /\ Cardinality(a) = Cardinality(b)
     /\ \E i \in a \ b : \A j \in (a \cup b) \ (a \cap b) : i <= j

\* _finding_options.
Options(list, e) ==
  LET able == {i \in DOMAIN list : list[i].covers[e] # {}}
      most == Min({Cardinality(able), Cardinality(Expected[e]), MatchFindings})
      all  == SetToSortSeq({s \in UNION {kSubset(k, able) : k \in 1 .. most} :
                              Option(list, s, e)}, Before)
  IN  ToSet(SubSeq(all, 1, Min({MAX_MATCH_OPTIONS, Len(all)})))

-----------------------------------------------------------------------------
(* _select_consistent_assignment *)

\* A state is a set of findings that are taken, with the most expectations
\* they can be taken for.
RECURSIVE States(_, _)
States(options, n) ==
  IF n = 0 THEN {[taken |-> {}, assigned |-> 0]}
  ELSE LET before == States(options, n - 1)
           more == {[taken |-> p[1].taken \cup p[2], assigned |-> p[1].assigned + 1] :
                      p \in {q \in before \X options[n] : q[1].taken \cap q[2] = {}}}
           reached == before \cup more
       IN  {s \in reached : \A t \in reached : t.taken = s.taken => t.assigned <= s.assigned}

\* Most expectations, then most findings, then the least value.
Better(s, t) ==
  \/ s.assigned > t.assigned
  \/ /\ s.assigned = t.assigned
     /\ \/ Cardinality(s.taken) > Cardinality(t.taken)
        \/ /\ Cardinality(s.taken) = Cardinality(t.taken)
           /\ Value(s.taken) <= Value(t.taken)

\* Fault: each expectation takes its first option that is left.
RECURSIVE Greedy(_, _)
Greedy(options, n) ==
  IF n = 0 THEN [taken |-> {}, assigned |-> 0]
  ELSE LET s == Greedy(options, n - 1)
           free == {o \in options[n] : o \cap s.taken = {}}
       IN  IF free = {} THEN s
           ELSE LET o == CHOOSE x \in free : \A y \in free : x = y \/ Before(x, y)
                IN  [taken |-> s.taken \cup o, assigned |-> s.assigned + 1]
Select_Greedy(options) == Greedy(options, Len(options))

Select(options) ==
  LET states == States(options, Len(options))
  IN  CHOOSE s \in states : \A t \in states : Better(s, t)

-----------------------------------------------------------------------------
(* score_review *)

AllOptions(list) == [e \in Wants |-> Options(list, e)]
Complete(list) == Select(AllOptions(list)).assigned = Len(Expected)

Unmet(origin, list) ==
  {[origin |-> origin, what |-> "expectation", of |-> e] :
     e \in {w \in Wants : Options(list, w) = {}}}
Unassigned(origin) == {[origin |-> origin, what |-> "assignment", of |-> 0]}
TooFew == {[origin |-> "model", what |-> "number", of |-> 0]}

ModelMissing ==
  LET unmet == Unmet("model", modelFindings)
  IN  IF unmet = {} /\ ~Complete(modelFindings) THEN Unassigned("model") ELSE unmet

Missing ==
  LET few   == IF Len(modelFindings) < minModel THEN TooFew ELSE {}
      model == IF minModel > 0 THEN ModelMissing ELSE {}
      all   == Unmet("report", findings) \cup few \cup model
  IN  IF all = {} /\ ~Complete(findings) THEN Unassigned("report") ELSE all

Matched == Select(AllOptions(findings)).taken
Alternative == UNION (UNION {Options(findings, e) : e \in Wants})
Left == DOMAIN findings \ Matched
Blocking == {i \in Left \ Alternative : findings[i].severity \notin Allowed}

Passes(miss) ==
  /\ miss = {} /\ verdict # "INCOMPLETE"
  /\ Cardinality(Blocking) <= maxUnmatched
  /\ Cardinality(Left \cap Alternative) <= maxAlternative

Score ==
  /\ pc = "score"
  /\ missing' = Missing
  /\ unmatched' = Left
  /\ passed' = Passes(Missing)
  /\ pc' = "done"
  /\ UNCHANGED <<findings, modelFindings, verdict, minModel, maxUnmatched, maxAlternative>>

Next == Score
Spec == Init /\ [][Next]_vars

-----------------------------------------------------------------------------
(* Properties *)

Done == pc = "done"

\* What the document calls an assignment: to each of some expectations findings
\* that cover it, no more than it may take, and no finding to two.
Assignments(list, wants) ==
  {a \in [wants -> SUBSET DOMAIN list] :
     /\ \A e \in wants : /\ Union(list, a[e], e) = Expected[e]
                         /\ Cardinality(a[e]) <= MatchFindings
     /\ \A e, f \in wants : e # f => a[e] \cap a[f] = {}}

\* docs/commit-review-benchmark.md:22: "Every expected finding must match", "each
\* report finding may be assigned to at most one expectation", and an expected
\* defect needs the scouts' support too.  A case that passes has both.
PassIsEarned ==
  Done /\ passed =>
    /\ verdict # "INCOMPLETE"
    /\ Assignments(findings, Wants) # {}
    /\ minModel > 0 => /\ Assignments(modelFindings, Wants) # {}
                       /\ Len(modelFindings) >= minModel

\* "An exact bounded state search": nothing is called missing when there is an
\* assignment of all expectations; redundant members change nothing.
SearchIsExact ==
  Done =>
    /\ (Assignments(findings, Wants) # {} =>
          \A m \in missing : m.origin # "report")
    /\ (Assignments(modelFindings, Wants) # {} /\ Len(modelFindings) >= minModel =>
          \A m \in missing : m.origin # "model")

\* A case does not fail because of which assignment was chosen: another that
\* gives every expectation an option leaves no fewer alternatives over.
ChoiceIsBest ==
  Done /\ missing = {} =>
    \A a \in {b \in Assignments(findings, Wants) :
                \A e \in Wants : b[e] \in Options(findings, e)} :
      Cardinality(unmatched \cap Alternative)
        <= Cardinality(Alternative \ UNION {a[e] : e \in Wants})

\* docs/commit-review-benchmark.md:22: the alternative allowance tolerates "a
\* redundant finding only when that finding independently forms a valid
\* expected-defect cover".
AlternativesStandAlone ==
  Done /\ passed =>
    Cardinality({i \in unmatched : /\ findings[i].severity \notin Allowed
                                   /\ \A e \in Wants : findings[i].covers[e] # Expected[e]})
      <= maxUnmatched
=============================================================================
