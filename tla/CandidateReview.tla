-------------------------- MODULE CandidateReview --------------------------
(***************************************************************************)
(* CommitReviewer.review: deterministic detectors and several model scouts *)
(* propose findings, a bounded list of candidates is put before a model    *)
(* that accepts or rejects each, what the source contradicts is dropped,   *)
(* and restatements of one defect are merged into the report.              *)
(*                                                                         *)
(* A proposal is an identity (_candidate_identity); what its text says is  *)
(* given by "about".  The text of prompts and payloads is left out; a      *)
(* payload is well formed or it is not.                                    *)
(***************************************************************************)
EXTENDS Naturals, FiniteSets, Sequences, SequencesExt, FiniteSetsExt

CONSTANTS
  Ids,       \* the proposals that may be made
  Settings   \* what reviews there are, see SettingAssumption

\* key: title and line, the key of a report; place: the line; quote: the
\* evidence; cats: the defect categories the text claims; roots: the lines a
\* detector names as the defect's roots, for others the line alone.  All are
\* about one file.
About == [key : STRING, place : Nat, quote : STRING, cats : SUBSET STRING,
          roots : SUBSET Nat]

\* Fixed for a review are how many scouts it has (two, five for PyTorch),
\* MAX_FINDINGS, what each proposal is about, and as bounds how many proposals
\* the detectors and each scout make.
ASSUME SettingAssumption ==
  Settings \subseteq [scouts : Nat \ {0}, max : Nat \ {0}, about : [Ids -> About],
                     static : Nat, proposals : Nat]

VARIABLES
  setting,
  omitted,     \* source, context or dependency links are incomplete
  stage,
  sources,     \* the detectors' proposals, then each scout's, in order
  dropped,     \* raw findings no proposal was made of
  candidates,  \* what is put before the adjudicator
  displaced,   \* candidate_findings_truncated
  accepted,    \* what it accepts
  supported,   \* what of that the source does not contradict
  discarded,   \* discarded_model_findings
  report       \* [verdict, findings, model]
reviewVars == <<setting, omitted, stage, sources, dropped, candidates, displaced,
                accepted, supported, discarded, report>>

NoReport == [verdict |-> "none", findings |-> <<>>, model |-> 0]
Proposals(max) == UNION {[1 .. n -> Ids] : n \in 0 .. max}

about == setting.about
Scouts == setting.scouts
MAX_FINDINGS == setting.max

\* _deduplicate_candidates: the first of each identity.
Unique(s) ==
  LET unique[n \in 0 .. Len(s)] ==
        IF n = 0 THEN <<>>
        ELSE LET so == unique[n - 1]
             IN  IF s[n] \in ToSet(so) THEN so ELSE Append(so, s[n])
  IN  unique[Len(s)]

\* _deduplicate, of those in chosen: the first of each key.
UniqueKeys(s, chosen) ==
  LET unique[n \in 0 .. Len(s)] ==
        IF n = 0 THEN <<>>
        ELSE LET so == unique[n - 1]
             IN  IF s[n] \notin chosen \/ \E i \in DOMAIN so : about[so[i]].key = about[s[n]].key
                 THEN so ELSE Append(so, s[n])
  IN  unique[Len(s)]

ReviewInit ==
  /\ setting \in Settings
  /\ omitted \in BOOLEAN
  /\ stage = "detect"
  /\ sources = <<>> /\ dropped = 0
  /\ candidates = <<>> /\ displaced = FALSE
  /\ accepted = {} /\ supported = {}
  /\ discarded = 0
  /\ report = NoReport

-----------------------------------------------------------------------------
(* Proposals *)

\* _static_findings.
Detect ==
  /\ stage = "detect"
  /\ \E found \in Proposals(setting.static) : sources' = <<found>>
  /\ stage' = "scout"
  /\ UNCHANGED <<setting, omitted, dropped, candidates, displaced, accepted, supported,
                 discarded, report>>

\* A scout's answer: proposals, and raw findings that are not evidenced.
Scout ==
  /\ stage = "scout" /\ Len(sources) <= Scouts
  /\ \E found \in Proposals(setting.proposals), n \in 0 .. 1 :
       /\ sources' = Append(sources, found)
       /\ dropped' = dropped + n
  /\ UNCHANGED <<setting, omitted, stage, candidates, displaced, accepted, supported,
                 discarded, report>>

\* The client fails, or an answer breaks the protocol: there is no report.
Fails ==
  /\ stage \in {"scout", "adjudicate"}
  /\ stage' = "failed"
  /\ UNCHANGED <<setting, omitted, sources, dropped, candidates, displaced, accepted,
                 supported, discarded, report>>

-----------------------------------------------------------------------------
(* Candidates *)

Static == ToSet(sources[1])
Model  == UNION {ToSet(sources[k]) : k \in 2 .. Len(sources)}
All    == Unique(FlattenSeq(sources))
Queue(k) == Unique(sources[k + 1])
\* Where a queue has a proposal that is not in the list nor a detector's.
Fresh(list, queue) == {i \in DOMAIN queue : queue[i] \notin ToSet(list) \cup Static}

\* Scout so.next adds its next fresh proposal, unless the list is full.
Turn(so) ==
  LET queue == Queue(so.next)
      fresh == Fresh(so.list, queue)
  IN  [list |-> IF Len(so.list) >= MAX_FINDINGS \/ fresh = {} THEN so.list
                ELSE Append(so.list, queue[Min(fresh)]),
       next |-> IF so.next = Scouts THEN 1 ELSE so.next + 1]

\* What the detectors propose comes first; then scouts add theirs by turns.
Turns ==
  LET static  == Unique(sources[1])
      turn[n \in 0 .. Scouts * MAX_FINDINGS] ==
        IF n = 0 THEN [list |-> SubSeq(static, 1, Min({MAX_FINDINGS, Len(static)})), next |-> 1]
        ELSE Turn(turn[n - 1])
  IN  turn

\* _merge_candidate_sources.
Merge == IF Len(All) <= MAX_FINDINGS THEN All ELSE Turns[Scouts * MAX_FINDINGS].list

Displaced == Len(All) > Len(Merge)

Collect ==
  /\ stage = "scout" /\ Len(sources) = Scouts + 1
  /\ candidates' = Merge
  /\ displaced' = Displaced
  /\ discarded' = dropped + Cardinality(Model \ ToSet(Merge))
  /\ stage' = IF Merge = <<>> THEN "report" ELSE "adjudicate"
  /\ UNCHANGED <<setting, omitted, sources, dropped, accepted, supported, report>>

\* What is counted as discarded of the accepted that the source contradicts,
\* and of the rejected.
Refused(yes, no) ==
  Cardinality(yes \cap Model) + Cardinality((no \cap Model) \ Static)

\* _parse_adjudication takes one decision on each candidate, no more and no
\* less; _finding_contradicted_by_source keeps some of the accepted.
Adjudicate ==
  /\ stage = "adjudicate"
  /\ \E yes \in SUBSET ToSet(candidates) :
     \E kept \in SUBSET yes :
       /\ accepted' = yes
       /\ supported' = kept
       /\ discarded' = discarded + Refused(yes \ kept, ToSet(candidates) \ yes)
  /\ stage' = "report"
  /\ UNCHANGED <<setting, omitted, sources, dropped, candidates, displaced, report>>

-----------------------------------------------------------------------------
(* The report *)

\* m names c's line as a root of a defect, or c quotes the same evidence.
Anchors(m, c) == about[c].place \in about[m].roots \/ about[c].quote = about[m].quote

\* Fault: one shared category is enough.
Restates_Any(merged, c) ==
  \E i \in DOMAIN merged :
    about[c].cats \cap about[merged[i]].cats # {} /\ Anchors(merged[i], c)

\* Every category c claims is proven where c claims it.
Restates(merged, c) ==
  /\ about[c].cats # {}
  /\ \A cat \in about[c].cats :
       \E i \in DOMAIN merged : cat \in about[merged[i]].cats /\ Anchors(merged[i], c)

AddUnlessRestated(proven) ==
  LET merged[n \in 0 .. Len(candidates)] ==
        IF n = 0 THEN proven
        ELSE LET so == merged[n - 1]
                 c  == candidates[n]
             IN  IF c \notin supported \/ Restates(so, c) THEN so ELSE Append(so, c)
  IN  merged[Len(candidates)]

\* _merge_supported_findings: what the detectors proved first.
MergeSupported ==
  LET merged == UniqueKeys(AddUnlessRestated(UniqueKeys(candidates, supported \cap Static)),
                           supported)
  IN  SubSeq(merged, 1, Min({MAX_FINDINGS, Len(merged)}))

Verdict(findings) ==
  IF omitted \/ displaced THEN "INCOMPLETE"
  ELSE IF findings # <<>> THEN "FINDINGS" ELSE "PASS"

Report ==
  /\ stage = "report"
  /\ report' = [verdict  |-> Verdict(MergeSupported),
                findings |-> MergeSupported,
                model    |-> Cardinality(supported \cap Model)]
  /\ stage' = "done"
  /\ UNCHANGED <<setting, omitted, sources, dropped, candidates, displaced, accepted,
                 supported, discarded>>

ReviewNext == Detect \/ Scout \/ Fails \/ Collect \/ Adjudicate \/ Report
ReviewSpec == ReviewInit /\ [][ReviewNext]_reviewVars

-----------------------------------------------------------------------------
(* Properties *)

Done == stage = "done"
Findings == ToSet(report.findings)

TypeOK ==
  /\ stage \in {"detect", "scout", "adjudicate", "report", "done", "failed"}
  /\ Len(sources) <= Scouts + 1
  /\ Len(candidates) <= MAX_FINDINGS
  /\ IsInjective(candidates)
  /\ supported \subseteq accepted /\ accepted \subseteq ToSet(candidates)
  /\ report.verdict \in {"none", "PASS", "FINDINGS", "INCOMPLETE"}

\* docs/safety.md:28: "any unique candidate displaced by the bound forces
\* INCOMPLETE", whoever proposed it.
DisplacedIsIncomplete ==
  Done /\ report.verdict # "INCOMPLETE" =>
    ~omitted /\ Static \cup Model \subseteq ToSet(candidates)

\* docs/safety.md:28: detectors "consume the bounded candidate budget before
\* scout hypotheses"; README.md:129: scouts share the rest fairly.  A scout one
\* of whose proposals is left out has as many in the list as any other has of
\* its own, but one.
FairBudget ==
  candidates # <<>> =>
    LET listed == ToSet(candidates)
        of(k)  == (ToSet(sources[k]) \cap listed) \ Static
        own(k) == of(k) \ UNION {ToSet(sources[j]) : j \in (2 .. Len(sources)) \ {k}}
    IN  /\ \/ Static \subseteq listed
           \/ listed \subseteq Static
        /\ \A k \in 2 .. Len(sources) :
             (ToSet(sources[k]) \ listed) \ Static # {} =>
               \A j \in 2 .. Len(sources) : Cardinality(own(j)) <= Cardinality(of(k)) + 1

\* docs/safety.md:28: candidates, deterministic ones too, "are presented only
\* when model adjudication accepts them"; what the source contradicts is not.
OnlySupported == Findings \subseteq supported

\* Every hypothesis of a scout is in the end a model finding or discarded, and
\* never both: only what a detector proposed too and the adjudicator rejects is
\* the detector's.
HypothesesAddUp ==
  Done =>
    discarded + report.model + Cardinality(((ToSet(candidates) \ accepted) \cap Model) \cap Static)
      = dropped + Cardinality(Model)

\* An accepted and supported finding is in the report, or its title and line
\* are, or all of its claims are anchored in findings of which that is true.
NothingVanishes ==
  Done => \A c \in supported :
    \/ \E f \in Findings : about[f].key = about[c].key
    \/ /\ about[c].cats # {}
       /\ \A cat \in about[c].cats :
            \E m \in supported :
              /\ cat \in about[m].cats /\ Anchors(m, c)
              /\ \E f \in Findings : about[f].key = about[m].key

\* docs/safety.md:28: "accepted model restatements collapse only when a shared
\* defect category anchors to one of those roots or copies the same evidence".
CollapsesOnlyRestatements ==
  Done => \A c \in supported \ Findings :
    \E f \in Findings : about[f].cats \cap about[c].cats # {} /\ Anchors(f, c)

\* The detectors come first and the scouts share the rest of the budget; a
\* candidate the budget displaces makes the review incomplete, and every hypothesis
\* of a scout is in the end a model finding or discarded.  Nothing is reported that
\* was not accepted and supported by the source, and a supported finding is in the
\* report, or what it says is.
ReportIsFair ==
  /\ TypeOK
  /\ FairBudget /\ DisplacedIsIncomplete /\ HypothesesAddUp
  /\ OnlySupported /\ NothingVanishes
=============================================================================
