----------------------------- MODULE BenchmarkRun -----------------------------
(***************************************************************************)
(* run_benchmark_suite: a suite is read as a whole, then each case gets a  *)
(* repository of two commits made of its fixture, is reviewed and scored.  *)
(*                                                                         *)
(* A tree is a function from files to [content, size, mtime], or NoFile.   *)
(* git keeps the size and time it saw a file with beside the content it    *)
(* recorded, and trusts them.  Every case has a fixture: one that names a  *)
(* commit of a repository has only its review.                             *)
(***************************************************************************)
EXTENDS Naturals, FiniteSets, Sequences, SequencesExt, FiniteSetsExt

CONSTANTS
  Files,              \* the files of fixtures
  Contents, Sizes,    \* what they contain and how long that is
  Cases,              \* how many cases the suite lists
  MAX_FIXTURE_FILES, MAX_FIXTURE_BYTES,
  Times               \* the times a copy may be made at

SuiteAssumption ==
  /\ Sizes \in [Contents -> Nat] /\ Cases \in Nat \ {0}
  /\ MAX_FIXTURE_FILES \in Nat /\ MAX_FIXTURE_BYTES \in Nat

VARIABLES
  fixture,    \* of the case: [base, after, git]
  valid,      \* for each case, whether its definition is
  pc, case,
  workspace,  \* its tree
  index,      \* what git has recorded of it
  commits,    \* the trees committed
  results     \* one for each case that was run: [case, passed, tree, parent]
vars == <<fixture, valid, pc, case, workspace, index, commits, results>>

NoFile == [content |-> "none", size |-> 0, mtime |-> 0]
Empty == [f \in Files |-> NoFile]
Here(tree) == {f \in Files : tree[f] # NoFile}
ContentOf(tree) == [f \in Files |-> tree[f].content]
\* Fixtures carry the times their own files have.
Trees == [Files -> {NoFile} \cup {[content |-> c, size |-> Sizes[c], mtime |-> t] :
                                    c \in Contents, t \in Times}]
NoFixture == [base |-> Empty, after |-> Empty, git |-> FALSE]

Init ==
  /\ fixture = NoFixture
  /\ valid \in [1 .. Cases -> BOOLEAN]
  /\ pc = "load" /\ case = 0
  /\ workspace = Empty /\ index = Empty /\ commits = <<>>
  /\ results = <<>>

\* load_benchmark_suite: one definition that is not accepted refuses them all.
Load ==
  /\ pc = "load"
  /\ pc' = IF \A k \in DOMAIN valid : valid[k] THEN "next" ELSE "refused"
  /\ UNCHANGED <<fixture, valid, case, workspace, index, commits, results>>

NextCase ==
  /\ pc = "next" /\ case < Cases
  /\ case' = case + 1
  /\ \E base, after \in Trees, git \in BOOLEAN :
       fixture' = [base |-> base, after |-> after, git |-> git]
  /\ workspace' = Empty /\ index' = Empty /\ commits' = <<>>
  /\ pc' = "validate"
  /\ UNCHANGED <<valid, results>>

Add(passed) ==
  results' = Append(results,
    [case |-> case, passed |-> passed, fixture |-> fixture, commits |-> commits])

\* Fault: it is the end of the suite.
CaseFails_Stops ==
  /\ Add(FALSE)
  /\ pc' = "done"
  /\ UNCHANGED <<fixture, valid, case, workspace, index, commits>>

\* Any exception: the case has failed, the suite goes on.
CaseFails ==
  /\ Add(FALSE)
  /\ pc' = "next"
  /\ UNCHANGED <<fixture, valid, case, workspace, index, commits>>

-----------------------------------------------------------------------------
(* _materialize_fixture *)

Bytes(tree) == FoldSet(LAMBDA f, n : n + tree[f].size, 0, Files)
\* _validate_fixture_tree looks at both directories together.
Acceptable ==
  /\ ~fixture.git
  /\ Cardinality(Here(fixture.base)) + Cardinality(Here(fixture.after)) <= MAX_FIXTURE_FILES
  /\ Bytes(fixture.base) + Bytes(fixture.after) <= MAX_FIXTURE_BYTES

\* shutil.copytree keeps the times of the files, shutil.copy does not.
CopyBase ==
  /\ pc = "validate" /\ Acceptable
  /\ workspace' = fixture.base
  /\ pc' = "add_base"
  /\ UNCHANGED <<fixture, valid, case, index, commits, results>>

Refuse == pc = "validate" /\ ~Acceptable /\ CaseFails

\* git add --all: a file whose size and time are those recorded may be taken
\* for the file recorded; here it always is.  No file of a fixture is taken to be
\* a .gitignore or a .gitattributes, which git would follow.
Added(idx) ==
  [f \in Files |->
     IF /\ workspace[f] # NoFile /\ idx[f] # NoFile
        /\ workspace[f].size = idx[f].size /\ workspace[f].mtime = idx[f].mtime
     THEN idx[f] ELSE workspace[f]]

AddBase ==
  /\ pc = "add_base"
  /\ index' = Added(index)
  /\ pc' = "commit_base"
  /\ UNCHANGED <<fixture, valid, case, workspace, commits, results>>

CommitBase ==
  /\ pc = "commit_base"
  /\ commits' = <<ContentOf(index)>>
  /\ pc' = "clear"
  /\ UNCHANGED <<fixture, valid, case, workspace, index, results>>

Clear ==
  /\ pc = "clear"
  /\ workspace' = Empty
  /\ pc' = "copy_after"
  /\ UNCHANGED <<fixture, valid, case, index, commits, results>>

CopyAfter ==
  /\ pc = "copy_after"
  /\ \E now \in [Files -> Times] :
       workspace' = [f \in Files |->
         IF fixture.after[f] = NoFile THEN workspace[f]
         ELSE [fixture.after[f] EXCEPT !.mtime = now[f]]]
  /\ pc' = "forget"
  /\ UNCHANGED <<fixture, valid, case, index, commits, results>>

\* Fault: the index is kept.
ForgetIndex_Kept ==
  /\ pc = "forget"
  /\ pc' = "add_after"
  /\ UNCHANGED <<fixture, valid, case, workspace, index, commits, results>>

\* git rm -r --cached.
ForgetIndex ==
  /\ pc = "forget"
  /\ index' = Empty
  /\ pc' = "add_after"
  /\ UNCHANGED <<fixture, valid, case, workspace, commits, results>>

AddAfter ==
  /\ pc = "add_after"
  /\ index' = Added(index)
  /\ pc' = "commit_after"
  /\ UNCHANGED <<fixture, valid, case, workspace, commits, results>>

\* --allow-empty: also when nothing has changed.
CommitAfter ==
  /\ pc = "commit_after"
  /\ commits' = Append(commits, ContentOf(index))
  /\ pc' = "review"
  /\ UNCHANGED <<fixture, valid, case, workspace, index, results>>

\* _fixture_git: git is missing, does not answer in time, or fails.
GitFails ==
  /\ pc \in {"add_base", "commit_base", "forget", "add_after", "commit_after"}
  /\ CaseFails

ReviewFails == pc = "review" /\ CaseFails

Review ==
  /\ pc = "review"
  /\ \E passed \in BOOLEAN : Add(passed)
  /\ pc' = "next"
  /\ UNCHANGED <<fixture, valid, case, workspace, index, commits>>

Finish ==
  /\ pc = "next" /\ case = Cases
  /\ pc' = "done"
  /\ UNCHANGED <<fixture, valid, case, workspace, index, commits, results>>

Next ==
  \/ Load \/ NextCase \/ CopyBase \/ Refuse \/ AddBase \/ CommitBase \/ Clear \/ CopyAfter
  \/ ForgetIndex \/ AddAfter \/ CommitAfter \/ GitFails \/ ReviewFails \/ Review \/ Finish

\* The process is left alone: it goes on as long as it can.
Spec == Init /\ [][Next]_vars /\ WF_vars(Next)

\* BenchmarkSuiteResult.passed.
SuitePassed == pc = "done" /\ \A i \in DOMAIN results : results[i].passed

-----------------------------------------------------------------------------
(* Properties *)

TypeOK ==
  /\ case \in 0 .. Cases /\ Len(results) \in {case - 1, case}
  /\ workspace \in Trees /\ index \in Trees
  /\ Len(commits) <= 2

\* docs/commit-review-benchmark.md: base and after are complete trees, "so
\* removal from after creates a real deletion": what is reviewed is the change
\* from base to after, also when a file of the same size got the same time.
ReviewsTheChange ==
  pc = "review" => commits = <<ContentOf(fixture.base), ContentOf(fixture.after)>>

\* "The suite passes only when every case passes": each case the suite lists is
\* there, once and in order, and has been reviewed as its fixture says.
PassIsWhole ==
  SuitePassed =>
    /\ Len(results) = Cases
    /\ \A k \in 1 .. Cases :
         /\ results[k].case = k
         /\ results[k].commits = <<ContentOf(results[k].fixture.base),
                                   ContentOf(results[k].fixture.after)>>

\* One bad case never keeps the others from being run.
EveryCaseIsRun == <>(pc = "refused" \/ (pc = "done" /\ Len(results) = Cases))
=============================================================================
