----------------------------- MODULE CommitReader -----------------------------
(***************************************************************************)
(* The parts of GitCommitReader, each with variables of its own and        *)
(* independent of the others.  which says what a behaviour is about:       *)
(*   git       a bounded capture of git's output                           *)
(*   objects   the private copy of the object store                        *)
(*   commit    the snapshot of a commit: its diffs, its context            *)
(* The variables of the other parts are at rest.                           *)
(***************************************************************************)
EXTENDS GitCapture

CONSTANTS
  Objects, Dir, Dirs, PackOrder, InitialPacks, Absent, MaxBytes, MaxEntries, Nobody,
  MaxSize, MaxChanges,                                            \* ObjectSnapshot
  MaxFiles, MaxDiff, MaxContext, MaxContextFiles, Entries, MaxCommitEntries, Targets, Names,
  MaxRequests                                                     \* CommitSnapshot

VARIABLES
  which,
  file, holds, changes, always, phase, dirs, queue, source, before, copied, entries,
  bytes, snapshot,
  stage, listed, left, remaining, files, truncated, python, asked, requests, tree, todo,
  contexts, ctxTruncated

captureVars == <<forks, vars>>
objectVars == <<file, holds, changes, always, phase, dirs, queue, source, before, copied,
                entries, bytes, snapshot>>
commitVars == <<stage, listed, left, remaining, files, truncated, python, asked, requests, tree,
                todo, contexts, ctxTruncated>>
readerPartVars == <<captureVars, objectVars, commitVars>>

Copy == INSTANCE ObjectSnapshot WITH pc <- phase
Commit == INSTANCE CommitSnapshot WITH pc <- stage, MaxEntries <- MaxCommitEntries

CopyAssumption ==
  /\ Copy!DirAssumption /\ Copy!BudgetAssumption /\ Copy!BoundAssumption
  /\ Copy!StoreAssumption /\ Copy!InitialAssumption
CommitAssumption == Commit!LimitAssumption /\ Commit!EntryAssumption

-----------------------------------------------------------------------------
IdleCapture == Init /\ ~forks
IdleObjects ==
  /\ file = 0 /\ holds = 0 /\ changes = 0 /\ always = 0 /\ phase = "idle" /\ dirs = 0
  /\ queue = 0 /\ source = 0 /\ before = 0 /\ copied = 0 /\ entries = 0 /\ bytes = 0
  /\ snapshot = 0
IdleCommit ==
  /\ stage = "idle" /\ listed = 0 /\ left = 0 /\ remaining = 0 /\ files = 0 /\ truncated = 0
  /\ python = 0 /\ asked = 0 /\ requests = 0 /\ tree = 0 /\ todo = 0 /\ contexts = 0 /\ ctxTruncated = 0

ReaderInit ==
  \/ which = "git" /\ Init /\ IdleObjects /\ IdleCommit
  \/ which = "objects" /\ IdleCapture /\ Copy!Init /\ IdleCommit
  \/ which = "commit" /\ IdleCapture /\ IdleObjects /\ Commit!Init

ReaderNext ==
  /\ UNCHANGED which
  /\ \/ which = "git" /\ Next /\ UNCHANGED <<objectVars, commitVars>>
     \/ which = "objects" /\ Copy!Next /\ UNCHANGED <<captureVars, commitVars>>
     \/ which = "commit" /\ Commit!Next /\ UNCHANGED <<captureVars, objectVars>>

ReaderSpec == ReaderInit /\ [][ReaderNext]_<<which, readerPartVars>>

-----------------------------------------------------------------------------
(* What the parts promise *)

\* The copy of the object store never takes more room than it may.  When it is
\* finished, each of its files is what the store's file was at one moment, and an
\* object the store has had throughout is in it.
CopyIsFaithful == which = "objects" => Copy!CopyIsFaithful

\* Nothing a commit changes is hidden from a review that counts as complete, nor
\* what a changed file that parses imports; diffs and context keep within their
\* budgets but for one marker apiece.
CompleteIsComplete ==
  which = "commit" =>
    Commit!TypeOK /\ Commit!NothingHidden /\ Commit!ImportsCovered /\ Commit!WithinBudgets
=============================================================================
