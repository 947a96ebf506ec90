# Inverse-Agent in TLA+

Inverse-Agent plans verification work for a repository, asks a person before it
runs a command, keeps runs over restarts, and reviews commits. This directory
holds models of its parts in TLA+, the TLC configurations that check them on
small instances, and proofs of main properties for every instance. Line numbers
are those of the source files as they are in this repository; file names without
a directory are in `src/src/inverse_agent`, docs in `src/docs`.

## The system

| Component | State it keeps | Operations | Must guarantee |
| --- | --- | --- | --- |
| Run store (`service.py`, `RunStore`) | `runs.sqlite`: status, pending approval, completed actions, planner fingerprint | create, claim_start, claim_pending, update_from_result, mark_failed, mark_refused, list_by_status | a claim succeeds once; a result never overwrites a row that moved on |
| Agent service (`service.py`, `AgentService`, `StateDirectoryLease`) | `service.lock`; requests in flight, one thread each | create_run, trust_workspace, start, approve_and_resume, decline, recovery in the constructor, close | one driver per run; no run is stranded; recovery invents nothing |
| Durable workflow (`workflow.py`) | `checkpoints.sqlite` (through LangGraph), the trace file | nodes profile, plan, execute, finalize; interrupt and resume | a command runs only past its interrupt; every action of the plan once, in order |
| Approval authority (`approvals.py`) | `approval-replay.sqlite` | issue, verify, consume | a capability starts the one command it names, once, in time |
| Command runner (`runner.py`) | none (a child process) | approval_challenge, run | the command started is the command approved; a budget ends it |
| Trust store (`service.py`) | `workspace-trust.sqlite` | trust, is_trusted | no code of an untrusted workspace runs |
| Planners (`planner.py`) | none (an HTTP connection) | plan | registered tools only, none twice, at most eight |
| Policy and adapters (`policies.py`, `adapters/`) | none | rules, detected commands | every adapter command matches a rule |
| Commit reader and reviewer (`commit_review.py`) | a copy of the repository; git child processes with two reader threads | read, review | bounded capture ends; a budget never hides a finding silently |
| Review benchmark (`review_benchmark.py`) | none | score | one consistent assignment of findings |
| Control plane (`control_plane.py`) | two tokens | HTTP routes | an operator cannot approve |
| Workbench (`ui/app.js`) | selected run, navigation epoch, tokens | select, create, start, approve, forget | a late answer never replaces a newer choice |
| Model configuration, environments, redaction, CLI, MCP server, evaluation | none | lookups, wrappers | - |

The components meet in one place. A request thread of the control plane (or of
the command line) calls the service; the service claims the row of the run with
a compare-and-swap, calls the workflow, and projects what the workflow returns
onto the row with another. The workflow calls the planner once and the runner
once per action; the runner asks the approval authority, which spends the
capability, before it starts the command. Each of these steps leaves a trace in
a different file, the process can die between any two of them, and only the
next process, in its constructor, puts the files back in agreement.

Commit review is a second program in the same package: it copies the object
store of a repository, runs git over the copy, renders a bounded snapshot of the
commit, lets detectors and a model propose findings and the model judge them,
and maps each to a changed line. The benchmark makes repositories of fixtures,
runs the review over them and scores the reports. The workbench is a page that
the control plane serves; it polls, and sends one request per gesture.

What is hard:

* concurrency: threads of one process share the rows; a second process may be
  started over the same directory; git's pipes are read by two threads; the page
  has several requests under way;
* crashes: between claim and result, between the spending of a capability and
  the launch, while a command runs, between a checkpoint and the row, in the
  transaction that consumes a capability;
* ordering: LangGraph writes checkpoints in the background, so durable progress
  lags behind what has happened; answers arrive after later gestures;
* stale data: approvals given for an earlier question, a name that resolves to
  another executable since the approval, a planner configuration that changed
  since the run was created, an object store that changes under its copy;
* limits: of output, time, characters, findings and entries, each of which must
  turn into an error or a flag and never into a shorter success.

## Modules

| Module | Models | With |
| --- | --- | --- |
| `AgentService` | The run service: one state machine over the five SQLite stores, the trace file, the lease, any number of processes and worker threads, the workflow graph and the command gate | `AgentServiceProperties` (properties, refinement mapping), `MCAgentService`, proofs `AgentServiceProofs`, `AgentServiceGate` |
| `HumanGate` | Abstract specification: what a person who answers a question is promised | refined by `AgentService` |
| `Approvals` | `approvals.py`: issue, check and consumption against a clock, over one database | part of `RunSupport` |
| `CommandRunner` | `runner.py`: one command from approval to result, beside its processes | extended by `RunSupport` |
| `ModelRequest` | `planner.py`: one HTTP request against its deadline and size limit | part of `RunSupport` |
| `TracePreview` | `service.py`, trace_preview: the shared output budget | part of `RunSupport`; `Totals` (sums) |
| `BenchmarkRun` | run_benchmark_suite: fixtures, repositories, cases | part of `RunSupport` |
| `RunSupport` | What stands around a run: the five modules above, side by side | `MCService`, proofs `RunSupportProofs` |
| `ControlPlane` | `control_plane.py`: routes, keys and what routes answer | part of `Workbench` |
| `Workbench` | `ui/app.js`: one tab in front of `ControlPlane` | `WorkbenchProperties`, `MCWorkbench`; proofs `WorkbenchProofs`, `WorkbenchPage` |
| `GitCapture` | `commit_review.py`, _git_bytes: git, its pipes, two reader threads and the caller | extended by `CommitReader` |
| `ObjectSnapshot` | the copy of an object store that stays in use | part of `CommitReader` |
| `CommitSnapshot` | read: from changed entries to diffs, context and flags | part of `CommitReader`; `CommitEntries` (what an entry may be), `Totals` |
| `CommitReader` | The three parts of GitCommitReader, side by side | `MCReader`, proofs `CommitReaderProofs` |
| `LineEndings` | _unified_diff, _line_ending_kinds_changed | `MCReader` |
| `DiffLines` | _parsed_diff_lines: numbers and sides of changed lines | `MCReader` |
| `CandidateReview` | CommitReviewer.review: candidates, adjudication, merge, verdict | `MCReview`, proofs `ReviewProofs` |
| `EvidenceMatch` | _match_changed_evidence: from a quotation to one line | `MCReview`, proofs `ReviewProofs` |
| `BenchmarkScore` | score_review and its search for an assignment | `MCReview` |
| `Totals` | The sum of a sequence of numbers | proofs `TotalsProofs` |

Parts that do not interact are put side by side, each with variables of its own,
and checked together, several to a run: in `RunSupport` and `CommitReader`, whose
parameters are those of the parts, and in `MCService`, `MCReader` and `MCReview`,
which give the parameters values and add the parts that only TLC looks at. The
variable `which` is chosen at the start and says which part a behaviour is about;
the variables of the other parts are at rest and take no step. Each property
names the part it is about. So a state space is the sum of those of the parts,
not their product, and what TLC finds of a part is what it would find of it
alone. Parts that do interact are composed in one module: processes, threads,
stores, graph and gate in `AgentService`, the page and the routes in `Workbench`.

In each module a definition called `X_Fault`-like (`Clip_Alone`, `KillTree_Leader`)
stands before the definition `X` it is a faulty form of. It is no part of the
specification; with it in place of `X`, a property of the module fails, which
shows that the property looks at that line of the code.

### AgentService: state and actions

Durable variables carry the name of their column or file: `status`, `pending`,
`completed`, `origin` (planner fingerprint and autonomy level), `trusted`,
`spent` (approval-replay.sqlite), `ckpt` (the newest durable checkpoint of each
run) and `trace`. `lease` is the OS lock on `service.lock`; `phase`, `config`
and `todo` are a process's life, configuration and list of rows to reconcile;
`pc` and `job` are a worker's program counter and memory. `binary` stands for
what the executable path of the tools resolves to; the environment changes it.
`seen` and `launches` are history variables: the questions a person has been
shown, and the commands handed to the operating system.

One action is one SQLite transaction, one return of a graph node, or one effect
the outside can observe. A worker goes through these labels:

    start:    idle -> claim -> graph ...              (StartRequest, ClaimStart)
    approve:  idle -> issue -> graph ...              (ClaimPending, IssueAndResume)
    decline:  idle -> refuse -> idle                  (ClaimPending, Decline)
    graph:    profile -> plan -> execute ... -> finalize -> end
    execute:  graph -> flush                          (first pass: interrupt)
              graph -> verify -> spawn -> wait -> graph   (resumed)
    result:   flush or end -> record -> idle          (Flush, Record)
    failure:  any -> fail -> idle                     (Raise, MarkFailed)

`ClaimPending` is one action because claim_pending reads and writes in one
`BEGIN IMMEDIATE` transaction; `StartRequest` and `ClaimStart` are two, because
start reads the row, its planner and the workspace's trust first and claims in a
transaction of its own. `Persist` is LangGraph's background writer: it may
bring `ckpt` up to the worker's graph at any time, and must have done so when
invoke returns (`Flush`). Resuming (`IssueAndResume`) starts from the durable
checkpoint, whose interrupt stays the newest one until the resumed node
returns: that is what a restart finds. A row of the reconciliation is one
action: it reads a checkpoint nobody else writes while the lease is held, and
updates the row with the status it was listed with.

What is abstracted: text (goals, rationale, redaction, reasons), the argument
vector (a tool fixes it, up to the resolved executable), several workspaces
(one, trusted or not), approver identities. `Tools` are tools with an
approval-gated rule; the one rule without approval is emitted by no adapter.
Row status `running`, which the reconciliation also asks for, is never written.

### HumanGate

The abstract specification has four variables: what a run is doing, the
questions asked about it, the permission it holds and the commands launched. Its
point: a launch uses up one yes, that yes was given to exactly this question,
and it was given while the question was asked. `Gate` in
`AgentServiceProperties` maps the service to it: a worker acts on a yes from
the claim of an approval until the command is started; a crash in between loses
the yes and never the other way round.

### Approvals

Time goes in half seconds, because what can go wrong is the cutting off of
fractions: `issue` and `verify` both truncate `time.time()`. A process's
verification is `Check` (signature, expiry, action), `Insert` (INSERT OR IGNORE,
which takes the database's lock and counts a row), `Commit` (the end of the
`with`) and `Return`; it can be refused, can fail at the database, and its
process can die between any two. The time is looked at by `Check` only; a call
keeps in `checked` and `taken` when that was and when the row was inserted, so
that the properties can say how far the two are apart. `granted` are the claims that were signed; that
nobody else can sign is an assumption, so a token is an id. `uses` counts how
often `verify` returned the claims of an id.

### CommandRunner

The runner's `pc` follows `run`: prepare, start, wait, then after a timeout
terminate, grace and last, then rewind, read and answer. Beside it act the
command (`leader`), one process it may start, in its group or apart from it, and
the names that decide what `resolved` is. A zombie keeps its exit code while the
runner times out and kills: the race the status is about. The output file's
`position` belongs to all that have the file open, the runner included: its
rewinding moves where the others write. `said` and `late` are history variables,
what was written up to the rewinding and how many writes came after it before
the read. A kill may be refused (`KillRefused`), as killpg may be. Left out: the
two streams are one and writes are of one size; redaction, path arguments, Windows, and what stands at a path that resolves
as before.

### ModelRequest

A call that blocks (connect, send, headers, body) has the timeout its socket was
given last; `Tick` stops when it is used up. One call of http.client may wait
several times, each with that timeout (`Piece`): for another address, for lines
of a header, for an answer 100 before the real one, and in a chunked body for the
size, the end and the trailer of a chunk. Nothing in the code bounds how often;
`MaxPieces` does in the instance, and the properties are in terms of `pieces`, so
that none of them rests on it. For the same reason the module has no liveness:
an endpoint that is slow enough never lets a call end. http.client lets go of its
socket when the response closes the connection, so `Reapplied` then leaves the
timeout as it was. The answer's JSON is either whole or refused.

### Workbench and ControlPlane

An async function is a flow that runs to its next await; its request is served
once, after it was sent, and answered, or lost, after that. `tab` is the `state`
object of app.js with what the page shows, and in `wanted` what the person chose
last: a run, or `Fresh` for a task that does not exist yet, which becomes the run
made for it as soon as the page hears of it (`Known`). `ControlPlane` gives the routes'
guards and effects on a row, the workflow between two answers being one step of
`Work`. The surroundings of a tab are fixed for a behaviour by `setting`, one of
`Settings`: which gestures the person may make and how many, whether somebody
else decides too, whether the tab has its keys, how requests may fail, and the
rows there are at the start. Of the routes' answers one is left out: the 409
of a trace that cannot be read (control_plane.py:213).

### The commit reader and reviewer

`GitCapture` counts bytes in units; a reader's stream is buffered, holds a lock
while it reads, and loses its buffer with an error: that is where the two
findings about it come from. `forks` says whether this git may leave a process
behind. `ObjectSnapshot` puts git (add, pack, prune, drop)
and a program that rewrites files in place beside the copying reader; links,
junctions and foreign names, which the code refuses, are left out, a directory
is read in one step, and a rewritten file has another time than before (the code
compares it, and a file system with coarse times would hide a rewrite).
`Waited` takes it that a killed git has ended within the five seconds the code
gives it (commit_review.py:1144), on which `KilledBeforeReturn` rests.
`CommitSnapshot` describes a change by its facets and a rendering by the facets
it shows, and asks that nothing of a change is hidden from a review that counts
as complete: `listed` remembers how many entries the commit has, of which only
the first `MaxFiles` are looked at. A changed Python file names imports only if it
parses. `LineEndings` and `DiffLines` are functions of the code written
over sequences and compared with what the texts really are, over all inputs
within bounds; in `DiffLines` hunks that touch are allowed, as in a diff of no
context, and the diff is aligned without what difflib does from 200 lines on.
`CandidateReview` is the review itself, with the model's verdicts any
there may be. A turn of a scout is a step of the recursive function `Turns`; there
are as many as the list has places for each scout, which is enough for every
proposal to be taken, so the code's positions in the queues and its check that a
round advances need no state: what a queue has passed is in the list already or
a detector's. `EvidenceMatch` tells letters and digits (`Words`) from other
characters, since evidence lines without one are passed over
(commit_review.py:1959). It leaves out source lines that are instructions to the
reviewer, which the reader has taken out before. Source-language detectors
and the text of prompts are not modelled.

### The benchmark

`BenchmarkScore` compares the search of score_review with a definition that
looks at every assignment; which words a text contains is the parameter
`covers`. MAX_MATCH_OPTIONS (256) is not reached in any instance. `BenchmarkRun`
keeps, beside the content git recorded of a file, the size and time it trusts.
Left out are cases that name a commit of an existing repository, which have a
review and no fixture (review_benchmark.py:360), and a `.gitignore` or
`.gitattributes` among a fixture's files, which `git add --all` would follow.

## Runs

| Run | What it shows | Checks |
| --- | --- | --- |
| core (`AgentServiceCore.cfg`) | One assisted or advisory run of up to two actions, two threads, a crash anywhere, an executable that changes or disappears: what reaches the operating system and what the row says, and the refinement of HumanGate. | `TypeOK`, `LaunchIsAuthorised`, `WaitingIsResumable`, `SuccessIsEarned`, `RecordedNeverRelaunched`, `ImplementsHumanGate` |
| restarts (`AgentServiceRestarts.cfg`) | Two processes with different planner configurations take turns over one state directory, two crashes: ownership of a run through every recovery. | `OneDriver`, `TransientHasOwner`, `PlannedByRecordedPlanner`, `TerminalIsFinal` |
| runs (`AgentServiceRuns.cfg`) | Two runs and two threads of one process, with a crash: claims, trust and levels of different runs do not get mixed up. | `OneDriver`, `OnlySanctionedRuns` |
| live (`AgentServiceLive.cfg`) | Under fairness of workers, recovery and restarts, a starting or approving run gets out of that status, also after a crash. | `TransientResolves` |
| lapse (`AgentServiceLapse.cfg`) | What is left when a process loses the lease while its requests go on: capabilities and expected-status updates hold without it. | `LaunchIsAuthorised`, `TerminalIsFinal` |
| store (`AgentServiceStore.cfg`) | The store raises between the claim of a run and its release: the run stays in a transient status, and the next restart clears it. | `RestartHeals` |
| genuine (`AgentServiceGenuine.cfg`) | A crash after an approved command was launched: the recovery finds the interrupt the graph was resumed from and asks for the same command again. | expected violation of `PendingIsGenuine` |
| finalized (`AgentServiceFinalized.cfg`) | A crash between an advisory run's plan and its finalize node: the recovery takes the nonterminal checkpoint for a success without a trace. | expected violation of `SuccessIsFinalized` |
| service (`Service.cfg`) | What stands around a run, part by part: LocalRunner with any command, capabilities under two processes with one database, a request to a slow or endless endpoint, trace previews against their budget, the benchmark's suites and fixtures, and a tab that follows a run's progress. | `ApprovedIsExecuted`, `SuccessIsItsOwn`, `NothingLeftRunning`, `OutputIsKept`, `ClaimsAreGood`, `RequestKeepsLimits`, `PreviewIsHonest`, `SuiteIsWhole`, `RunnerAnswers`, `EveryCaseIsRun`, `ShownProgressIsFollowed` |
| reader (`Reader.cfg`) | The commit reader, part by part: git's output captured with and without a process left behind, the object store copied while it changes, a commit's diffs and context against their limits, line endings, and the parser of diffs. | `Bounded`, `KilledBeforeReturn`, `NeverTruncatedAlone`, `CopyIsFaithful`, `CompleteIsComplete`, `DiffsAreTrue`, `CallReturns` |
| review (`Review.cfg`) | What is reported, part by part: candidates of detectors and scouts that compete and restate each other, the line that evidence stands for, and the score of a report. | `ReportIsFair`, `EvidenceIsALine`, `ScoreIsExact` |
| workbench (`Workbench.cfg`) | A tab whose requests and answers overlap: navigation with failing requests, decisions beside another tab, connections with right and wrong keys. | `ShownUnlessNavigating`, `KeysAreJudged`, `LatestChoiceWins` |

The parts of the last four runs, by the value of `which`, and what a second
variable of theirs says; of the workbench, by `setting`:

| Part | Instance | Properties |
| --- | --- | --- |
| command | One command of any rule, that may start another process, exit, be stuck or outlive its budget, with a name that comes to mean another executable and a crash anywhere | `ApprovedIsExecuted`, `SuccessIsItsOwn`, `NothingLeftRunning`, `OutputIsKept`, `RunnerAnswers` |
| approvals | Two capabilities of one second, two processes with one database, a second and a half in halves, crashes and locks that are not to be had | `ClaimsAreGood` |
| request | A timeout of three units, up to two further waits in each call, bodies up to two units over the limit, in any pieces at any time, declared or not, chunked or not | `RequestKeepsLimits` |
| preview | Traces of up to three actions, malformed ones among them, streams below, at and above their limit, a budget of two streams, a limit of two actions | `PreviewIsHonest` |
| suite, files | One case of two files, with deletions, and files of one size and time, at any failure of git | `SuiteIsWhole` |
| suite, cases | Two cases, of which either may be refused, fail at any step or be reviewed | `SuiteIsWhole`, `EveryCaseIsRun` |
| tabs | A tab that starts, decides and selects, with two gestures beside another tab, with three alone | `ShownProgressIsFollowed` |
| git | One git call with both streams up to and over their limits, a timeout at any moment, no process left behind | `NeverTruncatedAlone`, `CallReturns`, `Bounded`, `KilledBeforeReturn` |
| git, `forks` | The same with a process that inherits the pipes | `Bounded`, `KilledBeforeReturn` |
| objects | Three objects, packed, pruned, added and overwritten while they are copied, with limits within reach | `CopyIsFaithful` |
| commit | Up to three entries of every kind, with text, endings, bytes, modes, secrets and instructions, against limits within reach | `CompleteIsComplete` |
| commit, `imports` | Imports of several changed Python files merged into requests, read in order within two budgets | `CompleteIsComplete` |
| endings | Every pair of texts of up to three lines with three kinds of line ending | `DiffsAreTrue` |
| lines | Every diff of up to two hunks of up to two lines, with and without metadata hunks, whole and cut at every entry | `DiffsAreTrue` |
| report | Detectors and two scouts propose any of three findings, with repetitions, for a list of two | `ReportIsFair` |
| report, one scout | Three findings on two lines, with one or several categories, merged into a report | `ReportIsFair` |
| evidence | Up to three changed lines, two of a side, of four texts, one of which begins with a marker and one without a letter, and every block of one or two quotations | `EvidenceIsALine` |
| score | Two expectations, one of two groups, against up to two findings and up to two that the scouts support | `ScoreIsExact` |
| choice | Up to three findings that may be used in several ways | `ScoreIsExact` |
| Fence | Selecting, creating, starting and trusting while earlier answers, lost ones included, are still under way | `LatestChoiceWins`, `KeysAreJudged` |
| Decide | Two runs that wait, decisions from this tab and another one | all three |
| Access | Right and wrong keys, connecting, clearing access and reloading, with lost answers | `LatestChoiceWins`, `KeysAreJudged` |
| Alone | Starting, deciding, selecting and trusting without another tab | all three |

A property of a run that covers several parts is a conjunction of the parts' own
properties, which are stated one by one, with what they are about, in the parts'
modules: `CopyIsFaithful`, for one, is `WithinBudget`, `NoTornFile` and
`NothingMissed` of `ObjectSnapshot`, together with its `TypeOK`.

Bounds of `AgentService`. `MaxFaults` counts crashes, lost leases and lost
updates, `MaxRebinds` changes of the executable, `MaxApprovals` approvals (used
in `LapseSpec` only; elsewhere a plan bounds them), `MaxPlan` the plan's length
(8 in the code). Two actions are enough for everything that distinguishes "this"
from "the next" action; two threads for every race over one row, since each race
is between two updates of it; two faults for a crash during the recovery from a
crash. What is claimed for all sizes is proved, see below.

Bounds of the others. Limits of the code (bytes, characters, findings, entries,
seconds) are constants given values of a few units, and inputs go to at least one
beyond each limit, so that "at the limit" and "over it" both happen: `MaxOutput`
is over both capture limits, `Lengths` over `STREAM_CHARS` with `MAX_CHARS` not
more than two streams, `MaxTrace` one over `MAX_ACTIONS`, `MaxBody` over
`MAX_BYTES` by two, `MaxEntries` below what `ObjectSnapshot` may come to hold,
proposals over `MAX_FINDINGS`. `MaxChanges` = 4 lets an object be packed in full
(pack, index, prune) with one change more. Two to four gestures (`most`) with two
flows lets one answer be late under a later gesture or more. A lifetime of one
second, two half seconds, is shorter than `MaxNow` = 3 half seconds and may
begin at either half. `MaxWrites` = 2 is one over `LIMIT`.

Deadlock checking is on for `AgentService`: a process can always be started
again. The other systems stop: a capture, copy, review, request, preview,
command or benchmark ends; the functions (`LineEndings`, `DiffLines`,
`EvidenceMatch`, `BenchmarkScore`) are evaluated once per input; the clock of the
approvals ends at `MaxNow`; and the workbench's bounded person runs out of
gestures. That nobody waits for ever where the code must answer is stated as
liveness instead (`RunnerAnswers`, `EveryCaseIsRun`, `CallReturns`).

Symmetry: in `AgentService` threads of one process, runs, and tools are
interchangeable, in the workbench run flows; no run with a liveness property uses it.

### Findings

1. *genuine*. docs/architecture.md:28 says that startup reconciliation restores
   "genuine approval interrupts". After a crash while an approved command runs,
   the newest checkpoint is the interrupt the graph was resumed from, and the
   reconciliation (service.py:694) lets the run wait for approval of the command
   that has already been started. Nothing says that its outcome is unknown, as
   it would if the checkpoint had no interrupt. Each launch still has an
   approval of its own (`LaunchIsAuthorised`, `ImplementsHumanGate` hold).
2. *finalized*. The plan node of an advisory run writes status `succeeded`
   (workflow.py:190); a crash before its finalize node leaves a nonterminal
   checkpoint that the reconciliation (service.py:682) takes for a success,
   without a trace. docs/architecture.md:28 says nonterminal checkpoints without
   an interrupt are marked failed. For assisted runs the same status values
   cannot occur before finalize, which `SuccessIsEarned` checks.

The models show more, each as a property that TLC finds violated on the instance
named (the module's own specification, constants as given; where none are given,
those of the part of the same module above). No run is kept for them; the parts
above state what holds beside them.

3. `ApprovedIsShown` (`WorkbenchProperties`; two runs that wait, gestures select
   and decide). resolveApproval sends the digest of the selected run (app.js:577),
   which selectRun has set (app.js:352) before the profile request it waits for
   (app.js:356); until that is answered the panel of the run before is on the
   page, with live buttons. docs/architecture.md:36 says that assisted mode
   pauses with the next command "visible to the human".
4. `TrustedIsShown` (`WorkbenchProperties`; runs in two directories, gestures
   select, goal and trust). The trust dialog names the directory it was opened
   with (app.js:535); its confirmation sends the one in memory by then
   (app.js:553), which a selection still under way may have changed.
5. `ForgetClears` (`WorkbenchProperties`; gestures connect and forget). Answers
   that arrive after "Access cleared for this tab" (app.js:277) bring the key
   back into the session storage (app.js:237) and the task list onto the page.
6. `CaptureReturns` (`GitCapture`, `FairSpec`, where `forks`). A process that
   outlives git holds a pipe; the joins time out, and closing the stream
   (commit_review.py:1157) waits for the lock its reader holds. docs/safety.md:28:
   "force-closes both pipes, and joins both readers before returning".
7. `NeverTruncated` (`GitCapture`, where `forks`). _drain_bounded swallows the
   error of a closed descriptor (commit_review.py:1208): a reader that lost its
   buffer counts as one that has read everything, and a short output is a
   success.
8. `ImportsCovered` (`CommitSnapshot`) is stated of the changed files that parse, and
   would fail of all: what one imports that does not parse is neither shown nor
   flagged (commit_review.py:781); docs/safety.md:28 promises `INCOMPLETE` for
   unresolved imported symbols.
9. `UnchangedIsUnchanged` (`LineEndings`; one ending "LF", a separator). The diff
   splits where str.splitlines does (commit_review.py:1303), the check for line
   endings where bytes.splitlines does: a form feed that becomes a newline is
   shown as no change.
10. `CollapsesOnlyRestatements` (`CandidateReview`; two findings of one title and
    line with different categories). The last deduplication (commit_review.py:2172)
    drops one of them; docs/safety.md:28 says restatements collapse only when a
    defect category is shared.
11. `LinesAreTrue` (`DiffLines`, `JoiningSecrets` = TRUE, `MaxLines` = 3, `MaxHunks` = 1).
    A redaction pattern may take a line end with it (redaction.py:21, applied to
    the whole diff at commit_review.py:703); later lines of the hunk then have
    numbers that are too low.
12. `AlternativesStandAlone` (`BenchmarkScore`, part choice). A finding that covers
    a part of an expectation counts as an alternative (review_benchmark.py:248);
    docs/commit-review-benchmark.md:22 asks that it "independently forms a valid
    expected-defect cover".
13. `TruncatedIsTruncated` (`TracePreview`, part preview). output_truncated is also
    set when the output is exactly as long as the budget (service.py:669).
14. `DeadlineIsReapplied` (`ModelRequest`, part request). A response that closes
    the connection takes the socket away before _apply_deadline (planner.py:264)
    can shorten its timeout for the body; docs/safety.md:42 says that the
    deadline is reapplied before every body chunk. `OvershootIsBounded` says
    what a wait may then take.

Cases that the properties name and except, each in its comment:

* A kill that is refused. killpg suppresses only ProcessLookupError
  (runner.py:384); any other error becomes an ordinary error of the result
  (runner.py:208-213) while the command and its group run on, and nothing says
  so. README.md:151 and docs/safety.md:17 say that timeouts terminate the group.
  `NothingLeftRunning` excepts exactly this (`KillWasRefused`).
* Writes during the read. A process of the command that outlives it shares the
  position in the output file; the runner's rewinding (runner.py:350) moves it,
  and what is written before the read replaces the earliest output.
  `OutputIsWhole` says how much is lost: one write for each.
* A capability that expires between its check and its consumption
  (approvals.py:159 and 169). `NeverTakenMuchLater` bounds the time by that of
  the database's lock; the time until the claims are returned has no bound.
* Calls of http.client without end. Each wait has a timeout, a call as a whole
  has none: answers 100 at getresponse (planner.py:214) and the framing of
  chunks at read1 (planner.py:289) may go on as long as the endpoint likes.
  docs/safety.md:42 says as much of headers, and not of bodies. The bounds of
  `WaitByDeadline` and `OvershootIsBounded` grow with the number of waits.

Not a contradiction of any document, but shown by `StoreSpec`: when the update
that releases a run raises (`mark_failed` in the handler, `mark_refused` in
decline), or claim_start's reading of the row it has claimed, which is outside
start's handler (service.py:211), the run stays `starting` or `approving`, no
request can move it, and only a restart does. `TransientHasOwner` and
`TransientResolves` are about behaviours without such a failure, `RestartHeals`
about those with.

### Without the lease

docs/safety.md:22 says that the lease keeps recovery from racing an active
operation. `LapseSpec` takes it away while requests are in flight, as
`test_restart_fails_mid_graph_checkpoint_without_replaying_work` does. There
`OneDriver`, `TransientHasOwner` and `RecordedNeverRelaunched` fail: the status
`approving` of a second approval is the status the first worker expects. Rows
that are terminal stay so, and no command starts without an approval of its
own: these two rest on expected-status updates and on the replay store alone.

### Fairness

`FairSpec` assumes weak fairness of a worker's next step (a model call has a
deadline, planner.py; a command has a compute budget after which it is killed,
runner.py:190; SQLite calls have timeouts), of a recovering constructor, and of
starting a process when none is up: somebody operates the service. Requests,
crashes, closes and the environment are not fair. Checkpoints need none: `Flush`
is part of the worker.

The other fairness assumptions are the runner's thread with its timers
(`CommandRunner`: every wait has a time limit; nothing is assumed of the command
and what it starts); the two readers, the caller
and the end of a process that was killed (`GitCapture`, where git leaves nothing
behind: only then is a blocked read sure to end); the event loop, the server and
its workflows (`Workbench`: an answer arrives unless it is lost, a timer that is
set fires); and a suite that goes on (`BenchmarkRun`: git and the model have
timeouts of their own).

## Proofs

Checked by TLAPS for all values of the constants. Every invariant below was
checked with TLC on the instances above before it was proved, and several were
strengthened because TLC or the prover refused an earlier form.

### The run service

`AgentServiceProofs` and, on top of it, `AgentServiceGate`: for any number of
runs, processes, threads, tools, binaries, plan lengths and faults. Assumed is
that every thread belongs to a process (`HostAssumption`), plans have at least
one action (`PlanAssumption`: both planners refuse an empty one), the bounds are
numbers, and the absent value is none of the processes, origins, digests,
challenges, capabilities and graphs (`NoneAssumption`). Three specifications are
meant: `Spec`; `LapseSpec`, in which a process may lose the lease while its
requests go on; and `StoreSpec`, in which the store may raise and leave a run as
it was claimed. Each theorem is stated for those of the three in which it is true.

* `TypeCorrect`: `Spec => []TypeOK`. `TypeOK` is not inductive: a node's step is
  typed only because the worker holds a graph, and a graph at the execute node
  only because its index is inside its plan. `Typed` adds to `TypeOK` what each
  label says about the worker's memory and that checkpoints are well formed.
  One lemma per action or group of like actions; the groups of variables an
  action leaves alone are dealt with once (`Unchanged`). All three specifications.
* `TerminalIsFinalAlways`, `TerminalIsFinalLapse`: from `Typed`, because every
  update expects a status that is not terminal.
* `OneDriverAlways`, `TransientHasOwnerAlways`, `OneDriverStore`,
  `RestartHealsStore`: from `Owned`, the chain lease - process - worker - row:
  a live process holds the lease; a thread with a request belongs to a process
  that has recovered; the row of a driven run has the status its driver claimed
  it with; a recovering process has every transient row on its list. Worker
  actions are of four kinds (move, idle, claim, release), each kind keeps
  `Owned`, and each action is shown to be of one kind.
* `OnlySanctionedRunsAlways`, `OnlySanctionedRunsLapse`: from `Governed`. Trust
  and autonomy level are looked at once, by start; Governed carries them to
  wherever a run can be picked up again: the claim, the graph in memory, the
  checkpoint, the row.
* `LaunchIsAuthorisedAlways`, `LaunchIsAuthorisedLapse`, `LaunchIsAuthorisedStore`:
  from `Authorised`, which is Governed together with `PlannedOnce` and
  `Answered`. A digest says what is to be run and not where in the plan it
  stands; it names one position because a run has one plan for ever, without
  repetitions, in memory, in checkpoints and in the questions asked. The heart of
  PlannedOnce is that whoever is about to plan is alone with the run: no other
  worker, checkpoint or question exists. Answered says of a capability
  that it carries the answer it was signed for, is spent before the launch,
  and is held by one worker. None of it needs the lease.
* `PlannedByRecordedPlannerAlways`, `PlannedByRecordedPlannerLapse`: from
  `RightPlanner`; a thread on its way to plan keeps its process up, and a process
  does not change its configuration while it is up.
* `WaitingIsResumableAlways`, `SuccessIsEarnedAlways`,
  `RecordedNeverRelaunchedAlways` (the first two also for StoreSpec): from
  `Resumable`. A resume starts from the newest checkpoint, which may be behind
  the launches, and the row is behind the checkpoint. Whatever copy of the graph
  is resumed or projected, the actions before its index have been launched, and
  the row counts up to the position its question is about. It rests on Owned:
  that nobody else writes the checkpoint in between.
* `ServiceImplementsHumanGate`, `ServiceImplementsHumanGateStore`: the refinement
  of `HumanGate` under the mapping `Gate` of `AgentServiceProperties`. Each action
  is a step of the gate or changes nothing that it sees. The step that asks is the
  difficult one: HumanGate asks in order, the service asks wherever a graph stops.
  `Asking` says that every stop is a new question in order or the latest one
  again, and that answers in flight are to the latest.

### Composition

`RunSupport` and `CommitReader` put parts side by side. `SupportStep` and
`ReaderStep` say that a step of the whole is a step of the part it is about and
leaves the others, and `which`, alone. From there each promise of a part becomes
one of the whole. `EveryCommand` and `EveryCapture` say the same of the parts
whose variables are the modules' own: the properties of `CommandRunner` hold
without its fairness, and a behaviour of `CommitReader` is one of `GitCapture`.
The assumptions on the constants of the other
parts (`SupportAssumption`, `CopyAssumption`, `CommitAssumption`) are hypotheses of
the theorems about them, and TLC evaluates them with the values of the runs.

### What stands around a run

`RunSupportProofs`, in the order of the parts.

`CommandRunner`, for any executables, limits and amounts of output, with
`RunnerAssumption`:

* `RunsWhatWasApproved`, `SuccessIsGenuine`, `TimeoutIsFinal`, from `RunnerInv`:
  `Kinds` (types), `Consent` (a capability is for what was shown, and nothing is
  resolved anew between its consumption and the start) and `Ended` (how much is
  known of the command's end, of its group and of a refused kill at each step of
  the runner).
* `OutputIsReadWhole`, from `Heard`, for every command and whatever it starts: up
  to the rewinding the file is what was said, in order, with the position at its
  end; after it the position is the number of late writes, and what follows it
  in the file is still what was said.

`Approvals`, for any ids, actions, processes, lifetimes and lock timeout, with
`ApprovalAssumption` (lifetimes between one second and an hour, as issue demands;
nobody is not a process):

* `ApprovalTyped`, `ConsumedOnce`, `GoodForItsTime`, `NotTakenMuchLater`,
  `NotBeforeItsTime`, together
  `ClaimsMayBeReliedOn` (the run's `ClaimsAreGood`), from `ApprovalInv`: types;
  `Uniqueness` (an id that has been used is consumed and nobody else has found it
  new, and whoever inserts holds the lock); `Timely` (what the check has found of
  a capability's time); `Patient` (no call has waited for the lock longer than its
  timeout). The two theorems about time rest on `Seconds`: what
  cutting off half seconds twice can do.

`ModelRequest`, for any timeout, limit, body and number of pieces, with
`RequestAssumption`:

* `RequestsKeepLimits`, from `RequestInv`: `Sized` (a body over the limit has ended
  the call) and `Timed` (the first wait of a call began before the deadline, with
  no more time than was left, or, where the socket is gone, than the headers had;
  each further one adds no more than a timeout).

`TracePreview`, for any traces, limits and lengths of streams, with
`PreviewAssumption`:

* `PreviewsAreHonest`, from `PreviewInv`. What has been spent and what is left of
  the budget add up to `MAX_CHARS`; `Fairly` says of each action shown how its
  streams were cut, and that less than the stream's own limit was shown only when
  the budget is over; `Passed` counts: actions shown and malformed ones are told
  apart by their number, which is what actions_truncated goes by.

`BenchmarkRun`, for any files, contents, sizes and times, cases and limits, with
`SuiteAssumption`:

* `SuitesAreWhole`, from `SuiteInv`: `Materialized` says at every step what is in
  the workspace, in git's index and committed. What makes it inductive is that
  the index is emptied before the files of the change are added (`AllIsAdded`):
  git takes a file of a size and time it knows for unchanged. `Recorded` keeps
  this for the results.

### The commit reader

`CommitReaderProofs`, in the order of the parts.

`GitCapture`, for any limits, pipe and chunk sizes and amounts of output:

* `CaptureTyped`, `CaptureBounded`, `CaptureKills`, from `Accounted`: what is in a
  pipe, in its reader's buffer and counted by the reader was written; of what is
  counted as much is kept as the limit allows; and past its wait the caller knows
  that git has ended. `Bounded` alone is not inductive, since what is kept next
  depends on what has been counted and buffered.
* `SuccessIsWhole` (`NeverTruncatedAlone`), for a git that leaves no process
  behind: `Complete` says that, while neither clock nor limit has struck, nothing
  written is lost, no descriptor is closed under a reader that goes on, and a
  reader has ended only where git has and its pipe and buffer are empty. The
  condition `~forks` is needed: see divergence 7.

`ObjectSnapshot`, for any objects, directories, packs and limits and any number
of changes of the store, with `CopyAssumption`: limits are numbers, the order of
names is one of packs, nobody is not a file, and the store is well formed at the
start:

* `CopyTypesAlways`, `CopyBudgetAlways`, `NeverTorn`, `NothingEverMissed`, together
  `CopiesAreFaithful`, from `SnapshotInv`. `OneVersion` and `Detected` are about
  one file: what has been copied of it is of one version as long as the second
  lstat would still find what the first one found, since an inode is never used
  again and a version never returns. `NoneForgotten` is about the whole store: an
  object that has been there throughout is coming or packed for good once its
  directory has been listed, and copied or in a pack all of whose files are coming
  once the packs have been. It holds because loose objects are copied before
  packs are listed, and such an object is never made loose again.

`CommitSnapshot`, for any entries, imports, limits and sizes, with
`CommitAssumption` (limits are numbers, entries are ones a commit can have):

* `NothingIsHidden`, from `AllShown` (a diff that is not flagged shows all of its
  entry) and `AllListed` (what has been read, what is left and, where nothing is
  flagged, what the commit has add up).

* `CommitTypesAlways`, `NothingIsHidden`, `ImportsAreCovered`, `BudgetsAlways`,
  together `CompleteIsAlwaysComplete`. From `CommitInv`: `AllRequested` says that
  merging requests, whatever their order, never asks for less than any of them
  did, `NoneLost` that while nothing is flagged every request for a file of the
  tree is answered in full or still waiting. From `Budgeted`: what is shown so
  far and what remains never exceed the budget but for one marker a file.

### The commit reviewer

`ReviewProofs`: `CandidateReview`, for any number of scouts, any `MAX_FINDINGS` and any
proposals about anything, with `SettingAssumption` (types; a scout and a place in
the list there are):

* `ReportIsAlwaysFair`, from `ReviewInv`: the list is the merged one from when it is
  made until the end, what is discarded is counted along with it, and the report
  is made of it. What the merged list is like is said by lemmas about the
  recursive functions, each an induction over their arguments: `UniqueHolds`,
  `UniqueKeysHold`, `FlattenHolds`, `AddHolds`, and `TurnsHold` for the scouts.
  That is about a scout `k` which has a proposal left and any other, `j`: before
  the list is full there is a number `r` of rounds such that `k` has had one
  accepted in each of them and in its turn of the current one, and `j` no more of
  its own than that (`Balanced`). A proposal left over has been fresh all the
  time, so no turn of `k` was without one (`TurnIsBalanced`). `MergeHolds`: the report
  is never cut off, since it holds each candidate once and they fit. `PartsAddUp`:
  hypotheses are displaced, contradicted, rejected, reported, or a detector's too
  and rejected, and only one of these.

`EvidenceMatch`, for any texts, changes and quotations, with
`TextAssumption` (a text is not empty: lines are compared without the blanks
around them, and a blank one is evidence of nothing; the markers are not letters).

* `EvidenceIsAlwaysALine`, from `EvidenceInv`: the changed lines are at different
  places, and an answer is the one for them. That the choice of the longest, and
  of these the first, has an answer at all is `BestExists`, an induction over the
  lines. Then each of the three properties follows from where a match comes from:
  a quotation that is a line of its side and of no other, or one with the mark of
  its side that no source line looks like.

### The workbench

`WorkbenchProofs`: one tab, for any runs, directories, keys, flows and settings,
with `WorkbenchAssumption` (plans of a bounded length, the absent value is none of
the others, a valid key exists, a setting's rows are rows) as a hypothesis of each
theorem:

* `LatestChoiceAlwaysWins`, the action property `LatestChoiceWins`: a step that
  selects a run selects the one last chosen, and when that is a new task, the run
  made for it. `OneFresh` is what the latter takes: each call that creates a task
  has an epoch of its own.
* `KeysAreAlwaysJudged`: `TypesAlways`, `RightKeysAlwaysOpen` and
  `StoredKeyAlwaysWorked` together.

All follow from `WorkbenchInv` (`InvariantAlways`). That a call may touch the page
only while its epoch is the newest does not by itself say that it shows the
right run. `CarryOK` does: a call of the newest navigation is about the run that
is wanted; and so is the timer (`PollFits`), but for one set before access was
cleared, which finds nothing selected. `AtOK` says what a call holds when it
sends to a route, and that a selection made for the newest navigation stays
until the next. `ReplyOK` ties an answer to its request and to the key
it was sent with, which is not always the one in memory when it arrives. Each
continuation of app.js between two awaits has a lemma, and each ends in one of
two ways: the call is over (`Finished`) or waits for its next request
(`Waiting`).

`WorkbenchPage` adds what an undisturbed tab shows:

* `ShownUnlessNavigatingAlways`, from `PageInv` on top of `WorkbenchInv`. The page
  is rendered wherever the selection changes, except in selectRun, which asks
  for the profile of the run's directory first and whose answer is dropped
  if the tab is in another directory by then. It never is: calls of one
  navigation are about one run (`CarryOK`), and a run stays in its directory, so
  whoever last set the tab's directory set the same one (`AsksAt`, `Steady`).
  Each continuation leaves the page in one of few ways (`Settles`): it agrees with
  the selection, or a call that will render it is under way.

### Sums and choices

tlapm cannot use an induction theorem that takes a formula as its parameter, but
it can use one about a set. `Least` (a set of numbers that is not empty has a
least element) comes from the library's `WFMin`, and `Induct` from `Least`: a set that
has 0 and with each number the next has all. With these `TotalsProofs` shows that
the recursive function `Totals` is what its equation says and what appending and
changing an element do to a total, which the budgets of `TracePreview` and
`CommitSnapshot` need, and `ReviewProofs` that the choice of a line has an answer and
what a review's recursive functions hold; `Iterates` there says that what is defined
step by step exists, which the `CHOOSE` in such a definition needs.

### Model-checked only

* Liveness (`TransientResolves`, `RunnerAnswers`, `CallReturns`, `EveryCaseIsRun`,
  `ShownProgressIsFollowed`): beyond the prover.
* `ScoreIsExact` and `DiffsAreTrue`: what `BenchmarkScore`, `DiffLines` and
  `LineEndings` compute is defined by `RECURSIVE` operators over their inputs (a
  search for an assignment, hunks, opcodes), with which the prover's arithmetic
  is not to be had. They are compared with definitions that look at all possibilities,
  over all inputs within bounds.

## Not modelled

* Command policy and adapters (`policies.py`, `adapters/`): a constant table that
  is looked up by equality. In `AgentService` a tool stands for one rule that
  needs approval, in `CommandRunner` a rule for what it asks for.
* Model configuration: precedence of settings, read once. What a change of it
  between two processes does to a run is in `AgentService`.
* Environment detection and redaction: text and file-system inspection without
  state. Where a redaction changes what other code relies on, it is modelled
  (`DiffLines`).
* Command line, MCP server, dogfood, evaluation: wrappers around the service that
  parse arguments and print.
* Of commit review: the detectors, which are heuristics over source text; how
  imports resolve to files; the refusal of links and foreign names; prompts.
* Of the benchmark: the schema of suites, keyword matching, report wording.
* Of the control plane: middleware, headers, static files.
* Of the runner: Windows, where taskkill stands for the kill, and the redaction
  of output.
