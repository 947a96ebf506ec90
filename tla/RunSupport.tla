------------------------------ MODULE RunSupport ------------------------------
(***************************************************************************)
(* What stands around a run and must answer, each part with variables of   *)
(* its own and independent of the others.  which says what a behaviour is  *)
(* about:                                                                  *)
(*   command     LocalRunner and the command it runs                       *)
(*   approvals   capabilities, their verification and consumption          *)
(*   request     one request to the model endpoint                         *)
(*   preview     the preview of a trace                                    *)
(*   suite       the review benchmark                                      *)
(* The variables of the other parts are at rest.                           *)
(***************************************************************************)
EXTENDS CommandRunner

CONSTANTS
  Ids, Actions, Processes, Ttls, LOCK_TIMEOUT, MaxNow,         \* Approvals
  TIMEOUT, MAX_BYTES, MaxPieces, MaxBody,                      \* ModelRequest
  MAX_ACTIONS, MAX_CHARS, STREAM_CHARS, Lengths, MaxTrace,     \* TracePreview
  Files, Contents, Sizes, Cases, MAX_FIXTURE_FILES, MAX_FIXTURE_BYTES, Times  \* BenchmarkRun

VARIABLES
  which,
  time, granted, redeemed, lock, call, uses,
  clock, stage, limit, waited, pieces, closing, body, declared, chunked, size, outcome,
  trace, next, budget, preview, reply,
  fixture, valid, step, case, workspace, index, commits, results

approvalVars == <<time, granted, redeemed, lock, call, uses>>
requestVars  == <<clock, stage, limit, waited, pieces, closing, body, declared, chunked,
                  size, outcome>>
previewVars  == <<trace, next, budget, preview, reply>>
suiteVars    == <<fixture, valid, step, case, workspace, index, commits, results>>
supportVars  == <<vars, approvalVars, requestVars, previewVars, suiteVars>>

Approval == INSTANCE Approvals WITH now <- time, consumed <- redeemed
Request == INSTANCE ModelRequest WITH now <- clock, pc <- stage
Preview == INSTANCE TracePreview WITH shown <- preview, answer <- reply
Suite == INSTANCE BenchmarkRun WITH pc <- step

SupportAssumption ==
  /\ Approval!ApprovalAssumption /\ Request!RequestAssumption
  /\ Preview!PreviewAssumption /\ Suite!SuiteAssumption

-----------------------------------------------------------------------------
IdleCommand ==
  Init /\ rule = NoRule /\ networkDefault = "deny" /\ resolved = CHOOSE e \in Exes : TRUE
IdleApprovals ==
  time = 0 /\ granted = 0 /\ redeemed = 0 /\ lock = 0 /\ call = 0 /\ uses = 0
IdleRequest ==
  /\ clock = 0 /\ stage = "idle" /\ limit = 0 /\ waited = 0 /\ pieces = 0
  /\ closing = 0 /\ body = 0 /\ declared = 0 /\ chunked = 0 /\ size = 0 /\ outcome = 0
IdlePreview == trace = 0 /\ next = 0 /\ budget = 0 /\ preview = 0 /\ reply = 0
IdleSuite ==
  /\ fixture = 0 /\ valid = 0 /\ step = "idle" /\ case = 0
  /\ workspace = 0 /\ index = 0 /\ commits = 0 /\ results = 0

SupportInit ==
  \/ /\ which = "command"
     /\ Init /\ IdleApprovals /\ IdleRequest /\ IdlePreview /\ IdleSuite
  \/ /\ which = "approvals"
     /\ IdleCommand /\ Approval!Init /\ IdleRequest /\ IdlePreview /\ IdleSuite
  \/ /\ which = "request"
     /\ IdleCommand /\ IdleApprovals /\ Request!Init /\ IdlePreview /\ IdleSuite
  \/ /\ which = "preview"
     /\ IdleCommand /\ IdleApprovals /\ IdleRequest /\ Preview!Init /\ IdleSuite
  \/ /\ which = "suite"
     /\ IdleCommand /\ IdleApprovals /\ IdleRequest /\ IdlePreview /\ Suite!Init

SupportNext ==
  /\ UNCHANGED which
  /\ \/ /\ which = "command" /\ Next
        /\ UNCHANGED <<approvalVars, requestVars, previewVars, suiteVars>>
     \/ /\ which = "approvals" /\ Approval!Next
        /\ UNCHANGED <<vars, requestVars, previewVars, suiteVars>>
     \/ /\ which = "request" /\ Request!Next
        /\ UNCHANGED <<vars, approvalVars, previewVars, suiteVars>>
     \/ /\ which = "preview" /\ Preview!Next
        /\ UNCHANGED <<vars, approvalVars, requestVars, suiteVars>>
     \/ /\ which = "suite" /\ Suite!Next
        /\ UNCHANGED <<vars, approvalVars, requestVars, previewVars>>

SupportSpec == SupportInit /\ [][SupportNext]_<<which, supportVars>>

-----------------------------------------------------------------------------
(* What the parts promise *)

\* A capability's claims are returned once; it is within its lifetime when it is
\* checked, and past it no longer than the lock may be waited for when it is
\* consumed; it is not refused as expired more than a second before its time.
ClaimsAreGood == which = "approvals" => Approval!ClaimsAreGood

\* An answer of the endpoint keeps the limit, whatever length it declares; the
\* first wait of a call that reads ends with the deadline, or a timeout later when
\* the connection is closing, and each further wait of it within a timeout.
RequestKeepsLimits == which = "request" => Request!RequestKeepsLimits

\* The preview keeps to its budget and to the limits of the streams, cuts nothing
\* while there is budget for it, and says what it leaves out.
PreviewIsHonest ==
  which = "preview" =>
    Preview!WithinBudget /\ Preview!CutForAReason /\ Preview!OmissionsAreSaid

\* What is reviewed is the change from base to after, and a suite that passes has
\* reviewed every case as its fixture says.
SuiteIsWhole ==
  which = "suite" => Suite!TypeOK /\ Suite!ReviewsTheChange /\ Suite!PassIsWhole

=============================================================================
