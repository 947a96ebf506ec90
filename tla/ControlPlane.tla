---------------------------- MODULE ControlPlane ----------------------------
(***************************************************************************)
(* The HTTP routes of control_plane.py as a browser tab sees them: which   *)
(* of the two keys opens a route, what it answers, and what it does to the *)
(* runs behind it.  The run service itself is module AgentService; here a  *)
(* run is its row, and the workflow between two answers is one step.       *)
(***************************************************************************)
EXTENDS Naturals

CONSTANTS
  Runs,         \* run ids
  Workspaces,   \* directories below the workspace root
  MaxActions,   \* bound: approvals a run may ask for
  None          \* absent value

ActionsAssumption == MaxActions \in Nat \ {0}

VARIABLES
  row,      \* each run as the run store has it
  trusted   \* workspaces with a trust attestation

planeVars == <<row, trusted>>

Transient == {"starting", "approving"}
Statuses  == {"planned", "waiting", "done"} \cup Transient
Levels    == {0, 1}
Rows      == [status: Statuses, asks: 0..MaxActions, home: Workspaces,
              level: Levels]

\* _run_view: the bounded projection of a row.  asks numbers the challenge the
\* run waits on (its digest); a finished run has a trace.
Views == [id: Runs, status: Statuses, asks: 0..MaxActions, home: Workspaces,
          level: Levels]
View(r) == [id |-> r, status |-> row[r].status, asks |-> row[r].asks,
            home |-> row[r].home, level |-> row[r].level]

Existing == {r \in Runs : row[r] # None}

\* The key a route depends on: require_approver or require_auth.
Requires(route) ==
  IF route \in {"session", "trust", "approvals", "decline"}
  THEN "approver" ELSE "operator"

-----------------------------------------------------------------------------
(* Answers.  Every route answers with the same record; a field it does not *)
(* fill is None.                                                           *)

Codes   == {"ok", "401", "404", "409", "lost"}
Replies == [code: Codes, run: Views \cup {None}, runs: SUBSET Runs,
            trusts: BOOLEAN]
Reply(c)  == [code |-> c, run |-> None, runs |-> {}, trusts |-> FALSE]
OkRun(v)  == [Reply("ok") EXCEPT !.run = v]

GetRun(r)  == IF r \in Existing THEN OkRun(View(r)) ELSE Reply("404")
\* A trace that cannot be read, a 409 of its own, is left out; resolveApproval
\* would take that for a conflict of decisions.
GetTrace(r) ==
  IF r \in Existing /\ row[r].status = "done" THEN Reply("ok") ELSE Reply("404")
ListRuns     == [Reply("ok") EXCEPT !.runs = Existing]
Profile(ws)  == [Reply("ok") EXCEPT !.trusts = ws \in trusted]

-----------------------------------------------------------------------------
(* Routes that change something *)

CreateRun(r, ws, l) ==
  /\ r \in Runs \ Existing
  /\ row' = [row EXCEPT ![r] = [status |-> "planned", asks |-> 0, home |-> ws,
                                level |-> l]]
  /\ UNCHANGED trusted

Trust(ws) == trusted' = trusted \cup {ws} /\ UNCHANGED row

\* start_run: whether the service claims the run; if not, it answers at once,
\* with the row of a run that is not planned, or with a conflict.
Claims(r) == row[r].status = "planned" /\ (row[r].level = 0 \/ row[r].home \in trusted)
NotStarted(r) == IF row[r].status # "planned" THEN OkRun(View(r)) ELSE Reply("409")
Start(r) == row' = [row EXCEPT ![r].status = "starting"] /\ UNCHANGED trusted

\* approve, decline: only the challenge the run waits on; else a conflict.
Asked(r, n) == row[r].status = "waiting" /\ row[r].asks = n
Approve(r)  == row' = [row EXCEPT ![r].status = "approving"] /\ UNCHANGED trusted
Decline(r)  == /\ row' = [row EXCEPT ![r].status = "done", ![r].asks = 0]
               /\ UNCHANGED trusted

\* The workflow of a claimed run gets to its next challenge or to its end.
Outcomes(r) ==
  {[row[r] EXCEPT !.status = "done", !.asks = 0]} \cup
  {[row[r] EXCEPT !.status = "waiting", !.asks = n] :
     n \in IF row[r].level = 1 THEN {row[r].asks + 1} \cap 1..MaxActions ELSE {}}
=============================================================================
