------------------------------ MODULE MCService ------------------------------
(***************************************************************************)
(* The parts of RunSupport, each small enough for TLC, and beside them     *)
(*   tabs   a tab of the workbench that shows progress, beside another tab *)
(*          or alone                                                       *)
(* Of the benchmark a behaviour has either two cases with fixtures of one  *)
(* file or one case with a fixture of two.                                 *)
(***************************************************************************)
EXTENDS RunSupport, TLC

CONSTANTS Flows, r1, r2, w1, None

VARIABLES
  row, trusted, tab, flow, gestures,
  setting   \* of the tab, of the benchmark

tabVars == <<row, trusted, tab, flow, gestures>>

\* Two contents of one size.
SameSize == [c \in Contents |-> 1]

Runs == {r1, r2}
Workspaces == {w1}
R(s, n) == [status |-> s, asks |-> n, home |-> w1, level |-> 1]
\* A run to be started, and one that is over, one that waits or a free run id.
Mixed == {(r1 :> R("planned", 0)) @@ (r2 :> x) : x \in {R("done", 0), R("waiting", 1), None}}
Beside == [gestures |-> {"select", "new", "start", "decide"}, most |-> 2,
           other |-> TRUE, settled |-> TRUE, failures |-> {}, rows |-> Mixed]
Alone  == [Beside EXCEPT !.most = 3, !.other = FALSE]
Tabs == INSTANCE WorkbenchProperties WITH
  MaxActions <- 1, Keys <- {"valid"}, Settings <- {Beside, Alone}

ASSUME PartAssumption == SupportAssumption /\ Tabs!WorkbenchAssumption

IdleTab ==
  row = 0 /\ trusted = 0 /\ tab = [selected |-> None] /\ flow = 0 /\ gestures = 0
PartsInit ==
  \/ /\ SupportInit /\ IdleTab
     /\ setting \in IF which = "suite" THEN {"files", "cases"} ELSE {"none"}
  \/ /\ which = "tabs" /\ Tabs!Init
     /\ IdleCommand /\ IdleApprovals /\ IdleRequest /\ IdlePreview /\ IdleSuite

\* The next fixture is one that the setting allows.
Small ==
  which = "suite" =>
    /\ setting = "files" => case' <= 1
    /\ setting = "cases" =>
         \A f \in Files \ {"f"} : {fixture'.base[f], fixture'.after[f]} = {Suite!NoFile}

PartsNext ==
  /\ UNCHANGED setting
  /\ \/ SupportNext /\ UNCHANGED tabVars /\ Small
     \/ /\ which = "tabs" /\ UNCHANGED which /\ Tabs!Next
        /\ UNCHANGED supportVars

\* The fairness of each part, where it is the part that runs.
PartsSpec ==
  /\ PartsInit /\ [][PartsNext]_<<which, setting, supportVars, tabVars>>
  /\ WF_vars(which = "command" /\ Runner)
  /\ WF_suiteVars(which = "suite" /\ setting = "cases" /\ Suite!Next)
  /\ \A f \in Flows : /\ WF_tabVars(which = "tabs" /\ Tabs!Arrive(f))
                      /\ WF_tabVars(which = "tabs" /\ Tabs!Serve(f))
  /\ WF_tabVars(which = "tabs" /\ \E f \in Flows : Tabs!PollFires(f))
  /\ \A r \in Runs : WF_tabVars(which = "tabs" /\ Tabs!Work(r))

-----------------------------------------------------------------------------
\* One bad case of a suite never keeps the others from being run.
EveryCaseIsRun == which = "suite" /\ setting = "cases" => Suite!EveryCaseIsRun

\* A run shown as starting or approving is asked for until it is something else.
ShownProgressIsFollowed == which = "tabs" => Tabs!ShownProgressIsFollowed
=============================================================================
