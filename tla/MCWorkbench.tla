----------------------------- MODULE MCWorkbench -----------------------------
(***************************************************************************)
(* A tab of the workbench small enough for TLC, in four settings:          *)
(*   Fence    navigation, tasks and trust, with requests that fail         *)
(*   Decide   decisions, while somebody else starts and decides runs       *)
(*   Access   connections with right and wrong keys, and reloads           *)
(*   Alone    everything that can be done with runs, one's own only        *)
(***************************************************************************)
EXTENDS WorkbenchProperties, TLC

CONSTANTS r1, r2, w1

R(s, n) == [status |-> s, asks |-> n, home |-> w1, level |-> 1]
\* Two runs that wait for an approval.
TwoWaiting == {(r1 :> R("waiting", 1)) @@ (r2 :> R("waiting", 1))}
\* A run to be started, and one that is over, one that waits or a free run id.
Mixed == {(r1 :> R("planned", 0)) @@ (r2 :> x) : x \in {R("done", 0), R("waiting", 1), None}}

Fence ==
  [gestures |-> {"select", "new", "goal", "start", "trust", "mode"}, most |-> 4,
   other |-> FALSE, settled |-> TRUE, failures |-> {"lost", "404"}, rows |-> Mixed]
Decide ==
  [gestures |-> {"select", "new", "decide"}, most |-> 3,
   other |-> TRUE, settled |-> TRUE, failures |-> {}, rows |-> TwoWaiting]
Access ==
  [gestures |-> {"select", "connect", "forget", "reload"}, most |-> 4,
   other |-> FALSE, settled |-> FALSE, failures |-> {"lost"}, rows |-> TwoWaiting]
Alone ==
  [gestures |-> {"select", "new", "start", "decide", "trust", "mode"}, most |-> 4,
   other |-> FALSE, settled |-> TRUE, failures |-> {}, rows |-> Mixed]
Surroundings == {Fence, Decide, Access, Alone}

ASSUME TabAssumption == WorkbenchAssumption

FlowSymmetry == Permutations(Flows)
=============================================================================
