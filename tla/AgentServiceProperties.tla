----------------------- MODULE AgentServiceProperties -----------------------
(***************************************************************************)
(* What the run service must guarantee.  The first group is about who may  *)
(* touch a run, the second about what reaches the operating system, the    *)
(* third about what a row says once the dust has settled.                  *)
(***************************************************************************)
EXTENDS AgentService

\* Type invariant of rows, files, processes and workers.
TypeOK ==
  /\ status \in [Runs -> Statuses]
  /\ pending \in [Runs -> Digests \cup {None}]
  /\ completed \in [Runs -> Nat]
  /\ origin \in [Runs -> Origins \cup {None}]
  /\ trusted \in BOOLEAN
  /\ spent \subseteq Nat
  /\ ckpt \in [Runs -> GraphStates \cup {None}]
  /\ trace \in [Runs -> Terminal \cup {None}]
  /\ lease \in Services \cup {None}
  /\ phase \in [Services -> {"down", "recovering", "up"}]
  /\ config \in [Services -> Fingerprints]
  /\ todo \in [Services -> SUBSET (Runs \X Incomplete)]
  /\ pc \in [Workers -> Labels]
  /\ job \in [Workers -> Jobs \cup {None}]
  /\ binary \in Binaries \cup {None}
  /\ minted \in Nat
  /\ seen \in [Runs -> SUBSET Challenges]
  /\ launches \in Seq(Launches)
  /\ faults \in Nat
  /\ rebinds \in Nat

-----------------------------------------------------------------------------
(* Ownership of a run *)

Drives(t, r) == pc[t] \in Driving /\ job[t].run = r

\* Two requests never drive the same run at once, however starts, approvals,
\* declines, crashes and restarts interleave: the graph of a run has one
\* invocation at a time (claim_start, claim_pending, the lease).
OneDriver ==
  \A t, u \in Workers, r \in Runs : Drives(t, r) /\ Drives(u, r) => t = u

\* A run that is starting or approving has a worker that will release it, or
\* no process is up and the next one will reconcile it: no row is stranded
\* in a transient status that no request can leave.
TransientHasOwner ==
  \A r \in Runs : status[r] \in {"starting", "approving"} =>
    \/ \E t \in Workers : Drives(t, r)
    \/ \A s \in Services : phase[s] # "up"

\* A terminal row never changes again, not even when a worker that outlived
\* its process's lease comes back with a result (expected-status updates).
TerminalIsFinal ==
  [][\A r \in Runs : status[r] \in Terminal =>
       /\ status'[r] = status[r]
       /\ pending'[r] = pending[r]
       /\ completed'[r] = completed[r]]_rowVars

\* Liveness: a run that is starting or approving gets out of it, by its
\* worker or by the reconciliation of the next process.
TransientResolves ==
  \A r \in Runs :
    status[r] \in {"starting", "approving"} ~>
      status[r] \notin {"starting", "approving"}

\* Restarting heals: a process that has finished its recovery finds no run in
\* a transient status, even when releasing updates were lost before (the
\* reconciliation covers every status a worker can leave behind).
RestartHeals ==
  [][\A s \in Services : phase[s] = "recovering" /\ phase'[s] = "up" =>
       \A r \in Runs : status[r] \notin {"starting", "approving"}]_phase

-----------------------------------------------------------------------------
(* Commands *)

\* Every command that ran is the one a person saw and approved: same place in
\* the plan, same tool, same resolved executable, and a capability of its own
\* that is spent.  A stale click never starts a later action, and what the
\* path resolves to cannot change between the approval and the launch.
LaunchIsAuthorised ==
  /\ \A i \in DOMAIN launches : LET l == launches[i] IN
       /\ l.shown \in seen[l.run]
       /\ l.shown = [index |-> l.index, digest |-> l.digest]
       /\ l.id \in spent
  /\ \A i, j \in DOMAIN launches : launches[i].id = launches[j].id => i = j

\* No command runs for an advisory run or in a workspace nobody trusts.
OnlySanctionedRuns ==
  \A i \in DOMAIN launches :
    trusted /\ origin[launches[i].run].level = "assisted"

\* The command that starts is the first one the row does not count as
\* completed: work the service has recorded is never done again, whatever
\* checkpoint a resume starts from, and no action is skipped.
RecordedNeverRelaunched ==
  [][\A i \in DOMAIN launches' \ DOMAIN launches :
       launches'[i].index = completed[launches'[i].run]]_launches

\* Only a process with the planner configuration recorded in the row plans.
PlannedByRecordedPlanner ==
  \A t \in Workers : pc[t] = "graph" /\ job[t].graph.next = "plan" =>
    config[Host[t]] = origin[job[t].run].by

-----------------------------------------------------------------------------
(* What a row says *)

\* A waiting row can be approved: the graph is stopped at the interrupt the
\* row shows, for the plan's next action, and all before it are counted.
WaitingIsResumable ==
  \A r \in Runs : status[r] = "waiting_for_approval" =>
    /\ pending[r] # None
    /\ ckpt[r] # None
    /\ ckpt[r].next = "execute"
    /\ ckpt[r].interrupt = pending[r]
    /\ pending[r].tool = ckpt[r].plan[ckpt[r].index + 1]
    /\ completed[r] = ckpt[r].index

\* A succeeded assisted run is earned, also when a restart recovered it: the
\* trace on disk says succeeded, and every action of the plan was launched
\* and is counted.
SuccessIsEarned ==
  \A r \in Runs : status[r] = "succeeded" /\ origin[r].level = "assisted" =>
    /\ trace[r] = "succeeded"
    /\ completed[r] = Len(ckpt[r].plan)
    /\ \A k \in 1..completed[r] : \E i \in DOMAIN launches :
         launches[i].run = r /\ launches[i].index = k - 1

\* docs/architecture.md:28: reconciliation "restores terminal checkpoints"
\* and "a nonterminal checkpoint without an interrupt is marked failed".  So
\* a run that ends well, recovered or not, has been through its last node,
\* and the trace README.md:21 promises has been recorded.
SuccessIsFinalized ==
  \A r \in Runs : status[r] = "succeeded" =>
    ckpt[r].next = "end" /\ trace[r] = "succeeded"

\* docs/architecture.md:28 on startup reconciliation: it restores "genuine
\* approval interrupts".  A challenge is genuine when the command it asks
\* about has not been started yet.
PendingIsGenuine ==
  \A r \in Runs : status[r] = "waiting_for_approval" =>
    ~ \E i \in DOMAIN launches :
        launches[i].run = r /\ launches[i].index = ckpt[r].index

-----------------------------------------------------------------------------
(* The service implements HumanGate. *)

GateState == [none |-> "none", planned |-> "ready", starting |-> "busy",
              approving |-> "busy", waiting_for_approval |-> "asking",
              succeeded |-> "over", failed |-> "over", refused |-> "over"]

\* A worker acts on a yes from the claim until the command is started.
ActsOnYes(t, r) ==
  /\ Drives(t, r)
  /\ job[t].op = "approve"
  /\ pc[t] \in {"issue", "graph", "verify", "spawn"}
  /\ pc[t] = "graph" => job[t].token # None

GatePermit(r) ==
  IF \E t \in Workers : ActsOnYes(t, r)
    THEN job[CHOOSE t \in Workers : ActsOnYes(t, r)].shown
    ELSE None

Gate == INSTANCE HumanGate WITH
  Subjects <- Digests, Nothing <- None,
  state    <- [r \in Runs |-> GateState[status[r]]],
  asked    <- seen,
  permit   <- [r \in Runs |-> GatePermit(r)],
  launched <- [i \in DOMAIN launches |->
                [run |-> launches[i].run,
                 question |-> [index |-> launches[i].index,
                               digest |-> launches[i].digest]]]

\* Every behaviour of the service, crashes and restarts included, is one the
\* person was promised: each launch uses up one answer to that very question.
ImplementsHumanGate == Gate!Spec
=============================================================================
