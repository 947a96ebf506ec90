---------------------------- MODULE AgentService ----------------------------
(***************************************************************************)
(* The durable run service: service.py, the LangGraph graph of workflow.py *)
(* it drives, the approval capabilities of approvals.py and the command    *)
(* gate of runner.py, seen as one system over one state directory.         *)
(*                                                                         *)
(* Durable state (SQLite files, the trace file, the OS file lease) outlives*)
(* a service process; a worker is a request thread of one process and dies *)
(* with it.  One atomic action is one SQLite transaction, one graph node   *)
(* boundary, or one call that the outside world can observe; everything in *)
(* between is local to a thread.                                           *)
(***************************************************************************)
EXTENDS Naturals, Sequences

CONSTANTS
  Runs,          \* run ids
  Services,      \* service processes that may be given the state directory
  Workers,       \* request threads
  Host,          \* Host[t]: the process thread t belongs to
  Tools,         \* registered tools of the workspace, one command rule each
  MaxPlan,       \* bound: StructuredPlanner.max_actions, the plan's length
  Fingerprints,  \* planner configurations a process can be started with
  Binaries,      \* files the tools' executable path can resolve to
  None,          \* absent value (SQL NULL, Python None, unresolvable path)
  MaxFaults,     \* bound: crashes, lapses of the lease, lost updates
  MaxRebinds,    \* bound: changes of what the executable path resolves to
  MaxApprovals   \* bound: approvals issued in LapseSpec

ASSUME HostAssumption == Host \in [Workers -> Services]
ASSUME PlanAssumption == MaxPlan \in Nat \ {0}
ASSUME BoundAssumption == {MaxFaults, MaxRebinds, MaxApprovals} \subseteq Nat

VARIABLES
  status,     \* runs.sqlite: status of each run ("none": no row yet)
  pending,    \* runs.sqlite: digest of the pending approval, or None
  completed,  \* runs.sqlite: completed_actions
  origin,     \* runs.sqlite: planner fingerprint and autonomy level
  trusted,    \* workspace-trust.sqlite: an attestation exists
  spent,      \* approval-replay.sqlite: consumed approval ids
  ckpt,       \* checkpoints.sqlite: newest durable checkpoint of each run
  trace,      \* status written in each run's trace file, or None
  lease,      \* service.lock: the process that holds the OS lock, or None
  phase,      \* life of each process: down, recovering, up
  config,     \* planner fingerprint each process was started with
  todo,       \* rows a recovering process has listed and not yet reconciled
  pc,         \* where each worker is
  job,        \* what each worker holds in memory
  binary,     \* what the tools' executable path resolves to, or None
  minted,     \* approvals issued so far; the next approval_id
  seen,       \* history: challenges a person has been shown, by run
  launches,   \* history: commands handed to the operating system, in order
  faults, rebinds

rowVars   == <<status, pending, completed, seen>>
diskVars  == <<origin, trusted, spent, ckpt, trace>>
procVars  == <<lease, phase, config, todo>>
worldVars == <<binary, minted, launches, faults, rebinds>>
vars == <<rowVars, diskVars, procVars, pc, job, worldVars>>

-----------------------------------------------------------------------------
(* Data *)

Terminal   == {"succeeded", "failed", "refused"}
Incomplete == {"starting", "approving", "waiting_for_approval"}
Statuses   == {"none", "planned"} \cup Incomplete \cup Terminal
Levels     == {"advisory", "assisted"}
Origins    == [by: Fingerprints, level: Levels]

\* action_digest: a hash of argv, rule, domain and workspace.  The tool fixes
\* rule, domain and arguments; the resolved executable is the rest.
Digests    == [tool: Tools, binary: Binaries]
\* A challenge as a person sees it.  The position in the plan is not in the
\* digest; it is kept here to say which action the person meant.
Challenges == [index: Nat, digest: Digests]
Tokens     == [id: Nat, digest: Digests]
Launches   == [run: Runs, index: Nat, digest: Digests, id: Nat,
               shown: Challenges]

\* Graph state as LangGraph checkpoints it: values, next node, interrupt.
Nodes       == {"profile", "plan", "execute", "finalize", "end"}
GraphStates == [next: Nodes, status: {"planned", "running"} \cup Terminal,
                plan: Seq(Tools), index: Nat, actions: Nat,
                interrupt: Digests \cup {None}]
ASSUME NoneAssumption ==
  None \notin Services \cup Origins \cup Digests \cup Challenges \cup Tokens
            \cup GraphStates

\* Fault: the planner does not refuse a tool it has already selected.
Plans_Repeating == UNION {[1..n -> Tools] : n \in 1..MaxPlan}

\* The plans a planner may return: what StructuredPlanner validates and what
\* DeterministicPlanner builds from its defaults.
Plans == {p \in UNION {[1..n -> Tools] : n \in 1..MaxPlan} :
            \A i, j \in DOMAIN p : p[i] = p[j] => i = j}

InitialGraph == [next |-> "profile", status |-> "planned", plan |-> <<>>,
                 index |-> 0, actions |-> 0, interrupt |-> None]

Labels == {"idle", "claim", "issue", "graph", "verify", "spawn", "wait",
           "flush", "record", "refuse", "fail"}
\* Labels of a worker that has claimed a run and has not yet released it.
Driving == Labels \ {"idle", "claim"}
\* The transient status a worker claimed its run with.
Claimed == [start |-> "starting", approve |-> "approving",
            decline |-> "approving"]

Jobs  == [op: DOMAIN Claimed, run: Runs, graph: GraphStates \cup {None},
          token: Tokens \cup {None}, argv: Digests \cup {None},
          shown: Challenges \cup {None}]
Job(o, r, g, c) == [op |-> o, run |-> r, graph |-> g, token |-> None,
                    argv |-> None, shown |-> c]

-----------------------------------------------------------------------------
(* Initial state: an empty state directory and no process. *)

Init ==
  /\ status = [r \in Runs |-> "none"]
  /\ pending = [r \in Runs |-> None]
  /\ completed = [r \in Runs |-> 0]
  /\ origin = [r \in Runs |-> None]
  /\ trusted = FALSE
  /\ spent = {}
  /\ ckpt = [r \in Runs |-> None]
  /\ trace = [r \in Runs |-> None]
  /\ lease = None
  /\ phase = [s \in Services |-> "down"]
  /\ config \in [Services -> Fingerprints]
  /\ todo = [s \in Services |-> {}]
  /\ pc = [t \in Workers |-> "idle"]
  /\ job = [t \in Workers |-> None]
  /\ binary \in Binaries
  /\ minted = 0
  /\ seen = [r \in Runs |-> {}]
  /\ launches = <<>>
  /\ faults = 0
  /\ rebinds = 0

-----------------------------------------------------------------------------
(* Compare-and-swap updates of a row: each is one UPDATE ... WHERE         *)
(* run_id=? AND status=?, and leaves the row alone when the status moved.  *)

\* Fault: the update does not look at the status.
MarkTerminal_Unconditional(r, expected, final) ==
  /\ status' = [status EXCEPT ![r] = final]
  /\ pending' = [pending EXCEPT ![r] = None]
  /\ UNCHANGED <<completed, seen>>

\* mark_failed and mark_refused
MarkTerminal(r, expected, final) ==
  IF status[r] = expected
    THEN /\ status' = [status EXCEPT ![r] = final]
         /\ pending' = [pending EXCEPT ![r] = None]
         /\ UNCHANGED <<completed, seen>>
    ELSE UNCHANGED rowVars

\* Fault: an interrupted graph is reported with the status of its values.
ResultStatus_Raw(g) == g.status

\* _result_from_state: an interrupt turns the graph's status into waiting.
ResultStatus(g) ==
  IF g.interrupt = None THEN g.status ELSE "waiting_for_approval"

\* update_from_result
UpdateFromResult(r, expected, g) ==
  IF status[r] = expected
    THEN /\ status' = [status EXCEPT ![r] = ResultStatus(g)]
         /\ pending' = [pending EXCEPT ![r] = g.interrupt]
         /\ completed' = [completed EXCEPT ![r] = g.actions]
         /\ seen' = IF g.interrupt = None THEN seen
                    ELSE [seen EXCEPT ![r] = @ \cup
                            {[index |-> g.index, digest |-> g.interrupt]}]
    ELSE UNCHANGED rowVars

Goto(t, label) == pc' = [pc EXCEPT ![t] = label]

\* The request handler returns; the thread goes back to the pool.
Retire(t) ==
  /\ Goto(t, "idle")
  /\ job' = [job EXCEPT ![t] = None]

-----------------------------------------------------------------------------
(* Requests that finish in one transaction *)

\* create_run
CreateRun(s, r, level) ==
  /\ phase[s] = "up"
  /\ status[r] = "none"
  /\ status' = [status EXCEPT ![r] = "planned"]
  /\ origin' = [origin EXCEPT ![r] = [by |-> config[s], level |-> level]]
  /\ UNCHANGED <<pending, completed, seen, trusted, spent, ckpt, trace,
                 procVars, pc, job, worldVars>>

\* trust_workspace: one workspace, one attestation, never withdrawn.
TrustWorkspace(s) ==
  /\ phase[s] = "up"
  /\ trusted' = TRUE
  /\ UNCHANGED <<rowVars, origin, spent, ckpt, trace, procVars, pc, job,
                 worldVars>>

-----------------------------------------------------------------------------
(* start *)

\* Faults: the planner configuration, or the trust, is not checked.
MayStart_AnyPlanner(t, r) ==
  status[r] = "planned" /\ (origin[r].level = "advisory" \/ trusted)
MayStart_Untrusted(t, r) ==
  status[r] = "planned" /\ origin[r].by = config[Host[t]]

MayStart(t, r) ==
  /\ status[r] = "planned"
  /\ origin[r].by = config[Host[t]]
  /\ origin[r].level = "advisory" \/ trusted

\* Reads the row and checks status, planner and trust; the claim follows in a
\* transaction of its own, so several requests can be past these checks.
StartRequest(t, r) ==
  /\ pc[t] = "idle"
  /\ phase[Host[t]] = "up"
  /\ MayStart(t, r)
  /\ Goto(t, "claim")
  /\ job' = [job EXCEPT ![t] = Job("start", r, None, None)]
  /\ UNCHANGED <<rowVars, diskVars, procVars, worldVars>>

\* Fault: a run that is already starting can be claimed again.
Claimable_Again(r) == status[r] \in {"planned", "starting"}

Claimable(r) == status[r] = "planned"

\* claim_start wins: planned -> starting, and the graph is invoked afresh.
ClaimStart(t) ==
  /\ pc[t] = "claim"
  /\ Claimable(job[t].run)
  /\ status' = [status EXCEPT ![job[t].run] = "starting"]
  /\ Goto(t, "graph")
  /\ job' = [job EXCEPT ![t].graph = InitialGraph]
  /\ UNCHANGED <<pending, completed, seen, diskVars, procVars, worldVars>>

\* claim_start loses: another request claimed the run since the checks.
ClaimStartLost(t) ==
  /\ pc[t] = "claim"
  /\ ~Claimable(job[t].run)
  /\ Retire(t)
  /\ UNCHANGED <<rowVars, diskVars, procVars, worldVars>>

-----------------------------------------------------------------------------
(* approve_and_resume and decline *)

\* claim_pending: the click names the digest of a challenge somebody was
\* shown, perhaps long ago; the row must be waiting on that very digest.
ClaimPending(t, r, c, o) ==
  /\ pc[t] = "idle"
  /\ phase[Host[t]] = "up"
  /\ status[r] = "waiting_for_approval"
  /\ pending[r] = c.digest
  /\ status' = [status EXCEPT ![r] = "approving"]
  /\ Goto(t, IF o = "approve" THEN "issue" ELSE "refuse")
  /\ job' = [job EXCEPT ![t] = Job(o, r, None, c)]
  /\ UNCHANGED <<pending, completed, seen, diskVars, procVars, worldVars>>

\* issue a capability for the challenged action and resume the graph from
\* its checkpoint; the interrupted node runs again from its first line.
IssueAndResume(t) ==
  /\ pc[t] = "issue"
  /\ ckpt[job[t].run] # None
  /\ minted' = minted + 1
  /\ Goto(t, "graph")
  /\ job' = [job EXCEPT
       ![t].graph = ckpt[job[t].run],
       ![t].token = [id |-> minted, digest |-> job[t].shown.digest]]
  /\ UNCHANGED <<rowVars, diskVars, procVars, binary, launches, faults,
                 rebinds>>

\* mark_refused, the second half of decline
Decline(t) ==
  /\ pc[t] = "refuse"
  /\ MarkTerminal(job[t].run, "approving", "refused")
  /\ Retire(t)
  /\ UNCHANGED <<diskVars, procVars, worldVars>>

-----------------------------------------------------------------------------
(* The graph.  A node works on the values of job[t].graph; its return is   *)
(* the next checkpoint, which SqliteSaver writes in the background.        *)

AtNode(t, node) == pc[t] = "graph" /\ job[t].graph.next = node

\* A node returned these values; the capability it resumed with is used up.
NodeReturns(t, g) ==
  /\ Goto(t, "graph")
  /\ job' = [job EXCEPT ![t] = [@ EXCEPT
       !.graph = [g EXCEPT !.interrupt = None], !.token = None, !.argv = None]]

\* _profile_node: the requested domain has executable tools, or the run fails.
ProfileNode(t) ==
  /\ AtNode(t, "profile")
  /\ \/ NodeReturns(t, [job[t].graph EXCEPT !.status = "running",
                                            !.next = "plan"])
     \/ NodeReturns(t, [job[t].graph EXCEPT !.status = "failed",
                                            !.next = "finalize"])
  /\ UNCHANGED <<rowVars, diskVars, procVars, worldVars>>

\* _plan_node: the planner is called once; an advisory run stops at the plan.
PlanNode(t) ==
  /\ AtNode(t, "plan")
  /\ \/ \E p \in Plans :
          IF origin[job[t].run].level = "advisory"
            THEN NodeReturns(t, [job[t].graph EXCEPT !.plan = p, !.index = 0,
                   !.status = "succeeded", !.next = "finalize"])
            ELSE NodeReturns(t, [job[t].graph EXCEPT !.plan = p, !.index = 0,
                   !.status = "running", !.next = "execute"])
     \/ NodeReturns(t, [job[t].graph EXCEPT !.status = "failed",
                                            !.next = "finalize"])
  /\ UNCHANGED <<rowVars, diskVars, procVars, worldVars>>

\* The digest of the action the graph is at, resolved now.
CurrentDigest(g) == [tool |-> g.plan[g.index + 1], binary |-> binary]

\* _execute_node, first half: approval_challenge resolves the command again.
\* Unresolvable: refused without an action.  First pass: interrupt.  Resumed:
\* the interrupt returns the capability and the runner takes over.
ExecuteNode(t) ==
  /\ AtNode(t, "execute")
  /\ \/ /\ binary = None
        /\ NodeReturns(t, [job[t].graph EXCEPT !.status = "refused",
                                               !.next = "finalize"])
     \/ /\ binary # None
        /\ job[t].token = None
        /\ Goto(t, "flush")
        /\ job' = [job EXCEPT
             ![t].graph.interrupt = CurrentDigest(job[t].graph)]
     \/ /\ binary # None
        /\ job[t].token # None
        /\ Goto(t, "verify")
        /\ UNCHANGED job
  /\ UNCHANGED <<rowVars, diskVars, procVars, worldVars>>

\* Faults: a finished action does not advance the plan; a refused or failed
\* one does.
Succeeded_Stuck(g) == [g EXCEPT !.actions = @ + 1, !.status = "running"]
Unsuccessful_Ignored(g, final) ==
  [g EXCEPT !.actions = @ + 1, !.index = @ + 1, !.status = "running",
            !.next = IF g.index + 1 < Len(g.plan) THEN "execute"
                                                  ELSE "finalize"]

\* The execute node records what the runner returned and moves on.
Succeeded(g) ==
  [g EXCEPT !.actions = @ + 1, !.index = @ + 1, !.status = "running",
            !.next = IF g.index + 1 < Len(g.plan) THEN "execute"
                                                  ELSE "finalize"]
Unsuccessful(g, final) ==
  [g EXCEPT !.actions = @ + 1, !.status = final, !.next = "finalize"]

\* Fault: the capability is not compared with the command.
Accepted_AnyAction(t) == binary # None /\ job[t].token.id \notin spent

Accepted(t) ==
  /\ binary # None
  /\ job[t].token.digest = CurrentDigest(job[t].graph)
  /\ job[t].token.id \notin spent

\* LocalRunner._prepare with verify: the resolved command must be the one the
\* unexpired, unspent capability names; the capability is spent.
Verify(t) ==
  /\ pc[t] = "verify"
  /\ Accepted(t)
  /\ spent' = spent \cup {job[t].token.id}
  /\ Goto(t, "spawn")
  /\ job' = [job EXCEPT ![t].argv = CurrentDigest(job[t].graph)]
  /\ UNCHANGED <<rowVars, origin, trusted, ckpt, trace, procVars, worldVars>>

\* ... or it is refused.  A capability can expire at any moment, so refusal
\* needs no other condition.
VerifyRefuses(t) ==
  /\ pc[t] = "verify"
  /\ NodeReturns(t, Unsuccessful(job[t].graph, "refused"))
  /\ UNCHANGED <<rowVars, diskVars, procVars, worldVars>>

\* subprocess.Popen succeeds: the command runs from here on.
Spawn(t) ==
  /\ pc[t] = "spawn"
  /\ launches' = Append(launches,
       [run |-> job[t].run, index |-> job[t].graph.index,
        digest |-> job[t].argv, id |-> job[t].token.id,
        shown |-> job[t].shown])
  /\ Goto(t, "wait")
  /\ UNCHANGED <<rowVars, diskVars, procVars, job, binary, minted, faults,
                 rebinds>>

\* Popen raises OSError: a failed action.
SpawnFails(t) ==
  /\ pc[t] = "spawn"
  /\ NodeReturns(t, Unsuccessful(job[t].graph, "failed"))
  /\ UNCHANGED <<rowVars, diskVars, procVars, worldVars>>

\* The command exits with 0, or fails: another code, or out of time.
Exit(t) ==
  /\ pc[t] = "wait"
  /\ \/ NodeReturns(t, Succeeded(job[t].graph))
     \/ NodeReturns(t, Unsuccessful(job[t].graph, "failed"))
  /\ UNCHANGED <<rowVars, diskVars, procVars, worldVars>>

\* _finalize_node: running becomes succeeded and the trace file is replaced.
FinalizeNode(t) ==
  LET g == job[t].graph
      final == IF g.status = "running" THEN "succeeded" ELSE g.status
  IN  /\ AtNode(t, "finalize")
      /\ trace' = [trace EXCEPT ![job[t].run] = final]
      /\ NodeReturns(t, [g EXCEPT !.status = final, !.next = "end"])
      /\ UNCHANGED <<rowVars, origin, trusted, spent, ckpt, procVars,
                     worldVars>>

-----------------------------------------------------------------------------
(* Checkpoints and results *)

\* The background writer catches up with the nodes that have returned.
Persist(t) ==
  /\ pc[t] \in {"graph", "fail"}
  /\ job[t].graph \notin {None, ckpt[job[t].run]}
  /\ ckpt' = [ckpt EXCEPT ![job[t].run] = job[t].graph]
  /\ UNCHANGED <<rowVars, origin, trusted, spent, trace, procVars, pc, job,
                 worldVars>>

\* Fault: invoke returns before its last checkpoint is written.
Flush_Early(t) ==
  /\ pc[t] = "flush" \/ AtNode(t, "end")
  /\ Goto(t, "record")
  /\ UNCHANGED <<rowVars, diskVars, procVars, job, worldVars>>

\* invoke stops at an interrupt or at the end, and returns only when every
\* checkpoint is written.
Flush(t) ==
  /\ pc[t] = "flush" \/ AtNode(t, "end")
  /\ ckpt' = [ckpt EXCEPT ![job[t].run] = job[t].graph]
  /\ Goto(t, "record")
  /\ UNCHANGED <<rowVars, origin, trusted, spent, trace, procVars, job,
                 worldVars>>

\* The caller projects the result onto the row it claimed.
Record(t) ==
  /\ pc[t] = "record"
  /\ UpdateFromResult(job[t].run, Claimed[job[t].op], job[t].graph)
  /\ Retire(t)
  /\ UNCHANGED <<diskVars, procVars, worldVars>>

\* Any other exception of the try block: no checkpoint to resume, a planner
\* or SQLite error, a trace file that cannot be written.
Raise(t) ==
  /\ pc[t] \in {"issue", "graph", "verify", "flush", "record"}
  /\ Goto(t, "fail")
  /\ UNCHANGED <<rowVars, diskVars, procVars, job, worldVars>>

\* Fault: the exception leaves the row as it was claimed.
MarkFailed_Forgotten(t) ==
  /\ pc[t] = "fail"
  /\ Retire(t)
  /\ UNCHANGED <<rowVars, diskVars, procVars, worldVars>>

MarkFailed(t) ==
  /\ pc[t] = "fail"
  /\ MarkTerminal(job[t].run, Claimed[job[t].op], "failed")
  /\ Retire(t)
  /\ UNCHANGED <<diskVars, procVars, worldVars>>

-----------------------------------------------------------------------------
(* Processes *)

\* Fault: no process waits for the lease.
LeaseFree_Ignored == TRUE
LeaseFree == lease = None

\* Faults: approvals in flight are forgotten; finished runs are reopened.
Unfinished_NotApproving ==
  {r \in Runs : status[r] \in Incomplete \ {"approving"}}
Unfinished_All == {r \in Runs : status[r] \notin {"none", "planned"}}

\* The rows list_by_status gives to the reconciliation.  The code also asks
\* for status running, which no row ever has.
Unfinished == {r \in Runs : status[r] \in Incomplete}

\* The constructor takes the lease, then lists the rows to reconcile.
Boot(s, f) ==
  /\ phase[s] = "down"
  /\ LeaseFree
  /\ lease' = s
  /\ phase' = [phase EXCEPT ![s] = "recovering"]
  /\ config' = [config EXCEPT ![s] = f]
  /\ todo' = [todo EXCEPT ![s] =
       {<<r, status[r]>> : r \in Unfinished}]
  /\ UNCHANGED <<rowVars, diskVars, pc, job, worldVars>>

\* _reconcile_incomplete_runs, one row.  A checkpoint with an interrupt or a
\* terminal status is projected onto the row; no checkpoint, or one in the
\* middle of the graph, fails the run.  get_state reports the interrupt of
\* the newest checkpoint even when the graph was resumed from it.
ReconcileRun(s, r, expected) ==
  /\ phase[s] = "recovering"
  /\ todo' = [todo EXCEPT ![s] = @ \ {<<r, expected>>}]
  /\ IF ckpt[r] # None /\ ResultStatus(ckpt[r]) \in
            Terminal \cup {"waiting_for_approval"}
       THEN UpdateFromResult(r, expected, ckpt[r])
       ELSE MarkTerminal(r, expected, "failed")
  /\ UNCHANGED <<diskVars, lease, phase, config, pc, job, worldVars>>

\* Reading the checkpoint or projecting it raises: only this run fails.
ReconcileRaises(s, r, expected) ==
  /\ phase[s] = "recovering"
  /\ todo' = [todo EXCEPT ![s] = @ \ {<<r, expected>>}]
  /\ MarkTerminal(r, expected, "failed")
  /\ UNCHANGED <<diskVars, lease, phase, config, pc, job, worldVars>>

BootDone(s) ==
  /\ phase[s] = "recovering"
  /\ todo[s] = {}
  /\ phase' = [phase EXCEPT ![s] = "up"]
  /\ UNCHANGED <<rowVars, diskVars, lease, config, todo, pc, job, worldVars>>

\* The process is gone: the OS drops its lock, its threads vanish.
ProcessEnds(s) ==
  /\ phase' = [phase EXCEPT ![s] = "down"]
  /\ lease' = IF lease = s THEN None ELSE lease
  /\ todo' = [todo EXCEPT ![s] = {}]
  /\ pc' = [t \in Workers |-> IF Host[t] = s THEN "idle" ELSE pc[t]]
  /\ job' = [t \in Workers |-> IF Host[t] = s THEN None ELSE job[t]]
  /\ UNCHANGED <<rowVars, diskVars, config, binary, minted, launches,
                 rebinds>>

\* A crash or a kill, at any point, or an exception out of the constructor.
Crash(s) ==
  /\ phase[s] # "down"
  /\ faults < MaxFaults
  /\ faults' = faults + 1
  /\ ProcessEnds(s)

\* close, by a caller with no request in flight (a CLI command that is done).
Close(s) ==
  /\ phase[s] = "up"
  /\ \A t \in Workers : Host[t] = s => pc[t] = "idle"
  /\ ProcessEnds(s)
  /\ UNCHANGED faults

\* The environment: a virtual environment is rebuilt, a tool is upgraded.
Rebind(b) ==
  /\ rebinds < MaxRebinds
  /\ b # binary
  /\ rebinds' = rebinds + 1
  /\ binary' = b
  /\ UNCHANGED <<rowVars, diskVars, procVars, pc, job, minted, launches,
                 faults>>

-----------------------------------------------------------------------------
Request(t) == \E r \in Runs :
  \/ StartRequest(t, r)
  \/ \E c \in seen[r], o \in {"approve", "decline"} : ClaimPending(t, r, c, o)

\* What a worker does of its own once a request is accepted.
Work(t) ==
  \/ ClaimStart(t) \/ ClaimStartLost(t)
  \/ IssueAndResume(t) \/ Decline(t)
  \/ ProfileNode(t) \/ PlanNode(t) \/ ExecuteNode(t)
  \/ Verify(t) \/ VerifyRefuses(t) \/ Spawn(t) \/ SpawnFails(t) \/ Exit(t)
  \/ FinalizeNode(t) \/ Flush(t) \/ Record(t)
  \/ Raise(t) \/ MarkFailed(t)

Reconcile(s) == \E row \in todo[s] :
  ReconcileRun(s, row[1], row[2]) \/ ReconcileRaises(s, row[1], row[2])

Next ==
  \/ \E s \in Services, r \in Runs, level \in Levels : CreateRun(s, r, level)
  \/ \E s \in Services : TrustWorkspace(s)
  \/ \E t \in Workers : Request(t) \/ Work(t) \/ Persist(t)
  \/ \E s \in Services, f \in Fingerprints : Boot(s, f)
  \/ \E s \in Services : Reconcile(s) \/ BootDone(s) \/ Crash(s) \/ Close(s)
  \/ \E b \in Binaries \cup {None} : Rebind(b)

Spec == Init /\ [][Next]_vars

\* Fairness.  A worker thread keeps running: model calls have a deadline and
\* commands a compute budget, after which the runner kills them.  A recovering
\* constructor keeps running, and somebody restarts a service that is down.
Fairness ==
  /\ \A t \in Workers : WF_vars(Work(t))
  /\ \A s \in Services : /\ WF_vars(Reconcile(s))
                         /\ WF_vars(BootDone(s))
                         /\ WF_vars(\E f \in Fingerprints : Boot(s, f))

FairSpec == Spec /\ Fairness

\* The store raises (the database is locked for too long, the disk is full): at
\* the update that releases a run, or at claim_start's reading of the row it has
\* just claimed, which start's handler does not cover.  The exception leaves the
\* row as it was claimed, and no request can take it from there.
StoreRaises(t) ==
  /\ \/ pc[t] \in {"fail", "refuse"}
     \/ pc[t] = "graph" /\ job[t].op = "start" /\ job[t].graph = InitialGraph
  /\ faults < MaxFaults
  /\ faults' = faults + 1
  /\ Retire(t)
  /\ UNCHANGED <<rowVars, diskVars, procVars, binary, minted, launches,
                 rebinds>>

StoreSpec == Init /\ [][Next \/ \E t \in Workers : StoreRaises(t)]_vars

\* The lease is lost while the process lives on, with its requests in flight:
\* its handle is closed under it, as test_restart_fails_mid_graph_checkpoint_
\* without_replaying_work does, or the file system forgets the lock.
LeaseLapses(s) ==
  /\ phase[s] = "up"
  /\ lease = s
  /\ faults < MaxFaults
  /\ faults' = faults + 1
  /\ lease' = None
  /\ UNCHANGED <<rowVars, diskVars, phase, config, todo, pc, job, binary,
                 minted, launches, rebinds>>

\* Without the lease two processes can hand a run back and forth for ever;
\* MaxApprovals bounds how often it is approved.
LapseNext ==
  /\ Next \/ \E s \in Services : LeaseLapses(s)
  /\ minted' <= MaxApprovals

LapseSpec == Init /\ [][LapseNext]_vars
=============================================================================
