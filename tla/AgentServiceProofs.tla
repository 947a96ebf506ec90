------------------------- MODULE AgentServiceProofs -------------------------
(***************************************************************************)
(* Proofs about the run service, for any number of runs, processes, worker *)
(* threads, tools and faults: types, terminal rows, who drives a run, who  *)
(* may run, and what is planned.                                           *)
(*                                                                         *)
(* Three invariants carry them, each with more than it is about:           *)
(*   Typed         what each label of a worker says about its memory, since*)
(*                 TypeOK alone does not say that a worker at a node holds *)
(*                 a graph, nor that its index is inside its plan;         *)
(*   Owned         the chain lease, process, worker, row;                  *)
(*   Governed, PlannedOnce                                                 *)
(*                 trust and autonomy level, from the checks of start to   *)
(*                 the graph and its checkpoints; and one plan of a run    *)
(*                 for ever, in memory and on disk, so that the digest of  *)
(*                 a challenge names one position of it.                   *)
(* All but Owned hold when the lease lapses, too.                          *)
(***************************************************************************)
EXTENDS AgentServiceProperties, TLAPS, SequenceTheorems

-----------------------------------------------------------------------------
(* The inductive invariant *)

\* Graph values that some node produced.
WellFormed(g) ==
  /\ g \in GraphStates
  /\ g.next = "execute" => g.index + 1 \in 1..Len(g.plan)
  /\ g.next = "finalize" => g.status # "planned"
  /\ g.next = "end" => g.status \in Terminal

\* A result that invoke may return: stopped at an interrupt, or at the end.
Returnable(g) == g.interrupt # None \/ g.status \in Terminal

\* What a worker at label l holds in memory.
HeldAt(l, j) ==
  /\ l # "idle" => j \in Jobs /\ (j.graph # None => WellFormed(j.graph))
  /\ l \in {"graph", "verify", "spawn", "wait", "flush", "record"} =>
       WellFormed(j.graph)
  /\ l \in {"verify", "spawn", "wait"} =>
       j.graph.next = "execute" /\ j.token \in Tokens \ {None}
  /\ l \in {"spawn", "wait"} => j.argv \in Digests
  /\ l # "idle" /\ j.token # None => j.shown \in Challenges
  /\ l = "issue" => j.shown \in Challenges
  /\ l \in {"flush", "record"} => Returnable(j.graph)

Typed ==
  /\ TypeOK
  /\ \A t \in Workers : HeldAt(pc[t], job[t])
  /\ \A r \in Runs : ckpt[r] # None => WellFormed(ckpt[r])

-----------------------------------------------------------------------------
(* Lemmas about the operators the actions are built from *)

\* Sending a worker to a label with a memory that suits the label keeps all
\* workers in order.
LEMMA WorkerMoves ==
  ASSUME Typed, NEW t \in Workers, NEW l \in Labels, NEW j \in Jobs \cup {None},
         HeldAt(l, j),
         pc' = [pc EXCEPT ![t] = l], job' = [job EXCEPT ![t] = j]
  PROVE  /\ pc' \in [Workers -> Labels]
         /\ job' \in [Workers -> Jobs \cup {None}]
         /\ \A u \in Workers : HeldAt(pc'[u], job'[u])
  BY DEF Typed, TypeOK

LEMMA WorkerRetires ==
  ASSUME Typed, NEW t \in Workers, Retire(t)
  PROVE  /\ pc' \in [Workers -> Labels]
         /\ job' \in [Workers -> Jobs \cup {None}]
         /\ \A u \in Workers : HeldAt(pc'[u], job'[u])
  <1>1. HeldAt("idle", None) BY DEF HeldAt
  <1>2. QED BY <1>1, WorkerMoves DEF Retire, Goto, Labels

\* A node's return is a well-formed graph, and suits the label graph.
LEMMA NodeReturnsTyped ==
  ASSUME Typed, NEW t \in Workers, NEW g, WellFormed(g), job[t] \in Jobs,
         NodeReturns(t, g)
  PROVE  /\ pc' \in [Workers -> Labels]
         /\ job' \in [Workers -> Jobs \cup {None}]
         /\ \A u \in Workers : HeldAt(pc'[u], job'[u])
  <1> DEFINE h == [g EXCEPT !.interrupt = None]
             j == [job[t] EXCEPT !.graph = h, !.token = None, !.argv = None]
  <1>1. WellFormed(h) BY DEF WellFormed, GraphStates
  <1>2. j \in Jobs /\ j.graph = h /\ j.token = None
    BY <1>1 DEF Jobs, WellFormed
  <1>3. HeldAt("graph", j) BY <1>1, <1>2 DEF HeldAt
  <1>4. job' = [job EXCEPT ![t] = j] /\ pc' = [pc EXCEPT ![t] = "graph"]
    BY DEF NodeReturns, Goto
  <1>5. QED BY <1>2, <1>3, <1>4, WorkerMoves DEF Labels

\* A plan is a nonempty sequence of tools.
LEMMA PlansTyped ==
  ASSUME NEW p \in Plans
  PROVE  p \in Seq(Tools) /\ 1 \in 1..Len(p)
  <1>1. PICK n \in 1..MaxPlan : p \in [1..n -> Tools] BY DEF Plans
  <1>2. n \in Nat /\ n >= 1 BY <1>1, PlanAssumption
  <1>3. p \in Seq(Tools) BY <1>1, <1>2
  <1>4. Len(p) = n BY <1>1, <1>2
  <1>5. QED BY <1>2, <1>3, <1>4

\* The expected-status updates keep the row variables typed.
RowsTyped ==
  /\ status \in [Runs -> Statuses]
  /\ pending \in [Runs -> Digests \cup {None}]
  /\ completed \in [Runs -> Nat]
  /\ seen \in [Runs -> SUBSET Challenges]

LEMMA MarkTerminalTyped ==
  ASSUME Typed, NEW r \in Runs, NEW e, NEW f \in Terminal, MarkTerminal(r, e, f)
  PROVE  RowsTyped'
  BY DEF Typed, TypeOK, RowsTyped, MarkTerminal, rowVars, Statuses

LEMMA UpdateTyped ==
  ASSUME Typed, NEW r \in Runs, NEW e, NEW g, WellFormed(g), Returnable(g),
         UpdateFromResult(r, e, g)
  PROVE  RowsTyped'
  <1>1. ResultStatus(g) \in Statuses
    BY DEF ResultStatus, Returnable, Statuses, Incomplete
  <1>2. /\ g.interrupt \in Digests \cup {None}
        /\ g.actions \in Nat
        /\ g.interrupt # None =>
             [index |-> g.index, digest |-> g.interrupt] \in Challenges
    BY DEF WellFormed, GraphStates, Challenges
  <1>3. CASE status[r] = e
    <2>1. status' \in [Runs -> Statuses]
      BY <1>1, <1>3 DEF Typed, TypeOK, UpdateFromResult
    <2>2. pending' \in [Runs -> Digests \cup {None}]
      BY <1>2, <1>3 DEF Typed, TypeOK, UpdateFromResult
    <2>3. completed' \in [Runs -> Nat]
      BY <1>2, <1>3 DEF Typed, TypeOK, UpdateFromResult
    <2>4. seen' \in [Runs -> SUBSET Challenges]
      <3> DEFINE q == [index |-> g.index, digest |-> g.interrupt]
      <3>1. seen' = IF g.interrupt = None THEN seen
                    ELSE [seen EXCEPT ![r] = @ \cup {q}]
        BY <1>3 DEF UpdateFromResult
      <3>2. g.interrupt # None => q \in Challenges BY <1>2
      <3>3. seen \in [Runs -> SUBSET Challenges] BY DEF Typed, TypeOK
      <3> HIDE DEF q
      <3>4. QED BY <3>1, <3>2, <3>3
    <2>5. QED BY <2>1, <2>2, <2>3, <2>4 DEF RowsTyped
  <1>4. CASE status[r] # e
    BY <1>4 DEF Typed, TypeOK, UpdateFromResult, RowsTyped, rowVars
  <1>5. QED BY <1>3, <1>4

-----------------------------------------------------------------------------
(* Typed is inductive, with and without lapses of the lease. *)

\* Variables no worker step of the graph changes.
QuietTyped ==
  /\ origin \in [Runs -> Origins \cup {None}]
  /\ trusted \in BOOLEAN
  /\ spent \subseteq Nat
  /\ trace \in [Runs -> Terminal \cup {None}]
  /\ minted \in Nat
  /\ launches \in Seq(Launches)

ProcsTyped ==
  /\ lease \in Services \cup {None}
  /\ phase \in [Services -> {"down", "recovering", "up"}]
  /\ config \in [Services -> Fingerprints]
  /\ todo \in [Services -> SUBSET (Runs \X Incomplete)]
  /\ binary \in Binaries \cup {None}
  /\ faults \in Nat
  /\ rebinds \in Nat

WorkersTyped ==
  /\ pc \in [Workers -> Labels]
  /\ job \in [Workers -> Jobs \cup {None}]
  /\ \A t \in Workers : HeldAt(pc[t], job[t])

CkptTyped ==
  /\ ckpt \in [Runs -> GraphStates \cup {None}]
  /\ \A r \in Runs : ckpt[r] # None => WellFormed(ckpt[r])

\* Typed taken apart by the groups of variables an action changes.
LEMMA TypedParts ==
  Typed <=> RowsTyped /\ QuietTyped /\ ProcsTyped /\ WorkersTyped /\ CkptTyped
  BY DEF Typed, TypeOK, RowsTyped, QuietTyped, ProcsTyped, WorkersTyped,
         CkptTyped

\* The group lemmas below are used for the groups an action leaves alone.
LEMMA TypedPartsNext ==
  Typed' <=> RowsTyped' /\ QuietTyped' /\ ProcsTyped' /\ WorkersTyped'
             /\ CkptTyped'
  BY DEF Typed, TypeOK, RowsTyped, QuietTyped, ProcsTyped, WorkersTyped,
         CkptTyped

LEMMA Unchanged ==
  ASSUME Typed
  PROVE  /\ UNCHANGED rowVars => RowsTyped'
         /\ UNCHANGED <<origin, trusted, spent, trace, minted, launches>>
              => QuietTyped'
         /\ UNCHANGED <<procVars, binary, faults, rebinds>> => ProcsTyped'
         /\ UNCHANGED <<pc, job>> => WorkersTyped'
         /\ UNCHANGED ckpt => CkptTyped'
  <1>1. /\ RowsTyped /\ QuietTyped /\ ProcsTyped /\ WorkersTyped /\ CkptTyped
    BY TypedParts
  <1>2. UNCHANGED rowVars => RowsTyped' BY <1>1 DEF RowsTyped, rowVars
  <1>3. UNCHANGED <<origin, trusted, spent, trace, minted, launches>>
          => QuietTyped'
    BY <1>1 DEF QuietTyped
  <1>4. UNCHANGED <<procVars, binary, faults, rebinds>> => ProcsTyped'
    BY <1>1 DEF ProcsTyped, procVars
  <1>5. UNCHANGED <<pc, job>> => WorkersTyped' BY <1>1 DEF WorkersTyped
  <1>6. UNCHANGED ckpt => CkptTyped' BY <1>1 DEF CkptTyped
  <1>7. QED BY <1>2, <1>3, <1>4, <1>5, <1>6

\* The worker group after a step of worker t that leaves everybody else alone.
LEMMA RequestTyped ==
  ASSUME Typed, NEW t \in Workers, NEW r \in Runs,
         \/ StartRequest(t, r)
         \/ \E c \in seen[r], o \in {"approve", "decline"} :
              ClaimPending(t, r, c, o)
  PROVE  Typed'
  <1>1. CASE StartRequest(t, r)
    <2> DEFINE j == Job("start", r, None, None)
    <2>1. j \in Jobs /\ j.graph = None /\ j.token = None
      BY DEF Jobs, Job, Claimed
    <2>2. HeldAt("claim", j) BY <2>1 DEF HeldAt
    <2>3. WorkersTyped'
      BY <1>1, <2>1, <2>2, WorkerMoves
      DEF StartRequest, Goto, Labels, WorkersTyped
    <2>4. QED
      BY <1>1, <2>3, Unchanged, TypedPartsNext
      DEF StartRequest, diskVars, worldVars
  <1>2. ASSUME NEW c \in seen[r], NEW o \in {"approve", "decline"},
               ClaimPending(t, r, c, o)
        PROVE  Typed'
    <2> DEFINE j == Job(o, r, None, c)
               l == IF o = "approve" THEN "issue" ELSE "refuse"
    <2>1. c \in Challenges BY DEF Typed, TypeOK
    <2>2. j \in Jobs /\ j.graph = None /\ j.token = None /\ j.shown = c
      BY <2>1 DEF Jobs, Job, Claimed
    <2>3. HeldAt(l, j) BY <2>1, <2>2 DEF HeldAt
    <2>4. WorkersTyped'
      BY <1>2, <2>2, <2>3, WorkerMoves
      DEF ClaimPending, Goto, Labels, WorkersTyped
    <2>5. RowsTyped'
      BY <1>2 DEF ClaimPending, RowsTyped, Typed, TypeOK, Statuses, Incomplete
    <2>6. QED
      BY <1>2, <2>4, <2>5, Unchanged, TypedPartsNext
      DEF ClaimPending, diskVars, worldVars
  <1>3. QED BY <1>1, <1>2

\* Steps between the claim of a run and its first node.
LEMMA ClaimTyped ==
  ASSUME Typed, NEW t \in Workers,
         ClaimStart(t) \/ ClaimStartLost(t) \/ IssueAndResume(t)
  PROVE  Typed'
  <1>1. CASE ClaimStart(t)
    <2> DEFINE j == [job[t] EXCEPT !.graph = InitialGraph]
    <2>1. job[t] \in Jobs /\ HeldAt(pc[t], job[t])
      BY <1>1 DEF ClaimStart, Typed, HeldAt
    <2>2. <<>> \in Seq(Tools) OBVIOUS
    <2>3. WellFormed(InitialGraph)
      BY <2>2 DEF WellFormed, InitialGraph, GraphStates, Nodes
    <2>4. /\ j \in Jobs /\ j.graph = InitialGraph
          /\ j.token = job[t].token /\ j.shown = job[t].shown
      BY <2>1, <2>3 DEF Jobs, WellFormed
    <2>5. HeldAt("graph", j) BY <1>1, <2>1, <2>3, <2>4 DEF HeldAt, ClaimStart
    <2>6. WorkersTyped'
      BY <1>1, <2>4, <2>5, WorkerMoves
      DEF ClaimStart, Goto, Labels, WorkersTyped
    <2>7. RowsTyped'
      BY <1>1, <2>1
      DEF ClaimStart, RowsTyped, Typed, TypeOK, Statuses, Incomplete
    <2>8. QED
      BY <1>1, <2>6, <2>7, Unchanged, TypedPartsNext
      DEF ClaimStart, diskVars, worldVars
  <1>2. CASE ClaimStartLost(t)
    BY <1>2, WorkerRetires, Unchanged, TypedPartsNext
    DEF ClaimStartLost, diskVars, worldVars, WorkersTyped
  <1>3. CASE IssueAndResume(t)
    <2> DEFINE k == [id |-> minted, digest |-> job[t].shown.digest]
               g == ckpt[job[t].run]
               j == [job[t] EXCEPT !.graph = g, !.token = k]
    <2>1. job[t] \in Jobs /\ HeldAt(pc[t], job[t])
      BY <1>3 DEF IssueAndResume, Typed, HeldAt
    <2>2. job[t].shown \in Challenges
      BY <1>3, <2>1 DEF IssueAndResume, HeldAt
    <2>3. k \in Tokens /\ minted \in Nat
      BY <2>2 DEF Challenges, Tokens, Typed, TypeOK
    <2>4. WellFormed(g)
      BY <1>3, <2>1 DEF IssueAndResume, Typed, Jobs
    <2>5. /\ j \in Jobs /\ j.graph = g /\ j.shown = job[t].shown
      BY <2>1, <2>3, <2>4 DEF Jobs, WellFormed
    <2>6. HeldAt("graph", j) BY <2>2, <2>4, <2>5 DEF HeldAt
    <2>7. job' = [job EXCEPT ![t] = j]
      BY <1>3 DEF IssueAndResume
    <2>8. WorkersTyped'
      BY <1>3, <2>5, <2>6, <2>7, WorkerMoves
      DEF IssueAndResume, Goto, Labels, WorkersTyped
    <2>9. QuietTyped'
      BY <1>3, <2>3 DEF IssueAndResume, QuietTyped, Typed, TypeOK, diskVars
    <2>10. QED
      BY <1>3, <2>8, <2>9, Unchanged, TypedPartsNext
      DEF IssueAndResume, diskVars
  <1>4. QED BY <1>1, <1>2, <1>3

\* A node that returns without touching anything but the worker's memory.
LEMMA QuietReturn ==
  ASSUME Typed, NEW t \in Workers, NEW g, WellFormed(g), pc[t] # "idle",
         NodeReturns(t, g), UNCHANGED <<rowVars, diskVars, procVars, worldVars>>
  PROVE  Typed'
  <1>1. job[t] \in Jobs BY DEF Typed, HeldAt
  <1>2. WorkersTyped' BY <1>1, NodeReturnsTyped DEF WorkersTyped
  <1>3. QED
    BY <1>2, Unchanged, TypedPartsNext DEF diskVars, worldVars

\* The worker's graph at a label that has one.
LEMMA GraphTyped ==
  ASSUME Typed, NEW t \in Workers,
         pc[t] \in {"graph", "verify", "spawn", "wait", "flush", "record"}
  PROVE  /\ WellFormed(job[t].graph)
         /\ job[t] \in Jobs
         /\ HeldAt(pc[t], job[t])
  BY DEF Typed, HeldAt

LEMMA ProfileTyped ==
  ASSUME Typed, NEW t \in Workers, ProfileNode(t)
  PROVE  Typed'
  <1> DEFINE g == job[t].graph
             ok == [g EXCEPT !.status = "running", !.next = "plan"]
             no == [g EXCEPT !.status = "failed", !.next = "finalize"]
  <1>1. pc[t] = "graph" BY DEF ProfileNode, AtNode
  <1>2. WellFormed(g) BY <1>1, GraphTyped
  <1>3. WellFormed(ok) /\ WellFormed(no)
    BY <1>2 DEF WellFormed, GraphStates, Nodes, Terminal
  <1>4. NodeReturns(t, ok) \/ NodeReturns(t, no) BY DEF ProfileNode
  <1> HIDE DEF ok, no
  <1>5. QED BY <1>1, <1>3, <1>4, QuietReturn DEF ProfileNode

LEMMA PlanTyped ==
  ASSUME Typed, NEW t \in Workers, PlanNode(t)
  PROVE  Typed'
  <1> DEFINE g == job[t].graph
             adv(p) == [g EXCEPT !.plan = p, !.index = 0,
                                 !.status = "succeeded", !.next = "finalize"]
             run(p) == [g EXCEPT !.plan = p, !.index = 0,
                                 !.status = "running", !.next = "execute"]
             no == [g EXCEPT !.status = "failed", !.next = "finalize"]
  <1>1. pc[t] = "graph" BY DEF PlanNode, AtNode
  <1>2. WellFormed(g) BY <1>1, GraphTyped
  <1>3. WellFormed(no)
    BY <1>2 DEF WellFormed, GraphStates, Nodes, Terminal
  <1>4. ASSUME NEW p \in Plans PROVE WellFormed(adv(p)) /\ WellFormed(run(p))
    <2>1. p \in Seq(Tools) /\ 1 \in 1..Len(p) BY PlansTyped
    <2>2. adv(p) \in GraphStates /\ run(p) \in GraphStates
      BY <1>2, <2>1 DEF WellFormed, GraphStates, Nodes, Terminal
    <2>3. /\ adv(p).next = "finalize" /\ adv(p).status = "succeeded"
          /\ run(p).next = "execute" /\ run(p).index = 0 /\ run(p).plan = p
      BY <1>2 DEF WellFormed, GraphStates
    <2>4. QED BY <2>1, <2>2, <2>3 DEF WellFormed
  <1>5. NodeReturns(t, no)
        \/ \E p \in Plans : NodeReturns(t, adv(p)) \/ NodeReturns(t, run(p))
    BY DEF PlanNode
  <1> HIDE DEF adv, run, no
  <1>6. QED BY <1>1, <1>3, <1>4, <1>5, QuietReturn DEF PlanNode

\* The action a graph is at is one of its tools, resolved to a file.
LEMMA CurrentTyped ==
  ASSUME Typed, NEW g, WellFormed(g), g.next = "execute", binary # None
  PROVE  CurrentDigest(g) \in Digests
  <1>1. g.plan \in Seq(Tools) /\ g.index + 1 \in 1..Len(g.plan)
    BY DEF WellFormed, GraphStates
  <1>2. g.plan[g.index + 1] \in Tools BY <1>1
  <1>3. binary \in Binaries BY DEF Typed, TypeOK
  <1>4. QED BY <1>2, <1>3 DEF CurrentDigest, Digests

LEMMA ExecuteTyped ==
  ASSUME Typed, NEW t \in Workers, ExecuteNode(t)
  PROVE  Typed'
  <1> DEFINE g == job[t].graph
             d == CurrentDigest(g)
             no == [g EXCEPT !.status = "refused", !.next = "finalize"]
             h == [g EXCEPT !.interrupt = d]
             j == [job[t] EXCEPT !.graph = h]
  <1>1. pc[t] = "graph" /\ g.next = "execute" BY DEF ExecuteNode, AtNode
  <1>2. WellFormed(g) /\ job[t] \in Jobs /\ HeldAt(pc[t], job[t])
    BY <1>1, GraphTyped
  <1>3. CASE NodeReturns(t, no)
    <2>1. WellFormed(no)
      BY <1>2 DEF WellFormed, GraphStates, Nodes, Terminal
    <2> HIDE DEF no
    <2>2. QED BY <1>1, <1>3, <2>1, QuietReturn DEF ExecuteNode
  <1>4. CASE /\ binary # None /\ Goto(t, "flush")
             /\ job' = [job EXCEPT ![t].graph.interrupt = d]
    <2>1. d \in Digests BY <1>1, <1>2, <1>4, CurrentTyped
    <2>2. WellFormed(h) /\ h.interrupt = d
      BY <1>2, <2>1 DEF WellFormed, GraphStates
    <2>3. Returnable(h)
      BY <2>1, <2>2, NoneAssumption DEF Returnable
    <2>4. /\ j \in Jobs /\ j.graph = h
          /\ j.token = job[t].token /\ j.shown = job[t].shown
      BY <1>2, <2>2 DEF Jobs, WellFormed
    <2> HIDE DEF d, h
    <2>5. HeldAt("flush", j)
      BY <1>1, <1>2, <2>2, <2>3, <2>4 DEF HeldAt
    <2>6. job' = [job EXCEPT ![t] = j] BY <1>4 DEF h
    <2> HIDE DEF j
    <2>7. WorkersTyped'
      BY <1>4, <2>4, <2>5, <2>6, WorkerMoves DEF Goto, Labels, WorkersTyped
    <2>8. QED
      BY <2>7, Unchanged, TypedPartsNext
      DEF ExecuteNode, diskVars, worldVars
  <1>5. CASE /\ job[t].token # None /\ Goto(t, "verify") /\ UNCHANGED job
    <2>1. job[t].token \in Tokens \ {None} BY <1>2, <1>5 DEF Jobs
    <2>2. HeldAt("verify", job[t])
      BY <1>1, <1>2, <2>1 DEF HeldAt
    <2>3. job' = [job EXCEPT ![t] = job[t]]
      BY <1>5 DEF Typed, TypeOK
    <2>4. WorkersTyped'
      BY <1>2, <1>5, <2>2, <2>3, WorkerMoves DEF Goto, Labels, WorkersTyped
    <2>5. QED
      BY <2>4, Unchanged, TypedPartsNext
      DEF ExecuteNode, diskVars, worldVars
  <1>6. QED BY <1>3, <1>4, <1>5 DEF ExecuteNode

\* The runner: verification, launch and end of a command.
LEMMA RunnerReturns ==
  ASSUME NEW g, WellFormed(g)
  PROVE  /\ WellFormed(Unsuccessful(g, "refused"))
         /\ WellFormed(Unsuccessful(g, "failed"))
         /\ WellFormed(Succeeded(g))
  <1> DEFINE n == g.actions + 1
             i == g.index + 1
             next == IF i < Len(g.plan) THEN "execute" ELSE "finalize"
             lost(f) == [g EXCEPT !.actions = n, !.status = f,
                                  !.next = "finalize"]
             won == [g EXCEPT !.actions = n, !.index = i,
                              !.status = "running", !.next = next]
  <1>1. g \in GraphStates /\ g.plan \in Seq(Tools) /\ Len(g.plan) \in Nat
    BY DEF WellFormed, GraphStates
  <1>2. n \in Nat /\ i \in Nat BY <1>1 DEF GraphStates
  <1>3. i < Len(g.plan) => i + 1 \in 1..Len(g.plan) BY <1>1, <1>2
  <1>4. next \in {"execute", "finalize"} OBVIOUS
  <1>5. next = "execute" => i < Len(g.plan) OBVIOUS
  <1>6. /\ Unsuccessful(g, "refused") = lost("refused")
        /\ Unsuccessful(g, "failed") = lost("failed")
        /\ Succeeded(g) = won
    BY DEF Unsuccessful, Succeeded
  <1> HIDE DEF n, i, next
  <1>7. WellFormed(lost("refused")) /\ WellFormed(lost("failed"))
    BY <1>1, <1>2 DEF WellFormed, GraphStates, Nodes, Terminal
  <1>8. /\ won \in GraphStates /\ won.index = i /\ won.plan = g.plan
        /\ won.next = next /\ won.status = "running"
    BY <1>1, <1>2, <1>4 DEF GraphStates, Nodes
  <1>9. WellFormed(won) BY <1>3, <1>4, <1>5, <1>8 DEF WellFormed
  <1>10. QED BY <1>6, <1>7, <1>9

\* The runner: verification, launch and end of a command.
LEMMA RunnerTyped ==
  ASSUME Typed, NEW t \in Workers,
         \/ Verify(t) \/ VerifyRefuses(t) \/ Spawn(t) \/ SpawnFails(t)
         \/ Exit(t)
  PROVE  Typed'
  <1> DEFINE g == job[t].graph
             d == CurrentDigest(g)
  <1>1. /\ pc[t] \in {"verify", "spawn", "wait"}
        /\ WellFormed(g) /\ g.next = "execute" /\ job[t] \in Jobs
        /\ HeldAt(pc[t], job[t])
    BY GraphTyped DEF Verify, VerifyRefuses, Spawn, SpawnFails, Exit, HeldAt
  <1>2. CASE Verify(t)
    <2> DEFINE j == [job[t] EXCEPT !.argv = d]
    <2>1. d \in Digests
      BY <1>1, <1>2, CurrentTyped DEF Verify, Accepted
    <2>2. /\ j \in Jobs /\ j.graph = g /\ j.token = job[t].token
          /\ j.shown = job[t].shown /\ j.argv = d
      BY <1>1, <2>1 DEF Jobs
    <2> HIDE DEF d
    <2>3. HeldAt("spawn", j) BY <1>1, <1>2, <2>1, <2>2 DEF HeldAt, Verify
    <2>4. job' = [job EXCEPT ![t] = j] BY <1>2 DEF Verify, d
    <2> HIDE DEF j
    <2>5. WorkersTyped'
      BY <1>2, <2>2, <2>3, <2>4, WorkerMoves
      DEF Verify, Goto, Labels, WorkersTyped
    <2>6. job[t].token.id \in Nat
      BY <1>1, <1>2 DEF HeldAt, Verify, Tokens
    <2>7. QuietTyped'
      BY <1>2, <2>6 DEF Verify, QuietTyped, Typed, TypeOK, worldVars
    <2>8. QED
      BY <1>2, <2>5, <2>7, Unchanged, TypedPartsNext DEF Verify, worldVars
  <1>3. CASE Spawn(t)
    <2> DEFINE l == [run |-> job[t].run, index |-> g.index,
                     digest |-> job[t].argv, id |-> job[t].token.id,
                     shown |-> job[t].shown]
    <2>1. /\ job[t].run \in Runs /\ g.index \in Nat
          /\ job[t].argv \in Digests /\ job[t].token \in Tokens
      BY <1>1, <1>3 DEF HeldAt, Spawn, Jobs, WellFormed, GraphStates
    <2>2. job[t].token.id \in Nat BY <2>1 DEF Tokens
    <2>3. job[t].shown \in Challenges BY <1>1, <1>3 DEF HeldAt, Spawn
    <2>4. l \in Launches BY <2>1, <2>2, <2>3 DEF Launches
    <2>5. launches' = Append(launches, l) BY <1>3 DEF Spawn
    <2> HIDE DEF l
    <2>6. launches \in Seq(Launches) BY DEF Typed, TypeOK
    <2>7. launches' \in Seq(Launches) BY <2>4, <2>5, <2>6
    <2>8. QuietTyped'
      BY <1>3, <2>7 DEF Spawn, QuietTyped, Typed, TypeOK, diskVars
    <2>9. HeldAt("wait", job[t]) BY <1>1, <1>3 DEF HeldAt, Spawn
    <2>10. job' = [job EXCEPT ![t] = job[t]]
      BY <1>3 DEF Spawn, Typed, TypeOK
    <2>11. WorkersTyped'
      BY <1>1, <1>3, <2>9, <2>10, WorkerMoves
      DEF Spawn, Goto, Labels, WorkersTyped
    <2>12. QED
      BY <1>3, <2>8, <2>11, Unchanged, TypedPartsNext DEF Spawn, diskVars
  <1>4. CASE VerifyRefuses(t) \/ SpawnFails(t) \/ Exit(t)
    <2>1. \/ NodeReturns(t, Unsuccessful(g, "refused"))
          \/ NodeReturns(t, Unsuccessful(g, "failed"))
          \/ NodeReturns(t, Succeeded(g))
      BY <1>4 DEF VerifyRefuses, SpawnFails, Exit
    <2>2. UNCHANGED <<rowVars, diskVars, procVars, worldVars>>
      BY <1>4 DEF VerifyRefuses, SpawnFails, Exit
    <2>3. QED BY <1>1, <2>1, <2>2, RunnerReturns, QuietReturn
  <1>5. QED BY <1>2, <1>3, <1>4

LEMMA FinalizeTyped ==
  ASSUME Typed, NEW t \in Workers, FinalizeNode(t)
  PROVE  Typed'
  <1> DEFINE g == job[t].graph
             final == IF g.status = "running" THEN "succeeded" ELSE g.status
             h == [g EXCEPT !.status = final, !.next = "end"]
  <1>1. pc[t] = "graph" /\ g.next = "finalize" BY DEF FinalizeNode, AtNode
  <1>2. WellFormed(g) /\ job[t] \in Jobs BY <1>1, GraphTyped
  <1>3. final \in Terminal
    BY <1>1, <1>2 DEF WellFormed, GraphStates, Terminal
  <1>4. /\ trace' = [trace EXCEPT ![job[t].run] = final]
        /\ NodeReturns(t, h)
        /\ UNCHANGED <<rowVars, origin, trusted, spent, ckpt, procVars,
                       worldVars>>
    BY DEF FinalizeNode
  <1> HIDE DEF final
  <1>5. WellFormed(h)
    BY <1>2, <1>3 DEF WellFormed, GraphStates, Nodes, Terminal
  <1> HIDE DEF h
  <1>6. WorkersTyped' BY <1>2, <1>4, <1>5, NodeReturnsTyped DEF WorkersTyped
  <1>7. QuietTyped'
    BY <1>2, <1>3, <1>4 DEF QuietTyped, Typed, TypeOK, Jobs, worldVars
  <1>8. QED BY <1>4, <1>6, <1>7, Unchanged, TypedPartsNext DEF worldVars

\* Checkpoints: in the background, and all of them when invoke returns.
LEMMA CheckpointTyped ==
  ASSUME Typed, NEW t \in Workers, Persist(t) \/ Flush(t)
  PROVE  Typed'
  <1> DEFINE g == job[t].graph
  <1>1. /\ WellFormed(g) /\ job[t] \in Jobs /\ HeldAt(pc[t], job[t])
    <2>1. CASE Persist(t)
      BY <2>1 DEF Persist, Typed, HeldAt
    <2>2. CASE Flush(t)
      BY <2>2, GraphTyped DEF Flush, AtNode
    <2>3. QED BY <2>1, <2>2
  <1>2. ckpt' = [ckpt EXCEPT ![job[t].run] = g] BY DEF Persist, Flush
  <1>3. CkptTyped'
    BY <1>1, <1>2 DEF CkptTyped, Typed, TypeOK, WellFormed, Jobs
  <1>4. CASE Persist(t)
    BY <1>3, <1>4, Unchanged, TypedPartsNext DEF Persist, worldVars
  <1>5. CASE Flush(t)
    <2>1. Returnable(g)
      BY <1>1, <1>5 DEF Flush, AtNode, HeldAt, WellFormed, Returnable
    <2>2. HeldAt("record", job[t])
      BY <1>1, <1>5, <2>1 DEF HeldAt, Flush, AtNode
    <2>3. job' = [job EXCEPT ![t] = job[t]]
      BY <1>5 DEF Flush, Typed, TypeOK
    <2>4. WorkersTyped'
      BY <1>1, <1>5, <2>2, <2>3, WorkerMoves
      DEF Flush, Goto, Labels, WorkersTyped
    <2>5. QED
      BY <1>3, <1>5, <2>4, Unchanged, TypedPartsNext DEF Flush, worldVars
  <1>6. QED BY <1>4, <1>5

\* The end of a request: the row is updated and the thread retires.
LEMMA ReleaseTyped ==
  ASSUME Typed, NEW t \in Workers, Record(t) \/ MarkFailed(t) \/ Decline(t)
  PROVE  Typed'
  <1>1. /\ Retire(t)
        /\ UNCHANGED <<diskVars, procVars, worldVars>>
        /\ pc[t] # "idle"
    BY DEF Record, MarkFailed, Decline
  <1>2. WorkersTyped' BY <1>1, WorkerRetires DEF WorkersTyped
  <1>3. job[t].run \in Runs BY <1>1 DEF Typed, HeldAt, Jobs
  <1>4. RowsTyped'
    <2>1. CASE Record(t)
      <3>1. WellFormed(job[t].graph) /\ Returnable(job[t].graph)
        BY <2>1, GraphTyped DEF Record, HeldAt
      <3>2. QED BY <1>3, <2>1, <3>1, UpdateTyped DEF Record
    <2>2. CASE MarkFailed(t) \/ Decline(t)
      BY <1>3, <2>2, MarkTerminalTyped DEF MarkFailed, Decline, Terminal
    <2>3. QED BY <2>1, <2>2
  <1>5. QED
    BY <1>1, <1>2, <1>4, Unchanged, TypedPartsNext DEF diskVars, worldVars

LEMMA RaiseTyped ==
  ASSUME Typed, NEW t \in Workers, Raise(t)
  PROVE  Typed'
  <1>1. job[t] \in Jobs /\ HeldAt("fail", job[t])
    BY DEF Raise, Typed, HeldAt
  <1>2. job' = [job EXCEPT ![t] = job[t]] BY DEF Raise, Typed, TypeOK
  <1>3. WorkersTyped'
    BY <1>1, <1>2, WorkerMoves DEF Raise, Goto, Labels, WorkersTyped
  <1>4. QED
    BY <1>3, Unchanged, TypedPartsNext DEF Raise, diskVars, worldVars

\* Every step of a worker, its own or the background writer's.
LEMMA WorkerTyped ==
  ASSUME Typed, NEW t \in Workers, Request(t) \/ Work(t) \/ Persist(t)
  PROVE  Typed'
  <1>1. CASE Request(t) BY <1>1, RequestTyped DEF Request
  <1>2. CASE Work(t)
    BY <1>2, ClaimTyped, ReleaseTyped, ProfileTyped, PlanTyped, ExecuteTyped,
       RunnerTyped, FinalizeTyped, CheckpointTyped, RaiseTyped DEF Work
  <1>3. CASE Persist(t) BY <1>3, CheckpointTyped
  <1>4. QED BY <1>1, <1>2, <1>3

\* The requests that are one transaction.
LEMMA TransactionTyped ==
  ASSUME Typed, NEW s \in Services,
         TrustWorkspace(s)
         \/ \E r \in Runs, level \in Levels : CreateRun(s, r, level)
  PROVE  Typed'
  <1>1. CASE TrustWorkspace(s)
    <2>1. QuietTyped'
      BY <1>1 DEF TrustWorkspace, QuietTyped, Typed, TypeOK, worldVars
    <2>2. QED
      BY <1>1, <2>1, Unchanged, TypedPartsNext DEF TrustWorkspace, worldVars
  <1>2. ASSUME NEW r \in Runs, NEW level \in Levels, CreateRun(s, r, level)
        PROVE  Typed'
    <2>1. RowsTyped'
      BY <1>2 DEF CreateRun, RowsTyped, Typed, TypeOK, Statuses
    <2> DEFINE o == [by |-> config[s], level |-> level]
    <2>2. o \in Origins BY DEF Typed, TypeOK, Origins
    <2>3. origin' = [origin EXCEPT ![r] = o] BY <1>2 DEF CreateRun
    <2> HIDE DEF o
    <2>4. QuietTyped'
      BY <1>2, <2>2, <2>3
      DEF CreateRun, QuietTyped, Typed, TypeOK, worldVars
    <2>5. QED
      BY <1>2, <2>1, <2>4, Unchanged, TypedPartsNext DEF CreateRun, worldVars
  <1>3. QED BY <1>1, <1>2

\* A restored row is one of the two results invoke may return.
LEMMA ReconcileTyped ==
  ASSUME Typed, NEW s \in Services, Reconcile(s)
  PROVE  Typed'
  <1>1. PICK row \in todo[s] :
          \/ ReconcileRun(s, row[1], row[2])
          \/ ReconcileRaises(s, row[1], row[2])
    BY DEF Reconcile
  <1> DEFINE r == row[1]
             e == row[2]
  <1>2. r \in Runs BY <1>1 DEF Typed, TypeOK
  <1>3. /\ todo' = [todo EXCEPT ![s] = @ \ {<<r, e>>}]
        /\ UNCHANGED <<diskVars, lease, phase, config, pc, job, worldVars>>
    BY <1>1 DEF ReconcileRun, ReconcileRaises
  <1>4. \/ MarkTerminal(r, e, "failed")
        \/ /\ ckpt[r] # None
           /\ ResultStatus(ckpt[r]) \in Terminal \cup {"waiting_for_approval"}
           /\ UpdateFromResult(r, e, ckpt[r])
    BY <1>1 DEF ReconcileRun, ReconcileRaises
  <1> HIDE DEF r, e
  <1>5. RowsTyped'
    <2>1. CASE MarkTerminal(r, e, "failed")
      BY <1>2, <2>1, MarkTerminalTyped DEF Terminal
    <2>2. CASE /\ ckpt[r] # None
               /\ ResultStatus(ckpt[r]) \in
                    Terminal \cup {"waiting_for_approval"}
               /\ UpdateFromResult(r, e, ckpt[r])
      <3>1. WellFormed(ckpt[r]) BY <1>2, <2>2 DEF Typed
      <3>2. Returnable(ckpt[r])
        BY <2>2, <3>1
        DEF Returnable, ResultStatus, WellFormed, GraphStates, Terminal
      <3>3. QED BY <1>2, <2>2, <3>1, <3>2, UpdateTyped
    <2>3. QED BY <1>4, <2>1, <2>2
  <1>6. ProcsTyped'
    BY <1>3 DEF ProcsTyped, Typed, TypeOK, worldVars
  <1>7. QED
    BY <1>3, <1>5, <1>6, Unchanged, TypedPartsNext DEF diskVars, worldVars

\* The life of a process, and of its threads with it.
LEMMA ProcessTyped ==
  ASSUME Typed, NEW s \in Services,
         \/ \E f \in Fingerprints : Boot(s, f)
         \/ BootDone(s) \/ Crash(s) \/ Close(s) \/ LeaseLapses(s)
  PROVE  Typed'
  <1>1. ASSUME NEW f \in Fingerprints, Boot(s, f)
        PROVE  Typed'
    <2> DEFINE rows == {<<r, status[r]>> : r \in Unfinished}
    <2>1. rows \subseteq Runs \X Incomplete BY DEF Unfinished
    <2>2. todo' = [todo EXCEPT ![s] = rows] BY <1>1 DEF Boot
    <2> HIDE DEF rows
    <2>3. ProcsTyped'
      BY <1>1, <2>1, <2>2 DEF Boot, ProcsTyped, Typed, TypeOK, worldVars
    <2>4. QED
      BY <1>1, <2>3, Unchanged, TypedPartsNext DEF Boot, diskVars, worldVars
  <1>2. CASE BootDone(s)
    <2>1. ProcsTyped'
      BY <1>2 DEF BootDone, ProcsTyped, Typed, TypeOK, worldVars
    <2>2. QED
      BY <1>2, <2>1, Unchanged, TypedPartsNext
      DEF BootDone, diskVars, worldVars
  <1>3. CASE Crash(s) \/ Close(s)
    <2>1. ProcessEnds(s) /\ faults' \in Nat
      BY <1>3 DEF Crash, Close, Typed, TypeOK
    <2>2. ProcsTyped'
      BY <2>1 DEF ProcessEnds, ProcsTyped, Typed, TypeOK
    <2>3. HeldAt("idle", None) BY DEF HeldAt
    <2>4. WorkersTyped'
      BY <2>1, <2>3 DEF ProcessEnds, WorkersTyped, Typed, TypeOK, Labels
    <2>5. QED
      BY <2>1, <2>2, <2>4, Unchanged, TypedPartsNext DEF ProcessEnds, diskVars
  <1>4. CASE LeaseLapses(s)
    <2>1. ProcsTyped'
      BY <1>4 DEF LeaseLapses, ProcsTyped, Typed, TypeOK
    <2>2. QED
      BY <1>4, <2>1, Unchanged, TypedPartsNext DEF LeaseLapses, diskVars
  <1>5. QED BY <1>1, <1>2, <1>3, <1>4

LEMMA RebindTyped ==
  ASSUME Typed, NEW b \in Binaries \cup {None}, Rebind(b)
  PROVE  Typed'
  <1>1. ProcsTyped'
    BY DEF Rebind, ProcsTyped, Typed, TypeOK, procVars
  <1>2. QED
    BY <1>1, Unchanged, TypedPartsNext DEF Rebind, diskVars

LEMMA InitTyped == Init => Typed
  <1> SUFFICES ASSUME Init PROVE Typed
    OBVIOUS
  <1>1. RowsTyped BY DEF Init, RowsTyped, Statuses
  <1>2. QuietTyped
    <2>1. <<>> \in Seq(Launches) OBVIOUS
    <2>2. QED BY <2>1 DEF Init, QuietTyped
  <1>3. ProcsTyped BY DEF Init, ProcsTyped
  <1>4. WorkersTyped
    <2>1. HeldAt("idle", None) BY DEF HeldAt
    <2>2. QED BY <2>1 DEF Init, WorkersTyped, Labels
  <1>5. CkptTyped BY DEF Init, CkptTyped
  <1>6. QED BY <1>1, <1>2, <1>3, <1>4, <1>5, TypedParts

LEMMA NextTyped == Typed /\ [Next \/ LapseNext]_vars => Typed'
  <1> SUFFICES ASSUME Typed, [Next \/ LapseNext]_vars PROVE Typed'
    OBVIOUS
  <1>1. CASE UNCHANGED vars
    BY <1>1, Unchanged, TypedPartsNext
    DEF vars, rowVars, diskVars, procVars, worldVars
  <1>2. CASE Next
    BY <1>2, WorkerTyped, TransactionTyped, ReconcileTyped, ProcessTyped,
       RebindTyped DEF Next
  <1>3. ASSUME NEW s \in Services, LeaseLapses(s) PROVE Typed'
    BY <1>3, ProcessTyped
  <1>4. QED BY <1>1, <1>2, <1>3 DEF LapseNext

\* A lost update changes no row.
LEMMA StoreTyped ==
  Typed /\ [Next \/ \E t \in Workers : StoreRaises(t)]_vars => Typed'
  <1> SUFFICES ASSUME Typed, NEW t \in Workers, StoreRaises(t) PROVE Typed'
    BY NextTyped
  <1>1. WorkersTyped' BY WorkerRetires DEF StoreRaises, WorkersTyped
  <1>2. ProcsTyped'
    BY DEF StoreRaises, ProcsTyped, Typed, TypeOK, procVars
  <1>3. QED
    BY <1>1, <1>2, Unchanged, TypedPartsNext DEF StoreRaises, diskVars

\* Rows, files, processes and the memory of every worker stay typed, in every
\* behaviour of the service.
THEOREM TypeCorrect == Spec => []TypeOK
  <1>1. Typed => TypeOK BY DEF Typed
  <1>2. Typed /\ [Next]_vars => Typed' BY NextTyped
  <1>3. QED BY <1>1, <1>2, InitTyped, PTL DEF Spec

\* Typed does not depend on the lease: a worker that has lost it still holds
\* what its label says.
THEOREM TypedLapse == LapseSpec => []Typed
  <1>1. Typed /\ [LapseNext]_vars => Typed' BY NextTyped
  <1>2. QED BY <1>1, InitTyped, PTL DEF LapseSpec

THEOREM TypedStore == StoreSpec => []Typed
  <1>1. Typed /\ [Next \/ \E t \in Workers : StoreRaises(t)]_vars => Typed'
    BY StoreTyped
  <1>2. QED BY <1>1, InitTyped, PTL DEF StoreSpec

THEOREM TypedAlways == Spec => []Typed
  <1>1. Typed /\ [Next]_vars => Typed' BY NextTyped
  <1>2. QED BY <1>1, InitTyped, PTL DEF Spec

-----------------------------------------------------------------------------
(* Terminal rows *)

\* What TerminalIsFinal says of one step.
TerminalKept ==
  \A r \in Runs : status[r] \in Terminal =>
    /\ status'[r] = status[r]
    /\ pending'[r] = pending[r]
    /\ completed'[r] = completed[r]

\* An update that changes the columns of one row, and that one not terminal.
LEMMA OneRowChanges ==
  ASSUME Typed, NEW r \in Runs, status[r] \notin Terminal,
         NEW x, status' = [status EXCEPT ![r] = x],
         NEW d, pending' = [pending EXCEPT ![r] = d],
         NEW n, completed' = [completed EXCEPT ![r] = n]
  PROVE  TerminalKept
  BY DEF TerminalKept, Typed, TypeOK

\* An update that expects a status outside Terminal finds no terminal row.
LEMMA UpdatesKeep ==
  ASSUME Typed, NEW r \in Runs, NEW e, e \notin Terminal,
         \/ \E f : MarkTerminal(r, e, f)
         \/ \E g : UpdateFromResult(r, e, g)
  PROVE  TerminalKept
  <1>1. CASE status[r] # e
    BY <1>1 DEF MarkTerminal, UpdateFromResult, rowVars, TerminalKept
  <1>2. ASSUME status[r] = e, NEW f, MarkTerminal(r, e, f)
        PROVE  TerminalKept
    <2>1. completed' = [completed EXCEPT ![r] = completed[r]]
      BY <1>2 DEF MarkTerminal, Typed, TypeOK
    <2>2. QED BY <1>2, <2>1, OneRowChanges DEF MarkTerminal
  <1>3. ASSUME status[r] = e, NEW g, UpdateFromResult(r, e, g)
        PROVE  TerminalKept
    BY <1>3, OneRowChanges DEF UpdateFromResult
  <1>4. QED BY <1>1, <1>2, <1>3

LEMMA NextKeeps ==
  ASSUME Typed, [Next \/ LapseNext]_vars
  PROVE  [TerminalKept]_rowVars
  <1> SUFFICES ASSUME ~UNCHANGED rowVars PROVE TerminalKept
    OBVIOUS
  <1>1. ASSUME NEW s \in Services, NEW r \in Runs, NEW level,
               CreateRun(s, r, level)
        PROVE  TerminalKept
    BY <1>1 DEF CreateRun, TerminalKept, Terminal, Typed, TypeOK
  <1>2. ASSUME NEW t \in Workers, NEW r \in Runs, NEW c, NEW o,
               ClaimPending(t, r, c, o)
        PROVE  TerminalKept
    BY <1>2 DEF ClaimPending, TerminalKept, Terminal, Typed, TypeOK
  <1>3. ASSUME NEW t \in Workers, ClaimStart(t) PROVE TerminalKept
    BY <1>3 DEF ClaimStart, Claimable, TerminalKept, Terminal, Typed, TypeOK
  <1>4. ASSUME NEW t \in Workers, Decline(t) \/ Record(t) \/ MarkFailed(t)
        PROVE  TerminalKept
    <2>1. job[t] \in Jobs
      BY <1>4 DEF Decline, Record, MarkFailed, Typed, HeldAt
    <2>2. /\ job[t].run \in Runs
          /\ Claimed[job[t].op] \notin Terminal
          /\ "approving" \notin Terminal
      BY <2>1 DEF Jobs, Claimed, Terminal
    <2>3. QED
      BY <1>4, <2>2, UpdatesKeep DEF Decline, Record, MarkFailed
  <1>5. ASSUME NEW s \in Services, Reconcile(s) PROVE TerminalKept
    <2>1. PICK row \in todo[s] :
            \/ ReconcileRun(s, row[1], row[2])
            \/ ReconcileRaises(s, row[1], row[2])
      BY <1>5 DEF Reconcile
    <2>2. PICK r \in Runs, e \in Incomplete : row = <<r, e>>
      BY DEF Typed, TypeOK
    <2>3. e \notin Terminal BY DEF Incomplete, Terminal
    <2>4. row[1] = r /\ row[2] = e BY <2>2
    <2>5. QED
      BY <2>1, <2>3, <2>4, UpdatesKeep DEF ReconcileRun, ReconcileRaises
  <1>6. ASSUME NEW t \in Workers, Work(t) \/ Persist(t) PROVE TerminalKept
    <2>1. CASE ClaimStart(t) \/ Decline(t) \/ Record(t) \/ MarkFailed(t)
      BY <1>3, <1>4, <2>1
    <2>2. ASSUME \/ ClaimStartLost(t) \/ IssueAndResume(t)
                 \/ ProfileNode(t) \/ PlanNode(t) \/ ExecuteNode(t)
                 \/ Verify(t) \/ VerifyRefuses(t) \/ Spawn(t)
                 \/ SpawnFails(t) \/ Exit(t) \/ FinalizeNode(t)
                 \/ Flush(t) \/ Raise(t) \/ Persist(t)
          PROVE  UNCHANGED rowVars
      BY <2>2
      DEF ClaimStartLost, IssueAndResume, ProfileNode, PlanNode, ExecuteNode,
          Verify, VerifyRefuses, Spawn, SpawnFails, Exit, FinalizeNode,
          Flush, Raise, Persist
    <2>3. QED BY <1>6, <2>1, <2>2 DEF Work
  <1>7. ASSUME NEW s \in Services,
               \/ TrustWorkspace(s) \/ BootDone(s) \/ Crash(s) \/ Close(s)
               \/ LeaseLapses(s) \/ \E f : Boot(s, f)
        PROVE  FALSE
    BY <1>7 DEF TrustWorkspace, BootDone, Crash, Close, LeaseLapses, Boot,
       ProcessEnds
  <1>8. ASSUME NEW t \in Workers, NEW r \in Runs, StartRequest(t, r)
        PROVE  FALSE
    BY <1>8 DEF StartRequest
  <1>9. ASSUME NEW b, Rebind(b) PROVE FALSE
    BY <1>9 DEF Rebind
  <1>10. CASE Next
    BY <1>1, <1>2, <1>5, <1>6, <1>7, <1>8, <1>9, <1>10 DEF Next, Request
  <1>11. QED BY <1>7, <1>10 DEF LapseNext, vars

\* A terminal row never changes again, in every behaviour of the service ...
THEOREM TerminalIsFinalAlways == Spec => TerminalIsFinal
  <1>1. Typed /\ [Next]_vars => [TerminalKept]_rowVars BY NextKeeps
  <1>2. QED
    BY <1>1, TypedAlways, PTL DEF Spec, TerminalIsFinal, TerminalKept

\* ... and also when processes lose the lease with requests in flight.
THEOREM TerminalIsFinalLapse == LapseSpec => TerminalIsFinal
  <1>1. Typed /\ [LapseNext]_vars => [TerminalKept]_rowVars BY NextKeeps
  <1>2. QED
    BY <1>1, TypedLapse, PTL DEF LapseSpec, TerminalIsFinal, TerminalKept

-----------------------------------------------------------------------------
(***************************************************************************)
(* Who may touch a run.  OneDriver and TransientHasOwner are not           *)
(* inductive: that no second claim can succeed rests on the row of a       *)
(* driven run carrying the status its driver claimed it with, that the     *)
(* reconciliation does not disturb such a row on there being no worker     *)
(* while a process recovers, and that on the lease.  Owned is the whole    *)
(* chain: lease, process, worker, row.                                     *)
(***************************************************************************)

Transient == {"starting", "approving"}

\* A process that is alive holds the lease.
LeaseHeld == \A s \in Services : phase[s] # "down" => lease = s

\* A thread with a request belongs to a process that has finished recovering.
WorkersUp == \A t \in Workers : pc[t] # "idle" => phase[Host[t]] = "up"

\* The row of a driven run has the status its driver claimed it with.
RowsClaimed ==
  \A t \in Workers : pc[t] \in Driving =>
    status[job[t].run] = Claimed[job[t].op]

\* A recovering process still has every transient row before it.
RecoveryListed ==
  \A s \in Services, r \in Runs :
    phase[s] = "recovering" /\ status[r] \in Transient =>
      <<r, status[r]>> \in todo[s]

\* A thread about to claim a run is starting it, one about to mark it refused
\* is declining.
OpSuits ==
  \A t \in Workers : /\ pc[t] = "claim" => job[t].op = "start"
                     /\ pc[t] = "refuse" => job[t].op = "decline"

Owned == /\ LeaseHeld /\ WorkersUp /\ RowsClaimed /\ RecoveryListed
         /\ OpSuits /\ OneDriver

\* What a step keeps: Owned, and with it TransientHasOwner unless the update
\* that releases a run is lost.
OwnedNext == Owned' /\ (TransientHasOwner => TransientHasOwner')

-----------------------------------------------------------------------------
(* Facts about one state *)

\* At most one process is alive.
LEMMA OneProcessAlive ==
  ASSUME LeaseHeld, NEW s \in Services, NEW u \in Services,
         phase[s] # "down", phase[u] # "down"
  PROVE  s = u
  BY DEF LeaseHeld

\* While a thread has a request, no process is recovering.
LEMMA NoneRecovering ==
  ASSUME LeaseHeld, WorkersUp, NEW t \in Workers, pc[t] # "idle",
         NEW s \in Services
  PROVE  phase[s] # "recovering"
  BY HostAssumption DEF LeaseHeld, WorkersUp

\* A run whose row is not transient has no driver.
LEMMA NotDriven ==
  ASSUME Typed, RowsClaimed, NEW t \in Workers, NEW r \in Runs,
         status[r] \notin Transient
  PROVE  ~Drives(t, r)
  <1>1. pc[t] \in Driving => job[t].op \in DOMAIN Claimed
    BY DEF Typed, HeldAt, Jobs, Driving
  <1>2. \A o \in DOMAIN Claimed : Claimed[o] \in Transient
    BY DEF Claimed, Transient
  <1>3. QED BY <1>1, <1>2 DEF RowsClaimed, Drives

-----------------------------------------------------------------------------
(* The kinds of steps a worker can take *)

\* The driver of a run moves on without touching a row.
DriverMoves(t) ==
  /\ pc[t] \in Driving
  /\ \E l \in Driving \ {"refuse"} : pc' = [pc EXCEPT ![t] = l]
  /\ \E j : /\ job' = [job EXCEPT ![t] = j]
            /\ j.run = job[t].run /\ j.op = job[t].op
  /\ UNCHANGED <<status, procVars>>

\* A thread takes a request to claim a run, or gives it up.
DriverIdles(t) ==
  /\ pc[t] \notin Driving
  /\ \E l \in Labels \ Driving : \E j :
       /\ pc' = [pc EXCEPT ![t] = l]
       /\ job' = [job EXCEPT ![t] = j]
       /\ l = "claim" => j.op = "start"
  /\ phase[Host[t]] = "up"
  /\ UNCHANGED <<status, procVars>>

\* A thread claims a run nobody drives.
DriverClaims(t, r, o) ==
  /\ pc[t] \notin Driving
  /\ \E l \in Driving : /\ pc' = [pc EXCEPT ![t] = l]
                        /\ l = "refuse" => o = "decline"
  /\ \E j : job' = [job EXCEPT ![t] = j] /\ j.run = r /\ j.op = o
  /\ phase[Host[t]] = "up"
  /\ status[r] \notin Transient
  /\ status' = [status EXCEPT ![r] = Claimed[o]]
  /\ UNCHANGED procVars

\* The driver of a run leaves it in a status that is not transient.
DriverReleases(t) ==
  /\ pc[t] \in Driving
  /\ Retire(t)
  /\ \E x : /\ x \notin Transient
            /\ status' = [status EXCEPT ![job[t].run] = x]
  /\ UNCHANGED procVars

LEMMA MovesOwned ==
  ASSUME Typed, Owned, NEW t \in Workers, DriverMoves(t)
  PROVE  OwnedNext
  <1>1. PICK l \in Driving \ {"refuse"} : pc' = [pc EXCEPT ![t] = l]
    BY DEF DriverMoves
  <1>2. PICK j : /\ job' = [job EXCEPT ![t] = j]
                 /\ j.run = job[t].run /\ j.op = job[t].op
    BY DEF DriverMoves
  <1>3. /\ pc \in [Workers -> Labels]
        /\ job \in [Workers -> Jobs \cup {None}]
    BY DEF Typed, TypeOK
  <1>4. /\ pc[t] \in Driving /\ UNCHANGED <<status, procVars>>
    BY DEF DriverMoves
  <1>5. \A u \in Workers :
          /\ pc'[u] \in Driving <=> pc[u] \in Driving
          /\ job'[u].run = job[u].run /\ job'[u].op = job[u].op
          /\ pc[u] = "idle" <=> pc'[u] = "idle"
    BY <1>1, <1>2, <1>3, <1>4 DEF Driving
  <1>6. \A u \in Workers, r \in Runs : Drives(u, r)' <=> Drives(u, r)
    BY <1>5 DEF Drives
  <1>7. LeaseHeld' /\ WorkersUp' /\ RecoveryListed'
    BY <1>4, <1>5 DEF Owned, LeaseHeld, WorkersUp, RecoveryListed, procVars
  <1>8. RowsClaimed' BY <1>4, <1>5 DEF Owned, RowsClaimed
  <1>9. OneDriver' BY <1>6 DEF Owned, OneDriver
  <1>10. TransientHasOwner => TransientHasOwner'
    BY <1>4, <1>6 DEF TransientHasOwner, procVars
  <1>11. OpSuits' BY <1>1, <1>3, <1>5 DEF Owned, OpSuits, Driving
  <1>12. QED BY <1>7, <1>8, <1>9, <1>10, <1>11 DEF Owned, OwnedNext

LEMMA IdlesOwned ==
  ASSUME Typed, Owned, NEW t \in Workers, DriverIdles(t)
  PROVE  OwnedNext
  <1>1. PICK l \in Labels \ Driving :
          /\ pc' = [pc EXCEPT ![t] = l]
          /\ \E j : /\ job' = [job EXCEPT ![t] = j]
                    /\ l = "claim" => j.op = "start"
    BY DEF DriverIdles
  <1>2. PICK j : /\ job' = [job EXCEPT ![t] = j]
                 /\ l = "claim" => j.op = "start"
    BY <1>1
  <1>3. /\ pc \in [Workers -> Labels]
        /\ job \in [Workers -> Jobs \cup {None}]
    BY DEF Typed, TypeOK
  <1>4. /\ pc[t] \notin Driving /\ phase[Host[t]] = "up"
        /\ UNCHANGED <<status, procVars>>
    BY DEF DriverIdles
  <1>5. \A u \in Workers :
          /\ pc'[u] \in Driving <=> pc[u] \in Driving
          /\ pc[u] \in Driving => job'[u] = job[u]
          /\ u # t => pc'[u] = pc[u]
    BY <1>1, <1>2, <1>3, <1>4
  <1>6. \A u \in Workers, r \in Runs : Drives(u, r)' <=> Drives(u, r)
    BY <1>5 DEF Drives
  <1>7. LeaseHeld' /\ WorkersUp' /\ RecoveryListed'
    BY <1>4, <1>5 DEF Owned, LeaseHeld, WorkersUp, RecoveryListed, procVars
  <1>8. RowsClaimed' BY <1>4, <1>5 DEF Owned, RowsClaimed
  <1>9. OneDriver' BY <1>6 DEF Owned, OneDriver
  <1>10. TransientHasOwner => TransientHasOwner'
    BY <1>4, <1>6 DEF TransientHasOwner, procVars
  <1>11. OpSuits'
    <2>1. l # "refuse" BY <1>1 DEF Driving, Labels
    <2>2. pc'[t] = l /\ job'[t] = j BY <1>1, <1>2, <1>3
    <2>3. \A u \in Workers : u # t => pc'[u] = pc[u] /\ job'[u] = job[u]
      BY <1>1, <1>2, <1>3
    <2>4. QED BY <1>2, <2>1, <2>2, <2>3 DEF Owned, OpSuits
  <1>12. QED BY <1>7, <1>8, <1>9, <1>10, <1>11 DEF Owned, OwnedNext

LEMMA ClaimsOwned ==
  ASSUME Typed, Owned, NEW t \in Workers, NEW r \in Runs,
         NEW o \in DOMAIN Claimed, DriverClaims(t, r, o)
  PROVE  OwnedNext
  <1>1. PICK l \in Driving : /\ pc' = [pc EXCEPT ![t] = l]
                             /\ l = "refuse" => o = "decline"
    BY DEF DriverClaims
  <1>2. PICK j : job' = [job EXCEPT ![t] = j] /\ j.run = r /\ j.op = o
    BY DEF DriverClaims
  <1>3. /\ pc \in [Workers -> Labels]
        /\ job \in [Workers -> Jobs \cup {None}]
        /\ status \in [Runs -> Statuses]
    BY DEF Typed, TypeOK
  <1>4. /\ pc[t] \notin Driving /\ phase[Host[t]] = "up"
        /\ status[r] \notin Transient
        /\ status' = [status EXCEPT ![r] = Claimed[o]]
        /\ UNCHANGED procVars
    BY DEF DriverClaims
  <1>5. \A u \in Workers : ~Drives(u, r)
    BY <1>4, NotDriven DEF Owned
  <1>6. \A u \in Workers, q \in Runs :
          Drives(u, q)' <=> IF u = t THEN q = r ELSE Drives(u, q)
    BY <1>1, <1>2, <1>3 DEF Drives
  <1>7. LeaseHeld' BY <1>4 DEF Owned, LeaseHeld, procVars
  <1>8. WorkersUp' BY <1>1, <1>3, <1>4 DEF Owned, WorkersUp, procVars
  <1>9. RowsClaimed'
    <2> SUFFICES ASSUME NEW u \in Workers, (pc[u] \in Driving)'
                 PROVE  (status[job[u].run] = Claimed[job[u].op])'
      BY DEF RowsClaimed
    <2>1. CASE u = t BY <1>2, <1>3, <1>4, <2>1
    <2>2. CASE u # t
      <3>1. pc[u] \in Driving /\ job'[u] = job[u]
        BY <1>1, <1>2, <1>3, <2>2
      <3>2. job[u].run # r BY <1>5, <3>1 DEF Drives
      <3>3. job[u].run \in Runs
        BY <3>1 DEF Typed, HeldAt, Jobs, Driving
      <3>4. QED BY <1>3, <1>4, <3>1, <3>2, <3>3 DEF Owned, RowsClaimed
    <2>3. QED BY <2>1, <2>2
  <1>10. RecoveryListed'
    <2>1. \A s \in Services : phase[s] # "recovering"
      BY <1>4, HostAssumption DEF Owned, LeaseHeld
    <2>2. QED BY <1>4, <2>1 DEF RecoveryListed, procVars
  <1>11. OneDriver' BY <1>5, <1>6 DEF Owned, OneDriver
  <1>12. TransientHasOwner => TransientHasOwner'
    <2> SUFFICES ASSUME TransientHasOwner, NEW q \in Runs, (status[q] \in Transient)'
                 PROVE  \/ \E u \in Workers : Drives(u, q)'
                        \/ \A s \in Services : phase'[s] # "up"
      BY DEF TransientHasOwner, Transient
    <2>1. CASE q = r BY <1>6, <2>1
    <2>2. CASE q # r
      <3>1. status[q] \in Transient BY <1>3, <1>4, <2>2
      <3>2. \A u \in Workers : Drives(u, q) => u # t
        BY <1>4 DEF Drives
      <3>3. QED
        BY <1>4, <1>6, <3>1, <3>2
        DEF TransientHasOwner, Transient, procVars
    <2>3. QED BY <2>1, <2>2
  <1>13. OpSuits'
    BY <1>1, <1>2, <1>3 DEF Owned, OpSuits, Driving
  <1>14. QED BY <1>7, <1>8, <1>9, <1>10, <1>11, <1>12, <1>13 DEF Owned, OwnedNext

LEMMA ReleasesOwned ==
  ASSUME Typed, Owned, NEW t \in Workers, DriverReleases(t)
  PROVE  OwnedNext
  <1> DEFINE r == job[t].run
  <1>1. PICK x : /\ x \notin Transient
                 /\ status' = [status EXCEPT ![r] = x]
    BY DEF DriverReleases
  <1>2. /\ pc \in [Workers -> Labels]
        /\ job \in [Workers -> Jobs \cup {None}]
        /\ status \in [Runs -> Statuses]
    BY DEF Typed, TypeOK
  <1>3. /\ pc[t] \in Driving /\ pc[t] # "idle" /\ UNCHANGED procVars
        /\ pc' = [pc EXCEPT ![t] = "idle"] /\ job' = [job EXCEPT ![t] = None]
    BY DEF DriverReleases, Retire, Goto, Driving
  <1>4. r \in Runs BY <1>3 DEF Typed, HeldAt, Jobs
  <1>5. \A u \in Workers : u # t => ~Drives(u, r)
    BY <1>3, <1>4 DEF Owned, OneDriver, Drives
  <1>6. \A u \in Workers, q \in Runs :
          Drives(u, q)' <=> u # t /\ Drives(u, q)
    BY <1>2, <1>3 DEF Drives, Driving
  <1>7. LeaseHeld' BY <1>3 DEF Owned, LeaseHeld, procVars
  <1>8. WorkersUp' BY <1>2, <1>3 DEF Owned, WorkersUp, procVars
  <1>9. RowsClaimed'
    <2> SUFFICES ASSUME NEW u \in Workers, (pc[u] \in Driving)'
                 PROVE  (status[job[u].run] = Claimed[job[u].op])'
      BY DEF RowsClaimed
    <2>1. u # t BY <1>2, <1>3 DEF Driving
    <2>2. pc[u] \in Driving /\ job'[u] = job[u] BY <1>2, <1>3, <2>1
    <2>3. job[u].run # r BY <1>5, <2>1, <2>2 DEF Drives
    <2>4. job[u].run \in Runs BY <2>2 DEF Typed, HeldAt, Jobs, Driving
    <2>5. QED BY <1>1, <1>2, <2>2, <2>3, <2>4 DEF Owned, RowsClaimed
  <1>10. RecoveryListed'
    <2>1. \A s \in Services : phase[s] # "recovering"
      BY <1>3, NoneRecovering DEF Owned
    <2>2. QED BY <1>3, <2>1 DEF RecoveryListed, procVars
  <1>11. OneDriver' BY <1>6 DEF Owned, OneDriver
  <1>12. TransientHasOwner => TransientHasOwner'
    <2> SUFFICES ASSUME TransientHasOwner, NEW q \in Runs, (status[q] \in Transient)'
                 PROVE  \/ \E u \in Workers : Drives(u, q)'
                        \/ \A s \in Services : phase'[s] # "up"
      BY DEF TransientHasOwner, Transient
    <2>1. q # r /\ status[q] \in Transient BY <1>1, <1>2, <1>4
    <2>2. QED
      BY <1>3, <1>6, <2>1
      DEF TransientHasOwner, Transient, Drives, procVars
  <1>13. OpSuits' BY <1>2, <1>3 DEF Owned, OpSuits
  <1>14. QED BY <1>7, <1>8, <1>9, <1>10, <1>11, <1>12, <1>13 DEF Owned, OwnedNext

-----------------------------------------------------------------------------
(* Every action of a worker is of one of these kinds. *)

\* A node's return keeps the run and the operation of the worker.
LEMMA ReturnMoves ==
  ASSUME Typed, NEW t \in Workers, NEW g, pc[t] \in Driving,
         NodeReturns(t, g), UNCHANGED <<rowVars, procVars>>
  PROVE  DriverMoves(t)
  <1> DEFINE h == [g EXCEPT !.interrupt = None]
             j == [job[t] EXCEPT !.graph = h, !.token = None, !.argv = None]
  <1>1. job[t] \in Jobs BY DEF Typed, HeldAt, Driving
  <1>2. j.run = job[t].run /\ j.op = job[t].op
    <2> HIDE DEF h
    <2>1. QED BY <1>1 DEF Jobs
  <1>3. pc' = [pc EXCEPT ![t] = "graph"] /\ job' = [job EXCEPT ![t] = j]
    BY DEF NodeReturns, Goto
  <1>4. "graph" \in Driving \ {"refuse"} BY DEF Driving, Labels
  <1> HIDE DEF j
  <1>5. QED BY <1>2, <1>3, <1>4 DEF DriverMoves, rowVars

\* Nodes, checkpoints and the runner leave the row to the end of the request.
LEMMA StepMoves ==
  ASSUME Typed, NEW t \in Workers,
         \/ IssueAndResume(t)
         \/ ProfileNode(t) \/ PlanNode(t) \/ ExecuteNode(t)
         \/ Verify(t) \/ VerifyRefuses(t) \/ Spawn(t) \/ SpawnFails(t)
         \/ Exit(t) \/ FinalizeNode(t) \/ Flush(t) \/ Raise(t)
  PROVE  DriverMoves(t)
  <1>1. pc[t] \in Driving
    BY DEF IssueAndResume, ProfileNode, PlanNode, ExecuteNode, Verify,
       VerifyRefuses, Spawn, SpawnFails, Exit, FinalizeNode, Flush, Raise,
       AtNode, Driving, Labels
  <1>2. job[t] \in Jobs BY <1>1 DEF Typed, HeldAt, Driving
  <1>3. UNCHANGED <<rowVars, procVars>>
    BY DEF IssueAndResume, ProfileNode, PlanNode, ExecuteNode, Verify,
       VerifyRefuses, Spawn, SpawnFails, Exit, FinalizeNode, Flush, Raise
  <1>4. CASE \E g : NodeReturns(t, g)
    BY <1>1, <1>3, <1>4, ReturnMoves
  <1>5. CASE /\ UNCHANGED job
             /\ \E l \in Driving \ {"refuse"} : pc' = [pc EXCEPT ![t] = l]
    <2>1. job' = [job EXCEPT ![t] = job[t]]
      BY <1>5 DEF Typed, TypeOK
    <2>2. QED BY <1>1, <1>3, <1>5, <2>1 DEF DriverMoves, rowVars
  <1>6. CASE IssueAndResume(t)
    <2> DEFINE k == [id |-> minted, digest |-> job[t].shown.digest]
               j == [job[t] EXCEPT !.graph = ckpt[job[t].run], !.token = k]
    <2>1. job' = [job EXCEPT ![t] = j] BY <1>6 DEF IssueAndResume
    <2>2. j.run = job[t].run /\ j.op = job[t].op
      <3> HIDE DEF k
      <3>1. QED BY <1>2 DEF Jobs
    <2>3. pc' = [pc EXCEPT ![t] = "graph"] /\ "graph" \in Driving \ {"refuse"}
      BY <1>6 DEF IssueAndResume, Goto, Driving, Labels
    <2> HIDE DEF j
    <2>4. QED BY <1>1, <1>3, <2>1, <2>2, <2>3 DEF DriverMoves, rowVars
  <1>7. CASE /\ Goto(t, "flush")
             /\ job' = [job EXCEPT ![t].graph.interrupt =
                          CurrentDigest(job[t].graph)]
    <2> DEFINE h == [job[t].graph EXCEPT
                       !.interrupt = CurrentDigest(job[t].graph)]
               j == [job[t] EXCEPT !.graph = h]
    <2>1. job' = [job EXCEPT ![t] = j] BY <1>7
    <2>2. j.run = job[t].run /\ j.op = job[t].op
      <3> HIDE DEF h
      <3>1. QED BY <1>2 DEF Jobs
    <2>3. pc' = [pc EXCEPT ![t] = "flush"] /\ "flush" \in Driving \ {"refuse"}
      BY <1>7 DEF Goto, Driving, Labels
    <2> HIDE DEF j
    <2>4. QED BY <1>1, <1>3, <2>1, <2>2, <2>3 DEF DriverMoves, rowVars
  <1>8. CASE Verify(t)
    <2> DEFINE d == CurrentDigest(job[t].graph)
               j == [job[t] EXCEPT !.argv = d]
    <2>1. job' = [job EXCEPT ![t] = j] BY <1>8 DEF Verify
    <2>2. j.run = job[t].run /\ j.op = job[t].op
      <3> HIDE DEF d
      <3>1. QED BY <1>2 DEF Jobs
    <2>3. pc' = [pc EXCEPT ![t] = "spawn"] /\ "spawn" \in Driving \ {"refuse"}
      BY <1>8 DEF Verify, Goto, Driving, Labels
    <2> HIDE DEF j
    <2>4. QED BY <1>1, <1>3, <2>1, <2>2, <2>3 DEF DriverMoves, rowVars
  <1>9. CASE ProfileNode(t) \/ PlanNode(t) \/ VerifyRefuses(t)
             \/ SpawnFails(t) \/ Exit(t) \/ FinalizeNode(t)
    BY <1>4, <1>9 DEF ProfileNode, PlanNode, VerifyRefuses, SpawnFails, Exit,
       FinalizeNode
  <1>10. CASE Spawn(t) \/ Flush(t) \/ Raise(t)
    BY <1>5, <1>10 DEF Spawn, Flush, Raise, Goto, Driving, Labels
  <1>11. CASE ExecuteNode(t)
    BY <1>4, <1>5, <1>7, <1>11
    DEF ExecuteNode, Goto, Driving, Labels
  <1>12. QED BY <1>6, <1>8, <1>9, <1>10, <1>11

\* The claims.
LEMMA RequestIdlesOrClaims ==
  ASSUME Typed, Owned, NEW t \in Workers,
         Request(t) \/ ClaimStart(t) \/ ClaimStartLost(t)
  PROVE  \/ DriverIdles(t)
         \/ \E r \in Runs, o \in DOMAIN Claimed : DriverClaims(t, r, o)
  <1>1. /\ "claim" \in Labels \ Driving /\ "idle" \in Labels \ Driving
        /\ {"graph", "issue", "refuse"} \subseteq Driving
    BY DEF Driving, Labels
  <1>2. ASSUME NEW r \in Runs, StartRequest(t, r)
        PROVE  DriverIdles(t)
    <2> DEFINE j == Job("start", r, None, None)
    <2>1. j.op = "start" BY DEF Job
    <2>2. job' = [job EXCEPT ![t] = j] BY <1>2 DEF StartRequest
    <2> HIDE DEF j
    <2>3. QED
      BY <1>1, <1>2, <2>1, <2>2 DEF StartRequest, DriverIdles, Goto, rowVars,
         Driving
  <1>3. ASSUME NEW r \in Runs, NEW c, NEW o \in {"approve", "decline"},
               ClaimPending(t, r, c, o)
        PROVE  DriverClaims(t, r, o)
    <2> DEFINE j == Job(o, r, None, c)
    <2>1. Claimed[o] = "approving" BY DEF Claimed
    <2>2. j.run = r /\ j.op = o BY DEF Job
    <2>3. job' = [job EXCEPT ![t] = j] BY <1>3 DEF ClaimPending
    <2>4. \E l \in Driving : /\ pc' = [pc EXCEPT ![t] = l]
                             /\ l = "refuse" => o = "decline"
      BY <1>1, <1>3 DEF ClaimPending, Goto
    <2>5. status[r] \notin Transient BY <1>3 DEF ClaimPending, Transient
    <2> HIDE DEF j
    <2>6. QED
      BY <1>1, <1>3, <2>1, <2>2, <2>3, <2>4, <2>5
      DEF ClaimPending, DriverClaims
  <1>4. CASE ClaimStart(t) \/ ClaimStartLost(t)
    <2>1. pc[t] = "claim" /\ phase[Host[t]] = "up"
      BY <1>4 DEF ClaimStart, ClaimStartLost, Owned, WorkersUp
    <2>2. CASE ClaimStartLost(t)
      BY <1>1, <2>1, <2>2 DEF ClaimStartLost, DriverIdles, Retire, Goto,
         rowVars
    <2>3. CASE ClaimStart(t)
      <3>1. job[t] \in Jobs BY <2>1 DEF Typed, HeldAt
      <3>2. PICK r, j :
              /\ r \in Runs /\ r = job[t].run
              /\ j = [job[t] EXCEPT !.graph = InitialGraph]
        BY <3>1 DEF Jobs
      <3>3. j.run = r /\ j.op = "start"
        BY <2>1, <3>1, <3>2 DEF Jobs, Owned, OpSuits
      <3>4. /\ job' = [job EXCEPT ![t] = j]
            /\ pc' = [pc EXCEPT ![t] = "graph"]
            /\ status[r] = "planned" /\ UNCHANGED procVars
            /\ status' = [status EXCEPT ![r] = "starting"]
        BY <2>3, <3>2 DEF ClaimStart, Claimable, Goto
      <3>5. Claimed["start"] = "starting" /\ "start" \in DOMAIN Claimed
        BY DEF Claimed
      <3>6. pc[t] \notin Driving BY <2>1 DEF Driving
      <3>7. status[r] \notin Transient BY <3>4 DEF Transient
      <3>8. DriverClaims(t, r, "start")
        BY <1>1, <2>1, <3>3, <3>4, <3>5, <3>6, <3>7 DEF DriverClaims
      <3>9. QED BY <3>2, <3>5, <3>8
    <2>4. QED BY <1>4, <2>2, <2>3
  <1>5. {"approve", "decline"} \subseteq DOMAIN Claimed BY DEF Claimed
  <1>6. QED BY <1>2, <1>3, <1>4, <1>5 DEF Request

\* The releases: a result of invoke is terminal or waiting, and the row still
\* has the status the worker expects.
LEMMA RequestReleases ==
  ASSUME Typed, Owned, NEW t \in Workers,
         Record(t) \/ MarkFailed(t) \/ Decline(t)
  PROVE  DriverReleases(t)
  <1> DEFINE r == job[t].run
             e == Claimed[job[t].op]
  <1>1. pc[t] \in Driving /\ Retire(t) /\ UNCHANGED procVars
    BY DEF Record, MarkFailed, Decline, Driving, Labels
  <1>2. status[r] = e BY <1>1 DEF Owned, RowsClaimed
  <1>3. CASE Record(t)
    <2> DEFINE g == job[t].graph
    <2>1. WellFormed(g) /\ Returnable(g)
      BY <1>3, GraphTyped DEF Record, HeldAt
    <2>2. ResultStatus(g) \notin Transient
      BY <2>1 DEF ResultStatus, Returnable, Transient, Terminal
    <2>3. status' = [status EXCEPT ![r] = ResultStatus(g)]
      BY <1>2, <1>3 DEF Record, UpdateFromResult
    <2>4. QED BY <1>1, <2>2, <2>3 DEF DriverReleases
  <1>4. CASE MarkFailed(t)
    <2>1. status' = [status EXCEPT ![r] = "failed"]
      BY <1>2, <1>4 DEF MarkFailed, MarkTerminal
    <2>2. QED BY <1>1, <2>1 DEF DriverReleases, Transient
  <1>5. CASE Decline(t)
    <2>1. \/ status' = [status EXCEPT ![r] = "refused"]
          \/ status[r] # "approving" /\ UNCHANGED status
      BY <1>5 DEF Decline, MarkTerminal, rowVars
    <2>2. CASE status' = [status EXCEPT ![r] = "refused"]
      BY <1>1, <2>2 DEF DriverReleases, Transient
    <2>3. CASE status[r] # "approving" /\ UNCHANGED status
      BY <1>5, <1>2, <2>3 DEF Decline, Owned, OpSuits, Claimed
    <2>4. QED BY <2>1, <2>2, <2>3
  <1>6. QED BY <1>3, <1>4, <1>5

LEMMA WorkerOwned ==
  ASSUME Typed, Owned, NEW t \in Workers, Request(t) \/ Work(t)
  PROVE  OwnedNext
  <1>1. CASE Request(t) \/ ClaimStart(t) \/ ClaimStartLost(t)
    BY <1>1, RequestIdlesOrClaims, IdlesOwned, ClaimsOwned
  <1>2. CASE Record(t) \/ MarkFailed(t) \/ Decline(t)
    BY <1>2, RequestReleases, ReleasesOwned
  <1>3. ASSUME Work(t),
               ~(ClaimStart(t) \/ ClaimStartLost(t)),
               ~(Record(t) \/ MarkFailed(t) \/ Decline(t))
        PROVE  OwnedNext
    BY <1>3, StepMoves, MovesOwned DEF Work
  <1>4. QED BY <1>1, <1>2, <1>3

-----------------------------------------------------------------------------
(* Steps of processes *)

\* Steps that touch neither status, process nor worker.
LEMMA StutterOwned ==
  ASSUME Owned, UNCHANGED <<status, procVars, pc, job>>
  PROVE  OwnedNext
  BY DEF Owned, OwnedNext, LeaseHeld, WorkersUp, RowsClaimed, RecoveryListed,
     OpSuits, OneDriver, TransientHasOwner, Drives, procVars

LEMMA CreateOwned ==
  ASSUME Typed, Owned, NEW s \in Services, NEW r \in Runs, NEW level,
         CreateRun(s, r, level)
  PROVE  OwnedNext
  <1>1. /\ status[r] \notin Transient
        /\ status' = [status EXCEPT ![r] = "planned"]
        /\ phase[s] = "up"
        /\ UNCHANGED <<procVars, pc, job>>
    BY DEF CreateRun, Transient
  <1>2. status \in [Runs -> Statuses] BY DEF Typed, TypeOK
  <1>3. \A t \in Workers : ~Drives(t, r) BY <1>1, NotDriven DEF Owned
  <1>4. LeaseHeld' /\ WorkersUp' /\ OpSuits' /\ OneDriver'
    BY <1>1 DEF Owned, LeaseHeld, WorkersUp, OpSuits, OneDriver, Drives,
       procVars
  <1>5. RowsClaimed'
    <2> SUFFICES ASSUME NEW t \in Workers, pc[t] \in Driving
                 PROVE  status'[job[t].run] = Claimed[job[t].op]
      BY <1>1 DEF RowsClaimed
    <2>1. job[t].run \in Runs BY DEF Typed, HeldAt, Jobs, Driving
    <2>2. job[t].run # r BY <1>3 DEF Drives
    <2>3. QED BY <1>1, <1>2, <2>1, <2>2 DEF Owned, RowsClaimed
  <1>6. \A q \in Runs :
          status'[q] \in Transient => q # r /\ status'[q] = status[q]
    BY <1>1, <1>2 DEF Transient
  <1>7. RecoveryListed' BY <1>1, <1>6 DEF Owned, RecoveryListed, procVars
  <1>8. TransientHasOwner => TransientHasOwner'
    BY <1>1, <1>6 DEF TransientHasOwner, Transient, Drives, procVars
  <1>9. QED BY <1>4, <1>5, <1>7, <1>8 DEF Owned, OwnedNext

\* A reconciled row is no longer transient, or was not the one listed.
LEMMA ReconcileOwned ==
  ASSUME Typed, Owned, NEW s \in Services, Reconcile(s)
  PROVE  OwnedNext
  <1>1. PICK row \in todo[s] :
          \/ ReconcileRun(s, row[1], row[2])
          \/ ReconcileRaises(s, row[1], row[2])
    BY DEF Reconcile
  <1>2. PICK r \in Runs, e \in Incomplete : row = <<r, e>>
    BY DEF Typed, TypeOK
  <1>3. /\ phase[s] = "recovering"
        /\ todo' = [todo EXCEPT ![s] = @ \ {<<r, e>>}]
        /\ UNCHANGED <<lease, phase, config, pc, job>>
    BY <1>1, <1>2 DEF ReconcileRun, ReconcileRaises
  <1>4. /\ status \in [Runs -> Statuses]
        /\ todo \in [Services -> SUBSET (Runs \X Incomplete)]
    BY DEF Typed, TypeOK
  <1>5. \/ UNCHANGED status /\ status[r] # e
        \/ \E x : x \notin Transient /\ status' = [status EXCEPT ![r] = x]
    <2>1. CASE MarkTerminal(r, e, "failed")
      BY <2>1 DEF MarkTerminal, rowVars, Transient
    <2>2. CASE /\ UpdateFromResult(r, e, ckpt[r])
               /\ ResultStatus(ckpt[r]) \in
                    Terminal \cup {"waiting_for_approval"}
      <3>1. ResultStatus(ckpt[r]) \notin Transient
        BY <2>2 DEF Terminal, Transient
      <3>2. QED BY <2>2, <3>1 DEF UpdateFromResult, rowVars
    <2>3. QED BY <1>1, <1>2, <2>1, <2>2 DEF ReconcileRun, ReconcileRaises
  <1>6. \A t \in Workers : pc[t] = "idle"
    BY <1>3, NoneRecovering DEF Owned
  <1>7. /\ LeaseHeld' /\ WorkersUp' /\ RowsClaimed' /\ OpSuits' /\ OneDriver'
    BY <1>3, <1>6 DEF Owned, LeaseHeld, WorkersUp, RowsClaimed, OpSuits,
       OneDriver, Drives, Driving
  <1>8. \A q \in Runs : status'[q] \in Transient =>
          status'[q] = status[q] /\ <<q, status[q]>> # <<r, e>>
    BY <1>4, <1>5
  <1>9. RecoveryListed'
    <2> SUFFICES ASSUME NEW u \in Services, NEW q \in Runs,
                        phase[u] = "recovering", status'[q] \in Transient
                 PROVE  <<q, status'[q]>> \in todo'[u]
      BY <1>3 DEF RecoveryListed
    <2>1. <<q, status[q]>> \in todo[u] BY <1>8 DEF Owned, RecoveryListed
    <2>2. QED BY <1>3, <1>4, <1>8, <2>1
  <1>10. TransientHasOwner'
    <2>1. \A u \in Services : phase[u] # "up"
      BY <1>3, OneProcessAlive DEF Owned
    <2>2. QED BY <1>3, <2>1 DEF TransientHasOwner
  <1>11. QED BY <1>7, <1>9, <1>10 DEF Owned, OwnedNext

LEMMA BootOwned ==
  ASSUME Typed, Owned, NEW s \in Services, NEW f, Boot(s, f)
  PROVE  OwnedNext
  <1>1. /\ lease = None /\ lease' = s
        /\ phase' = [phase EXCEPT ![s] = "recovering"]
        /\ todo' = [todo EXCEPT ![s] = {<<r, status[r]>> : r \in Unfinished}]
        /\ UNCHANGED <<status, pc, job>>
    BY DEF Boot, LeaseFree, rowVars
  <1>2. /\ phase \in [Services -> {"down", "recovering", "up"}]
        /\ todo \in [Services -> SUBSET (Runs \X Incomplete)]
    BY DEF Typed, TypeOK
  <1>3. \A u \in Services : phase[u] = "down"
    BY <1>1, NoneAssumption DEF Owned, LeaseHeld
  <1>4. \A t \in Workers : pc[t] = "idle"
    BY <1>3, HostAssumption DEF Owned, WorkersUp
  <1>5. LeaseHeld' BY <1>1, <1>2, <1>3 DEF LeaseHeld
  <1>6. WorkersUp' /\ RowsClaimed' /\ OpSuits' /\ OneDriver'
    BY <1>1, <1>4 DEF WorkersUp, RowsClaimed, OpSuits, OneDriver, Drives,
       Driving
  <1>7. RecoveryListed'
    <2> SUFFICES ASSUME NEW u \in Services, NEW q \in Runs,
                        phase'[u] = "recovering", status[q] \in Transient
                 PROVE  <<q, status[q]>> \in todo'[u]
      BY <1>1 DEF RecoveryListed
    <2>1. u = s BY <1>1, <1>2, <1>3
    <2>2. q \in Unfinished BY DEF Unfinished, Incomplete, Transient
    <2>3. QED BY <1>1, <1>2, <2>1, <2>2
  <1>8. TransientHasOwner'
    BY <1>1, <1>2, <1>3 DEF TransientHasOwner
  <1>9. QED BY <1>5, <1>6, <1>7, <1>8 DEF Owned, OwnedNext

\* A process that has worked through its list leaves no transient row behind.
LEMMA BootDoneOwned ==
  ASSUME Typed, Owned, NEW s \in Services, BootDone(s)
  PROVE  OwnedNext
  <1>1. /\ phase[s] = "recovering" /\ todo[s] = {}
        /\ phase' = [phase EXCEPT ![s] = "up"]
        /\ UNCHANGED <<status, lease, todo, pc, job>>
    BY DEF BootDone, rowVars
  <1>2. phase \in [Services -> {"down", "recovering", "up"}]
    BY DEF Typed, TypeOK
  <1>3. \A q \in Runs : status[q] \notin Transient
    BY <1>1 DEF Owned, RecoveryListed
  <1>4. \A t \in Workers : pc[t] = "idle"
    BY <1>1, NoneRecovering DEF Owned
  <1>5. LeaseHeld' BY <1>1, <1>2 DEF Owned, LeaseHeld
  <1>6. WorkersUp' /\ RowsClaimed' /\ OpSuits' /\ OneDriver'
    BY <1>1, <1>4 DEF WorkersUp, RowsClaimed, OpSuits, OneDriver, Drives,
       Driving
  <1>7. RecoveryListed' /\ TransientHasOwner'
    BY <1>1, <1>3 DEF RecoveryListed, TransientHasOwner, Transient
  <1>8. QED BY <1>5, <1>6, <1>7 DEF Owned, OwnedNext

\* The one process alive is gone, and every worker with it.
LEMMA EndOwned ==
  ASSUME Typed, Owned, NEW s \in Services, phase[s] # "down", ProcessEnds(s)
  PROVE  OwnedNext
  <1>1. /\ phase' = [phase EXCEPT ![s] = "down"]
        /\ pc' = [t \in Workers |-> IF Host[t] = s THEN "idle" ELSE pc[t]]
        /\ UNCHANGED status
    BY DEF ProcessEnds, rowVars
  <1>2. phase \in [Services -> {"down", "recovering", "up"}]
    BY DEF Typed, TypeOK
  <1>3. \A u \in Services : phase'[u] = "down"
    BY <1>1, <1>2, OneProcessAlive DEF Owned
  <1>4. \A t \in Workers : pc'[t] = "idle"
    <2> SUFFICES ASSUME NEW t \in Workers PROVE pc'[t] = "idle"
      OBVIOUS
    <2>1. CASE Host[t] = s BY <1>1, <2>1
    <2>2. CASE Host[t] # s
      <3>1. Host[t] \in Services BY HostAssumption
      <3>2. phase[Host[t]] # "up"
        BY <2>2, <3>1, OneProcessAlive DEF Owned
      <3>3. pc[t] = "idle" BY <3>2 DEF Owned, WorkersUp
      <3>4. QED BY <1>1, <3>3
    <2>3. QED BY <2>1, <2>2
  <1>5. QED
    BY <1>3, <1>4 DEF Owned, OwnedNext, LeaseHeld, WorkersUp, RowsClaimed,
       RecoveryListed, OpSuits, OneDriver, TransientHasOwner, Drives, Driving

\* A lost update leaves the row of a run that has no driver any more.
LEMMA LostOwned ==
  ASSUME Typed, Owned, NEW t \in Workers, StoreRaises(t)
  PROVE  Owned'
  <1>1. /\ pc' = [pc EXCEPT ![t] = "idle"] /\ job' = [job EXCEPT ![t] = None]
        /\ UNCHANGED <<status, procVars>>
    BY DEF StoreRaises, Retire, Goto, rowVars
  <1>2. /\ pc \in [Workers -> Labels]
        /\ job \in [Workers -> Jobs \cup {None}]
    BY DEF Typed, TypeOK
  <1>3. \A u \in Workers :
          /\ pc'[u] # "idle" => pc'[u] = pc[u] /\ job'[u] = job[u]
    BY <1>1, <1>2
  <1>4. "idle" \notin Driving BY DEF Driving
  <1>5. LeaseHeld' /\ RecoveryListed' /\ WorkersUp'
    BY <1>1, <1>3 DEF Owned, LeaseHeld, RecoveryListed, WorkersUp, procVars
  <1>6. RowsClaimed' /\ OpSuits'
    BY <1>1, <1>3, <1>4 DEF Owned, RowsClaimed, OpSuits
  <1>7. OneDriver' BY <1>3, <1>4 DEF Owned, OneDriver, Drives
  <1>8. QED BY <1>5, <1>6, <1>7 DEF Owned

-----------------------------------------------------------------------------
(* The theorems *)

LEMMA InitOwned == Init => Owned /\ TransientHasOwner
  BY DEF Init, Owned, LeaseHeld, WorkersUp, RowsClaimed, RecoveryListed,
     OpSuits, OneDriver, TransientHasOwner, Drives, Driving

LEMMA NextOwned == Typed /\ Owned /\ [Next]_vars => OwnedNext
  <1> SUFFICES ASSUME Typed, Owned, [Next]_vars PROVE OwnedNext
    OBVIOUS
  <1>1. CASE UNCHANGED vars
    BY <1>1, StutterOwned DEF vars, rowVars
  <1>2. ASSUME NEW s \in Services, NEW r \in Runs, NEW level \in Levels,
               CreateRun(s, r, level)
        PROVE  OwnedNext
    BY <1>2, CreateOwned
  <1>3. ASSUME NEW s \in Services, TrustWorkspace(s) PROVE OwnedNext
    BY <1>3, StutterOwned DEF TrustWorkspace, rowVars
  <1>4. ASSUME NEW t \in Workers, Request(t) \/ Work(t) PROVE OwnedNext
    BY <1>4, WorkerOwned
  <1>5. ASSUME NEW t \in Workers, Persist(t) PROVE OwnedNext
    BY <1>5, StutterOwned DEF Persist, rowVars
  <1>6. ASSUME NEW s \in Services, NEW f \in Fingerprints, Boot(s, f)
        PROVE  OwnedNext
    BY <1>6, BootOwned
  <1>7. ASSUME NEW s \in Services, Reconcile(s) \/ BootDone(s) PROVE OwnedNext
    BY <1>7, ReconcileOwned, BootDoneOwned
  <1>8. ASSUME NEW s \in Services, Crash(s) \/ Close(s) PROVE OwnedNext
    BY <1>8, EndOwned DEF Crash, Close
  <1>9. ASSUME NEW b \in Binaries \cup {None}, Rebind(b) PROVE OwnedNext
    BY <1>9, StutterOwned DEF Rebind, rowVars
  <1>10. QED
    BY <1>1, <1>2, <1>3, <1>4, <1>5, <1>6, <1>7, <1>8, <1>9 DEF Next

LEMMA StoreOwned ==
  Typed /\ Owned /\ [Next \/ \E t \in Workers : StoreRaises(t)]_vars => Owned'
  BY NextOwned, LostOwned DEF OwnedNext

THEOREM OwnedAlways == Spec => [](Owned /\ TransientHasOwner)
  <1>1. Typed /\ (Owned /\ TransientHasOwner) /\ [Next]_vars
          => (Owned /\ TransientHasOwner)'
    BY NextOwned DEF OwnedNext
  <1>2. QED BY <1>1, InitOwned, TypedAlways, PTL DEF Spec

THEOREM OwnedStore == StoreSpec => []Owned
  <1>1. Typed /\ Owned /\ [Next \/ \E t \in Workers : StoreRaises(t)]_vars
          => Owned'
    BY StoreOwned
  <1>2. QED BY <1>1, InitOwned, TypedStore, PTL DEF StoreSpec

\* Two requests never drive the same run at once, in every behaviour of the
\* service, and whether or not updates of the run store are lost.
THEOREM OneDriverAlways == Spec => []OneDriver
  <1>1. Owned => OneDriver BY DEF Owned
  <1>2. QED BY <1>1, OwnedAlways, PTL

THEOREM OneDriverStore == StoreSpec => []OneDriver
  <1>1. Owned => OneDriver BY DEF Owned
  <1>2. QED BY <1>1, OwnedStore, PTL

\* No row is stranded in a transient status while a process is up.
THEOREM TransientHasOwnerAlways == Spec => []TransientHasOwner
  BY OwnedAlways, PTL

\* What RestartHeals says of one step.
Heals ==
  \A s \in Services : phase[s] = "recovering" /\ phase'[s] = "up" =>
    \A r \in Runs : status[r] \notin {"starting", "approving"}

\* Only the end of a recovery makes a process available.
LEMMA StoreHeals ==
  ASSUME Typed, Owned, [Next \/ \E t \in Workers : StoreRaises(t)]_vars
  PROVE  [Heals]_phase
  <1> SUFFICES ASSUME NEW s \in Services, NEW r \in Runs,
                      phase[s] = "recovering", phase'[s] = "up"
               PROVE  status[r] \notin Transient
    BY DEF Heals, Transient
  <1>1. phase \in [Services -> {"down", "recovering", "up"}]
    BY DEF Typed, TypeOK
  <1>2. phase' # phase BY <1>1
  <1>3. PICK u \in Services : \/ BootDone(u) \/ ProcessEnds(u)
                              \/ \E f : Boot(u, f)
    <2>1. ASSUME NEW t \in Workers, Work(t) PROVE phase' = phase
      BY <2>1 DEF Work, procVars, ClaimStart, ClaimStartLost, IssueAndResume,
         Decline, ProfileNode, PlanNode, ExecuteNode, Verify, VerifyRefuses,
         Spawn, SpawnFails, Exit, FinalizeNode, Flush, Record, Raise,
         MarkFailed
    <2>2. ASSUME NEW t \in Workers, Request(t) PROVE phase' = phase
      BY <2>2 DEF Request, StartRequest, ClaimPending, procVars
    <2>3. ASSUME NEW t \in Workers, Persist(t) \/ StoreRaises(t)
          PROVE  phase' = phase
      BY <2>3 DEF Persist, StoreRaises, procVars
    <2>4. ASSUME NEW u \in Services, Reconcile(u) PROVE phase' = phase
      BY <2>4 DEF Reconcile, ReconcileRun, ReconcileRaises
    <2>5. ASSUME NEW u \in Services,
                 \/ TrustWorkspace(u)
                 \/ \E q \in Runs, level \in Levels : CreateRun(u, q, level)
          PROVE  phase' = phase
      BY <2>5 DEF TrustWorkspace, CreateRun, procVars
    <2>6. ASSUME NEW b, Rebind(b) PROVE phase' = phase
      BY <2>6 DEF Rebind, procVars
    <2>7. UNCHANGED vars => phase' = phase BY DEF vars, procVars
    <2>8. CASE Next
      BY <1>2, <2>1, <2>2, <2>3, <2>4, <2>5, <2>6, <2>8
      DEF Next, Crash, Close
    <2>9. QED BY <1>2, <2>3, <2>7, <2>8
  <1>4. BootDone(u) /\ u = s
    BY <1>1, <1>3 DEF BootDone, ProcessEnds, Boot
  <1>5. QED BY <1>4 DEF BootDone, Owned, RecoveryListed

\* Every restart leaves the rows without a transient status.
THEOREM RestartHealsStore == StoreSpec => RestartHeals
  <1>1. Typed /\ Owned /\ [Next \/ \E t \in Workers : StoreRaises(t)]_vars
          => [Heals]_phase
    BY StoreHeals
  <1>2. QED
    BY <1>1, OwnedStore, TypedStore, PTL DEF StoreSpec, RestartHeals, Heals

-----------------------------------------------------------------------------
(* What an action makes of the worker that takes it *)

\* Worker t is now at label l with memory j, and every other is as it was.
Acts(t, l, j) ==
  /\ pc'[t] = l /\ job'[t] = j
  /\ \A u \in Workers \ {t} : pc'[u] = pc[u] /\ job'[u] = job[u]

\* A worker's memory, field by field.
Memory(o, r, g, k, a, c) ==
  [op |-> o, run |-> r, graph |-> g, token |-> k, argv |-> a, shown |-> c]

\* Replacing fields of a worker's memory, one by one and together.
LEMMA OneField ==
  ASSUME NEW j \in Jobs, NEW g \in GraphStates, NEW k \in Tokens \cup {None},
         NEW a \in Digests \cup {None}
  PROVE  /\ [j EXCEPT !.graph = g]
              = Memory(j.op, j.run, g, j.token, j.argv, j.shown)
         /\ [j EXCEPT !.token = k]
              = Memory(j.op, j.run, j.graph, k, j.argv, j.shown)
         /\ [j EXCEPT !.argv = a]
              = Memory(j.op, j.run, j.graph, j.token, a, j.shown)
         /\ [j EXCEPT !.graph = g] \in Jobs
         /\ [j EXCEPT !.token = k] \in Jobs
         /\ [j EXCEPT !.argv = a] \in Jobs
  <1>1. /\ [j EXCEPT !.graph = g]
             = Memory(j.op, j.run, g, j.token, j.argv, j.shown)
        /\ [j EXCEPT !.token = k]
             = Memory(j.op, j.run, j.graph, k, j.argv, j.shown)
        /\ [j EXCEPT !.argv = a]
             = Memory(j.op, j.run, j.graph, j.token, a, j.shown)
    BY DEF Memory, Jobs
  <1>2. /\ Memory(j.op, j.run, g, j.token, j.argv, j.shown) \in Jobs
        /\ Memory(j.op, j.run, j.graph, k, j.argv, j.shown) \in Jobs
        /\ Memory(j.op, j.run, j.graph, j.token, a, j.shown) \in Jobs
    BY DEF Memory, Jobs
  <1>3. QED BY <1>1, <1>2, Zenon

LEMMA SetFields ==
  ASSUME NEW j \in Jobs, NEW g \in GraphStates, NEW k \in Tokens \cup {None},
         NEW a \in Digests \cup {None}
  PROVE  /\ [j EXCEPT !.graph = g, !.token = k]
              = Memory(j.op, j.run, g, k, j.argv, j.shown)
         /\ [j EXCEPT !.graph = g, !.token = k, !.argv = a]
              = Memory(j.op, j.run, g, k, a, j.shown)
  <1> DEFINE j1 == [j EXCEPT !.graph = g]
             j2 == [j1 EXCEPT !.token = k]
             j3 == [j2 EXCEPT !.argv = a]
  <1>1. j1 = Memory(j.op, j.run, g, j.token, j.argv, j.shown) /\ j1 \in Jobs
    BY OneField
  <1>2. /\ [j EXCEPT !.graph = g, !.token = k] = j2
        /\ [j EXCEPT !.graph = g, !.token = k, !.argv = a] = j3
    OBVIOUS
  <1>3. /\ j1.op = j.op /\ j1.run = j.run /\ j1.graph = g
        /\ j1.argv = j.argv /\ j1.shown = j.shown
    <2> HIDE DEF j1
    <2> QED BY <1>1 DEF Memory
  <1> HIDE DEF j1
  <1>4. /\ j2 = Memory(j1.op, j1.run, j1.graph, k, j1.argv, j1.shown)
        /\ j2 \in Jobs
    BY <1>1, OneField
  <1>5. /\ j2.op = j.op /\ j2.run = j.run /\ j2.graph = g /\ j2.token = k
        /\ j2.shown = j.shown
    <2> HIDE DEF j2
    <2> QED BY <1>3, <1>4 DEF Memory
  <1> HIDE DEF j2
  <1>6. j3 = Memory(j2.op, j2.run, j2.graph, j2.token, a, j2.shown)
    BY <1>4, OneField
  <1>7. QED BY <1>2, <1>3, <1>4, <1>5, <1>6 DEF Memory

LEMMA MoveActs ==
  ASSUME Typed, NEW t \in Workers, NEW l, NEW j,
         pc' = [pc EXCEPT ![t] = l], job' = [job EXCEPT ![t] = j]
  PROVE  Acts(t, l, j)
  BY DEF Typed, TypeOK, Acts

\* A move that leaves the memory of the worker alone.
LEMMA GotoActs ==
  ASSUME Typed, NEW t \in Workers, NEW l, Goto(t, l), UNCHANGED job
  PROVE  Acts(t, l, job[t])
  BY DEF Typed, TypeOK, Acts, Goto

LEMMA RetireActs ==
  ASSUME Typed, NEW t \in Workers, Retire(t)
  PROVE  Acts(t, "idle", None)
  BY MoveActs DEF Retire, Goto

LEMMA ReturnActs ==
  ASSUME Typed, NEW t \in Workers, pc[t] # "idle", NEW g, WellFormed(g),
         NodeReturns(t, g)
  PROVE  Acts(t, "graph",
              Memory(job[t].op, job[t].run, [g EXCEPT !.interrupt = None],
                     None, None, job[t].shown))
  <1> DEFINE h == [g EXCEPT !.interrupt = None]
             j == [job[t] EXCEPT !.graph = h, !.token = None, !.argv = None]
  <1>1. job[t] \in Jobs BY DEF Typed, HeldAt
  <1>2. pc' = [pc EXCEPT ![t] = "graph"] /\ job' = [job EXCEPT ![t] = j]
    BY DEF NodeReturns, Goto
  <1>3. h \in GraphStates BY DEF WellFormed, GraphStates
  <1> HIDE DEF h
  <1>4. j = Memory(job[t].op, job[t].run, h, None, None, job[t].shown)
    BY <1>1, <1>3, SetFields
  <1> HIDE DEF j
  <1>5. QED BY <1>2, <1>4, MoveActs DEF h

LEMMA StartActs ==
  ASSUME Typed, NEW t \in Workers, NEW r \in Runs, StartRequest(t, r)
  PROVE  Acts(t, "claim", Memory("start", r, None, None, None, None))
  BY MoveActs DEF StartRequest, Goto, Job, Memory

LEMMA ClaimActs ==
  ASSUME Typed, NEW t \in Workers, NEW r \in Runs, NEW c, NEW o,
         ClaimPending(t, r, c, o)
  PROVE  Acts(t, IF o = "approve" THEN "issue" ELSE "refuse",
              Memory(o, r, None, None, None, c))
  BY MoveActs DEF ClaimPending, Goto, Job, Memory

LEMMA ClaimStartActs ==
  ASSUME Typed, NEW t \in Workers, ClaimStart(t)
  PROVE  Acts(t, "graph",
              Memory(job[t].op, job[t].run, InitialGraph, job[t].token,
                     job[t].argv, job[t].shown))
  <1> DEFINE j == [job[t] EXCEPT !.graph = InitialGraph]
  <1>1. job[t] \in Jobs BY DEF Typed, HeldAt, ClaimStart
  <1>2. j = Memory(job[t].op, job[t].run, InitialGraph, job[t].token,
                   job[t].argv, job[t].shown)
    BY <1>1 DEF Jobs, Memory
  <1>3. pc' = [pc EXCEPT ![t] = "graph"] /\ job' = [job EXCEPT ![t] = j]
    BY DEF ClaimStart, Goto
  <1> HIDE DEF j
  <1>4. QED BY <1>2, <1>3, MoveActs

\* The capability issued for the challenge a worker has in memory.
Issued(t) == [id |-> minted, digest |-> job[t].shown.digest]

LEMMA IssueActs ==
  ASSUME Typed, NEW t \in Workers, IssueAndResume(t)
  PROVE  Acts(t, "graph",
              Memory(job[t].op, job[t].run, ckpt[job[t].run], Issued(t),
                     job[t].argv, job[t].shown))
  <1> DEFINE g == ckpt[job[t].run]
             j == [job[t] EXCEPT !.graph = g, !.token = Issued(t)]
  <1>1. job[t] \in Jobs /\ job[t].shown \in Challenges
    BY DEF Typed, HeldAt, IssueAndResume
  <1>2. g \in GraphStates
    BY <1>1 DEF IssueAndResume, Typed, WellFormed, Jobs
  <1>3. Issued(t) \in Tokens
    BY <1>1 DEF Issued, Tokens, Challenges, Typed, TypeOK
  <1>4. pc' = [pc EXCEPT ![t] = "graph"] /\ job' = [job EXCEPT ![t] = j]
    BY DEF IssueAndResume, Goto, Issued
  <1> HIDE DEF g
  <1>5. j = Memory(job[t].op, job[t].run, g, Issued(t), job[t].argv,
                   job[t].shown)
    BY <1>1, <1>2, <1>3, SetFields
  <1> HIDE DEF j
  <1>6. QED BY <1>4, <1>5, MoveActs DEF g

\* The graph of a worker stopped at the action it is at.
Stopped(g) == [g EXCEPT !.interrupt = CurrentDigest(g)]

LEMMA StopActs ==
  ASSUME Typed, NEW t \in Workers, pc[t] # "idle", Goto(t, "flush"),
         job' = [job EXCEPT ![t].graph.interrupt = CurrentDigest(job[t].graph)]
  PROVE  Acts(t, "flush",
              Memory(job[t].op, job[t].run, Stopped(job[t].graph),
                     job[t].token, job[t].argv, job[t].shown))
  <1> DEFINE h == Stopped(job[t].graph)
             j == [job[t] EXCEPT !.graph = h]
  <1>1. job[t] \in Jobs BY DEF Typed, HeldAt
  <1>2. job' = [job EXCEPT ![t] = j] BY DEF Stopped
  <1> HIDE DEF h
  <1>3. j = Memory(job[t].op, job[t].run, h, job[t].token, job[t].argv,
                   job[t].shown)
    BY <1>1 DEF Jobs, Memory
  <1> HIDE DEF j
  <1>4. QED BY <1>2, <1>3, MoveActs DEF Goto, h

LEMMA VerifyActs ==
  ASSUME Typed, NEW t \in Workers, Verify(t)
  PROVE  Acts(t, "spawn",
              Memory(job[t].op, job[t].run, job[t].graph, job[t].token,
                     CurrentDigest(job[t].graph), job[t].shown))
  <1> DEFINE d == CurrentDigest(job[t].graph)
             j == [job[t] EXCEPT !.argv = d]
  <1>1. job[t] \in Jobs BY DEF Typed, HeldAt, Verify
  <1>2. job' = [job EXCEPT ![t] = j] /\ pc' = [pc EXCEPT ![t] = "spawn"]
    BY DEF Verify, Goto
  <1> HIDE DEF d
  <1>3. j = Memory(job[t].op, job[t].run, job[t].graph, job[t].token, d,
                   job[t].shown)
    BY <1>1 DEF Jobs, Memory
  <1> HIDE DEF j
  <1>4. QED BY <1>2, <1>3, MoveActs DEF d

-----------------------------------------------------------------------------
(* Governed: trust, autonomy level and the shape of a graph *)

GraphLabels == {"graph", "verify", "spawn", "wait", "flush", "record"}

\* A worker at label l with memory j has graph values of its run: those of
\* the invocation it drives, or of the one that has just raised.
HasGraph(l, j) == \/ l \in GraphLabels
                  \/ l = "fail" /\ j.graph # None

Level(r) == origin[r].level
Permitted(r) == origin[r] # None /\ (Level(r) = "advisory" \/ trusted)

\* How a graph's position, status and counters go together in a run of this
\* autonomy level.
Settled(g, level) ==
  /\ g.next \in {"profile", "plan"} =>
       /\ g.plan = <<>> /\ g.index = 0 /\ g.actions = 0
       /\ g.status \notin Terminal
  /\ g.next = "execute" =>
       level = "assisted" /\ g.status = "running" /\ g.actions = g.index
  /\ g.next = "finalize" /\ g.status = "running" =>
       g.index = Len(g.plan) /\ g.actions = Len(g.plan)
  /\ g.status = "succeeded" /\ level = "assisted" =>
       g.next = "end" /\ g.index = Len(g.plan) /\ g.actions = Len(g.plan)

\* A graph is interrupted only by the action it is at.
Asks(g) ==
  g.interrupt # None =>
    g.next = "execute" /\ g.interrupt.tool = g.plan[g.index + 1]

Sound(g, level) == Settled(g, level) /\ Asks(g)

GovernedAt(l, j) ==
  l # "idle" => /\ Permitted(j.run)
                /\ HasGraph(l, j) => Sound(j.graph, Level(j.run))
                /\ l = "issue" => j.graph = None

Governed ==
  /\ \A r \in Runs : status[r] = "none" <=> origin[r] = None
  /\ \A r \in Runs : status[r] \notin {"none", "planned"} => Permitted(r)
  /\ \A t \in Workers : GovernedAt(pc[t], job[t])
  /\ \A r \in Runs : ckpt[r] # None => Permitted(r) /\ Sound(ckpt[r], Level(r))
  /\ \A i \in DOMAIN launches :
       trusted /\ Permitted(launches[i].run)
       /\ Level(launches[i].run) = "assisted"

\* The only rows that change status belong to runs that are permitted.
RowsPermitted ==
  \A r \in Runs : \/ status'[r] = status[r]
                  \/ status'[r] # "none" /\ Permitted(r)

\* A step of worker t keeps Governed when its new memory is governed and the
\* rows, checkpoints and launches it adds are.
LEMMA GovernedMoves ==
  ASSUME Governed, NEW t \in Workers, NEW l, NEW j, Acts(t, l, j),
         GovernedAt(l, j), UNCHANGED <<origin, trusted>>,
         RowsPermitted,
         \A r \in Runs : \/ ckpt'[r] = ckpt[r]
                         \/ Permitted(r) /\ Sound(ckpt'[r], Level(r)),
         \A i \in DOMAIN launches' :
           \/ i \in DOMAIN launches /\ launches'[i] = launches[i]
           \/ /\ trusted /\ Permitted(launches'[i].run)
              /\ Level(launches'[i].run) = "assisted"
  PROVE  Governed'
  <1>1. \A r : /\ Permitted(r)' <=> Permitted(r)
               /\ Level(r)' = Level(r)
    BY DEF Permitted, Level
  <1>2. ASSUME NEW u \in Workers PROVE GovernedAt(pc[u], job[u])'
    <2>1. CASE u = t BY <1>1, <2>1 DEF Acts, GovernedAt
    <2>2. CASE u # t
      <3>1. pc'[u] = pc[u] /\ job'[u] = job[u] BY <2>2 DEF Acts
      <3>2. QED BY <1>1, <3>1 DEF Governed, GovernedAt
    <2>3. QED BY <2>1, <2>2
  <1>3. \A r \in Runs : (status[r] = "none" <=> origin[r] = None)'
    BY DEF Governed, Permitted, RowsPermitted
  <1>4. \A r \in Runs : (status[r] \notin {"none", "planned"} => Permitted(r))'
    BY <1>1 DEF Governed, RowsPermitted
  <1>5. \A r \in Runs :
          (ckpt[r] # None => Permitted(r) /\ Sound(ckpt[r], Level(r)))'
    BY <1>1 DEF Governed
  <1>6. \A i \in DOMAIN launches' :
          (trusted /\ Permitted(launches[i].run)
           /\ Level(launches[i].run) = "assisted")'
    BY <1>1 DEF Governed
  <1>7. QED BY <1>2, <1>3, <1>4, <1>5, <1>6 DEF Governed

\* The return of a node whose values are settled.
LEMMA GovernedReturns ==
  ASSUME Typed, Governed, NEW t \in Workers, pc[t] \in GraphLabels,
         NEW g, WellFormed(g), NodeReturns(t, g),
         Settled(g, Level(job[t].run)),
         UNCHANGED <<status, origin, trusted, ckpt, launches>>
  PROVE  Governed'
  <1> DEFINE h == [g EXCEPT !.interrupt = None]
             j == Memory(job[t].op, job[t].run, h, None, None, job[t].shown)
  <1>1. pc[t] # "idle" BY DEF GraphLabels
  <1>2. Acts(t, "graph", j) BY <1>1, ReturnActs
  <1>3. /\ h.next = g.next /\ h.status = g.status /\ h.plan = g.plan
        /\ h.index = g.index /\ h.actions = g.actions /\ h.interrupt = None
    BY DEF WellFormed, GraphStates
  <1> HIDE DEF h
  <1>4. Sound(h, Level(job[t].run)) BY <1>3 DEF Sound, Settled, Asks
  <1>5. j.run = job[t].run /\ j.graph = h BY DEF Memory
  <1>6. Permitted(job[t].run) BY <1>1 DEF Governed, GovernedAt
  <1>7. GovernedAt("graph", j) BY <1>4, <1>5, <1>6 DEF GovernedAt
  <1> HIDE DEF j
  <1>8. QED BY <1>2, <1>7, GovernedMoves DEF RowsPermitted

\* The graph in a worker's memory is sound.
LEMMA GraphSound ==
  ASSUME Typed, Governed, NEW t \in Workers, pc[t] \in GraphLabels
  PROVE  /\ WellFormed(job[t].graph) /\ job[t] \in Jobs
         /\ Sound(job[t].graph, Level(job[t].run))
         /\ Permitted(job[t].run)
  <1>1. WellFormed(job[t].graph) /\ job[t] \in Jobs
    BY GraphTyped DEF GraphLabels
  <1>2. pc[t] # "idle" /\ HasGraph(pc[t], job[t])
    BY DEF GraphLabels, HasGraph
  <1>3. GovernedAt(pc[t], job[t]) BY DEF Governed
  <1>4. QED BY <1>1, <1>2, <1>3 DEF GovernedAt

LEMMA ProfileGoverned ==
  ASSUME Typed, Governed, NEW t \in Workers, ProfileNode(t)
  PROVE  Governed'
  <1> DEFINE g == job[t].graph
             ok == [g EXCEPT !.status = "running", !.next = "plan"]
             no == [g EXCEPT !.status = "failed", !.next = "finalize"]
  <1>1. pc[t] \in GraphLabels /\ g.next = "profile"
    BY DEF ProfileNode, AtNode, GraphLabels
  <1>2. WellFormed(g) /\ Sound(g, Level(job[t].run)) BY <1>1, GraphSound
  <1>3. WellFormed(ok) /\ WellFormed(no)
    BY <1>2 DEF WellFormed, GraphStates, Nodes, Terminal
  <1>4. /\ ok.next = "plan" /\ ok.status = "running" /\ ok.plan = g.plan
        /\ ok.index = g.index /\ ok.actions = g.actions
        /\ no.next = "finalize" /\ no.status = "failed"
    BY <1>2 DEF WellFormed, GraphStates
  <1>5. NodeReturns(t, ok) \/ NodeReturns(t, no) BY DEF ProfileNode
  <1>6. UNCHANGED <<status, origin, trusted, ckpt, launches>>
    BY DEF ProfileNode, rowVars, diskVars, worldVars
  <1> HIDE DEF ok, no
  <1>7. /\ Settled(ok, Level(job[t].run)) /\ Settled(no, Level(job[t].run))
    BY <1>1, <1>2, <1>4 DEF Settled, Sound, Terminal
  <1>8. QED BY <1>1, <1>3, <1>5, <1>6, <1>7, GovernedReturns

LEMMA PlanGoverned ==
  ASSUME Typed, Governed, NEW t \in Workers, PlanNode(t)
  PROVE  Governed'
  <1> DEFINE g == job[t].graph
             level == Level(job[t].run)
             adv(p) == [g EXCEPT !.plan = p, !.index = 0,
                                 !.status = "succeeded", !.next = "finalize"]
             run(p) == [g EXCEPT !.plan = p, !.index = 0,
                                 !.status = "running", !.next = "execute"]
             no == [g EXCEPT !.status = "failed", !.next = "finalize"]
  <1>1. pc[t] \in GraphLabels /\ g.next = "plan"
    BY DEF PlanNode, AtNode, GraphLabels
  <1>2. /\ WellFormed(g) /\ Sound(g, level) /\ Permitted(job[t].run)
        /\ job[t] \in Jobs
    BY <1>1, GraphSound
  <1>3. WellFormed(no) /\ no.next = "finalize" /\ no.status = "failed"
    BY <1>2 DEF WellFormed, GraphStates, Nodes, Terminal
  <1>4. level \in Levels
    BY <1>2 DEF Permitted, Level, Typed, TypeOK, Origins, Jobs
  <1>5. \/ NodeReturns(t, no)
        \/ \E p \in Plans : IF level = "advisory" THEN NodeReturns(t, adv(p))
                                                  ELSE NodeReturns(t, run(p))
    BY DEF PlanNode, Level
  <1>6. UNCHANGED <<status, origin, trusted, ckpt, launches>>
    BY DEF PlanNode, rowVars, diskVars, worldVars
  <1>7. ASSUME NEW p \in Plans
        PROVE  /\ WellFormed(adv(p)) /\ WellFormed(run(p))
               /\ level = "advisory" => Settled(adv(p), level)
               /\ level = "assisted" => Settled(run(p), level)
    <2>1. p \in Seq(Tools) /\ 1 \in 1..Len(p) BY PlansTyped
    <2>2. adv(p) \in GraphStates /\ run(p) \in GraphStates
      BY <1>2, <2>1 DEF WellFormed, GraphStates, Nodes, Terminal
    <2>3. /\ adv(p).next = "finalize" /\ adv(p).status = "succeeded"
          /\ run(p).next = "execute" /\ run(p).index = 0 /\ run(p).plan = p
          /\ run(p).status = "running" /\ run(p).actions = g.actions
      BY <1>2 DEF WellFormed, GraphStates
    <2> HIDE DEF adv, run
    <2>4. WellFormed(adv(p)) /\ WellFormed(run(p))
      BY <2>1, <2>2, <2>3 DEF WellFormed
    <2>5. g.actions = 0 BY <1>1, <1>2 DEF Sound, Settled
    <2>6. QED BY <2>3, <2>4, <2>5 DEF Settled
  <1>8. Settled(no, level) BY <1>3 DEF Settled
  <1> HIDE DEF adv, run, no, level
  <1>9. QED
    BY <1>1, <1>3, <1>4, <1>5, <1>6, <1>7, <1>8, GovernedReturns
    DEF Levels, level

\* The values the execute node returns once the runner is done.
LEMMA RunnerSettles ==
  ASSUME NEW g, NEW level, WellFormed(g), Settled(g, level),
         g.next = "execute"
  PROVE  /\ \A f \in {"refused", "failed"} : Settled(Unsuccessful(g, f), level)
         /\ Settled(Succeeded(g), level)
  <1> DEFINE n == g.actions + 1
             i == g.index + 1
             next == IF i < Len(g.plan) THEN "execute" ELSE "finalize"
             lost(f) == [g EXCEPT !.actions = n, !.status = f,
                                  !.next = "finalize"]
             won == [g EXCEPT !.actions = n, !.index = i,
                              !.status = "running", !.next = next]
  <1>1. /\ g \in GraphStates /\ Len(g.plan) \in Nat
        /\ g.index \in Nat /\ g.actions \in Nat
    BY DEF WellFormed, GraphStates
  <1>2. n \in Nat /\ i \in Nat /\ i <= Len(g.plan)
    BY <1>1 DEF WellFormed
  <1>3. n = i /\ level = "assisted" BY DEF Settled
  <1>4. /\ next \in {"execute", "finalize"}
        /\ next = "finalize" => i = Len(g.plan)
    BY <1>1, <1>2
  <1>5. /\ \A f : Unsuccessful(g, f) = lost(f)
        /\ Succeeded(g) = won
    BY DEF Unsuccessful, Succeeded
  <1> HIDE DEF n, i, next
  <1>6. \A f : lost(f).next = "finalize" /\ lost(f).status = f
    BY <1>1 DEF GraphStates
  <1>7. /\ won.next = next /\ won.status = "running" /\ won.plan = g.plan
        /\ won.index = i /\ won.actions = n
    BY <1>1 DEF GraphStates
  <1> HIDE DEF lost, won
  <1>8. Settled(won, level) BY <1>3, <1>4, <1>7 DEF Settled, Terminal
  <1>9. ASSUME NEW f \in {"refused", "failed"} PROVE Settled(lost(f), level)
    BY <1>6 DEF Settled
  <1>10. QED BY <1>5, <1>8, <1>9

\* A graph stopped at its action asks about that action.
LEMMA StoppedSound ==
  ASSUME NEW g, NEW level, WellFormed(g), Settled(g, level),
         g.next = "execute"
  PROVE  /\ Sound(Stopped(g), level)
         /\ Stopped(g).plan = g.plan /\ Stopped(g).index = g.index
         /\ Stopped(g).next = g.next
         /\ Stopped(g).interrupt = CurrentDigest(g)
  <1> DEFINE d == CurrentDigest(g)
             h == [g EXCEPT !.interrupt = d]
  <1>1. d.tool = g.plan[g.index + 1] BY DEF CurrentDigest
  <1> HIDE DEF d
  <1>2. /\ h.next = g.next /\ h.status = g.status /\ h.plan = g.plan
        /\ h.index = g.index /\ h.actions = g.actions /\ h.interrupt = d
    BY DEF WellFormed, GraphStates
  <1>3. Stopped(g) = h BY DEF Stopped, d
  <1> HIDE DEF h
  <1>4. Sound(h, level) BY <1>1, <1>2 DEF Sound, Settled, Asks
  <1>5. QED BY <1>2, <1>3, <1>4 DEF d

LEMMA ExecuteGoverned ==
  ASSUME Typed, Governed, NEW t \in Workers, ExecuteNode(t)
  PROVE  Governed'
  <1> DEFINE g == job[t].graph
             r == job[t].run
             no == [g EXCEPT !.status = "refused", !.next = "finalize"]
  <1>1. /\ pc[t] \in GraphLabels /\ pc[t] # "idle" /\ pc[t] = "graph"
        /\ g.next = "execute"
    BY DEF ExecuteNode, AtNode, GraphLabels
  <1>2. WellFormed(g) /\ Sound(g, Level(r)) /\ Permitted(r)
    BY <1>1, GraphSound
  <1>3. UNCHANGED <<status, origin, trusted, ckpt, launches>>
    BY DEF ExecuteNode, rowVars, diskVars, worldVars
  <1>4. CASE NodeReturns(t, no)
    <2>1. WellFormed(no) /\ no.next = "finalize" /\ no.status = "refused"
      BY <1>2 DEF WellFormed, GraphStates, Nodes, Terminal
    <2> HIDE DEF no
    <2>2. Settled(no, Level(r)) BY <2>1 DEF Settled
    <2>3. QED BY <1>1, <1>3, <1>4, <2>1, <2>2, GovernedReturns
  <1>5. CASE /\ Goto(t, "flush")
             /\ job' = [job EXCEPT ![t].graph.interrupt = CurrentDigest(g)]
    <2> DEFINE j == Memory(job[t].op, r, Stopped(g), job[t].token,
                           job[t].argv, job[t].shown)
    <2>1. Acts(t, "flush", j) BY <1>1, <1>5, StopActs
    <2>2. Sound(Stopped(g), Level(r))
      BY <1>1, <1>2, StoppedSound DEF Sound
    <2>3. j.run = r /\ j.graph = Stopped(g) BY DEF Memory
    <2>4. GovernedAt("flush", j) BY <1>2, <2>2, <2>3 DEF GovernedAt
    <2> HIDE DEF j
    <2>5. QED BY <1>3, <2>1, <2>4, GovernedMoves DEF RowsPermitted
  <1>6. CASE Goto(t, "verify") /\ UNCHANGED job
    <2>1. Acts(t, "verify", job[t]) BY <1>6, GotoActs
    <2>2. GovernedAt("verify", job[t]) BY <1>2 DEF GovernedAt
    <2>3. QED BY <1>3, <2>1, <2>2, GovernedMoves DEF RowsPermitted
  <1>7. QED BY <1>4, <1>5, <1>6 DEF ExecuteNode

LEMMA RunnerGoverned ==
  ASSUME Typed, Governed, NEW t \in Workers,
         \/ Verify(t) \/ VerifyRefuses(t) \/ Spawn(t) \/ SpawnFails(t)
         \/ Exit(t)
  PROVE  Governed'
  <1> DEFINE g == job[t].graph
             r == job[t].run
  <1>1. /\ pc[t] \in GraphLabels
        /\ pc[t] \in {"verify", "spawn", "wait"}
    BY DEF Verify, VerifyRefuses, Spawn, SpawnFails, Exit, GraphLabels
  <1>2. /\ WellFormed(g) /\ Sound(g, Level(r)) /\ Permitted(r)
        /\ HeldAt(pc[t], job[t]) /\ g.next = "execute"
    BY <1>1, GraphSound DEF Typed, HeldAt
  <1>3. CASE Verify(t)
    <2> DEFINE j == Memory(job[t].op, r, g, job[t].token, CurrentDigest(g),
                           job[t].shown)
    <2>1. Acts(t, "spawn", j) BY <1>3, VerifyActs
    <2>2. j.run = r /\ j.graph = g BY DEF Memory
    <2>3. GovernedAt("spawn", j) BY <1>2, <2>2 DEF GovernedAt
    <2>4. UNCHANGED <<status, origin, trusted, ckpt, launches>>
      BY <1>3 DEF Verify, rowVars, worldVars
    <2> HIDE DEF j
    <2>5. QED BY <2>1, <2>3, <2>4, GovernedMoves DEF RowsPermitted
  <1>4. CASE Spawn(t)
    <2> DEFINE l == [run |-> r, index |-> g.index, digest |-> job[t].argv,
                     id |-> job[t].token.id, shown |-> job[t].shown]
    <2>1. Acts(t, "wait", job[t]) BY <1>4, GotoActs DEF Spawn
    <2>2. GovernedAt("wait", job[t]) BY <1>2 DEF GovernedAt
    <2>3. UNCHANGED <<status, origin, trusted, ckpt>>
      BY <1>4 DEF Spawn, rowVars, diskVars
    <2>4. launches' = Append(launches, l) /\ l.run = r BY <1>4 DEF Spawn
    <2>5. Level(r) = "assisted" /\ trusted
      BY <1>2 DEF Sound, Settled, Permitted
    <2> HIDE DEF l
    <2>6. launches \in Seq(Launches) BY DEF Typed, TypeOK
    <2>7. \A i \in DOMAIN launches' :
            \/ i \in DOMAIN launches /\ launches'[i] = launches[i]
            \/ launches'[i].run = r
      BY <2>4, <2>6
    <2>8. QED
      BY <1>2, <2>1, <2>2, <2>3, <2>5, <2>7, GovernedMoves DEF RowsPermitted
  <1>5. CASE VerifyRefuses(t) \/ SpawnFails(t) \/ Exit(t)
    <2>1. \/ NodeReturns(t, Unsuccessful(g, "refused"))
          \/ NodeReturns(t, Unsuccessful(g, "failed"))
          \/ NodeReturns(t, Succeeded(g))
      BY <1>5 DEF VerifyRefuses, SpawnFails, Exit
    <2>2. UNCHANGED <<status, origin, trusted, ckpt, launches>>
      BY <1>5 DEF VerifyRefuses, SpawnFails, Exit, rowVars, diskVars,
         worldVars
    <2>3. /\ Settled(Unsuccessful(g, "refused"), Level(r))
          /\ Settled(Unsuccessful(g, "failed"), Level(r))
          /\ Settled(Succeeded(g), Level(r))
      BY <1>2, RunnerSettles DEF Sound
    <2>4. QED BY <1>1, <1>2, <2>1, <2>2, <2>3, RunnerReturns, GovernedReturns
  <1>6. QED BY <1>3, <1>4, <1>5

LEMMA FinalizeGoverned ==
  ASSUME Typed, Governed, NEW t \in Workers, FinalizeNode(t)
  PROVE  Governed'
  <1> DEFINE g == job[t].graph
             level == Level(job[t].run)
             final == IF g.status = "running" THEN "succeeded" ELSE g.status
             h == [g EXCEPT !.status = final, !.next = "end"]
  <1>1. pc[t] \in GraphLabels /\ g.next = "finalize"
    BY DEF FinalizeNode, AtNode, GraphLabels
  <1>2. WellFormed(g) /\ Settled(g, level) BY <1>1, GraphSound DEF Sound
  <1>3. final \in Terminal
    BY <1>1, <1>2 DEF WellFormed, GraphStates, Terminal
  <1>4. /\ NodeReturns(t, h)
        /\ UNCHANGED <<status, origin, trusted, ckpt, launches>>
    BY DEF FinalizeNode, rowVars, worldVars
  <1>5. final = "succeeded" /\ level = "assisted" =>
          g.index = Len(g.plan) /\ g.actions = Len(g.plan)
    BY <1>1, <1>2 DEF Settled
  <1> HIDE DEF final
  <1>6. WellFormed(h)
    BY <1>2, <1>3 DEF WellFormed, GraphStates, Nodes, Terminal
  <1>7. /\ h.next = "end" /\ h.status = final /\ h.plan = g.plan
        /\ h.index = g.index /\ h.actions = g.actions
    BY <1>2 DEF WellFormed, GraphStates
  <1> HIDE DEF h
  <1>8. Settled(h, level) BY <1>5, <1>7 DEF Settled
  <1>9. QED BY <1>1, <1>4, <1>6, <1>8, GovernedReturns

\* A checkpoint is the graph of a worker, which is sound.
LEMMA CheckpointGoverned ==
  ASSUME Typed, Governed, NEW t \in Workers, Persist(t) \/ Flush(t)
  PROVE  Governed'
  <1> DEFINE g == job[t].graph
             r == job[t].run
  <1>1. HasGraph(pc[t], job[t]) /\ pc[t] # "idle"
    BY DEF Persist, Flush, AtNode, HasGraph, GraphLabels
  <1>2. Permitted(r) /\ Sound(g, Level(r))
    BY <1>1 DEF Governed, GovernedAt
  <1>3. \E l : Acts(t, l, job[t]) /\ GovernedAt(l, job[t])
    <2>1. CASE Persist(t)
      <3>1. Acts(t, pc[t], job[t]) BY <2>1 DEF Persist, Acts
      <3>2. QED BY <3>1 DEF Governed
    <2>2. CASE Flush(t)
      <3>1. Acts(t, "record", job[t]) BY <2>2, GotoActs DEF Flush
      <3>2. GovernedAt("record", job[t]) BY <1>2 DEF GovernedAt
      <3>3. QED BY <3>1, <3>2
    <2>3. QED BY <2>1, <2>2
  <1>4. ckpt' = [ckpt EXCEPT ![r] = g] BY DEF Persist, Flush
  <1>5. UNCHANGED <<status, origin, trusted, launches>>
    BY DEF Persist, Flush, rowVars, worldVars
  <1>6. \A q \in Runs : \/ ckpt'[q] = ckpt[q]
                        \/ Permitted(q) /\ Sound(ckpt'[q], Level(q))
    BY <1>2, <1>4 DEF Typed, TypeOK
  <1>7. QED BY <1>3, <1>5, <1>6, GovernedMoves DEF RowsPermitted

\* Requests: a run is started by a permitted caller, and one that waits was
\* permitted when it started.
LEMMA RequestGoverned ==
  ASSUME Typed, Governed, NEW t \in Workers, NEW r \in Runs,
         \/ StartRequest(t, r)
         \/ \E c \in seen[r], o \in {"approve", "decline"} :
              ClaimPending(t, r, c, o)
  PROVE  Governed'
  <1>1. CASE StartRequest(t, r)
    <2> DEFINE j == Memory("start", r, None, None, None, None)
    <2>1. Acts(t, "claim", j) BY <1>1, StartActs
    <2>2. Permitted(r)
      BY <1>1 DEF StartRequest, MayStart, Permitted, Governed, Level
    <2>3. j.run = r /\ ~HasGraph("claim", j)
      BY DEF Memory, HasGraph, GraphLabels
    <2>4. GovernedAt("claim", j) BY <2>2, <2>3 DEF GovernedAt
    <2>5. UNCHANGED <<status, origin, trusted, ckpt, launches>>
      BY <1>1 DEF StartRequest, rowVars, diskVars, worldVars
    <2> HIDE DEF j
    <2>6. QED BY <2>1, <2>4, <2>5, GovernedMoves DEF RowsPermitted
  <1>2. ASSUME NEW c \in seen[r], NEW o \in {"approve", "decline"},
               ClaimPending(t, r, c, o)
        PROVE  Governed'
    <2> DEFINE j == Memory(o, r, None, None, None, c)
               l == IF o = "approve" THEN "issue" ELSE "refuse"
    <2>1. Acts(t, l, j) BY <1>2, ClaimActs
    <2>2. Permitted(r) BY <1>2 DEF ClaimPending, Governed
    <2>3. j.run = r /\ j.graph = None /\ ~HasGraph(l, j)
      BY DEF Memory, HasGraph, GraphLabels
    <2>4. GovernedAt(l, j) BY <2>2, <2>3 DEF GovernedAt
    <2>5. UNCHANGED <<origin, trusted, ckpt, launches>>
      BY <1>2 DEF ClaimPending, diskVars, worldVars
    <2>6. RowsPermitted
      BY <1>2, <2>2 DEF ClaimPending, RowsPermitted, Typed, TypeOK
    <2> HIDE DEF j, l
    <2>7. QED BY <2>1, <2>4, <2>5, <2>6, GovernedMoves
  <1>3. QED BY <1>1, <1>2

LEMMA ClaimGoverned ==
  ASSUME Typed, Governed, NEW t \in Workers, ClaimStart(t) \/ IssueAndResume(t)
  PROVE  Governed'
  <1> DEFINE r == job[t].run
  <1>1. pc[t] # "idle" BY DEF ClaimStart, IssueAndResume
  <1>2. Permitted(r) /\ r \in Runs
    BY <1>1 DEF Governed, GovernedAt, Typed, HeldAt, Jobs
  <1>3. CASE ClaimStart(t)
    <2> DEFINE j == Memory(job[t].op, r, InitialGraph, job[t].token,
                           job[t].argv, job[t].shown)
    <2>1. Acts(t, "graph", j) BY <1>3, ClaimStartActs
    <2>2. j.run = r /\ j.graph = InitialGraph BY DEF Memory
    <2>3. Sound(InitialGraph, Level(r))
      BY DEF Sound, Settled, Asks, InitialGraph, Terminal
    <2>4. GovernedAt("graph", j) BY <1>2, <2>2, <2>3 DEF GovernedAt
    <2>5. UNCHANGED <<origin, trusted, ckpt, launches>>
      BY <1>3 DEF ClaimStart, diskVars, worldVars
    <2>6. RowsPermitted
      BY <1>2, <1>3 DEF ClaimStart, RowsPermitted, Typed, TypeOK
    <2> HIDE DEF j
    <2>7. QED BY <2>1, <2>4, <2>5, <2>6, GovernedMoves
  <1>4. CASE IssueAndResume(t)
    <2> DEFINE j == Memory(job[t].op, r, ckpt[r], Issued(t), job[t].argv,
                           job[t].shown)
    <2>1. Acts(t, "graph", j) BY <1>4, IssueActs
    <2>2. j.run = r /\ j.graph = ckpt[r] BY DEF Memory
    <2>3. Sound(ckpt[r], Level(r)) BY <1>2, <1>4 DEF IssueAndResume, Governed
    <2>4. GovernedAt("graph", j) BY <1>2, <2>2, <2>3 DEF GovernedAt
    <2>5. UNCHANGED <<status, origin, trusted, ckpt, launches>>
      BY <1>4 DEF IssueAndResume, rowVars, diskVars
    <2> HIDE DEF j
    <2>6. QED BY <2>1, <2>4, <2>5, GovernedMoves DEF RowsPermitted
  <1>5. QED BY <1>3, <1>4

\* The expected-status updates.
LEMMA UpdatesPermitted ==
  ASSUME Typed, NEW r \in Runs, NEW e, status[r] = e => Permitted(r),
         \/ \E f \in Terminal : MarkTerminal(r, e, f)
         \/ \E g : WellFormed(g) /\ UpdateFromResult(r, e, g)
  PROVE  RowsPermitted
  <1>1. CASE status[r] # e
    BY <1>1 DEF MarkTerminal, UpdateFromResult, rowVars, RowsPermitted
  <1>2. ASSUME status[r] = e, NEW f \in Terminal, MarkTerminal(r, e, f)
        PROVE  RowsPermitted
    BY <1>2 DEF MarkTerminal, Terminal, RowsPermitted, Typed, TypeOK
  <1>3. ASSUME status[r] = e, NEW g, WellFormed(g), UpdateFromResult(r, e, g)
        PROVE  RowsPermitted
    <2>1. ResultStatus(g) # "none"
      BY <1>3 DEF ResultStatus, WellFormed, GraphStates, Terminal
    <2>2. QED
      BY <1>3, <2>1 DEF UpdateFromResult, RowsPermitted, Typed, TypeOK
  <1>4. QED BY <1>1, <1>2, <1>3

LEMMA ReleaseGoverned ==
  ASSUME Typed, Governed, NEW t \in Workers,
         \/ ClaimStartLost(t) \/ Record(t) \/ MarkFailed(t) \/ Decline(t)
  PROVE  Governed'
  <1>1. Retire(t) /\ UNCHANGED <<origin, trusted, ckpt, launches>>
    BY DEF ClaimStartLost, Record, MarkFailed, Decline, diskVars, worldVars
  <1>2. pc[t] # "idle" BY DEF ClaimStartLost, Record, MarkFailed, Decline
  <1>3. Permitted(job[t].run) /\ job[t].run \in Runs
    BY <1>2 DEF Governed, GovernedAt, Typed, HeldAt, Jobs
  <1>4. RowsPermitted
    <2>1. CASE ClaimStartLost(t)
      BY <2>1 DEF ClaimStartLost, rowVars, RowsPermitted
    <2>2. CASE Record(t)
      <3>1. WellFormed(job[t].graph) BY <2>2, GraphTyped DEF Record
      <3>2. QED BY <1>3, <2>2, <3>1, UpdatesPermitted DEF Record
    <2>3. CASE MarkFailed(t) \/ Decline(t)
      BY <1>3, <2>3, UpdatesPermitted DEF MarkFailed, Decline, Terminal
    <2>4. QED BY <2>1, <2>2, <2>3
  <1>5. Acts(t, "idle", None) BY <1>1, RetireActs
  <1>6. GovernedAt("idle", None) BY DEF GovernedAt
  <1>7. QED BY <1>1, <1>4, <1>5, <1>6, GovernedMoves

\* A worker that raises keeps the graph it had, if it had one.
LEMMA RaiseGoverned ==
  ASSUME Typed, Governed, NEW t \in Workers, Raise(t)
  PROVE  Governed'
  <1>1. Acts(t, "fail", job[t]) BY GotoActs DEF Raise
  <1>2. pc[t] # "idle" /\ GovernedAt(pc[t], job[t]) BY DEF Raise, Governed
  <1>3. HasGraph("fail", job[t]) => HasGraph(pc[t], job[t])
    BY <1>2 DEF Raise, HasGraph, GraphLabels, GovernedAt
  <1>4. GovernedAt("fail", job[t]) BY <1>2, <1>3 DEF GovernedAt
  <1>5. UNCHANGED <<status, origin, trusted, ckpt, launches>>
    BY DEF Raise, rowVars, diskVars, worldVars
  <1>6. QED BY <1>1, <1>4, <1>5, GovernedMoves DEF RowsPermitted

\* A step of no worker: threads may vanish, trust may be given, a row may be
\* added, and rows of permitted runs may change.
LEMMA GovernedRows ==
  ASSUME Typed, Governed,
         \A u \in Workers : \/ pc'[u] = pc[u] /\ job'[u] = job[u]
                            \/ pc'[u] = "idle",
         \A r \in Runs : origin[r] # None => origin'[r] = origin[r],
         trusted => trusted',
         \A r \in Runs :
           \/ status'[r] = status[r] /\ origin'[r] = origin[r]
           \/ status'[r] # "none" /\ Permitted(r)
           \/ status'[r] = "planned" /\ origin'[r] # None,
         UNCHANGED <<ckpt, launches>>
  PROVE  Governed'
  <1>1. \A r \in Runs : Permitted(r) => Permitted(r)' /\ Level(r)' = Level(r)
    BY DEF Permitted, Level
  <1>2. ASSUME NEW u \in Workers PROVE GovernedAt(pc[u], job[u])'
    <2>1. CASE pc'[u] = "idle" BY <2>1 DEF GovernedAt
    <2>2. CASE /\ pc'[u] = pc[u] /\ job'[u] = job[u] /\ pc[u] # "idle"
      <3>1. job[u].run \in Runs BY <2>2 DEF Typed, HeldAt, Jobs
      <3>2. QED BY <1>1, <2>2, <3>1 DEF Governed, GovernedAt
    <2>3. QED BY <2>1, <2>2
  <1>3. \A r \in Runs : (status[r] = "none" <=> origin[r] = None)'
    BY DEF Governed, Permitted
  <1>4. \A r \in Runs : (status[r] \notin {"none", "planned"} => Permitted(r))'
    BY <1>1 DEF Governed
  <1>5. \A r \in Runs :
          (ckpt[r] # None => Permitted(r) /\ Sound(ckpt[r], Level(r)))'
    BY <1>1 DEF Governed
  <1>6. ASSUME NEW i \in DOMAIN launches
        PROVE  (trusted /\ Permitted(launches[i].run)
                /\ Level(launches[i].run) = "assisted")'
    <2>1. launches[i] \in Launches BY DEF Typed, TypeOK
    <2>2. launches[i].run \in Runs BY <2>1 DEF Launches
    <2>3. QED BY <1>1, <2>2 DEF Governed
  <1>7. QED BY <1>2, <1>3, <1>4, <1>5, <1>6 DEF Governed

LEMMA ProcessGoverned ==
  ASSUME Typed, Governed, NEW s \in Services,
         \/ \E r \in Runs, level \in Levels : CreateRun(s, r, level)
         \/ TrustWorkspace(s) \/ Reconcile(s) \/ BootDone(s) \/ Crash(s)
         \/ Close(s) \/ LeaseLapses(s) \/ \E f \in Fingerprints : Boot(s, f)
  PROVE  Governed'
  <1>1. ASSUME NEW r \in Runs, NEW level \in Levels, CreateRun(s, r, level)
        PROVE  Governed'
    <2> DEFINE o == [by |-> config[s], level |-> level]
    <2>1. o \in Origins BY DEF Typed, TypeOK, Origins
    <2>2. o # None BY <2>1, NoneAssumption
    <2>3. /\ origin' = [origin EXCEPT ![r] = o] /\ status[r] = "none"
          /\ status' = [status EXCEPT ![r] = "planned"]
          /\ UNCHANGED <<pc, job, trusted, ckpt, launches>>
      BY <1>1 DEF CreateRun, worldVars
    <2> HIDE DEF o
    <2>4. QED
      BY <2>2, <2>3, GovernedRows DEF Governed, Typed, TypeOK
  <1>2. CASE TrustWorkspace(s)
    BY <1>2, GovernedRows DEF TrustWorkspace, rowVars, worldVars
  <1>3. CASE Reconcile(s)
    <2>1. PICK row \in todo[s] :
            \/ ReconcileRun(s, row[1], row[2])
            \/ ReconcileRaises(s, row[1], row[2])
      BY <1>3 DEF Reconcile
    <2>2. PICK r \in Runs, e \in Incomplete : row = <<r, e>>
      BY DEF Typed, TypeOK
    <2>3. status[r] = e => Permitted(r) BY DEF Governed, Incomplete
    <2>4. \/ MarkTerminal(r, e, "failed")
          \/ ckpt[r] # None /\ UpdateFromResult(r, e, ckpt[r])
      BY <2>1, <2>2 DEF ReconcileRun, ReconcileRaises
    <2>5. RowsPermitted
      BY <2>3, <2>4, UpdatesPermitted DEF Typed, Terminal
    <2>6. UNCHANGED <<origin, trusted, ckpt, pc, job, launches>>
      BY <2>1 DEF ReconcileRun, ReconcileRaises, diskVars, worldVars
    <2>7. QED BY <2>5, <2>6, GovernedRows DEF RowsPermitted
  <1>4. CASE BootDone(s) \/ LeaseLapses(s) \/ \E f \in Fingerprints : Boot(s, f)
    BY <1>4, GovernedRows DEF BootDone, LeaseLapses, Boot, rowVars, diskVars,
       worldVars
  <1>5. CASE Crash(s) \/ Close(s)
    <2>1. ProcessEnds(s) BY <1>5 DEF Crash, Close
    <2>2. /\ \A u \in Workers : \/ pc'[u] = pc[u] /\ job'[u] = job[u]
                                \/ pc'[u] = "idle"
          /\ UNCHANGED <<status, origin, trusted, ckpt, launches>>
      BY <2>1 DEF ProcessEnds, rowVars, diskVars
    <2>3. QED BY <2>2, GovernedRows
  <1>6. QED BY <1>1, <1>2, <1>3, <1>4, <1>5

LEMMA InitGoverned == Init => Governed
  BY DEF Init, Governed, GovernedAt

LEMMA NextGoverned ==
  Typed /\ Governed /\ [Next \/ LapseNext]_vars => Governed'
  <1> SUFFICES ASSUME Typed, Governed, [Next \/ LapseNext]_vars PROVE Governed'
    OBVIOUS
  <1>1. CASE UNCHANGED vars
    BY <1>1, GovernedRows DEF vars, rowVars, diskVars, worldVars
  <1>2. ASSUME NEW t \in Workers, Request(t) \/ Work(t) \/ Persist(t)
        PROVE  Governed'
    <2>1. CASE Request(t) BY <2>1, RequestGoverned DEF Request
    <2>2. CASE Work(t)
      BY <2>2, ClaimGoverned, ReleaseGoverned, ProfileGoverned, PlanGoverned,
         ExecuteGoverned, RunnerGoverned, FinalizeGoverned,
         CheckpointGoverned, RaiseGoverned DEF Work
    <2>3. CASE Persist(t) BY <2>3, CheckpointGoverned
    <2>4. QED BY <1>2, <2>1, <2>2, <2>3
  <1>3. ASSUME NEW b \in Binaries \cup {None}, Rebind(b) PROVE Governed'
    BY <1>3, GovernedRows DEF Rebind, rowVars, diskVars
  <1>4. CASE Next BY <1>2, <1>3, <1>4, ProcessGoverned DEF Next
  <1>5. QED BY <1>1, <1>4, ProcessGoverned DEF LapseNext

LEMMA GovernedSanctions == Governed => OnlySanctionedRuns
  BY DEF Governed, OnlySanctionedRuns, Level

\* No command runs for an advisory run or in a workspace nobody trusts, in
\* every behaviour of the service ...
THEOREM OnlySanctionedRunsAlways == Spec => []OnlySanctionedRuns
  <1>1. Typed /\ Governed /\ [Next]_vars => Governed' BY NextGoverned
  <1>2. QED
    BY <1>1, InitGoverned, GovernedSanctions, TypedAlways, PTL DEF Spec

\* ... and also when processes lose the lease with requests in flight.
THEOREM OnlySanctionedRunsLapse == LapseSpec => []OnlySanctionedRuns
  <1>1. Typed /\ Governed /\ [LapseNext]_vars => Governed' BY NextGoverned
  <1>2. QED
    BY <1>1, InitGoverned, GovernedSanctions, TypedLapse, PTL DEF LapseSpec

-----------------------------------------------------------------------------
(* The steps of a graph, by what they make of its values *)

\* Values h a node or the runner returns for the values g it worked on.
Fails(g, h) ==
  /\ g.next \in {"profile", "plan", "execute"} /\ h.next = "finalize"
  /\ h.status \in {"failed", "refused"}
  /\ h.plan = g.plan /\ h.index = g.index
Profiles(g, h) ==
  /\ g.next = "profile" /\ h.next = "plan"
  /\ h.plan = g.plan /\ h.index = g.index
ChoosesPlan(g, h) ==
  /\ g.next = "plan" /\ h.next \in {"execute", "finalize"}
  /\ h.plan \in Plans /\ h.index = 0
Advances(g, h) ==
  /\ g.next = "execute" /\ h.next \in {"execute", "finalize"}
  /\ h.plan = g.plan /\ h.index = g.index + 1
Finishes(g, h) ==
  /\ g.next = "finalize" /\ h.next = "end" /\ h.status \in Terminal
  /\ h.plan = g.plan /\ h.index = g.index

\* Everything but the workers and the trace files stays.
OnlyTrace == UNCHANGED <<rowVars, origin, trusted, spent, ckpt, procVars,
                         worldVars>>

\* A node, or the runner for the execute node, returns the values h.
ReturnStep(t, h) ==
  LET g == job[t].graph IN
  /\ pc[t] \in {"graph", "verify", "spawn", "wait"}
  /\ Acts(t, "graph",
          Memory(job[t].op, job[t].run, h, None, None, job[t].shown))
  /\ WellFormed(h) /\ h.interrupt = None
  /\ OnlyTrace
  /\ \/ UNCHANGED trace /\ Fails(g, h)
     \/ UNCHANGED trace /\ pc[t] = "graph" /\ Profiles(g, h)
     \/ UNCHANGED trace /\ pc[t] = "graph" /\ ChoosesPlan(g, h)
     \/ UNCHANGED trace /\ pc[t] = "wait" /\ Advances(g, h)
     \/ /\ pc[t] = "graph" /\ Finishes(g, h)
        /\ trace' = [trace EXCEPT ![job[t].run] = h.status]

\* The execute node stops at its action to ask for it.
StopStep(t) ==
  /\ pc[t] = "graph" /\ job[t].graph.next = "execute" /\ job[t].token = None
  /\ Acts(t, "flush", Memory(job[t].op, job[t].run, Stopped(job[t].graph),
                             None, job[t].argv, job[t].shown))
  /\ OnlyTrace /\ UNCHANGED trace

\* The execute node hands its action and its capability to the runner.
HandStep(t) ==
  /\ pc[t] = "graph" /\ job[t].graph.next = "execute" /\ job[t].token # None
  /\ Acts(t, "verify", job[t])
  /\ OnlyTrace /\ UNCHANGED trace

\* What the runner's verdict makes of the values of an execute node.
LEMMA RunnerValues ==
  ASSUME NEW g, WellFormed(g), g.next = "execute"
  PROVE  /\ \A f \in {"failed", "refused"} : Fails(g, Unsuccessful(g, f))
         /\ Advances(g, Succeeded(g))
  <1> DEFINE n == g.actions + 1
             i == g.index + 1
             next == IF i < Len(g.plan) THEN "execute" ELSE "finalize"
             lost(f) == [g EXCEPT !.actions = n, !.status = f,
                                  !.next = "finalize"]
             won == [g EXCEPT !.actions = n, !.index = i,
                              !.status = "running", !.next = next]
  <1>1. g \in GraphStates BY DEF WellFormed
  <1>2. next \in {"execute", "finalize"} OBVIOUS
  <1>3. /\ \A f : Unsuccessful(g, f) = lost(f)
        /\ Succeeded(g) = won
    BY DEF Unsuccessful, Succeeded
  <1>4. i = g.index + 1 OBVIOUS
  <1> HIDE DEF n, i, next
  <1>5. \A f : /\ lost(f).next = "finalize" /\ lost(f).status = f
               /\ lost(f).plan = g.plan /\ lost(f).index = g.index
    BY <1>1 DEF GraphStates
  <1>6. won.next = next /\ won.plan = g.plan /\ won.index = i
    BY <1>1 DEF GraphStates
  <1> HIDE DEF lost, won
  <1>7. QED BY <1>2, <1>3, <1>4, <1>5, <1>6 DEF Fails, Advances

LEMMA NodeSteps ==
  ASSUME Typed, NEW t \in Workers,
         \/ ProfileNode(t) \/ PlanNode(t) \/ ExecuteNode(t)
         \/ VerifyRefuses(t) \/ SpawnFails(t) \/ Exit(t) \/ FinalizeNode(t)
  PROVE  (\E h : ReturnStep(t, h)) \/ StopStep(t) \/ HandStep(t)
  <1> DEFINE g == job[t].graph
             d == [g EXCEPT !.status = "running", !.next = "plan"]
             no(f) == [g EXCEPT !.status = f, !.next = "finalize"]
             adv(p) == [g EXCEPT !.plan = p, !.index = 0,
                                 !.status = "succeeded", !.next = "finalize"]
             run(p) == [g EXCEPT !.plan = p, !.index = 0,
                                 !.status = "running", !.next = "execute"]
             cut(x) == [x EXCEPT !.interrupt = None]
  <1>1. /\ pc[t] \in {"graph", "verify", "spawn", "wait"}
        /\ pc[t] # "idle" /\ WellFormed(g) /\ HeldAt(pc[t], job[t])
    BY GraphTyped DEF ProfileNode, PlanNode, ExecuteNode, VerifyRefuses,
       SpawnFails, Exit, FinalizeNode, AtNode
  <1>2. ASSUME NEW x, WellFormed(x), NodeReturns(t, x)
        PROVE  /\ Acts(t, "graph", Memory(job[t].op, job[t].run, cut(x), None,
                                          None, job[t].shown))
               /\ WellFormed(cut(x)) /\ cut(x).interrupt = None
               /\ cut(x).next = x.next /\ cut(x).status = x.status
               /\ cut(x).plan = x.plan /\ cut(x).index = x.index
    <2>1. Acts(t, "graph", Memory(job[t].op, job[t].run, cut(x), None, None,
                                  job[t].shown))
      BY <1>1, <1>2, ReturnActs
    <2>2. x \in GraphStates BY <1>2 DEF WellFormed
    <2>3. /\ cut(x) \in GraphStates /\ cut(x).interrupt = None
          /\ cut(x).next = x.next /\ cut(x).status = x.status
          /\ cut(x).plan = x.plan /\ cut(x).index = x.index
      BY <2>2 DEF GraphStates
    <2> HIDE DEF cut
    <2>4. WellFormed(cut(x)) BY <1>2, <2>3 DEF WellFormed
    <2>5. QED BY <2>1, <2>3, <2>4
  <1>3. g \in GraphStates BY <1>1 DEF WellFormed
  <1>4. ASSUME NEW f \in {"failed", "refused"}
        PROVE  /\ WellFormed(no(f))
               /\ no(f).next = "finalize" /\ no(f).status = f
               /\ no(f).plan = g.plan /\ no(f).index = g.index
    BY <1>3 DEF WellFormed, GraphStates, Nodes, Terminal
  <1>5. CASE ProfileNode(t)
    <2>1. /\ WellFormed(d) /\ d.next = "plan" /\ d.plan = g.plan
          /\ d.index = g.index
      BY <1>3 DEF WellFormed, GraphStates, Nodes
    <2>2. /\ pc[t] = "graph" /\ g.next = "profile"
          /\ NodeReturns(t, d) \/ NodeReturns(t, no("failed"))
          /\ OnlyTrace /\ UNCHANGED trace
      BY <1>5 DEF ProfileNode, AtNode, OnlyTrace, diskVars
    <2> HIDE DEF d, no, cut
    <2>3. NodeReturns(t, d) => ReturnStep(t, cut(d))
      BY <1>2, <2>1, <2>2 DEF ReturnStep, Profiles
    <2>4. NodeReturns(t, no("failed")) => ReturnStep(t, cut(no("failed")))
      BY <1>2, <1>4, <2>2 DEF ReturnStep, Fails
    <2>5. QED BY <2>2, <2>3, <2>4
  <1>6. CASE PlanNode(t)
    <2>1. ASSUME NEW p \in Plans
          PROVE  /\ WellFormed(adv(p)) /\ WellFormed(run(p))
                 /\ adv(p).next = "finalize" /\ run(p).next = "execute"
                 /\ adv(p).plan = p /\ adv(p).index = 0
                 /\ run(p).plan = p /\ run(p).index = 0
      <3>1. p \in Seq(Tools) /\ 1 \in 1..Len(p) BY PlansTyped
      <3>2. /\ adv(p) \in GraphStates /\ run(p) \in GraphStates
            /\ adv(p).next = "finalize" /\ run(p).next = "execute"
            /\ adv(p).plan = p /\ adv(p).index = 0
            /\ run(p).plan = p /\ run(p).index = 0
            /\ adv(p).status = "succeeded"
        BY <1>3, <3>1 DEF GraphStates, Nodes, Terminal
      <3> HIDE DEF adv, run
      <3>3. QED BY <3>1, <3>2 DEF WellFormed
    <2>2. /\ pc[t] = "graph" /\ g.next = "plan"
          /\ \/ NodeReturns(t, no("failed"))
             \/ \E p \in Plans : NodeReturns(t, adv(p)) \/ NodeReturns(t, run(p))
          /\ OnlyTrace /\ UNCHANGED trace
      BY <1>6 DEF PlanNode, AtNode, OnlyTrace, diskVars
    <2> HIDE DEF adv, run, no, cut
    <2>3. ASSUME NEW p \in Plans, NodeReturns(t, adv(p))
          PROVE  ReturnStep(t, cut(adv(p)))
      BY <1>2, <2>1, <2>2, <2>3 DEF ReturnStep, ChoosesPlan
    <2>4. ASSUME NEW p \in Plans, NodeReturns(t, run(p))
          PROVE  ReturnStep(t, cut(run(p)))
      BY <1>2, <2>1, <2>2, <2>4 DEF ReturnStep, ChoosesPlan
    <2>5. NodeReturns(t, no("failed")) => ReturnStep(t, cut(no("failed")))
      BY <1>2, <1>4, <2>2 DEF ReturnStep, Fails
    <2>6. QED BY <2>2, <2>3, <2>4, <2>5
  <1>7. CASE ExecuteNode(t)
    <2>1. /\ pc[t] = "graph" /\ g.next = "execute"
          /\ OnlyTrace /\ UNCHANGED trace
      BY <1>7 DEF ExecuteNode, AtNode, OnlyTrace, diskVars
    <2>2. CASE NodeReturns(t, no("refused"))
      <3> HIDE DEF no, cut
      <3>1. ReturnStep(t, cut(no("refused")))
        BY <1>2, <1>4, <2>1, <2>2 DEF ReturnStep, Fails
      <3>2. QED BY <3>1
    <2>3. CASE /\ job[t].token = None /\ Goto(t, "flush")
               /\ job' = [job EXCEPT ![t].graph.interrupt = CurrentDigest(g)]
      <3>1. Acts(t, "flush", Memory(job[t].op, job[t].run, Stopped(g),
                                    job[t].token, job[t].argv, job[t].shown))
        BY <1>1, <2>3, StopActs
      <3>2. QED BY <2>1, <2>3, <3>1 DEF StopStep
    <2>4. CASE job[t].token # None /\ Goto(t, "verify") /\ UNCHANGED job
      BY <2>1, <2>4, GotoActs DEF HandStep
    <2>5. QED BY <1>7, <2>2, <2>3, <2>4 DEF ExecuteNode
  <1>8. CASE VerifyRefuses(t) \/ SpawnFails(t) \/ Exit(t)
    <2>1. /\ OnlyTrace /\ UNCHANGED trace
          /\ \/ \E f \in {"failed", "refused"} :
                  NodeReturns(t, Unsuccessful(g, f))
             \/ pc[t] = "wait" /\ NodeReturns(t, Succeeded(g))
      BY <1>8 DEF VerifyRefuses, SpawnFails, Exit, OnlyTrace, diskVars
    <2>2. g.next = "execute"
      BY <1>1, <1>8 DEF HeldAt, VerifyRefuses, SpawnFails, Exit
    <2>3. /\ \A f \in {"failed", "refused"} :
               Fails(g, Unsuccessful(g, f)) /\ WellFormed(Unsuccessful(g, f))
          /\ Advances(g, Succeeded(g)) /\ WellFormed(Succeeded(g))
      BY <1>1, <2>2, RunnerValues, RunnerReturns
    <2> HIDE DEF cut
    <2>4. ASSUME NEW f \in {"failed", "refused"},
                 NodeReturns(t, Unsuccessful(g, f))
          PROVE  ReturnStep(t, cut(Unsuccessful(g, f)))
      BY <1>1, <1>2, <2>1, <2>3, <2>4 DEF ReturnStep, Fails
    <2>5. pc[t] = "wait" /\ NodeReturns(t, Succeeded(g))
            => ReturnStep(t, cut(Succeeded(g)))
      BY <1>1, <1>2, <2>1, <2>3 DEF ReturnStep, Advances
    <2>6. QED BY <2>1, <2>4, <2>5
  <1>9. CASE FinalizeNode(t)
    <2> DEFINE final == IF g.status = "running" THEN "succeeded" ELSE g.status
               h == [g EXCEPT !.status = final, !.next = "end"]
    <2>1. /\ pc[t] = "graph" /\ g.next = "finalize" /\ OnlyTrace
          /\ NodeReturns(t, h)
          /\ trace' = [trace EXCEPT ![job[t].run] = final]
      BY <1>9 DEF FinalizeNode, AtNode, OnlyTrace
    <2>2. final \in Terminal
      BY <1>1, <1>3, <2>1 DEF WellFormed, GraphStates, Terminal
    <2> HIDE DEF final
    <2>3. /\ WellFormed(h) /\ h.next = "end" /\ h.status = final
          /\ h.plan = g.plan /\ h.index = g.index
      BY <1>3, <2>2 DEF WellFormed, GraphStates, Nodes
    <2> HIDE DEF h, cut
    <2>4. ReturnStep(t, cut(h))
      BY <1>2, <2>1, <2>2, <2>3 DEF ReturnStep, Finishes
    <2>5. QED BY <2>4
  <1>10. QED BY <1>5, <1>6, <1>7, <1>8, <1>9

-----------------------------------------------------------------------------
(* PlannedOnce: a run has one plan for ever *)

Planned(r) == ckpt[r] # None /\ ckpt[r].plan # <<>>

\* Worker t has graph values of run r; it drives r since a start.
Holds(t, r) == HasGraph(pc[t], job[t]) /\ job[t].run = r
Starts(t, r) == Drives(t, r) /\ job[t].op = "start"

\* The plan of run r is p, or not known yet, wherever there is a copy of it;
\* and every question about the run asked for the tool at its place in p.
Follows(r, p) ==
  /\ ckpt[r] # None => ckpt[r].plan \in {<<>>, p}
  /\ \A t \in Workers : Holds(t, r) => job[t].graph.plan \in {<<>>, p}
  /\ \A q \in seen[r] : q.index + 1 \in DOMAIN p /\ p[q.index + 1] = q.digest.tool

\* A worker whose copy has no plan yet is the one that started the run, and
\* nobody has seen anything of the plan it is about to make.
PlannerAlone(r) ==
  \A t \in Workers : Holds(t, r) /\ job[t].graph.plan = <<>> =>
    job[t].op = "start" /\ seen[r] = {} /\ ~Planned(r)

PlannedOnce(r) ==
  /\ \E p \in Plans \cup {<<>>} : Follows(r, p)
  /\ PlannerAlone(r)
  /\ seen[r] # {} => Planned(r)
  /\ \A t \in Workers :
       Holds(t, r) /\ pc[t] = "record" /\ job[t].graph.plan # <<>> => Planned(r)
  /\ \A t, u \in Workers : Starts(t, r) /\ Starts(u, r) => t = u
  /\ status[r] \in {"none", "planned"} =>
       ckpt[r] = None /\ seen[r] = {} /\ \A t \in Workers : ~Drives(t, r)
  /\ \A t \in Workers :
       Drives(t, r) /\ job[t].op # "start" => job[t].shown \in seen[r]

AllPlannedOnce == \A r \in Runs : PlannedOnce(r)

\* A worker with a graph drives the run.
LEMMA HoldsDrives ==
  ASSUME NEW t \in Workers, NEW r, Holds(t, r)
  PROVE  Drives(t, r)
  BY DEF Holds, Drives, HasGraph, GraphLabels, Driving, Labels

\* Run r before and after a step that at most takes drivers away from it.
FewerDrivers(r) ==
  /\ \A t \in Workers :
       Drives(t, r)' => pc'[t] = pc[t] /\ job'[t] = job[t]
  /\ ckpt'[r] = ckpt[r]
  /\ status'[r] \in {"none", "planned"} => status[r] \in {"none", "planned"}

LEMMA FewerPlanned ==
  ASSUME NEW r \in Runs, PlannedOnce(r), FewerDrivers(r), seen'[r] = seen[r]
  PROVE  PlannedOnce(r)'
  <1>1. ASSUME NEW t \in Workers, Drives(t, r)'
        PROVE  /\ pc'[t] = pc[t] /\ job'[t] = job[t] /\ Drives(t, r)
               /\ Holds(t, r)' <=> Holds(t, r)
               /\ Starts(t, r)' <=> Starts(t, r)
    BY <1>1 DEF FewerDrivers, Drives, Holds, Starts
  <1>2. \A t \in Workers : Holds(t, r)' => Drives(t, r)'
    BY DEF Holds, Drives, HasGraph, GraphLabels, Driving, Labels
  <1>3. \A t \in Workers : Starts(t, r)' => Drives(t, r)' BY DEF Starts
  <1>4. Planned(r)' <=> Planned(r) BY DEF Planned, FewerDrivers
  <1>5. PICK p \in Plans \cup {<<>>} : Follows(r, p) BY DEF PlannedOnce
  <1>6. Follows(r, p)' BY <1>1, <1>2, <1>5 DEF Follows, FewerDrivers
  <1>7. PlannerAlone(r)' BY <1>1, <1>2, <1>4 DEF PlannedOnce, PlannerAlone
  <1>8. \A t, u \in Workers : Starts(t, r)' /\ Starts(u, r)' => t = u
    BY <1>1, <1>3 DEF PlannedOnce
  <1>9. /\ (seen[r] # {} => Planned(r))'
        /\ \A t \in Workers : (Holds(t, r) /\ pc[t] = "record"
                               /\ job[t].graph.plan # <<>> => Planned(r))'
        /\ (status[r] \in {"none", "planned"} =>
              ckpt[r] = None /\ seen[r] = {}
              /\ \A t \in Workers : ~Drives(t, r))'
        /\ \A t \in Workers : (Drives(t, r) /\ job[t].op # "start" =>
                                 job[t].shown \in seen[r])'
    BY <1>1, <1>2, <1>4 DEF PlannedOnce, FewerDrivers
  <1>10. QED BY <1>6, <1>7, <1>8, <1>9 DEF PlannedOnce

\* A question about the plan's copy on disk is recorded.
LEMMA AskedPlanned ==
  ASSUME Typed, NEW r \in Runs, PlannedOnce(r), FewerDrivers(r), Planned(r), NEW q,
         seen'[r] = seen[r] \cup {q}, q.index + 1 \in DOMAIN ckpt[r].plan,
         ckpt[r].plan[q.index + 1] = q.digest.tool,
         status[r] \notin {"none", "planned"}
  PROVE  PlannedOnce(r)'
  <1>1. ASSUME NEW t \in Workers, Drives(t, r)'
        PROVE  /\ pc'[t] = pc[t] /\ job'[t] = job[t] /\ Drives(t, r)
               /\ Holds(t, r)' <=> Holds(t, r)
               /\ Starts(t, r)' <=> Starts(t, r)
    BY <1>1 DEF FewerDrivers, Drives, Holds, Starts
  <1>2. \A t \in Workers : Holds(t, r)' => Drives(t, r)'
    BY DEF Holds, Drives, HasGraph, GraphLabels, Driving, Labels
  <1>3. \A t \in Workers : Starts(t, r)' => Drives(t, r)' BY DEF Starts
  <1>4. Planned(r)' BY DEF Planned, FewerDrivers
  <1>5. PICK p \in Plans \cup {<<>>} : Follows(r, p) BY DEF PlannedOnce
  <1>6. ckpt[r].plan = p BY <1>5 DEF Follows, Planned
  <1>7. Follows(r, p)'
    BY <1>1, <1>2, <1>5, <1>6 DEF Follows, FewerDrivers
  <1>8. PlannerAlone(r)'
    BY <1>1, <1>2 DEF PlannedOnce, PlannerAlone
  <1>9. \A t, u \in Workers : Starts(t, r)' /\ Starts(u, r)' => t = u
    BY <1>1, <1>3 DEF PlannedOnce
  <1>10. \A t \in Workers : (Drives(t, r) /\ job[t].op # "start" =>
                               job[t].shown \in seen[r])'
    BY <1>1 DEF PlannedOnce
  <1>11. status'[r] \notin {"none", "planned"} BY DEF FewerDrivers
  <1>12. QED BY <1>4, <1>5, <1>7, <1>8, <1>9, <1>10, <1>11 DEF PlannedOnce

\* The driver of a run goes on: it keeps its run, operation and question, and
\* its plan; its graph may become the checkpoint.
Continues(t, l, j) ==
  /\ pc[t] \in Driving /\ l \in Driving
  /\ Acts(t, l, j)
  /\ j.run = job[t].run /\ j.op = job[t].op /\ j.shown = job[t].shown
  /\ HasGraph(l, j) =>
       HasGraph(pc[t], job[t]) /\ j.graph.plan = job[t].graph.plan
  /\ UNCHANGED rowVars
  /\ \/ UNCHANGED ckpt /\ (l = "record" => pc[t] = "record")
     \/ /\ HasGraph(pc[t], job[t])
        /\ ckpt' = [ckpt EXCEPT ![job[t].run] = job[t].graph]

\* Runs other than the one worker t works for see nothing of it.
LEMMA ElsewherePlanned ==
  ASSUME NEW t \in Workers, NEW r \in Runs, NEW l, NEW j, Acts(t, l, j),
         l = "idle" \/ j.run = r,
         AllPlannedOnce, NEW q \in Runs, q # r,
         ckpt'[q] = ckpt[q], status'[q] = status[q], seen'[q] = seen[q]
  PROVE  PlannedOnce(q)'
  <1>1. \A u \in Workers : Drives(u, q)' => pc'[u] = pc[u] /\ job'[u] = job[u]
    BY DEF Acts, Drives, Driving
  <1>2. QED BY <1>1, FewerPlanned DEF FewerDrivers, AllPlannedOnce

LEMMA ContinuesPlanned ==
  ASSUME Typed, AllPlannedOnce, NEW t \in Workers, NEW l, NEW j,
         Continues(t, l, j)
  PROVE  AllPlannedOnce'
  <1> DEFINE g == job[t].graph
  <1>0. job[t].run \in Runs
    <2>1. pc[t] # "idle" BY DEF Continues, Driving
    <2>2. job[t] \in Jobs BY <2>1 DEF Typed, HeldAt
    <2>3. QED BY <2>2 DEF Jobs
  <1>1. PICK r \in Runs : r = job[t].run BY <1>0
  <1>2. /\ UNCHANGED <<status, seen>>
        /\ \A q \in Runs : q # r => ckpt'[q] = ckpt[q]
    BY <1>1 DEF Continues, rowVars, Typed, TypeOK
  <1>3. ASSUME NEW q \in Runs, q # r PROVE PlannedOnce(q)'
    BY <1>1, <1>2, <1>3, ElsewherePlanned DEF Continues
  <1>4. \A u \in Workers : /\ Drives(u, r)' <=> Drives(u, r)
                           /\ Starts(u, r)' <=> Starts(u, r)
                           /\ job'[u].op = job[u].op
                           /\ job'[u].shown = job[u].shown
                           /\ job'[u].run = job[u].run
    BY DEF Continues, Acts, Drives, Starts
  <1>5. \A u \in Workers : Holds(u, r)' =>
          Holds(u, r) /\ job'[u].graph.plan = job[u].graph.plan
    BY DEF Continues, Acts, Holds
  <1>6. PICK p \in Plans \cup {<<>>} : Follows(r, p)
    BY <1>1 DEF AllPlannedOnce, PlannedOnce
  <1>7. PlannedOnce(r) BY <1>1 DEF AllPlannedOnce
  <1>8. Drives(t, r) BY <1>1 DEF Continues, Drives
  <1>9. \/ ckpt'[r] = ckpt[r] /\ (l = "record" => pc[t] = "record")
        \/ ckpt'[r] = g /\ Holds(t, r)
    BY <1>1 DEF Continues, Holds, Typed, TypeOK
  <1>10. Follows(r, p)' BY <1>2, <1>5, <1>6, <1>9 DEF Follows
  <1>11. Planned(r) => Planned(r)'
    <2> SUFFICES ASSUME Planned(r), ckpt'[r] = g, Holds(t, r)
                 PROVE  Planned(r)'
      BY <1>9 DEF Planned
    <2>1. g.plan # <<>> BY <1>7 DEF PlannedOnce, PlannerAlone
    <2>2. g # None
      BY NoneAssumption DEF Holds, HasGraph, GraphLabels, Typed, HeldAt,
         WellFormed
    <2>3. QED BY <2>1, <2>2 DEF Planned
  \* A plan that reaches the disk is in no conflict with a planner at work.
  <1>12. PlannerAlone(r)'
    <2> SUFFICES ASSUME NEW u \in Workers, Holds(u, r)',
                        job'[u].graph.plan = <<>>
                 PROVE  job'[u].op = "start" /\ seen'[r] = {} /\ ~Planned(r)'
      BY DEF PlannerAlone
    <2>1. Holds(u, r) /\ job[u].graph.plan = <<>> BY <1>5
    <2>2. job[u].op = "start" /\ seen[r] = {} /\ ~Planned(r)
      BY <1>7, <2>1 DEF PlannedOnce, PlannerAlone
    <2>3. job[t].op = "start" BY <1>7, <1>8, <2>2 DEF PlannedOnce
    <2>4. u = t
      BY <1>7, <1>8, <2>1, <2>2, <2>3, HoldsDrives DEF PlannedOnce, Starts
    <2>5. ~Planned(r)' BY <1>9, <2>1, <2>2, <2>4 DEF Planned
    <2>6. QED BY <1>2, <1>4, <2>2, <2>5
  <1>13. ASSUME NEW u \in Workers, Holds(u, r)', pc'[u] = "record",
                job'[u].graph.plan # <<>>
         PROVE  Planned(r)'
    <2>1. Holds(u, r) /\ job[u].graph.plan # <<>> BY <1>5, <1>13
    <2>2. CASE pc[u] = "record"
      BY <1>7, <1>11, <2>1, <2>2 DEF PlannedOnce
    <2>3. CASE pc[u] # "record"
      <3>1. u = t /\ l = "record"
        BY <1>13, <2>3 DEF Continues, Acts
      <3>2. ckpt'[r] = g BY <1>9, <2>3, <3>1
      <3>3. g # None
        BY <2>1, <3>1, NoneAssumption DEF Holds, HasGraph, GraphLabels,
           Typed, HeldAt, WellFormed
      <3>4. QED BY <2>1, <3>1, <3>2, <3>3 DEF Planned
    <2>4. QED BY <2>2, <2>3
  <1>14. /\ \A u, v \in Workers : Starts(u, r)' /\ Starts(v, r)' => u = v
         /\ seen'[r] # {} => Planned(r)'
         /\ status'[r] \notin {"none", "planned"}
         /\ \A u \in Workers : Drives(u, r)' /\ job'[u].op # "start" =>
              job'[u].shown \in seen'[r]
    BY <1>2, <1>4, <1>7, <1>8, <1>11 DEF PlannedOnce
  <1>15. PlannedOnce(r)'
    BY <1>6, <1>10, <1>12, <1>13, <1>14 DEF PlannedOnce
  <1>16. QED BY <1>3, <1>15 DEF AllPlannedOnce

\* Every step of the graph and the runner but one continues with the plan.
LEMMA StepContinues ==
  ASSUME Typed, Governed, NEW t \in Workers,
         \/ StopStep(t) \/ HandStep(t) \/ Verify(t) \/ Spawn(t) \/ Flush(t)
         \/ Raise(t) \/ Persist(t)
         \/ \E h : ReturnStep(t, h) /\ h.plan = job[t].graph.plan
  PROVE  \E l, j : Continues(t, l, j)
  <1> DEFINE g == job[t].graph
  <1>1. /\ {"graph", "fail", "verify", "spawn", "wait", "flush", "record",
            "issue"} \subseteq Driving
        /\ GraphLabels \subseteq Driving
    BY DEF Driving, Labels, GraphLabels
  <1>2. ASSUME NEW h, ReturnStep(t, h), h.plan = g.plan
        PROVE  Continues(t, "graph", Memory(job[t].op, job[t].run, h, None,
                                            None, job[t].shown))
    <2> DEFINE j == Memory(job[t].op, job[t].run, h, None, None, job[t].shown)
    <2>1. /\ j.run = job[t].run /\ j.op = job[t].op /\ j.shown = job[t].shown
          /\ j.graph = h
      BY DEF Memory
    <2>2. /\ Acts(t, "graph", j) /\ pc[t] \in GraphLabels
          /\ UNCHANGED rowVars /\ UNCHANGED ckpt
      BY <1>2 DEF ReturnStep, OnlyTrace, GraphLabels
    <2> HIDE DEF j
    <2>3. Continues(t, "graph", j)
      BY <1>1, <1>2, <2>1, <2>2 DEF Continues, HasGraph
    <2>4. QED BY <2>3 DEF j
  <1>3. CASE StopStep(t)
    <2> DEFINE j == Memory(job[t].op, job[t].run, Stopped(g), None,
                           job[t].argv, job[t].shown)
    <2>1. /\ j.run = job[t].run /\ j.op = job[t].op /\ j.shown = job[t].shown
          /\ j.graph = Stopped(g)
      BY DEF Memory
    <2>2. /\ Acts(t, "flush", j) /\ pc[t] \in GraphLabels
          /\ UNCHANGED rowVars /\ UNCHANGED ckpt
      BY <1>3 DEF StopStep, OnlyTrace, GraphLabels
    <2>3. WellFormed(g) /\ Settled(g, Level(job[t].run)) /\ g.next = "execute"
      BY <1>3, <2>2, GraphSound DEF Sound, StopStep
    <2>4. Stopped(g).plan = g.plan BY <2>3, StoppedSound
    <2> HIDE DEF j
    <2>5. Continues(t, "flush", j)
      BY <1>1, <2>1, <2>2, <2>4 DEF Continues, HasGraph
    <2>6. QED BY <2>5
  <1>4. CASE HandStep(t)
    <2>1. Continues(t, "verify", job[t])
      BY <1>1, <1>4 DEF HandStep, OnlyTrace, Continues, HasGraph, GraphLabels
    <2>2. QED BY <2>1
  <1>5. CASE Verify(t)
    <2> DEFINE j == Memory(job[t].op, job[t].run, g, job[t].token,
                           CurrentDigest(g), job[t].shown)
    <2>1. /\ j.run = job[t].run /\ j.op = job[t].op /\ j.shown = job[t].shown
          /\ j.graph = g
      BY DEF Memory
    <2>2. Acts(t, "spawn", j) BY <1>5, VerifyActs
    <2>3. pc[t] \in GraphLabels /\ UNCHANGED rowVars /\ UNCHANGED ckpt
      BY <1>5 DEF Verify, GraphLabels
    <2> HIDE DEF j
    <2>4. Continues(t, "spawn", j)
      BY <1>1, <2>1, <2>2, <2>3 DEF Continues, HasGraph
    <2>5. QED BY <2>4
  <1>6. CASE Spawn(t)
    <2>1. Acts(t, "wait", job[t]) BY <1>6, GotoActs DEF Spawn
    <2>2. Continues(t, "wait", job[t])
      BY <1>1, <1>6, <2>1 DEF Spawn, diskVars, Continues, HasGraph,
         GraphLabels
    <2>3. QED BY <2>2
  <1>7. CASE Flush(t)
    <2>1. Acts(t, "record", job[t]) BY <1>7, GotoActs DEF Flush
    <2>2. Continues(t, "record", job[t])
      BY <1>1, <1>7, <2>1 DEF Flush, AtNode, Continues, HasGraph, GraphLabels
    <2>3. QED BY <2>2
  <1>8. CASE Raise(t)
    <2>1. Acts(t, "fail", job[t]) BY <1>8, GotoActs DEF Raise
    <2>2. pc[t] \in Driving /\ UNCHANGED rowVars /\ UNCHANGED ckpt
      BY <1>1, <1>8 DEF Raise, diskVars
    <2>3. HasGraph("fail", job[t]) => HasGraph(pc[t], job[t])
      BY <1>8 DEF Raise, HasGraph, GraphLabels, Governed, GovernedAt
    <2>4. Continues(t, "fail", job[t])
      BY <1>1, <2>1, <2>2, <2>3 DEF Continues
    <2>5. QED BY <2>4
  <1>9. CASE Persist(t)
    <2>1. Acts(t, pc[t], job[t]) /\ HasGraph(pc[t], job[t])
      BY <1>9 DEF Persist, Acts, HasGraph, GraphLabels
    <2>2. Continues(t, pc[t], job[t])
      BY <1>1, <1>9, <2>1 DEF Persist, Continues
    <2>3. QED BY <2>2
  <1>10. QED BY <1>2, <1>3, <1>4, <1>5, <1>6, <1>7, <1>8, <1>9

\* The planner is called for a run that has no plan anywhere.
LEMMA ChoicePlanned ==
  ASSUME Typed, Governed, AllPlannedOnce, NEW t \in Workers, NEW h,
         ReturnStep(t, h), pc[t] = "graph", ChoosesPlan(job[t].graph, h)
  PROVE  AllPlannedOnce'
  <1> DEFINE j == Memory(job[t].op, job[t].run, h, None, None, job[t].shown)
  <1>0. job[t].run \in Runs
    BY DEF Typed, HeldAt, Jobs
  <1>1. PICK r \in Runs : r = job[t].run BY <1>0
  <1>2. Acts(t, "graph", j) /\ UNCHANGED <<rowVars, ckpt>>
    BY DEF ReturnStep, OnlyTrace
  <1>3. /\ j.run = r /\ j.graph = h /\ j.op = job[t].op
        /\ j.shown = job[t].shown
    BY <1>1 DEF Memory
  <1> HIDE DEF j
  <1>4. ASSUME NEW q \in Runs, q # r PROVE PlannedOnce(q)'
    BY <1>2, <1>3, <1>4, ElsewherePlanned DEF rowVars
  <1>5. PlannedOnce(r) BY DEF AllPlannedOnce
  <1>6. Holds(t, r) /\ Drives(t, r)
    BY <1>1 DEF Holds, HasGraph, GraphLabels, Drives, Driving, Labels
  <1>7. job[t].graph.plan = <<>>
    BY GraphSound DEF GraphLabels, ChoosesPlan, Sound, Settled
  <1>8. job[t].op = "start" /\ seen[r] = {} /\ ~Planned(r)
    BY <1>5, <1>6, <1>7 DEF PlannedOnce, PlannerAlone
  <1>9. ASSUME NEW u \in Workers, u # t PROVE ~Drives(u, r)
    <2> SUFFICES ASSUME Drives(u, r) PROVE FALSE OBVIOUS
    <2>1. job[u].op # "start"
      BY <1>5, <1>6, <1>8, <1>9 DEF PlannedOnce, Starts
    <2>2. job[u].shown \in seen[r] BY <1>5, <2>1 DEF PlannedOnce
    <2>3. QED BY <1>8, <2>2
  <1>10. /\ \A u \in Workers : Drives(u, r)' => u = t
         /\ \A u \in Workers : Holds(u, r)' => u = t
    <2>1. \A u \in Workers : Drives(u, r)' => u = t
      BY <1>2, <1>9 DEF Acts, Drives
    <2>2. \A u \in Workers : Holds(u, r)' => Drives(u, r)'
      BY DEF Holds, Drives, HasGraph, GraphLabels, Driving, Labels
    <2>3. QED BY <2>1, <2>2
  <1>11. h.plan \in Plans /\ h.plan # <<>>
    <2>1. h.plan \in Plans BY DEF ChoosesPlan
    <2>2. 1 \in 1..Len(h.plan) BY <2>1, PlansTyped
    <2>3. QED BY <2>1, <2>2
  <1>12. Follows(r, h.plan)'
    BY <1>2, <1>3, <1>8, <1>10 DEF Follows, Planned, Acts, rowVars
  <1>13. PlannerAlone(r)'
    BY <1>2, <1>3, <1>10, <1>11 DEF PlannerAlone, Acts
  <1>14. /\ \A u, v \in Workers : Starts(u, r)' /\ Starts(v, r)' => u = v
         /\ seen'[r] = {}
         /\ pc'[t] = "graph" /\ job'[t].op = "start"
         /\ status'[r] \notin {"none", "planned"}
    <2>1. status[r] \notin {"none", "planned"}
      BY <1>5, <1>6 DEF PlannedOnce
    <2>2. QED
      BY <1>2, <1>3, <1>8, <1>10, <2>1 DEF Starts, Acts, rowVars
  <1>15. PlannedOnce(r)'
    <2>1. \A u \in Workers : pc'[u] = "record" => ~Holds(u, r)'
      BY <1>10, <1>14
    <2>2. \A u \in Workers : Drives(u, r)' => job'[u].op = "start"
      BY <1>10, <1>14
    <2>3. QED
      BY <1>11, <1>12, <1>13, <1>14, <2>1, <2>2 DEF PlannedOnce
  <1>16. QED BY <1>4, <1>15 DEF AllPlannedOnce

\* The claims: the first start of a run, a click, and the resume from the
\* checkpoint, which has the plan the click was about.
LEMMA ClaimStartPlanned ==
  ASSUME Typed, AllPlannedOnce, NEW t \in Workers, ClaimStart(t),
         job[t].op = "start"
  PROVE  AllPlannedOnce'
  <1> DEFINE j == Memory(job[t].op, job[t].run, InitialGraph, job[t].token,
                         job[t].argv, job[t].shown)
  <1>0. job[t].run \in Runs BY DEF ClaimStart, Typed, HeldAt, Jobs
  <1>1. PICK r \in Runs : r = job[t].run BY <1>0
  <1>2. /\ Acts(t, "graph", j)
        /\ status[r] = "planned" /\ UNCHANGED <<seen, ckpt>>
        /\ status' = [status EXCEPT ![r] = "starting"]
    BY <1>1, ClaimStartActs DEF ClaimStart, Claimable, diskVars
  <1>3. j.run = r /\ j.op = "start" /\ j.graph = InitialGraph
    BY <1>1 DEF Memory
  <1> HIDE DEF j
  <1>4. /\ \A q \in Runs : q # r => status'[q] = status[q]
        /\ status'[r] = "starting"
    BY <1>2 DEF Typed, TypeOK
  <1>5. ASSUME NEW q \in Runs, q # r PROVE PlannedOnce(q)'
    BY <1>2, <1>3, <1>4, <1>5, ElsewherePlanned
  <1>6. ckpt[r] = None /\ seen[r] = {} /\ \A u \in Workers : ~Drives(u, r)
    BY <1>2 DEF AllPlannedOnce, PlannedOnce
  <1>7. /\ \A u \in Workers : Drives(u, r)' => u = t
        /\ \A u \in Workers : Holds(u, r)' => u = t
    <2>1. \A u \in Workers : Drives(u, r)' => u = t
      BY <1>2, <1>6 DEF Acts, Drives
    <2>2. \A u \in Workers : Holds(u, r)' => Drives(u, r)'
      BY DEF Holds, Drives, HasGraph, GraphLabels, Driving, Labels
    <2>3. QED BY <2>1, <2>2
  <1>8. pc'[t] = "graph" /\ job'[t] = j BY <1>2 DEF Acts
  <1>9. Follows(r, <<>>)'
    BY <1>2, <1>3, <1>6, <1>7, <1>8 DEF Follows, InitialGraph
  <1>10. PlannerAlone(r)'
    BY <1>2, <1>3, <1>6, <1>7, <1>8 DEF PlannerAlone, Planned
  <1>11. /\ \A u, v \in Workers : Starts(u, r)' /\ Starts(v, r)' => u = v
         /\ \A u \in Workers : pc'[u] = "record" => ~Holds(u, r)'
         /\ \A u \in Workers : Drives(u, r)' => job'[u].op = "start"
         /\ seen'[r] = {}
    BY <1>2, <1>3, <1>6, <1>7, <1>8 DEF Starts
  <1>12. PlannedOnce(r)' BY <1>4, <1>9, <1>10, <1>11 DEF PlannedOnce
  <1>13. QED BY <1>5, <1>12 DEF AllPlannedOnce

LEMMA ClaimPendingPlanned ==
  ASSUME Typed, AllPlannedOnce, NEW t \in Workers, NEW r \in Runs,
         NEW c \in seen[r], NEW o \in {"approve", "decline"},
         ClaimPending(t, r, c, o)
  PROVE  AllPlannedOnce'
  <1> DEFINE j == Memory(o, r, None, None, None, c)
             l == IF o = "approve" THEN "issue" ELSE "refuse"
  <1>1. Acts(t, l, j) /\ UNCHANGED <<seen, ckpt>> /\ pc[t] = "idle"
    BY ClaimActs DEF ClaimPending, diskVars
  <1>2. /\ status' = [status EXCEPT ![r] = "approving"]
        /\ status[r] = "waiting_for_approval"
    BY DEF ClaimPending
  <1>3. /\ j.run = r /\ j.op # "start" /\ j.shown = c
        /\ l \in {"issue", "refuse"}
    BY DEF Memory
  <1> HIDE DEF j, l
  <1>4. /\ \A q \in Runs : q # r => status'[q] = status[q]
        /\ status'[r] = "approving"
    BY <1>2 DEF Typed, TypeOK
  <1>5. ASSUME NEW q \in Runs, q # r PROVE PlannedOnce(q)'
    BY <1>1, <1>3, <1>4, <1>5, ElsewherePlanned
  <1>6. pc'[t] = l /\ job'[t] = j BY <1>1 DEF Acts
  <1>7. \A u \in Workers : /\ u # t => /\ Holds(u, r)' <=> Holds(u, r)
                                       /\ Starts(u, r)' <=> Starts(u, r)
                                       /\ Drives(u, r)' <=> Drives(u, r)
                                       /\ job'[u] = job[u] /\ pc'[u] = pc[u]
                           /\ u = t => ~Holds(u, r)' /\ ~Starts(u, r)'
    BY <1>1, <1>3, <1>6 DEF Acts, Holds, Starts, Drives, HasGraph,
       GraphLabels
  <1>8. PlannedOnce(r) BY DEF AllPlannedOnce
  <1>9. PICK p \in Plans \cup {<<>>} : Follows(r, p)
    BY <1>8 DEF PlannedOnce
  <1>10. Planned(r)' <=> Planned(r) BY <1>1 DEF Planned
  <1>11. Follows(r, p)' BY <1>1, <1>7, <1>9 DEF Follows
  <1>12. PlannerAlone(r)'
    BY <1>1, <1>7, <1>8, <1>10 DEF PlannedOnce, PlannerAlone
  <1>13. \A u, v \in Workers : Starts(u, r)' /\ Starts(v, r)' => u = v
    BY <1>7, <1>8 DEF PlannedOnce
  <1>14. /\ \A u \in Workers : (Drives(u, r) /\ job[u].op # "start" =>
                                  job[u].shown \in seen[r])'
         /\ \A u \in Workers : (Holds(u, r) /\ pc[u] = "record"
                                /\ job[u].graph.plan # <<>> => Planned(r))'
         /\ (seen[r] # {} => Planned(r))'
    BY <1>1, <1>3, <1>6, <1>7, <1>8, <1>10 DEF PlannedOnce
  <1>15. PlannedOnce(r)'
    BY <1>4, <1>9, <1>11, <1>12, <1>13, <1>14 DEF PlannedOnce
  <1>16. QED BY <1>5, <1>15 DEF AllPlannedOnce

LEMMA IssuePlanned ==
  ASSUME Typed, AllPlannedOnce, NEW t \in Workers, IssueAndResume(t),
         job[t].op # "start"
  PROVE  AllPlannedOnce'
  <1> DEFINE j == Memory(job[t].op, job[t].run, ckpt[job[t].run], Issued(t),
                         job[t].argv, job[t].shown)
  <1>0. job[t].run \in Runs BY DEF IssueAndResume, Typed, HeldAt, Jobs
  <1>1. PICK r \in Runs : r = job[t].run BY <1>0
  <1>2. /\ Acts(t, "graph", j) /\ UNCHANGED <<status, seen, ckpt>>
        /\ pc[t] = "issue"
    BY IssueActs DEF IssueAndResume, diskVars, rowVars
  <1>3. /\ j.run = r /\ j.op = job[t].op /\ j.graph = ckpt[r]
        /\ j.shown = job[t].shown
    BY <1>1 DEF Memory
  <1> HIDE DEF j
  <1>4. ASSUME NEW q \in Runs, q # r PROVE PlannedOnce(q)'
    BY <1>2, <1>3, <1>4, ElsewherePlanned
  <1>5. PlannedOnce(r) /\ Drives(t, r)
    BY <1>1, <1>2 DEF AllPlannedOnce, Drives, Driving, Labels
  <1>6. Planned(r) BY <1>5 DEF PlannedOnce
  <1>7. pc'[t] = "graph" /\ job'[t] = j BY <1>2 DEF Acts
  <1>8. \A u \in Workers :
          /\ u # t => /\ Holds(u, r)' <=> Holds(u, r)
                      /\ job'[u] = job[u] /\ pc'[u] = pc[u]
          /\ Starts(u, r)' <=> Starts(u, r)
          /\ Drives(u, r)' <=> Drives(u, r)
    BY <1>1, <1>2, <1>3, <1>5, <1>7
    DEF Acts, Holds, Starts, Drives, Driving, Labels
  <1>9. PICK p \in Plans \cup {<<>>} : Follows(r, p)
    BY <1>5 DEF PlannedOnce
  <1>10. Planned(r)' BY <1>2, <1>6 DEF Planned
  <1>11. Follows(r, p)'
    BY <1>2, <1>3, <1>6, <1>7, <1>8, <1>9 DEF Follows, Planned
  <1>12. PlannerAlone(r)'
    <2> SUFFICES ASSUME NEW u \in Workers, Holds(u, r)',
                        job'[u].graph.plan = <<>>
                 PROVE  FALSE
      BY DEF PlannerAlone
    <2>1. u # t BY <1>3, <1>6, <1>7 DEF Planned
    <2>2. QED BY <1>5, <1>6, <1>8, <2>1 DEF PlannedOnce, PlannerAlone
  <1>13. \A u, v \in Workers : Starts(u, r)' /\ Starts(v, r)' => u = v
    BY <1>5, <1>8 DEF PlannedOnce
  <1>14. \A u \in Workers : (Drives(u, r) /\ job[u].op # "start" =>
                               job[u].shown \in seen[r])'
    BY <1>2, <1>3, <1>5, <1>7, <1>8 DEF PlannedOnce
  <1>15. status'[r] \notin {"none", "planned"} BY <1>2, <1>5 DEF PlannedOnce
  <1>16. PlannedOnce(r)'
    BY <1>9, <1>10, <1>11, <1>12, <1>13, <1>14, <1>15 DEF PlannedOnce
  <1>17. QED BY <1>4, <1>16 DEF AllPlannedOnce

\* A result is recorded in the row it belongs to.  An interrupt is a question
\* about the plan that is on disk by then.
LEMMA UpdatePlanned ==
  ASSUME Typed, Governed, AllPlannedOnce, NEW r \in Runs, NEW e, NEW g,
         e \notin {"none", "planned"},
         \/ \E f \in Terminal : MarkTerminal(r, e, f)
         \/ /\ WellFormed(g) /\ Returnable(g) /\ Sound(g, Level(r))
            /\ UpdateFromResult(r, e, g),
         g.plan # <<>> => Planned(r) /\ ckpt[r].plan = g.plan,
         UNCHANGED ckpt,
         \A u \in Workers : \/ pc'[u] = "idle"
                            \/ pc'[u] = pc[u] /\ job'[u] = job[u]
  PROVE  AllPlannedOnce'
  <1>1. \A q \in Runs, u \in Workers :
          Drives(u, q)' => pc'[u] = pc[u] /\ job'[u] = job[u]
    BY DEF Drives, Driving
  <1>2. ASSUME NEW q \in Runs, status'[q] = status[q], seen'[q] = seen[q]
        PROVE  PlannedOnce(q)'
    BY <1>1, <1>2, FewerPlanned DEF FewerDrivers, AllPlannedOnce
  <1>3. CASE UNCHANGED rowVars BY <1>2, <1>3 DEF rowVars, AllPlannedOnce
  <1>4. ASSUME status[r] = e, NEW f \in Terminal, MarkTerminal(r, e, f)
        PROVE  AllPlannedOnce'
    <2>1. /\ status' = [status EXCEPT ![r] = f] /\ UNCHANGED seen
      BY <1>4 DEF MarkTerminal
    <2>2. /\ status'[r] = f /\ \A q \in Runs : q # r => status'[q] = status[q]
      BY <2>1 DEF Typed, TypeOK
    <2>3. PlannedOnce(r)'
      BY <1>1, <2>1, <2>2, FewerPlanned
      DEF FewerDrivers, AllPlannedOnce, Terminal
    <2>4. QED BY <1>2, <2>1, <2>2, <2>3 DEF AllPlannedOnce
  <1>5. ASSUME status[r] = e, WellFormed(g), Returnable(g),
               Sound(g, Level(r)), UpdateFromResult(r, e, g)
        PROVE  AllPlannedOnce'
    <2> DEFINE q == [index |-> g.index, digest |-> g.interrupt]
    <2>1. /\ status' = [status EXCEPT ![r] = ResultStatus(g)]
          /\ seen' = IF g.interrupt = None THEN seen
                     ELSE [seen EXCEPT ![r] = @ \cup {q}]
      BY <1>5 DEF UpdateFromResult
    <2>2. q.index = g.index /\ q.digest = g.interrupt OBVIOUS
    <2> HIDE DEF q
    <2>3. /\ status'[r] = ResultStatus(g)
          /\ \A x \in Runs : x # r =>
               status'[x] = status[x] /\ seen'[x] = seen[x]
          /\ g.interrupt = None => seen'[r] = seen[r]
          /\ g.interrupt # None => seen'[r] = seen[r] \cup {q}
      BY <2>1 DEF Typed, TypeOK
    <2>4. FewerDrivers(r)
      <3>1. status[r] \notin {"none", "planned"} BY <1>5
      <3>2. CASE g.interrupt # None
        BY <1>1, <2>3, <3>2 DEF FewerDrivers, ResultStatus
      <3>3. CASE g.interrupt = None
        <4>1. g.status \notin {"none", "planned"}
          BY <1>5, <3>3 DEF Returnable, Terminal
        <4>2. QED BY <1>1, <2>3, <3>3, <4>1 DEF FewerDrivers, ResultStatus
      <3>4. QED BY <3>2, <3>3
    <2>5. CASE g.interrupt = None
      BY <1>2, <2>3, <2>4, <2>5, FewerPlanned DEF AllPlannedOnce
    <2>6. CASE g.interrupt # None
      <3>1. /\ g.next = "execute" /\ g.interrupt.tool = g.plan[g.index + 1]
        BY <1>5, <2>6 DEF Sound, Asks
      <3>2. g.index + 1 \in DOMAIN g.plan
        BY <1>5, <3>1 DEF WellFormed, GraphStates
      <3>3. g.plan # <<>> BY <3>2
      <3>4. PlannedOnce(r)'
        BY <1>5, <2>2, <2>3, <2>4, <2>6, <3>1, <3>2, <3>3, AskedPlanned
        DEF AllPlannedOnce
      <3>5. QED BY <1>2, <2>3, <3>4 DEF AllPlannedOnce
    <2>7. QED BY <2>5, <2>6
  <1>6. QED
    BY <1>3, <1>4, <1>5 DEF MarkTerminal, UpdateFromResult

=============================================================================
