-------------------------- MODULE AgentServiceGate --------------------------
(***************************************************************************)
(* Proofs about what reaches the operating system, what a row says, and    *)
(* what a human is asked, for any number of runs, processes, threads,      *)
(* tools, crashes and restarts: every launch is the very action a person   *)
(* saw and approved, a waiting row can be approved, a succeeded one is     *)
(* earned, no command that the row counts is launched again, and the       *)
(* service implements HumanGate.                                           *)
(*                                                                         *)
(* Answered is about capabilities: they carry the answer they were signed  *)
(* for, are never reused, spent before the launch, and held by one worker. *)
(*                                                                         *)
(* A restart only has the newest checkpoint, which lags behind the launches*)
(* and behind the worker that made it, and the row lags behind it again.   *)
(* Resumable says what they have in common: whatever copy of the graph is  *)
(* resumed or projected onto the row, the actions before its index have    *)
(* been launched, and the position the row counts up to is the one its     *)
(* question is about.                                                      *)
(*                                                                         *)
(* HumanGate asks in order, and the service has no such thing as an order  *)
(* of questions: it stops wherever a graph happens to be.  Asking is what  *)
(* makes every stop the right one: a graph about to ask is at the first    *)
(* action of a run nobody was asked about, or at the one after the latest  *)
(* question, which has been launched; and an answer in flight is always to *)
(* the latest question.                                                    *)
(***************************************************************************)
EXTENDS AgentServiceProofs

-----------------------------------------------------------------------------
(* Answered: capabilities and the commands they pay for *)

\* What the request and the capability of a worker at label l amount to: a
\* capability answers the question the worker was sent with, and one that has
\* passed verification is spent on the action at hand and on nothing else.
AnswerAt(l, j) ==
  l # "idle" =>
    /\ l = "claim" => j.op = "start"
    /\ l \in {"issue", "refuse"} => j.op # "start"
    /\ j.op = "start" => j.token = None
    /\ j.token # None =>
         j.token.digest = j.shown.digest /\ j.token.id < minted
    /\ l \in {"spawn", "wait"} =>
         /\ j.token.id \in spent
         /\ j.shown = [index |-> j.graph.index, digest |-> j.argv]
    /\ l = "spawn" => \A i \in DOMAIN launches : launches[i].id # j.token.id

\* No two workers hold the same capability.
Bears(t) == pc[t] # "idle" /\ job[t].token # None
OneBearer ==
  \A t, u \in Workers :
    Bears(t) /\ Bears(u) /\ job[t].token.id = job[u].token.id => t = u

Answered ==
  /\ \A t \in Workers : AnswerAt(pc[t], job[t])
  /\ \A i \in spent : i < minted
  /\ OneBearer
  /\ LaunchIsAuthorised

\* What a step of anybody else leaves of a worker's answer.
Grows ==
  /\ \A r \in Runs : seen[r] \subseteq seen'[r]
  /\ spent \subseteq spent' /\ \A i \in spent' : i < minted'
  /\ minted' \in Nat /\ minted <= minted'

LEMMA LaunchesTyped ==
  ASSUME Typed
  PROVE  \A i \in DOMAIN launches : launches[i] \in Launches
  BY DEF Typed, TypeOK

\* A step of worker t that launches nothing.
LEMMA MovesAnswered ==
  ASSUME Typed, Answered, Grows, UNCHANGED launches, NEW t \in Workers,
         NEW l, NEW j, Acts(t, l, j), AnswerAt(l, j)',
         \/ l = "idle" \/ j.token = None
         \/ pc[t] # "idle" /\ j.token = job[t].token
         \/ j.token.id = minted
  PROVE  Answered'
  <1>1. minted \in Nat /\ launches \in Seq(Launches) BY DEF Typed, TypeOK
  <1>2. \A u \in Workers : Bears(u) =>
          job[u].token.id \in Nat /\ job[u].token.id < minted
    <2> SUFFICES ASSUME NEW u \in Workers, Bears(u)
                 PROVE  job[u].token.id \in Nat /\ job[u].token.id < minted
      OBVIOUS
    <2>1. job[u] \in Jobs BY DEF Bears, Typed, HeldAt
    <2>2. job[u].token \in Tokens BY <2>1 DEF Bears, Jobs
    <2>3. job[u].token.id \in Nat BY <2>2 DEF Tokens
    <2>4. QED BY <2>3 DEF Bears, Answered, AnswerAt
  <1>3. ASSUME NEW u \in Workers PROVE AnswerAt(pc[u], job[u])'
    <2>1. CASE u = t BY <2>1 DEF Acts, AnswerAt
    <2>2. CASE u # t /\ pc[u] # "idle"
      <3>1. pc'[u] = pc[u] /\ job'[u] = job[u] /\ AnswerAt(pc[u], job[u])
        BY <2>2 DEF Acts, Answered
      <3>2. job[u].token # None => job[u].token.id < minted'
        BY <1>1, <1>2, <2>2 DEF Bears, Grows
      <3>3. QED BY <3>1, <3>2 DEF AnswerAt, Grows
    <2>3. CASE u # t /\ pc[u] = "idle" BY <2>3 DEF Acts, AnswerAt
    <2>4. QED BY <2>1, <2>2, <2>3
  <1>4. \A i \in spent' : i < minted' BY DEF Grows
  <1>5. OneBearer'
    <2>1. pc'[t] = l /\ job'[t] = j BY DEF Acts
    <2>2. \A u \in Workers : u # t =>
            (Bears(u)' <=> Bears(u)) /\ job'[u] = job[u]
      BY DEF Acts, Bears
    <2>3. ASSUME NEW u \in Workers, u # t, Bears(u), Bears(t)',
                 j.token.id = job[u].token.id
          PROVE  FALSE
      <3>1. l # "idle" /\ j.token # None BY <2>1, <2>3 DEF Bears
      <3>2. CASE pc[t] # "idle" /\ j.token = job[t].token
        BY <2>3, <3>1, <3>2 DEF Answered, OneBearer, Bears
      <3>3. CASE j.token.id = minted
        <4>1. minted < minted BY <1>2, <2>3, <3>3
        <4>2. QED BY <1>1, <4>1
      <3>4. QED BY <3>1, <3>2, <3>3
    <2>4. QED BY <2>1, <2>2, <2>3 DEF Answered, OneBearer
  <1>6. LaunchIsAuthorised'
    <2>1. \A i \in DOMAIN launches : launches[i].run \in Runs
      BY LaunchesTyped DEF Launches
    <2>2. QED BY <2>1 DEF Answered, LaunchIsAuthorised, Grows
  <1>7. QED BY <1>3, <1>4, <1>5, <1>6 DEF Answered

\* Threads vanish or stay as they are, and rows are updated.
LEMMA RowsAnswered ==
  ASSUME Typed, Answered, UNCHANGED <<spent, minted, launches>>,
         \A r \in Runs : seen[r] \subseteq seen'[r],
         \A u \in Workers : \/ pc'[u] = "idle"
                            \/ pc'[u] = pc[u] /\ job'[u] = job[u]
  PROVE  Answered'
  <1>1. \A u \in Workers : Bears(u)' => Bears(u) /\ job'[u] = job[u]
    BY DEF Bears
  <1>2. OneBearer' BY <1>1 DEF Answered, OneBearer
  <1>3. \A u \in Workers : AnswerAt(pc[u], job[u])'
    BY DEF Answered, AnswerAt
  <1>4. LaunchIsAuthorised'
    <2>1. \A i \in DOMAIN launches : launches[i].run \in Runs
      BY LaunchesTyped DEF Launches
    <2>2. QED BY <2>1 DEF Answered, LaunchIsAuthorised
  <1>5. QED BY <1>2, <1>3, <1>4 DEF Answered

LEMMA StillGrows ==
  ASSUME Typed, Answered, UNCHANGED <<spent, minted>>,
         \A r \in Runs : seen[r] \subseteq seen'[r]
  PROVE  Grows
  BY DEF Typed, TypeOK, Answered, Grows

\* The position of a question in the plan is where its tool is: a plan names
\* no tool twice.
LEMMA QuestionPlaced ==
  ASSUME NEW r \in Runs, PlannedOnce(r), NEW t \in Workers, Holds(t, r),
         Drives(t, r), job[t].op # "start", WellFormed(job[t].graph),
         job[t].graph.next = "execute", job[t].shown \in Challenges,
         job[t].shown.digest = CurrentDigest(job[t].graph)
  PROVE  job[t].shown = [index |-> job[t].graph.index,
                         digest |-> CurrentDigest(job[t].graph)]
  <1> DEFINE g == job[t].graph
             q == job[t].shown
             d == CurrentDigest(g)
  <1>1. PICK p \in Plans \cup {<<>>} : Follows(r, p) BY DEF PlannedOnce
  <1>2. g.index + 1 \in DOMAIN g.plan /\ g.index \in Nat
    BY DEF WellFormed, GraphStates
  <1>3. g.plan = p /\ p \in Plans BY <1>1, <1>2 DEF Follows
  <1>4. d.tool = p[g.index + 1] BY <1>3 DEF CurrentDigest
  <1>5. q \in seen[r] BY DEF PlannedOnce
  <1>6. q.index + 1 \in DOMAIN p /\ p[q.index + 1] = d.tool
    BY <1>1, <1>5 DEF Follows
  <1>7. q.index + 1 = g.index + 1
    BY <1>2, <1>3, <1>4, <1>6 DEF Plans
  <1>8. q = [index |-> q.index, digest |-> q.digest] /\ q.index \in Nat
    BY DEF Challenges
  <1> HIDE DEF d, q
  <1>9. q.index = g.index BY <1>2, <1>7, <1>8
  <1>10. q.digest = d BY DEF q, d
  <1>11. QED BY <1>8, <1>9, <1>10 DEF q, d

\* Requests and claims hold no capability yet; one that is issued is new.
LEMMA ClaimAnswered ==
  ASSUME Typed, Answered, NEW t \in Workers,
         \/ Request(t) \/ ClaimStart(t) \/ IssueAndResume(t)
  PROVE  Answered'
  <1>1. ASSUME NEW r \in Runs, StartRequest(t, r) PROVE Answered'
    <2>0. PICK j : j = Memory("start", r, None, None, None, None) OBVIOUS
    <2>1. Acts(t, "claim", j) BY <1>1, <2>0, StartActs
    <2>2. UNCHANGED <<seen, spent, minted, launches>>
      BY <1>1 DEF StartRequest, rowVars, diskVars, worldVars
    <2>3. j.op = "start" /\ j.token = None BY <2>0 DEF Memory
    <2>4. AnswerAt("claim", j)' BY <2>3 DEF AnswerAt
    <2>5. QED BY <2>1, <2>2, <2>3, <2>4, MovesAnswered, StillGrows
  <1>2. ASSUME NEW r \in Runs, NEW c \in seen[r],
               NEW o \in {"approve", "decline"}, ClaimPending(t, r, c, o)
        PROVE  Answered'
    <2>0. PICK j, l : /\ j = Memory(o, r, None, None, None, c)
                      /\ l = IF o = "approve" THEN "issue" ELSE "refuse"
      OBVIOUS
    <2>1. Acts(t, l, j) BY <1>2, <2>0, ClaimActs
    <2>2. UNCHANGED <<seen, spent, minted, launches>>
      BY <1>2 DEF ClaimPending, diskVars, worldVars
    <2>3. j.op # "start" /\ j.token = None /\ l \in {"issue", "refuse"}
      BY <2>0 DEF Memory
    <2>4. AnswerAt(l, j)' BY <2>3 DEF AnswerAt
    <2>5. QED BY <2>1, <2>2, <2>3, <2>4, MovesAnswered, StillGrows
  <1>3. CASE ClaimStart(t)
    <2>0. PICK j : j =
        Memory(job[t].op, job[t].run, InitialGraph, job[t].token,
               job[t].argv, job[t].shown)
      OBVIOUS
    <2>1. Acts(t, "graph", j) /\ pc[t] = "claim"
      BY <1>3, <2>0, ClaimStartActs DEF ClaimStart
    <2>2. UNCHANGED <<seen, spent, minted, launches>>
      BY <1>3 DEF ClaimStart, diskVars, worldVars
    <2>3. j.op = job[t].op /\ j.token = job[t].token BY <2>0 DEF Memory
    <2>4. job[t].token = None BY <2>1 DEF Answered, AnswerAt
    <2>5. AnswerAt("graph", j)' BY <2>3, <2>4 DEF AnswerAt
    <2>6. QED BY <2>1, <2>2, <2>3, <2>4, <2>5, MovesAnswered, StillGrows
  <1>4. CASE IssueAndResume(t)
    <2>0. PICK j : j =
        Memory(job[t].op, job[t].run, ckpt[job[t].run], Issued(t),
               job[t].argv, job[t].shown)
      OBVIOUS
    <2>1. Acts(t, "graph", j) /\ pc[t] = "issue"
      BY <1>4, <2>0, IssueActs DEF IssueAndResume
    <2>2. UNCHANGED <<seen, spent, launches>> /\ minted' = minted + 1
      BY <1>4 DEF IssueAndResume, rowVars, diskVars
    <2>3. /\ j.op = job[t].op /\ j.token = Issued(t)
          /\ j.shown = job[t].shown
      BY <2>0 DEF Memory
    <2>4. job[t].op # "start" BY <2>1 DEF Answered, AnswerAt
    <2>5. minted \in Nat /\ minted < minted' /\ spent \subseteq Nat
      BY <2>2 DEF Typed, TypeOK
    <2>6. AnswerAt("graph", j)'
      BY <2>3, <2>4, <2>5 DEF AnswerAt, Issued
    <2>7. Grows BY <2>2, <2>5 DEF Grows, Answered
    <2>8. j.token.id = minted BY <2>3 DEF Issued
    <2>9. QED BY <2>1, <2>2, <2>6, <2>7, <2>8, MovesAnswered
  <1>5. QED BY <1>1, <1>2, <1>3, <1>4 DEF Request

\* Nodes, refusals, checkpoints and failures: a capability is kept or dropped.
LEMMA StepAnswered ==
  ASSUME Typed, Answered, NEW t \in Workers,
         \/ \E h : ReturnStep(t, h)
         \/ StopStep(t) \/ HandStep(t) \/ Flush(t) \/ Raise(t) \/ Persist(t)
  PROVE  Answered'
  <1>1. AnswerAt(pc[t], job[t]) BY DEF Answered
  <1>2. ASSUME NEW h, ReturnStep(t, h) PROVE Answered'
    <2>0. PICK j : j =
        Memory(job[t].op, job[t].run, h, None, None, job[t].shown)
      OBVIOUS
    <2>1. Acts(t, "graph", j) /\ UNCHANGED <<seen, spent, minted, launches>>
      BY <1>2, <2>0 DEF ReturnStep, OnlyTrace, rowVars, worldVars
    <2>2. j.token = None BY <2>0 DEF Memory
    <2>3. AnswerAt("graph", j)' BY <2>2 DEF AnswerAt
    <2>4. QED BY <2>1, <2>2, <2>3, MovesAnswered, StillGrows
  <1>3. CASE StopStep(t)
    <2>0. PICK j : j =
        Memory(job[t].op, job[t].run, Stopped(job[t].graph), None,
               job[t].argv, job[t].shown)
      OBVIOUS
    <2>1. Acts(t, "flush", j) /\ UNCHANGED <<seen, spent, minted, launches>>
      BY <1>3, <2>0 DEF StopStep, OnlyTrace, rowVars, worldVars
    <2>2. j.token = None BY <2>0 DEF Memory
    <2>3. AnswerAt("flush", j)' BY <2>2 DEF AnswerAt
    <2>4. QED BY <2>1, <2>2, <2>3, MovesAnswered, StillGrows
  <1>4. CASE HandStep(t) \/ Flush(t) \/ Raise(t)
    <2>1. PICK l \in {"verify", "record", "fail"} : Acts(t, l, job[t])
      BY <1>4, GotoActs DEF HandStep, Flush, Raise
    <2>2. /\ pc[t] # "idle"
          /\ UNCHANGED <<seen, spent, minted, launches>>
      BY <1>4 DEF HandStep, Flush, Raise, AtNode, OnlyTrace, rowVars,
         diskVars, worldVars
    <2>3. AnswerAt(l, job[t]) BY <1>1, <2>2 DEF AnswerAt
    <2>4. \A j : AnswerAt(l, j)' <=> AnswerAt(l, j) BY <2>2 DEF AnswerAt
    <2>5. \E j : /\ j = job[t] /\ Acts(t, l, j) /\ AnswerAt(l, j)'
      BY <2>1, <2>3, <2>4
    <2>6. PICK j : /\ j = job[t] /\ Acts(t, l, j) /\ AnswerAt(l, j)'
      BY <2>5
    <2>7. QED BY <2>2, <2>6, MovesAnswered, StillGrows
  <1>5. CASE Persist(t)
    BY <1>5, RowsAnswered DEF Persist, rowVars, worldVars
  <1>6. QED BY <1>2, <1>3, <1>4, <1>5

\* Verification spends a capability that answers the question about the very
\* action the graph is at.
LEMMA VerifyAnswered ==
  ASSUME Typed, Answered, AllPlannedOnce, NEW t \in Workers, Verify(t)
  PROVE  Answered'
  <1> DEFINE g == job[t].graph
             d == CurrentDigest(g)
             k == job[t].token
  <1>0. PICK j : j = Memory(job[t].op, job[t].run, g, k, d, job[t].shown)
    OBVIOUS
  <1>1. Acts(t, "spawn", j) /\ pc[t] = "verify"
    BY <1>0, VerifyActs DEF Verify
  <1>2. /\ UNCHANGED <<seen, minted, launches>>
        /\ spent' = spent \cup {k.id} /\ k.id \notin spent
        /\ k.digest = d
    BY DEF Verify, Accepted, rowVars, worldVars
  <1>3. /\ HeldAt(pc[t], job[t]) /\ job[t] \in Jobs /\ WellFormed(g)
        /\ g.next = "execute" /\ k \in Tokens /\ k # None
    BY <1>1, GraphTyped DEF HeldAt
  <1>4. job[t].shown \in Challenges BY <1>1, <1>3 DEF HeldAt
  <1>5. AnswerAt(pc[t], job[t]) BY DEF Answered
  <1>6. /\ job[t].op # "start" /\ k.digest = job[t].shown.digest
        /\ k.id < minted
    BY <1>1, <1>3, <1>5 DEF AnswerAt
  <1>7. job[t].run \in Runs BY <1>3 DEF Jobs
  <1>8. Holds(t, job[t].run) /\ Drives(t, job[t].run)
    BY <1>1 DEF Holds, HasGraph, GraphLabels, Drives, Driving, Labels
  <1>9. job[t].shown = [index |-> g.index, digest |-> d]
    BY <1>2, <1>3, <1>4, <1>6, <1>7, <1>8, QuestionPlaced
    DEF AllPlannedOnce
  <1>10. \A i \in DOMAIN launches : launches[i].id # k.id
    BY <1>2 DEF Answered, LaunchIsAuthorised
  <1>11. /\ j.op = job[t].op /\ j.token = k /\ j.shown = job[t].shown
         /\ j.graph = g /\ j.argv = d
    BY <1>0 DEF Memory
  <1> HIDE DEF d, k
  <1>12. AnswerAt("spawn", j)'
    BY <1>2, <1>6, <1>9, <1>10, <1>11 DEF AnswerAt
  <1>13. Grows
    BY <1>2, <1>6 DEF Grows, Answered, Typed, TypeOK
  <1>14. j.token = job[t].token BY <1>11 DEF k
  <1>15. QED BY <1>1, <1>2, <1>12, <1>13, <1>14, MovesAnswered

\* The launch: its capability is spent, paid for no other, and answers the
\* question about this action.
LEMMA SpawnAnswered ==
  ASSUME Typed, Answered, AllPlannedOnce, NEW t \in Workers, Spawn(t)
  PROVE  Answered'
  <1> DEFINE x == [run |-> job[t].run, index |-> job[t].graph.index,
                   digest |-> job[t].argv, id |-> job[t].token.id,
                   shown |-> job[t].shown]
             n == Len(launches)
  <1>1. /\ pc[t] = "spawn" /\ launches' = Append(launches, x)
        /\ UNCHANGED <<seen, spent, minted, job>>
    BY DEF Spawn, rowVars, diskVars
  <1>2. Acts(t, "wait", job[t]) BY GotoActs DEF Spawn
  <1>3. /\ job[t] \in Jobs /\ job[t].token \in Tokens \ {None}
    BY <1>1, GraphTyped DEF HeldAt
  <1>4. AnswerAt("spawn", job[t]) BY <1>1 DEF Answered
  <1>5. /\ job[t].op # "start" /\ job[t].token.id \in spent
        /\ job[t].shown = [index |-> job[t].graph.index,
                           digest |-> job[t].argv]
        /\ \A i \in DOMAIN launches : launches[i].id # job[t].token.id
    BY <1>3, <1>4 DEF AnswerAt
  <1>6. job[t].run \in Runs BY <1>3 DEF Jobs
  <1>7. job[t].shown \in seen[job[t].run]
    BY <1>1, <1>5, <1>6
    DEF AllPlannedOnce, PlannedOnce, Drives, Driving, Labels
  <1>8. /\ x.run = job[t].run /\ x.index = job[t].graph.index
        /\ x.digest = job[t].argv /\ x.id = job[t].token.id
        /\ x.shown = job[t].shown
    OBVIOUS
  <1> HIDE DEF x
  <1>9. /\ DOMAIN launches' = DOMAIN launches \cup {n + 1}
        /\ n + 1 \notin DOMAIN launches
        /\ \A i \in DOMAIN launches : launches'[i] = launches[i]
        /\ launches'[n + 1] = x
    BY <1>1 DEF Typed, TypeOK
  <1> HIDE DEF n
  <1>10. LaunchIsAuthorised'
    BY <1>1, <1>5, <1>7, <1>8, <1>9 DEF Answered, LaunchIsAuthorised
  <1>11. ASSUME NEW u \in Workers PROVE AnswerAt(pc[u], job[u])'
    <2>1. CASE u = t BY <1>1, <1>2, <1>4, <2>1 DEF Acts, AnswerAt
    <2>2. CASE u # t
      <3>1. pc'[u] = pc[u] /\ job'[u] = job[u] /\ AnswerAt(pc[u], job[u])
        BY <1>2, <2>2 DEF Acts, Answered
      <3>2. ASSUME pc[u] = "spawn" PROVE job[u].token.id # x.id
        <4>1. job[u].token # None BY <3>2, GraphTyped DEF HeldAt
        <4>2. Bears(u) /\ Bears(t) BY <1>1, <1>3, <3>2, <4>1 DEF Bears
        <4>3. QED BY <1>8, <2>2, <4>2 DEF Answered, OneBearer
      <3>3. QED BY <1>1, <1>9, <3>1, <3>2 DEF AnswerAt
    <2>3. QED BY <2>1, <2>2
  <1>12. OneBearer'
    <2>1. \A u \in Workers : Bears(u)' <=> Bears(u)
      BY <1>1, <1>2 DEF Acts, Bears
    <2>2. QED BY <1>1, <2>1 DEF Answered, OneBearer
  <1>13. QED BY <1>1, <1>10, <1>11, <1>12 DEF Answered

-----------------------------------------------------------------------------
(* The theorems about launches *)

Authorised == Governed /\ AllPlannedOnce /\ Answered

LEMMA InitAuthorised == Init => Authorised
  <1> SUFFICES ASSUME Init PROVE AllPlannedOnce /\ Answered
    BY InitGoverned DEF Authorised
  <1>1. ASSUME NEW r \in Runs PROVE PlannedOnce(r)
    <2>1. /\ ckpt[r] = None /\ seen[r] = {}
          /\ \A t \in Workers : ~Drives(t, r)
      BY DEF Init, Drives, Driving
    <2>2. \A t \in Workers : ~Holds(t, r) BY <2>1, HoldsDrives
    <2>3. Follows(r, <<>>) BY <2>1, <2>2 DEF Follows
    <2>4. QED BY <2>1, <2>2, <2>3 DEF PlannedOnce, PlannerAlone, Starts
  <1>2. Answered
    BY DEF Init, Answered, AnswerAt, OneBearer, Bears, LaunchIsAuthorised
  <1>3. QED BY <1>1, <1>2 DEF AllPlannedOnce

\* A recorded question joins those a person has been shown.
LEMMA UpdateSees ==
  ASSUME Typed, NEW r \in Runs, NEW e, NEW g, UpdateFromResult(r, e, g)
  PROVE  \A q \in Runs : seen[q] \subseteq seen'[q]
  <1> DEFINE n == [index |-> g.index, digest |-> g.interrupt]
  <1>1. \/ UNCHANGED seen
        \/ seen' = [seen EXCEPT ![r] = @ \cup {n}]
    BY DEF UpdateFromResult, rowVars
  <1> HIDE DEF n
  <1>2. QED BY <1>1 DEF Typed, TypeOK

\* The steps of a worker.
LEMMA WorkAuthorised ==
  ASSUME Typed, Authorised, NEW t \in Workers,
         Request(t) \/ Work(t) \/ Persist(t)
  PROVE  AllPlannedOnce' /\ Answered'
  <1>1. Governed /\ AllPlannedOnce /\ Answered BY DEF Authorised
  <1>2. AnswerAt(pc[t], job[t]) BY <1>1 DEF Answered
  <1>3. CASE Request(t)
    <2>1. Answered' BY <1>1, <1>3, ClaimAnswered
    <2>2. ASSUME NEW r \in Runs, StartRequest(t, r) PROVE AllPlannedOnce'
      <3>1. /\ \A u \in Workers, q \in Runs :
                 Drives(u, q)' => pc'[u] = pc[u] /\ job'[u] = job[u]
            /\ UNCHANGED <<status, ckpt, seen>>
        BY <2>2, StartActs
        DEF Acts, Drives, Driving, StartRequest, rowVars, diskVars
      <3>2. QED BY <1>1, <3>1, FewerPlanned DEF FewerDrivers, AllPlannedOnce
    <2>3. QED BY <1>1, <1>3, <2>1, <2>2, ClaimPendingPlanned DEF Request
  <1>4. CASE ClaimStart(t)
    BY <1>1, <1>2, <1>4, ClaimAnswered, ClaimStartPlanned
    DEF AnswerAt, ClaimStart
  <1>5. CASE IssueAndResume(t)
    BY <1>1, <1>2, <1>5, ClaimAnswered, IssuePlanned
    DEF AnswerAt, IssueAndResume
  <1>6. CASE ClaimStartLost(t) \/ Decline(t) \/ MarkFailed(t) \/ Record(t)
    <2>1. /\ \A u \in Workers : \/ pc'[u] = "idle"
                                \/ pc'[u] = pc[u] /\ job'[u] = job[u]
          /\ UNCHANGED <<ckpt, spent, minted, launches>> /\ pc[t] # "idle"
      BY <1>6, RetireActs
      DEF ClaimStartLost, Decline, MarkFailed, Record, Acts, diskVars,
          worldVars
    <2>2. job[t] \in Jobs BY <2>1 DEF Typed, HeldAt
    <2>3. PICK e : e = Claimed[job[t].op] OBVIOUS
    <2>3a. PICK r \in Runs : r = job[t].run BY <2>2 DEF Jobs
    <2>4. e \notin {"none", "planned"} BY <2>2, <2>3 DEF Jobs, Claimed
    <2>5. CASE ClaimStartLost(t)
      <3>1. UNCHANGED rowVars BY <2>5 DEF ClaimStartLost
      <3>2. AllPlannedOnce'
        BY <1>1, <2>1, <3>1, FewerPlanned
        DEF FewerDrivers, AllPlannedOnce, Drives, Driving, rowVars
      <3>3. Answered' BY <1>1, <2>1, <3>1, RowsAnswered DEF rowVars
      <3>4. QED BY <3>2, <3>3
    <2>6. CASE Decline(t) \/ MarkFailed(t)
      <3>1. \/ MarkTerminal(r, "approving", "refused")
            \/ MarkTerminal(r, e, "failed")
        BY <2>3, <2>3a, <2>6 DEF Decline, MarkFailed
      <3>2. PICK g : g = InitialGraph OBVIOUS
      <3>3. g.plan = <<>> BY <3>2 DEF InitialGraph
      <3>4. AllPlannedOnce'
        <4>1. PICK x : /\ x \notin {"none", "planned"}
                       /\ \E f \in Terminal : MarkTerminal(r, x, f)
          BY <2>4, <3>1 DEF Terminal
        <4>2. QED BY <1>1, <2>1, <3>3, <4>1, UpdatePlanned
      <3>5. Answered'
        BY <1>1, <2>1, <3>1, RowsAnswered DEF MarkTerminal, rowVars
      <3>6. QED BY <3>4, <3>5
    <2>7. CASE Record(t)
      <3>1. PICK g : g = job[t].graph OBVIOUS
      <3>2. /\ WellFormed(g) /\ Returnable(g) /\ Sound(g, Level(r))
            /\ UpdateFromResult(r, e, g) /\ pc[t] = "record"
        <4>1. pc[t] = "record" BY <2>7 DEF Record
        <4>2. WellFormed(g) /\ Returnable(g)
          BY <3>1, <4>1, GraphTyped DEF HeldAt
        <4>3. Sound(g, Level(r))
          BY <1>1, <2>3a, <3>1, <4>1, GraphSound DEF GraphLabels
        <4>4. QED BY <2>3, <2>3a, <2>7, <3>1, <4>1, <4>2, <4>3 DEF Record
      <3>3. g.plan # <<>> => Planned(r) /\ ckpt[r].plan = g.plan
        <4> SUFFICES ASSUME g.plan # <<>>
                     PROVE  Planned(r) /\ ckpt[r].plan = g.plan
          OBVIOUS
        <4>1. Holds(t, r) BY <2>3a, <3>2 DEF Holds, HasGraph, GraphLabels
        <4>2. PlannedOnce(r) BY <1>1 DEF AllPlannedOnce
        <4>3. Planned(r) BY <3>1, <3>2, <4>1, <4>2 DEF PlannedOnce
        <4>4. PICK p \in Plans \cup {<<>>} : Follows(r, p)
          BY <4>2 DEF PlannedOnce
        <4>5. QED BY <3>1, <4>1, <4>3, <4>4 DEF Follows, Planned
      <3>4. AllPlannedOnce'
        BY <1>1, <2>1, <2>4, <3>2, <3>3, UpdatePlanned
      <3>5. \A q \in Runs : seen[q] \subseteq seen'[q]
        BY <3>2, UpdateSees
      <3>6. Answered' BY <1>1, <2>1, <3>5, RowsAnswered
      <3>7. QED BY <3>4, <3>6
    <2>8. QED BY <1>6, <2>5, <2>6, <2>7
  <1>7. CASE \/ ProfileNode(t) \/ PlanNode(t) \/ ExecuteNode(t)
             \/ VerifyRefuses(t) \/ SpawnFails(t) \/ Exit(t)
             \/ FinalizeNode(t)
    <2>1. (\E h : ReturnStep(t, h)) \/ StopStep(t) \/ HandStep(t)
      BY <1>7, NodeSteps
    <2>2. Answered' BY <1>1, <2>1, StepAnswered
    <2>3. CASE StopStep(t) \/ HandStep(t)
      BY <1>1, <2>2, <2>3, StepContinues, ContinuesPlanned
    <2>4. ASSUME NEW h, ReturnStep(t, h) PROVE AllPlannedOnce'
      <3>1. CASE h.plan = job[t].graph.plan
        BY <1>1, <2>4, <3>1, StepContinues, ContinuesPlanned
      <3>2. CASE pc[t] = "graph" /\ ChoosesPlan(job[t].graph, h)
        BY <1>1, <2>4, <3>2, ChoicePlanned
      <3>3. QED
        BY <2>4, <3>1, <3>2
        DEF ReturnStep, Fails, Profiles, Advances, Finishes
    <2>5. QED BY <2>1, <2>2, <2>3, <2>4
  <1>8. CASE Verify(t) \/ Spawn(t)
    <2>1. AllPlannedOnce'
      BY <1>1, <1>8, StepContinues, ContinuesPlanned
    <2>2. QED BY <1>1, <1>8, <2>1, VerifyAnswered, SpawnAnswered
  <1>9. CASE Flush(t) \/ Raise(t) \/ Persist(t)
    <2>1. AllPlannedOnce'
      BY <1>1, <1>9, StepContinues, ContinuesPlanned
    <2>2. QED BY <1>1, <1>9, <2>1, StepAnswered
  <1>10. QED
    BY <1>3, <1>4, <1>5, <1>6, <1>7, <1>8, <1>9 DEF Work

\* The steps of processes and of the world.
LEMMA ProcessAuthorised ==
  ASSUME Typed, Authorised, NEW s \in Services,
         \/ \E r \in Runs, level \in Levels : CreateRun(s, r, level)
         \/ TrustWorkspace(s) \/ Reconcile(s) \/ BootDone(s) \/ Crash(s)
         \/ Close(s) \/ LeaseLapses(s)
         \/ \E f \in Fingerprints : Boot(s, f)
         \/ \E b \in Binaries \cup {None} : Rebind(b)
  PROVE  AllPlannedOnce' /\ Answered'
  <1>1. Governed /\ AllPlannedOnce /\ Answered BY DEF Authorised
  <1>2. CASE Reconcile(s)
    <2>1. PICK row \in todo[s] :
            \/ ReconcileRun(s, row[1], row[2])
            \/ ReconcileRaises(s, row[1], row[2])
      BY <1>2 DEF Reconcile
    <2>2. PICK r \in Runs, e \in Incomplete : row = <<r, e>>
      BY DEF Typed, TypeOK
    <2>3. e \notin {"none", "planned"} BY DEF Incomplete
    <2>4. UNCHANGED <<ckpt, spent, minted, launches, pc, job>>
      BY <2>1 DEF ReconcileRun, ReconcileRaises, diskVars, worldVars
    <2>5. CASE MarkTerminal(r, e, "failed")
      <3>1. PICK g : g = InitialGraph OBVIOUS
      <3>2. g.plan = <<>> BY <3>1 DEF InitialGraph
      <3>3. AllPlannedOnce'
        BY <1>1, <2>3, <2>4, <2>5, <3>2, UpdatePlanned DEF Terminal
      <3>4. Answered'
        BY <1>1, <2>4, <2>5, RowsAnswered DEF MarkTerminal, rowVars
      <3>5. QED BY <3>3, <3>4
    <2>6. CASE /\ UpdateFromResult(r, e, ckpt[r]) /\ ckpt[r] # None
               /\ ResultStatus(ckpt[r]) \in Terminal \cup {"waiting_for_approval"}
      <3>1. PICK g : g = ckpt[r] OBVIOUS
      <3>2. WellFormed(g) BY <2>6, <3>1 DEF Typed
      <3>3. Returnable(g)
        BY <2>6, <3>1, <3>2
        DEF ResultStatus, Returnable, WellFormed, GraphStates, Terminal
      <3>4. Sound(g, Level(r)) BY <1>1, <2>6, <3>1 DEF Governed
      <3>5. g.plan # <<>> => Planned(r) /\ ckpt[r].plan = g.plan
        BY <2>6, <3>1 DEF Planned
      <3>6. AllPlannedOnce'
        BY <1>1, <2>3, <2>4, <2>6, <3>1, <3>2, <3>3, <3>4, <3>5,
           UpdatePlanned
      <3>7. \A q \in Runs : seen[q] \subseteq seen'[q]
        BY <2>6, UpdateSees
      <3>8. Answered' BY <1>1, <2>4, <3>7, RowsAnswered
      <3>9. QED BY <3>6, <3>8
    <2>7. QED
      BY <2>1, <2>2, <2>5, <2>6 DEF ReconcileRun, ReconcileRaises
  <1>3. CASE ~Reconcile(s)
    <2>1. /\ UNCHANGED <<seen, ckpt, spent, minted, launches>>
          /\ \A u \in Workers : \/ pc'[u] = "idle"
                                \/ pc'[u] = pc[u] /\ job'[u] = job[u]
      <3>1. CASE Crash(s) \/ Close(s)
        BY <3>1 DEF Crash, Close, ProcessEnds, rowVars, diskVars
      <3>2. CASE ~(Crash(s) \/ Close(s))
        BY <1>3, <3>2 DEF CreateRun, TrustWorkspace, BootDone, LeaseLapses,
           Boot, Rebind, rowVars, diskVars, worldVars
      <3>3. QED BY <3>1, <3>2
    <2>2. \A r \in Runs :
            status'[r] \in {"none", "planned"} => status[r] \in {"none", "planned"}
      <3>1. ASSUME NEW q \in Runs, NEW level \in Levels,
                   CreateRun(s, q, level), NEW r \in Runs,
                   status'[r] \in {"none", "planned"}
            PROVE  status[r] \in {"none", "planned"}
        BY <3>1 DEF CreateRun, Typed, TypeOK
      <3>2. CASE UNCHANGED status BY <3>2
      <3>3. UNCHANGED status \/ \E q \in Runs, level \in Levels :
                                  CreateRun(s, q, level)
        BY <1>3 DEF TrustWorkspace, BootDone, LeaseLapses, Boot, Rebind,
           Crash, Close, ProcessEnds, rowVars
      <3>4. QED BY <3>1, <3>2, <3>3
    <2>3. AllPlannedOnce'
      BY <1>1, <2>1, <2>2, FewerPlanned
      DEF FewerDrivers, AllPlannedOnce, Drives, Driving
    <2>4. QED BY <1>1, <2>1, <2>3, RowsAnswered
  <1>4. QED BY <1>2, <1>3

LEMMA NextAuthorised ==
  Typed /\ Authorised /\ [Next \/ LapseNext]_vars => Authorised'
  <1> SUFFICES ASSUME Typed, Authorised, [Next \/ LapseNext]_vars
               PROVE  Authorised'
    OBVIOUS
  <1>1. Governed' BY NextGoverned DEF Authorised
  <1>2. CASE UNCHANGED vars
    <2>1. UNCHANGED <<status, seen, ckpt, spent, minted, launches, pc, job>>
      BY <1>2 DEF vars, rowVars, diskVars, worldVars
    <2>2. AllPlannedOnce'
      BY <2>1, FewerPlanned DEF Authorised, FewerDrivers, AllPlannedOnce
    <2>3. QED BY <1>1, <2>1, <2>2, RowsAnswered DEF Authorised
  <1>3. ASSUME NEW t \in Workers, Request(t) \/ Work(t) \/ Persist(t)
        PROVE  Authorised'
    BY <1>1, <1>3, WorkAuthorised DEF Authorised
  <1>4. ASSUME NEW b \in Binaries \cup {None}, Rebind(b) PROVE Authorised'
    <2>1. UNCHANGED <<status, seen, ckpt, spent, minted, launches, pc, job>>
      BY <1>4 DEF Rebind, rowVars, diskVars
    <2>2. AllPlannedOnce'
      BY <2>1, FewerPlanned DEF Authorised, FewerDrivers, AllPlannedOnce
    <2>3. QED BY <1>1, <2>1, <2>2, RowsAnswered DEF Authorised
  <1>5. ASSUME NEW s \in Services,
               \/ \E r \in Runs, level \in Levels : CreateRun(s, r, level)
               \/ TrustWorkspace(s) \/ Reconcile(s) \/ BootDone(s) \/ Crash(s)
               \/ Close(s) \/ LeaseLapses(s)
               \/ \E f \in Fingerprints : Boot(s, f)
        PROVE  Authorised'
    BY <1>1, <1>5, ProcessAuthorised DEF Authorised
  <1>6. CASE Next BY <1>3, <1>4, <1>5, <1>6 DEF Next
  <1>7. QED BY <1>2, <1>5, <1>6 DEF LapseNext

\* Every command that ran is the one a person saw and approved, and has a
\* capability of its own that is spent ...
THEOREM LaunchIsAuthorisedAlways == Spec => []LaunchIsAuthorised
  <1>1. Typed /\ Authorised /\ [Next]_vars => Authorised' BY NextAuthorised
  <1>2. Authorised => LaunchIsAuthorised BY DEF Authorised, Answered
  <1>3. QED BY <1>1, <1>2, InitAuthorised, TypedAlways, PTL DEF Spec

\* ... and also when processes lose the lease with requests in flight, and
\* several of them drive the same run.
THEOREM LaunchIsAuthorisedLapse == LapseSpec => []LaunchIsAuthorised
  <1>1. Typed /\ Authorised /\ [LapseNext]_vars => Authorised'
    BY NextAuthorised
  <1>2. Authorised => LaunchIsAuthorised BY DEF Authorised, Answered
  <1>3. QED BY <1>1, <1>2, InitAuthorised, TypedLapse, PTL DEF LapseSpec

\* What the proofs about rows and about the gate take from here.
THEOREM AuthorisedAlways == Spec => []Authorised
  <1>1. Typed /\ Authorised /\ [Next]_vars => Authorised' BY NextAuthorised
  <1>2. QED BY <1>1, InitAuthorised, TypedAlways, PTL DEF Spec

-----------------------------------------------------------------------------
(* Who plans *)

\* A thread that plans for a run, or is on its way to, belongs to a process
\* with the planner configuration of the row.
PlannerAt(t, l, j) ==
  l # "idle" =>
    /\ phase[Host[t]] = "up"
    /\ l = "claim" \/ (HasGraph(l, j) /\ j.graph.next \in {"profile", "plan"})
         => config[Host[t]] = origin[j.run].by

RightPlanner == \A t \in Workers : PlannerAt(t, pc[t], job[t])

\* A step of worker t.
LEMMA PlannerMoves ==
  ASSUME RightPlanner, NEW t \in Workers, NEW l, NEW j, Acts(t, l, j),
         PlannerAt(t, l, j), UNCHANGED <<phase, config, origin>>
  PROVE  RightPlanner'
  <1>1. ASSUME NEW u \in Workers PROVE PlannerAt(u, pc[u], job[u])'
    <2>1. CASE u = t BY <2>1 DEF Acts, PlannerAt
    <2>2. CASE u # t
      <3>1. pc'[u] = pc[u] /\ job'[u] = job[u] /\ PlannerAt(u, pc[u], job[u])
        BY <2>2 DEF Acts, RightPlanner
      <3>2. QED BY <3>1 DEF PlannerAt
    <2>3. QED BY <2>1, <2>2
  <1>2. QED BY <1>1 DEF RightPlanner

\* A step of no worker: threads vanish, or their process and run stay.
LEMMA PlannerStays ==
  ASSUME RightPlanner,
         \A u \in Workers :
           \/ pc'[u] = "idle"
           \/ /\ pc'[u] = pc[u] /\ job'[u] = job[u]
              /\ phase'[Host[u]] = phase[Host[u]]
              /\ config'[Host[u]] = config[Host[u]]
              /\ origin'[job[u].run] = origin[job[u].run]
  PROVE  RightPlanner'
  BY DEF RightPlanner, PlannerAt

\* A worker keeps its run, and does not go back to a node before its plan.
LEMMA PlannerGoesOn ==
  ASSUME RightPlanner, NEW t \in Workers, NEW l, NEW j, Acts(t, l, j),
         pc[t] # "idle",
         l # "idle" =>
           /\ j.run = job[t].run /\ l # "claim"
           /\ HasGraph(l, j) /\ j.graph.next \in {"profile", "plan"} =>
                HasGraph(pc[t], job[t])
                /\ job[t].graph.next \in {"profile", "plan"},
         UNCHANGED <<phase, config, origin>>
  PROVE  RightPlanner'
  <1>1. PlannerAt(t, pc[t], job[t]) BY DEF RightPlanner
  <1>2. PlannerAt(t, l, j) BY <1>1 DEF PlannerAt
  <1>3. QED BY <1>2, PlannerMoves

\* A checkpoint that a person's answer resumes is past its plan: the person
\* has been shown an action of it.
LEMMA ResumedPlanned ==
  ASSUME Typed, Authorised, NEW t \in Workers, IssueAndResume(t)
  PROVE  ckpt[job[t].run].next \notin {"profile", "plan"}
  <1>1. job[t] \in Jobs /\ AnswerAt(pc[t], job[t]) /\ pc[t] = "issue"
    BY DEF IssueAndResume, Typed, HeldAt, Authorised, Answered
  <1>2. PICK r \in Runs : r = job[t].run BY <1>1 DEF Jobs
  <1>3. Drives(t, r) /\ job[t].op # "start"
    BY <1>1, <1>2 DEF AnswerAt, Drives, Driving, Labels
  <1>4. Planned(r)
    BY <1>3 DEF Authorised, AllPlannedOnce, PlannedOnce
  <1>5. Sound(ckpt[r], Level(r)) BY <1>4 DEF Planned, Authorised, Governed
  <1>6. QED BY <1>2, <1>4, <1>5 DEF Planned, Sound, Settled

LEMMA WorkPlanner ==
  ASSUME Typed, Authorised, RightPlanner, NEW t \in Workers,
         Request(t) \/ Work(t) \/ Persist(t)
  PROVE  RightPlanner'
  <1> DEFINE g == job[t].graph
  <1>1. UNCHANGED <<phase, config, origin>>
    BY DEF Request, StartRequest, ClaimPending, Work, ClaimStart,
       ClaimStartLost, IssueAndResume, Decline, ProfileNode, PlanNode,
       ExecuteNode, Verify, VerifyRefuses, Spawn, SpawnFails, Exit,
       FinalizeNode, Flush, Record, Raise, MarkFailed, Persist, procVars,
       diskVars
  <1>2. CASE Request(t)
    <2>1. ASSUME NEW r \in Runs, StartRequest(t, r) PROVE RightPlanner'
      <3>0. PICK j : j = Memory("start", r, None, None, None, None) OBVIOUS
      <3>1. Acts(t, "claim", j) BY <2>1, <3>0, StartActs
      <3>2. j.run = r BY <3>0 DEF Memory
      <3>3. PlannerAt(t, "claim", j)
        BY <2>1, <3>2 DEF PlannerAt, StartRequest, MayStart
      <3>4. QED BY <1>1, <3>1, <3>3, PlannerMoves
    <2>2. ASSUME NEW r \in Runs, NEW c \in seen[r],
                 NEW o \in {"approve", "decline"}, ClaimPending(t, r, c, o)
          PROVE  RightPlanner'
      <3>0. PICK j, l : /\ j = Memory(o, r, None, None, None, c)
                        /\ l = IF o = "approve" THEN "issue" ELSE "refuse"
        OBVIOUS
      <3>1. Acts(t, l, j) BY <2>2, <3>0, ClaimActs
      <3>2. PlannerAt(t, l, j)
        BY <2>2, <3>0 DEF PlannerAt, HasGraph, GraphLabels, ClaimPending
      <3>3. QED BY <1>1, <3>1, <3>2, PlannerMoves
    <2>3. QED BY <1>2, <2>1, <2>2 DEF Request
  <1>3. CASE ClaimStart(t)
    <2>0. PICK j : j = Memory(job[t].op, job[t].run, InitialGraph,
                              job[t].token, job[t].argv, job[t].shown)
      OBVIOUS
    <2>1. Acts(t, "graph", j) /\ pc[t] = "claim"
      BY <1>3, <2>0, ClaimStartActs DEF ClaimStart
    <2>2. j.run = job[t].run BY <2>0 DEF Memory
    <2>3. PlannerAt(t, pc[t], job[t]) BY DEF RightPlanner
    <2>4. PlannerAt(t, "graph", j) BY <2>1, <2>2, <2>3 DEF PlannerAt
    <2>5. QED BY <1>1, <2>1, <2>4, PlannerMoves
  <1>4. CASE IssueAndResume(t)
    <2>0. PICK j : j = Memory(job[t].op, job[t].run, ckpt[job[t].run],
                              Issued(t), job[t].argv, job[t].shown)
      OBVIOUS
    <2>1. Acts(t, "graph", j) /\ pc[t] = "issue"
      BY <1>4, <2>0, IssueActs DEF IssueAndResume
    <2>2. j.run = job[t].run /\ j.graph = ckpt[job[t].run]
      BY <2>0 DEF Memory
    <2>3. j.graph.next \notin {"profile", "plan"}
      BY <1>4, <2>2, ResumedPlanned
    <2>4. QED BY <1>1, <2>1, <2>2, <2>3, PlannerGoesOn
  <1>5. CASE ClaimStartLost(t) \/ Decline(t) \/ MarkFailed(t) \/ Record(t)
    <2>1. Acts(t, "idle", None) /\ pc[t] # "idle"
      BY <1>5, RetireActs DEF ClaimStartLost, Decline, MarkFailed, Record
    <2>2. QED BY <1>1, <2>1, PlannerGoesOn
  <1>6. CASE \/ ProfileNode(t) \/ PlanNode(t) \/ ExecuteNode(t)
             \/ VerifyRefuses(t) \/ SpawnFails(t) \/ Exit(t)
             \/ FinalizeNode(t)
    <2>1. ASSUME NEW h, ReturnStep(t, h) PROVE RightPlanner'
      <3>0. PICK j : j = Memory(job[t].op, job[t].run, h, None, None,
                                job[t].shown)
        OBVIOUS
      <3>1. Acts(t, "graph", j) /\ pc[t] \in GraphLabels
        BY <2>1, <3>0 DEF ReturnStep, GraphLabels
      <3>2. j.run = job[t].run /\ j.graph = h BY <3>0 DEF Memory
      <3>3. h.next \in {"profile", "plan"} => g.next \in {"profile", "plan"}
        BY <2>1 DEF ReturnStep, Fails, Profiles, ChoosesPlan, Advances,
           Finishes
      <3>4. HasGraph(pc[t], job[t]) /\ pc[t] # "idle"
        BY <3>1 DEF HasGraph, GraphLabels
      <3>5. QED BY <1>1, <3>1, <3>2, <3>3, <3>4, PlannerGoesOn
    <2>2. CASE StopStep(t)
      <3>0. PICK j : j = Memory(job[t].op, job[t].run, Stopped(g), None,
                                job[t].argv, job[t].shown)
        OBVIOUS
      <3>1. Acts(t, "flush", j) /\ pc[t] = "graph" /\ g.next = "execute"
        BY <2>2, <3>0 DEF StopStep
      <3>2. j.run = job[t].run /\ j.graph = Stopped(g) BY <3>0 DEF Memory
      <3>3. WellFormed(g) BY <3>1, GraphTyped
      <3>4. Stopped(g).next = g.next
        BY <3>3 DEF Stopped, WellFormed, GraphStates
      <3>5. QED BY <1>1, <3>1, <3>2, <3>4, PlannerGoesOn
    <2>3. CASE HandStep(t)
      BY <1>1, <2>3, PlannerGoesOn DEF HandStep, HasGraph, GraphLabels
    <2>4. QED BY <1>6, <2>1, <2>2, <2>3, NodeSteps
  <1>7. CASE Verify(t)
    <2>0. PICK j : j = Memory(job[t].op, job[t].run, g, job[t].token,
                              CurrentDigest(g), job[t].shown)
      OBVIOUS
    <2>1. Acts(t, "spawn", j) /\ pc[t] = "verify"
      BY <1>7, <2>0, VerifyActs DEF Verify
    <2>2. j.run = job[t].run /\ j.graph = g BY <2>0 DEF Memory
    <2>3. QED BY <1>1, <2>1, <2>2, PlannerGoesOn DEF HasGraph, GraphLabels
  <1>8. CASE Spawn(t) \/ Flush(t) \/ Raise(t)
    <2>1. PICK l \in {"wait", "record", "fail"} : Acts(t, l, job[t])
      BY <1>8, GotoActs DEF Spawn, Flush, Raise
    <2>2. /\ pc[t] # "idle"
          /\ pc[t] = "issue" => l = "fail" /\ job[t].graph = None
      BY <1>8, <2>1, GotoActs
      DEF Spawn, Flush, Raise, AtNode, Authorised, Governed, GovernedAt, Acts
    <2>3. HasGraph(l, job[t]) => HasGraph(pc[t], job[t])
      BY <1>8, <2>1, <2>2
      DEF Spawn, Flush, Raise, AtNode, HasGraph, GraphLabels
    <2>4. QED BY <1>1, <2>1, <2>2, <2>3, PlannerGoesOn
  <1>9. CASE Persist(t)
    BY <1>1, <1>9, PlannerStays DEF Persist
  <1>10. QED
    BY <1>2, <1>3, <1>4, <1>5, <1>6, <1>7, <1>8, <1>9 DEF Work

LEMMA ProcessPlanner ==
  ASSUME Typed, Authorised, RightPlanner, NEW s \in Services,
         \/ \E r \in Runs, level \in Levels : CreateRun(s, r, level)
         \/ TrustWorkspace(s) \/ Reconcile(s) \/ BootDone(s) \/ Crash(s)
         \/ Close(s) \/ LeaseLapses(s)
         \/ \E f \in Fingerprints : Boot(s, f)
         \/ \E b \in Binaries \cup {None} : Rebind(b)
  PROVE  RightPlanner'
  <1>1. /\ phase \in [Services -> {"down", "recovering", "up"}]
        /\ config \in [Services -> Fingerprints]
        /\ origin \in [Runs -> Origins \cup {None}]
        /\ Host \in [Workers -> Services]
    BY HostAssumption DEF Typed, TypeOK
  <1>2. \A u \in Workers : pc[u] # "idle" => phase[Host[u]] = "up"
    BY DEF RightPlanner, PlannerAt
  <1>3. ASSUME NEW r \in Runs, NEW level \in Levels, CreateRun(s, r, level)
        PROVE  RightPlanner'
    <2>1. /\ UNCHANGED <<pc, job, phase, config>> /\ origin[r] = None
          /\ \A q \in Runs : q # r => origin'[q] = origin[q]
      BY <1>3 DEF CreateRun, procVars, Authorised, Governed, Typed, TypeOK
    <2>2. ASSUME NEW u \in Workers, pc[u] # "idle"
          PROVE  origin'[job[u].run] = origin[job[u].run]
      <3>1. job[u].run \in Runs BY <2>2 DEF Typed, HeldAt, Jobs
      <3>2. job[u].run # r
        BY <2>1, <2>2 DEF Authorised, Governed, GovernedAt, Permitted
      <3>3. QED BY <2>1, <3>1, <3>2
    <2>3. QED BY <2>1, <2>2, PlannerStays
  <1>4. CASE \/ TrustWorkspace(s) \/ Reconcile(s) \/ LeaseLapses(s)
             \/ \E b \in Binaries \cup {None} : Rebind(b)
    <2>1. UNCHANGED <<pc, job, phase, config, origin>>
      BY <1>4 DEF TrustWorkspace, Reconcile, ReconcileRun, ReconcileRaises,
         LeaseLapses, Rebind, procVars, diskVars
    <2>2. QED BY <2>1, PlannerStays
  <1>5. CASE BootDone(s) \/ \E f \in Fingerprints : Boot(s, f)
    <2>1. /\ UNCHANGED <<pc, job, origin>> /\ phase[s] # "up"
          /\ \A u \in Services : u # s =>
               phase'[u] = phase[u] /\ config'[u] = config[u]
      BY <1>1, <1>5 DEF BootDone, Boot, diskVars
    <2>2. QED BY <1>1, <1>2, <2>1, PlannerStays
  <1>6. CASE Crash(s) \/ Close(s)
    <2>1. ProcessEnds(s) BY <1>6 DEF Crash, Close
    <2>2. /\ UNCHANGED <<config, origin>>
          /\ \A u \in Services : u # s => phase'[u] = phase[u]
          /\ \A u \in Workers :
               IF Host[u] = s THEN pc'[u] = "idle"
                              ELSE pc'[u] = pc[u] /\ job'[u] = job[u]
      BY <1>1, <2>1 DEF ProcessEnds, diskVars
    <2>3. QED BY <1>1, <2>2, PlannerStays
  <1>7. QED BY <1>3, <1>4, <1>5, <1>6

LEMMA NextPlanner ==
  Typed /\ Authorised /\ RightPlanner /\ [Next \/ LapseNext]_vars
    => RightPlanner'
  <1> SUFFICES ASSUME Typed, Authorised, RightPlanner,
                      [Next \/ LapseNext]_vars
               PROVE  RightPlanner'
    OBVIOUS
  <1>1. CASE UNCHANGED vars
    BY <1>1, PlannerStays DEF vars, diskVars, procVars
  <1>2. ASSUME NEW b \in Binaries \cup {None}, Rebind(b) PROVE RightPlanner'
    BY <1>2, PlannerStays DEF Rebind, procVars, diskVars
  <1>3. CASE Next BY <1>2, <1>3, WorkPlanner, ProcessPlanner DEF Next
  <1>4. QED BY <1>1, <1>3, ProcessPlanner DEF LapseNext

LEMMA InitPlanner == Init => RightPlanner
  BY DEF Init, RightPlanner, PlannerAt

LEMMA PlannerRecorded ==
  Typed /\ RightPlanner => PlannedByRecordedPlanner
  BY DEF RightPlanner, PlannerAt, PlannedByRecordedPlanner, HasGraph,
     GraphLabels

\* Only a process with the planner configuration recorded in the row plans
\* for it, whatever configurations processes are restarted with ...
THEOREM PlannedByRecordedPlannerAlways == Spec => []PlannedByRecordedPlanner
  <1>1. Typed /\ Authorised /\ RightPlanner /\ [Next]_vars => RightPlanner'
    BY NextPlanner
  <1>2. QED
    BY <1>1, InitPlanner, PlannerRecorded, TypedAlways, AuthorisedAlways, PTL
    DEF Spec

\* ... and whichever of them lose the lease.
THEOREM PlannedByRecordedPlannerLapse ==
  LapseSpec => []PlannedByRecordedPlanner
  <1>1. /\ Typed /\ Authorised /\ RightPlanner /\ [LapseNext]_vars
             => RightPlanner'
        /\ Typed /\ Authorised /\ [LapseNext]_vars => Authorised'
    BY NextPlanner, NextAuthorised
  <1>2. QED
    BY <1>1, InitPlanner, InitAuthorised, PlannerRecorded, TypedLapse, PTL
    DEF LapseSpec

-----------------------------------------------------------------------------
(* Resumable: copies of a graph, launches and the row *)

\* The command at place k of the plan of run r has been started.
Launched(r, k) ==
  \E i \in DOMAIN launches : launches[i].run = r /\ launches[i].index = k

\* The past that graph values of run r speak of has happened.
Kept(r, g) ==
  /\ \A k \in 0..(g.index - 1) : Launched(r, k)
  /\ g.next = "end" => trace[r] = g.status

\* The checkpoint of run r stops at a question, about the first action that
\* the row does not count.
Posed(r) ==
  /\ ckpt[r] # None /\ ckpt[r].interrupt # None
  /\ completed[r] = ckpt[r].index

Ended(r) == ckpt[r] # None /\ ckpt[r].next = "end"

\* The driver of a run at label l with memory j.
DriverKept(l, j) ==
  l \in Driving =>
    /\ HasGraph(l, j) => /\ Kept(j.run, j.graph)
                         /\ Ended(j.run) => j.graph.next = "end"
    /\ l \in {"issue", "refuse"} => Posed(j.run)
    /\ l \in {"graph", "verify", "spawn", "wait"} /\ j.token # None =>
         j.graph.next = "execute" /\ j.graph.index = completed[j.run]
    /\ l = "wait" => Launched(j.run, j.graph.index)
    /\ l = "record" => ckpt[j.run] = j.graph

RunKept(r) ==
  /\ ckpt[r] # None => Kept(r, ckpt[r])
  /\ status[r] = "waiting_for_approval" =>
       Posed(r) /\ pending[r] = ckpt[r].interrupt
  /\ status[r] = "succeeded" =>
       /\ ckpt[r] # None /\ ckpt[r].interrupt = None
       /\ ckpt[r].status = "succeeded" /\ completed[r] = ckpt[r].actions

Resumable == /\ \A t \in Workers : DriverKept(pc[t], job[t])
             /\ \A r \in Runs : RunKept(r)

\* Nothing that has been launched is forgotten.
LaunchesKept == \A r \in Runs, k \in Nat : Launched(r, k) => Launched(r, k)'

\* The row, checkpoint and trace of run r stay as they are.
SameRun(r) == /\ status'[r] = status[r] /\ pending'[r] = pending[r]
              /\ completed'[r] = completed[r] /\ ckpt'[r] = ckpt[r]
              /\ trace'[r] = trace[r]

\* What was kept of a run stays kept.
LEMMA SameKept ==
  ASSUME Typed, LaunchesKept, NEW r \in Runs, SameRun(r)
  PROVE  /\ \A g : WellFormed(g) /\ Kept(r, g) => Kept(r, g)'
         /\ Posed(r) => Posed(r)'
         /\ Ended(r)' <=> Ended(r)
         /\ RunKept(r) => RunKept(r)'
  <1>1. ASSUME NEW g, WellFormed(g), Kept(r, g) PROVE Kept(r, g)'
    <2>1. g.index \in Nat BY <1>1 DEF WellFormed, GraphStates
    <2>2. QED BY <1>1, <2>1 DEF Kept, LaunchesKept, SameRun
  <1>2. Posed(r) => Posed(r)' BY DEF Posed, SameRun
  <1>3. Ended(r)' <=> Ended(r) BY DEF Ended, SameRun
  <1>4. RunKept(r) => RunKept(r)'
    <2>1. ckpt[r] # None => WellFormed(ckpt[r]) BY DEF Typed
    <2>2. PICK c : c = ckpt[r] OBVIOUS
    <2>3. ckpt'[r] = c BY <2>2 DEF SameRun
    <2>4. RunKept(r) /\ c # None => Kept(r, c)'
      BY <1>1, <2>1, <2>2 DEF RunKept
    <2>5. QED BY <1>2, <2>2, <2>3, <2>4 DEF RunKept, SameRun
  <1>5. QED BY <1>1, <1>2, <1>3, <1>4

\* The driver of a run nothing has happened to.
LEMMA SameDriver ==
  ASSUME Typed, LaunchesKept, NEW t \in Workers, DriverKept(pc[t], job[t]),
         pc'[t] = pc[t], job'[t] = job[t], SameRun(job[t].run)
  PROVE  DriverKept(pc[t], job[t])'
  <1> SUFFICES ASSUME pc[t] \in Driving PROVE DriverKept(pc[t], job[t])'
    BY DEF DriverKept
  <1>1. pc[t] # "idle" BY DEF Driving
  <1>2. job[t] \in Jobs /\ HeldAt(pc[t], job[t]) BY <1>1 DEF Typed, HeldAt
  <1>3. PICK r \in Runs : r = job[t].run BY <1>2 DEF Jobs
  <1>4. HasGraph(pc[t], job[t]) => WellFormed(job[t].graph)
    BY <1>2 DEF HasGraph, GraphLabels, HeldAt
  <1>5. PICK l, j : l = pc[t] /\ j = job[t] OBVIOUS
  <1>6. HasGraph(l, j) => Kept(r, j.graph)' /\ (Ended(r)' <=> Ended(r))
    BY <1>3, <1>4, <1>5, SameKept DEF DriverKept
  <1>7. l \in {"issue", "refuse"} => Posed(r)'
    BY <1>3, <1>5, SameKept DEF DriverKept
  <1>8. l = "wait" => Launched(r, j.graph.index)'
    <2>1. l = "wait" => j.graph.index \in Nat
      BY <1>4, <1>5 DEF HasGraph, GraphLabels, WellFormed, GraphStates
    <2>2. QED BY <1>3, <1>5, <2>1 DEF DriverKept, LaunchesKept
  <1>9. completed'[r] = completed[r] /\ ckpt'[r] = ckpt[r]
    BY <1>3 DEF SameRun
  <1>10. DriverKept(l, j)'
    BY <1>3, <1>5, <1>6, <1>7, <1>8, <1>9 DEF DriverKept
  <1>11. QED BY <1>5, <1>10

\* A step of worker t for run r, which nobody else drives.
LEMMA WorkerKept ==
  ASSUME Typed, Resumable, LaunchesKept, NEW t \in Workers, NEW r \in Runs,
         NEW l, NEW j, Acts(t, l, j), l \in Driving => j.run = r,
         \A u \in Workers \ {t} : ~Drives(u, r),
         \A q \in Runs : q # r => SameRun(q),
         RunKept(r)', DriverKept(l, j)'
  PROVE  Resumable'
  <1>1. ASSUME NEW q \in Runs PROVE RunKept(q)'
    BY SameKept DEF Resumable
  <1>2. ASSUME NEW u \in Workers PROVE DriverKept(pc[u], job[u])'
    <2>1. CASE u = t BY <2>1 DEF Acts, DriverKept
    <2>2. CASE u # t /\ pc[u] \notin Driving
      BY <2>2 DEF Acts, DriverKept
    <2>3. CASE u # t /\ pc[u] \in Driving
      <3>1. pc'[u] = pc[u] /\ job'[u] = job[u] BY <2>3 DEF Acts
      <3>2. job[u] \in Jobs BY <2>3 DEF Typed, HeldAt, Driving
      <3>3. job[u].run \in Runs /\ job[u].run # r
        BY <2>3, <3>2 DEF Drives, Jobs
      <3>4. QED BY <3>1, <3>3, SameDriver DEF Resumable
    <2>4. QED BY <2>1, <2>2, <2>3
  <1>3. QED BY <1>1, <1>2 DEF Resumable

\* A step of no worker: threads vanish, and rows may change that nobody drives.
LEMMA ProcessKept ==
  ASSUME Typed, Resumable, UNCHANGED launches,
         \A u \in Workers :
           \/ pc'[u] \notin Driving
           \/ pc'[u] = pc[u] /\ job'[u] = job[u] /\ SameRun(job[u].run),
         \A r \in Runs : SameRun(r) \/ RunKept(r)'
  PROVE  Resumable'
  <1>1. LaunchesKept BY DEF LaunchesKept, Launched
  <1>2. \A r \in Runs : RunKept(r)' BY <1>1, SameKept DEF Resumable
  <1>3. ASSUME NEW u \in Workers PROVE DriverKept(pc[u], job[u])'
    <2>1. CASE pc'[u] \notin Driving BY <2>1 DEF DriverKept
    <2>2. CASE pc'[u] = pc[u] /\ job'[u] = job[u] /\ SameRun(job[u].run)
      BY <1>1, <2>2, SameDriver DEF Resumable
    <2>3. QED BY <2>1, <2>2
  <1>4. QED BY <1>2, <1>3 DEF Resumable

LEMMA DrivesAlone ==
  ASSUME Owned, NEW t \in Workers, NEW r \in Runs, Drives(t, r)
  PROVE  \A u \in Workers \ {t} : ~Drives(u, r)
  BY DEF Owned, OneDriver

\* An update of the row of r: a failure, or the projection of its checkpoint.
LEMMA UpdateKept ==
  ASSUME Typed, Governed, Resumable, NEW r \in Runs, NEW e,
         \/ \E f \in {"failed", "refused"} : MarkTerminal(r, e, f)
         \/ /\ UpdateFromResult(r, e, ckpt[r])
            /\ ckpt[r] # None /\ Returnable(ckpt[r]),
         UNCHANGED <<ckpt, trace, launches>>
  PROVE  RunKept(r)' /\ \A q \in Runs : q # r => SameRun(q)
  <1>1. /\ status \in [Runs -> Statuses]
        /\ pending \in [Runs -> Digests \cup {None}]
        /\ completed \in [Runs -> Nat]
    BY DEF Typed, TypeOK
  <1>2. RunKept(r) BY DEF Resumable
  <1>3. \A g : Kept(r, g)' <=> Kept(r, g) BY DEF Kept, Launched
  <1>4. CASE UNCHANGED rowVars
    BY <1>2, <1>3, <1>4 DEF rowVars, SameRun, RunKept, Posed
  <1>5. ASSUME NEW f \in {"failed", "refused"},
               status' = [status EXCEPT ![r] = f],
               pending' = [pending EXCEPT ![r] = None],
               UNCHANGED completed
        PROVE  RunKept(r)' /\ \A q \in Runs : q # r => SameRun(q)
    <2>1. status'[r] = f BY <1>1, <1>5
    <2>2. RunKept(r)' BY <1>2, <1>3, <1>5, <2>1 DEF RunKept
    <2>3. QED BY <1>1, <1>5, <2>2 DEF SameRun
  <1>6. ASSUME NEW g, g = ckpt[r], g # None, Returnable(g),
               status' = [status EXCEPT ![r] = ResultStatus(g)],
               pending' = [pending EXCEPT ![r] = g.interrupt],
               completed' = [completed EXCEPT ![r] = g.actions]
        PROVE  RunKept(r)' /\ \A q \in Runs : q # r => SameRun(q)
    <2>1. /\ status'[r] = ResultStatus(g) /\ pending'[r] = g.interrupt
          /\ completed'[r] = g.actions
          /\ \A q \in Runs : q # r => SameRun(q)
      BY <1>1, <1>6 DEF SameRun
    <2>2. Sound(g, Level(r)) BY <1>6 DEF Governed
    <2>3. g.interrupt # None => g.actions = g.index
      BY <2>2 DEF Sound, Asks, Settled
    <2>4. g.interrupt = None => g.status \in Terminal
      BY <1>6 DEF Returnable
    <2>5. ckpt'[r] = g BY <1>6
    <2>6. Kept(r, g)' BY <1>2, <1>3, <1>6 DEF RunKept
    <2>7. CASE g.interrupt # None
      <3>1. Posed(r)' BY <2>1, <2>3, <2>5, <2>7, <1>6 DEF Posed
      <3>2. status'[r] = "waiting_for_approval"
        BY <2>1, <2>7 DEF ResultStatus
      <3>3. QED BY <2>1, <2>5, <2>6, <3>1, <3>2 DEF RunKept
    <2>8. CASE g.interrupt = None
      <3>1. status'[r] = g.status BY <2>1, <2>8 DEF ResultStatus
      <3>2. g.status # "waiting_for_approval" BY <2>4, <2>8 DEF Terminal
      <3>3. QED
        BY <1>6, <2>1, <2>5, <2>6, <2>8, <3>1, <3>2 DEF RunKept
    <2>9. QED BY <2>7, <2>8
  <1>7. QED BY <1>4, <1>5, <1>6 DEF MarkTerminal, UpdateFromResult

\* What the driver of a run may take for granted.
LEMMA DriverFacts ==
  ASSUME Typed, Owned, Resumable, NEW t \in Workers, pc[t] \in Driving,
         NEW r, r = job[t].run
  PROVE  /\ job[t] \in Jobs /\ r \in Runs /\ HeldAt(pc[t], job[t])
         /\ \A u \in Workers \ {t} : ~Drives(u, r)
         /\ DriverKept(pc[t], job[t]) /\ RunKept(r)
         /\ status[r] \in Transient /\ status[r] = Claimed[job[t].op]
  <1>1. job[t] \in Jobs /\ HeldAt(pc[t], job[t])
    BY DEF Typed, HeldAt, Driving
  <1>2. r \in Runs BY <1>1 DEF Jobs
  <1>3. \A u \in Workers \ {t} : ~Drives(u, r)
    BY <1>2, DrivesAlone DEF Drives
  <1>4. status[r] = Claimed[job[t].op] BY DEF Owned, RowsClaimed
  <1>5. status[r] \in Transient
    BY <1>1, <1>4 DEF Jobs, Claimed, Transient
  <1>6. QED BY <1>1, <1>2, <1>3, <1>4, <1>5 DEF Resumable

\* The row of a driven run says nothing of its checkpoint.
LEMMA TransientKept ==
  ASSUME NEW r \in Runs, status'[r] \in Transient,
         ckpt'[r] # None => Kept(r, ckpt[r])'
  PROVE  RunKept(r)'
  BY DEF RunKept, Transient

\* Claims, and the answer that resumes a checkpoint.
LEMMA ClaimsKept ==
  ASSUME Typed, Owned, Authorised, Resumable, NEW t \in Workers,
         \/ ClaimStart(t)
         \/ \E r \in Runs : \E c \in seen[r], o \in {"approve", "decline"} :
              ClaimPending(t, r, c, o)
  PROVE  Resumable'
  <1>1. ASSUME NEW r \in Runs, NEW x \in Transient, NEW l, NEW j,
               status[r] \notin Transient, Acts(t, l, j), j.run = r,
               status' = [status EXCEPT ![r] = x],
               UNCHANGED <<pending, completed, ckpt, trace, launches>>,
               DriverKept(l, j)'
        PROVE  Resumable'
    <2>1. \A u \in Workers : ~Drives(u, r) BY <1>1, NotDriven DEF Owned
    <2>2. /\ status'[r] = x
          /\ \A q \in Runs : q # r => SameRun(q)
      BY <1>1 DEF SameRun, Typed, TypeOK
    <2>3. ckpt'[r] # None => Kept(r, ckpt[r])'
      BY <1>1 DEF Resumable, RunKept, Kept, Launched
    <2>4. RunKept(r)' BY <2>2, <2>3, TransientKept
    <2>5. LaunchesKept BY <1>1 DEF LaunchesKept, Launched
    <2>6. QED BY <1>1, <2>1, <2>2, <2>4, <2>5, WorkerKept
  <1>2. CASE ClaimStart(t)
    <2>0. PICK j : j = Memory(job[t].op, job[t].run, InitialGraph,
                              job[t].token, job[t].argv, job[t].shown)
      OBVIOUS
    <2>1. Acts(t, "graph", j) /\ pc[t] = "claim"
      BY <1>2, <2>0, ClaimStartActs DEF ClaimStart
    <2>2. job[t] \in Jobs /\ AnswerAt(pc[t], job[t])
      BY <2>1 DEF Typed, HeldAt, Authorised, Answered
    <2>3. PICK r \in Runs : r = job[t].run BY <2>2 DEF Jobs
    <2>4. /\ j.run = r /\ j.token = None /\ j.graph = InitialGraph
      BY <2>0, <2>1, <2>2, <2>3 DEF Memory, AnswerAt
    <2>5. /\ status[r] = "planned"
          /\ status' = [status EXCEPT ![r] = "starting"]
          /\ UNCHANGED <<pending, completed, ckpt, trace, launches>>
      BY <1>2, <2>3 DEF ClaimStart, Claimable, diskVars, worldVars
    <2>6. ckpt'[r] = None
      BY <2>5 DEF Authorised, AllPlannedOnce, PlannedOnce
    <2>7. /\ InitialGraph.index = 0 /\ InitialGraph.next = "profile"
      BY DEF InitialGraph
    <2>8. Kept(r, InitialGraph)' BY <2>7 DEF Kept
    <2>9. DriverKept("graph", j)'
      BY <2>4, <2>6, <2>8 DEF DriverKept, Ended
    <2>10. QED BY <1>1, <2>1, <2>4, <2>5, <2>9 DEF Transient
  <1>3. ASSUME NEW r \in Runs, NEW c \in seen[r],
               NEW o \in {"approve", "decline"}, ClaimPending(t, r, c, o)
        PROVE  Resumable'
    <2>0. PICK j, l : /\ j = Memory(o, r, None, None, None, c)
                      /\ l = IF o = "approve" THEN "issue" ELSE "refuse"
      OBVIOUS
    <2>1. Acts(t, l, j) BY <1>3, <2>0, ClaimActs
    <2>2. j.run = r /\ j.token = None BY <2>0 DEF Memory
    <2>3. /\ status[r] = "waiting_for_approval"
          /\ status' = [status EXCEPT ![r] = "approving"]
          /\ UNCHANGED <<pending, completed, ckpt, trace, launches>>
      BY <1>3 DEF ClaimPending, diskVars, worldVars
    <2>4. Posed(r)' BY <2>3 DEF Resumable, RunKept, Posed
    <2>5. DriverKept(l, j)'
      BY <2>0, <2>2, <2>4 DEF DriverKept, HasGraph, GraphLabels
    <2>6. QED BY <1>1, <2>1, <2>2, <2>3, <2>5 DEF Transient
  <1>4. QED BY <1>2, <1>3

\* The driver goes on, leaving rows, checkpoints and launches alone.
LEMMA GoesOnKept ==
  ASSUME Typed, Owned, Resumable, NEW t \in Workers, pc[t] \in Driving,
         NEW l, NEW j, Acts(t, l, j), j.run = job[t].run,
         UNCHANGED <<rowVars, ckpt, launches>>,
         \/ UNCHANGED trace
         \/ /\ ~Ended(job[t].run)
            /\ \E x : trace' = [trace EXCEPT ![job[t].run] = x],
         DriverKept(l, j)'
  PROVE  Resumable'
  <1>1. PICK r : r = job[t].run OBVIOUS
  <1>2. /\ r \in Runs /\ \A u \in Workers \ {t} : ~Drives(u, r)
        /\ RunKept(r) /\ status[r] \in Transient
    BY <1>1, DriverFacts
  <1>3. \A q \in Runs : q # r => SameRun(q)
    BY <1>1 DEF SameRun, rowVars, Typed, TypeOK
  <1>4. LaunchesKept BY DEF LaunchesKept, Launched
  <1>5. ckpt'[r] # None => Kept(r, ckpt[r])'
    BY <1>1, <1>2 DEF RunKept, Kept, Ended, Launched
  <1>6. RunKept(r)' BY <1>2, <1>5, TransientKept DEF rowVars
  <1>7. QED BY <1>1, <1>2, <1>3, <1>4, <1>6, WorkerKept

\* The graph is resumed from its checkpoint, at the action the row counts to.
LEMMA IssueKept ==
  ASSUME Typed, Owned, Authorised, Resumable, NEW t \in Workers,
         IssueAndResume(t)
  PROVE  Resumable'
  <1>0. PICK r : r = job[t].run OBVIOUS
  <1>0a. PICK j : j = Memory(job[t].op, r, ckpt[r], Issued(t), job[t].argv,
                             job[t].shown)
    OBVIOUS
  <1>1. /\ Acts(t, "graph", j) /\ pc[t] = "issue" /\ ckpt[r] # None
        /\ UNCHANGED <<rowVars, ckpt, trace, launches>>
    BY <1>0, <1>0a, IssueActs DEF IssueAndResume, diskVars
  <1>2. pc[t] \in Driving BY <1>1 DEF Driving, Labels
  <1>3. DriverKept(pc[t], job[t]) /\ RunKept(r) /\ r \in Runs
    BY <1>0, <1>2, DriverFacts
  <1>4. Posed(r) BY <1>0, <1>1, <1>2, <1>3 DEF DriverKept
  <1>5. Sound(ckpt[r], Level(r)) BY <1>1, <1>3 DEF Authorised, Governed
  <1>6. ckpt[r].next = "execute" /\ ckpt[r].index = completed[r]
    BY <1>4, <1>5 DEF Posed, Sound, Asks
  <1>7. j.run = r /\ j.graph = ckpt[r] BY <1>0a DEF Memory
  <1>8. Kept(r, ckpt[r])' BY <1>1, <1>3 DEF RunKept, Kept, Launched
  <1>9. ckpt'[r] = ckpt[r] /\ completed'[r] = completed[r]
    BY <1>1 DEF rowVars
  <1>10. DriverKept("graph", j)'
    BY <1>6, <1>7, <1>8, <1>9 DEF DriverKept, Ended
  <1>11. QED BY <1>0, <1>1, <1>2, <1>7, <1>10, GoesOnKept

\* A node returns: an action that counts has been launched, and the last node
\* leaves its verdict in the trace file.
LEMMA ReturnKept ==
  ASSUME Typed, Owned, Resumable, NEW t \in Workers, NEW h, ReturnStep(t, h)
  PROVE  Resumable'
  <1>0. PICK r, g : r = job[t].run /\ g = job[t].graph OBVIOUS
  <1>0a. PICK j : j = Memory(job[t].op, r, h, None, None, job[t].shown)
    OBVIOUS
  <1>1. /\ Acts(t, "graph", j) /\ pc[t] \in {"graph", "verify", "spawn", "wait"}
        /\ WellFormed(h)
        /\ UNCHANGED <<rowVars, ckpt, launches>>
    BY <1>0, <1>0a DEF ReturnStep, OnlyTrace, worldVars
  <1>2. pc[t] \in Driving BY <1>1 DEF Driving, Labels
  <1>3. /\ DriverKept(pc[t], job[t]) /\ RunKept(r) /\ r \in Runs
        /\ HeldAt(pc[t], job[t])
    BY <1>0, <1>2, DriverFacts
  <1>4. HasGraph(pc[t], job[t]) BY <1>1 DEF HasGraph, GraphLabels
  <1>5. Kept(r, g) /\ (Ended(r) => g.next = "end")
    BY <1>0, <1>2, <1>3, <1>4 DEF DriverKept
  <1>6. g.next # "end"
    BY <1>0 DEF ReturnStep, Fails, Profiles, ChoosesPlan, Advances, Finishes
  <1>7. WellFormed(g) BY <1>0, <1>1, GraphTyped
  <1>8. \A k \in 0..(h.index - 1) : Launched(r, k)
    <2>1. CASE h.index = g.index BY <1>5, <2>1 DEF Kept
    <2>2. CASE h.index = 0 BY <2>2
    <2>3. CASE h.index = g.index + 1 /\ pc[t] = "wait"
      <3>1. Launched(r, g.index)
        BY <1>0, <1>2, <1>3, <2>3 DEF DriverKept
      <3>2. g.index \in Nat BY <1>7 DEF WellFormed, GraphStates
      <3>3. \A k \in 0..(h.index - 1) : k = g.index \/ k \in 0..(g.index - 1)
        BY <2>3, <3>2
      <3>4. QED BY <1>5, <3>1, <3>3 DEF Kept
    <2>4. QED
      BY <1>0, <2>1, <2>2, <2>3
      DEF ReturnStep, Fails, Profiles, ChoosesPlan, Advances, Finishes
  <1>9. \/ UNCHANGED trace /\ h.next # "end"
        \/ h.next = "end" /\ trace' = [trace EXCEPT ![r] = h.status]
    BY <1>0
    DEF ReturnStep, Fails, Profiles, ChoosesPlan, Advances, Finishes
  <1>10. h.next = "end" => trace'[r] = h.status
    BY <1>3, <1>9 DEF Typed, TypeOK
  <1>11. Kept(r, h)' BY <1>1, <1>8, <1>10 DEF Kept, Launched
  <1>12. ~Ended(r) /\ ~Ended(r)' BY <1>1, <1>5, <1>6 DEF Ended
  <1>13. j.run = r /\ j.graph = h /\ j.token = None BY <1>0a DEF Memory
  <1>14. DriverKept("graph", j)' BY <1>11, <1>12, <1>13 DEF DriverKept
  <1>15. QED
    BY <1>0, <1>1, <1>2, <1>9, <1>12, <1>13, <1>14, GoesOnKept

\* Steps that leave the position of the graph alone.
LEMMA MoveKept ==
  ASSUME Typed, Owned, Authorised, Resumable, NEW t \in Workers,
         StopStep(t) \/ HandStep(t) \/ Verify(t) \/ Raise(t)
  PROVE  Resumable'
  <1>0. PICK r, g : r = job[t].run /\ g = job[t].graph OBVIOUS
  <1>1. /\ pc[t] \in {"issue", "graph", "verify", "flush", "record"}
        /\ UNCHANGED <<rowVars, ckpt, trace, launches>>
    BY DEF StopStep, HandStep, Verify, Raise, OnlyTrace, worldVars, diskVars
  <1>2. pc[t] \in Driving BY <1>1 DEF Driving, Labels
  <1>3. DriverKept(pc[t], job[t]) BY <1>0, <1>2, DriverFacts
  <1>4. \A x : /\ Kept(r, x)' <=> Kept(r, x)
               /\ Ended(r)' <=> Ended(r)
               /\ completed'[r] = completed[r]
    BY <1>1 DEF Kept, Launched, Ended, rowVars
  <1>5. CASE StopStep(t)
    <2>0. PICK j : j = Memory(job[t].op, r, Stopped(g), None, job[t].argv,
                              job[t].shown)
      OBVIOUS
    <2>1. Acts(t, "flush", j) /\ pc[t] = "graph" /\ g.next = "execute"
      BY <1>0, <1>5, <2>0 DEF StopStep
    <2>2. j.run = r /\ j.graph = Stopped(g) BY <2>0 DEF Memory
    <2>3. WellFormed(g) BY <1>0, <2>1, GraphTyped
    <2>4. Stopped(g).next = g.next /\ Stopped(g).index = g.index
      BY <2>3 DEF Stopped, WellFormed, GraphStates
    <2>5. Kept(r, g) /\ (Ended(r) => g.next = "end")
      BY <1>0, <1>2, <1>3, <2>1 DEF DriverKept, HasGraph, GraphLabels
    <2>6. Kept(r, Stopped(g)) BY <2>1, <2>4, <2>5 DEF Kept
    <2>7. DriverKept("flush", j)'
      BY <1>4, <2>2, <2>4, <2>5, <2>6 DEF DriverKept
    <2>8. QED BY <1>0, <1>1, <1>2, <2>1, <2>2, <2>7, GoesOnKept
  <1>6. CASE HandStep(t) \/ Verify(t)
    <2>0. PICK j : /\ j.run = r /\ j.graph = g /\ j.token = job[t].token
                   /\ \E l \in {"verify", "spawn"} : Acts(t, l, j)
      <3>1. CASE HandStep(t) BY <1>0, <3>1 DEF HandStep
      <3>2. CASE Verify(t)
        <4>1. PICK m : m = Memory(job[t].op, r, g, job[t].token,
                                  CurrentDigest(g), job[t].shown)
          OBVIOUS
        <4>2. m.run = r /\ m.graph = g /\ m.token = job[t].token
          BY <4>1 DEF Memory
        <4>3. Acts(t, "spawn", m) BY <1>0, <3>2, <4>1, VerifyActs
        <4>4. QED BY <4>2, <4>3
      <3>3. QED BY <1>6, <3>1, <3>2
    <2>1. PICK l \in {"verify", "spawn"} : Acts(t, l, j) BY <2>0
    <2>2. pc[t] \in {"graph", "verify"} /\ job[t].token # None
      BY <1>6, GraphTyped DEF HandStep, Verify, HeldAt
    <2>3. /\ Kept(r, g) /\ (Ended(r) => g.next = "end")
          /\ g.next = "execute" /\ g.index = completed[r]
      BY <1>0, <1>2, <1>3, <2>2 DEF DriverKept, HasGraph, GraphLabels
    <2>4. DriverKept(l, j)' BY <1>4, <2>0, <2>3 DEF DriverKept
    <2>5. QED BY <1>0, <1>1, <1>2, <2>0, <2>1, <2>4, GoesOnKept
  <1>7. CASE Raise(t)
    <2>0. PICK j : j = job[t] OBVIOUS
    <2>1. Acts(t, "fail", j) BY <1>7, <2>0, GotoActs DEF Raise
    <2>2. GovernedAt(pc[t], job[t]) BY DEF Authorised, Governed
    <2>3. HasGraph("fail", j) => HasGraph(pc[t], job[t])
      BY <1>1, <1>7, <2>0, <2>2 DEF HasGraph, GraphLabels, GovernedAt
    <2>4. DriverKept("fail", j)'
      BY <1>0, <1>2, <1>3, <1>4, <2>0, <2>3 DEF DriverKept
    <2>5. QED BY <1>0, <1>1, <1>2, <2>0, <2>1, <2>4, GoesOnKept
  <1>8. QED BY <1>5, <1>6, <1>7

\* A launch adds to what has been launched.
LEMMA SpawnGrows ==
  ASSUME Typed, NEW t \in Workers, Spawn(t), NEW r, r = job[t].run,
         NEW k, k = job[t].graph.index
  PROVE  LaunchesKept /\ Launched(r, k)'
  <1> DEFINE x == [run |-> job[t].run, index |-> job[t].graph.index,
                   digest |-> job[t].argv, id |-> job[t].token.id,
                   shown |-> job[t].shown]
             n == Len(launches)
  <1>1. launches' = Append(launches, x) /\ launches \in Seq(Launches)
    BY DEF Spawn, Typed, TypeOK
  <1>2. x.run = job[t].run /\ x.index = job[t].graph.index OBVIOUS
  <1> HIDE DEF x
  <1>3. /\ n + 1 \in DOMAIN launches' /\ launches'[n + 1] = x
        /\ \A i \in DOMAIN launches :
             i \in DOMAIN launches' /\ launches'[i] = launches[i]
    BY <1>1
  <1> HIDE DEF n
  <1>4. QED BY <1>2, <1>3 DEF LaunchesKept, Launched

LEMMA SpawnKept ==
  ASSUME Typed, Owned, Resumable, NEW t \in Workers, Spawn(t)
  PROVE  Resumable'
  <1>0. PICK r, j : r = job[t].run /\ j = job[t] OBVIOUS
  <1>1. /\ pc[t] = "spawn" /\ Acts(t, "wait", j)
        /\ UNCHANGED <<rowVars, ckpt, trace>>
    BY <1>0, GotoActs DEF Spawn, diskVars
  <1>2. pc[t] \in Driving /\ "wait" \in Driving BY <1>1 DEF Driving, Labels
  <1>3. /\ r \in Runs /\ \A u \in Workers \ {t} : ~Drives(u, r)
        /\ DriverKept(pc[t], j) /\ RunKept(r) /\ status[r] \in Transient
        /\ HeldAt(pc[t], j)
    BY <1>0, <1>2, DriverFacts
  <1>4. LaunchesKept /\ Launched(r, j.graph.index)' BY <1>0, SpawnGrows
  <1>5. \A q \in Runs : SameRun(q) BY <1>1 DEF SameRun, rowVars
  <1>6. RunKept(r)' BY <1>3, <1>4, <1>5, SameKept
  <1>7. WellFormed(j.graph) /\ j.token # None
    BY <1>1, <1>3 DEF HeldAt
  <1>8. /\ Kept(r, j.graph) /\ (Ended(r) => j.graph.next = "end")
        /\ j.graph.next = "execute" /\ j.graph.index = completed[r]
    BY <1>0, <1>1, <1>2, <1>3, <1>7 DEF DriverKept, HasGraph, GraphLabels
  <1>9. Kept(r, j.graph)' /\ (Ended(r)' <=> Ended(r))
    BY <1>3, <1>4, <1>5, <1>7, <1>8, SameKept
  <1>10. completed'[r] = completed[r] BY <1>1 DEF rowVars
  <1>11. DriverKept("wait", j)'
    BY <1>0, <1>4, <1>8, <1>9, <1>10 DEF DriverKept
  <1>12. QED
    BY <1>0, <1>1, <1>3, <1>4, <1>5, <1>6, <1>11, WorkerKept

\* The values in a worker's memory become its run's checkpoint.
LEMMA CheckpointKept ==
  ASSUME Typed, Owned, Resumable, NEW t \in Workers, Persist(t) \/ Flush(t)
  PROVE  Resumable'
  <1>0. PICK r, j, g : r = job[t].run /\ j = job[t] /\ g = job[t].graph
    OBVIOUS
  <1>1. /\ pc[t] \in {"graph", "fail", "flush"} /\ g # None
        /\ ckpt' = [ckpt EXCEPT ![r] = g]
        /\ UNCHANGED <<rowVars, trace, launches>>
    BY <1>0, GraphTyped, NoneAssumption
    DEF Persist, Flush, AtNode, worldVars, WellFormed
  <1>2. pc[t] \in Driving /\ HasGraph(pc[t], j)
    BY <1>0, <1>1 DEF Driving, Labels, HasGraph, GraphLabels
  <1>3. /\ r \in Runs /\ \A u \in Workers \ {t} : ~Drives(u, r)
        /\ DriverKept(pc[t], j) /\ status[r] \in Transient
    BY <1>0, <1>2, DriverFacts
  <1>4. Kept(r, g) /\ Kept(r, g)'
    BY <1>0, <1>1, <1>2, <1>3 DEF DriverKept, Kept, Launched
  <1>5. ckpt'[r] = g /\ \A q \in Runs : q # r => SameRun(q)
    BY <1>1, <1>3 DEF SameRun, rowVars, Typed, TypeOK
  <1>6. RunKept(r)'
    <2>1. status'[r] \in Transient BY <1>1, <1>3 DEF rowVars
    <2>2. ckpt'[r] # None => Kept(r, ckpt[r])' BY <1>4, <1>5
    <2>3. QED BY <1>3, <2>1, <2>2, TransientKept
  <1>7. PICK l : /\ Acts(t, l, j)
                 /\ \/ l = pc[t] /\ l \in {"graph", "fail"}
                    \/ l = "record"
    <2>1. Persist(t) => Acts(t, pc[t], j) BY <1>0 DEF Persist, Acts
    <2>2. Flush(t) => Acts(t, "record", j) BY <1>0, GotoActs DEF Flush
    <2>3. QED BY <1>1, <2>1, <2>2 DEF Persist
  <1>8. Ended(r)' => g.next = "end" BY <1>5 DEF Ended
  <1>9. completed' = completed BY <1>1 DEF rowVars
  <1>10. DriverKept(l, j)'
    BY <1>0, <1>2, <1>3, <1>4, <1>5, <1>7, <1>8, <1>9 DEF DriverKept
  <1>11. LaunchesKept BY <1>1 DEF LaunchesKept, Launched
  <1>12. QED BY <1>0, <1>3, <1>5, <1>6, <1>7, <1>10, <1>11, WorkerKept

\* The driver lets go of the run, with a result or without.
LEMMA ReleaseKept ==
  ASSUME Typed, Owned, Authorised, Resumable, NEW t \in Workers,
         Decline(t) \/ MarkFailed(t) \/ Record(t)
  PROVE  Resumable'
  <1>0. PICK r, e : r = job[t].run /\ e = Claimed[job[t].op] OBVIOUS
  <1>1. /\ pc[t] \in {"refuse", "fail", "record"} /\ Acts(t, "idle", None)
        /\ UNCHANGED <<ckpt, trace, launches>>
    BY RetireActs DEF Decline, MarkFailed, Record, diskVars, worldVars
  <1>2. pc[t] \in Driving BY <1>1 DEF Driving, Labels
  <1>3. /\ r \in Runs /\ \A u \in Workers \ {t} : ~Drives(u, r)
        /\ DriverKept(pc[t], job[t]) /\ HeldAt(pc[t], job[t])
    BY <1>0, <1>2, DriverFacts
  <1>4. \/ \E x : \E f \in {"failed", "refused"} : MarkTerminal(r, x, f)
        \/ /\ UpdateFromResult(r, e, ckpt[r])
           /\ ckpt[r] # None /\ Returnable(ckpt[r])
    <2>1. CASE Record(t)
      <3>1. pc[t] = "record" BY <2>1 DEF Record
      <3>2. ckpt[r] = job[t].graph
        BY <1>0, <1>2, <1>3, <3>1 DEF DriverKept
      <3>3. WellFormed(job[t].graph) /\ Returnable(job[t].graph)
        BY <1>3, <3>1 DEF HeldAt
      <3>4. job[t].graph # None
        BY <3>3, NoneAssumption DEF WellFormed
      <3>5. QED BY <1>0, <2>1, <3>2, <3>3, <3>4 DEF Record
    <2>2. CASE Decline(t) \/ MarkFailed(t)
      BY <1>0, <2>2 DEF Decline, MarkFailed
    <2>3. QED BY <2>1, <2>2
  <1>5. RunKept(r)' /\ \A q \in Runs : q # r => SameRun(q)
    BY <1>1, <1>3, <1>4, UpdateKept DEF Authorised
  <1>6. LaunchesKept BY <1>1 DEF LaunchesKept, Launched
  <1>7. "idle" \notin Driving BY DEF Driving
  <1>8. DriverKept("idle", None)' BY <1>7 DEF DriverKept
  <1>9. QED BY <1>1, <1>3, <1>5, <1>6, <1>7, <1>8, WorkerKept

\* Steps that no run sees anything of, but for drivers that vanish.
LEMMA QuietKept ==
  ASSUME Typed, Resumable,
         UNCHANGED <<status, pending, completed, ckpt, trace, launches>>,
         \A u \in Workers : \/ pc'[u] \notin Driving
                            \/ pc'[u] = pc[u] /\ job'[u] = job[u]
  PROVE  Resumable'
  <1>1. \A r : SameRun(r) BY DEF SameRun
  <1>2. QED BY <1>1, ProcessKept

LEMMA WorkKept ==
  ASSUME Typed, Owned, Authorised, Resumable, NEW t \in Workers,
         Request(t) \/ Work(t) \/ Persist(t)
  PROVE  Resumable'
  <1>1. ASSUME NEW r \in Runs, StartRequest(t, r) PROVE Resumable'
    <2>1. \A u \in Workers : \/ pc'[u] \notin Driving
                             \/ pc'[u] = pc[u] /\ job'[u] = job[u]
      BY <1>1, StartActs DEF Acts, Driving
    <2>2. QED
      BY <1>1, <2>1, QuietKept DEF StartRequest, rowVars, diskVars, worldVars
  <1>2. CASE ClaimStartLost(t)
    <2>1. \A u \in Workers : \/ pc'[u] \notin Driving
                             \/ pc'[u] = pc[u] /\ job'[u] = job[u]
      BY <1>2, RetireActs DEF ClaimStartLost, Acts, Driving
    <2>2. QED
      BY <1>2, <2>1, QuietKept
      DEF ClaimStartLost, rowVars, diskVars, worldVars
  <1>3. CASE \/ ProfileNode(t) \/ PlanNode(t) \/ ExecuteNode(t)
             \/ VerifyRefuses(t) \/ SpawnFails(t) \/ Exit(t)
             \/ FinalizeNode(t)
    BY <1>3, NodeSteps, ReturnKept, MoveKept
  <1>4. QED
    BY <1>1, <1>2, <1>3, ClaimsKept, IssueKept, MoveKept, SpawnKept,
       CheckpointKept, ReleaseKept
    DEF Request, Work

\* A restart projects the newest checkpoint of a run onto its row.
LEMMA ReconcileKept ==
  ASSUME Typed, Owned, Governed, Resumable, NEW s \in Services, Reconcile(s)
  PROVE  Resumable'
  <1>1. PICK row \in todo[s] : \/ ReconcileRun(s, row[1], row[2])
                               \/ ReconcileRaises(s, row[1], row[2])
    BY DEF Reconcile
  <1>2. PICK r \in Runs, e \in Incomplete : row = <<r, e>>
    BY DEF Typed, TypeOK
  <1>3. /\ phase[s] = "recovering"
        /\ UNCHANGED <<ckpt, trace, launches, pc, job>>
    BY <1>1 DEF ReconcileRun, ReconcileRaises, diskVars, worldVars
  <1>4. \A t \in Workers : pc'[t] \notin Driving
    BY <1>3, NoneRecovering DEF Owned, Driving
  <1>5. \/ MarkTerminal(r, e, "failed")
        \/ /\ UpdateFromResult(r, e, ckpt[r]) /\ ckpt[r] # None
           /\ ResultStatus(ckpt[r]) \in Terminal \cup {"waiting_for_approval"}
    BY <1>1, <1>2 DEF ReconcileRun, ReconcileRaises
  <1>6. ckpt[r] # None
          /\ ResultStatus(ckpt[r]) \in Terminal \cup {"waiting_for_approval"}
            => Returnable(ckpt[r])
    BY DEF ResultStatus, Returnable, Typed, WellFormed, GraphStates, Terminal
  <1>7. RunKept(r)' /\ \A q \in Runs : q # r => SameRun(q)
    BY <1>3, <1>5, <1>6, UpdateKept
  <1>8. QED BY <1>3, <1>4, <1>7, ProcessKept

LEMMA CreateKept ==
  ASSUME Typed, Owned, Authorised, Resumable, NEW s \in Services,
         NEW r \in Runs, NEW level, CreateRun(s, r, level)
  PROVE  Resumable'
  <1>1. /\ status[r] = "none" /\ status' = [status EXCEPT ![r] = "planned"]
        /\ UNCHANGED <<pending, completed, ckpt, trace, launches, pc, job>>
    BY DEF CreateRun, worldVars
  <1>2. ckpt[r] = None /\ \A u \in Workers : ~Drives(u, r)
    BY <1>1 DEF Authorised, AllPlannedOnce, PlannedOnce
  <1>3. status'[r] = "planned" /\ \A q \in Runs : q # r => SameRun(q)
    BY <1>1 DEF SameRun, Typed, TypeOK
  <1>4. RunKept(r)' BY <1>1, <1>2, <1>3 DEF RunKept
  <1>5. ASSUME NEW u \in Workers, pc'[u] \in Driving
        PROVE  SameRun(job[u].run)
    <2>1. pc[u] \in Driving /\ pc[u] # "idle" BY <1>1, <1>5 DEF Driving
    <2>2. job[u] \in Jobs BY <2>1 DEF Typed, HeldAt
    <2>3. job[u].run \in Runs BY <2>2 DEF Jobs
    <2>4. QED BY <1>2, <1>3, <2>1, <2>3 DEF Drives
  <1>6. QED BY <1>1, <1>3, <1>4, <1>5, ProcessKept

LEMMA NextKept ==
  Typed /\ Owned /\ Authorised /\ Resumable /\ [Next]_vars => Resumable'
  <1> SUFFICES ASSUME Typed, Owned, Authorised, Resumable, [Next]_vars
               PROVE  Resumable'
    OBVIOUS
  <1>1. CASE UNCHANGED vars
    BY <1>1, QuietKept DEF vars, rowVars, diskVars, worldVars
  <1>2. ASSUME NEW t \in Workers, Request(t) \/ Work(t) \/ Persist(t)
        PROVE  Resumable'
    BY <1>2, WorkKept
  <1>3. ASSUME NEW s \in Services, NEW r \in Runs, NEW level \in Levels,
               CreateRun(s, r, level)
        PROVE  Resumable'
    BY <1>3, CreateKept
  <1>4. ASSUME NEW s \in Services, Reconcile(s) PROVE Resumable'
    BY <1>4, ReconcileKept DEF Authorised
  <1>5. ASSUME NEW s \in Services,
               \/ TrustWorkspace(s) \/ BootDone(s)
               \/ \E f \in Fingerprints : Boot(s, f)
        PROVE  Resumable'
    BY <1>5, QuietKept
    DEF TrustWorkspace, BootDone, Boot, rowVars, diskVars, worldVars
  <1>6. ASSUME NEW s \in Services, Crash(s) \/ Close(s) PROVE Resumable'
    <2>1. ProcessEnds(s) BY <1>6 DEF Crash, Close
    <2>2. \A u \in Workers : \/ pc'[u] \notin Driving
                             \/ pc'[u] = pc[u] /\ job'[u] = job[u]
      BY <2>1 DEF ProcessEnds, Driving
    <2>3. QED BY <2>1, <2>2, QuietKept DEF ProcessEnds, rowVars, diskVars
  <1>7. ASSUME NEW b \in Binaries \cup {None}, Rebind(b) PROVE Resumable'
    BY <1>7, QuietKept DEF Rebind, rowVars, diskVars
  <1>8. QED
    BY <1>1, <1>2, <1>3, <1>4, <1>5, <1>6, <1>7 DEF Next

LEMMA InitKept == Init => Resumable
  BY DEF Init, Resumable, DriverKept, RunKept, Driving

THEOREM ResumableAlways == Spec => []Resumable
  <1>1. Typed /\ Owned /\ Authorised /\ Resumable /\ [Next]_vars
          => Resumable'
    BY NextKept
  <1>2. QED
    BY <1>1, InitKept, TypedAlways, OwnedAlways, AuthorisedAlways, PTL
    DEF Spec

-----------------------------------------------------------------------------
(* What follows for a person who looks at a row *)

LEMMA ResumableWaits == Authorised /\ Resumable => WaitingIsResumable
  <1> SUFFICES ASSUME Authorised, Resumable, NEW r \in Runs,
                      status[r] = "waiting_for_approval"
               PROVE  /\ pending[r] # None
                      /\ ckpt[r] # None
                      /\ ckpt[r].next = "execute"
                      /\ ckpt[r].interrupt = pending[r]
                      /\ pending[r].tool = ckpt[r].plan[ckpt[r].index + 1]
                      /\ completed[r] = ckpt[r].index
    BY DEF WaitingIsResumable
  <1>1. Posed(r) /\ pending[r] = ckpt[r].interrupt
    BY DEF Resumable, RunKept
  <1>2. Asks(ckpt[r])
    BY <1>1 DEF Posed, Authorised, Governed, Sound
  <1>3. QED BY <1>1, <1>2 DEF Posed, Asks

LEMMA ResumableEarns == Typed /\ Authorised /\ Resumable => SuccessIsEarned
  <1> SUFFICES ASSUME Authorised, Resumable, Typed, NEW r \in Runs,
                      status[r] = "succeeded",
                      origin[r].level = "assisted"
               PROVE  /\ trace[r] = "succeeded"
                      /\ completed[r] = Len(ckpt[r].plan)
                      /\ \A k \in 1..completed[r] : \E i \in DOMAIN launches :
                           /\ launches[i].run = r
                           /\ launches[i].index = k - 1
    BY DEF SuccessIsEarned
  <1>1. /\ ckpt[r] # None /\ ckpt[r].status = "succeeded"
        /\ completed[r] = ckpt[r].actions /\ Kept(r, ckpt[r])
    BY DEF Resumable, RunKept
  <1>2. Settled(ckpt[r], "assisted")
    BY <1>1 DEF Authorised, Governed, Sound, Level
  <1>3. /\ ckpt[r].next = "end" /\ ckpt[r].index = Len(ckpt[r].plan)
        /\ completed[r] = ckpt[r].index
    BY <1>1, <1>2 DEF Settled
  <1>4. trace[r] = "succeeded" BY <1>1, <1>3 DEF Kept
  <1>5. \A k \in 1..completed[r] : Launched(r, k - 1)
    <2>1. completed[r] \in Nat BY DEF Typed, TypeOK
    <2>2. \A k \in 1..completed[r] : k - 1 \in 0..(completed[r] - 1)
      BY <2>1
    <2>3. QED BY <1>1, <1>3, <2>2 DEF Kept
  <1>6. QED BY <1>3, <1>4, <1>5 DEF Launched

\* A waiting row can be approved: the newest checkpoint is stopped at the
\* question the row shows, about the first action that is not counted.
THEOREM WaitingIsResumableAlways == Spec => []WaitingIsResumable
  BY ResumableWaits, ResumableAlways, AuthorisedAlways, PTL

\* A succeeded assisted run is earned, also when a restart recovered it: the
\* trace says succeeded, and every action of the plan was launched and counts.
THEOREM SuccessIsEarnedAlways == Spec => []SuccessIsEarned
  BY ResumableEarns, ResumableAlways, AuthorisedAlways, TypedAlways, PTL

\* What RecordedNeverRelaunched says of one step.
NextIsLaunched ==
  \A i \in DOMAIN launches' \ DOMAIN launches :
    launches'[i].index = completed[launches'[i].run]

LEMMA LaunchesNext ==
  ASSUME Typed, Owned, Resumable, [Next]_vars
  PROVE  [NextIsLaunched]_launches
  <1>1. ASSUME NEW t \in Workers, Spawn(t) PROVE NextIsLaunched
    <2> DEFINE x == [run |-> job[t].run, index |-> job[t].graph.index,
                     digest |-> job[t].argv, id |-> job[t].token.id,
                     shown |-> job[t].shown]
    <2>1. pc[t] = "spawn" /\ pc[t] \in Driving
      BY <1>1 DEF Spawn, Driving, Labels
    <2>2. DriverKept(pc[t], job[t]) /\ HeldAt(pc[t], job[t])
      BY <2>1, DriverFacts
    <2>3. job[t].token # None BY <2>1, <2>2 DEF HeldAt
    <2>4. job[t].graph.index = completed[job[t].run]
      BY <2>1, <2>2, <2>3 DEF DriverKept
    <2>5. x.run = job[t].run /\ x.index = job[t].graph.index OBVIOUS
    <2>6. launches' = Append(launches, x) /\ launches \in Seq(Launches)
      BY <1>1 DEF Spawn, Typed, TypeOK
    <2> HIDE DEF x
    <2>7. \A i \in DOMAIN launches' \ DOMAIN launches : launches'[i] = x
      BY <2>6
    <2>8. QED BY <2>4, <2>5, <2>7 DEF NextIsLaunched
  <1>2. ASSUME NEW t \in Workers, Request(t) \/ Persist(t) \/ Work(t),
               ~Spawn(t)
        PROVE  UNCHANGED launches
    BY <1>2 DEF Request, StartRequest, ClaimPending, Persist, Work, ClaimStart,
       ClaimStartLost, IssueAndResume, Decline, ProfileNode, PlanNode,
       ExecuteNode, Verify, VerifyRefuses, SpawnFails, Exit, FinalizeNode,
       Flush, Record, Raise, MarkFailed, worldVars
  <1>3. CASE Next
    BY <1>1, <1>2, <1>3 DEF Next, CreateRun, TrustWorkspace, Boot, Reconcile,
       ReconcileRun, ReconcileRaises, BootDone, Crash, Close, ProcessEnds,
       Rebind, worldVars
  <1>4. CASE UNCHANGED vars BY <1>4 DEF vars, worldVars
  <1>5. QED BY <1>3, <1>4

\* The command that starts is the first one its row does not count: no work
\* that is recorded is done again, and no action is skipped.
THEOREM RecordedNeverRelaunchedAlways == Spec => RecordedNeverRelaunched
  <1>1. Typed /\ Owned /\ Resumable /\ [Next]_vars
          => [NextIsLaunched]_launches
    BY LaunchesNext
  <1>2. QED
    BY <1>1, TypedAlways, OwnedAlways, ResumableAlways, PTL
    DEF Spec, RecordedNeverRelaunched, NextIsLaunched

-----------------------------------------------------------------------------
(* Asking: questions, answers and launches in order *)

\* The question a graph stopped at its interrupt asks.
Question(g) == [index |-> g.index, digest |-> g.interrupt]

Latest(r, q) == q \in seen[r] /\ \A p \in seen[r] : p.index <= q.index

\* The command that question q of run r was about has been started.
Started(r, q) ==
  \E i \in DOMAIN launches :
    /\ launches[i].run = r
    /\ launches[i].index = q.index /\ launches[i].digest = q.digest

\* Run r may be asked about the action at place n.
Ready(r, n) ==
  \/ n = 0 /\ seen[r] = {}
  \/ \E q \in seen[r] : n = q.index + 1 /\ Latest(r, q) /\ Started(r, q)

\* The question of a stopped graph is new and in order, or the latest again.
Askable(r, g) == Latest(r, Question(g)) \/ Ready(r, g.index)

DriverAsks(l, j) ==
  l \in Driving =>
    /\ HasGraph(l, j) /\ j.graph.interrupt # None => Askable(j.run, j.graph)
    /\ l = "graph" /\ j.token = None /\ j.graph.next = "execute" =>
         Ready(j.run, j.graph.index)
    /\ l \in {"issue", "refuse"} =>
         j.shown = Question(ckpt[j.run]) /\ Latest(j.run, j.shown)
    /\ l \in {"graph", "verify", "spawn", "wait"} /\ j.token # None =>
         j.shown.index = j.graph.index /\ Latest(j.run, j.shown)
    /\ l = "wait" => Started(j.run, j.shown)
    /\ j.op = "decline" => l = "refuse"

RunAsks(r) ==
  /\ ckpt[r] # None /\ ckpt[r].interrupt # None => Askable(r, ckpt[r])
  /\ status[r] = "waiting_for_approval" => Latest(r, Question(ckpt[r]))

Asking == /\ \A t \in Workers : DriverAsks(pc[t], job[t])
          /\ \A r \in Runs : RunAsks(r)

-----------------------------------------------------------------------------
(* The steps of the gate, in terms of what a person sees of each run *)

Shows(r) == GateState[status[r]]
Unseen(r) == /\ Shows(r)' = Shows(r) /\ seen'[r] = seen[r]
             /\ GatePermit(r)' = GatePermit(r)
SeenTyped == seen \in [Runs -> SUBSET Challenges]

\* The permit of a run is the answer its only driver acts on.
LEMMA PermitIs ==
  ASSUME Owned, NEW t \in Workers, NEW r \in Runs, ActsOnYes(t, r)
  PROVE  GatePermit(r) = job[t].shown
  <1>1. \A u \in Workers : ActsOnYes(u, r) => u = t
    BY DEF ActsOnYes, Owned, OneDriver
  <1>2. (CHOOSE u \in Workers : ActsOnYes(u, r)) = t BY <1>1
  <1>3. QED BY <1>2 DEF GatePermit

LEMMA PermitIsNext ==
  ASSUME Owned', NEW t \in Workers, NEW r \in Runs, ActsOnYes(t, r)'
  PROVE  GatePermit(r)' = job'[t].shown
  <1>1. \A u \in Workers : ActsOnYes(u, r)' => u = t
    BY DEF ActsOnYes, Owned, OneDriver
  <1>2. (CHOOSE u \in Workers : ActsOnYes(u, r)') = t BY <1>1
  <1>3. QED BY <1>2 DEF GatePermit

\* The three columns of the gate's state that a step for run r can change.
LEMMA GateChanges ==
  ASSUME NEW r \in Runs, \A q \in Runs \ {r} : Unseen(q),
         SeenTyped, SeenTyped'
  PROVE  /\ \A x, y : Shows(r) = x /\ Shows(r)' = y => Gate!Move(r, x, y)
         /\ \A x : seen'[r] = x => seen' = [seen EXCEPT ![r] = x]
         /\ \A x : GatePermit(r)' = x =>
              [q \in Runs |-> GatePermit(q)]'
                = [[q \in Runs |-> GatePermit(q)] EXCEPT ![r] = x]
         /\ seen'[r] = seen[r] => UNCHANGED seen
         /\ GatePermit(r)' = GatePermit(r) =>
              UNCHANGED [q \in Runs |-> GatePermit(q)]
  <1>1. ASSUME NEW x, NEW y, Shows(r) = x, Shows(r)' = y
        PROVE  Gate!Move(r, x, y)
    BY <1>1 DEF Gate!Move, Shows, Unseen
  <1>2. ASSUME NEW x, seen'[r] = x PROVE seen' = [seen EXCEPT ![r] = x]
    BY <1>2 DEF Unseen, SeenTyped
  <1>3. ASSUME NEW x, GatePermit(r)' = x
        PROVE  [q \in Runs |-> GatePermit(q)]'
                 = [[q \in Runs |-> GatePermit(q)] EXCEPT ![r] = x]
    BY <1>3 DEF Unseen
  <1>4. seen'[r] = seen[r] => UNCHANGED seen BY DEF Unseen, SeenTyped
  <1>5. GatePermit(r)' = GatePermit(r) =>
          UNCHANGED [q \in Runs |-> GatePermit(q)]
    BY DEF Unseen
  <1>6. QED BY <1>1, <1>2, <1>3, <1>4, <1>5

\* Answers can only get lost, and nobody sees anything else.
LEMMA GateLoses ==
  ASSUME SeenTyped, SeenTyped',
         \A r \in Runs : /\ Shows(r)' = Shows(r) /\ seen'[r] = seen[r]
                         /\ GatePermit(r)' \in {GatePermit(r), None},
         UNCHANGED launches
  PROVE  Gate!Next
  <1> DEFINE lost == {r \in Runs : GatePermit(r)' = None}
  <1>1. [r \in Runs |-> GatePermit(r)]'
          = [r \in Runs |-> IF r \in lost THEN None ELSE GatePermit(r)]
    OBVIOUS
  <1>2. [r \in Runs |-> IF r \in lost THEN None ELSE GatePermit(r)]
          = [r \in Runs |-> IF r \in lost THEN None
                            ELSE [q \in Runs |-> GatePermit(q)][r]]
    OBVIOUS
  <1>3. UNCHANGED seen BY DEF SeenTyped
  <1>4. [r \in Runs |-> GateState[status[r]]]'
          = [r \in Runs |-> GateState[status[r]]]
    BY DEF Shows
  <1>5. lost \in SUBSET Runs OBVIOUS
  <1> HIDE DEF lost
  <1>6. Gate!Lose(lost) BY <1>1, <1>2, <1>3, <1>4 DEF Gate!Lose
  <1>7. QED BY <1>5, <1>6 DEF Gate!Next

\* A run is created, starts, or is answered with no: only its state moves.
LEMMA GateStateMoves ==
  ASSUME NEW r \in Runs, \A q \in Runs \ {r} : Unseen(q),
         SeenTyped, SeenTyped', UNCHANGED launches,
         seen'[r] = seen[r], GatePermit(r)' = GatePermit(r),
         \/ Shows(r) = "none" /\ Shows(r)' = "ready"
         \/ Shows(r) = "ready" /\ Shows(r)' = "busy"
         \/ Shows(r) = "asking" /\ Shows(r)' = "busy"
  PROVE  Gate!Next
  <1>1. UNCHANGED <<seen, [q \in Runs |-> GatePermit(q)]>> BY GateChanges
  <1>2. \A x, y : Shows(r) = x /\ Shows(r)' = y => Gate!Move(r, x, y)
    BY GateChanges
  <1>3. Gate!Create(r) \/ Gate!Begin(r) \/ Gate!Deny(r)
    BY <1>1, <1>2 DEF Gate!Create, Gate!Begin, Gate!Deny
  <1>4. QED BY <1>3 DEF Gate!Next

\* The latest question is answered with yes.
LEMMA GateAllows ==
  ASSUME NEW r \in Runs, \A q \in Runs \ {r} : Unseen(q),
         SeenTyped, SeenTyped', UNCHANGED launches,
         seen'[r] = seen[r], Shows(r) = "asking", Shows(r)' = "busy",
         NEW c, Latest(r, c), GatePermit(r)' = c
  PROVE  Gate!Next
  <1>1. UNCHANGED seen /\ Gate!Move(r, "asking", "busy") BY GateChanges
  <1>2. [q \in Runs |-> GatePermit(q)]'
          = [[q \in Runs |-> GatePermit(q)] EXCEPT ![r] = c]
    BY GateChanges
  <1>3. c \in seen[r] /\ Gate!Latest(r, c) BY DEF Latest, Gate!Latest
  <1>4. Gate!Allow(r) BY <1>1, <1>2, <1>3 DEF Gate!Allow
  <1>5. QED BY <1>4 DEF Gate!Next

\* A run is over; an answer that was not acted upon is void.
LEMMA GateEnds ==
  ASSUME NEW r \in Runs, \A q \in Runs \ {r} : Unseen(q),
         SeenTyped, SeenTyped', UNCHANGED launches,
         seen'[r] = seen[r], Shows(r) \in {"busy", "asking"},
         Shows(r)' = "over", GatePermit(r)' = None
  PROVE  Gate!Next
  <1>1. /\ UNCHANGED seen
        /\ Gate!Move(r, "busy", "over") \/ Gate!Move(r, "asking", "over")
    BY GateChanges
  <1>2. [q \in Runs |-> GatePermit(q)]'
          = [[q \in Runs |-> GatePermit(q)] EXCEPT ![r] = None]
    BY GateChanges
  <1>3. Gate!End(r) BY <1>1, <1>2 DEF Gate!End
  <1>4. QED BY <1>3 DEF Gate!Next

\* A run asks, in order.
LEMMA GateAsks ==
  ASSUME NEW r \in Runs, \A q \in Runs \ {r} : Unseen(q),
         SeenTyped, SeenTyped', UNCHANGED launches,
         Shows(r) = "busy", Shows(r)' = "asking", GatePermit(r)' = None,
         NEW g, WellFormed(g), g.interrupt # None, Askable(r, g),
         seen'[r] = seen[r] \cup {Question(g)}
  PROVE  Gate!Next
  <1>1. PICK q : q = Question(g) OBVIOUS
  <1>2. q = [index |-> g.index, digest |-> g.interrupt]
    BY <1>1 DEF Question
  <1>3. g.interrupt \in Digests BY DEF WellFormed, GraphStates
  <1>4. Gate!Put(r, q)
    <2>1. Gate!Move(r, "busy", "asking") BY GateChanges
    <2>2. seen' = [seen EXCEPT ![r] = seen[r] \cup {q}]
      BY <1>1, GateChanges
    <2>3. [x \in Runs |-> GatePermit(x)]'
            = [[x \in Runs |-> GatePermit(x)] EXCEPT ![r] = None]
      BY GateChanges
    <2>4. QED BY <2>1, <2>2, <2>3 DEF Gate!Put
  <1>5. Gate!Ask(r)
    <2>1. CASE Latest(r, q)
      BY <1>4, <2>1 DEF Gate!Ask, Latest, Gate!Latest
    <2>2. CASE g.index = 0 /\ seen[r] = {}
      BY <1>2, <1>3, <1>4, <2>2 DEF Gate!Ask
    <2>3. ASSUME NEW p \in seen[r], g.index = p.index + 1, Latest(r, p),
                 Started(r, p)
          PROVE  Gate!Ask(r)
      <3>1. p \in Challenges BY DEF SeenTyped
      <3>2. p = [index |-> p.index, digest |-> p.digest]
        BY <3>1 DEF Challenges
      <3>3. PICK i \in DOMAIN launches :
              /\ launches[i].run = r
              /\ launches[i].index = p.index /\ launches[i].digest = p.digest
        BY <2>3 DEF Started
      <3>4. Gate!Started(r, p) BY <3>2, <3>3 DEF Gate!Started
      <3>5. q = [index |-> p.index + 1, digest |-> g.interrupt]
        BY <1>2, <2>3
      <3>6. Gate!Latest(r, p) BY <2>3 DEF Latest, Gate!Latest
      <3>7. QED BY <1>3, <1>4, <3>4, <3>5, <3>6 DEF Gate!Ask
    <2>4. QED BY <1>1, <2>1, <2>2, <2>3 DEF Askable, Ready
  <1>6. QED BY <1>5 DEF Gate!Next

LEMMA AppendIs ==
  ASSUME NEW S, NEW s \in Seq(S), NEW e \in S
  PROVE  Append(s, e)
           = [i \in 1..(Len(s) + 1) |-> IF i \in 1..Len(s) THEN s[i] ELSE e]
  <1> DEFINE z == Append(s, e)
  <1>1. /\ z \in Seq(S) /\ Len(z) = Len(s) + 1 /\ Len(s) \in Nat
        /\ \A i \in 1..Len(s) : z[i] = s[i]
        /\ z[Len(s) + 1] = e
    BY AppendProperties
  <1> HIDE DEF z
  <1>2. z = [i \in 1..(Len(s) + 1) |-> z[i]] BY <1>1
  <1>3. \A i \in 1..(Len(s) + 1) : i \in 1..Len(s) \/ i = Len(s) + 1 BY <1>1
  <1>4. \A i \in 1..(Len(s) + 1) :
          z[i] = IF i \in 1..Len(s) THEN s[i] ELSE e
    BY <1>1, <1>3
  <1>5. QED BY <1>2, <1>4 DEF z

\* A launch uses up the answer to the question about it.
LEMMA GateLaunches ==
  ASSUME NEW r \in Runs, \A q \in Runs \ {r} : Unseen(q),
         SeenTyped, SeenTyped', seen'[r] = seen[r],
         Shows(r) = "busy", Shows(r)' = "busy", GatePermit(r)' = None,
         GatePermit(r) # None, launches \in Seq(Launches),
         NEW x, launches' = Append(launches, x), x.run = r,
         GatePermit(r) = [index |-> x.index, digest |-> x.digest]
  PROVE  Gate!Next
  <1> DEFINE asks(l) == [run |-> l.run,
                         question |-> [index |-> l.index,
                                       digest |-> l.digest]]
             L == [i \in DOMAIN launches |-> asks(launches[i])]
             M == [i \in DOMAIN launches' |-> asks(launches'[i])]
             n == Len(launches)
  <1>1. /\ DOMAIN launches = 1..n /\ n \in Nat
        /\ DOMAIN launches' = 1..(n + 1)
        /\ \A i \in 1..n : launches'[i] = launches[i]
        /\ launches'[n + 1] = x
    OBVIOUS
  <1>2. M = Append(L, asks(x))
    <2> HIDE DEF asks, n
    <2> DEFINE S == {asks(launches[i]) : i \in 1..n} \cup {asks(x)}
    <2>1. L \in [1..n -> S] /\ asks(x) \in S BY <1>1
    <2>2. M = [i \in 1..(n + 1) |-> IF i \in 1..n THEN L[i] ELSE asks(x)]
      BY <1>1
    <2> HIDE DEF L, M, S
    <2>3. L \in Seq(S) /\ Len(L) = n BY <1>1, <2>1
    <2>4. QED BY <2>1, <2>2, <2>3, AppendIs
  <1>3. asks(x) = [run |-> r, question |-> GatePermit(r)] OBVIOUS
  <1>4. UNCHANGED seen BY GateChanges
  <1>5. [q \in Runs |-> GatePermit(q)]'
          = [[q \in Runs |-> GatePermit(q)] EXCEPT ![r] = None]
    BY GateChanges
  <1>6. [q \in Runs |-> GateState[status[q]]]'
          = [q \in Runs |-> GateState[status[q]]]
    BY DEF Unseen, Shows
  <1>7. GateState[status[r]] = "busy" BY DEF Shows
  <1>8. Gate!Launch(r)
    BY <1>2, <1>3, <1>4, <1>5, <1>6, <1>7 DEF Gate!Launch
  <1>9. QED BY <1>8 DEF Gate!Next

-----------------------------------------------------------------------------
(* What a step leaves of the order of questions *)

LaunchesStay ==
  \A i \in DOMAIN launches : i \in DOMAIN launches' /\ launches'[i] = launches[i]

\* Nothing that RunAsks looks at changes for run r, launches apart.
SameAsk(r) == /\ status'[r] = status[r] /\ seen'[r] = seen[r]
              /\ ckpt'[r] = ckpt[r]

LEMMA SameOrder ==
  ASSUME LaunchesStay, NEW r \in Runs, seen'[r] = seen[r]
  PROVE  /\ \A q : Latest(r, q) => Latest(r, q)'
         /\ \A q : Started(r, q) => Started(r, q)'
         /\ \A n : Ready(r, n) => Ready(r, n)'
         /\ \A g : Askable(r, g) => Askable(r, g)'
  <1>1. \A q : Latest(r, q) => Latest(r, q)' BY DEF Latest
  <1>2. \A q : Started(r, q) => Started(r, q)' BY DEF Started, LaunchesStay
  <1>3. \A n : Ready(r, n) => Ready(r, n)' BY <1>1, <1>2 DEF Ready
  <1>4. ASSUME NEW g, Askable(r, g) PROVE Askable(r, g)'
    <2>1. PICK q, n : q = Question(g) /\ n = g.index OBVIOUS
    <2>2. Latest(r, q) \/ Ready(r, n) BY <1>4, <2>1 DEF Askable
    <2>3. Latest(r, q)' \/ Ready(r, n)' BY <1>1, <1>3, <2>2
    <2>4. QED BY <2>1, <2>3 DEF Askable, Question
  <1>5. QED BY <1>1, <1>2, <1>3, <1>4

LEMMA SameRunAsks ==
  ASSUME LaunchesStay, NEW r \in Runs, SameAsk(r), RunAsks(r)
  PROVE  RunAsks(r)'
  <1>1. PICK g, q : g = ckpt[r] /\ q = Question(g) OBVIOUS
  <1>2. ckpt'[r] = g /\ status'[r] = status[r] /\ seen'[r] = seen[r]
    BY <1>1 DEF SameAsk
  <1>3. /\ g # None /\ g.interrupt # None => Askable(r, g)'
        /\ status'[r] = "waiting_for_approval" => Latest(r, q)'
    BY <1>1, <1>2, SameOrder DEF RunAsks
  <1>4. QED BY <1>1, <1>2, <1>3 DEF RunAsks, Question

\* The driver of a run of which nothing changes.
LEMMA SameDriverAsks ==
  ASSUME Typed, LaunchesStay, NEW t \in Workers, DriverAsks(pc[t], job[t]),
         pc'[t] = pc[t], job'[t] = job[t], SameAsk(job[t].run)
  PROVE  DriverAsks(pc[t], job[t])'
  <1> SUFFICES ASSUME pc[t] \in Driving PROVE DriverAsks(pc[t], job[t])'
    BY DEF DriverAsks
  <1>1. job[t] \in Jobs BY DEF Typed, HeldAt, Driving
  <1>2. PICK r \in Runs : r = job[t].run BY <1>1 DEF Jobs
  <1>3. PICK l, j : l = pc[t] /\ j = job[t] OBVIOUS
  <1>4. ckpt'[r] = ckpt[r] /\ seen'[r] = seen[r] BY <1>2 DEF SameAsk
  <1>5. Question(ckpt[r])' = Question(ckpt[r]) BY <1>4 DEF Question
  <1>6. DriverAsks(l, j)'
    BY <1>2, <1>3, <1>4, <1>5, SameOrder DEF DriverAsks
  <1>7. QED BY <1>3, <1>6

\* A step of worker t for run r, which nobody else drives.
LEMMA WorkerAsks ==
  ASSUME Typed, Asking, LaunchesStay, NEW t \in Workers, NEW r \in Runs,
         NEW l, NEW j, Acts(t, l, j),
         \A u \in Workers \ {t} : ~Drives(u, r),
         \A q \in Runs : q # r => SameAsk(q),
         RunAsks(r)', DriverAsks(l, j)'
  PROVE  Asking'
  <1>1. \A q \in Runs : RunAsks(q)' BY SameRunAsks DEF Asking
  <1>2. ASSUME NEW u \in Workers PROVE DriverAsks(pc[u], job[u])'
    <2>1. CASE u = t BY <2>1 DEF Acts, DriverAsks
    <2>2. CASE u # t /\ pc[u] \notin Driving
      BY <2>2 DEF Acts, DriverAsks
    <2>3. CASE u # t /\ pc[u] \in Driving
      <3>1. pc'[u] = pc[u] /\ job'[u] = job[u] BY <2>3 DEF Acts
      <3>2. job[u] \in Jobs BY <2>3 DEF Typed, HeldAt, Driving
      <3>3. job[u].run \in Runs /\ job[u].run # r
        BY <2>3, <3>2 DEF Drives, Jobs
      <3>4. QED BY <3>1, <3>3, SameDriverAsks DEF Asking
    <2>4. QED BY <2>1, <2>2, <2>3
  <1>3. QED BY <1>1, <1>2 DEF Asking

\* A step of no worker.
LEMMA ProcessAsks ==
  ASSUME Typed, Asking, UNCHANGED launches,
         \A u \in Workers :
           \/ pc'[u] \notin Driving
           \/ pc'[u] = pc[u] /\ job'[u] = job[u] /\ SameAsk(job[u].run),
         \A r \in Runs : SameAsk(r) \/ RunAsks(r)'
  PROVE  Asking'
  <1>1. LaunchesStay BY DEF LaunchesStay
  <1>2. \A r \in Runs : RunAsks(r)' BY <1>1, SameRunAsks DEF Asking
  <1>3. ASSUME NEW u \in Workers PROVE DriverAsks(pc[u], job[u])'
    <2>1. CASE pc'[u] \notin Driving BY <2>1 DEF DriverAsks
    <2>2. CASE pc'[u] = pc[u] /\ job'[u] = job[u] /\ SameAsk(job[u].run)
      BY <1>1, <2>2, SameDriverAsks DEF Asking
    <2>3. QED BY <2>1, <2>2
  <1>4. QED BY <1>2, <1>3 DEF Asking

-----------------------------------------------------------------------------
(* What a step leaves of the answers *)

\* The answer a worker at label l with memory j acts upon.
Allowed(l, j) ==
  IF /\ j.op = "approve" /\ l \in {"issue", "graph", "verify", "spawn"}
     /\ l = "graph" => j.token # None
    THEN j.shown ELSE None

\* The permit of a run is what its driver acts upon, if it has one.
LEMMA PermitOfDriver ==
  ASSUME Owned, NEW t \in Workers, NEW r \in Runs, Drives(t, r)
  PROVE  GatePermit(r) = Allowed(pc[t], job[t])
  <1>1. CASE ActsOnYes(t, r)
    BY <1>1, PermitIs DEF ActsOnYes, Allowed
  <1>2. CASE ~ActsOnYes(t, r)
    <2>1. \A u \in Workers : ~ActsOnYes(u, r)
      BY <1>2 DEF ActsOnYes, Owned, OneDriver
    <2>2. GatePermit(r) = None BY <2>1 DEF GatePermit
    <2>3. QED BY <1>2, <2>2 DEF ActsOnYes, Allowed
  <1>3. QED BY <1>1, <1>2

LEMMA PermitOfNone ==
  ASSUME NEW r \in Runs, \A u \in Workers : ~Drives(u, r)
  PROVE  GatePermit(r) = None
  BY DEF GatePermit, ActsOnYes

\* The same in the next state.
LEMMA PermitNext ==
  ASSUME Owned', NEW r \in Runs
  PROVE  /\ \A t \in Workers : Drives(t, r)' =>
              GatePermit(r)' = Allowed(pc'[t], job'[t])
         /\ (\A u \in Workers : ~Drives(u, r)') => GatePermit(r)' = None
  <1>1. ASSUME NEW t \in Workers, Drives(t, r)'
        PROVE  GatePermit(r)' = Allowed(pc'[t], job'[t])
    <2>1. CASE ActsOnYes(t, r)'
      BY <2>1, PermitIsNext DEF ActsOnYes, Allowed
    <2>2. CASE ~ActsOnYes(t, r)'
      <3>1. \A u \in Workers : ~ActsOnYes(u, r)'
        BY <1>1, <2>2 DEF ActsOnYes, Owned, OneDriver
      <3>2. GatePermit(r)' = None BY <3>1 DEF GatePermit
      <3>3. QED BY <1>1, <2>2, <3>2 DEF ActsOnYes, Allowed
    <2>3. QED BY <2>1, <2>2
  <1>2. (\A u \in Workers : ~Drives(u, r)') => GatePermit(r)' = None
    BY DEF GatePermit, ActsOnYes
  <1>3. QED BY <1>1, <1>2

\* A run whose driver, if any, stays or vanishes keeps its permit or loses it.
LEMMA PermitStays ==
  ASSUME Owned, Owned', NEW r \in Runs,
         \A u \in Workers : Drives(u, r)' =>
           Drives(u, r) /\ pc'[u] = pc[u] /\ job'[u] = job[u]
  PROVE  /\ GatePermit(r)' \in {GatePermit(r), None}
         /\ (\A u \in Workers : Drives(u, r) => Drives(u, r)') =>
              GatePermit(r)' = GatePermit(r)
  <1>1. ASSUME NEW u \in Workers, Drives(u, r)'
        PROVE  GatePermit(r)' = GatePermit(r)
    BY <1>1, PermitOfDriver, PermitNext
  <1>2. CASE \A u \in Workers : ~Drives(u, r)'
    BY <1>2, PermitNext, PermitOfNone
  <1>3. QED BY <1>1, <1>2

\* A step of worker t for run r, which nobody else drives.
LEMMA StepPermits ==
  ASSUME Owned, Owned', NEW t \in Workers, NEW r \in Runs, NEW l, NEW j,
         Acts(t, l, j), l \in Driving => j.run = r,
         pc[t] \in Driving => job[t].run = r,
         \A u \in Workers \ {t} : ~Drives(u, r)
  PROVE  /\ \A q \in Runs \ {r} : GatePermit(q)' = GatePermit(q)
         /\ GatePermit(r) = IF pc[t] \in Driving THEN Allowed(pc[t], job[t])
                                                 ELSE None
         /\ GatePermit(r)' = IF l \in Driving THEN Allowed(l, j) ELSE None
  <1>1. \A u \in Workers, q \in Runs :
          u # t => (Drives(u, q)' <=> Drives(u, q))
                   /\ pc'[u] = pc[u] /\ job'[u] = job[u]
    BY DEF Acts, Drives
  <1>2. \A q \in Runs \ {r} : ~Drives(t, q) /\ ~Drives(t, q)'
    BY DEF Acts, Drives
  <1>3. \A q \in Runs \ {r} : GatePermit(q)' = GatePermit(q)
    BY <1>1, <1>2, PermitStays
  <1>4. GatePermit(r) = IF pc[t] \in Driving THEN Allowed(pc[t], job[t])
                                             ELSE None
    <2>1. CASE pc[t] \in Driving BY <2>1, PermitOfDriver DEF Drives
    <2>2. CASE pc[t] \notin Driving BY <2>2, PermitOfNone DEF Drives
    <2>3. QED BY <2>1, <2>2
  <1>5. GatePermit(r)' = IF l \in Driving THEN Allowed(l, j) ELSE None
    <2>1. pc'[t] = l /\ job'[t] = j BY DEF Acts
    <2>2. Drives(t, r)' <=> l \in Driving BY <2>1 DEF Drives
    <2>3. \A u \in Workers : u # t => ~Drives(u, r)' BY <1>1
    <2>4. CASE l \in Driving BY <2>1, <2>2, <2>4, PermitNext
    <2>5. CASE l \notin Driving BY <2>2, <2>3, <2>5, PermitNext
    <2>6. QED BY <2>4, <2>5
  <1>6. QED BY <1>3, <1>4, <1>5

-----------------------------------------------------------------------------
(* The steps of a worker *)

\* What the steps of one run have in common: the state they start from and
\* the types and owners they end with.
Before == Typed /\ Owned /\ Authorised /\ Resumable /\ Asking
After  == Typed' /\ Owned'

LEMMA BusyDriver ==
  ASSUME Before, NEW t \in Workers, pc[t] \in Driving,
         NEW r, r = job[t].run
  PROVE  /\ r \in Runs /\ \A u \in Workers \ {t} : ~Drives(u, r)
         /\ DriverAsks(pc[t], job[t]) /\ RunAsks(r)
         /\ AnswerAt(pc[t], job[t])
         /\ status[r] \in Transient /\ Shows(r) = "busy"
  <1>1. /\ r \in Runs /\ \A u \in Workers \ {t} : ~Drives(u, r)
        /\ status[r] \in Transient
    BY DriverFacts DEF Before
  <1>2. Shows(r) = "busy" BY <1>1 DEF Shows, GateState, Transient
  <1>3. QED BY <1>1, <1>2 DEF Before, Asking, Authorised, Answered

\* The driver goes on, leaving rows and launches alone.
LEMMA DriverGoesOn ==
  ASSUME Before, After, NEW t \in Workers, pc[t] \in Driving,
         NEW l \in Driving, NEW j, Acts(t, l, j), NEW r, r = job[t].run,
         j.run = r, UNCHANGED <<rowVars, launches>>,
         \/ UNCHANGED ckpt
         \/ RunAsks(r)' /\ \E x : ckpt' = [ckpt EXCEPT ![r] = x],
         DriverAsks(l, j)',
         Allowed(l, j) \in {Allowed(pc[t], job[t]), None}
  PROVE  Asking' /\ Gate!Next
  <1>2. /\ r \in Runs /\ \A u \in Workers \ {t} : ~Drives(u, r)
        /\ RunAsks(r) /\ status[r] \in Transient
    BY BusyDriver
  <1>3. \A q \in Runs : q # r => SameAsk(q)
    BY DEF SameAsk, rowVars, Before, Typed, TypeOK
  <1>4. LaunchesStay BY DEF LaunchesStay
  <1>5. RunAsks(r)'
    BY <1>2, <1>4, SameRunAsks DEF SameAsk, rowVars
  <1>6. Asking' BY <1>2, <1>3, <1>4, <1>5, WorkerAsks DEF Before
  <1>7. \A q \in Runs : GatePermit(q)' \in {GatePermit(q), None}
    <2>1. /\ \A q \in Runs \ {r} : GatePermit(q)' = GatePermit(q)
          /\ GatePermit(r) = Allowed(pc[t], job[t])
          /\ GatePermit(r)' = Allowed(l, j)
      BY <1>2, StepPermits DEF Before, After
    <2>2. QED BY <2>1
  <1>8. \A q \in Runs : Shows(q)' = Shows(q) /\ seen'[q] = seen[q]
    BY DEF Shows, rowVars
  <1>9. SeenTyped /\ SeenTyped'
    BY DEF SeenTyped, Before, After, Typed, TypeOK
  <1>10. Gate!Next BY <1>7, <1>8, <1>9, GateLoses
  <1>11. QED BY <1>6, <1>10

\* The answer of a worker that is not declining is the one it resumed with.
LEMMA NotDeclining ==
  ASSUME Before, NEW t \in Workers, pc[t] \in Driving \ {"refuse"}
  PROVE  /\ job[t].op \in {"start", "approve"}
         /\ job[t].op = "start" => job[t].token = None /\ pc[t] # "issue"
  <1>1. job[t] \in Jobs BY DEF Before, Typed, HeldAt, Driving
  <1>2. job[t].op \in {"start", "approve", "decline"}
    BY <1>1 DEF Jobs, Claimed
  <1>3. job[t].op # "decline" BY BusyDriver DEF DriverAsks
  <1>4. AnswerAt(pc[t], job[t]) /\ pc[t] # "idle"
    BY BusyDriver DEF Driving
  <1>5. QED BY <1>2, <1>3, <1>4 DEF AnswerAt

\* A checkpoint that is resumed asks the question that has been answered.
LEMMA IssueGate ==
  ASSUME Before, After, NEW t \in Workers, IssueAndResume(t)
  PROVE  Asking' /\ Gate!Next
  <1>0. PICK r, c : r = job[t].run /\ c = ckpt[r] OBVIOUS
  <1>0a. PICK j : j = Memory(job[t].op, r, c, Issued(t), job[t].argv,
                             job[t].shown)
    OBVIOUS
  <1>1. /\ Acts(t, "graph", j) /\ pc[t] = "issue" /\ c # None
        /\ UNCHANGED <<rowVars, ckpt, launches>>
    BY <1>0, <1>0a, IssueActs DEF IssueAndResume, diskVars, Before
  <1>2. pc[t] \in Driving \ {"refuse"} /\ "graph" \in Driving
    BY <1>1 DEF Driving, Labels
  <1>3. /\ r \in Runs /\ DriverAsks(pc[t], job[t])
        /\ job[t].op = "approve"
    BY <1>0, <1>1, <1>2, BusyDriver, NotDeclining
  <1>4. /\ j.run = r /\ j.graph = c /\ j.shown = job[t].shown
        /\ j.op = job[t].op /\ j.token = Issued(t)
    BY <1>0a DEF Memory
  <1>5. j.token # None
    <2>1. job[t].shown \in Challenges /\ minted \in Nat
      BY <1>1 DEF Before, Typed, HeldAt, TypeOK
    <2>2. Issued(t) \in Tokens BY <2>1 DEF Issued, Tokens, Challenges
    <2>3. QED BY <1>4, <2>2, NoneAssumption
  <1>6. j.shown = Question(c) /\ Latest(r, j.shown)
    BY <1>0, <1>1, <1>2, <1>3, <1>4 DEF DriverAsks
  <1>7. j.shown.index = c.index BY <1>6 DEF Question
  <1>8. LaunchesStay /\ seen'[r] = seen[r]
    BY <1>1 DEF LaunchesStay, rowVars
  <1>9. Latest(r, j.shown)' /\ Askable(r, c)'
    BY <1>3, <1>6, <1>8, SameOrder DEF Askable
  <1>10. DriverAsks("graph", j)'
    BY <1>3, <1>4, <1>5, <1>7, <1>9 DEF DriverAsks
  <1>11. Allowed("graph", j) = Allowed(pc[t], job[t])
    BY <1>1, <1>3, <1>4, <1>5 DEF Allowed
  <1>12. QED
    BY <1>0, <1>1, <1>2, <1>4, <1>10, <1>11, DriverGoesOn

\* A node returns: the first action of a plan is one nobody was asked about,
\* the next one comes after the question whose command has been launched.
LEMMA ReturnGate ==
  ASSUME Before, After, NEW t \in Workers, NEW h, ReturnStep(t, h)
  PROVE  Asking' /\ Gate!Next
  <1>0. PICK r, g : r = job[t].run /\ g = job[t].graph OBVIOUS
  <1>0a. PICK j : j = Memory(job[t].op, r, h, None, None, job[t].shown)
    OBVIOUS
  <1>1. /\ Acts(t, "graph", j) /\ pc[t] \in {"graph", "verify", "spawn", "wait"}
        /\ h.interrupt = None
        /\ UNCHANGED <<rowVars, ckpt, launches>>
    BY <1>0, <1>0a DEF ReturnStep, OnlyTrace, worldVars
  <1>2. pc[t] \in Driving \ {"refuse"} /\ "graph" \in Driving
    BY <1>1 DEF Driving, Labels
  <1>3. /\ r \in Runs /\ DriverAsks(pc[t], job[t])
        /\ job[t].op # "decline"
    BY <1>0, <1>1, <1>2, BusyDriver, NotDeclining
  <1>4. j.run = r /\ j.graph = h /\ j.token = None /\ j.op = job[t].op
    BY <1>0a DEF Memory
  <1>5. h.next = "execute" => Ready(r, h.index)
    <2>1. CASE ChoosesPlan(g, h)
      <3>1. HasGraph(pc[t], job[t]) /\ pc[t] # "idle"
        BY <1>1 DEF HasGraph, GraphLabels
      <3>2. GovernedAt(pc[t], job[t]) BY DEF Before, Authorised, Governed
      <3>3. g.plan = <<>>
        BY <1>0, <2>1, <3>1, <3>2
        DEF GovernedAt, Sound, Settled, ChoosesPlan
      <3>4. seen[r] = {}
        BY <1>0, <1>3, <3>1, <3>3
        DEF Before, Authorised, AllPlannedOnce, PlannedOnce, PlannerAlone,
            Holds
      <3>5. QED BY <2>1, <3>4 DEF ChoosesPlan, Ready
    <2>2. CASE pc[t] = "wait" /\ Advances(g, h)
      <3>1. job[t].token # None
        BY <2>2 DEF Before, Typed, HeldAt
      <3>2. /\ job[t].shown.index = g.index /\ Latest(r, job[t].shown)
            /\ Started(r, job[t].shown)
        BY <1>0, <1>2, <1>3, <2>2, <3>1 DEF DriverAsks
      <3>3. QED BY <2>2, <3>2 DEF Advances, Ready, Latest
    <2>3. QED
      BY <1>0, <2>1, <2>2 DEF ReturnStep, Fails, Profiles, Finishes
  <1>6. LaunchesStay /\ seen'[r] = seen[r]
    BY <1>1 DEF LaunchesStay, rowVars
  <1>7. h.next = "execute" => Ready(r, h.index)'
    BY <1>3, <1>5, <1>6, SameOrder
  <1>8. DriverAsks("graph", j)'
    BY <1>1, <1>3, <1>4, <1>7 DEF DriverAsks
  <1>9. Allowed("graph", j) = None BY <1>4 DEF Allowed
  <1>10. QED BY <1>0, <1>1, <1>2, <1>4, <1>8, <1>9, DriverGoesOn

\* The execute node stops at an action it may ask about.
LEMMA StopGate ==
  ASSUME Before, After, NEW t \in Workers, StopStep(t)
  PROVE  Asking' /\ Gate!Next
  <1>0. PICK r, g : r = job[t].run /\ g = job[t].graph OBVIOUS
  <1>0a. PICK j : j = Memory(job[t].op, r, Stopped(g), None, job[t].argv,
                             job[t].shown)
    OBVIOUS
  <1>1. /\ Acts(t, "flush", j) /\ pc[t] = "graph" /\ g.next = "execute"
        /\ job[t].token = None
        /\ UNCHANGED <<rowVars, ckpt, launches>>
    BY <1>0, <1>0a DEF StopStep, OnlyTrace, worldVars
  <1>2. pc[t] \in Driving \ {"refuse"} /\ "flush" \in Driving
    BY <1>1 DEF Driving, Labels
  <1>3. r \in Runs /\ DriverAsks(pc[t], job[t]) /\ job[t].op # "decline"
    BY <1>0, <1>1, <1>2, BusyDriver, NotDeclining
  <1>4. /\ j.run = r /\ j.graph = Stopped(g) /\ j.op = job[t].op
        /\ j.token = None
    BY <1>0a DEF Memory
  <1>5. WellFormed(g) BY <1>0, <1>1, GraphTyped DEF Before
  <1>6. Stopped(g).index = g.index
    BY <1>5 DEF Stopped, WellFormed, GraphStates
  <1>7. Ready(r, g.index) BY <1>0, <1>1, <1>2, <1>3 DEF DriverAsks
  <1>8. LaunchesStay /\ seen'[r] = seen[r]
    BY <1>1 DEF LaunchesStay, rowVars
  <1>9. PICK h : h = Stopped(g) OBVIOUS
  <1>10. Askable(r, h) BY <1>6, <1>7, <1>9 DEF Askable
  <1>11. Askable(r, h)' BY <1>3, <1>8, <1>10, SameOrder
  <1>12. DriverAsks("flush", j)' BY <1>3, <1>4, <1>9, <1>11 DEF DriverAsks
  <1>13. Allowed("flush", j) = None BY DEF Allowed
  <1>14. QED
    BY <1>0, <1>1, <1>2, <1>4, <1>12, <1>13, DriverGoesOn

\* The runner takes over, verifies the command, or an exception is raised:
\* the position of the graph and the answer stay, or the answer is void.
LEMMA MoveGate ==
  ASSUME Before, After, NEW t \in Workers,
         HandStep(t) \/ Verify(t) \/ Raise(t)
  PROVE  Asking' /\ Gate!Next
  <1>0. PICK r, g : r = job[t].run /\ g = job[t].graph OBVIOUS
  <1>1. /\ pc[t] \in {"issue", "graph", "verify", "flush", "record"}
        /\ UNCHANGED <<rowVars, ckpt, launches>>
    BY DEF HandStep, Verify, Raise, OnlyTrace, worldVars, diskVars
  <1>2. pc[t] \in Driving \ {"refuse"} BY <1>1 DEF Driving, Labels
  <1>3. r \in Runs /\ DriverAsks(pc[t], job[t]) /\ job[t].op # "decline"
    BY <1>0, <1>2, BusyDriver, NotDeclining
  <1>4. LaunchesStay /\ seen'[r] = seen[r]
    BY <1>1 DEF LaunchesStay, rowVars
  <1>5. CASE HandStep(t) \/ Verify(t)
    <2>0. PICK l, j :
            /\ l \in {"verify", "spawn"} /\ Acts(t, l, j)
            /\ j.run = r /\ j.graph = g
            /\ j.token = job[t].token /\ j.shown = job[t].shown
            /\ j.op = job[t].op
      <3>1. HandStep(t) => Acts(t, "verify", job[t]) BY DEF HandStep
      <3>2. CASE Verify(t)
        <4>1. PICK m : m = Memory(job[t].op, r, g, job[t].token,
                                  CurrentDigest(g), job[t].shown)
          OBVIOUS
        <4>2. /\ m.run = r /\ m.graph = g /\ m.token = job[t].token
              /\ m.shown = job[t].shown /\ m.op = job[t].op
          BY <4>1 DEF Memory
        <4>3. Acts(t, "spawn", m) BY <1>0, <3>2, <4>1, VerifyActs DEF Before
        <4>4. QED BY <4>2, <4>3
      <3>3. QED BY <1>0, <1>5, <3>1, <3>2
    <2>1. pc[t] \in {"graph", "verify"} /\ job[t].token # None
      BY <1>5 DEF HandStep, Verify, Before, Typed, HeldAt
    <2>2. l \in Driving BY <2>0 DEF Driving, Labels
    <2>3. /\ g.interrupt # None => Askable(r, g)
          /\ j.shown.index = g.index /\ Latest(r, j.shown)
      BY <1>0, <1>2, <1>3, <2>0, <2>1
      DEF DriverAsks, HasGraph, GraphLabels
    <2>4. /\ g.interrupt # None => Askable(r, g)'
          /\ Latest(r, j.shown)'
      BY <1>3, <1>4, <2>3, SameOrder
    <2>5. DriverAsks(l, j)' BY <1>3, <2>0, <2>1, <2>3, <2>4 DEF DriverAsks
    <2>6. Allowed(l, j) = Allowed(pc[t], job[t])
      BY <2>0, <2>1 DEF Allowed
    <2>7. QED BY <1>0, <1>1, <1>2, <2>0, <2>2, <2>5, <2>6, DriverGoesOn
  <1>6. CASE Raise(t)
    <2>0. PICK j : j = job[t] OBVIOUS
    <2>1. Acts(t, "fail", j) BY <1>6, <2>0, GotoActs DEF Raise, Before
    <2>2. GovernedAt(pc[t], job[t]) BY DEF Before, Authorised, Governed
    <2>3. HasGraph("fail", j) => HasGraph(pc[t], job[t])
      BY <1>1, <1>6, <2>0, <2>2 DEF HasGraph, GraphLabels, GovernedAt
    <2>4. HasGraph("fail", j) /\ j.graph.interrupt # None
            => Askable(r, j.graph)'
      BY <1>0, <1>2, <1>3, <1>4, <2>0, <2>3, SameOrder DEF DriverAsks
    <2>5. DriverAsks("fail", j)'
      BY <1>0, <1>3, <2>0, <2>4 DEF DriverAsks
    <2>6. Allowed("fail", j) = None /\ "fail" \in Driving
      BY DEF Allowed, Driving, Labels
    <2>7. QED BY <1>0, <1>1, <1>2, <2>0, <2>1, <2>5, <2>6, DriverGoesOn
  <1>7. QED BY <1>5, <1>6

\* The values in a worker's memory become its run's checkpoint.
LEMMA CheckpointGate ==
  ASSUME Before, After, NEW t \in Workers, Persist(t) \/ Flush(t)
  PROVE  Asking' /\ Gate!Next
  <1>0. PICK r, j, g : r = job[t].run /\ j = job[t] /\ g = job[t].graph
    OBVIOUS
  <1>1. /\ pc[t] \in {"graph", "fail", "flush"} /\ g # None
        /\ ckpt' = [ckpt EXCEPT ![r] = g]
        /\ UNCHANGED <<rowVars, launches>>
    BY <1>0, GraphTyped, NoneAssumption
    DEF Persist, Flush, AtNode, worldVars, WellFormed, Before
  <1>2. pc[t] \in Driving \ {"refuse"} /\ HasGraph(pc[t], j)
    BY <1>0, <1>1 DEF Driving, Labels, HasGraph, GraphLabels
  <1>3. /\ r \in Runs /\ DriverAsks(pc[t], j) /\ j.op # "decline"
        /\ status[r] \in Transient
    BY <1>0, <1>2, BusyDriver, NotDeclining
  <1>4. LaunchesStay /\ seen'[r] = seen[r] /\ status'[r] = status[r]
    BY <1>1 DEF LaunchesStay, rowVars
  <1>5. g.interrupt # None => Askable(r, g)'
    BY <1>0, <1>2, <1>3, <1>4, SameOrder DEF DriverAsks
  <1>6. ckpt'[r] = g BY <1>1, <1>3 DEF Before, Typed, TypeOK
  <1>7. RunAsks(r)' BY <1>3, <1>4, <1>5, <1>6 DEF RunAsks, Transient
  <1>8. PICK l : /\ Acts(t, l, j)
                 /\ \/ l = pc[t] /\ l \in {"graph", "fail"}
                    \/ l = "record"
    <2>1. Persist(t) => Acts(t, pc[t], j) BY <1>0 DEF Persist, Acts
    <2>2. Flush(t) => Acts(t, "record", j)
      BY <1>0, GotoActs DEF Flush, Before
    <2>3. QED BY <1>1, <2>1, <2>2 DEF Persist
  <1>9. l \in Driving BY <1>8 DEF Driving, Labels
  <1>10. DriverAsks(l, j)'
    BY <1>0, <1>2, <1>3, <1>4, <1>5, <1>8, SameOrder DEF DriverAsks
  <1>11. Allowed(l, j) \in {Allowed(pc[t], job[t]), None}
    BY <1>0, <1>8 DEF Allowed
  <1>12. QED
    BY <1>0, <1>1, <1>2, <1>7, <1>8, <1>9, <1>10, <1>11, DriverGoesOn

\* The command that starts is the one the driver's answer was to.
LEMMA SpawnGate ==
  ASSUME Before, After, NEW t \in Workers, Spawn(t)
  PROVE  Asking' /\ Gate!Next
  <1>0. PICK r, j : r = job[t].run /\ j = job[t] OBVIOUS
  <1>0a. PICK x : x = [run |-> r, index |-> j.graph.index,
                       digest |-> j.argv, id |-> j.token.id,
                       shown |-> j.shown]
    OBVIOUS
  <1>1. /\ pc[t] = "spawn" /\ Acts(t, "wait", j)
        /\ launches' = Append(launches, x)
        /\ UNCHANGED <<rowVars, ckpt>>
    BY <1>0, <1>0a, GotoActs DEF Spawn, diskVars, Before
  <1>2. pc[t] \in Driving \ {"refuse"} /\ "wait" \in Driving
    BY <1>1 DEF Driving, Labels
  <1>3. /\ r \in Runs /\ \A u \in Workers \ {t} : ~Drives(u, r)
        /\ DriverAsks(pc[t], j) /\ RunAsks(r) /\ AnswerAt(pc[t], j)
        /\ Shows(r) = "busy"
    BY <1>0, <1>2, BusyDriver
  <1>4. j.token # None /\ j.shown \in Challenges
    BY <1>0, <1>1 DEF Before, Typed, HeldAt
  <1>5. j.op = "approve" BY <1>0, <1>2, <1>4, NotDeclining
  <1>6. j.shown = [index |-> x.index, digest |-> x.digest] /\ x.run = r
    BY <1>0a, <1>1, <1>3 DEF AnswerAt
  <1>7. LaunchesStay /\ Started(r, j.shown)'
    <2> DEFINE n == Len(launches)
    <2>1. launches \in Seq(Launches) BY DEF Before, Typed, TypeOK
    <2>2. /\ n + 1 \in DOMAIN launches' /\ launches'[n + 1] = x
          /\ LaunchesStay
      BY <1>1, <2>1 DEF LaunchesStay
    <2> HIDE DEF n
    <2>3. j.shown.index = x.index /\ j.shown.digest = x.digest BY <1>6
    <2>4. QED BY <1>6, <2>2, <2>3 DEF Started
  <1>8. /\ \A q \in Runs : SameAsk(q) BY <1>1 DEF SameAsk, rowVars
  <1>9. RunAsks(r)' BY <1>3, <1>7, <1>8, SameRunAsks
  <1>10. /\ j.shown.index = j.graph.index /\ Latest(r, j.shown)
         /\ j.graph.interrupt # None => Askable(r, j.graph)
    BY <1>0, <1>1, <1>2, <1>3, <1>4 DEF DriverAsks, HasGraph, GraphLabels
  <1>11. /\ Latest(r, j.shown)'
         /\ j.graph.interrupt # None => Askable(r, j.graph)'
    BY <1>3, <1>7, <1>8, <1>10, SameOrder DEF SameAsk
  <1>12. DriverAsks("wait", j)'
    BY <1>0, <1>5, <1>7, <1>10, <1>11 DEF DriverAsks
  <1>13. Asking' BY <1>1, <1>3, <1>7, <1>8, <1>9, <1>12, WorkerAsks DEF Before
  <1>14. /\ \A q \in Runs \ {r} : GatePermit(q)' = GatePermit(q)
         /\ GatePermit(r) = Allowed(pc[t], j)
         /\ GatePermit(r)' = Allowed("wait", j)
    BY <1>0, <1>1, <1>2, <1>3, StepPermits DEF Before, After
  <1>15. GatePermit(r) = j.shown /\ GatePermit(r)' = None
    BY <1>1, <1>5, <1>14 DEF Allowed
  <1>16. \A q \in Runs : Shows(q)' = Shows(q) /\ seen'[q] = seen[q]
    BY <1>1 DEF Shows, rowVars
  <1>17. SeenTyped /\ SeenTyped' /\ launches \in Seq(Launches)
    BY DEF SeenTyped, Before, After, Typed, TypeOK
  <1>18. GatePermit(r) # None BY <1>4, <1>15, NoneAssumption
  <1>19. \A q \in Runs \ {r} : Unseen(q) BY <1>14, <1>16 DEF Unseen
  <1>20. Gate!Next
    BY <1>1, <1>3, <1>6, <1>15, <1>16, <1>17, <1>18, <1>19, GateLaunches
  <1>21. QED BY <1>13, <1>20

-----------------------------------------------------------------------------
(* Claims, and updates of a row *)

\* Two questions about the same tool are about the same place in the plan.
LEMMA SamePlace ==
  ASSUME NEW r \in Runs, PlannedOnce(r), seen[r] \subseteq Challenges,
         NEW p \in seen[r], NEW q \in seen[r], p.digest = q.digest
  PROVE  p = q
  <1>1. PICK x \in Plans \cup {<<>>} : Follows(r, x) BY DEF PlannedOnce
  <1>2. /\ p.index + 1 \in DOMAIN x /\ q.index + 1 \in DOMAIN x
        /\ x[p.index + 1] = x[q.index + 1]
    BY <1>1 DEF Follows
  <1>3. x # <<>> BY <1>2
  <1>4. p.index + 1 = q.index + 1 BY <1>1, <1>2, <1>3 DEF Plans
  <1>5. p \in Challenges /\ q \in Challenges OBVIOUS
  <1>6. /\ p = [index |-> p.index, digest |-> p.digest]
        /\ q = [index |-> q.index, digest |-> q.digest]
        /\ p.index \in Nat /\ q.index \in Nat
    BY <1>5 DEF Challenges
  <1>7. p.index = q.index BY <1>4, <1>6
  <1>8. QED BY <1>6, <1>7

\* A thread claims a run nobody drives.
LEMMA ClaimGate ==
  ASSUME Before, After, NEW t \in Workers, NEW r \in Runs,
         NEW x \in Transient, NEW l \in Driving, NEW j,
         pc[t] \notin Driving, status[r] \notin Transient,
         Acts(t, l, j), j.run = r, status' = [status EXCEPT ![r] = x],
         UNCHANGED <<seen, ckpt, launches>>, DriverAsks(l, j)',
         \/ status[r] = "planned" /\ Allowed(l, j) = None
         \/ /\ status[r] = "waiting_for_approval"
            /\ \/ Allowed(l, j) = None
               \/ \E c : Latest(r, c) /\ Allowed(l, j) = c
  PROVE  Asking' /\ Gate!Next
  <1>1. \A u \in Workers : ~Drives(u, r)
    BY NotDriven DEF Owned, Before
  <1>2. /\ status'[r] = x
        /\ \A q \in Runs : q # r => SameAsk(q)
    BY DEF SameAsk, Before, Typed, TypeOK
  <1>3. LaunchesStay /\ seen'[r] = seen[r] /\ ckpt'[r] = ckpt[r]
    BY DEF LaunchesStay
  <1>4. RunAsks(r)'
    <2>1. PICK g : g = ckpt[r] OBVIOUS
    <2>2. g # None /\ g.interrupt # None => Askable(r, g)'
      BY <1>3, <2>1, SameOrder DEF Before, Asking, RunAsks
    <2>3. ckpt'[r] = g /\ status'[r] # "waiting_for_approval"
      BY <1>2, <1>3, <2>1 DEF Transient
    <2>4. QED BY <2>2, <2>3 DEF RunAsks
  <1>5. Asking' BY <1>1, <1>2, <1>3, <1>4, WorkerAsks DEF Before
  <1>6. /\ \A q \in Runs \ {r} : GatePermit(q)' = GatePermit(q)
        /\ GatePermit(r) = None
        /\ GatePermit(r)' = Allowed(l, j)
    BY <1>1, StepPermits DEF Before, After
  <1>7. \A q \in Runs \ {r} : Unseen(q)
    BY <1>2, <1>6 DEF Unseen, SameAsk, Shows
  <1>8. /\ Shows(r)' = "busy"
        /\ status[r] = "planned" => Shows(r) = "ready"
        /\ status[r] = "waiting_for_approval" => Shows(r) = "asking"
    BY <1>2 DEF Shows, GateState, Transient
  <1>9. SeenTyped /\ SeenTyped'
    BY DEF SeenTyped, Before, After, Typed, TypeOK
  <1>10. CASE Allowed(l, j) = None
    <2>1. Shows(r) = "ready" \/ Shows(r) = "asking" BY <1>8
    <2>2. GatePermit(r)' = GatePermit(r) BY <1>6, <1>10
    <2>3. QED
      BY <1>3, <1>5, <1>7, <1>8, <1>9, <2>1, <2>2, GateStateMoves
  <1>11. ASSUME NEW c, Latest(r, c), Allowed(l, j) = c,
                status[r] = "waiting_for_approval"
         PROVE  Gate!Next
    BY <1>3, <1>6, <1>7, <1>8, <1>9, <1>11, GateAllows
  <1>12. QED BY <1>5, <1>10, <1>11

LEMMA StartGate ==
  ASSUME Before, After, NEW t \in Workers, ClaimStart(t)
  PROVE  Asking' /\ Gate!Next
  <1>0. PICK r : r = job[t].run OBVIOUS
  <1>0a. PICK j : j = Memory(job[t].op, r, InitialGraph, job[t].token,
                             job[t].argv, job[t].shown)
    OBVIOUS
  <1>1. Acts(t, "graph", j) /\ pc[t] = "claim"
    BY <1>0, <1>0a, ClaimStartActs DEF ClaimStart, Before
  <1>2. job[t] \in Jobs /\ AnswerAt(pc[t], job[t])
    BY <1>1 DEF Before, Typed, HeldAt, Authorised, Answered
  <1>3. r \in Runs BY <1>0, <1>2 DEF Jobs
  <1>4. /\ j.run = r /\ j.graph = InitialGraph /\ j.token = None
        /\ j.op = "start"
    BY <1>0a, <1>1, <1>2 DEF Memory, AnswerAt
  <1>5. /\ status[r] = "planned"
        /\ status' = [status EXCEPT ![r] = "starting"]
        /\ UNCHANGED <<seen, ckpt, launches>>
    BY <1>0, <1>1 DEF ClaimStart, Claimable, diskVars, worldVars
  <1>6. DriverAsks("graph", j)' BY <1>4 DEF DriverAsks, InitialGraph
  <1>7. Allowed("graph", j) = None BY <1>4 DEF Allowed
  <1>8. "graph" \in Driving /\ "claim" \notin Driving
    BY DEF Driving, Labels
  <1>9. QED
    BY <1>1, <1>3, <1>4, <1>5, <1>6, <1>7, <1>8, ClaimGate DEF Transient

\* The click names the latest question: no other has its digest.
LEMMA AnswerGate ==
  ASSUME Before, After, NEW t \in Workers, NEW r \in Runs, NEW c \in seen[r],
         NEW o \in {"approve", "decline"}, ClaimPending(t, r, c, o)
  PROVE  Asking' /\ Gate!Next
  <1>0. PICK j, l : /\ j = Memory(o, r, None, None, None, c)
                    /\ l = IF o = "approve" THEN "issue" ELSE "refuse"
    OBVIOUS
  <1>1. Acts(t, l, j) BY <1>0, ClaimActs DEF Before
  <1>2. /\ j.run = r /\ j.shown = c /\ j.op = o /\ j.token = None
    BY <1>0 DEF Memory
  <1>3. /\ pc[t] = "idle" /\ status[r] = "waiting_for_approval"
        /\ pending[r] = c.digest
        /\ status' = [status EXCEPT ![r] = "approving"]
        /\ UNCHANGED <<seen, ckpt, launches>>
    BY DEF ClaimPending, diskVars, worldVars
  <1>4. PICK g, q : g = ckpt[r] /\ q = Question(g) OBVIOUS
  <1>5. c.digest = g.interrupt /\ Latest(r, q)
    BY <1>3, <1>4 DEF Before, Resumable, RunKept, Asking, RunAsks
  <1>6. q.digest = c.digest /\ q \in seen[r]
    BY <1>4, <1>5 DEF Question, Latest
  <1>7. c = q
    <2>1. PlannedOnce(r) /\ seen[r] \subseteq Challenges
      BY DEF Before, Authorised, AllPlannedOnce, Typed, TypeOK
    <2>2. QED BY <1>6, <2>1, SamePlace
  <1>8. LaunchesStay /\ seen'[r] = seen[r] /\ ckpt'[r] = g
    BY <1>3, <1>4 DEF LaunchesStay
  <1>9. Latest(r, c)' /\ Question(ckpt[r])' = c
    BY <1>4, <1>5, <1>7, <1>8, SameOrder DEF Question
  <1>10. DriverAsks(l, j)'
    BY <1>0, <1>2, <1>9 DEF DriverAsks, HasGraph, GraphLabels
  <1>11. l \in Driving /\ "idle" \notin Driving
    BY <1>0 DEF Driving, Labels
  <1>12. Allowed(l, j) = c \/ Allowed(l, j) = None BY <1>2 DEF Allowed
  <1>13. Latest(r, c) BY <1>5, <1>7
  <1>14. "approving" \in Transient
         /\ "waiting_for_approval" \notin Transient
    BY DEF Transient
  <1>15. QED
    BY <1>1, <1>2, <1>3, <1>10, <1>11, <1>12, <1>13, <1>14, ClaimGate

\* Once it has been recorded, a question that may be asked is the latest.
LEMMA AskedIsLatest ==
  ASSUME SeenTyped, NEW r \in Runs, NEW g, WellFormed(g), Askable(r, g),
         seen'[r] = seen[r] \cup {Question(g)}
  PROVE  /\ Latest(r, Question(g))'
         /\ Latest(r, Question(g)) => seen'[r] = seen[r]
  <1>1. PICK q : q = Question(g) OBVIOUS
  <1>2. q.index = g.index /\ g.index \in Nat
    BY <1>1 DEF Question, WellFormed, GraphStates
  <1>3. Latest(r, q) \/ Ready(r, g.index) BY <1>1 DEF Askable
  <1>4. \A p \in seen[r] : p.index \in Nat BY DEF SeenTyped, Challenges
  <1>5. \A p \in seen[r] : p.index <= g.index
    BY <1>2, <1>3, <1>4 DEF Latest, Ready
  <1>6. seen'[r] = seen[r] \cup {q} BY <1>1
  <1>7. \A p \in seen'[r] : p.index <= q.index BY <1>2, <1>5, <1>6
  <1>8. Latest(r, q)' BY <1>6, <1>7 DEF Latest
  <1>9. Question(g)' = q BY <1>1 DEF Question
  <1>10. Latest(r, Question(g))' BY <1>8, <1>9
  <1>11. Latest(r, Question(g)) => seen'[r] = seen[r] BY DEF Latest
  <1>12. QED BY <1>10, <1>11

\* An update of the row of a run: it ends, or its checkpoint's question is
\* shown.  The answer to the question before is void.
LEMMA UpdateGate ==
  ASSUME Before, After, NEW r \in Runs, NEW e \in Incomplete,
         \/ \E f \in {"failed", "refused"} : MarkTerminal(r, e, f)
         \/ /\ UpdateFromResult(r, e, ckpt[r])
            /\ ckpt[r] # None /\ Returnable(ckpt[r]),
         UNCHANGED <<ckpt, launches>>,
         \A q \in Runs \ {r} : GatePermit(q)' = GatePermit(q),
         GatePermit(r)' = None
  PROVE  /\ RunAsks(r)' /\ Gate!Next
         /\ \A q \in Runs : q # r => SameAsk(q)
  <1>1. /\ status \in [Runs -> Statuses]
        /\ seen \in [Runs -> SUBSET Challenges]
        /\ SeenTyped /\ SeenTyped'
    BY DEF SeenTyped, Before, After, Typed, TypeOK
  <1>2. LaunchesStay /\ ckpt'[r] = ckpt[r] BY DEF LaunchesStay
  <1>3. RunAsks(r) BY DEF Before, Asking
  <1>4. CASE UNCHANGED rowVars
    <2>1. \A q \in Runs : SameAsk(q) BY <1>4 DEF SameAsk, rowVars
    <2>2. RunAsks(r)' BY <1>2, <1>3, <2>1, SameRunAsks
    <2>3. \A q \in Runs : /\ Shows(q)' = Shows(q) /\ seen'[q] = seen[q]
                          /\ GatePermit(q)' \in {GatePermit(q), None}
      BY <2>1 DEF SameAsk, Shows
    <2>4. Gate!Next BY <1>1, <2>3, GateLoses
    <2>5. QED BY <2>1, <2>2, <2>4
  <1>5. ASSUME NEW f \in Terminal, status[r] = e,
               status' = [status EXCEPT ![r] = f], seen'[r] = seen[r],
               \A q \in Runs : q # r => seen'[q] = seen[q]
        PROVE  /\ RunAsks(r)' /\ Gate!Next
               /\ \A q \in Runs : q # r => SameAsk(q)
    <2>1. status'[r] = f /\ \A q \in Runs : q # r => SameAsk(q)
      BY <1>1, <1>5 DEF SameAsk
    <2>2. f # "waiting_for_approval" BY DEF Terminal
    <2>3. PICK g : g = ckpt[r] OBVIOUS
    <2>4. g # None /\ g.interrupt # None => Askable(r, g)'
      BY <1>2, <1>3, <1>5, <2>3, SameOrder DEF RunAsks
    <2>5. RunAsks(r)' BY <1>2, <2>1, <2>2, <2>3, <2>4 DEF RunAsks
    <2>6. \A q \in Runs \ {r} : Unseen(q)
      BY <2>1 DEF Unseen, SameAsk, Shows
    <2>7. Shows(r) \in {"busy", "asking"} /\ Shows(r)' = "over"
      BY <1>5, <2>1 DEF Shows, GateState, Incomplete, Terminal
    <2>8. Gate!Next BY <1>1, <1>5, <2>6, <2>7, GateEnds
    <2>9. QED BY <2>1, <2>5, <2>8
  <1>6. ASSUME NEW g, g = ckpt[r], g # None, g.interrupt # None,
               status[r] = e,
               status' = [status EXCEPT ![r] = "waiting_for_approval"],
               seen' = [seen EXCEPT ![r] = seen[r] \cup {Question(g)}]
        PROVE  /\ RunAsks(r)' /\ Gate!Next
               /\ \A q \in Runs : q # r => SameAsk(q)
    <2>1. /\ status'[r] = "waiting_for_approval"
          /\ seen'[r] = seen[r] \cup {Question(g)}
          /\ \A q \in Runs : q # r => SameAsk(q)
      BY <1>1, <1>6 DEF SameAsk
    <2>2. WellFormed(g) /\ Askable(r, g)
      BY <1>3, <1>6 DEF RunAsks, Before, Typed
    <2>3. PICK q : q = Question(g) OBVIOUS
    <2>4. Latest(r, q)' /\ (Latest(r, q) => seen'[r] = seen[r])
      BY <1>1, <2>1, <2>2, <2>3, AskedIsLatest DEF Question
    <2>5. Question(g)' = q BY <2>3 DEF Question
    <2>6. ckpt'[r] = g BY <1>2, <1>6
    <2>7. RunAsks(r)' BY <2>3, <2>4, <2>6 DEF RunAsks, Askable, Question
    <2>8. \A x \in Runs \ {r} : Unseen(x)
      BY <2>1 DEF Unseen, SameAsk, Shows
    <2>9. Shows(r)' = "asking" BY <2>1 DEF Shows, GateState
    <2>10. CASE e = "waiting_for_approval"
      <3>1. Latest(r, q) BY <1>3, <1>6, <2>3, <2>10 DEF RunAsks
      <3>2. seen'[r] = seen[r] BY <2>4, <3>1
      <3>3. Shows(r) = "asking" BY <1>6, <2>10 DEF Shows, GateState
      <3>4. \A x \in Runs : /\ Shows(x)' = Shows(x) /\ seen'[x] = seen[x]
                            /\ GatePermit(x)' \in {GatePermit(x), None}
        BY <2>8, <2>9, <3>2, <3>3 DEF Unseen
      <3>5. Gate!Next BY <1>1, <3>4, GateLoses
      <3>6. QED BY <2>1, <2>7, <3>5
    <2>11. CASE e # "waiting_for_approval"
      <3>1. Shows(r) = "busy"
        BY <1>6, <2>11 DEF Shows, GateState, Incomplete
      <3>2. Gate!Next
        BY <1>1, <1>6, <2>1, <2>2, <2>8, <2>9, <3>1, GateAsks
      <3>3. QED BY <2>1, <2>7, <3>2
    <2>12. QED BY <2>10, <2>11
  <1>7. ASSUME NEW f \in {"failed", "refused"}, MarkTerminal(r, e, f)
        PROVE  /\ RunAsks(r)' /\ Gate!Next
               /\ \A q \in Runs : q # r => SameAsk(q)
    BY <1>4, <1>5, <1>7 DEF MarkTerminal, Terminal
  <1>8. CASE /\ UpdateFromResult(r, e, ckpt[r])
             /\ ckpt[r] # None /\ Returnable(ckpt[r])
    <2>1. PICK g : g = ckpt[r] OBVIOUS
    <2>2. CASE status[r] # e BY <1>4, <1>8, <2>2 DEF UpdateFromResult
    <2>3. CASE status[r] = e /\ g.interrupt = None
      <3>1. /\ status' = [status EXCEPT ![r] = g.status]
            /\ seen' = seen /\ g.status \in Terminal
        BY <1>8, <2>1, <2>3 DEF UpdateFromResult, ResultStatus, Returnable
      <3>2. QED BY <1>5, <2>1, <2>3, <3>1
    <2>4. CASE status[r] = e /\ g.interrupt # None
      <3>1. /\ status' = [status EXCEPT ![r] = "waiting_for_approval"]
            /\ seen' = [seen EXCEPT ![r] = seen[r] \cup {Question(g)}]
        BY <1>8, <2>1, <2>4 DEF UpdateFromResult, ResultStatus, Question
      <3>2. QED BY <1>6, <1>8, <2>1, <2>4, <3>1
    <2>5. QED BY <2>2, <2>3, <2>4
  <1>9. QED BY <1>7, <1>8

\* The driver lets go of the run, with a question, a result or a failure.
LEMMA ReleaseGate ==
  ASSUME Before, After, NEW t \in Workers,
         Decline(t) \/ MarkFailed(t) \/ Record(t)
  PROVE  Asking' /\ Gate!Next
  <1>0. PICK r, e : r = job[t].run /\ e = Claimed[job[t].op] OBVIOUS
  <1>1. /\ pc[t] \in {"refuse", "fail", "record"} /\ Acts(t, "idle", None)
        /\ UNCHANGED <<ckpt, launches>>
    BY RetireActs DEF Decline, MarkFailed, Record, diskVars, worldVars, Before
  <1>2. pc[t] \in Driving /\ "idle" \notin Driving
    BY <1>1 DEF Driving, Labels
  <1>3. /\ r \in Runs /\ \A u \in Workers \ {t} : ~Drives(u, r)
        /\ DriverKept(pc[t], job[t]) /\ HeldAt(pc[t], job[t])
        /\ e \in Incomplete
    BY <1>0, <1>2, DriverFacts DEF Before, Transient, Incomplete
  <1>4. \/ \E f \in {"failed", "refused"} : MarkTerminal(r, e, f)
        \/ /\ UpdateFromResult(r, e, ckpt[r])
           /\ ckpt[r] # None /\ Returnable(ckpt[r])
    <2>1. CASE Record(t)
      <3>1. pc[t] = "record" BY <2>1 DEF Record
      <3>2. ckpt[r] = job[t].graph
        BY <1>0, <1>2, <1>3, <3>1 DEF DriverKept
      <3>3. WellFormed(job[t].graph) /\ Returnable(job[t].graph)
        BY <1>3, <3>1 DEF HeldAt
      <3>4. job[t].graph # None
        BY <3>3, NoneAssumption DEF WellFormed
      <3>5. QED BY <1>0, <2>1, <3>2, <3>3, <3>4 DEF Record
    <2>2. CASE MarkFailed(t) BY <1>0, <2>2 DEF MarkFailed
    <2>3. CASE Decline(t)
      <3>1. job[t].op = "decline"
        BY <2>3 DEF Decline, Before, Owned, OpSuits
      <3>2. e = "approving" BY <1>0, <3>1 DEF Claimed
      <3>3. QED BY <1>0, <2>3, <3>2 DEF Decline
    <2>4. QED BY <2>1, <2>2, <2>3
  <1>5. /\ \A q \in Runs \ {r} : GatePermit(q)' = GatePermit(q)
        /\ GatePermit(r)' = None
    BY <1>0, <1>1, <1>2, <1>3, StepPermits DEF Before, After
  <1>6. /\ RunAsks(r)' /\ Gate!Next
        /\ \A q \in Runs : q # r => SameAsk(q)
    BY <1>1, <1>3, <1>4, <1>5, UpdateGate
  <1>7. LaunchesStay /\ DriverAsks("idle", None)'
    BY <1>1, <1>2 DEF LaunchesStay, DriverAsks
  <1>8. Asking'
    BY <1>1, <1>3, <1>6, <1>7, WorkerAsks DEF Before
  <1>9. QED BY <1>6, <1>8

\* Steps that no run sees anything of, but for drivers that vanish.
LEMMA QuietGate ==
  ASSUME Before, After, UNCHANGED <<status, seen, ckpt, launches>>,
         \A u \in Workers : \/ pc'[u] \notin Driving
                            \/ pc'[u] = pc[u] /\ job'[u] = job[u]
  PROVE  Asking' /\ Gate!Next
  <1>1. \A r : SameAsk(r) BY DEF SameAsk
  <1>2. Asking' BY <1>1, ProcessAsks DEF Before
  <1>3. \A r \in Runs : GatePermit(r)' \in {GatePermit(r), None}
    <2>1. \A r \in Runs : \A u \in Workers :
            Drives(u, r)' =>
              Drives(u, r) /\ pc'[u] = pc[u] /\ job'[u] = job[u]
      BY DEF Drives
    <2>2. QED BY <2>1, PermitStays DEF Before, After
  <1>4. \A r \in Runs : Shows(r)' = Shows(r) /\ seen'[r] = seen[r]
    BY DEF Shows
  <1>5. SeenTyped /\ SeenTyped'
    BY DEF SeenTyped, Before, After, Typed, TypeOK
  <1>6. Gate!Next BY <1>3, <1>4, <1>5, GateLoses
  <1>7. QED BY <1>2, <1>6

LEMMA WorkGate ==
  ASSUME Before, After, NEW t \in Workers,
         Request(t) \/ Work(t) \/ Persist(t)
  PROVE  Asking' /\ Gate!Next
  <1>1. ASSUME NEW r \in Runs, StartRequest(t, r) PROVE Asking' /\ Gate!Next
    <2>1. \A u \in Workers : \/ pc'[u] \notin Driving
                             \/ pc'[u] = pc[u] /\ job'[u] = job[u]
      BY <1>1, StartActs DEF Acts, Driving, Before
    <2>2. QED
      BY <1>1, <2>1, QuietGate DEF StartRequest, rowVars, diskVars, worldVars
  <1>2. CASE ClaimStartLost(t)
    <2>1. \A u \in Workers : \/ pc'[u] \notin Driving
                             \/ pc'[u] = pc[u] /\ job'[u] = job[u]
      BY <1>2, RetireActs DEF ClaimStartLost, Acts, Driving, Before
    <2>2. QED
      BY <1>2, <2>1, QuietGate
      DEF ClaimStartLost, rowVars, diskVars, worldVars
  <1>3. CASE \/ ProfileNode(t) \/ PlanNode(t) \/ ExecuteNode(t)
             \/ VerifyRefuses(t) \/ SpawnFails(t) \/ Exit(t)
             \/ FinalizeNode(t)
    BY <1>3, NodeSteps, ReturnGate, StopGate, MoveGate DEF Before
  <1>4. CASE Work(t)
    BY <1>2, <1>3, <1>4, StartGate, IssueGate, MoveGate, SpawnGate,
       CheckpointGate, ReleaseGate
    DEF Work
  <1>5. QED BY <1>1, <1>4, AnswerGate, CheckpointGate DEF Request

-----------------------------------------------------------------------------
(* The steps of a process, and the theorem *)

LEMMA ReconcileGate ==
  ASSUME Before, After, NEW s \in Services, Reconcile(s)
  PROVE  Asking' /\ Gate!Next
  <1>1. PICK row \in todo[s] : \/ ReconcileRun(s, row[1], row[2])
                               \/ ReconcileRaises(s, row[1], row[2])
    BY DEF Reconcile
  <1>2. PICK r \in Runs, e \in Incomplete : row = <<r, e>>
    BY DEF Before, Typed, TypeOK
  <1>3. /\ phase[s] = "recovering"
        /\ UNCHANGED <<ckpt, launches, pc, job>>
    BY <1>1 DEF ReconcileRun, ReconcileRaises, diskVars, worldVars
  <1>4. \A t \in Workers : pc[t] \notin Driving /\ pc'[t] \notin Driving
    BY <1>3, NoneRecovering DEF Before, Owned, Driving
  <1>5. \/ MarkTerminal(r, e, "failed")
        \/ /\ UpdateFromResult(r, e, ckpt[r]) /\ ckpt[r] # None
           /\ ResultStatus(ckpt[r]) \in Terminal \cup {"waiting_for_approval"}
    BY <1>1, <1>2 DEF ReconcileRun, ReconcileRaises
  <1>6. ckpt[r] # None
          /\ ResultStatus(ckpt[r]) \in Terminal \cup {"waiting_for_approval"}
            => Returnable(ckpt[r])
    BY DEF ResultStatus, Returnable, Before, Typed, WellFormed, GraphStates,
       Terminal
  <1>7. \A q \in Runs : GatePermit(q)' = None /\ GatePermit(q) = None
    BY <1>4, PermitNext, PermitOfNone DEF Drives, After
  <1>8. /\ RunAsks(r)' /\ Gate!Next
        /\ \A q \in Runs : q # r => SameAsk(q)
    BY <1>3, <1>5, <1>6, <1>7, UpdateGate
  <1>9. Asking' BY <1>3, <1>4, <1>8, ProcessAsks DEF Before
  <1>10. QED BY <1>8, <1>9

LEMMA CreateGate ==
  ASSUME Before, After, NEW s \in Services, NEW r \in Runs, NEW level,
         CreateRun(s, r, level)
  PROVE  Asking' /\ Gate!Next
  <1>1. /\ status[r] = "none" /\ status' = [status EXCEPT ![r] = "planned"]
        /\ UNCHANGED <<seen, ckpt, launches, pc, job>>
    BY DEF CreateRun, worldVars
  <1>2. ckpt[r] = None /\ \A u \in Workers : ~Drives(u, r)
    BY <1>1 DEF Before, Authorised, AllPlannedOnce, PlannedOnce
  <1>3. status'[r] = "planned" /\ \A q \in Runs : q # r => SameAsk(q)
    BY <1>1 DEF SameAsk, Before, Typed, TypeOK
  <1>4. RunAsks(r)' BY <1>1, <1>2, <1>3 DEF RunAsks
  <1>5. ASSUME NEW u \in Workers, pc'[u] \in Driving
        PROVE  SameAsk(job[u].run)
    <2>1. pc[u] \in Driving /\ pc[u] # "idle" BY <1>1, <1>5 DEF Driving
    <2>2. job[u] \in Jobs BY <2>1 DEF Before, Typed, HeldAt
    <2>3. job[u].run \in Runs BY <2>2 DEF Jobs
    <2>4. QED BY <1>2, <1>3, <2>1, <2>3 DEF Drives
  <1>6. Asking' BY <1>1, <1>3, <1>4, <1>5, ProcessAsks DEF Before
  <1>7. \A q \in Runs : GatePermit(q)' = GatePermit(q)
    <2>1. \A q \in Runs, u \in Workers : Drives(u, q)' <=> Drives(u, q)
      BY <1>1 DEF Drives
    <2>2. QED BY <1>1, <2>1, PermitStays DEF Before, After
  <1>8. \A q \in Runs \ {r} : Unseen(q)
    BY <1>3, <1>7 DEF Unseen, SameAsk, Shows
  <1>9. Shows(r) = "none" /\ Shows(r)' = "ready"
    BY <1>1, <1>3 DEF Shows, GateState
  <1>10. SeenTyped /\ SeenTyped'
    BY DEF SeenTyped, Before, After, Typed, TypeOK
  <1>11. Gate!Next
    BY <1>1, <1>7, <1>8, <1>9, <1>10, GateStateMoves
  <1>12. QED BY <1>6, <1>11

LEMMA NextGate ==
  Before /\ After /\ [Next]_vars => Asking' /\ Gate!Next
  <1> SUFFICES ASSUME Before, After, [Next]_vars PROVE Asking' /\ Gate!Next
    OBVIOUS
  <1>1. CASE UNCHANGED vars
    BY <1>1, QuietGate DEF vars, rowVars, diskVars, worldVars
  <1>2. ASSUME NEW t \in Workers, Request(t) \/ Work(t) \/ Persist(t)
        PROVE  Asking' /\ Gate!Next
    BY <1>2, WorkGate
  <1>3. ASSUME NEW s \in Services, NEW r \in Runs, NEW level \in Levels,
               CreateRun(s, r, level)
        PROVE  Asking' /\ Gate!Next
    BY <1>3, CreateGate
  <1>4. ASSUME NEW s \in Services, Reconcile(s) PROVE Asking' /\ Gate!Next
    BY <1>4, ReconcileGate
  <1>5. ASSUME NEW s \in Services,
               \/ TrustWorkspace(s) \/ BootDone(s)
               \/ \E f \in Fingerprints : Boot(s, f)
        PROVE  Asking' /\ Gate!Next
    BY <1>5, QuietGate
    DEF TrustWorkspace, BootDone, Boot, rowVars, diskVars, worldVars
  <1>6. ASSUME NEW s \in Services, Crash(s) \/ Close(s)
        PROVE  Asking' /\ Gate!Next
    <2>1. ProcessEnds(s) BY <1>6 DEF Crash, Close
    <2>2. \A u \in Workers : \/ pc'[u] \notin Driving
                             \/ pc'[u] = pc[u] /\ job'[u] = job[u]
      BY <2>1 DEF ProcessEnds, Driving
    <2>3. QED BY <2>1, <2>2, QuietGate DEF ProcessEnds, rowVars, diskVars
  <1>7. ASSUME NEW b \in Binaries \cup {None}, Rebind(b)
        PROVE  Asking' /\ Gate!Next
    BY <1>7, QuietGate DEF Rebind, rowVars, diskVars
  <1>8. QED
    BY <1>1, <1>2, <1>3, <1>4, <1>5, <1>6, <1>7 DEF Next

LEMMA InitAsking == Init => Asking
  BY DEF Init, Asking, DriverAsks, RunAsks, Driving

\* Nobody has been told anything yet.
LEMMA InitGate == Init => Gate!Init
  <1> SUFFICES ASSUME Init PROVE Gate!Init OBVIOUS
  <1>1. \A r \in Runs : GatePermit(r) = None
    BY PermitOfNone DEF Init, Drives, Driving
  <1>2. \A r \in Runs : GateState[status[r]] = "none"
    BY DEF Init, GateState
  <1>3. [i \in DOMAIN launches |->
           [run |-> launches[i].run,
            question |-> [index |-> launches[i].index,
                          digest |-> launches[i].digest]]] = <<>>
    BY DEF Init
  <1>4. QED BY <1>1, <1>2, <1>3 DEF Gate!Init, Init

\* Whatever copy of a graph a restart or an answer goes on from, it is at the
\* first action nobody was asked about, or one after what has been launched.
THEOREM AskingAlways == Spec => []Asking
  <1>1. Before /\ After /\ [Next]_vars => Asking' BY NextGate
  <1>2. QED
    BY <1>1, InitAsking, TypedAlways, OwnedAlways, AuthorisedAlways,
       ResumableAlways, PTL
    DEF Spec, Before, After

\* The service keeps its promise to the person: commands are asked about in
\* order, every launch uses up one answer to that very question, and crashes
\* and restarts can lose an answer but never use it twice.
THEOREM ServiceImplementsHumanGate == Spec => ImplementsHumanGate
  <1>1. Before /\ After /\ [Next]_vars => [Gate!Next]_(Gate!vars)
    BY NextGate
  <1>2. QED
    BY <1>1, InitGate, TypedAlways, OwnedAlways, AuthorisedAlways,
       ResumableAlways, AskingAlways, PTL
    DEF Spec, Before, After, ImplementsHumanGate, Gate!Spec

-----------------------------------------------------------------------------
(* Lost updates: the same when the store raises and the row stays claimed *)

StoreNext == Next \/ \E t \in Workers : StoreRaises(t)

\* The worker vanishes as its process would, and its row stays.
LEMMA ReleaseLost ==
  ASSUME Typed, NEW t \in Workers, StoreRaises(t)
  PROVE  /\ \A u \in Workers : \/ pc'[u] = "idle"
                               \/ pc'[u] = pc[u] /\ job'[u] = job[u]
         /\ UNCHANGED <<status, pending, completed, origin, seen, trusted,
                        spent, minted, ckpt, trace, launches>>
  BY RetireActs DEF StoreRaises, Acts, rowVars, diskVars

LEMMA LostAuthorised ==
  ASSUME Typed, Authorised, NEW t \in Workers, StoreRaises(t)
  PROVE  Authorised'
  <1>1. Governed'
    BY ReleaseLost, GovernedRows DEF Authorised
  <1>2. AllPlannedOnce'
    BY ReleaseLost, FewerPlanned
    DEF FewerDrivers, Authorised, AllPlannedOnce, Drives, Driving
  <1>3. Answered' BY ReleaseLost, RowsAnswered DEF Authorised
  <1>4. QED BY <1>1, <1>2, <1>3 DEF Authorised

LEMMA LostKept ==
  ASSUME Typed, Resumable, NEW t \in Workers, StoreRaises(t)
  PROVE  Resumable'
  BY ReleaseLost, QuietKept DEF Driving

LEMMA LostGate ==
  ASSUME Before, After, NEW t \in Workers, StoreRaises(t)
  PROVE  Asking' /\ Gate!Next
  BY ReleaseLost, QuietGate DEF Driving, Before

THEOREM AuthorisedStore == StoreSpec => []Authorised
  <1>1. Typed /\ Authorised /\ [StoreNext]_vars => Authorised'
    BY NextAuthorised, LostAuthorised DEF StoreNext
  <1>2. QED BY <1>1, InitAuthorised, TypedStore, PTL DEF StoreSpec, StoreNext

THEOREM ResumableStore == StoreSpec => []Resumable
  <1>1. Typed /\ Owned /\ Authorised /\ Resumable /\ [StoreNext]_vars
          => Resumable'
    BY NextKept, LostKept DEF StoreNext
  <1>2. QED
    BY <1>1, InitKept, TypedStore, OwnedStore, AuthorisedStore, PTL
    DEF StoreSpec, StoreNext

THEOREM AskingStore == StoreSpec => []Asking
  <1>1. Before /\ After /\ [StoreNext]_vars => Asking'
    BY NextGate, LostGate DEF StoreNext
  <1>2. QED
    BY <1>1, InitAsking, TypedStore, OwnedStore, AuthorisedStore,
       ResumableStore, PTL
    DEF StoreSpec, StoreNext, Before, After

\* A run whose release is lost is stranded, but what was launched for it was
\* approved ...
THEOREM LaunchIsAuthorisedStore == StoreSpec => []LaunchIsAuthorised
  <1>1. Authorised => LaunchIsAuthorised BY DEF Authorised, Answered
  <1>2. QED BY <1>1, AuthorisedStore, PTL

\* ... and what a row says, the next restart included, is still so ...
THEOREM WaitingIsResumableStore == StoreSpec => []WaitingIsResumable
  BY ResumableWaits, ResumableStore, AuthorisedStore, PTL

THEOREM SuccessIsEarnedStore == StoreSpec => []SuccessIsEarned
  BY ResumableEarns, ResumableStore, AuthorisedStore, TypedStore, PTL

\* ... and the person is promised the same as without lost updates: nothing is
\* launched without an answer of its own, and no answer is used twice.
THEOREM ServiceImplementsHumanGateStore == StoreSpec => ImplementsHumanGate
  <1>1. Before /\ After /\ [StoreNext]_vars => [Gate!Next]_(Gate!vars)
    BY NextGate, LostGate DEF StoreNext
  <1>2. QED
    BY <1>1, InitGate, TypedStore, OwnedStore, AuthorisedStore,
       ResumableStore, AskingStore, PTL
    DEF StoreSpec, StoreNext, Before, After, ImplementsHumanGate, Gate!Spec

=============================================================================
