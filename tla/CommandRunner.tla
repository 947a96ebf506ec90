---------------------------- MODULE CommandRunner ----------------------------
(***************************************************************************)
(* LocalRunner: one command from its approval to its result, beside the    *)
(* command's process, another process that it starts, the files that       *)
(* decide what a name resolves to, and a crash of the service.             *)
(*                                                                         *)
(* The command writes to a file whose position it shares with the runner   *)
(* that reads it.  Two streams are alike: one is kept.  Writes are of one  *)
(* size.                                                                   *)
(***************************************************************************)
EXTENDS Naturals, Sequences, FiniteSets

CONSTANTS
  Exes,       \* the executables a name may resolve to
  LIMIT,      \* output_limit_bytes, with what is read beyond it for redaction
  MaxWrites   \* bound: what the command writes, and what its child does

ASSUME RunnerAssumption == LIMIT \in Nat \ {0} /\ MaxWrites \in Nat /\ "none" \notin Exes

VARIABLES
  rule,      \* the rule that matches: [approval, network], or NoRule
  networkDefault,
  resolved,  \* what the first word resolves to now
  shown,     \* the executable the approver was shown
  token,     \* what the capability is bound to
  consumed,
  pc,        \* of the runner
  running,   \* the executable that was started
  leader,    \* "none", "running", "stuck", "zombie", "reaped"
  code,      \* how it ended: "zero", "other", "killed"
  child,     \* "none", "group", "apart", "dead"
  file, position,
  said,      \* history: every write up to the runner's rewinding, in order
  late,      \* history: how many writes fall between the rewinding and the read
  timedOut, survived,
  output,    \* what was read
  result     \* "none", "refused", "failed", "error", "succeeded"
vars == <<rule, networkDefault, resolved, shown, token, consumed, pc, running, leader,
          code, child, file, position, said, late, timedOut, survived, output, result>>
policy  == <<rule, networkDefault>>
consent == <<shown, token, consumed>>
tape    == <<file, position, said, late>>
process == <<leader, code, child, tape>>
answer  == <<timedOut, survived, output, result>>

NoRule == [approval |-> FALSE, network |-> FALSE, found |-> FALSE]
Rules == {NoRule} \cup [approval : BOOLEAN, network : BOOLEAN, found : {TRUE}]

Init ==
  /\ rule \in Rules /\ networkDefault \in {"deny", "allow"}
  /\ resolved \in Exes
  /\ shown = "none" /\ token = "none" /\ consumed = FALSE
  /\ pc = "idle" /\ running = "none"
  /\ leader = "none" /\ code = "none" /\ child = "none"
  /\ file = <<>> /\ position = 0 /\ said = <<>> /\ late = 0
  /\ timedOut = FALSE /\ survived = FALSE
  /\ output = <<>> /\ result = "none"

\* A link leads elsewhere, or another environment is found first.
Relink ==
  /\ pc \in {"idle", "asked", "approved"}
  /\ \E e \in Exes : resolved' = e
  /\ UNCHANGED <<policy, consent, pc, running, process, answer>>

-----------------------------------------------------------------------------
(* Approval *)

\* approval_challenge: what is asked is asked of the resolved command.
Ask ==
  /\ pc = "idle" /\ rule.found /\ (rule.approval \/ rule.network)
  /\ shown' = resolved
  /\ pc' = "asked"
  /\ UNCHANGED <<policy, resolved, token, consumed, running, process, answer>>

Approve ==
  /\ pc = "asked"
  /\ token' = shown
  /\ pc' = "approved"
  /\ UNCHANGED <<policy, resolved, shown, consumed, running, process, answer>>

ApprovalNeeded == rule.approval \/ (rule.network /\ networkDefault = "deny")

\* Fault: the capability is checked for the command as it was requested.
Accepted_AsRequested == ~ApprovalNeeded \/ token # "none"

\* _prepare: a rule is found, and where one is needed, a capability for what
\* the command resolves to now.
Accepted == ~ApprovalNeeded \/ token = resolved

Refuse ==
  /\ pc \in {"idle", "approved"} /\ ~(rule.found /\ Accepted)
  /\ result' = "refused"
  /\ pc' = "done"
  /\ UNCHANGED <<policy, resolved, consent, running, process, timedOut, survived, output>>

Prepare ==
  /\ pc \in {"idle", "approved"} /\ rule.found /\ Accepted
  /\ consumed' = ApprovalNeeded
  /\ running' = resolved
  /\ pc' = "start"
  /\ UNCHANGED <<policy, resolved, shown, token, process, answer>>

-----------------------------------------------------------------------------
(* The process *)

Fail(kind) == result' = kind /\ pc' = "done"

\* The budget is not positive, or the executable is not there or may not run;
\* the capability is spent.
StartFails ==
  /\ pc = "start"
  /\ Fail("error")
  /\ UNCHANGED <<policy, resolved, consent, running, process, timedOut, survived, output>>

\* subprocess.Popen, in a session of its own.
Start ==
  /\ pc = "start"
  /\ leader' = "running"
  /\ pc' = "wait"
  /\ UNCHANGED <<policy, resolved, consent, running, code, child, tape, answer>>

world == <<policy, resolved, consent, pc, running, answer>>

Fork ==
  /\ leader = "running" /\ child = "none"
  /\ \E where \in {"group", "apart"} : child' = where
  /\ UNCHANGED <<world, leader, code, tape>>

Alive(who) == IF who = "leader" THEN leader = "running" ELSE child \in {"group", "apart"}
Writes(who) == Cardinality({i \in DOMAIN file : file[i][1] = who})

Mark(who) == <<who, Writes(who) + 1>>
Rewound == pc \in {"read", "answer", "done", "crashed"}

\* The position is one for all that have the file open.
Write(who) ==
  /\ Alive(who) /\ Writes(who) < MaxWrites
  /\ file' = SubSeq(file, 1, position) \o <<Mark(who)>> \o SubSeq(file, position + 2, Len(file))
  /\ position' = position + 1
  /\ said' = IF Rewound THEN said ELSE Append(said, Mark(who))
  /\ late' = IF pc = "read" THEN late + 1 ELSE late
  /\ UNCHANGED <<world, leader, code, child>>

LeaderExits ==
  /\ leader = "running"
  /\ leader' = "zombie"
  /\ \E c \in {"zero", "other"} : code' = c
  /\ UNCHANGED <<world, child, tape>>

\* It waits for a device: nothing ends it before that does.
LeaderSticks ==
  /\ leader = "running"
  /\ leader' = "stuck"
  /\ UNCHANGED <<world, code, child, tape>>

ChildExits ==
  /\ child \in {"group", "apart"}
  /\ child' = "dead"
  /\ UNCHANGED <<world, leader, code, tape>>

-----------------------------------------------------------------------------
(* The runner *)

\* process.wait returns.
Waits(next) ==
  /\ leader = "zombie"
  /\ leader' = "reaped"
  /\ pc' = next
  /\ UNCHANGED <<policy, resolved, consent, running, code, child, tape, answer>>

WaitReturns == pc \in {"wait", "grace", "last"} /\ Waits("rewind")

Timeout ==
  /\ pc = "wait"
  /\ timedOut' = TRUE
  /\ pc' = "terminate"
  /\ UNCHANGED <<policy, resolved, consent, running, process, survived, output, result>>

\* What SIGKILL does to the leader, and to the rest of its group.
Killed(one) == IF one = "running" THEN "zombie" ELSE one
Group(one) == IF one = "group" THEN "dead" ELSE one

\* Fault: only the process itself is killed.
KillTree_Leader ==
  /\ pc = "terminate"
  /\ leader' = Killed(leader)
  /\ code' = IF leader = "running" THEN "killed" ELSE code
  /\ pc' = "grace"
  /\ UNCHANGED <<policy, resolved, consent, running, child, tape, answer>>

\* _terminate_process_tree.
KillTree ==
  /\ pc = "terminate"
  /\ leader' = Killed(leader)
  /\ code' = IF leader = "running" THEN "killed" ELSE code
  /\ child' = Group(child)
  /\ pc' = "grace"
  /\ UNCHANGED <<policy, resolved, consent, running, tape, answer>>

\* os.killpg is not allowed to: the error is that of the whole command.
KillRefused ==
  /\ pc = "terminate"
  /\ Fail("error")
  /\ UNCHANGED <<policy, resolved, consent, running, process, timedOut, survived, output>>

GraceOver ==
  /\ pc = "grace"
  /\ leader' = Killed(leader)
  /\ code' = IF leader = "running" THEN "killed" ELSE code
  /\ pc' = "last"
  /\ UNCHANGED <<policy, resolved, consent, running, child, tape, answer>>

\* Fault: the last wait has no limit.
GiveUp_Waits ==
  /\ pc = "last" /\ leader = "reaped"
  /\ survived' = TRUE
  /\ pc' = "rewind"
  /\ UNCHANGED <<policy, resolved, consent, running, process, timedOut, output, result>>

GiveUp ==
  /\ pc = "last"
  /\ survived' = TRUE
  /\ pc' = "rewind"
  /\ UNCHANGED <<policy, resolved, consent, running, process, timedOut, output, result>>

\* Fault: what was written is read from where the command left off.
Rewind_Not ==
  /\ pc = "rewind"
  /\ pc' = "read"
  /\ UNCHANGED <<policy, resolved, consent, running, process, answer>>

\* _read_output: stream.seek(0), stream.read(limit).
Rewind ==
  /\ pc = "rewind"
  /\ position' = 0
  /\ pc' = "read"
  /\ UNCHANGED <<policy, resolved, consent, running, leader, code, child, file, said, late, answer>>

Read ==
  /\ pc = "read"
  /\ output' = SubSeq(file, position + 1, Len(file))
  /\ position' = Len(file)
  /\ pc' = "answer"
  /\ UNCHANGED <<policy, resolved, consent, running, leader, code, child, file, said, late,
                 timedOut, survived, result>>

\* Fault: the exit code alone decides.
Status_ByCode == IF code = "zero" THEN "succeeded" ELSE "failed"

Status == IF ~timedOut /\ code = "zero" THEN "succeeded" ELSE "failed"

Cut(s) == SubSeq(s, 1, IF Len(s) < LIMIT THEN Len(s) ELSE LIMIT)

\* _limit_output is the last thing that is done to the text.
Answer ==
  /\ pc = "answer"
  /\ result' = Status
  /\ output' = Cut(output)
  /\ pc' = "done"
  /\ UNCHANGED <<policy, resolved, consent, running, process, timedOut, survived>>

\* The service dies; the command has a session of its own.
Crash ==
  /\ pc \notin {"done", "crashed"}
  /\ pc' = "crashed"
  /\ UNCHANGED <<policy, resolved, consent, running, process, answer>>

Command == Fork \/ Write("leader") \/ Write("child") \/ LeaderExits \/ LeaderSticks \/ ChildExits
Stop == KillTree \/ KillRefused
Runner ==
  \/ Refuse \/ Prepare \/ StartFails \/ Start \/ WaitReturns \/ Timeout \/ Stop \/ GraceOver
  \/ GiveUp \/ Rewind \/ Read \/ Answer
Next == Relink \/ Ask \/ Approve \/ Command \/ Runner \/ Crash

\* The runner's thread goes on, and so do its timers; of the command nothing is
\* assumed.
Spec == Init /\ [][Next]_vars /\ WF_vars(Runner)

-----------------------------------------------------------------------------
(* Properties *)

TypeOK ==
  /\ leader \in {"none", "running", "stuck", "zombie", "reaped"}
  /\ child \in {"none", "group", "apart", "dead"}
  /\ position \in 0 .. Len(file)
  /\ running \in Exes \cup {"none"} /\ shown \in Exes \cup {"none"}
  /\ result # "none" <=> pc = "done"

\* docs/safety.md:13: a capability is "bound to the resolved workspace, domain,
\* rule, and argv".  What runs where an approval is needed is what the approver
\* was shown, whatever names have come to mean since.
ApprovedIsExecuted ==
  leader # "none" /\ ApprovalNeeded => consumed /\ running = shown

\* A command that succeeded ended by itself, with zero, within its budget.
SuccessIsItsOwn == result = "succeeded" => code = "zero" /\ leader = "reaped" /\ ~timedOut

\* After the budget ran out, killpg was not allowed to end the group
\* (runner.py:384-385): all that the result says is that something was denied.
KillWasRefused == timedOut /\ result = "error"

\* When the runner has answered, the command was never started or has ended, and
\* where its budget ran out nothing of its group is left; but for a command that
\* the result says survived and for a kill that was refused, of which the result
\* does not say that everything still runs.
NothingLeftRunning ==
  pc = "done" /\ ~KillWasRefused =>
    /\ survived \/ leader \in {"none", "reaped"}
    /\ timedOut => child # "group"

\* What is read is what the command and whatever it started wrote up to the
\* rewinding, in order and up to the limit.  The rewinding moves the position of
\* those that still write, too: each write between it and the read is not read
\* and takes the place of one of the earliest that would have been.
OutputIsWhole ==
  pc = "done" /\ result \in {"succeeded", "failed"} =>
    output = Cut(SubSeq(said, late + 1, Len(said)))

\* All that is written before the runner reads is in the result, in order, but for
\* one write lost for each that comes while it reads; and the types.
OutputIsKept == TypeOK /\ OutputIsWhole

\* The runner answers whatever the command does.
RunnerAnswers == pc = "start" ~> pc \in {"done", "crashed"}
=============================================================================
