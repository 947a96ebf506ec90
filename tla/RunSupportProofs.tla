-------------------------- MODULE RunSupportProofs --------------------------
(***************************************************************************)
(* What stands around a run, for any limits, sizes, times and numbers of   *)
(* processes: the runner of its commands, the capabilities, a request to a *)
(* model endpoint, the preview of a trace and the review benchmark.  Each  *)
(* has its inductive invariant; that the parts share nothing gives the     *)
(* promises of RunSupport.                                                 *)
(***************************************************************************)
EXTENDS RunSupport, TotalsProofs, FiniteSetTheorems

-----------------------------------------------------------------------------
(* Commands: the inductive invariant *)
Kinds ==
  /\ resolved \in Exes
  /\ leader \in {"none", "running", "stuck", "zombie", "reaped"}
  /\ result # "none" <=> pc = "done"

\* The capability that is accepted is for what was shown, and nothing is
\* started but what it was accepted for.
Consent ==
  /\ pc \in {"idle", "asked", "approved", "start"} => leader = "none"
  /\ pc \in {"idle", "asked"} => token = "none"
  /\ token # "none" => token = shown
  /\ pc = "start" /\ ApprovalNeeded => consumed /\ running = shown
  /\ ApprovedIsExecuted

\* How far the command's end is known, by where the runner is.
Past == {"rewind", "read", "answer"}
Killing == {"terminate", "grace", "last"}
Ended ==
  /\ pc \in Killing => timedOut
  /\ pc \in Past /\ ~timedOut => leader = "reaped"
  /\ pc \in Past /\ timedOut /\ ~survived => leader = "reaped"
  /\ pc \in {"grace", "last"} \cup Past /\ timedOut =>
       leader \notin {"none", "running"} /\ child # "group"
  /\ pc = "terminate" => leader # "none"
  /\ pc = "wait" => leader # "none" /\ ~timedOut
  /\ pc \in {"idle", "asked", "approved", "start"} => ~timedOut /\ leader = "none"
  /\ pc = "done" /\ timedOut /\ ~KillWasRefused => leader # "running"
  /\ SuccessIsItsOwn
  /\ NothingLeftRunning

RunnerInv == Kinds /\ Consent /\ Ended

\* Nothing runs at first.
LEMMA InitHolds == Init => RunnerInv
  BY DEF Init, RunnerInv, Kinds, Consent, Ended, Past, Killing, ApprovedIsExecuted,
         SuccessIsItsOwn, NothingLeftRunning, KillWasRefused

\* The result is there when the runner is done, and not before.
LEMMA StepKinds == ASSUME Kinds, [Next]_vars PROVE Kinds'
<1> USE DEF Kinds
<1>1. CASE Relink
  BY <1>1 DEF Relink, policy, consent, process, tape, answer
<1>2. CASE Ask
  BY <1>2 DEF Ask, policy, consent, process, tape, answer
<1>3. CASE Approve
  BY <1>3 DEF Approve, policy, consent, process, tape, answer
<1>4. CASE Fork
  BY <1>4 DEF Fork, world, policy, consent, process, tape, answer
<1>5. CASE Write("leader")
  BY <1>5 DEF Write, world, policy, consent, process, tape, answer
<1>6. CASE Write("child")
  BY <1>6 DEF Write, world, policy, consent, process, tape, answer
<1>7. CASE LeaderExits
  BY <1>7 DEF LeaderExits, world, policy, consent, process, tape, answer
<1>8. CASE LeaderSticks
  BY <1>8 DEF LeaderSticks, world, policy, consent, process, tape, answer
<1>9. CASE ChildExits
  BY <1>9 DEF ChildExits, world, policy, consent, process, tape, answer
<1>10. CASE Refuse
  BY <1>10 DEF Refuse, Fail, policy, consent, process, tape, answer
<1>11. CASE Prepare
  BY <1>11 DEF Prepare, Accepted, policy, consent, process, tape, answer
<1>12. CASE StartFails
  BY <1>12 DEF StartFails, Fail, policy, consent, process, tape, answer
<1>13. CASE Start
  BY <1>13 DEF Start, policy, consent, process, tape, answer
<1>14. CASE WaitReturns
  BY <1>14 DEF WaitReturns, Waits, policy, consent, process, tape, answer
<1>15. CASE Timeout
  BY <1>15 DEF Timeout, policy, consent, process, tape, answer
<1>16. CASE KillTree
  BY <1>16 DEF KillTree, Killed, Group, policy, consent, process, tape, answer
<1>17. CASE KillRefused
  BY <1>17 DEF KillRefused, Fail, policy, consent, process, tape, answer
<1>18. CASE GraceOver
  BY <1>18 DEF GraceOver, Killed, policy, consent, process, tape, answer
<1>19. CASE GiveUp
  BY <1>19 DEF GiveUp, policy, consent, process, tape, answer
<1>20. CASE Rewind
  BY <1>20 DEF Rewind, policy, consent, process, tape, answer
<1>21. CASE Read
  BY <1>21 DEF Read, policy, consent, process, tape, answer
<1>22. CASE Answer
  BY <1>22 DEF Answer, Status, policy, consent, process, tape, answer
<1>23. CASE Crash
  BY <1>23 DEF Crash, policy, consent, process, tape, answer
<1>24. CASE UNCHANGED vars
  BY <1>24 DEF vars
<1> QED
  BY <1>1, <1>2, <1>3, <1>4, <1>5, <1>6, <1>7, <1>8, <1>9, <1>10, <1>11, <1>12, <1>13,
     <1>14, <1>15, <1>16, <1>17, <1>18, <1>19, <1>20, <1>21, <1>22, <1>23, <1>24 DEF Next,
     Command, Runner, Stop

\* Between the accepted capability and the start nothing is resolved again.
LEMMA StepConsent == ASSUME Kinds, Consent, [Next]_vars PROVE Consent'
<1> USE DEF Consent, ApprovedIsExecuted, Kinds
<1>1. CASE Relink
  BY <1>1 DEF Relink, policy, consent, process, tape, answer, ApprovalNeeded
<1>2. CASE Ask
  BY <1>2 DEF Ask, policy, consent, process, tape, answer, ApprovalNeeded
<1>3. CASE Approve
  BY <1>3 DEF Approve, policy, consent, process, tape, answer, ApprovalNeeded
<1>4. CASE Fork
  BY <1>4 DEF Fork, world, policy, consent, process, tape, answer, ApprovalNeeded
<1>5. CASE Write("leader")
  BY <1>5 DEF Write, world, policy, consent, process, tape, answer, ApprovalNeeded
<1>6. CASE Write("child")
  BY <1>6 DEF Write, world, policy, consent, process, tape, answer, ApprovalNeeded
<1>7. CASE LeaderExits
  BY <1>7 DEF LeaderExits, world, policy, consent, process, tape, answer, ApprovalNeeded
<1>8. CASE LeaderSticks
  BY <1>8 DEF LeaderSticks, world, policy, consent, process, tape, answer, ApprovalNeeded
<1>9. CASE ChildExits
  BY <1>9 DEF ChildExits, world, policy, consent, process, tape, answer, ApprovalNeeded
<1>10. CASE Refuse
  BY <1>10 DEF Refuse, Fail, policy, consent, process, tape, answer, ApprovalNeeded
<1>11. CASE Prepare
  <2>1. ApprovalNeeded => consumed'
    BY <1>11 DEF Prepare
  <2>2. ApprovalNeeded' <=> ApprovalNeeded
    BY <1>11 DEF Prepare, policy, ApprovalNeeded
  <2>3. /\ pc' = "start" /\ running' = resolved /\ shown' = shown /\ token' = token
        /\ leader' = leader /\ leader = "none"
    BY <1>11 DEF Prepare, process, tape
  <2>4. ApprovalNeeded => token = resolved
    BY <1>11 DEF Prepare, Accepted
  <2>5. resolved # "none"
    BY RunnerAssumption DEF RunnerAssumption
  <2>6. ApprovalNeeded => running' = shown'
    BY <2>3, <2>4, <2>5
  <2> QED
    BY <2>1, <2>2, <2>3, <2>6
<1>12. CASE StartFails
  BY <1>12 DEF StartFails, Fail, policy, consent, process, tape, answer, ApprovalNeeded
<1>13. CASE Start
  BY <1>13 DEF Start, policy, consent, process, tape, answer, ApprovalNeeded
<1>14. CASE WaitReturns
  BY <1>14 DEF WaitReturns, Waits, policy, consent, process, tape, answer, ApprovalNeeded
<1>15. CASE Timeout
  BY <1>15 DEF Timeout, policy, consent, process, tape, answer, ApprovalNeeded
<1>16. CASE KillTree
  BY <1>16 DEF KillTree, Killed, Group, policy, consent, process, tape, answer, ApprovalNeeded
<1>17. CASE KillRefused
  BY <1>17 DEF KillRefused, Fail, policy, consent, process, tape, answer, ApprovalNeeded
<1>18. CASE GraceOver
  BY <1>18 DEF GraceOver, Killed, policy, consent, process, tape, answer, ApprovalNeeded
<1>19. CASE GiveUp
  BY <1>19 DEF GiveUp, policy, consent, process, tape, answer, ApprovalNeeded
<1>20. CASE Rewind
  BY <1>20 DEF Rewind, policy, consent, process, tape, answer, ApprovalNeeded
<1>21. CASE Read
  BY <1>21 DEF Read, policy, consent, process, tape, answer, ApprovalNeeded
<1>22. CASE Answer
  BY <1>22 DEF Answer, Status, policy, consent, process, tape, answer, ApprovalNeeded
<1>23. CASE Crash
  BY <1>23 DEF Crash, policy, consent, process, tape, answer, ApprovalNeeded
<1>24. CASE UNCHANGED vars
  BY <1>24 DEF vars, policy, ApprovalNeeded
<1> QED
  BY <1>1, <1>2, <1>3, <1>4, <1>5, <1>6, <1>7, <1>8, <1>9, <1>10, <1>11, <1>12, <1>13,
     <1>14, <1>15, <1>16, <1>17, <1>18, <1>19, <1>20, <1>21, <1>22, <1>23, <1>24 DEF Next,
     Command, Runner, Stop

\* What is killed starts nothing more, and nothing undoes an end.
LEMMA StepEnded == ASSUME Kinds, Ended, [Next]_vars PROVE Ended'
<1> USE DEF Ended, Past, Killing, SuccessIsItsOwn, NothingLeftRunning, KillWasRefused, Kinds
<1>1. CASE Relink
  BY <1>1 DEF Relink, policy, consent, process, tape, answer
<1>2. CASE Ask
  BY <1>2 DEF Ask, policy, consent, process, tape, answer
<1>3. CASE Approve
  BY <1>3 DEF Approve, policy, consent, process, tape, answer
<1>4. CASE Fork
  BY <1>4 DEF Fork, world, policy, consent, process, tape, answer
<1>5. CASE Write("leader")
  BY <1>5 DEF Write, world, policy, consent, process, tape, answer
<1>6. CASE Write("child")
  BY <1>6 DEF Write, world, policy, consent, process, tape, answer
<1>7. CASE LeaderExits
  BY <1>7 DEF LeaderExits, world, policy, consent, process, tape, answer
<1>8. CASE LeaderSticks
  BY <1>8 DEF LeaderSticks, world, policy, consent, process, tape, answer
<1>9. CASE ChildExits
  BY <1>9 DEF ChildExits, world, policy, consent, process, tape, answer
<1>10. CASE Refuse
  BY <1>10 DEF Refuse, Fail, policy, consent, process, tape, answer
<1>11. CASE Prepare
  BY <1>11 DEF Prepare, Accepted, policy, consent, process, tape, answer
<1>12. CASE StartFails
  BY <1>12 DEF StartFails, Fail, policy, consent, process, tape, answer
<1>13. CASE Start
  BY <1>13 DEF Start, policy, consent, process, tape, answer
<1>14. CASE WaitReturns
  BY <1>14 DEF WaitReturns, Waits, policy, consent, process, tape, answer
<1>15. CASE Timeout
  BY <1>15 DEF Timeout, policy, consent, process, tape, answer
<1>16. CASE KillTree
  BY <1>16 DEF KillTree, Killed, Group, policy, consent, process, tape, answer
<1>17. CASE KillRefused
  BY <1>17 DEF KillRefused, Fail, policy, consent, process, tape, answer
<1>18. CASE GraceOver
  BY <1>18 DEF GraceOver, Killed, policy, consent, process, tape, answer
<1>19. CASE GiveUp
  BY <1>19 DEF GiveUp, policy, consent, process, tape, answer
<1>20. CASE Rewind
  BY <1>20 DEF Rewind, policy, consent, process, tape, answer
<1>21. CASE Read
  BY <1>21 DEF Read, policy, consent, process, tape, answer
<1>22. CASE Answer
  BY <1>22 DEF Answer, Status, policy, consent, process, tape, answer
<1>23. CASE Crash
  BY <1>23 DEF Crash, policy, consent, process, tape, answer
<1>24. CASE UNCHANGED vars
  BY <1>24 DEF vars
<1> QED
  BY <1>1, <1>2, <1>3, <1>4, <1>5, <1>6, <1>7, <1>8, <1>9, <1>10, <1>11, <1>12, <1>13,
     <1>14, <1>15, <1>16, <1>17, <1>18, <1>19, <1>20, <1>21, <1>22, <1>23, <1>24 DEF Next,
     Command, Runner, Stop

\* What is inductive: who consented to what runs, and how far its end is known
\* (runner.py:152-256).
THEOREM RunnerInvariant == Spec => []RunnerInv
<1>1. RunnerInv /\ [Next]_vars => RunnerInv'
  BY StepKinds, StepConsent, StepEnded DEF RunnerInv
<1> QED
  BY <1>1, InitHolds, PTL DEF Spec

\* Where an approval is needed, what runs is what the approver was shown, however
\* often the name has come to mean another executable (runner.py:298-321).
THEOREM RunsWhatWasApproved == Spec => []ApprovedIsExecuted
<1>1. RunnerInv => ApprovedIsExecuted
  BY DEF RunnerInv, Consent
<1> QED
  BY <1>1, RunnerInvariant, PTL

\* A command that succeeded ended by itself within its budget, also when its end
\* races with the timeout (runner.py:189-203, 220-235).
THEOREM SuccessIsGenuine == Spec => []SuccessIsItsOwn
<1>1. RunnerInv => SuccessIsItsOwn
  BY DEF RunnerInv, Ended
<1> QED
  BY <1>1, RunnerInvariant, PTL

\* After a timeout nothing of the group is left, and the process, tape itself only
\* where the result says so (runner.py:193-203, 222-223).
THEOREM TimeoutIsFinal == Spec => []NothingLeftRunning
<1>1. RunnerInv => NothingLeftRunning
  BY DEF RunnerInv, Ended
<1> QED
  BY <1>1, RunnerInvariant, PTL
-----------------------------------------------------------------------------
(* What was written is what is read *)

Marks == {"leader", "child"} \X Nat

\* What is left of what was said when so many writes came after the rewinding.
Kept == SubSeq(said, late + 1, Len(said))

\* Since the rewinding, each write has taken the place of the next one in the
\* file; what comes after the position is as it was.
Overwritten ==
  /\ position = late /\ late <= Len(file)
  /\ Len(file) = IF late < Len(said) THEN Len(said) ELSE late
  /\ \A i \in late + 1 .. Len(said) : file[i] = said[i]

\* Up to the rewinding the file is all that was said, and ends at the position.
Heard ==
  /\ file \in Seq(Marks) /\ position \in 0 .. Len(file)
  /\ said \in Seq(Marks) /\ late \in Nat
  /\ child \in {"none", "group", "apart", "dead"}
  /\ ~Rewound => file = said /\ position = Len(file) /\ late = 0
  /\ pc = "read" => Overwritten
  /\ pc = "answer" => output = Kept
  /\ OutputIsWhole
  /\ running \in Exes \cup {"none"} /\ shown \in Exes \cup {"none"}

LEMMA InitHeard == Init => Heard
  BY DEF Init, Heard, Rewound, OutputIsWhole

\* How much a process has written is a number.
LEMMA WritesCounts == ASSUME Heard, NEW who PROVE Writes(who) \in Nat
<1> DEFINE marked == {i \in DOMAIN file : file[i][1] = who}
<1>1. Len(file) \in Nat /\ DOMAIN file = 1 .. Len(file)
  BY DEF Heard
<1>2. IsFiniteSet(1 .. Len(file))
  <2>1. 1 \in Int /\ Len(file) \in Int
    BY <1>1
  <2> QED
    BY <2>1, FS_Interval
<1>3. IsFiniteSet(marked)
  <2>1. marked \in SUBSET (1 .. Len(file))
    BY <1>1
  <2> QED
    BY <1>2, <2>1, FS_Subset
<1> QED
  BY <1>3, FS_CardinalityType DEF Writes

\* One write at a place in a file.
Written(f, n, m) == SubSeq(f, 1, n) \o <<m>> \o SubSeq(f, n + 2, Len(f))

LEMMA WrittenAt ==
  ASSUME NEW f \in Seq(Marks), NEW n \in 0 .. Len(f), NEW m \in Marks
  PROVE  /\ Written(f, n, m) \in Seq(Marks)
         /\ Len(Written(f, n, m)) = IF n < Len(f) THEN Len(f) ELSE n + 1
         /\ \A i \in 1 .. Len(f) : i # n + 1 => Written(f, n, m)[i] = f[i]
         /\ n = Len(f) => Written(f, n, m) = Append(f, m)
<1> DEFINE g == Written(f, n, m)
           p == SubSeq(f, 1, n)
           q == SubSeq(f, n + 2, Len(f))
           o == <<m>>
           r == p \o o
<1>1. Len(f) \in Nat /\ n \in Nat /\ n <= Len(f)
  BY LenProperties
<1>2. p \in Seq(Marks) /\ Len(p) = n /\ \A i \in 1 .. n : p[i] = f[i]
  <2>1. \A i \in 1 .. n : f[i] \in Marks
    BY <1>1, ElementOfSeq
  <2> QED
    BY <1>1, <2>1, SubSeqProperties
<1>3. /\ q \in Seq(Marks)
      /\ Len(q) = IF n < Len(f) THEN Len(f) - n - 1 ELSE 0
      /\ \A i \in 1 .. Len(f) - n - 1 : q[i] = f[n + 1 + i]
  <2>1. \A i \in n + 2 .. Len(f) : f[i] \in Marks
    BY <1>1, ElementOfSeq
  <2>2. n + 2 \in Int /\ Len(f) \in Int
    BY <1>1
  <2>3. /\ q \in Seq(Marks)
        /\ Len(q) = IF n + 2 <= Len(f) THEN Len(f) - (n + 2) + 1 ELSE 0
        /\ \A i \in 1 .. Len(f) - (n + 2) + 1 : q[i] = f[n + 2 + i - 1]
    BY <2>1, <2>2, SubSeqProperties
  <2> HIDE DEF q
  <2>4. \A i \in Int : n + 2 + i - 1 = n + 1 + i
    BY <1>1
  <2> QED
    BY <1>1, <2>3, <2>4
<1>4. ASSUME n = Len(f) PROVE p = f /\ q = <<>>
  BY <1>1, <1>4
<1>5. o \in Seq(Marks) /\ Len(o) = 1
  OBVIOUS
<1>6. g = r \o q
  BY DEF Written
<1>7. ASSUME n = Len(f) PROVE r = Append(f, m)
  BY <1>4, <1>7, AppendIsConcat
<1> HIDE DEF p, q, o
<1>8. /\ r \in Seq(Marks) /\ Len(r) = n + 1
      /\ \A i \in 1 .. n : r[i] = p[i]
  <2>1. /\ r \in Seq(Marks) /\ Len(r) = Len(p) + Len(o)
        /\ \A i \in 1 .. Len(p) + Len(o) :
             r[i] = IF i <= Len(p) THEN p[i] ELSE o[i - Len(p)]
    BY <1>2, <1>5, ConcatProperties
  <2> HIDE DEF r
  <2> QED
    BY <1>1, <1>2, <1>5, <2>1
<1> HIDE DEF r, g
<1>9. /\ g \in Seq(Marks) /\ Len(g) = n + 1 + Len(q)
      /\ \A i \in 1 .. Len(f) : g[i] = IF i <= n + 1 THEN r[i] ELSE q[i - (n + 1)]
  <2>1. /\ r \o q \in Seq(Marks) /\ Len(r \o q) = Len(r) + Len(q)
        /\ \A i \in 1 .. Len(r) + Len(q) :
             (r \o q)[i] = IF i <= Len(r) THEN r[i] ELSE q[i - Len(r)]
    BY <1>3, <1>8, ConcatProperties
  <2>2. Len(q) \in Nat /\ 1 .. Len(f) \subseteq 1 .. Len(r) + Len(q)
    <3>1. Len(q) = (IF n < Len(f) THEN Len(f) - n - 1 ELSE 0) /\ Len(r) = n + 1
      BY <1>3, <1>8
    <3>2. CASE n < Len(f)
      BY <1>1, <3>1, <3>2
    <3>3. CASE n = Len(f)
      BY <1>1, <3>1, <3>3
    <3> QED
      BY <1>1, <3>2, <3>3
  <2> QED
    BY <1>1, <1>6, <1>8, <2>1, <2>2
<1>10. ASSUME NEW i \in 1 .. Len(f), i # n + 1 PROVE g[i] = f[i]
  <2>1. CASE i <= n
    <3>1. i \in 1 .. n /\ i <= n + 1
      BY <1>1, <2>1
    <3>2. g[i] = r[i]
      BY <1>9, <3>1
    <3>3. r[i] = p[i] /\ p[i] = f[i]
      BY <1>2, <1>8, <3>1
    <3> QED
      BY <3>2, <3>3
  <2>2. CASE i > n
    <3>1. i - (n + 1) \in 1 .. Len(f) - n - 1 /\ Len(q) = Len(f) - n - 1
      BY <1>1, <1>3, <1>10, <2>2
    <3>2. g[i] = q[i - (n + 1)]
      BY <1>1, <1>9, <1>10, <2>2, <3>1
    <3>3. q[i - (n + 1)] = f[n + 1 + (i - (n + 1))]
      BY <1>3, <3>1
    <3>4. n + 1 + (i - (n + 1)) = i
      BY <1>1
    <3> QED
      BY <3>2, <3>3, <3>4
  <2> QED
    BY <1>1, <2>1, <2>2
<1>11. ASSUME n = Len(f) PROVE g = Append(f, m)
  BY <1>4, <1>6, <1>7, <1>8, <1>11, ConcatEmptySeq
<1>12. Len(g) = IF n < Len(f) THEN Len(f) ELSE n + 1
  <2>1. Len(q) = IF n < Len(f) THEN Len(f) - n - 1 ELSE 0
    BY <1>3
  <2>2. Len(g) = n + 1 + Len(q)
    BY <1>9
  <2>3. CASE n < Len(f)
    BY <1>1, <2>1, <2>2, <2>3
  <2>4. CASE n = Len(f)
    BY <1>1, <2>1, <2>2, <2>4
  <2> QED
    BY <1>1, <2>3, <2>4
<1> QED
  BY <1>9, <1>10, <1>11, <1>12 DEF g

\* A process writes where the position is: at the end, or over what was there.
LEMMA WriteHeard ==
  ASSUME Heard, NEW who \in {"leader", "child"}, Write(who)
  PROVE  Heard'
<1>1. UNCHANGED <<pc, leader, code, child, output, result, running, shown>>
  BY DEF Write, world, consent, answer
<1>2. Rewound' = Rewound
  BY <1>1 DEF Rewound
<1>3. Mark(who) \in Marks
  BY WritesCounts DEF Mark, Marks
<1>4. /\ file' \in Seq(Marks)
      /\ Len(file') = IF position < Len(file) THEN Len(file) ELSE position + 1
      /\ \A i \in 1 .. Len(file) : i # position + 1 => file'[i] = file[i]
      /\ position = Len(file) => file' = Append(file, Mark(who))
  <2>1. file \in Seq(Marks) /\ position \in 0 .. Len(file)
    BY DEF Heard
  <2>2. file' = Written(file, position, Mark(who))
    BY DEF Write, Written
  <2> QED
    BY <1>3, <2>1, <2>2, WrittenAt
<1>5. /\ Len(file) \in Nat /\ Len(said) \in Nat
      /\ position' = position + 1 /\ position \in 0 .. Len(file)
  BY DEF Heard, Write
<1>6. position' \in 0 .. Len(file')
  BY <1>4, <1>5
<1>7. CASE ~Rewound
  <2>1. /\ file = said /\ position = Len(file) /\ late = 0
        /\ said' = Append(said, Mark(who)) /\ late' = late
    BY <1>7 DEF Heard, Write, Rewound
  <2>2. file' = said' /\ position' = Len(file') /\ late' = 0
    BY <1>4, <1>5, <2>1
  <2> QED
    BY <1>1, <1>2, <1>4, <1>6, <1>7, <2>2 DEF Heard, Rewound, OutputIsWhole
<1>8. CASE pc = "read"
  <2>1. said' = said /\ late' = late + 1 /\ late \in Nat
    BY <1>8 DEF Heard, Write, Rewound
  <2>2. position = late /\ late <= Len(file)
        /\ Len(file) = (IF late < Len(said) THEN Len(said) ELSE late)
        /\ \A i \in late + 1 .. Len(said) : file[i] = said[i]
    <3>1. Overwritten
      BY <1>8 DEF Heard
    <3> QED
      BY <3>1 DEF Overwritten
  <2>3. ASSUME NEW i \in late' + 1 .. Len(said') PROVE file'[i] = said'[i]
    <3>1. i \in Int /\ i \in late + 1 .. Len(said) /\ i # late + 1 /\ i \in 1 .. Len(file)
      BY <1>5, <2>1, <2>2
    <3> QED
      BY <1>4, <2>1, <2>2, <3>1
  <2>4. Overwritten'
    <3>1. position' = late' /\ late' <= Len(file')
          /\ Len(file') = (IF late' < Len(said') THEN Len(said') ELSE late')
      BY <1>4, <1>5, <2>1, <2>2
    <3> QED
      BY <2>3, <3>1 DEF Overwritten
  <2> QED
    BY <1>1, <1>2, <1>4, <1>6, <1>8, <2>1, <2>4 DEF Heard, Rewound, OutputIsWhole
<1>9. CASE Rewound /\ pc # "read"
  <2>1. UNCHANGED <<said, late>>
    BY <1>9 DEF Write
  <2>2. OutputIsWhole' = OutputIsWhole /\ Kept' = Kept
    BY <1>1, <2>1 DEF OutputIsWhole, Kept, Cut
  <2> QED
    BY <1>1, <1>2, <1>4, <1>6, <1>9, <2>1, <2>2 DEF Heard
<1> QED
  BY <1>7, <1>8, <1>9

LEMMA StepHeard == ASSUME Kinds, Consent, Ended, Heard, [Next]_vars PROVE Heard'
<1>1. CASE Write("leader") \/ Write("child")
  BY <1>1, WriteHeard
<1>2. CASE Rewind
  <2>1. /\ pc = "rewind" /\ pc' = "read" /\ position' = 0
        /\ UNCHANGED <<file, said, late, child, output, running, shown>>
    BY <1>2 DEF Rewind, consent, answer
  <2>2. file = said /\ late = 0 /\ Len(file) \in Nat
    BY <2>1 DEF Heard, Rewound
  <2>3. Overwritten'
    BY <2>1, <2>2 DEF Overwritten
  <2> QED
    BY <2>1, <2>2, <2>3 DEF Heard, Rewound, OutputIsWhole
<1>3. CASE Read
  <2>1. /\ pc = "read" /\ pc' = "answer" /\ position' = Len(file)
        /\ output' = SubSeq(file, position + 1, Len(file))
        /\ UNCHANGED <<file, said, late, child, running, shown>>
    BY <1>3 DEF Read, consent
  <2>2. /\ file \in Seq(Marks) /\ said \in Seq(Marks) /\ late \in Nat
        /\ Len(file) \in Nat /\ Len(said) \in Nat
        /\ Overwritten
    BY <2>1 DEF Heard
  <2>3. output' = Kept
    <3>1. CASE late < Len(said)
      <4>1. Len(file) = Len(said) /\ position = late
        BY <2>2, <3>1 DEF Overwritten
      <4>2. \A i \in late + 1 .. Len(said) : file[i] = said[i]
        BY <2>2 DEF Overwritten
      <4>3. SubSeq(file, late + 1, Len(said)) = SubSeq(said, late + 1, Len(said))
        BY <2>2, <3>1, <4>1, <4>2
      <4> QED
        BY <2>1, <4>1, <4>3 DEF Kept
    <3>2. CASE late >= Len(said)
      <4>1. Len(file) = late /\ position = late
        BY <2>2, <3>2 DEF Overwritten
      <4>2. SubSeq(file, late + 1, late) = <<>> /\ SubSeq(said, late + 1, Len(said)) = <<>>
        BY <2>2, <3>2
      <4> QED
        BY <2>1, <4>1, <4>2 DEF Kept
    <3> QED
      BY <2>2, <3>1, <3>2
  <2>4. Kept' = Kept
    BY <2>1 DEF Kept
  <2> QED
    BY <2>1, <2>2, <2>3, <2>4 DEF Heard, Rewound, OutputIsWhole
<1>4. CASE Answer
  <2>1. /\ pc = "answer" /\ pc' = "done" /\ output' = Cut(output)
        /\ UNCHANGED <<file, position, said, late, child, running, shown>>
    BY <1>4 DEF Answer, consent, process, tape
  <2>2. output = SubSeq(said, late + 1, Len(said))
    BY <2>1 DEF Heard, Kept
  <2>3. output' = Cut(SubSeq(said, late + 1, Len(said)))'
    BY <2>1, <2>2 DEF Cut
  <2> QED
    BY <2>1, <2>3 DEF Heard, Rewound, OutputIsWhole
<1>5. ASSUME UNCHANGED <<tape, output, result, pc>>,
             running' \in Exes \cup {"none"}, shown' \in Exes \cup {"none"},
             child' \in {"none", "group", "apart", "dead"}
      PROVE  Heard'
  BY <1>5 DEF Heard, tape, Rewound, Overwritten, Kept, OutputIsWhole, Cut
<1>6. ASSUME UNCHANGED <<tape, output>>, ~Rewound,
             ~Rewound' \/ (pc' = "done" /\ result' \notin {"succeeded", "failed"}),
             running' \in Exes \cup {"none"}, shown' \in Exes \cup {"none"},
             child' \in {"none", "group", "apart", "dead"}
      PROVE  Heard'
  BY <1>6 DEF Heard, tape, Rewound, OutputIsWhole
<1>7. CASE Fork \/ LeaderExits \/ LeaderSticks \/ ChildExits
  BY <1>5, <1>7 DEF Fork, LeaderExits, LeaderSticks, ChildExits, world, consent, answer, Heard
<1>8. CASE Refuse \/ StartFails \/ KillRefused
  BY <1>6, <1>8 DEF Refuse, StartFails, KillRefused, Fail, consent, process, Rewound, Heard
<1>9. CASE Relink \/ Ask \/ Approve \/ Prepare \/ Timeout \/ GiveUp \/ Start
  BY <1>6, <1>9 DEF Relink, Ask, Approve, Prepare, Timeout, GiveUp, Start, consent,
     process, answer, Rewound, Heard, Kinds
<1>10. CASE WaitReturns \/ KillTree \/ GraceOver
  BY <1>6, <1>10 DEF WaitReturns, Waits, KillTree, GraceOver, Group, consent, answer,
     Rewound, Heard
<1>11. CASE Crash
  BY <1>11 DEF Crash, consent, process, tape, answer, Heard, Rewound, OutputIsWhole
<1>12. CASE UNCHANGED vars
  BY <1>5, <1>12 DEF vars, tape, Heard
<1> QED
  BY <1>1, <1>2, <1>3, <1>4, <1>7, <1>8, <1>9, <1>10, <1>11, <1>12 DEF Next, Command, Runner, Stop

THEOREM HeardAlways == Spec => []Heard
<1>1. RunnerInv /\ Heard /\ [Next]_vars => Heard'
  BY StepHeard DEF RunnerInv
<1> QED
  BY <1>1, InitHeard, RunnerInvariant, PTL DEF Spec

\* All that a command and what it started wrote before the runner rewound the file
\* is read, in order and up to the limit, but for one write for each that came
\* between the rewinding and the read (runner.py:205-219, 344-352).
THEOREM OutputIsReadWhole == Spec => []OutputIsKept
<1>1. RunnerInv /\ Heard => TypeOK
  BY DEF RunnerInv, Kinds, Heard, TypeOK
<1>2. Heard => OutputIsWhole
  BY DEF Heard
<1> QED
  BY <1>1, <1>2, RunnerInvariant, HeardAlways, PTL DEF OutputIsKept
-----------------------------------------------------------------------------
(* Approvals: the inductive invariant *)

\* What the checks of a call that is under way, or was refused for its time,
\* have established; a grant does not change once it is made.
Timely ==
  /\ \A i \in Ids : granted[i] # Approval!NoGrant => granted[i].expires = granted[i].at \div 2 + granted[i].ttl
  /\ \A p \in Processes : call[p].stage \in {"checked", "holding", "won", "accepted"} =>
       granted[call[p].id] # Approval!NoGrant /\ call[p].checked \div 2 < granted[call[p].id].expires
  /\ \A p \in Processes : call[p].stage = "expired" =>
       granted[call[p].id] # Approval!NoGrant /\ granted[call[p].id].expires <= call[p].checked \div 2

\* No wait for the database's lock outlasts its timeout.
WaitsInTime(c, t) ==
  /\ c.stage = "checked" => t <= c.checked + LOCK_TIMEOUT
  /\ c.stage \in {"holding", "won", "accepted"} => c.taken <= c.checked + LOCK_TIMEOUT
Patient == \A p \in Processes : WaitsInTime(call[p], time)

ApprovalInv == Approval!TypeOK /\ Approval!Uniqueness /\ Timely /\ Patient

\* The first state has no grants, no rows and no calls.
LEMMA InitApproval == Approval!Init => ApprovalInv
<1> SUFFICES ASSUME Approval!Init PROVE ApprovalInv
  OBVIOUS
<1> PICK j \in Ids : call = [p \in Processes |-> Approval!Bare("ready", j)]
  BY DEF Approval!Init
<1>1. Approval!TypeOK
  BY DEF Approval!Init, Approval!TypeOK, Approval!Grants, Approval!Calls, Approval!Stages,
     Approval!Bare, Approval!At
<1>2. Approval!Uniqueness
  BY DEF Approval!Init, Approval!Uniqueness, Approval!SingleUse, Approval!Bare, Approval!At
<1>3. Timely
  BY DEF Approval!Init, Timely, Approval!Bare, Approval!At
<1>4. Patient
  BY DEF Approval!Init, Patient, WaitsInTime, Approval!Bare, Approval!At
<1> QED
  BY <1>1, <1>2, <1>3, <1>4 DEF ApprovalInv

\* A call of one process changes at each step: what it becomes is a call.
LEMMA StepTyped ==
  ASSUME Approval!ApprovalAssumption, Approval!TypeOK, [Approval!Next]_Approval!vars
  PROVE  Approval!TypeOK'
<1> USE DEF Approval!TypeOK
<1>1. CASE Approval!Tick
  BY <1>1 DEF Approval!Tick
<1>2. ASSUME NEW i \in Ids, NEW a \in Actions, NEW ttl \in Ttls, Approval!Issue(i, a, ttl)
      PROVE  Approval!TypeOK'
  <2>1. Approval!Second + ttl \in Nat
    BY DEF Approval!ApprovalAssumption, Approval!Second
  <2> QED
    BY <1>2, <2>1 DEF Approval!Issue, Approval!Grants
<1>3. ASSUME NEW p \in Processes, NEW i \in Ids, NEW a \in Actions, Approval!Check(p, i, a)
      PROVE  Approval!TypeOK'
  BY <1>3 DEF Approval!Check, Approval!At, Approval!Calls, Approval!Stages
<1>4. ASSUME NEW p \in Processes, NEW i \in Ids, NEW a \in Actions, Approval!Refuse(p, i, a)
      PROVE  Approval!TypeOK'
  BY <1>4 DEF Approval!Refuse, Approval!Bare, Approval!At, Approval!Calls, Approval!Stages
<1>5. ASSUME NEW p \in Processes, Approval!Insert(p) PROVE Approval!TypeOK'
  BY <1>5 DEF Approval!Insert, Approval!Calls, Approval!Stages
<1>6. ASSUME NEW p \in Processes, Approval!Raise(p) PROVE Approval!TypeOK'
  BY <1>6 DEF Approval!Raise, Approval!Leave, Approval!Bare, Approval!At, Approval!Calls, Approval!Stages
<1>7. ASSUME NEW p \in Processes, Approval!Commit(p) PROVE Approval!TypeOK'
  BY <1>7 DEF Approval!Commit, Approval!Become, Approval!Calls, Approval!Stages
<1>8. ASSUME NEW p \in Processes, Approval!Return(p) PROVE Approval!TypeOK'
  BY <1>8 DEF Approval!Return, Approval!Become, Approval!Calls, Approval!Stages
<1>9. ASSUME NEW p \in Processes, Approval!Crash(p) PROVE Approval!TypeOK'
  BY <1>9 DEF Approval!Crash, Approval!Leave, Approval!Bare, Approval!At, Approval!Calls, Approval!Stages
<1>10. CASE UNCHANGED Approval!vars
  BY <1>10 DEF Approval!vars
<1> QED
  BY <1>1, <1>2, <1>3, <1>4, <1>5, <1>6, <1>7, <1>8, <1>9, <1>10 DEF Approval!Next

\* A use is counted by the process that committed it, which nobody else did.
LEMMA StepUnique ==
  ASSUME Approval!ApprovalAssumption, Approval!TypeOK, Approval!Uniqueness, [Approval!Next]_Approval!vars
  PROVE  Approval!Uniqueness'
<1> USE DEF Approval!TypeOK, Approval!Calls, Approval!Uniqueness, Approval!SingleUse
<1>1. CASE Approval!Tick
  BY <1>1 DEF Approval!Tick
<1>2. ASSUME NEW i \in Ids, NEW a \in Actions, NEW ttl \in Ttls, Approval!Issue(i, a, ttl)
      PROVE  Approval!Uniqueness'
  BY <1>2 DEF Approval!Issue
<1>3. ASSUME NEW p \in Processes, NEW i \in Ids, NEW a \in Actions, Approval!Check(p, i, a)
      PROVE  Approval!Uniqueness'
  BY <1>3 DEF Approval!Check, Approval!At
<1>4. ASSUME NEW p \in Processes, NEW i \in Ids, NEW a \in Actions, Approval!Refuse(p, i, a)
      PROVE  Approval!Uniqueness'
  BY <1>4 DEF Approval!Refuse, Approval!Bare, Approval!At
<1>5. ASSUME NEW p \in Processes, Approval!Insert(p) PROVE Approval!Uniqueness'
  <2>1. /\ \A q \in Processes : q # p => call'[q] = call[q]
        /\ call'[p].stage = "holding" /\ call'[p].id = call[p].id
        /\ call'[p].fresh = (call[p].id \notin redeemed)
    BY <1>5 DEF Approval!Insert
  <2>2. lock' = p /\ UNCHANGED <<redeemed, uses>>
    BY <1>5 DEF Approval!Insert
  <2>3. \A q \in Processes : call[q].stage # "holding"
    BY <1>5 DEF Approval!ApprovalAssumption, Approval!Insert
  <2> QED
    BY <2>1, <2>2, <2>3
<1>6. ASSUME NEW p \in Processes, Approval!Raise(p) PROVE Approval!Uniqueness'
  BY <1>6 DEF Approval!Raise, Approval!Leave, Approval!Bare, Approval!At
<1>7. ASSUME NEW p \in Processes, Approval!Commit(p) PROVE Approval!Uniqueness'
  <2>1. \A q \in Processes : q # p => call[q].stage # "holding"
    BY <1>7 DEF Approval!Commit
  <2>2. \A q \in Processes : call'[q] = IF q = p THEN call'[p] ELSE call[q]
    BY <1>7 DEF Approval!Commit, Approval!Become
  <2>3. /\ call'[p].id = call[p].id
        /\ call'[p].stage \in {"won", "refused"}
        /\ call'[p].stage = "won" => call[p].fresh
    BY <1>7 DEF Approval!Commit, Approval!Become
  <2>4. redeemed' = redeemed \cup {call[p].id} /\ uses' = uses /\ lock' = "none"
    BY <1>7 DEF Approval!Commit
  <2>5. call[p].fresh => call[p].id \notin redeemed
    BY <1>7 DEF Approval!Commit
  <2> QED
    BY <2>1, <2>2, <2>3, <2>4, <2>5
<1>8. ASSUME NEW p \in Processes, Approval!Return(p) PROVE Approval!Uniqueness'
  <2>1. \A q \in Processes : call'[q] = IF q = p THEN call'[p] ELSE call[q]
    BY <1>8 DEF Approval!Return, Approval!Become
  <2>2. call'[p].stage = "accepted"
    BY <1>8 DEF Approval!Return, Approval!Become
  <2>3. \A i \in Ids : uses'[i] = IF i = call[p].id THEN 1 ELSE uses[i]
    BY <1>8 DEF Approval!Return
  <2>4. call[p].stage = "won" /\ redeemed' = redeemed /\ lock' = lock
    BY <1>8 DEF Approval!Return
  <2>5. call[p].id \in redeemed
    BY <2>4
  <2>6. \A q \in Processes : call'[q].stage = "won" =>
          q # p /\ call[q].id # call[p].id /\ uses'[call[q].id] = uses[call[q].id]
    BY <2>1, <2>2, <2>3, <2>4
  <2>7. /\ \A q \in Processes : call'[q].stage = "holding" =>
             lock' = q /\ (call'[q].fresh => call'[q].id \notin redeemed')
        /\ \A q \in Processes : call'[q].stage = "won" =>
             call'[q].id \in redeemed' /\ uses'[call'[q].id] = 0
    BY <2>1, <2>2, <2>4, <2>6
  <2>8. \A q, r \in Processes :
          q # r /\ call'[q].stage = "won" /\ call'[r].stage = "won" => call'[q].id # call'[r].id
    BY <2>1, <2>2
  <2>9. \A i \in Ids : uses'[i] <= 1 /\ (i \notin redeemed' => uses'[i] = 0)
    BY <2>3, <2>4, <2>5
  <2> QED
    BY <2>7, <2>8, <2>9
<1>9. ASSUME NEW p \in Processes, Approval!Crash(p) PROVE Approval!Uniqueness'
  BY <1>9 DEF Approval!Crash, Approval!Leave, Approval!Bare, Approval!At
<1>10. CASE UNCHANGED Approval!vars
  BY <1>10 DEF Approval!vars
<1> QED
  BY <1>1, <1>2, <1>3, <1>4, <1>5, <1>6, <1>7, <1>8, <1>9, <1>10 DEF Approval!Next

\* The check is the only step that looks at the clock, and no later one changes
\* the time it was made at.
LEMMA StepTimely ==
  ASSUME Approval!TypeOK, Timely, [Approval!Next]_Approval!vars
  PROVE  Timely'
<1> USE DEF Approval!TypeOK, Approval!Calls, Timely
<1>1. CASE Approval!Tick
  BY <1>1 DEF Approval!Tick
<1>2. ASSUME NEW i \in Ids, NEW a \in Actions, NEW ttl \in Ttls, Approval!Issue(i, a, ttl)
      PROVE  Timely'
  <2>1. \A k \in Ids : k # i => granted'[k] = granted[k]
    BY <1>2 DEF Approval!Issue
  <2>2. granted[i] = Approval!NoGrant /\ call' = call
    BY <1>2 DEF Approval!Issue
  <2>3. granted'[i].expires = granted'[i].at \div 2 + granted'[i].ttl
    BY <1>2 DEF Approval!Issue, Approval!Second
  <2> QED
    BY <2>1, <2>2, <2>3
<1>3. ASSUME NEW p \in Processes, NEW i \in Ids, NEW a \in Actions, Approval!Check(p, i, a)
      PROVE  Timely'
  <2>1. granted[i].expires \in Nat
    BY DEF Approval!Grants, Approval!NoGrant
  <2>2. time \div 2 < granted[i].expires
    BY <1>3, <2>1 DEF Approval!Check, Approval!At, Approval!Expired, Approval!Second
  <2> QED
    BY <1>3, <2>2 DEF Approval!Check, Approval!At
<1>4. ASSUME NEW p \in Processes, NEW i \in Ids, NEW a \in Actions, Approval!Refuse(p, i, a)
      PROVE  Timely'
  BY <1>4 DEF Approval!Refuse, Approval!Bare, Approval!At, Approval!Expired, Approval!Second
<1>5. ASSUME NEW p \in Processes, Approval!Insert(p) PROVE Timely'
  BY <1>5 DEF Approval!Insert
<1>6. ASSUME NEW p \in Processes, Approval!Raise(p) PROVE Timely'
  BY <1>6 DEF Approval!Raise, Approval!Leave, Approval!Bare, Approval!At
<1>7. ASSUME NEW p \in Processes, Approval!Commit(p) PROVE Timely'
  BY <1>7 DEF Approval!Commit, Approval!Become
<1>8. ASSUME NEW p \in Processes, Approval!Return(p) PROVE Timely'
  BY <1>8 DEF Approval!Return, Approval!Become
<1>9. ASSUME NEW p \in Processes, Approval!Crash(p) PROVE Timely'
  BY <1>9 DEF Approval!Crash, Approval!Leave, Approval!Bare, Approval!At
<1>10. CASE UNCHANGED Approval!vars
  BY <1>10 DEF Approval!vars
<1> QED
  BY <1>1, <1>2, <1>3, <1>4, <1>5, <1>6, <1>7, <1>8, <1>9, <1>10 DEF Approval!Next

\* The row is counted while the lock may still be waited for.
LEMMA StepPatient ==
  ASSUME Approval!ApprovalAssumption, Approval!TypeOK, Patient, [Approval!Next]_Approval!vars
  PROVE  Patient'
<1>0. \A p \in Processes : call[p] \in Approval!Calls
  BY DEF Approval!TypeOK
<1>1. CASE Approval!Tick
  <2>1. /\ time' = time + 1 /\ call' = call /\ time \in Nat /\ LOCK_TIMEOUT \in Nat
        /\ \A p \in Processes : call[p].stage = "checked" => time < call[p].checked + LOCK_TIMEOUT
    BY <1>1 DEF Approval!Tick, Approval!TypeOK, Approval!ApprovalAssumption
  <2>2. \A p \in Processes : call[p].checked \in Nat
    BY <1>0 DEF Approval!Calls
  <2> QED
    BY <2>1, <2>2 DEF Patient, WaitsInTime
<1>2. ASSUME UNCHANGED <<call, time>> PROVE Patient'
  BY <1>2 DEF Patient, WaitsInTime
<1>3. ASSUME NEW p \in Processes, time' = time, NEW c, call' = [call EXCEPT ![p] = c],
             WaitsInTime(c, time)
      PROVE  Patient'
  <2>1. \A q \in Processes : call'[q] = IF q = p THEN c ELSE call[q]
    BY <1>3 DEF Approval!TypeOK
  <2> QED
    BY <1>3, <2>1 DEF Patient, WaitsInTime
<1>4. ASSUME NEW i \in Ids, NEW a \in Actions, NEW ttl \in Ttls, Approval!Issue(i, a, ttl)
      PROVE  Patient'
  BY <1>2, <1>4 DEF Approval!Issue
<1>5. ASSUME NEW p \in Processes, NEW i \in Ids, NEW a \in Actions, Approval!Check(p, i, a)
      PROVE  Patient'
  <2>1. WaitsInTime(Approval!At("checked", i, time), time)
    BY DEF WaitsInTime, Approval!At, Approval!TypeOK, Approval!ApprovalAssumption
  <2> QED
    BY <1>3, <1>5, <2>1 DEF Approval!Check
<1>6. ASSUME NEW p \in Processes, NEW i \in Ids, NEW a \in Actions, Approval!Refuse(p, i, a)
      PROVE  Patient'
  <2>1. PICK k \in {"expired", "refused"}, t \in {0, time} : call' = [call EXCEPT ![p] = Approval!At(k, i, t)]
    BY <1>6 DEF Approval!Refuse, Approval!Bare
  <2>2. WaitsInTime(Approval!At(k, i, t), time)
    BY DEF WaitsInTime, Approval!At
  <2> QED
    BY <1>3, <1>6, <2>1, <2>2 DEF Approval!Refuse
<1>7. ASSUME NEW p \in Processes, Approval!Insert(p) PROVE Patient'
  <2>1. PICK c : c = [call[p] EXCEPT !.stage = "holding", !.taken = time,
                                     !.fresh = call[p].id \notin redeemed]
    OBVIOUS
  <2>2. c.stage = "holding" /\ c.taken = time /\ c.checked = call[p].checked
    BY <1>0, <2>1 DEF Approval!Calls
  <2>3. call[p].stage = "checked" /\ time' = time /\ call' = [call EXCEPT ![p] = c]
    BY <1>7, <2>1 DEF Approval!Insert
  <2>4. WaitsInTime(c, time)
    BY <2>2, <2>3 DEF Patient, WaitsInTime
  <2> QED
    BY <1>3, <2>3, <2>4
<1>8. ASSUME NEW p \in Processes, Approval!Raise(p) \/ Approval!Crash(p) PROVE Patient'
  <2>1. PICK k \in {"raised", "ready"} :
          call' = [call EXCEPT ![p] = Approval!At(k, call[p].id, 0)]
    BY <1>8 DEF Approval!Raise, Approval!Crash, Approval!Leave, Approval!Bare
  <2>2. WaitsInTime(Approval!At(k, call[p].id, 0), time)
    BY DEF WaitsInTime, Approval!At
  <2> QED
    BY <1>3, <1>8, <2>1, <2>2 DEF Approval!Raise, Approval!Crash
<1>9. ASSUME NEW p \in Processes, Approval!Commit(p) \/ Approval!Return(p) PROVE Patient'
  <2>1. PICK k \in {"won", "refused", "accepted"} :
          call' = [call EXCEPT ![p] = [call[p] EXCEPT !.stage = k]]
    BY <1>9 DEF Approval!Commit, Approval!Return, Approval!Become
  <2>2. PICK c : c = [call[p] EXCEPT !.stage = k]
    OBVIOUS
  <2>3. c.stage = k /\ c.taken = call[p].taken /\ c.checked = call[p].checked
    BY <1>0, <2>2 DEF Approval!Calls
  <2>4. call[p].stage \in {"holding", "won"} /\ time' = time
    BY <1>9 DEF Approval!Commit, Approval!Return
  <2>5. WaitsInTime(c, time)
    BY <2>3, <2>4 DEF Patient, WaitsInTime
  <2> QED
    BY <1>3, <2>1, <2>2, <2>4, <2>5
<1>10. CASE UNCHANGED Approval!vars
  BY <1>2, <1>10 DEF Approval!vars
<1> QED
  BY <1>1, <1>4, <1>5, <1>6, <1>7, <1>8, <1>9, <1>10 DEF Approval!Next

\* Halves of naturals, and what a difference of seconds says of half seconds.
LEMMA Seconds ==
  ASSUME NEW at \in Nat, NEW checked \in Nat, NEW ttl \in Nat, NEW expires \in Nat,
         expires = at \div 2 + ttl
  PROVE  /\ checked \div 2 < expires => checked - at < 2 * ttl
         /\ expires <= checked \div 2 => checked - at > 2 * (ttl - 1)
  BY SMT

\* The fields of a grant are numbers.
LEMMA Granted ==
  ASSUME Approval!ApprovalAssumption, Approval!TypeOK, NEW i \in Ids, granted[i] # Approval!NoGrant
  PROVE  granted[i].at \in Nat /\ granted[i].expires \in Nat /\ granted[i].ttl \in Nat
<1>1. granted[i] \in [action : Actions, expires : Nat, at : Nat, ttl : Ttls]
  BY DEF Approval!TypeOK, Approval!Grants
<1>2. granted[i].at \in Nat /\ granted[i].expires \in Nat /\ granted[i].ttl \in Ttls
  BY <1>1
<1>3. Ttls \subseteq Nat
  BY DEF Approval!ApprovalAssumption
<1>4. granted[i].ttl \in Nat
  BY <1>2, <1>3
<1> QED
  BY <1>2, <1>4

\* What is inductive: the types, who may still count a use, and what the checks
\* of a call have established (approvals.py:41-72, 134-171).
THEOREM ApprovalInvariant ==
  ASSUME Approval!ApprovalAssumption
  PROVE  Approval!Spec => []ApprovalInv
<1>1. ApprovalInv /\ [Approval!Next]_Approval!vars => ApprovalInv'
  BY StepTyped, StepUnique, StepTimely, StepPatient DEF ApprovalInv
<1> QED
  BY <1>1, InitApproval, PTL DEF Approval!Spec

\* Every call, grant and row keeps its type.
THEOREM ApprovalTyped ==
  ASSUME Approval!ApprovalAssumption
  PROVE  Approval!Spec => []Approval!TypeOK
<1>1. ApprovalInv => Approval!TypeOK
  BY DEF ApprovalInv
<1> QED
  BY <1>1, ApprovalInvariant, PTL

\* verify returns the claims of a capability once (approvals.py:169), whichever
\* processes it is given to and wherever they die.
THEOREM ConsumedOnce ==
  ASSUME Approval!ApprovalAssumption
  PROVE  Approval!Spec => []Approval!SingleUse
<1>1. ApprovalInv => Approval!SingleUse
  BY DEF ApprovalInv, Approval!Uniqueness
<1> QED
  BY <1>1, ApprovalInvariant, PTL

\* No capability passes the check of its time (approvals.py:160) when it is
\* older than it was granted for, whatever fractions of a second were cut off.
THEOREM GoodForItsTime ==
  ASSUME Approval!ApprovalAssumption
  PROVE  Approval!Spec => []Approval!NeverOutlivesGrant
<1>1. ApprovalInv => Approval!NeverOutlivesGrant
  <2> SUFFICES ASSUME ApprovalInv, NEW p \in Processes,
                      call[p].stage \in {"checked", "holding", "won", "accepted"}
               PROVE  Approval!Age(p) < 2 * granted[call[p].id].ttl
    BY DEF Approval!NeverOutlivesGrant
  <2> DEFINE i == call[p].id
  <2>1. i \in Ids /\ call[p].checked \in Nat
    BY DEF ApprovalInv, Approval!TypeOK, Approval!Calls
  <2>2. granted[i] # Approval!NoGrant /\ call[p].checked \div 2 < granted[i].expires
    BY DEF ApprovalInv, Timely
  <2>3. granted[i].expires = granted[i].at \div 2 + granted[i].ttl
    BY <2>1, <2>2 DEF ApprovalInv, Timely
  <2>4. granted[i].at \in Nat /\ granted[i].expires \in Nat /\ granted[i].ttl \in Nat
    BY <2>1, <2>2, Granted DEF ApprovalInv
  <2>5. call[p].checked - granted[i].at < 2 * granted[i].ttl
    BY <2>1, <2>2, <2>3, <2>4, Seconds
  <2> QED
    BY <2>5 DEF Approval!Age
<1> QED
  BY <1>1, ApprovalInvariant, PTL

\* None is consumed (approvals.py:169) longer after its time than the lock of the
\* database may be waited for.
THEOREM NotTakenMuchLater ==
  ASSUME Approval!ApprovalAssumption
  PROVE  Approval!Spec => []Approval!NeverTakenMuchLater
<1>1. ApprovalInv /\ Approval!NeverOutlivesGrant => Approval!NeverTakenMuchLater
  <2> SUFFICES ASSUME ApprovalInv, Approval!NeverOutlivesGrant, NEW p \in Processes,
                      call[p].stage \in {"holding", "won", "accepted"}
               PROVE  call[p].taken - granted[call[p].id].at
                        < 2 * granted[call[p].id].ttl + LOCK_TIMEOUT
    BY DEF Approval!NeverTakenMuchLater
  <2> DEFINE i == call[p].id
  <2>1. i \in Ids /\ call[p].checked \in Nat /\ call[p].taken \in Nat
    BY DEF ApprovalInv, Approval!TypeOK, Approval!Calls
  <2>2. call[p].checked - granted[i].at < 2 * granted[i].ttl
    BY DEF Approval!NeverOutlivesGrant, Approval!Age
  <2>3. call[p].taken <= call[p].checked + LOCK_TIMEOUT
    BY DEF ApprovalInv, Patient, WaitsInTime
  <2>4. granted[i] # Approval!NoGrant
    BY DEF ApprovalInv, Timely
  <2>5. granted[i].at \in Nat /\ granted[i].ttl \in Nat /\ LOCK_TIMEOUT \in Nat
    BY <2>1, <2>4, Granted DEF ApprovalInv, Approval!ApprovalAssumption
  <2> QED
    BY <2>1, <2>2, <2>3, <2>5
<1> QED
  BY <1>1, ApprovalInvariant, GoodForItsTime, PTL

\* Nor is one refused for its time more than a second early.
THEOREM NotBeforeItsTime ==
  ASSUME Approval!ApprovalAssumption
  PROVE  Approval!Spec => []Approval!NeverExpiresEarly
<1>1. ApprovalInv => Approval!NeverExpiresEarly
  <2> SUFFICES ASSUME ApprovalInv, NEW p \in Processes, call[p].stage = "expired"
               PROVE  Approval!Age(p) > 2 * (granted[call[p].id].ttl - 1)
    BY DEF Approval!NeverExpiresEarly
  <2> DEFINE i == call[p].id
  <2>1. i \in Ids /\ call[p].checked \in Nat
    BY DEF ApprovalInv, Approval!TypeOK, Approval!Calls
  <2>2. granted[i] # Approval!NoGrant /\ granted[i].expires <= call[p].checked \div 2
    BY DEF ApprovalInv, Timely
  <2>3. granted[i].expires = granted[i].at \div 2 + granted[i].ttl
    BY <2>1, <2>2 DEF ApprovalInv, Timely
  <2>4. granted[i].at \in Nat /\ granted[i].expires \in Nat /\ granted[i].ttl \in Nat
    BY <2>1, <2>2, Granted DEF ApprovalInv
  <2>5. call[p].checked - granted[i].at > 2 * (granted[i].ttl - 1)
    BY <2>1, <2>2, <2>3, <2>4, Seconds
  <2> QED
    BY <2>5 DEF Approval!Age
<1> QED
  BY <1>1, ApprovalInvariant, PTL

\* All of it together: once, fresh when it is checked, and never consumed much
\* later than that (approvals.py:134-171).
THEOREM ClaimsAreAlwaysGood ==
  ASSUME Approval!ApprovalAssumption
  PROVE  Approval!Spec => []Approval!ClaimsAreGood
<1>1. (/\ Approval!TypeOK /\ Approval!SingleUse
       /\ Approval!NeverOutlivesGrant /\ Approval!NeverTakenMuchLater
       /\ Approval!NeverExpiresEarly)
        => Approval!ClaimsAreGood
  BY DEF Approval!ClaimsAreGood
<1> QED
  BY <1>1, ApprovalTyped, ConsumedOnce, GoodForItsTime, NotTakenMuchLater,
     NotBeforeItsTime, PTL

-----------------------------------------------------------------------------
(* A request to a model endpoint: the inductive invariant *)

RequestTyped ==
  /\ clock \in Nat /\ waited \in Nat /\ pieces \in Nat /\ body \in Nat /\ size \in Nat
  /\ stage \in Request!Blocking \cup {"apply", "response", "loop", "parse", "done"}
  /\ limit \in 1 .. TIMEOUT /\ waited <= limit
  /\ outcome # "none" => stage = "done"

\* The socket was given no more time than the deadline left when the call began,
\* unless it could not be given any: then as much as the headers had.  Each wait
\* of the call may use all of it.
Timed ==
  Request!Reading =>
    /\ clock - waited < (1 + pieces) * TIMEOUT
    /\ ~closing => clock - waited + limit <= (1 + pieces) * TIMEOUT

\* A body that went over the limit has ended the call.
Sized ==
  /\ size <= MAX_BYTES + 1
  /\ stage # "done" \/ outcome = "answer" => size <= MAX_BYTES

RequestInv == RequestTyped /\ Timed /\ Sized

-----------------------------------------------------------------------------
(* The invariant is kept *)

LEMMA AtMostOneMore ==
  ASSUME NEW m \in Nat, NEW b \in Nat
  PROVE  Request!Min({b, m + 1}) \in Nat /\ Request!Min({b, m + 1}) <= m + 1
<1>1. \E x \in {b, m + 1} : \A y \in {b, m + 1} : x <= y
  OBVIOUS
<1>2. Request!Min({b, m + 1}) \in {b, m + 1} /\ \A y \in {b, m + 1} : Request!Min({b, m + 1}) <= y
  BY <1>1 DEF Request!Min
<1> QED
  BY <1>2

LEMMA InitRequest == ASSUME Request!RequestAssumption, Request!Init PROVE RequestInv
<1>1. RequestTyped
  BY DEF Request!RequestAssumption, Request!Init, RequestTyped, Request!Blocking
<1>2. Timed
  BY DEF Request!Init, Timed, Request!Reading
<1>3. Sized
  BY DEF Request!RequestAssumption, Request!Init, Sized
<1> QED
  BY <1>1, <1>2, <1>3 DEF RequestInv

\* The calls that end, and the clock.
LEMMA EndsKept ==
  ASSUME Request!RequestAssumption, RequestInv,
         \/ Request!TimesOut \/ Request!Fails \/ Request!DeadlinePassed
         \/ Request!BadStatus \/ Request!BadLength
  PROVE  RequestInv'
<1>1. \E kind \in {"transport", "protocol"} : Request!End(kind) /\ UNCHANGED size
  BY DEF Request!TimesOut, Request!Fails, Request!DeadlinePassed, Request!BadStatus,
     Request!BadLength
<1> QED
  BY <1>1 DEF Request!End, Request!response, RequestInv, RequestTyped, Timed, Request!Reading, Sized

LEMMA TickKept ==
  ASSUME Request!RequestAssumption, RequestInv, Request!Tick
  PROVE  RequestInv'
  BY DEF Request!Tick, Request!response, Request!RequestAssumption, RequestInv, RequestTyped,
     Timed, Request!Reading, Sized, Request!Blocking

\* The steps up to the response.
LEMMA HeadersKept ==
  ASSUME Request!RequestAssumption, RequestInv,
         \/ Request!Connected \/ Request!Sent \/ Request!ApplyToHeaders
         \/ Request!Piece \/ Request!Headers \/ Request!GoodResponse
  PROVE  RequestInv'
<1> USE DEF Request!RequestAssumption, RequestInv, RequestTyped, Timed, Request!Reading, Sized, Request!Blocking,
   Request!Block, Request!response
<1>1. CASE Request!Connected BY <1>1 DEF Request!Connected
<1>2. CASE Request!Sent BY <1>2 DEF Request!Sent
<1>3. CASE Request!ApplyToHeaders BY <1>3 DEF Request!ApplyToHeaders, Request!Remaining
<1>4. CASE Request!Piece
  <2>1. /\ clock \in Nat /\ waited \in Nat /\ waited <= limit /\ limit \in Nat
        /\ limit <= TIMEOUT /\ TIMEOUT \in Nat /\ pieces \in Nat
    OBVIOUS
  <2>2. (1 + (pieces + 1)) * TIMEOUT = (1 + pieces) * TIMEOUT + TIMEOUT
    BY <2>1
  <2>3. (1 + pieces) * TIMEOUT \in Nat
    BY <2>1
  <2>4. PICK t : t = (1 + pieces) * TIMEOUT
    OBVIOUS
  <2>5. /\ waited' = 0 /\ pieces' = pieces + 1 /\ (1 + pieces') * TIMEOUT = t + TIMEOUT
        /\ UNCHANGED <<clock, stage, limit, closing, body, declared, chunked, size, outcome>>
    BY <1>4, <2>2, <2>4 DEF Request!Piece
  <2>6. Timed'
    <3> SUFFICES ASSUME Request!Reading'
                 PROVE  /\ clock < t + TIMEOUT
                        /\ ~closing => clock + limit <= t + TIMEOUT
      BY <2>1, <2>5
    <3>1. clock - waited < t /\ (~closing => clock - waited + limit <= t)
      BY <2>4, <2>5
    <3> QED
      BY <2>1, <2>3, <2>4, <3>1
  <2> QED
    BY <2>1, <2>5, <2>6
<1>5. CASE Request!Headers
  <2>1. body' \in Nat
    BY <1>5 DEF Request!Headers
  <2> QED
    BY <1>5, <2>1 DEF Request!Headers
<1>6. CASE Request!GoodResponse BY <1>6 DEF Request!GoodResponse
<1> QED
  BY <1>1, <1>2, <1>3, <1>4, <1>5, <1>6

\* The body is read against the deadline and the limit.
LEMMA BodyKept ==
  ASSUME Request!RequestAssumption, RequestInv,
         \/ Request!ApplyToBody \/ Request!NoMore \/ Request!Parse
         \/ \E n \in 1 .. MaxBody : Request!Chunk(n)
  PROVE  RequestInv'
<1>1. CASE Request!ApplyToBody
  <2>1. Request!Remaining > 0
    BY <1>1 DEF Request!ApplyToBody, Request!TooLate, Request!Remaining,
       Request!RequestAssumption, RequestInv, RequestTyped
  <2>2. limit' \in 1 .. TIMEOUT /\ (~closing => limit' = TIMEOUT - clock)
    BY <1>1, <2>1 DEF Request!ApplyToBody, Request!Reapplied, Request!Remaining,
       Request!RequestAssumption, RequestInv, RequestTyped
  <2> QED
    BY <1>1, <2>1, <2>2 DEF Request!ApplyToBody, Request!Block, Request!Remaining,
       Request!response, Request!RequestAssumption, RequestInv,
       RequestTyped, Timed, Request!Reading, Sized, Request!Blocking
<1>2. ASSUME NEW n \in 1 .. MaxBody, Request!Chunk(n) PROVE RequestInv'
  <2>1. size + n <= MAX_BYTES + 1 /\ size' = size + n
    BY <1>2, AtMostOneMore DEF Request!Chunk, Request!RequestAssumption, RequestInv,
       RequestTyped
  <2>2. CASE Request!TooLong(size + n)
    BY <1>2, <2>1, <2>2 DEF Request!Chunk, Request!End, Request!response,
       Request!RequestAssumption, RequestInv, RequestTyped,
       Timed, Request!Reading, Sized, Request!Blocking
  <2>3. CASE ~Request!TooLong(size + n)
    BY <1>2, <2>1, <2>3 DEF Request!Chunk, Request!TooLong, Request!response,
       Request!RequestAssumption, RequestInv, RequestTyped,
       Timed, Request!Reading, Sized, Request!Blocking
  <2> QED
    BY <2>2, <2>3
<1>3. CASE Request!NoMore
  BY <1>3 DEF Request!NoMore, Request!response, Request!RequestAssumption, RequestInv,
     RequestTyped, Timed, Request!Reading, Sized, Request!Blocking
<1>4. CASE Request!Parse
  BY <1>4 DEF Request!Parse, Request!End, Request!response, Request!RequestAssumption,
     RequestInv,
     RequestTyped, Timed, Request!Reading, Sized,
     Request!Blocking
<1> QED
  BY <1>1, <1>2, <1>3, <1>4

LEMMA RequestStep ==
  ASSUME Request!RequestAssumption, RequestInv, [Request!Next]_(Request!vars)
  PROVE  RequestInv'
<1>1. CASE UNCHANGED Request!vars
  BY <1>1 DEF Request!vars, RequestInv, RequestTyped, Timed, Request!Reading, Sized
<1>2. CASE Request!Next
  BY <1>2, EndsKept, TickKept, HeadersKept, BodyKept DEF Request!Next, Request!Client
<1> QED
  BY <1>1, <1>2

LEMMA RequestPromises ==
  ASSUME Request!RequestAssumption, RequestInv PROVE Request!RequestKeepsLimits
  BY DEF Request!RequestAssumption, RequestInv, RequestTyped, Timed, Request!Reading, Sized,
     Request!RequestKeepsLimits, Request!WithinSize,
     Request!WaitByDeadline, Request!OvershootIsBounded

\* What is read and how long that takes (complete_structured_json and
\* _read_response), whatever the endpoint does: an answer is no longer than
\* MAX_MODEL_RESPONSE_BYTES, declared or not; the first wait of each call that
\* reads ends with the deadline while the connection has its socket, and within
\* one timeout more where it has let go of it; each further wait of the call adds
\* at most one timeout.
THEOREM LimitsAlwaysKept ==
  ASSUME Request!RequestAssumption
  PROVE  Request!Spec => []Request!RequestKeepsLimits
  BY InitRequest, RequestStep, RequestPromises, PTL DEF Request!Spec

-----------------------------------------------------------------------------
(* The preview of a trace: the inductive invariant *)

Info == [of : Nat, stdout : Nat, stderr : Nat, cutOut : BOOLEAN, cutErr : BOOLEAN]

PreviewTyped ==
  /\ trace \in Seq(Preview!TraceActions) /\ preview \in Seq(Info)
  /\ next \in 1 .. Len(trace) + 1 /\ budget \in Nat

\* A stream is shown as far as its own limit goes, or less because the budget
\* was over with it.
Fair(length, part, cut, left) ==
  /\ part <= length /\ part <= STREAM_CHARS
  /\ cut <=> part < length
  /\ left > 0 /\ part < length => part = STREAM_CHARS
Shows(info, upTo, left) ==
  /\ info.of \in 1 .. upTo - 1
  /\ trace[info.of] # Preview!Malformed
  /\ Fair(trace[info.of].stdout, info.stdout, info.cutOut, left)
  /\ Fair(trace[info.of].stderr, info.stderr, info.cutErr, left)

Fairly == \A k \in 1 .. Len(preview) : Shows(preview[k], next, budget)

\* Every action so far is shown or malformed, and they are told apart by how
\* many are shown.
Malformation == \E i \in 1 .. next - 1 : trace[i] = Preview!Malformed
Passed ==
  /\ \A i \in 1 .. next - 1 :
       trace[i] = Preview!Malformed \/ \E k \in 1 .. Len(preview) : preview[k].of = i
  /\ Len(preview) <= next - 1
  /\ Malformation <=> Len(preview) < next - 1

Told ==
  reply.status = "shown" => (reply.actions <=> Len(trace) > Len(preview)) /\ Preview!Over

PreviewInv ==
  /\ PreviewTyped /\ Fairly /\ Passed /\ Told
  /\ Preview!Total(Preview!Spent) + budget = MAX_CHARS

-----------------------------------------------------------------------------
(* The invariant is kept *)

LEMMA PreviewTotals == ASSUME NEW w PROVE Preview!Total(w) = Total(w)
BY DEF Preview!Total, Preview!Totals, Total, Totals

LEMMA LeastOfThree ==
  ASSUME NEW a \in Nat, NEW b \in Nat, NEW c \in Nat
  PROVE  /\ Preview!Min({a, b, c}) \in {a, b, c}
         /\ Preview!Min({a, b, c}) <= a /\ Preview!Min({a, b, c}) <= b
         /\ Preview!Min({a, b, c}) <= c
<1>1. \E x \in {a, b, c} : \A y \in {a, b, c} : x <= y
  <2>1. CASE a <= b /\ a <= c
    BY <2>1
  <2>2. CASE b <= a /\ b <= c
    BY <2>2
  <2>3. CASE c <= a /\ c <= b
    BY <2>3
  <2> QED
    BY <2>1, <2>2, <2>3
<1> QED
  BY <1>1 DEF Preview!Min

LEMMA ClipIsFair ==
  ASSUME Preview!PreviewAssumption, NEW length \in Nat, NEW room \in Nat
  PROVE  /\ Preview!Clip(length, room) \in Nat /\ Preview!Clip(length, room) <= length
         /\ Preview!Clip(length, room) <= room /\ Preview!Clip(length, room) <= STREAM_CHARS
         /\ Preview!Clip(length, room) < length /\ Preview!Clip(length, room) < room
              => Preview!Clip(length, room) = STREAM_CHARS
<1>1. STREAM_CHARS \in Nat
  BY DEF Preview!PreviewAssumption
<1> QED
  BY <1>1, LeastOfThree DEF Preview!Clip

LEMMA SpentMore ==
  ASSUME NEW s \in Seq(Info), NEW info \in Info
  PROVE  LET of(t) == [k \in DOMAIN t |-> t[k].stdout + t[k].stderr]
         IN  /\ Total(of(s)) \in Nat
             /\ Total(of(Append(s, info))) = Total(of(s)) + info.stdout + info.stderr
<1> DEFINE of(t) == [k \in DOMAIN t |-> t[k].stdout + t[k].stderr]
           a == of(Append(s, info))
           b == Append(of(s), info.stdout + info.stderr)
<1>1. /\ Len(s) \in Nat /\ DOMAIN s = 1 .. Len(s) /\ \A i \in 1 .. Len(s) : s[i] \in Info
  BY ElementOfSeq, LenProperties
<1>2. of(s) \in [1 .. Len(s) -> Nat]
  BY <1>1 DEF Info
<1>3. of(s) \in Seq(Nat) /\ Len(of(s)) = Len(s)
  <2> HIDE DEF of
  <2> QED
    BY <1>1, <1>2, LenProperties
<1>4. /\ DOMAIN Append(s, info) = 1 .. Len(s) + 1 /\ Append(s, info)[Len(s) + 1] = info
      /\ \A i \in 1 .. Len(s) : Append(s, info)[i] = s[i]
  BY <1>1, AppendProperties, LenProperties
<1>5. info.stdout + info.stderr \in Nat
  BY DEF Info
<1>6. /\ b \in Seq(Nat) /\ Len(b) = Len(s) + 1 /\ b[Len(s) + 1] = info.stdout + info.stderr
      /\ \A i \in 1 .. Len(s) : b[i] = of(s)[i]
  <2> HIDE DEF of
  <2> QED
    BY <1>3, <1>5, AppendProperties
<1>7. b = [i \in 1 .. Len(s) + 1 |-> b[i]]
  <2>1. b \in [1 .. Len(b) -> Nat]
    BY <1>6, LenProperties
  <2> HIDE DEF b
  <2> QED
    BY <1>6, <2>1
<1>8. a = [i \in 1 .. Len(s) + 1 |-> a[i]]
  BY <1>4
<1>9. \A i \in 1 .. Len(s) + 1 : a[i] = b[i]
  <2>1. ASSUME NEW i \in 1 .. Len(s) PROVE a[i] = b[i]
    <3>1. a[i] = s[i].stdout + s[i].stderr
      BY <1>1, <1>4
    <3>2. of(s)[i] = s[i].stdout + s[i].stderr
      BY <1>1
    <3> HIDE DEF a, b, of
    <3> QED
      BY <1>6, <3>1, <3>2
  <2>2. a[Len(s) + 1] = b[Len(s) + 1]
    <3>1. a[Len(s) + 1] = info.stdout + info.stderr
      BY <1>1, <1>4
    <3> HIDE DEF a, b, of
    <3> QED
      BY <1>6, <3>1
  <2> HIDE DEF a, b, of
  <2> QED
    BY <1>1, <2>1, <2>2
<1>10. a = b
  <2> HIDE DEF a, b, of
  <2> QED
    BY <1>7, <1>8, <1>9
<1>11. Total(of(s)) \in Nat /\ Total(b) = Total(of(s)) + (info.stdout + info.stderr)
  <2> HIDE DEF of
  <2> QED
    BY <1>3, <1>5, TotalOfMore
<1>12. Total(of(s)) + (info.stdout + info.stderr) = Total(of(s)) + info.stdout + info.stderr
  <2>1. info.stdout \in Nat /\ info.stderr \in Nat
    BY DEF Info
  <2> HIDE DEF of
  <2> QED
    BY <1>11, <2>1
<1> QED
  BY <1>10, <1>11, <1>12

LEMMA PreviewStarts ==
  ASSUME Preview!PreviewAssumption, Preview!Init PROVE PreviewInv
<1>1. preview = <<>> /\ next = 1 /\ budget = MAX_CHARS /\ reply = Preview!Pending
  BY DEF Preview!Init
<1>2. trace \in Seq(Preview!TraceActions) /\ Len(trace) \in Nat
  BY LenProperties DEF Preview!Init
<1>3. PreviewTyped
  BY <1>1, <1>2, EmptySeq DEF PreviewTyped, Preview!PreviewAssumption
<1>4. Passed /\ Told /\ Fairly
  BY <1>1 DEF Fairly, Passed, Malformation, Told, Preview!Pending
<1>5. Preview!Total(Preview!Spent) = 0
  <2>1. Preview!Spent = <<>>
    BY <1>1 DEF Preview!Spent
  <2> QED
    BY <2>1, TotalOfNone, PreviewTotals
<1> QED
  BY <1>1, <1>3, <1>4, <1>5 DEF PreviewInv, Preview!PreviewAssumption

\* An action with something wrong is passed over.
LEMMA PreviewSkips ==
  ASSUME PreviewInv, Preview!Skip PROVE PreviewInv'
<1>1. /\ UNCHANGED <<trace, budget, preview, reply>> /\ next' = next + 1
      /\ next <= Len(trace) /\ trace[next] = Preview!Malformed
      /\ reply = Preview!Pending
  BY LenProperties DEF Preview!Skip, Preview!Over, PreviewInv, PreviewTyped
<1>2. next \in Nat \ {0} /\ Len(trace) \in Nat /\ Len(preview) \in Nat
  BY LenProperties DEF PreviewInv, PreviewTyped
<1>3. PreviewTyped'
  BY <1>1, <1>2 DEF PreviewInv, PreviewTyped
<1>4. Fairly'
  BY <1>1, <1>2 DEF PreviewInv, Fairly, Shows, Fair
<1>5. Passed'
  <2>1. \A i \in 1 .. next' - 1 : i \in 1 .. next - 1 \/ i = next
    BY <1>1, <1>2
  <2>2. Malformation'
    <3>1. next \in 1 .. next' - 1
      BY <1>1, <1>2
    <3> QED
      BY <1>1, <3>1 DEF Malformation
  <2>3. Len(preview) < next' - 1 /\ Len(preview) <= next' - 1
    BY <1>1, <1>2 DEF PreviewInv, Passed
  <2>4. \A i \in 1 .. next' - 1 :
          trace[i] = Preview!Malformed \/ \E k \in 1 .. Len(preview) : preview[k].of = i
    BY <1>1, <2>1 DEF PreviewInv, Passed
  <2> QED
    BY <1>1, <2>2, <2>3, <2>4 DEF Passed
<1>6. Told' /\ Preview!Spent' = Preview!Spent
  BY <1>1 DEF Told, Preview!Pending, Preview!Spent
<1> QED
  BY <1>1, <1>3, <1>4, <1>5, <1>6 DEF PreviewInv, Preview!Total, Preview!Totals

\* What is shown of an action comes out of the budget, and of the two streams the
\* second gets what the first has left.
LEMMA PreviewShows ==
  ASSUME Preview!PreviewAssumption, PreviewInv, Preview!Show PROVE PreviewInv'
<1> DEFINE length == trace[next].stdout
           second == trace[next].stderr
           out == Preview!Clip(length, budget)
           err == Preview!Clip(second, budget - out)
           info == [of |-> next, stdout |-> out, stderr |-> err,
                    cutOut |-> length > out, cutErr |-> second > err]
<1>1. /\ preview' = Append(preview, info) /\ budget' = budget - out - err
      /\ UNCHANGED <<trace, reply>> /\ next' = next + 1 /\ reply = Preview!Pending
      /\ trace[next] # Preview!Malformed /\ ~Preview!Over
  BY DEF Preview!Show
<1>2. /\ next \in Nat \ {0} /\ Len(trace) \in Nat /\ Len(preview) \in Nat /\ budget \in Nat
      /\ next <= Len(trace)
  BY <1>1, LenProperties DEF PreviewInv, PreviewTyped, Preview!Over
<1>3. length \in Nat /\ second \in Nat
  <2>1. trace[next] \in Preview!TraceActions
    BY <1>2, ElementOfSeq DEF PreviewInv, PreviewTyped
  <2> QED
    BY <1>1, <2>1 DEF Preview!TraceActions, Preview!PreviewAssumption
<1>4. /\ out \in Nat /\ out <= length /\ out <= budget /\ out <= STREAM_CHARS
      /\ out < length /\ out < budget => out = STREAM_CHARS
  <2> HIDE DEF length
  <2> QED
    BY <1>2, <1>3, ClipIsFair
<1>5. /\ err \in Nat /\ err <= second /\ err <= budget - out /\ err <= STREAM_CHARS
      /\ err < second /\ err < budget - out => err = STREAM_CHARS
  <2> HIDE DEF second, out
  <2>1. budget - out \in Nat
    BY <1>2, <1>4
  <2> QED
    BY <1>3, <2>1, ClipIsFair
<1> HIDE DEF out, err, length, second
<1>6. info \in Info
  BY <1>2, <1>3, <1>4, <1>5 DEF Info
<1>7. budget' \in Nat /\ budget' <= budget
      /\ (budget' > 0 => out < budget /\ err < budget - out)
  BY <1>1, <1>2, <1>4, <1>5
<1>8. /\ preview \in Seq(Info) /\ preview' \in Seq(Info) /\ Len(preview') = Len(preview) + 1
      /\ preview'[Len(preview) + 1] = info /\ \A k \in 1 .. Len(preview) : preview'[k] = preview[k]
  <2> HIDE DEF info
  <2> QED
    BY <1>1, <1>6, AppendProperties DEF PreviewInv, PreviewTyped
<1>9. PreviewTyped'
  BY <1>1, <1>2, <1>7, <1>8 DEF PreviewInv, PreviewTyped
<1>10. Shows(info, next', budget')
  <2>1. next \in 1 .. next' - 1
    BY <1>1, <1>2
  <2>2. Fair(length, out, length > out, budget')
    BY <1>1, <1>3, <1>4, <1>7 DEF Fair, length
  <2>3. Fair(second, err, second > err, budget')
    BY <1>1, <1>3, <1>5, <1>7 DEF Fair, second
  <2> QED
    BY <1>1, <2>1, <2>2, <2>3 DEF Shows, length, second
<1>11. ASSUME NEW k \in 1 .. Len(preview) PROVE Shows(preview[k], next', budget')
  <2>1. Shows(preview[k], next, budget)
    BY DEF PreviewInv, Fairly
  <2> QED
    BY <1>1, <1>2, <1>7, <2>1 DEF Shows, Fair
<1>12. Fairly'
  <2> HIDE DEF info
  <2>1. \A k \in 1 .. Len(preview') : k \in 1 .. Len(preview) \/ k = Len(preview) + 1
    BY <1>2, <1>8
  <2>2. \A k \in 1 .. Len(preview') : Shows(preview'[k], next', budget')
    BY <1>8, <1>10, <1>11, <2>1
  <2> QED
    BY <1>1, <2>2 DEF Fairly, Shows
<1>13. Passed'
  <2>1. \A i \in 1 .. next' - 1 : i \in 1 .. next - 1 \/ i = next
    BY <1>1, <1>2
  <2>2. Malformation' <=> Malformation
    <3>1. 1 .. next - 1 \subseteq 1 .. next' - 1
      BY <1>1, <1>2
    <3> QED
      BY <1>1, <2>1, <3>1 DEF Malformation
  <2>3. preview'[Len(preview) + 1].of = next /\ Len(preview) + 1 \in 1 .. Len(preview')
    BY <1>2, <1>8
  <2>4. \A i \in 1 .. next - 1 :
          \/ trace[i] = Preview!Malformed
          \/ \E k \in 1 .. Len(preview') : preview'[k].of = i
    <3> HIDE DEF info
    <3>1. 1 .. Len(preview) \subseteq 1 .. Len(preview')
      BY <1>2, <1>8
    <3> QED
      BY <1>8, <3>1 DEF PreviewInv, Passed
  <2>5. Len(preview') <= next' - 1 /\ (Malformation' <=> Len(preview') < next' - 1)
    BY <1>1, <1>2, <1>8, <2>2 DEF PreviewInv, Passed
  <2> QED
    BY <1>1, <2>1, <2>3, <2>4, <2>5 DEF Passed
<1>14. Preview!Total(Preview!Spent)' + budget' = MAX_CHARS
  <2> DEFINE of(t) == [k \in DOMAIN t |-> t[k].stdout + t[k].stderr]
  <2>1. Total(of(preview)) \in Nat /\ Total(of(preview')) = Total(of(preview)) + out + err
    <3>1. info.stdout = out /\ info.stderr = err
      OBVIOUS
    <3> HIDE DEF info
    <3> QED
      BY <1>1, <1>6, <1>8, <3>1, SpentMore
  <2>2. Preview!Total(Preview!Spent) = Total(of(preview))
    BY PreviewTotals DEF Preview!Spent
  <2>3. Preview!Total(Preview!Spent)' = Total(of(preview'))
    <3>1. Preview!Spent' = of(preview')
      BY DEF Preview!Spent
    <3>2. Preview!Total(Preview!Spent)' = Preview!Total(of(preview'))
      BY <3>1 DEF Preview!Total, Preview!Totals
    <3> HIDE DEF of
    <3> QED
      BY <3>2, PreviewTotals
  <2>4. Total(of(preview)) + budget = MAX_CHARS
    BY <2>2 DEF PreviewInv
  <2> HIDE DEF of
  <2> QED
    BY <1>1, <1>2, <1>4, <1>5, <2>1, <2>3, <2>4
<1>15. Told'
  BY <1>1 DEF Told, Preview!Pending
<1> QED
  BY <1>9, <1>12, <1>13, <1>14, <1>15 DEF PreviewInv

LEMMA PreviewStep ==
  ASSUME Preview!PreviewAssumption, PreviewInv, [Preview!Next]_Preview!vars PROVE PreviewInv'
<1>1. CASE Preview!Unavailable \/ UNCHANGED Preview!vars
  <2>1. UNCHANGED <<trace, next, budget, preview>>
        /\ (reply' = reply \/ reply'.status = "refused")
    BY <1>1 DEF Preview!Unavailable, Preview!vars, Preview!Pending
  <2>2. Told'
    BY <2>1 DEF PreviewInv, Told, Preview!Over
  <2>3. PreviewTyped' /\ Passed' /\ Fairly'
    BY <2>1 DEF PreviewInv, PreviewTyped, Passed, Malformation, Fairly, Shows
  <2>4. Preview!Total(Preview!Spent)' = Preview!Total(Preview!Spent)
    BY <2>1 DEF Preview!Spent, Preview!Total, Preview!Totals
  <2> QED
    BY <2>1, <2>2, <2>3, <2>4 DEF PreviewInv
<1>2. CASE Preview!Finish
  <2>1. /\ UNCHANGED <<trace, next, budget, preview>> /\ Preview!Over
        /\ reply'.actions = (Len(trace) > Len(preview))
    BY <1>2 DEF Preview!Finish, Preview!ActionsTruncated
  <2>2. Told'
    BY <2>1 DEF Told, Preview!Over
  <2>3. PreviewTyped' /\ Passed' /\ Fairly'
    BY <2>1 DEF PreviewInv, PreviewTyped, Passed, Malformation, Fairly, Shows
  <2>4. Preview!Total(Preview!Spent)' = Preview!Total(Preview!Spent)
    BY <2>1 DEF Preview!Spent, Preview!Total, Preview!Totals
  <2> QED
    BY <2>1, <2>2, <2>3, <2>4 DEF PreviewInv
<1> QED
  BY <1>1, <1>2, PreviewSkips, PreviewShows DEF Preview!Next

-----------------------------------------------------------------------------
(* What a person may rely on *)

\* An action is left out exactly if fewer are shown than there are.
LEMMA LeftOutIsSaid ==
  ASSUME PreviewInv, reply.status = "shown"
  PROVE  reply.actions <=> Preview!LeftOut # {}
<1>1. /\ next \in Nat \ {0} /\ next <= Len(trace) + 1 /\ Len(trace) \in Nat
      /\ Len(preview) \in Nat /\ Len(preview) <= next - 1
      /\ DOMAIN trace = 1 .. Len(trace) /\ DOMAIN preview = 1 .. Len(preview)
  BY LenProperties DEF PreviewInv, PreviewTyped, Passed
<1>2. reply.actions <=> Len(trace) > Len(preview)
  BY DEF PreviewInv, Told
<1>3. \A k \in 1 .. Len(preview) :
        preview[k].of \in 1 .. next - 1 /\ trace[preview[k].of] # Preview!Malformed
  BY DEF PreviewInv, Fairly, Shows
<1>4. CASE next <= Len(trace)
  <2>1. next \in Preview!LeftOut
    BY <1>1, <1>3, <1>4 DEF Preview!LeftOut
  <2> QED
    BY <1>1, <1>2, <1>4, <2>1
<1>5. CASE next = Len(trace) + 1
  <2>1. CASE Malformation
    <3>1. PICK i \in 1 .. next - 1 : trace[i] = Preview!Malformed
      BY <2>1 DEF Malformation
    <3>2. i \in Preview!LeftOut
      BY <1>1, <1>3, <1>5, <3>1 DEF Preview!LeftOut
    <3>3. Len(preview) < next - 1
      BY <2>1 DEF PreviewInv, Passed
    <3> QED
      BY <1>1, <1>2, <1>5, <3>2, <3>3
  <2>2. CASE ~Malformation
    <3>1. Preview!LeftOut = {}
      <4>1. \A i \in 1 .. next - 1 : \E k \in 1 .. Len(preview) : preview[k].of = i
        BY <2>2 DEF PreviewInv, Passed, Malformation
      <4>2. ASSUME NEW i \in Preview!LeftOut PROVE FALSE
        <5>1. i \in 1 .. next - 1 /\ \A k \in 1 .. Len(preview) : preview[k].of # i
          BY <1>1, <1>5 DEF Preview!LeftOut
        <5> QED
          BY <4>1, <5>1
      <4> QED
        BY <4>2
    <3>2. Len(preview) = next - 1
      BY <1>1, <2>2 DEF PreviewInv, Passed
    <3> QED
      BY <1>1, <1>2, <1>5, <3>1, <3>2
  <2> QED
    BY <2>1, <2>2
<1> QED
  BY <1>1, <1>4, <1>5

LEMMA PreviewPromises ==
  ASSUME Preview!PreviewAssumption, PreviewInv
  PROVE  Preview!WithinBudget /\ Preview!CutForAReason /\ Preview!OmissionsAreSaid
<1>1. /\ DOMAIN preview = 1 .. Len(preview) /\ DOMAIN trace = 1 .. Len(trace)
      /\ Len(trace) \in Nat /\ next \in Nat /\ STREAM_CHARS \in Nat
      /\ \A k \in 1 .. Len(preview) : preview[k] \in Info
  BY LenProperties, ElementOfSeq DEF PreviewInv, PreviewTyped, Preview!PreviewAssumption
<1>2. \A k \in 1 .. Len(preview) : Shows(preview[k], next, budget)
  BY DEF PreviewInv, Fairly
<1>3. Preview!WithinBudget
  <2>1. Preview!Total(Preview!Spent) + budget = MAX_CHARS /\ budget >= 0
    BY DEF PreviewInv, PreviewTyped
  <2>2. \A k \in 1 .. Len(preview) : preview[k].stdout \in 0 .. STREAM_CHARS
                                    /\ preview[k].stderr \in 0 .. STREAM_CHARS
    BY <1>1, <1>2 DEF Shows, Fair, Info
  <2> QED
    BY <1>1, <2>1, <2>2 DEF Preview!WithinBudget
<1>4. Preview!OmissionsAreSaid
  <2> SUFFICES ASSUME reply.status = "shown" PROVE Preview!OmissionsAreSaid
    BY DEF Preview!OmissionsAreSaid, Preview!Finished
  <2>1. reply.actions <=> Preview!LeftOut # {}
    BY LeftOutIsSaid
  <2> QED
    BY <1>1, <1>2, <2>1 DEF Preview!OmissionsAreSaid, Shows, Fair
<1>5. Preview!CutForAReason
  <2> SUFFICES ASSUME reply.status = "shown", budget > 0 PROVE Preview!CutForAReason
    BY DEF Preview!CutForAReason, Preview!Finished
  <2>1. ASSUME NEW k \in Preview!Cut
        PROVE  \E s \in {preview[k].stdout, preview[k].stderr} : s = STREAM_CHARS
    BY <1>1, <1>2 DEF Preview!Cut, Shows, Fair
  <2>2. ASSUME NEW i \in Preview!LeftOut, trace[i] # Preview!Malformed PROVE i > MAX_ACTIONS
    <3>1. i \in 1 .. Len(trace) /\ \A k \in 1 .. Len(preview) : preview[k].of # i
      BY <1>1 DEF Preview!LeftOut
    <3>2. ~(i \in 1 .. next - 1)
      BY <2>2, <3>1 DEF PreviewInv, Passed
    <3>3. next > Len(trace) \/ next > MAX_ACTIONS
      BY DEF PreviewInv, Told, Preview!Over, PreviewTyped
    <3> QED
      BY <1>1, <3>1, <3>2, <3>3 DEF Preview!PreviewAssumption
  <2> QED
    BY <2>1, <2>2 DEF Preview!CutForAReason
<1> QED
  BY <1>3, <1>4, <1>5

-----------------------------------------------------------------------------
(* The benchmark: the inductive invariant *)

Fixtures == [base : Suite!Trees, after : Suite!Trees, git : BOOLEAN]
Snapshots == [Files -> Contents \cup {"none"}]
Results == [case : Nat, passed : BOOLEAN, fixture : Fixtures, commits : Seq(Snapshots)]

Resting == {"load", "next", "refused", "done"}
Working == {"validate", "add_base", "commit_base", "clear", "copy_after", "forget",
            "add_after", "commit_after", "review"}

SuiteTyped ==
  /\ fixture \in Fixtures /\ case \in 0 .. Cases /\ step \in Resting \cup Working
  /\ workspace \in Suite!Trees /\ index \in Suite!Trees
  /\ commits \in Seq(Snapshots) /\ Len(commits) <= 2 /\ results \in Seq(Results)

Base == Suite!ContentOf(fixture.base)
After == Suite!ContentOf(fixture.after)

\* What has been made of the fixture, and what git knows of it.
Materialized ==
  /\ step \in {"validate", "add_base"} => index = Suite!Empty
  /\ step = "add_base" => workspace = fixture.base
  /\ step = "commit_base" => index = fixture.base
  /\ step \in {"clear", "copy_after", "forget", "add_after", "commit_after"} => commits = <<Base>>
  /\ step = "copy_after" => workspace = Suite!Empty
  /\ step \in {"forget", "add_after"} => Suite!ContentOf(workspace) = After
  /\ step = "add_after" => index = Suite!Empty
  /\ step = "commit_after" => Suite!ContentOf(index) = After
  /\ step = "review" => commits = <<Base, After>>

Reviewed(r) ==
  r.commits = <<Suite!ContentOf(r.fixture.base), Suite!ContentOf(r.fixture.after)>>
Recorded ==
  /\ Len(results) = IF step \in Resting THEN case ELSE case - 1
  /\ \A k \in 1 .. Len(results) :
       results[k].case = k /\ (results[k].passed => Reviewed(results[k]))
  /\ step = "done" => case = Cases

SuiteInv == SuiteTyped /\ Materialized /\ Recorded

-----------------------------------------------------------------------------
(* The invariant is kept *)

LEMMA TreesAreTrees ==
  ASSUME Suite!SuiteAssumption
  PROVE  /\ Suite!Empty \in Suite!Trees
         /\ \A t \in Suite!Trees : Suite!ContentOf(t) \in Snapshots
BY DEF Suite!Empty, Suite!Trees, Suite!ContentOf, Suite!NoFile, Snapshots

\* With nothing recorded, git takes every file for new.
LEMMA AllIsAdded ==
  ASSUME workspace \in Suite!Trees PROVE Suite!Added(Suite!Empty) = workspace
<1>1. Suite!Added(Suite!Empty) = [f \in Files |-> workspace[f]]
  BY DEF Suite!Added, Suite!Empty
<1> QED
  BY <1>1 DEF Suite!Trees

LEMMA AppendToOne ==
  ASSUME NEW S, NEW a \in S, NEW b \in S PROVE Append(<<a>>, b) = <<a, b>>
<1>1. <<a>> \in Seq(S) /\ Len(<<a>>) = 1 /\ <<a>>[1] = a
  OBVIOUS
<1>2. <<a, b>> \in Seq(S) /\ Len(<<a, b>>) = 2 /\ <<a, b>>[1] = a /\ <<a, b>>[2] = b
  OBVIOUS
<1>3. /\ Append(<<a>>, b) \in Seq(S) /\ Len(Append(<<a>>, b)) = 2
      /\ Append(<<a>>, b)[1] = a /\ Append(<<a>>, b)[2] = b
  BY <1>1, AppendProperties
<1>4. \A i \in 1 .. 2 : Append(<<a>>, b)[i] = <<a, b>>[i]
  BY <1>2, <1>3
<1> QED
  BY <1>2, <1>3, <1>4, SeqEqual

LEMMA SuiteStarts == ASSUME Suite!SuiteAssumption, Suite!Init PROVE SuiteInv
<1>1. SuiteTyped
  <2>1. Suite!NoFixture \in Fixtures
    BY TreesAreTrees DEF Suite!NoFixture, Fixtures
  <2> QED
    BY <2>1, TreesAreTrees, EmptySeq DEF Suite!Init, SuiteTyped, Resting, Suite!SuiteAssumption
<1>2. Materialized /\ Recorded
  BY DEF Suite!Init, Materialized, Recorded, Resting
<1> QED
  BY <1>1, <1>2 DEF SuiteInv

\* A case that is run is recorded under its number; one that counts as passed has
\* been reviewed.
LEMMA CaseIsRecorded ==
  ASSUME SuiteInv, step \in Working, NEW passed \in BOOLEAN, Suite!Add(passed),
         passed => step = "review",
         step' = "next", UNCHANGED <<fixture, valid, case, workspace, index, commits>>
  PROVE  SuiteInv'
<1> DEFINE r == [case |-> case, passed |-> passed, fixture |-> fixture, commits |-> commits]
<1>1. r \in Results /\ results' = Append(results, r)
  BY DEF SuiteInv, SuiteTyped, Results, Suite!Add, Suite!SuiteAssumption
<1>2. /\ results \in Seq(Results) /\ results' \in Seq(Results)
      /\ Len(results') = Len(results) + 1 /\ results'[Len(results) + 1] = r
      /\ \A k \in 1 .. Len(results) : results'[k] = results[k]
      /\ Len(results) \in Nat
  <2> HIDE DEF r
  <2> QED
    BY <1>1, AppendProperties, LenProperties DEF SuiteInv, SuiteTyped
<1>3. Len(results) = case - 1 /\ case \in Nat
  BY DEF SuiteInv, Recorded, SuiteTyped, Resting, Working
<1>4. SuiteTyped'
  BY <1>2 DEF SuiteInv, SuiteTyped, Resting
<1>5. Materialized'
  BY DEF Materialized
<1>6. r.case = case /\ (r.passed => Reviewed(r))
  BY DEF SuiteInv, Materialized, Reviewed, Base, After
<1>7. Recorded'
  <2> HIDE DEF r
  <2>1. ASSUME NEW k \in 1 .. Len(results')
        PROVE  results'[k].case = k /\ (results'[k].passed => Reviewed(results'[k]))
    <3>1. k \in 1 .. Len(results) \/ k = Len(results) + 1
      BY <1>2
    <3> QED
      BY <1>2, <1>3, <1>6, <3>1 DEF SuiteInv, Recorded
  <2> QED
    BY <1>2, <1>3, <2>1 DEF Recorded, Resting
<1> QED
  BY <1>4, <1>5, <1>7 DEF SuiteInv

LEMMA SuiteFails ==
  ASSUME SuiteInv, Suite!Refuse \/ Suite!GitFails \/ Suite!ReviewFails \/ Suite!Review
  PROVE  SuiteInv'
<1>1. PICK passed \in BOOLEAN :
        /\ Suite!Add(passed) /\ step \in Working /\ (passed => step = "review")
        /\ step' = "next" /\ UNCHANGED <<fixture, valid, case, workspace, index, commits>>
  BY DEF Suite!Refuse, Suite!GitFails, Suite!ReviewFails, Suite!Review, Suite!CaseFails, Working
<1> QED
  BY <1>1, CaseIsRecorded

\* The steps between cases.
LEMMA SuiteGoesOn ==
  ASSUME Suite!SuiteAssumption, SuiteInv, Suite!Load \/ Suite!NextCase \/ Suite!Finish
  PROVE  SuiteInv'
<1>1. CASE Suite!Load \/ Suite!Finish
  <2>1. /\ UNCHANGED <<fixture, case, workspace, index, commits, results>>
        /\ step \in Resting /\ step' \in Resting /\ (step' = "done" => case = Cases)
    BY <1>1 DEF Suite!Load, Suite!Finish, Resting
  <2> QED
    BY <2>1 DEF SuiteInv, SuiteTyped, Materialized, Recorded, Resting
<1>2. CASE Suite!NextCase
  <2>1. PICK base \in Suite!Trees, after \in Suite!Trees, git \in BOOLEAN :
          fixture' = [base |-> base, after |-> after, git |-> git]
    BY <1>2 DEF Suite!NextCase
  <2>2. /\ step = "next" /\ step' = "validate" /\ case < Cases /\ case' = case + 1
        /\ workspace' = Suite!Empty /\ index' = Suite!Empty /\ commits' = <<>>
        /\ results' = results
    BY <1>2 DEF Suite!NextCase
  <2>3. SuiteTyped'
    <3>1. fixture' \in Fixtures
      BY <2>1 DEF Fixtures
    <3>2. case' \in 0 .. Cases
      BY <2>2 DEF SuiteInv, SuiteTyped, Suite!SuiteAssumption
    <3> QED
      BY <2>2, <3>1, <3>2, TreesAreTrees, EmptySeq DEF SuiteInv, SuiteTyped, Working
  <2>4. Materialized' /\ Recorded'
    BY <2>2 DEF SuiteInv, SuiteTyped, Materialized, Recorded, Resting, Suite!SuiteAssumption
  <2> QED
    BY <2>3, <2>4 DEF SuiteInv
<1> QED
  BY <1>1, <1>2

\* The base of a fixture is committed as it is.
LEMMA SuiteMakesBase ==
  ASSUME Suite!SuiteAssumption, SuiteInv,
         Suite!CopyBase \/ Suite!AddBase \/ Suite!CommitBase \/ Suite!Clear
  PROVE  SuiteInv'
<1>1. /\ UNCHANGED <<fixture, case, results>>
      /\ step \in Working /\ step' \in Working
  BY DEF Suite!CopyBase, Suite!AddBase, Suite!CommitBase, Suite!Clear, Working
<1>2. Recorded'
  BY <1>1 DEF SuiteInv, Recorded, Resting, Working
<1>3. fixture.base \in Suite!Trees /\ Base \in Snapshots
  BY TreesAreTrees DEF SuiteInv, SuiteTyped, Fixtures, Base
<1>4. CASE Suite!CopyBase
  <2>1. /\ workspace' = fixture.base /\ step' = "add_base" /\ step = "validate"
        /\ UNCHANGED <<index, commits>>
    BY <1>4 DEF Suite!CopyBase
  <2> QED
    BY <1>1, <1>2, <1>3, <2>1 DEF SuiteInv, SuiteTyped, Materialized
<1>5. CASE Suite!AddBase
  <2>1. index' = Suite!Added(index) /\ step' = "commit_base" /\ step = "add_base"
        /\ UNCHANGED <<workspace, commits>>
    BY <1>5 DEF Suite!AddBase
  <2>2. index' = fixture.base
    BY <2>1, AllIsAdded DEF SuiteInv, SuiteTyped, Materialized
  <2> QED
    BY <1>1, <1>2, <1>3, <2>1, <2>2 DEF SuiteInv, SuiteTyped, Materialized
<1>6. CASE Suite!CommitBase
  <2>1. commits' = <<Base>> /\ step' = "clear" /\ UNCHANGED <<workspace, index>>
    BY <1>6 DEF Suite!CommitBase, SuiteInv, Materialized, Base
  <2>2. Base' = Base
    BY <1>1 DEF Base, Suite!ContentOf
  <2>3. commits' \in Seq(Snapshots)
    BY <1>3, <2>1
  <2> QED
    BY <1>1, <1>2, <2>1, <2>2, <2>3 DEF SuiteInv, SuiteTyped, Materialized
<1>7. CASE Suite!Clear
  <2>1. workspace' = Suite!Empty /\ step = "clear" /\ step' = "copy_after"
        /\ UNCHANGED <<index, commits>>
    BY <1>7 DEF Suite!Clear
  <2>2. Base' = Base
    BY <1>1 DEF Base, Suite!ContentOf
  <2> QED
    BY <1>1, <1>2, <2>1, <2>2, TreesAreTrees DEF SuiteInv, SuiteTyped, Materialized
<1> QED
  BY <1>4, <1>5, <1>6, <1>7

\* So is what comes after it, whatever sizes and times its files have: git has
\* forgotten those of the base.
LEMMA SuiteMakesAfter ==
  ASSUME Suite!SuiteAssumption, SuiteInv,
         Suite!CopyAfter \/ Suite!ForgetIndex \/ Suite!AddAfter \/ Suite!CommitAfter
  PROVE  SuiteInv'
<1>1. /\ UNCHANGED <<fixture, case, results>>
      /\ step \in Working /\ step' \in Working
  BY DEF Suite!CopyAfter, Suite!ForgetIndex, Suite!AddAfter, Suite!CommitAfter, Working
<1>2. Recorded'
  BY <1>1 DEF SuiteInv, Recorded, Resting, Working
<1>3. fixture.after \in Suite!Trees /\ After \in Snapshots /\ Base \in Snapshots
  BY TreesAreTrees DEF SuiteInv, SuiteTyped, Fixtures, After, Base
<1>4. Base' = Base /\ After' = After
  BY <1>1 DEF Base, After, Suite!ContentOf
<1>5. CASE Suite!CopyAfter
  <2>1. PICK now \in [Files -> Times] :
          workspace' = [f \in Files |->
            IF fixture.after[f] = Suite!NoFile THEN workspace[f]
            ELSE [fixture.after[f] EXCEPT !.mtime = now[f]]]
    BY <1>5 DEF Suite!CopyAfter
  <2>2. /\ workspace = Suite!Empty /\ step = "copy_after" /\ step' = "forget"
        /\ UNCHANGED <<index, commits>>
    BY <1>5 DEF Suite!CopyAfter, SuiteInv, Materialized
  <2>3. ASSUME NEW f \in Files
        PROVE  /\ workspace'[f] \in {Suite!NoFile} \cup
                    {[content |-> c, size |-> Sizes[c], mtime |-> t] : c \in Contents, t \in Times}
               /\ workspace'[f].content = fixture.after[f].content
    <3>1. CASE fixture.after[f] = Suite!NoFile
      BY <2>1, <2>2, <3>1 DEF Suite!Empty
    <3>2. CASE fixture.after[f] # Suite!NoFile
      <4>1. PICK c \in Contents, t \in Times :
              fixture.after[f] = [content |-> c, size |-> Sizes[c], mtime |-> t]
        BY <1>3, <3>2 DEF Suite!Trees
      <4>2. workspace'[f] = [content |-> c, size |-> Sizes[c], mtime |-> now[f]]
        BY <2>1, <3>2, <4>1
      <4> QED
        BY <4>1, <4>2
    <3> QED
      BY <3>1, <3>2
  <2>4. workspace' \in Suite!Trees
    <3> DEFINE Stands == {Suite!NoFile} \cup
                 {[content |-> c, size |-> Sizes[c], mtime |-> t] : c \in Contents, t \in Times}
    <3>1. \A f \in Files : workspace'[f] \in Stands
      BY <2>3
    <3>2. Suite!Trees = [Files -> Stands]
      BY DEF Suite!Trees
    <3> HIDE DEF Stands
    <3>3. workspace' = [f \in Files |-> workspace'[f]]
      BY <2>1
    <3> QED
      BY <3>1, <3>2, <3>3
  <2>5. Suite!ContentOf(workspace)' = After
    BY <2>3 DEF Suite!ContentOf, After
  <2> QED
    BY <1>1, <1>2, <1>4, <2>2, <2>4, <2>5 DEF SuiteInv, SuiteTyped, Materialized
<1>6. CASE Suite!ForgetIndex
  <2>1. index' = Suite!Empty /\ step = "forget" /\ step' = "add_after"
        /\ UNCHANGED <<workspace, commits>>
    BY <1>6 DEF Suite!ForgetIndex
  <2>2. Suite!ContentOf(workspace)' = Suite!ContentOf(workspace)
    BY <2>1 DEF Suite!ContentOf
  <2> QED
    BY <1>1, <1>2, <1>4, <2>1, <2>2, TreesAreTrees DEF SuiteInv, SuiteTyped, Materialized
<1>7. CASE Suite!AddAfter
  <2>1. index' = Suite!Added(index) /\ step = "add_after" /\ step' = "commit_after"
        /\ UNCHANGED <<workspace, commits>>
    BY <1>7 DEF Suite!AddAfter
  <2>2. index' = workspace
    BY <2>1, AllIsAdded DEF SuiteInv, SuiteTyped, Materialized
  <2>3. Suite!ContentOf(index)' = After
    <3>1. Suite!ContentOf(workspace) = After
      BY <2>1 DEF SuiteInv, Materialized
    <3> QED
      BY <2>2, <3>1 DEF Suite!ContentOf
  <2> QED
    BY <1>1, <1>2, <1>4, <2>1, <2>2, <2>3 DEF SuiteInv, SuiteTyped, Materialized
<1>8. CASE Suite!CommitAfter
  <2>1. commits' = Append(commits, After) /\ step = "commit_after" /\ step' = "review"
        /\ UNCHANGED <<workspace, index>>
    BY <1>8 DEF Suite!CommitAfter, SuiteInv, Materialized
  <2>2. commits' = <<Base, After>>
    <3>1. commits = <<Base>>
      BY <2>1 DEF SuiteInv, Materialized
    <3> QED
      BY <1>3, <2>1, <3>1, AppendToOne
  <2>3. commits' \in Seq(Snapshots)
    BY <1>3, <2>2
  <2> QED
    BY <1>1, <1>2, <1>4, <2>1, <2>2, <2>3 DEF SuiteInv, SuiteTyped, Materialized
<1> QED
  BY <1>5, <1>6, <1>7, <1>8

LEMMA SuiteStep ==
  ASSUME Suite!SuiteAssumption, SuiteInv, [Suite!Next]_Suite!vars PROVE SuiteInv'
<1>1. CASE UNCHANGED Suite!vars
  <2>1. UNCHANGED <<fixture, step, case, workspace, index, commits, results>>
    BY <1>1 DEF Suite!vars
  <2>2. Base' = Base /\ After' = After
        /\ Suite!ContentOf(workspace)' = Suite!ContentOf(workspace)
        /\ Suite!ContentOf(index)' = Suite!ContentOf(index)
    BY <2>1 DEF Base, After, Suite!ContentOf
  <2> QED
    BY <2>1, <2>2 DEF SuiteInv, SuiteTyped, Materialized, Recorded
<1> QED
  BY <1>1, SuiteFails, SuiteGoesOn, SuiteMakesBase, SuiteMakesAfter DEF Suite!Next

LEMMA SuitePromises ==
  ASSUME Suite!SuiteAssumption, SuiteInv
  PROVE  Suite!TypeOK /\ Suite!ReviewsTheChange /\ Suite!PassIsWhole
<1>1. Suite!ReviewsTheChange
  BY DEF SuiteInv, Materialized, Suite!ReviewsTheChange, Base, After
<1>2. Suite!PassIsWhole
  <2> SUFFICES ASSUME Suite!SuitePassed PROVE Suite!PassIsWhole
    BY DEF Suite!PassIsWhole
  <2>1. step = "done" /\ Len(results) = Cases /\ DOMAIN results = 1 .. Len(results)
    BY LenProperties DEF Suite!SuitePassed, SuiteInv, SuiteTyped, Recorded, Resting
  <2> QED
    BY <2>1 DEF Suite!SuitePassed, SuiteInv, Recorded, Reviewed, Suite!PassIsWhole
<1>3. Suite!TypeOK
  BY DEF SuiteInv, SuiteTyped, Recorded, Suite!TypeOK
<1> QED
  BY <1>1, <1>2, <1>3
-----------------------------------------------------------------------------
(* What stands around a run, as a whole *)

\* The parts share no variable: each goes its own way, and which of them a
\* behaviour is about does not change.
LEMMA SupportStep ==
  ASSUME [SupportNext]_<<which, supportVars>>
  PROVE  /\ which' = which
         /\ [Next]_vars
         /\ which = "approvals" => [Approval!Next]_(Approval!vars)
         /\ which = "request" => [Request!Next]_(Request!vars)
         /\ which = "preview" => [Preview!Next]_(Preview!vars)
         /\ which = "suite" => [Suite!Next]_(Suite!vars)
<1>1. which' = which
  BY DEF SupportNext
<1>2. [Next]_vars
  BY DEF SupportNext, supportVars
<1>3. ASSUME which = "approvals" PROVE [Approval!Next]_(Approval!vars)
  BY <1>3 DEF SupportNext, supportVars, approvalVars, Approval!vars
<1>4. ASSUME which = "request" PROVE [Request!Next]_(Request!vars)
  BY <1>4 DEF SupportNext, supportVars, requestVars, Request!vars, Request!response
<1>5. ASSUME which = "preview" PROVE [Preview!Next]_(Preview!vars)
  BY <1>5 DEF SupportNext, supportVars, previewVars, Preview!vars
<1>6. ASSUME which = "suite" PROVE [Suite!Next]_(Suite!vars)
  BY <1>6 DEF SupportNext, supportVars, suiteVars, Suite!vars
<1> QED
  BY <1>1, <1>2, <1>3, <1>4, <1>5, <1>6

LEMMA SupportStarts ==
  ASSUME SupportInit
  PROVE  /\ Init
         /\ which = "approvals" => Approval!Init
         /\ which = "request" => Request!Init
         /\ which = "preview" => Preview!Init
         /\ which = "suite" => Suite!Init
  BY DEF SupportInit, IdleCommand

\* A command is run as it was approved, succeeds by itself, is not left running
\* and has its output read whole, also of a runner that may stop anywhere (runner.py).
THEOREM EveryCommand ==
  SupportSpec => [](ApprovedIsExecuted /\ SuccessIsItsOwn /\ NothingLeftRunning /\ OutputIsKept)
<1>1. SupportInit => RunnerInv /\ Heard
  BY SupportStarts, InitHolds, InitHeard
<1>2. RunnerInv /\ Heard /\ [SupportNext]_<<which, supportVars>> => (RunnerInv /\ Heard)'
  <2> SUFFICES ASSUME RunnerInv, Heard, [SupportNext]_<<which, supportVars>>
               PROVE  RunnerInv' /\ Heard'
    OBVIOUS
  <2>1. [Next]_vars
    BY SupportStep
  <2>2. Kinds /\ Consent /\ Ended
    BY DEF RunnerInv
  <2>3. RunnerInv'
    BY <2>1, <2>2, StepKinds, StepConsent, StepEnded DEF RunnerInv
  <2>4. Heard'
    BY <2>1, <2>2, StepHeard
  <2> QED
    BY <2>3, <2>4
<1>3. RunnerInv /\ Heard =>
        ApprovedIsExecuted /\ SuccessIsItsOwn /\ NothingLeftRunning /\ OutputIsKept
  BY DEF RunnerInv, Consent, Ended, Kinds, Heard, TypeOK, OutputIsKept
<1> QED
  BY <1>1, <1>2, <1>3, PTL DEF SupportSpec

\* However many processes verify and wherever a grant, a verification or a restart
\* falls, the claims of a capability are returned once, were within their lifetime
\* at the check, and were consumed no longer past it than the database's lock may
\* be waited for (approvals.py:134-171).
THEOREM ClaimsMayBeReliedOn ==
  ASSUME SupportAssumption PROVE SupportSpec => []ClaimsAreGood
<1> DEFINE Here == which = "approvals"
<1>1. SupportInit /\ Here => Approval!Init
  BY SupportStarts
<1>2. [SupportNext]_<<which, supportVars>> /\ Here => [Approval!Next]_(Approval!vars)
  BY SupportStep
<1>3. [SupportNext]_<<which, supportVars>> => (Here' <=> Here)
  BY SupportStep
<1>4. (Here => Approval!ClaimsAreGood) => ClaimsAreGood
  BY DEF ClaimsAreGood
<1>5. Approval!Spec => []Approval!ClaimsAreGood
  BY ClaimsAreAlwaysGood DEF SupportAssumption
<1> HIDE DEF Here
<1> QED
  BY <1>1, <1>2, <1>3, <1>4, <1>5, PTL DEF SupportSpec, Approval!Spec

\* An answer keeps its length, and the waits for it their time, one by one: how
\* many waits one call makes nothing bounds (planner.py:208-220, 242-295).
THEOREM RequestsKeepLimits ==
  ASSUME SupportAssumption PROVE SupportSpec => []RequestKeepsLimits
<1> DEFINE Here == which = "request"
<1>1. SupportInit /\ Here => RequestInv
  BY SupportStarts, InitRequest DEF SupportAssumption
<1>2. RequestInv /\ [SupportNext]_<<which, supportVars>> /\ Here => RequestInv'
  BY SupportStep, RequestStep DEF SupportAssumption
<1>3. [SupportNext]_<<which, supportVars>> => (Here' <=> Here)
  BY SupportStep
<1>4. (Here => RequestInv) => RequestKeepsLimits
  BY RequestPromises DEF SupportAssumption, RequestKeepsLimits
<1> HIDE DEF Here
<1> QED
  BY <1>1, <1>2, <1>3, <1>4, PTL DEF SupportSpec

\* The preview of any trace keeps its limits and says what it leaves out
\* (service.py, trace_preview).
THEOREM PreviewsAreHonest ==
  ASSUME SupportAssumption PROVE SupportSpec => []PreviewIsHonest
<1> DEFINE Here == which = "preview"
<1>1. SupportInit /\ Here => PreviewInv
  BY SupportStarts, PreviewStarts DEF SupportAssumption
<1>2. PreviewInv /\ [SupportNext]_<<which, supportVars>> /\ Here => PreviewInv'
  BY SupportStep, PreviewStep DEF SupportAssumption
<1>3. [SupportNext]_<<which, supportVars>> => (Here' <=> Here)
  BY SupportStep
<1>4. (Here => PreviewInv) => PreviewIsHonest
  BY PreviewPromises DEF SupportAssumption, PreviewIsHonest
<1> HIDE DEF Here
<1> QED
  BY <1>1, <1>2, <1>3, <1>4, PTL DEF SupportSpec

\* A suite reviews the change its fixture describes, and passes only when each of
\* its cases was reviewed so (review_benchmark.py).
THEOREM SuitesAreWhole ==
  ASSUME SupportAssumption PROVE SupportSpec => []SuiteIsWhole
<1> DEFINE Here == which = "suite"
<1>1. SupportInit /\ Here => SuiteInv
  BY SupportStarts, SuiteStarts DEF SupportAssumption
<1>2. SuiteInv /\ [SupportNext]_<<which, supportVars>> /\ Here => SuiteInv'
  BY SupportStep, SuiteStep DEF SupportAssumption
<1>3. [SupportNext]_<<which, supportVars>> => (Here' <=> Here)
  BY SupportStep
<1>4. (Here => SuiteInv) => SuiteIsWhole
  BY SuitePromises DEF SupportAssumption, SuiteIsWhole
<1> HIDE DEF Here
<1> QED
  BY <1>1, <1>2, <1>3, <1>4, PTL DEF SupportSpec
=============================================================================
