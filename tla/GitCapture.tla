----------------------------- MODULE GitCapture -----------------------------
(***************************************************************************)
(* One call of GitCommitReader._git_bytes: the git process, a process it   *)
(* may leave behind that inherited its pipes, two reader threads, and the  *)
(* caller that waits, kills, closes and joins.                             *)
(*                                                                         *)
(* A reader's stream is a buffered one: read(64 KiB) holds the stream's    *)
(* lock and calls read(2) until 64 KiB or the end of the pipe.  Closing a  *)
(* descriptor does not wake a read(2) that is blocked on it; the next one  *)
(* fails and takes with it what the stream had buffered.                   *)
(*                                                                         *)
(* Bytes are counted in units.  The timeouts of join and of the wait after *)
(* a kill are far longer than a reader or a killed process needs when      *)
(* nothing blocks it, so they fire only when something does.               *)
(***************************************************************************)
EXTENDS Naturals

CONSTANTS
  Limit,      \* output_limit of "out", MAX_GIT_ERROR_BYTES of "err"
  Chunk,      \* what one read asks for, 64 KiB
  Capacity,   \* what a pipe holds
  MaxOutput   \* bound: what is written to a pipe

Streams == {"out", "err"}

ASSUME LimitAssumption == Limit \in [Streams -> Nat]
ASSUME SizeAssumption  == Chunk \in Nat \ {0} /\ Capacity \in Nat \ {0}
ASSUME BoundAssumption == MaxOutput \in Nat

VARIABLES
  forks,     \* this git may leave a process behind that keeps a pipe open
  git,       \* running, dying (killed), or how it ended: ok, failed, killed
  helper,    \* streams whose write end the process left behind holds
  written,   \* units git has written to each pipe
  extra,     \* units the process left behind has written to it
  piped,     \* units in each pipe
  open,      \* the reader's descriptor has not been closed
  reader,    \* where each reader thread is
  part,      \* units the current read has buffered
  size,      \* size of _drain_bounded
  kept,      \* units in the list of chunks
  overflow,  \* the event
  timedOut,  \* timed_out
  pc,        \* where the caller is
  outcome    \* what the call returns

processVars == <<git, helper, written, extra>>
readerVars  == <<reader, part, size, kept, overflow>>
vars == <<processVars, piped, open, readerVars, timedOut, pc, outcome>>

Ended == {"ok", "failed", "killed"}
Alive(s)   == reader[s] # "dead"
Writers(s) == git \in {"running", "dying"} \/ s \in helper
\* The reader is inside stream.read and has the stream's lock.
Locked(s)  == reader[s] \in {"read", "blocked"}
\* Nothing the reader can do until somebody writes or lets go of the pipe.
Stuck(s)   == reader[s] = "blocked" /\ piped[s] = 0 /\ Writers(s)
AtMost(a, b) == IF a < b THEN a ELSE b

Init ==
  /\ forks \in BOOLEAN
  /\ git = "running"
  /\ helper = {}
  /\ written = [s \in Streams |-> 0]
  /\ extra = [s \in Streams |-> 0]
  /\ piped = [s \in Streams |-> 0]
  /\ open = [s \in Streams |-> TRUE]
  /\ reader = [s \in Streams |-> "read"]
  /\ part = [s \in Streams |-> 0]
  /\ size = [s \in Streams |-> 0]
  /\ kept = [s \in Streams |-> 0]
  /\ overflow = FALSE
  /\ timedOut = FALSE
  /\ pc = "wait"
  /\ outcome = "none"

-----------------------------------------------------------------------------
(* git and what it leaves behind *)

Write(s) ==
  /\ git = "running"
  /\ piped[s] < Capacity
  /\ written[s] < MaxOutput
  /\ written' = [written EXCEPT ![s] = @ + 1]
  /\ piped' = [piped EXCEPT ![s] = @ + 1]
  /\ UNCHANGED <<git, helper, extra, open, readerVars, timedOut, pc, outcome>>

Fork ==
  /\ forks
  /\ git = "running"
  /\ helper = {}
  /\ helper' \in (SUBSET Streams) \ {{}}
  /\ UNCHANGED <<git, written, extra, piped, open, readerVars, timedOut, pc, outcome>>

HelperWrites(s) ==
  /\ s \in helper
  /\ piped[s] < Capacity
  /\ extra[s] < 1             \* bound
  /\ extra' = [extra EXCEPT ![s] = @ + 1]
  /\ piped' = [piped EXCEPT ![s] = @ + 1]
  /\ UNCHANGED <<git, helper, written, open, readerVars, timedOut, pc, outcome>>

HelperExits ==
  /\ helper # {}
  /\ helper' = {}
  /\ UNCHANGED <<git, written, extra, piped, open, readerVars, timedOut, pc, outcome>>

GitExits(how) ==
  /\ \/ git = "running" /\ how \in {"ok", "failed"}
     \/ git = "dying" /\ how = "killed"
  /\ git' = how
  /\ UNCHANGED <<helper, written, extra, piped, open, readerVars, timedOut, pc, outcome>>

\* process.kill: of no effect when the process has ended.
Killed == IF git = "running" THEN "dying" ELSE git

-----------------------------------------------------------------------------
(* _drain_bounded *)

\* The next read(2) of the stream's read: on a closed descriptor it fails, and
\* the thread returns from its handler.
RawRead(s) ==
  /\ reader[s] = "read"
  /\ reader' = [reader EXCEPT ![s] = IF open[s] THEN "blocked" ELSE "dead"]
  /\ UNCHANGED <<processVars, piped, open, part, size, kept, overflow, timedOut,
                 pc, outcome>>

\* How much of the pipe the next read(2) returns.
Taken(s) == AtMost(piped[s], Chunk - part[s])

\* read(2) returns what is there, or the end of the pipe.
RawReadReturns(s) ==
  LET taken == Taken(s)
      ends  == piped[s] = 0
  IN  /\ reader[s] = "blocked"
      /\ ~Stuck(s)
      /\ piped' = [piped EXCEPT ![s] = @ - taken]
      /\ part' = [part EXCEPT ![s] = @ + taken]
      /\ reader' = [reader EXCEPT ![s] =
           IF ends /\ part[s] = 0 THEN "dead"
           ELSE IF ends \/ part[s] + taken = Chunk THEN "handle" ELSE "read"]
      /\ UNCHANGED <<processVars, open, size, kept, overflow, timedOut, pc, outcome>>

\* Fault: the last unit over the limit goes unnoticed.
Exceeds_OffByOne(s, n) == n > Limit[s] + 1

Exceeds(s, n) == n > Limit[s]

\* Fault: the chunk that reaches the limit is kept whole.
Keep_Whole(s, n) == n

\* How much of n units the list of chunks holds.
Keep(s, n) == AtMost(n, Limit[s])

\* The chunk is kept as far as the limit goes.
Handle(s) ==
  /\ reader[s] = "handle"
  /\ reader' = [reader EXCEPT ![s] = "read"]
  /\ part' = [part EXCEPT ![s] = 0]
  /\ IF overflow
     THEN UNCHANGED <<git, size, kept, overflow>>
     ELSE LET n == size[s] + part[s]
          IN  /\ size' = [size EXCEPT ![s] = n]
              /\ kept' = [kept EXCEPT ![s] = Keep(s, n)]
              /\ IF Exceeds(s, n)
                 THEN overflow' = TRUE /\ git' = Killed
                 ELSE UNCHANGED <<overflow, git>>
  /\ UNCHANGED <<helper, written, extra, piped, open, timedOut, pc, outcome>>

-----------------------------------------------------------------------------
(* The caller *)

\* process.wait returns.  After a kill it gives up in silence five seconds later;
\* a git that is killed is taken to have ended by then.
Waited ==
  /\ pc \in {"wait", "waitKilled"}
  /\ git \in Ended
  /\ pc' = "check"
  /\ UNCHANGED <<processVars, piped, open, readerVars, timedOut, outcome>>

\* Fault: a process that runs out of time is left to itself.
WaitTimesOut_NoKill ==
  /\ pc = "wait"
  /\ git \notin Ended
  /\ timedOut' = TRUE
  /\ pc' = "check"
  /\ UNCHANGED <<processVars, piped, open, readerVars, outcome>>

\* Fault: the wait has no timeout.
WaitTimesOut_Never == FALSE /\ UNCHANGED vars

\* process.wait(GIT_TIMEOUT_SECONDS) gives up at any time; git is killed.
WaitTimesOut ==
  /\ pc = "wait"
  /\ git \notin Ended
  /\ timedOut' = TRUE
  /\ git' = Killed
  /\ pc' = "waitKilled"
  /\ UNCHANGED <<helper, written, extra, piped, open, readerVars, outcome>>

\* Both descriptors are closed at once if the output is of no more use.
Check ==
  /\ pc = "check"
  /\ open' = IF timedOut \/ overflow THEN [s \in Streams |-> FALSE] ELSE open
  /\ pc' = "join"
  /\ UNCHANGED <<processVars, piped, readerVars, timedOut, outcome>>

\* Both joins return, or their timeouts fire; then the descriptors are closed
\* and the readers joined once more.
Joined ==
  /\ pc \in {"join", "rejoin"}
  /\ \A s \in Streams : ~Alive(s)
  /\ pc' = "closeOut"
  /\ UNCHANGED <<processVars, piped, open, readerVars, timedOut, outcome>>

JoinTimesOut ==
  /\ \E s \in Streams : Alive(s)
  /\ \A s \in Streams : Alive(s) => Stuck(s)
  /\ \/ pc = "join" /\ pc' = "rejoin" /\ open' = [s \in Streams |-> FALSE]
     \/ pc = "rejoin" /\ pc' = "closeOut" /\ UNCHANGED open
  /\ UNCHANGED <<processVars, piped, readerVars, timedOut, outcome>>

\* stdout_pipe.close, stderr_pipe.close: each waits for the stream's lock.
Close(s) ==
  /\ \/ s = "out" /\ pc = "closeOut" /\ pc' = "closeErr"
     \/ s = "err" /\ pc = "closeErr" /\ pc' = "decide"
  /\ ~Locked(s)
  /\ open' = [open EXCEPT ![s] = FALSE]
  /\ UNCHANGED <<processVars, piped, readerVars, timedOut, outcome>>

Return ==
  /\ pc = "decide"
  /\ pc' = "done"
  /\ outcome' = IF \E s \in Streams : Alive(s) THEN "no end"
                ELSE IF timedOut THEN "timed out"
                ELSE IF overflow THEN "too long"
                ELSE IF git # "ok" THEN "failed"
                ELSE "ok"
  /\ UNCHANGED <<processVars, piped, open, readerVars, timedOut>>

Git    == Fork \/ \E s \in Streams : Write(s)
Helper == HelperExits \/ \E s \in Streams : HelperWrites(s)
Ends   == \E how \in Ended : GitExits(how)
Read(s) == RawRead(s) \/ RawReadReturns(s) \/ Handle(s)
Caller == \/ Waited \/ WaitTimesOut \/ Check \/ Joined \/ JoinTimesOut
          \/ (\E s \in Streams : Close(s)) \/ Return

Next ==
  /\ UNCHANGED forks
  /\ Git \/ Helper \/ Ends \/ (\E s \in Streams : Read(s)) \/ Caller

Spec == Init /\ [][Next]_<<forks, vars>>

\* A killed process ends; threads run.  Nothing else has to happen: git may
\* go on for ever, and so may a process it left behind.
Fairness ==
  /\ WF_vars(GitExits("killed"))
  /\ \A s \in Streams : WF_vars(Read(s))
  /\ WF_vars(Caller)
FairSpec == Spec /\ Fairness

-----------------------------------------------------------------------------
(* Properties *)

TypeOK ==
  /\ git \in {"running", "dying"} \cup Ended
  /\ helper \subseteq Streams
  /\ written \in [Streams -> Nat]
  /\ extra \in [Streams -> Nat]
  /\ piped \in [Streams -> Nat]
  /\ part \in [Streams -> Nat]
  /\ size \in [Streams -> Nat]
  /\ kept \in [Streams -> Nat]
  /\ open \in [Streams -> BOOLEAN]
  /\ reader \in [Streams -> {"read", "blocked", "handle", "dead"}]
  /\ overflow \in BOOLEAN /\ timedOut \in BOOLEAN
  /\ pc \in {"wait", "waitKilled", "check", "join", "rejoin", "closeOut",
             "closeErr", "decide", "done"}
  /\ outcome \in {"none", "no end", "timed out", "too long", "failed", "ok"}

\* What is kept in memory stays within the limits whatever is written, and
\* nothing is kept twice.
Bounded ==
  \A s \in Streams : kept[s] <= Limit[s] /\ kept[s] <= written[s] + extra[s]

\* A success is the whole output: one unit over the limit on either stream is
\* an error, and nothing git wrote is lost between pipe, buffer and result.
\* (docs/safety.md:28: "Omitted changed bytes ... force INCOMPLETE": output cut
\* short without a word would hide them.)
NeverTruncated ==
  outcome = "ok" => \A s \in Streams : written[s] <= kept[s]

\* Of a git that leaves nothing behind.
NeverTruncatedAlone == ~forks => NeverTruncated

\* docs/safety.md:28: overflow or timeout kills git "before returning".
KilledBeforeReturn == outcome # "none" => git \in Ended

\* docs/safety.md:28: overflow or timeout "joins both readers before
\* returning": the call returns whatever git and its heirs do.
CaptureReturns == <>(pc = "done")

\* Of a git that leaves nothing behind.
CaptureReturnsAlone == ~forks => CaptureReturns
=============================================================================
