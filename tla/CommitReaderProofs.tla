-------------------------- MODULE CommitReaderProofs --------------------------
(***************************************************************************)
(* The reader of commits, for any limits, sizes and numbers of entries:    *)
(* what a capture of git's output keeps, that a private copy of an object  *)
(* store is faithful while the store stays in use, and that no change is   *)
(* hidden behind a snapshot without flags.                                 *)
(***************************************************************************)
EXTENDS CommitReader, TotalsProofs, FiniteSetTheorems, FunctionTheorems

-----------------------------------------------------------------------------
(* A capture.  Accounted holds whatever processes git leaves behind;       *)
(* Complete needs that it leaves none.                                     *)

\* Every unit a reader has seen was written, and the list of chunks holds as
\* much of it as the limit allows.
Counted ==
  \A s \in Streams : /\ part[s] <= Chunk
                     /\ kept[s] = Keep(s, size[s])
                     /\ piped[s] + part[s] + size[s] <= written[s] + extra[s]
\* Past its wait the caller knows that git is dead.
Ordered ==
  /\ pc \notin {"wait", "waitKilled"} => git \in Ended
  /\ outcome # "none" => pc = "done"
Accounted == TypeOK /\ Counted /\ Ordered

counters == <<written, extra, piped, part, size, kept>>

LEMMA InitAccounted == Init => Accounted
<1> SUFFICES ASSUME Init PROVE Accounted
  OBVIOUS
<1>1. TypeOK
  BY DEF Init, TypeOK, Streams
<1>2. Counted
  <2> SUFFICES ASSUME NEW s \in Streams
               PROVE  /\ part[s] <= Chunk /\ kept[s] = Keep(s, size[s])
                      /\ piped[s] + part[s] + size[s] <= written[s] + extra[s]
    BY DEF Counted
  <2>1. /\ part[s] = 0 /\ kept[s] = 0 /\ size[s] = 0
        /\ piped[s] = 0 /\ written[s] = 0 /\ extra[s] = 0
    BY DEF Init
  <2>2. Keep(s, 0) = 0
    BY LimitAssumption DEF Keep, AtMost
  <2> QED  BY <2>1, <2>2, SizeAssumption
<1>3. Ordered
  BY DEF Init, Ordered
<1> QED  BY <1>1, <1>2, <1>3 DEF Accounted

LEMMA Frame ==
  ASSUME Counted, UNCHANGED counters
  PROVE  Counted'
  BY DEF Counted, counters, Keep

LEMMA Counters ==
  ASSUME TypeOK
  PROVE  /\ written \in [Streams -> Nat] /\ extra \in [Streams -> Nat]
         /\ piped \in [Streams -> Nat] /\ part \in [Streams -> Nat]
         /\ size \in [Streams -> Nat] /\ kept \in [Streams -> Nat]
  BY DEF TypeOK

LEMMA WriteAccounted ==
  ASSUME Accounted, NEW s \in Streams, Write(s)
  PROVE  Accounted'
<1>1. /\ written' = [written EXCEPT ![s] = written[s] + 1]
      /\ piped' = [piped EXCEPT ![s] = piped[s] + 1]
      /\ UNCHANGED <<git, helper, extra, open, reader, part, size, kept,
                     overflow, timedOut, pc, outcome>>
  BY DEF Write, readerVars
<1>2. written' \in [Streams -> Nat] /\ piped' \in [Streams -> Nat]
  BY <1>1, Counters DEF Accounted
<1>3. TypeOK'
  BY <1>1, <1>2 DEF Accounted, TypeOK
<1>4. ASSUME NEW u \in Streams
      PROVE  piped'[u] + part[u] + size[u] <= written'[u] + extra[u]
  <2>1. \/ piped'[u] = piped[u] /\ written'[u] = written[u]
        \/ piped'[u] = piped[u] + 1 /\ written'[u] = written[u] + 1
    BY <1>1, Counters DEF Accounted
  <2> QED
    BY <2>1, Counters DEF Accounted, Counted
<1>5. Counted'
  BY <1>1, <1>4 DEF Accounted, Counted, Keep
<1> QED  BY <1>1, <1>3, <1>5 DEF Accounted, Ordered

LEMMA HelperWritesAccounted ==
  ASSUME Accounted, NEW s \in Streams, HelperWrites(s)
  PROVE  Accounted'
<1>1. /\ extra' = [extra EXCEPT ![s] = extra[s] + 1]
      /\ piped' = [piped EXCEPT ![s] = piped[s] + 1]
      /\ UNCHANGED <<git, helper, written, open, reader, part, size, kept,
                     overflow, timedOut, pc, outcome>>
  BY DEF HelperWrites, readerVars
<1>2. extra' \in [Streams -> Nat] /\ piped' \in [Streams -> Nat]
  BY <1>1, Counters DEF Accounted
<1>3. TypeOK'
  BY <1>1, <1>2 DEF Accounted, TypeOK
<1>4. ASSUME NEW u \in Streams
      PROVE  piped'[u] + part[u] + size[u] <= written[u] + extra'[u]
  <2>1. \/ piped'[u] = piped[u] /\ extra'[u] = extra[u]
        \/ piped'[u] = piped[u] + 1 /\ extra'[u] = extra[u] + 1
    BY <1>1, Counters DEF Accounted
  <2> QED
    BY <2>1, Counters DEF Accounted, Counted
<1>5. Counted'
  BY <1>1, <1>4 DEF Accounted, Counted, Keep
<1> QED  BY <1>1, <1>3, <1>5 DEF Accounted, Ordered

\* Actions that count nothing: the processes come and go, a reader enters a
\* read(2).
LEMMA WorldAccounted ==
  ASSUME Accounted,
         Fork \/ HelperExits \/ Ends \/ \E s \in Streams : RawRead(s)
  PROVE  Accounted'
<1>1. UNCHANGED counters
  BY DEF Fork, HelperExits, Ends, GitExits, RawRead, counters, readerVars, processVars
<1>2. Counted'
  BY <1>1, Frame DEF Accounted
<1>3. TypeOK /\ Ordered
  BY DEF Accounted
<1>4. CASE Fork
  <2>1. /\ helper' \subseteq Streams
        /\ UNCHANGED <<git, written, extra, piped, open, reader, part, size, kept,
                       overflow, timedOut, pc, outcome>>
    BY <1>4 DEF Fork, readerVars
  <2> QED  BY <1>2, <1>3, <2>1 DEF Accounted, TypeOK, Ordered
<1>5. CASE HelperExits
  <2>1. /\ helper' = {}
        /\ UNCHANGED <<git, written, extra, piped, open, reader, part, size, kept,
                       overflow, timedOut, pc, outcome>>
    BY <1>5 DEF HelperExits, readerVars
  <2> QED  BY <1>2, <1>3, <2>1 DEF Accounted, TypeOK, Ordered
<1>6. CASE Ends
  <2>1. /\ git' \in Ended
        /\ UNCHANGED <<helper, written, extra, piped, open, reader, part, size, kept,
                       overflow, timedOut, pc, outcome>>
    BY <1>6 DEF Ends, GitExits, readerVars
  <2> QED  BY <1>2, <1>3, <2>1 DEF Accounted, TypeOK, Ordered
<1>7. ASSUME NEW s \in Streams, RawRead(s) PROVE Accounted'
  <2>1. /\ reader' \in [Streams -> {"read", "blocked", "handle", "dead"}]
        /\ UNCHANGED <<git, helper, written, extra, piped, open, part, size, kept,
                       overflow, timedOut, pc, outcome>>
    BY <1>3, <1>7 DEF RawRead, TypeOK, processVars
  <2> QED  BY <1>2, <1>3, <2>1 DEF Accounted, TypeOK, Ordered
<1> QED
  BY <1>4, <1>5, <1>6, <1>7

\* What a read takes is there and fits what it asked for.
LEMMA TakenFits ==
  ASSUME Accounted, NEW s \in Streams
  PROVE  /\ Taken(s) \in Nat
         /\ Taken(s) <= piped[s]
         /\ part[s] + Taken(s) <= Chunk
  BY SizeAssumption, Counters DEF Accounted, Counted, Taken, AtMost

LEMMA ReadAccounted ==
  ASSUME Accounted, NEW s \in Streams, RawReadReturns(s)
  PROVE  Accounted'
<1> DEFINE taken == Taken(s)
<1>1. taken \in Nat /\ taken <= piped[s] /\ part[s] + taken <= Chunk
  BY TakenFits
<1>2. /\ piped' = [piped EXCEPT ![s] = piped[s] - taken]
      /\ part' = [part EXCEPT ![s] = part[s] + taken]
      /\ UNCHANGED <<git, helper, written, extra, open, size, kept, overflow,
                     timedOut, pc, outcome>>
  BY DEF RawReadReturns, processVars
<1>3. reader' \in [Streams -> {"read", "blocked", "handle", "dead"}]
  BY DEF RawReadReturns, Accounted, TypeOK
<1> HIDE DEF taken
<1>4. piped' \in [Streams -> Nat] /\ part' \in [Streams -> Nat]
  BY <1>1, <1>2, Counters DEF Accounted
<1>5. TypeOK'
  BY <1>2, <1>3, <1>4 DEF Accounted, TypeOK
<1>6. ASSUME NEW u \in Streams
      PROVE  part'[u] <= Chunk /\ piped'[u] + part'[u] + size[u] <= written[u] + extra[u]
  <2>1. \/ piped'[u] = piped[u] /\ part'[u] = part[u]
        \/ u = s /\ piped'[u] = piped[u] - taken /\ part'[u] = part[u] + taken
    BY <1>2, Counters DEF Accounted
  <2> QED
    BY <1>1, <2>1, SizeAssumption, Counters DEF Accounted, Counted
<1>7. Counted'
  BY <1>2, <1>6 DEF Accounted, Counted, Keep
<1> QED  BY <1>2, <1>5, <1>7 DEF Accounted, Ordered

LEMMA HandleAccounted ==
  ASSUME Accounted, NEW s \in Streams, Handle(s)
  PROVE  Accounted'
<1>1. /\ part' = [part EXCEPT ![s] = 0]
      /\ UNCHANGED <<helper, written, extra, piped, open, timedOut, pc, outcome>>
  BY DEF Handle
<1>2. reader' \in [Streams -> {"read", "blocked", "handle", "dead"}]
  BY DEF Handle, Accounted, TypeOK
<1>3. git' \in {"running", "dying"} \cup Ended /\ (git \in Ended => git' = git)
  BY DEF Handle, Accounted, TypeOK, Killed, Ended
<1>4. overflow' \in BOOLEAN
  BY DEF Handle, Accounted, TypeOK
<1>5. \/ size' = size /\ kept' = kept
      \/ /\ size' = [size EXCEPT ![s] = size[s] + part[s]]
         /\ kept' = [kept EXCEPT ![s] = Keep(s, size[s] + part[s])]
  BY DEF Handle
<1>6. Keep(s, size[s] + part[s]) \in Nat
  BY LimitAssumption, Counters DEF Accounted, Keep, AtMost
<1>7. /\ size' \in [Streams -> Nat] /\ kept' \in [Streams -> Nat]
      /\ part' \in [Streams -> Nat]
  BY <1>1, <1>5, <1>6, Counters DEF Accounted
<1>8. TypeOK'
  BY <1>1, <1>2, <1>3, <1>4, <1>7 DEF Accounted, TypeOK
<1>9. ASSUME NEW u \in Streams
      PROVE  /\ part'[u] <= Chunk
             /\ kept'[u] = Keep(u, size'[u])
             /\ piped[u] + part'[u] + size'[u] <= written[u] + extra[u]
  <2>1. CASE u # s
    BY <1>1, <1>5, <2>1, Counters DEF Accounted, Counted
  <2>2. CASE u = s
    <3>1. part'[u] = 0 /\ (size'[u] = size[u] \/ size'[u] = size[u] + part[u])
      BY <1>1, <1>5, <2>2, Counters DEF Accounted
    <3>2. kept'[u] = Keep(u, size'[u])
      BY <1>5, <2>2, Counters DEF Accounted, Counted
    <3>3. piped[s] + part[s] + size[s] <= written[s] + extra[s]
      BY DEF Accounted, Counted
    <3> QED
      BY <2>2, <3>1, <3>2, <3>3, SizeAssumption, Counters DEF Accounted
  <2> QED  BY <2>1, <2>2
<1>10. Counted'
  BY <1>1, <1>9 DEF Counted, Keep
<1> QED  BY <1>1, <1>3, <1>8, <1>10 DEF Accounted, Ordered

LEMMA CallerAccounted ==
  ASSUME Accounted, Caller
  PROVE  Accounted'
<1>1. UNCHANGED counters
  BY DEF Caller, Waited, WaitTimesOut, Check, Joined, JoinTimesOut, Close, Return,
     counters, readerVars, processVars
<1>2. Counted'
  BY <1>1, Frame DEF Accounted
<1>3. UNCHANGED <<helper, written, extra, piped, reader, part, size, kept, overflow>>
  BY DEF Caller, Waited, WaitTimesOut, Check, Joined, JoinTimesOut, Close, Return,
     readerVars, processVars
<1>4. TypeOK'
  <2> USE <1>3 DEF Accounted, TypeOK, processVars, readerVars
  <2>1. CASE Waited        BY <2>1 DEF Waited
  <2>2. CASE WaitTimesOut  BY <2>2 DEF WaitTimesOut, Killed
  <2>3. CASE Check         BY <2>3 DEF Check
  <2>4. CASE Joined        BY <2>4 DEF Joined
  <2>5. CASE JoinTimesOut  BY <2>5 DEF JoinTimesOut
  <2>6. CASE \E s \in Streams : Close(s)  BY <2>6 DEF Close
  <2>7. CASE Return        BY <2>7 DEF Return
  <2> QED  BY <2>1, <2>2, <2>3, <2>4, <2>5, <2>6, <2>7 DEF Caller
<1>5. Ordered'
  <2> USE DEF Accounted, Ordered, processVars, Ended
  <2>1. CASE Waited        BY <2>1 DEF Waited
  <2>2. CASE WaitTimesOut  BY <2>2 DEF WaitTimesOut
  <2>3. CASE Check         BY <2>3 DEF Check
  <2>4. CASE Joined        BY <2>4 DEF Joined
  <2>5. CASE JoinTimesOut  BY <2>5 DEF JoinTimesOut
  <2>6. CASE \E s \in Streams : Close(s)  BY <2>6 DEF Close
  <2>7. CASE Return        BY <2>7 DEF Return
  <2> QED  BY <2>1, <2>2, <2>3, <2>4, <2>5, <2>6, <2>7 DEF Caller
<1> QED  BY <1>2, <1>4, <1>5 DEF Accounted

LEMMA AccountedAlways == Spec => []Accounted
<1>1. Accounted /\ [Next]_<<forks, vars>> => Accounted'
  <2> SUFFICES ASSUME Accounted, [Next]_<<forks, vars>> PROVE Accounted'
    OBVIOUS
  <2>1. CASE Git
    BY <2>1, WriteAccounted, WorldAccounted DEF Git
  <2>2. CASE Helper
    BY <2>2, HelperWritesAccounted, WorldAccounted DEF Helper
  <2>3. CASE Ends
    BY <2>3, WorldAccounted
  <2>4. CASE \E s \in Streams : Read(s)
    BY <2>4, WorldAccounted, ReadAccounted, HandleAccounted DEF Read
  <2>5. CASE Caller
    BY <2>5, CallerAccounted
  <2>6. CASE UNCHANGED vars
    <3>1. Counted'
      BY <2>6, Frame DEF Accounted, counters, vars, processVars, readerVars
    <3>2. TypeOK' /\ Ordered'
      BY <2>6 DEF Accounted, TypeOK, Ordered, vars, processVars, readerVars
    <3> QED  BY <3>1, <3>2 DEF Accounted
  <2> QED  BY <2>1, <2>2, <2>3, <2>4, <2>5, <2>6 DEF Next
<1> QED  BY <1>1, InitAccounted, PTL DEF Spec

\* Counters, events and program counters are well typed.
THEOREM CaptureTyped == Spec => []TypeOK
<1>1. Accounted => TypeOK  BY DEF Accounted
<1> QED  BY <1>1, AccountedAlways, PTL

\* What _drain_bounded keeps never exceeds the limit of its stream, nor what
\* was written to it, whatever processes hold the pipe.
THEOREM CaptureBounded == Spec => []Bounded
<1>1. Accounted => Bounded
  BY LimitAssumption, Counters DEF Accounted, Counted, Bounded, Keep, AtMost
<1> QED  BY <1>1, AccountedAlways, PTL

\* When _git_bytes returns, git has ended, also after a timeout or overflow.
THEOREM CaptureKills == Spec => []KilledBeforeReturn
<1>1. Accounted => KilledBeforeReturn
  BY DEF Accounted, Ordered, KilledBeforeReturn
<1> QED  BY <1>1, AccountedAlways, PTL

-----------------------------------------------------------------------------

\* If git leaves no process behind and neither clock nor limit has struck, no
\* unit is lost: a descriptor is closed only under a reader that has ended, and
\* a reader ends only at the end of its pipe.
Undisturbed == ~timedOut /\ ~overflow
Conserved == \A s \in Streams : written[s] = piped[s] + part[s] + size[s]
Within    == \A s \in Streams : size[s] <= Limit[s]
Reading   == \A s \in Streams : Alive(s) => open[s]
Drained   == \A s \in Streams :
               ~Alive(s) => piped[s] = 0 /\ part[s] = 0 /\ git \in Ended
NoneAlive == \A s \in Streams : ~Alive(s)
Closing   == pc \in {"closeOut", "closeErr", "decide", "done"}

Complete ==
  /\ helper = {}
  /\ Undisturbed => Conserved /\ Within /\ Reading /\ Drained
  /\ ~timedOut /\ Closing => NoneAlive
  /\ outcome = "ok" => Undisturbed /\ Closing

LEMMA InitComplete == Init => Complete
<1> SUFFICES ASSUME Init PROVE Complete
  OBVIOUS
<1>1. Conserved
  BY DEF Init, Conserved
<1>2. Within
  BY LimitAssumption DEF Init, Within
<1>3. Reading /\ Drained
  BY DEF Init, Reading, Drained, Alive
<1>4. helper = {} /\ ~Closing /\ outcome # "ok"
  BY DEF Init, Closing
<1> QED  BY <1>1, <1>2, <1>3, <1>4 DEF Complete

LEMMA WriteComplete ==
  ASSUME Accounted, Complete, NEW s \in Streams, Write(s)
  PROVE  Complete'
<1>1. /\ git = "running"
      /\ written' = [written EXCEPT ![s] = written[s] + 1]
      /\ piped' = [piped EXCEPT ![s] = piped[s] + 1]
      /\ UNCHANGED <<git, helper, open, reader, part, size, overflow, timedOut,
                     pc, outcome>>
  BY DEF Write, readerVars
<1>2. Undisturbed' <=> Undisturbed
  BY <1>1 DEF Undisturbed
<1>3. Conserved => Conserved'
  <2> SUFFICES ASSUME Conserved, NEW u \in Streams
               PROVE  written'[u] = piped'[u] + part'[u] + size'[u]
    BY DEF Conserved
  <2>1. \/ piped'[u] = piped[u] /\ written'[u] = written[u]
        \/ piped'[u] = piped[u] + 1 /\ written'[u] = written[u] + 1
    BY <1>1, Counters DEF Accounted
  <2> QED  BY <1>1, <2>1, Counters DEF Accounted, Conserved
<1>4. (Within => Within') /\ (Reading => Reading') /\ (NoneAlive => NoneAlive')
  BY <1>1 DEF Within, Reading, NoneAlive, Alive
<1>5. Drained => Drained'
  BY <1>1 DEF Drained, Alive, Ended
<1>6. Closing' <=> Closing
  BY <1>1 DEF Closing
<1> QED  BY <1>1, <1>2, <1>3, <1>4, <1>5, <1>6 DEF Complete

\* Without a process left behind, the other processes count nothing.
LEMMA WorldComplete ==
  ASSUME ~forks, Complete,
         Fork \/ HelperExits \/ Ends \/ \E s \in Streams : HelperWrites(s)
  PROVE  Complete'
<1>1. /\ UNCHANGED <<helper, written, piped, open, reader, part, size, overflow,
                     timedOut, pc, outcome>>
      /\ git \in Ended => git' \in Ended
  BY DEF Fork, HelperExits, HelperWrites, Ends, GitExits, Complete, readerVars, Ended
<1>2. (Undisturbed' <=> Undisturbed) /\ (Closing' <=> Closing)
  BY <1>1 DEF Undisturbed, Closing
<1>3. Conserved => Conserved'
  BY <1>1 DEF Conserved
<1>4. (Within => Within') /\ (Reading => Reading') /\ (NoneAlive => NoneAlive')
  BY <1>1 DEF Within, Reading, NoneAlive, Alive
<1>5. Drained => Drained'
  BY <1>1 DEF Drained, Alive
<1> QED  BY <1>1, <1>2, <1>3, <1>4, <1>5 DEF Complete

LEMMA RawReadComplete ==
  ASSUME Accounted, Complete, NEW s \in Streams, RawRead(s)
  PROVE  Complete'
<1>1. /\ reader[s] = "read"
      /\ reader' = [reader EXCEPT ![s] = IF open[s] THEN "blocked" ELSE "dead"]
      /\ UNCHANGED <<git, helper, written, piped, open, part, size, overflow,
                     timedOut, pc, outcome>>
  BY DEF RawRead, processVars
<1>2. (Undisturbed' <=> Undisturbed) /\ (Closing' <=> Closing)
  BY <1>1 DEF Undisturbed, Closing
<1>3. (Conserved => Conserved') /\ (Within => Within')
  BY <1>1 DEF Conserved, Within
<1>4. ~NoneAlive
  BY <1>1 DEF NoneAlive, Alive
<1>5. reader \in [Streams -> {"read", "blocked", "handle", "dead"}]
  BY DEF Accounted, TypeOK
<1>6. ASSUME Reading PROVE \A u \in Streams : Alive(u)' <=> Alive(u)
  <2>1. open[s]
    BY <1>1, <1>6 DEF Reading, Alive
  <2> QED  BY <1>1, <1>5, <2>1 DEF Alive
<1>7. Reading /\ Drained => Reading' /\ Drained'
  BY <1>1, <1>6 DEF Reading, Drained
<1> QED  BY <1>1, <1>2, <1>3, <1>4, <1>7 DEF Complete

LEMMA ReadComplete ==
  ASSUME Accounted, Complete, NEW s \in Streams, RawReadReturns(s)
  PROVE  Complete'
<1> DEFINE taken == Taken(s)
<1>1. taken \in Nat /\ taken <= piped[s]
  BY TakenFits
<1>2. /\ reader[s] = "blocked"
      /\ piped' = [piped EXCEPT ![s] = piped[s] - taken]
      /\ part' = [part EXCEPT ![s] = part[s] + taken]
      /\ UNCHANGED <<git, helper, written, open, size, overflow, timedOut, pc, outcome>>
  BY DEF RawReadReturns, processVars
<1>3. /\ reader' \in [Streams -> {"read", "blocked", "handle", "dead"}]
      /\ \A u \in Streams \ {s} : reader'[u] = reader[u]
      /\ reader'[s] = "dead" => piped[s] = 0 /\ part[s] = 0
  BY DEF RawReadReturns, Accounted, TypeOK
<1>4. piped[s] = 0 /\ helper = {} => git \in Ended
  BY <1>2 DEF RawReadReturns, Stuck, Writers, Accounted, TypeOK
<1> HIDE DEF taken
<1>5. (Undisturbed' <=> Undisturbed) /\ (Closing' <=> Closing)
  BY <1>2 DEF Undisturbed, Closing
<1>6. ~NoneAlive
  BY <1>2 DEF NoneAlive, Alive
<1>7. ASSUME NEW u \in Streams
      PROVE  \/ u # s /\ piped'[u] = piped[u] /\ part'[u] = part[u]
             \/ u = s /\ piped'[u] = piped[u] - taken /\ part'[u] = part[u] + taken
  BY <1>2, Counters DEF Accounted
<1>8. Conserved => Conserved'
  <2> SUFFICES ASSUME Conserved, NEW u \in Streams
               PROVE  written'[u] = piped'[u] + part'[u] + size'[u]
    BY DEF Conserved
  <2> QED  BY <1>1, <1>2, <1>7, Counters DEF Accounted, Conserved
<1>9. Within => Within'
  BY <1>2 DEF Within
<1>10. Reading => Reading'
  BY <1>2, <1>3 DEF Reading, Alive
<1>11. Drained => Drained'
  <2> SUFFICES ASSUME Drained, NEW u \in Streams, ~Alive(u)'
               PROVE  piped'[u] = 0 /\ part'[u] = 0 /\ git' \in Ended
    BY DEF Drained
  <2>1. CASE u # s
    BY <1>2, <1>3, <1>7, <2>1 DEF Drained, Alive
  <2>2. CASE u = s
    <3>1. piped[u] = 0 /\ part[u] = 0 /\ git \in Ended
      BY <1>3, <1>4, <2>2 DEF Alive, Complete
    <3> QED  BY <1>1, <1>2, <1>7, <2>2, <3>1
  <2> QED  BY <2>1, <2>2
<1> QED  BY <1>2, <1>5, <1>6, <1>8, <1>9, <1>10, <1>11 DEF Complete

LEMMA HandleComplete ==
  ASSUME Accounted, Complete, NEW s \in Streams, Handle(s)
  PROVE  Complete'
<1>1. /\ reader[s] = "handle"
      /\ reader' = [reader EXCEPT ![s] = "read"]
      /\ part' = [part EXCEPT ![s] = 0]
      /\ UNCHANGED <<helper, written, piped, open, timedOut, pc, outcome>>
      /\ overflow => overflow'
      /\ ~overflow' => /\ git' = git
                       /\ size' = [size EXCEPT ![s] = size[s] + part[s]]
                       /\ size[s] + part[s] <= Limit[s]
  <2>1. CASE overflow
    BY <2>1 DEF Handle
  <2>2. CASE ~overflow
    <3>1. size[s] + part[s] \in Nat /\ Limit[s] \in Nat
      BY LimitAssumption, Counters DEF Accounted
    <3>2. CASE Exceeds(s, size[s] + part[s])
      BY <2>2, <3>2 DEF Handle
    <3>3. CASE ~Exceeds(s, size[s] + part[s])
      BY <2>2, <3>1, <3>3 DEF Handle, Exceeds
    <3> QED  BY <3>2, <3>3
  <2> QED  BY <2>1, <2>2
<1>2. ~NoneAlive /\ Alive(s)
  BY <1>1 DEF NoneAlive, Alive
<1>3. \A u \in Streams : Alive(u)' <=> Alive(u)
  BY <1>1 DEF Accounted, TypeOK, Alive
<1>4. outcome # "ok" /\ (Closing' <=> Closing) /\ (~timedOut => ~Closing)
  BY <1>1, <1>2 DEF Complete, Closing, Undisturbed
<1>5. ASSUME Undisturbed' PROVE Conserved' /\ Within' /\ Reading' /\ Drained'
  <2>1. Undisturbed /\ Conserved /\ Within /\ Reading /\ Drained
    BY <1>1, <1>5 DEF Undisturbed, Complete
  <2>2. /\ git' = git
        /\ size' = [size EXCEPT ![s] = size[s] + part[s]]
        /\ size[s] + part[s] <= Limit[s]
    BY <1>1, <1>5 DEF Undisturbed
  <2>3. ASSUME NEW u \in Streams
        PROVE  \/ u # s /\ size'[u] = size[u] /\ part'[u] = part[u]
               \/ u = s /\ size'[u] = size[u] + part[u] /\ part'[u] = 0
    BY <1>1, <2>2, Counters DEF Accounted
  <2>4. Conserved'
    <3> SUFFICES ASSUME NEW u \in Streams
                 PROVE  written'[u] = piped'[u] + part'[u] + size'[u]
      BY DEF Conserved
    <3> QED  BY <1>1, <2>1, <2>3, Counters DEF Accounted, Conserved
  <2>5. Within'
    BY <2>1, <2>2, <2>3 DEF Within
  <2>6. Reading'
    BY <1>1, <1>3, <2>1 DEF Reading
  <2>7. Drained'
    BY <1>1, <1>2, <1>3, <2>1, <2>2, <2>3 DEF Drained
  <2> QED  BY <2>4, <2>5, <2>6, <2>7
<1> QED  BY <1>1, <1>4, <1>5 DEF Complete

LEMMA CallerComplete ==
  ASSUME Accounted, Complete, Caller
  PROVE  Complete'
<1>1. /\ UNCHANGED <<helper, written, piped, reader, part, size, overflow>>
      /\ git \in Ended => git' = git
      /\ timedOut => timedOut'
  <2>1. CASE WaitTimesOut
    BY <2>1 DEF WaitTimesOut, Killed, Ended, readerVars
  <2>2. CASE Waited \/ Joined \/ JoinTimesOut \/ \E s \in Streams : Close(s)
    BY <2>2 DEF Waited, Joined, JoinTimesOut, Close, readerVars, processVars
  <2>3. CASE Check
    BY <2>3 DEF Check, readerVars, processVars
  <2>4. CASE Return
    BY <2>4 DEF Return, readerVars, processVars
  <2> QED  BY <2>1, <2>2, <2>3, <2>4 DEF Caller
<1>2. (Conserved => Conserved') /\ (Within => Within') /\ (NoneAlive => NoneAlive')
  BY <1>1 DEF Conserved, Within, NoneAlive, Alive
<1>3. Drained => Drained'
  BY <1>1 DEF Drained, Alive
<1>4. Undisturbed' => Undisturbed
  BY <1>1 DEF Undisturbed
<1>5. ~JoinTimesOut
  <2> SUFFICES ASSUME JoinTimesOut PROVE FALSE
    OBVIOUS
  <2>1. PICK u \in Streams : Alive(u) /\ Stuck(u)
    BY DEF JoinTimesOut
  <2>2. git \in Ended
    BY DEF Accounted, Ordered, JoinTimesOut
  <2> QED  BY <2>1, <2>2 DEF Complete, Stuck, Writers, Ended
<1>6. Reading /\ Undisturbed' => Reading'
  <2> SUFFICES ASSUME Reading, Undisturbed' PROVE Reading'
    OBVIOUS
  <2>1. CASE open' = open
    BY <1>1, <2>1 DEF Reading, Alive
  <2>2. CASE Check
    BY <1>1, <1>4, <2>1, <2>2 DEF Check, Undisturbed
  <2>3. ASSUME NEW s \in Streams, Close(s) PROVE Reading'
    <3>1. NoneAlive
      BY <1>4, <2>3 DEF Complete, Undisturbed, Close, Closing
    <3> QED  BY <1>1, <3>1 DEF NoneAlive, Reading, Alive
  <2> QED
    BY <1>5, <2>1, <2>2, <2>3 DEF Caller, Waited, WaitTimesOut, Joined, Return
<1>7. ~timedOut' /\ Closing' => NoneAlive'
  <2> SUFFICES ASSUME ~timedOut', Closing' PROVE NoneAlive
    BY <1>2
  <2>1. CASE Closing
    BY <1>1, <2>1 DEF Complete
  <2>2. CASE Joined
    BY <2>2 DEF Joined, NoneAlive
  <2>3. CASE Waited \/ WaitTimesOut \/ Check
    BY <2>3 DEF Waited, WaitTimesOut, Check, Closing
  <2>4. CASE (\E s \in Streams : Close(s)) \/ Return
    BY <2>1, <2>4 DEF Close, Return, Closing
  <2> QED  BY <1>5, <2>2, <2>3, <2>4 DEF Caller
<1>8. outcome' = "ok" => Undisturbed' /\ Closing'
  <2>1. CASE Return
    BY <2>1 DEF Return, Undisturbed, Closing, readerVars
  <2>2. CASE ~Return
    <3>1. outcome' = outcome
      BY <2>2 DEF Caller, Waited, WaitTimesOut, Check, Joined, JoinTimesOut, Close
    <3>2. outcome = "ok" => pc = "done"
      BY DEF Accounted, Ordered
    <3> QED
      BY <2>2, <3>1, <3>2
      DEF Caller, Waited, WaitTimesOut, Check, Joined, JoinTimesOut, Close
  <2> QED  BY <2>1, <2>2
<1> QED  BY <1>1, <1>2, <1>3, <1>4, <1>6, <1>7, <1>8 DEF Complete

\* A capture that succeeds has the whole output, if git leaves no process
\* behind: bytes over the limit and bytes lost to a closed pipe are errors.
THEOREM SuccessIsWhole == Spec => []NeverTruncatedAlone
<1>1. Accounted /\ (~forks => Complete) /\ [Next]_<<forks, vars>> => (~forks => Complete)'
  <2> SUFFICES ASSUME Accounted, ~forks, Complete, [Next]_<<forks, vars>> PROVE Complete'
    BY DEF Next
  <2>1. CASE Git
    BY <2>1, WriteComplete, WorldComplete DEF Git
  <2>2. CASE Helper
    BY <2>2, WorldComplete DEF Helper
  <2>3. CASE Ends
    BY <2>3, WorldComplete
  <2>4. CASE \E s \in Streams : Read(s)
    BY <2>4, RawReadComplete, ReadComplete, HandleComplete DEF Read
  <2>5. CASE Caller
    BY <2>5, CallerComplete
  <2>6. CASE UNCHANGED vars
    BY <2>6 DEF Complete, Undisturbed, Conserved, Within, Reading, Drained,
       NoneAlive, Closing, Alive, vars, processVars, readerVars
  <2> QED  BY <2>1, <2>2, <2>3, <2>4, <2>5, <2>6 DEF Next
<1>2. Accounted /\ (~forks => Complete) => NeverTruncatedAlone
  <2> SUFFICES ASSUME Accounted, Complete, outcome = "ok", NEW s \in Streams
               PROVE  written[s] <= kept[s]
    BY DEF NeverTruncated, NeverTruncatedAlone
  <2>1. Undisturbed /\ NoneAlive
    BY DEF Complete, Undisturbed
  <2>2. written[s] = piped[s] + part[s] + size[s] /\ piped[s] = 0 /\ part[s] = 0
    BY <2>1 DEF Complete, Conserved, Drained, NoneAlive
  <2>3. size[s] <= Limit[s] /\ kept[s] = Keep(s, size[s])
    BY <2>1 DEF Complete, Within, Accounted, Counted
  <2>4. kept[s] = size[s]
    BY <2>3, LimitAssumption, Counters DEF Accounted, Keep, AtMost
  <2> QED  BY <2>2, <2>4, Counters DEF Accounted
<1> QED  BY <1>1, <1>2, InitComplete, AccountedAlways, PTL DEF Spec

-----------------------------------------------------------------------------
(* The copy of the object store *)

\* What an instance takes from the library is what the library's facts are about.
LEMMA SameSets ==
  ASSUME NEW S
  PROVE  /\ Copy!IsFiniteSet(S) <=> IsFiniteSet(S)
         /\ Copy!Cardinality(S) = Cardinality(S)
         /\ Copy!IsInjective(S) <=> IsInjective(S)
         /\ Commit!IsFiniteSet(S) <=> IsFiniteSet(S)
         /\ Commit!Cardinality(S) = Cardinality(S)
<1>1. Copy!IsFiniteSet(S) <=> IsFiniteSet(S)
  BY DEF Copy!IsFiniteSet, IsFiniteSet
<1>2. Copy!Cardinality(S) = Cardinality(S)
  BY DEF Copy!Cardinality, Cardinality, Copy!IsFiniteSet, IsFiniteSet
<1>3. Copy!IsInjective(S) <=> IsInjective(S)
  BY DEF Copy!IsInjective, IsInjective
<1>4. Commit!IsFiniteSet(S) <=> IsFiniteSet(S)
  BY DEF Commit!IsFiniteSet, IsFiniteSet
<1>5. Commit!Cardinality(S) = Cardinality(S)
  BY DEF Commit!Cardinality, Cardinality, Commit!IsFiniteSet, IsFiniteSet
<1> QED
  BY <1>1, <1>2, <1>3, <1>4, <1>5

LEMMA SameTotals == ASSUME NEW w PROVE Commit!Total(w) = Total(w)
BY DEF Commit!Total, Commit!Totals, Total, Totals

Stats == [ino : Nat, ver : Nat, size : 0 .. MaxSize]

\* No inode is younger than the latest change, and no file is empty.
StoreTyped ==
  /\ file \in [Copy!Files -> Stats]
  /\ holds \in [Copy!Packs -> SUBSET Objects]
  /\ changes \in Nat
  /\ always \subseteq Copy!Stored(file, holds)
  /\ \A f \in Copy!Files : file[f] # Copy!Gone =>
       file[f].ino \in 1 .. changes + 1 /\ file[f].size >= 1

Steps == {"validate", "format", "loose", "packs", "copy packs", "open loose", "open packs",
          "read loose", "read packs", "config", "ready", "failed", "closed"}
BeingOpened == {"open loose", "open packs"}
BeingRead == {"read loose", "read packs"}
OfLoose == {"loose", "open loose", "read loose"}
OfPacks == {"copy packs", "open packs", "read packs"}

ReaderTyped ==
  /\ phase \in Steps
  /\ dirs \in Seq(Copy!Range(Dirs))
  /\ queue \in Seq(Copy!Files)
  /\ source \in Copy!Files \cup {Nobody}
  /\ before \in Stats
  /\ copied \in Seq(Nat)
  /\ entries \in 0 .. MaxEntries
  /\ bytes \in Nat /\ bytes + Len(copied) <= MaxBytes
  /\ DOMAIN snapshot \subseteq Copy!Files
  /\ source # Nobody <=> phase \in BeingOpened \cup BeingRead
  /\ phase \notin OfLoose \cup OfPacks => queue = <<>>

\* Every unit of a file has the version of its first.
OneVersion ==
  \A f \in DOMAIN snapshot :
    /\ snapshot[f] \in Seq(Nat) /\ Len(snapshot[f]) >= 1
    /\ \A i \in 1 .. Len(snapshot[f]) : snapshot[f][i] = snapshot[f][1]

\* What has been read of a file is of the version that was found at its path,
\* or the path has moved on for good and Finish will find out.
Unmoved(f) == file[f] = before /\ \A i \in 1 .. Len(copied) : copied[i] = before.ver
Moved(f) == file[f].ino # before.ino \/ file[f].ver > before.ver
Detected ==
  source # Nobody =>
    /\ before.ino \in 1 .. changes + 1 /\ before.size >= 1
    /\ Unmoved(source) \/ Moved(source)

\* File f is in the copy, or will be unless the reader raises.
Queued(f) == \E i \in 1 .. Len(queue) : queue[i] = f
Coming(f) == f \in DOMAIN snapshot \/ Queued(f) \/ source = f
Listed(d) == \A i \in 1 .. Len(dirs) : dirs[i] # d

\* An object the store has had throughout is never made loose again, so once
\* its directory has been listed it is coming, or packed for good.
LooseCovered(o) == Listed(Dir[o]) => Coming(o) \/ file[o] = Copy!Gone
PackCovered(o) ==
  \E p \in Copy!Packs : o \in holds[p] /\ \A x \in Copy!Suffixes : Coming(<<p, x>>)
Covered(o) ==
  /\ phase \in OfLoose => LooseCovered(o)
  /\ phase = "packs" => o \in DOMAIN snapshot \/ file[o] = Copy!Gone
  /\ phase \in OfPacks \cup {"config", "ready"} =>
       o \in DOMAIN snapshot \/ PackCovered(o)
NoneForgotten == \A o \in always : Covered(o)

SnapshotInv == StoreTyped /\ ReaderTyped /\ OneVersion /\ Detected /\ NoneForgotten

-----------------------------------------------------------------------------
(* The repository *)

Onlooker == <<phase, dirs, queue, source, before, copied, entries, bytes, snapshot>>

\* What one change may do to a path, as someone who has looked at it sees it.
Drift(f) ==
  \/ file'[f] = file[f]
  \/ file'[f] = Copy!Gone
  \/ file'[f].ino = changes + 2
  \/ file'[f].ino = file[f].ino /\ file'[f].ver > file[f].ver

\* A change replaces, removes or rewrites what stands at a path; what a pack
\* with something in it holds stays, and the loose file of an object that was
\* there all the time does not come back.
Drifted ==
  /\ file' \in [Copy!Files -> Stats] /\ holds' \in [Copy!Packs -> SUBSET Objects]
  /\ \A f \in Copy!Files : file'[f] # Copy!Gone =>
       file'[f].ino \in 1 .. changes + 2 /\ file'[f].size >= 1
  /\ \A f \in Copy!Files : Drift(f)
  /\ \A p \in Copy!Packs : holds[p] # {} => holds'[p] = holds[p]
  /\ \A o \in always : file[o] = Copy!Gone => file'[o] = Copy!Gone

\* The paths that may be put in place or removed.
LEMMA OnePath ==
  ASSUME CopyAssumption, StoreTyped, NEW f \in Copy!Files, NEW s \in Stats,
         s = Copy!Gone \/ (s.ino = changes + 2 /\ s.size >= 1)
                  \/ (s.ino = file[f].ino /\ s.ver > file[f].ver /\ s.size >= 1 /\ file[f] # Copy!Gone),
         s # Copy!Gone => f \notin always \/ file[f] # Copy!Gone,
         file' = [file EXCEPT ![f] = s], holds' \in [Copy!Packs -> SUBSET Objects],
         \A p \in Copy!Packs : holds[p] # {} => holds'[p] = holds[p]
  PROVE  Drifted
<1>1. file' \in [Copy!Files -> Stats]
  BY DEF StoreTyped
<1>2. \A g \in Copy!Files : file'[g] # Copy!Gone =>
        file'[g].ino \in 1 .. changes + 2 /\ file'[g].size >= 1
  BY DEF StoreTyped, Stats
<1>3. \A g \in Copy!Files : Drift(g)
  <2>1. file'[f] = s /\ \A g \in Copy!Files : g # f => file'[g] = file[g]
    BY DEF StoreTyped
  <2> QED
    BY <2>1 DEF Drift
<1>4. \A o \in always : file[o] = Copy!Gone => file'[o] = Copy!Gone
  <2>1. always \subseteq Copy!Files
    BY DEF StoreTyped, Copy!Stored, Copy!Loose, Copy!Complete, Copy!Files
  <2> QED
    BY <2>1 DEF StoreTyped
<1> QED
  BY <1>1, <1>2, <1>3, <1>4 DEF Drifted

LEMMA ChangesDrift ==
  ASSUME CopyAssumption, StoreTyped, Copy!Repository
  PROVE  /\ UNCHANGED Onlooker /\ changes' = changes + 1
         /\ always' \subseteq always /\ StoreTyped' /\ Drifted
<1>0. MaxSize \in Nat \ {0} /\ Objects \cap Copy!PackFiles = {}
  BY DEF CopyAssumption, Copy!BoundAssumption, Copy!StoreAssumption
<1>1. ASSUME NEW f, NEW h, Copy!Change(f, h)
      PROVE  /\ UNCHANGED Onlooker /\ changes' = changes + 1 /\ file' = f /\ holds' = h
             /\ always' \subseteq always /\ always' \subseteq Copy!Stored(f, h)
  BY <1>1 DEF Copy!Change, Onlooker, Copy!copying
<1>2. /\ 1 \in 0 .. MaxSize /\ 0 \in 0 .. MaxSize /\ changes \in Nat
      /\ \A n \in 1 .. MaxSize : Copy!New(n) \in Stats /\ Copy!New(n).ino = changes + 2
                               /\ Copy!New(n).size >= 1
      /\ Copy!Gone \in Stats
  BY <1>0 DEF Copy!New, Copy!Gone, Stats, StoreTyped
<1>3. \A p \in Copy!Packs, x \in Copy!Suffixes : <<p, x>> \in Copy!Files
  BY DEF Copy!Files, Copy!PackFiles
<1>4. holds \in [Copy!Packs -> SUBSET Objects] /\ file \in [Copy!Files -> Stats]
  BY DEF StoreTyped
<1>5. always \subseteq Objects /\ always \subseteq Copy!Stored(file, holds)
  BY DEF StoreTyped, Copy!Stored, Copy!Loose, Copy!Complete
<1>6. ".pack" \in Copy!Suffixes /\ ".idx" \in Copy!Suffixes
  BY DEF Copy!Suffixes
<1>7. Copy!Stored(file, holds) \subseteq Objects
  BY <1>4 DEF Copy!Stored, Copy!Loose, Copy!Complete
<1>9. /\ Copy!New(1) \in Stats /\ Copy!New(1).ino = changes + 2 /\ Copy!New(1).size >= 1
      /\ \A p \in Copy!Packs, x \in Copy!Suffixes : <<p, x>> \notin always
  BY <1>0, <1>2, <1>5 DEF Copy!PackFiles
<1>8. Drifted /\ \E f, h : Copy!Change(f, h)
  <2>1. ASSUME NEW o \in Objects, Copy!AddLoose(o) PROVE Drifted /\ \E f, h : Copy!Change(f, h)
    <3>1. PICK n \in 1 .. MaxSize : Copy!Change([file EXCEPT ![o] = Copy!New(n)], holds)
      BY <2>1 DEF Copy!AddLoose
    <3>2. o \in Copy!Files /\ o \notin always
      BY <2>1, <1>5 DEF Copy!AddLoose, Copy!Files
    <3>3. file' = [file EXCEPT ![o] = Copy!New(n)] /\ holds' = holds
      BY <3>1, <1>1
    <3>4. Drifted
      BY <3>2, <3>3, <1>2, <1>4, OnePath
    <3> QED
      BY <3>1, <3>4
  <2>2. ASSUME NEW o \in Objects, Copy!Prune(o) PROVE Drifted /\ \E f, h : Copy!Change(f, h)
    <3>1. Copy!Change([file EXCEPT ![o] = Copy!Gone], holds) /\ o \in Copy!Files
      BY <2>2 DEF Copy!Prune, Copy!Files
    <3>2. file' = [file EXCEPT ![o] = Copy!Gone] /\ holds' = holds
      BY <3>1, <1>1
    <3>3. Drifted
      BY <3>1, <3>2, <1>2, <1>4, OnePath
    <3> QED
      BY <3>1, <3>3
  <2>3. ASSUME NEW p \in Copy!Packs, Copy!WritePack(p)
        PROVE  Drifted /\ \E f, h : Copy!Change(f, h)
    <3>1. Copy!Change([file EXCEPT ![<<p, ".pack">>] = Copy!New(1)],
                 [holds EXCEPT ![p] = Copy!Stored(file, holds)]) /\ holds[p] = {}
      BY <2>3 DEF Copy!WritePack
    <3>2. /\ file' = [file EXCEPT ![<<p, ".pack">>] = Copy!New(1)]
          /\ holds' = [holds EXCEPT ![p] = Copy!Stored(file, holds)]
      BY <3>1, <1>1
    <3>3. /\ holds' \in [Copy!Packs -> SUBSET Objects]
          /\ \A q \in Copy!Packs : holds[q] # {} => holds'[q] = holds[q]
      BY <3>1, <3>2, <1>4, <1>7
    <3>4. Drifted
      BY <3>2, <3>3, <1>3, <1>6, <1>9, OnePath
    <3> QED
      BY <3>1, <3>4
  <2>4. ASSUME NEW p \in Copy!Packs, Copy!WriteIndex(p)
        PROVE  Drifted /\ \E f, h : Copy!Change(f, h)
    <3>1. Copy!Change([file EXCEPT ![<<p, ".idx">>] = Copy!New(1)], holds)
      BY <2>4 DEF Copy!WriteIndex
    <3>2. file' = [file EXCEPT ![<<p, ".idx">>] = Copy!New(1)] /\ holds' = holds
      BY <3>1, <1>1
    <3>3. Drifted
      BY <3>2, <1>3, <1>4, <1>6, <1>9, OnePath
    <3> QED
      BY <3>1, <3>3
  <2>5. ASSUME NEW p \in Copy!Packs, Copy!DropPack(p)
        PROVE  Drifted /\ \E f, h : Copy!Change(f, h)
    <3>1. PICK x \in Copy!Suffixes : Copy!Change([file EXCEPT ![<<p, x>>] = Copy!Gone], holds)
      BY <2>5, <1>6 DEF Copy!DropPack
    <3>2. file' = [file EXCEPT ![<<p, x>>] = Copy!Gone] /\ holds' = holds
      BY <3>1, <1>1
    <3>3. Drifted
      BY <3>2, <1>2, <1>3, <1>4, OnePath
    <3> QED
      BY <3>1, <3>3
  <2>6. ASSUME NEW f \in Copy!Files, Copy!Rewrite(f)
        PROVE  Drifted /\ \E g, h : Copy!Change(g, h)
    <3>1. PICK n \in file[f].size .. MaxSize :
            Copy!Change([file EXCEPT ![f] = [ino |-> @.ino, ver |-> @.ver + 1, size |-> n]], holds)
      BY <2>6 DEF Copy!Rewrite
    <3> DEFINE s == [ino |-> file[f].ino, ver |-> file[f].ver + 1, size |-> n]
    <3>2. file[f] # Copy!Gone /\ file[f].size >= 1 /\ file[f] \in Stats
      BY <2>6, <1>4 DEF Copy!Rewrite, StoreTyped
    <3>3. n >= 1 /\ n \in 0 .. MaxSize
      BY <1>0, <3>2 DEF Stats
    <3>4. s \in Stats /\ s.ino = file[f].ino /\ s.ver > file[f].ver /\ s.size >= 1
      BY <3>2, <3>3 DEF Stats
    <3>5. file' = [file EXCEPT ![f] = s] /\ holds' = holds
      BY <3>1, <1>1, <1>4
    <3> HIDE DEF s
    <3>7. Drifted
      BY <3>2, <3>4, <3>5, <1>4, OnePath
    <3> QED
      BY <3>1, <3>7
  <2> QED
    BY <2>1, <2>2, <2>3, <2>4, <2>5, <2>6 DEF Copy!Repository
<1>10. StoreTyped'
  BY <1>8, <1>1, <1>2 DEF StoreTyped, Drifted
<1> QED
  BY <1>1, <1>8, <1>10

-----------------------------------------------------------------------------
(* What the reader is told *)

\* An order of n different members of a set of n has every member.
LEMMA WholeOrder ==
  ASSUME NEW S, IsFiniteSet(S), NEW order \in [1 .. Cardinality(S) -> S],
         IsInjective(order)
  PROVE  /\ order \in Seq(S) /\ Len(order) = Cardinality(S)
         /\ \A x \in S : \E i \in 1 .. Len(order) : order[i] = x
<1>1. Cardinality(S) \in Nat
  BY FS_CardinalityType
<1>2. order \in Seq(S) /\ Len(order) = Cardinality(S)
  BY <1>1
<1>3. order \in Injection(1 .. Cardinality(S), S)
  BY DEF Injection
<1>4. Cardinality(1 .. Cardinality(S)) = Cardinality(S)
  BY <1>1, FS_Interval
<1>5. order \in Surjection(1 .. Cardinality(S), S)
  BY <1>3, <1>4, FS_Injection
<1> QED
  BY <1>2, <1>5 DEF Surjection

\* Packs in the order of their names are different packs.
LEMMA SortedDiffer ==
  ASSUME CopyAssumption, NEW n \in Nat, NEW order \in [1 .. n -> Copy!Packs], Copy!Sorted(order)
  PROVE  Copy!IsInjective(order)
<1>1. \A p \in Copy!Packs : Copy!Place(p) \in Nat
  <2> SUFFICES ASSUME NEW p \in Copy!Packs PROVE Copy!Place(p) \in Nat
    OBVIOUS
  <2>1. PackOrder \in Seq(Copy!Packs)
    BY DEF CopyAssumption, Copy!StoreAssumption
  <2>2. \E i \in DOMAIN PackOrder : PackOrder[i] = p
    BY DEF Copy!Packs, Copy!Range
  <2>3. Copy!Place(p) \in DOMAIN PackOrder
    BY <2>2 DEF Copy!Place
  <2> QED
    BY <2>1, <2>3
<1> SUFFICES ASSUME NEW i \in 1 .. n, NEW j \in 1 .. n, order[i] = order[j] PROVE i = j
  BY DEF Copy!IsInjective
<1>2. Copy!Place(order[i]) \in Nat /\ Copy!Place(order[i]) = Copy!Place(order[j])
  BY <1>1
<1>3. ~(i < j) /\ ~(j < i)
  BY <1>2 DEF Copy!Sorted
<1> QED
  BY <1>3

\* Both files of every pack that is listed are queued.
LEMMA BothFiles ==
  ASSUME NEW S \in SUBSET Copy!Packs, NEW order \in Seq(S)
  PROVE  /\ Copy!PairsOf(order) \in Seq(Copy!Files)
         /\ \A i \in 1 .. Len(order), x \in Copy!Suffixes :
              \E k \in 1 .. Len(Copy!PairsOf(order)) : Copy!PairsOf(order)[k] = <<order[i], x>>
<1> DEFINE n == Len(order)
<1>1. n \in Nat /\ \A i \in 1 .. n : order[i] \in Copy!Packs
  OBVIOUS
<1>2. \A k \in 1 .. 2 * n : (k + 1) \div 2 \in 1 .. n
  BY <1>1
<1>3. \A k \in 1 .. 2 * n : Copy!PairsOf(order)[k] \in Copy!Files
  BY <1>1, <1>2 DEF Copy!PairsOf, Copy!Files, Copy!PackFiles, Copy!Suffixes
<1>4. Copy!PairsOf(order) \in Seq(Copy!Files) /\ Len(Copy!PairsOf(order)) = 2 * n
  BY <1>1, <1>3 DEF Copy!PairsOf
<1>5. ASSUME NEW i \in 1 .. n
      PROVE  /\ 2 * i \in 1 .. 2 * n /\ 2 * i - 1 \in 1 .. 2 * n
             /\ Copy!PairsOf(order)[2 * i] = <<order[i], ".idx">>
             /\ Copy!PairsOf(order)[2 * i - 1] = <<order[i], ".pack">>
  <2>1. /\ (2 * i) % 2 = 0 /\ (2 * i - 1) % 2 = 1
        /\ (2 * i + 1) \div 2 = i /\ (2 * i - 1 + 1) \div 2 = i
        /\ 2 * i \in 1 .. 2 * n /\ 2 * i - 1 \in 1 .. 2 * n
    BY <1>1
  <2> QED
    BY <1>1, <2>1 DEF Copy!PairsOf
<1> QED
  BY <1>4, <1>5 DEF Copy!Suffixes

LEMMA PhaseOrder == Copy!Following("loose") = "packs" /\ Copy!Following("packs") = "config"
<1>1. (CHOOSE i \in DOMAIN Copy!Phases : Copy!Phases[i] = "loose") = 1
  BY DEF Copy!Phases
<1>2. (CHOOSE i \in DOMAIN Copy!Phases : Copy!Phases[i] = "packs") = 2
  BY DEF Copy!Phases
<1> QED
  BY <1>1, <1>2 DEF Copy!Following, Copy!Phases

-----------------------------------------------------------------------------
(* The invariant *)

LEMMA SnapshotInit ==
  ASSUME CopyAssumption, Copy!Init PROVE SnapshotInv
<1>1. /\ MaxSize \in Nat \ {0} /\ MaxBytes \in Nat /\ MaxEntries \in Nat /\ Nobody \notin Copy!Files
      /\ InitialPacks \in [Copy!Packs -> SUBSET Objects]
  BY DEF CopyAssumption, Copy!BoundAssumption, Copy!BudgetAssumption, Copy!StoreAssumption,
         Copy!InitialAssumption
<1>2. Copy!Gone \in Stats /\ [ino |-> 1, ver |-> 1, size |-> 1] \in Stats
  BY <1>1 DEF Copy!Gone, Stats
<1>3. StoreTyped
  BY <1>1, <1>2 DEF Copy!Init, StoreTyped
<1>4. ReaderTyped
  BY <1>1, <1>2 DEF Copy!Init, ReaderTyped, Steps, BeingOpened, BeingRead, OfLoose, OfPacks,
     Copy!NoCopy
<1>5. OneVersion /\ Detected /\ NoneForgotten
  BY DEF Copy!Init, OneVersion, Detected, NoneForgotten, Covered, OfLoose, OfPacks, Copy!NoCopy
<1> QED
  BY <1>3, <1>4, <1>5 DEF SnapshotInv

\* The reader's steps leave the store as it is.
LEMMA StoreStays ==
  ASSUME StoreTyped, UNCHANGED Copy!repository PROVE StoreTyped'
BY DEF StoreTyped, Copy!Stored, Copy!Loose, Copy!Complete, Copy!repository

LEMMA SnapshotChanges ==
  ASSUME CopyAssumption, SnapshotInv, Copy!Repository PROVE SnapshotInv'
<1> USE DEF SnapshotInv
<1>1. /\ UNCHANGED Onlooker /\ changes' = changes + 1
      /\ always' \subseteq always /\ StoreTyped' /\ Drifted
  BY ChangesDrift
<1>2. ReaderTyped' /\ OneVersion'
  BY <1>1 DEF ReaderTyped, OneVersion, Onlooker
<1>3. Detected'
  <2> SUFFICES ASSUME source # Nobody
               PROVE  /\ before.ino \in 1 .. changes' + 1 /\ before.size >= 1
                      /\ Unmoved(source)' \/ Moved(source)'
    BY <1>1 DEF Detected, Onlooker
  <2>1. source \in Copy!Files /\ Drift(source) /\ changes \in Nat
    BY <1>1 DEF ReaderTyped, Drifted, StoreTyped
  <2>2. /\ before.ino \in 1 .. changes + 1 /\ before.size >= 1
        /\ Unmoved(source) \/ Moved(source)
        /\ before \in Stats /\ file[source] \in Stats /\ file'[source] \in Stats
    BY <2>1, <1>1 DEF Detected, ReaderTyped, StoreTyped
  <2>3. UNCHANGED <<source, before, copied>>
    BY <1>1 DEF Onlooker
  <2>4. CASE file'[source] = file[source]
    <3>1. Unmoved(source) => Unmoved(source)'
      BY <2>3, <2>4 DEF Unmoved
    <3>2. Moved(source) => Moved(source)'
      BY <2>3, <2>4 DEF Moved
    <3> QED
      BY <2>1, <2>2, <3>1, <3>2, <1>1
  <2>5. CASE file'[source] = Copy!Gone \/ file'[source].ino = changes + 2
    <3>1. file'[source].ino # before.ino
      BY <2>1, <2>2, <2>5 DEF Copy!Gone
    <3> QED
      BY <2>1, <2>2, <2>3, <3>1, <1>1 DEF Moved
  <2>6. CASE file'[source].ino = file[source].ino /\ file'[source].ver > file[source].ver
    <3>1. file'[source].ino # before.ino \/ file'[source].ver > before.ver
      BY <2>2, <2>6 DEF Unmoved, Moved, Stats
    <3> QED
      BY <2>1, <2>2, <2>3, <3>1, <1>1 DEF Moved
  <2> QED
    BY <2>1, <2>4, <2>5, <2>6 DEF Drift
<1>4. NoneForgotten'
  <2> SUFFICES ASSUME NEW o \in always' PROVE Covered(o)'
    BY DEF NoneForgotten
  <2>1. o \in always /\ Covered(o) /\ (file[o] = Copy!Gone => file'[o] = Copy!Gone)
    BY <1>1 DEF NoneForgotten, Drifted
  <2>2. \A f : Coming(f)' <=> Coming(f)
    BY <1>1 DEF Coming, Queued, Onlooker
  <2>3. LooseCovered(o) => LooseCovered(o)'
    BY <2>1, <2>2, <1>1 DEF LooseCovered, Listed, Onlooker
  <2>4. PackCovered(o) => PackCovered(o)'
    BY <2>2, <1>1 DEF PackCovered, Drifted
  <2> QED
    BY <2>1, <2>3, <2>4, <1>1 DEF Covered, Onlooker
<1> QED
  BY <1>1, <1>2, <1>3, <1>4

LEMMA SnapshotRaise ==
  ASSUME CopyAssumption, SnapshotInv, Copy!Raise PROVE SnapshotInv'
<1> USE DEF SnapshotInv
<1>1. StoreTyped'
  BY StoreStays DEF Copy!Raise
<1>2. MaxSize \in Nat \ {0} /\ MaxBytes \in Nat
  BY DEF CopyAssumption, Copy!BoundAssumption, Copy!BudgetAssumption
<1>3. ReaderTyped'
  <2>1. /\ dirs' \in Seq(Copy!Range(Dirs)) /\ queue' \in Seq(Copy!Files) /\ copied' \in Seq(Nat)
        /\ Len(copied') = 0 /\ queue' = <<>>
    BY DEF Copy!Raise
  <2>2. before' \in Stats
    BY <1>2 DEF Copy!Raise, Copy!Gone, Stats
  <2>3. entries' \in 0 .. MaxEntries /\ bytes' \in Nat /\ bytes' + Len(copied') <= MaxBytes
    <3>1. bytes \in Nat /\ Len(copied) \in Nat /\ bytes + Len(copied) <= MaxBytes
      BY DEF ReaderTyped
    <3> QED
      BY <2>1, <3>1, <1>2 DEF Copy!Raise, ReaderTyped
  <2>4. DOMAIN snapshot' = {} /\ phase' = "failed" /\ source' = Nobody
    BY DEF Copy!Raise, Copy!NoCopy
  <2> QED
    BY <2>1, <2>2, <2>3, <2>4 DEF ReaderTyped, Steps, BeingOpened, BeingRead
<1>4. OneVersion' /\ Detected' /\ NoneForgotten'
  BY DEF Copy!Raise, OneVersion, Detected, NoneForgotten, Covered, OfLoose, OfPacks, Copy!NoCopy
<1> QED
  BY <1>1, <1>3, <1>4

\* A step of the reader that stays on the same side of a phase, reads on in no
\* directory and drops no file forgets nothing.
LEMMA StillCovered ==
  ASSUME StoreTyped, NoneForgotten, UNCHANGED <<Copy!repository, dirs>>,
         \A f \in Copy!Files : Coming(f) => Coming(f)', DOMAIN snapshot \subseteq DOMAIN snapshot',
         phase' \in OfLoose => phase \in OfLoose, phase' = "packs" => phase = "packs",
         phase' \in OfPacks \cup {"config", "ready"} => phase \in OfPacks \cup {"config", "ready"}
  PROVE  NoneForgotten'
<1> SUFFICES ASSUME NEW o \in always PROVE Covered(o)'
  BY DEF NoneForgotten, Copy!repository
<1>1. Covered(o)
  BY DEF NoneForgotten
<1>2. LooseCovered(o) => LooseCovered(o)'
  <2>1. o \in Copy!Files
    BY DEF StoreTyped, Copy!Stored, Copy!Loose, Copy!Complete, Copy!Files
  <2> QED
    BY <2>1 DEF LooseCovered, Listed, Copy!repository
<1>3. PackCovered(o) => PackCovered(o)'
  <2>1. \A p \in Copy!Packs, x \in Copy!Suffixes : <<p, x>> \in Copy!Files
    BY DEF Copy!Files, Copy!PackFiles
  <2> QED
    BY <2>1 DEF PackCovered, Copy!repository
<1> QED
  BY <1>1, <1>2, <1>3 DEF Covered, Copy!repository

\* The steps between the phases, with no file under way.
LEMMA SnapshotPhases ==
  ASSUME CopyAssumption, SnapshotInv,
         Copy!Validate \/ Copy!ReadFormat \/ Copy!DirectoryGone \/ Copy!PhaseDone
         \/ Copy!PacksDone \/ Copy!Configure \/ Copy!Close
  PROVE  SnapshotInv'
<1> USE DEF SnapshotInv
<1>1. CASE Copy!Raise
  BY <1>1, SnapshotRaise
<1>2. ASSUME UNCHANGED <<Copy!repository, queue, Copy!copying, entries, bytes, snapshot>>,
             dirs' \in Seq(Copy!Range(Dirs)), phase' \in Steps \ (BeingOpened \cup BeingRead),
             source = Nobody, phase' \in OfLoose \cup OfPacks \/ queue = <<>>,
             NoneForgotten'
      PROVE  SnapshotInv'
  <2>1. StoreTyped'
    BY <1>2, StoreStays
  <2>2. ReaderTyped'
    BY <1>2 DEF ReaderTyped, Copy!copying
  <2>3. OneVersion' /\ Detected'
    BY <1>2 DEF OneVersion, Detected, Copy!copying
  <2> QED
    BY <1>2, <2>1, <2>2, <2>3
<1>3. ASSUME Copy!Validate, ~Copy!Raise PROVE SnapshotInv'
  <2>1. /\ UNCHANGED <<Copy!repository, dirs, queue, Copy!copying, entries, bytes, snapshot>>
        /\ phase = "validate" /\ phase' = "format"
    BY <1>3 DEF Copy!Validate, Copy!Go
  <2>2. NoneForgotten'
    BY <2>1 DEF NoneForgotten, Covered, OfLoose, OfPacks
  <2> QED
    BY <1>2, <2>1, <2>2 DEF ReaderTyped, Steps, BeingOpened, BeingRead, OfLoose, OfPacks
<1>4. ASSUME Copy!ReadFormat, ~Copy!Raise PROVE SnapshotInv'
  <2>1. /\ UNCHANGED <<Copy!repository, queue, Copy!copying, entries, bytes, snapshot>>
        /\ phase = "format" /\ phase' = "loose" /\ dirs' = Dirs
    BY <1>4 DEF Copy!ReadFormat, Copy!Go, Copy!Phases
  <2>2. Dirs \in Seq(Copy!Range(Dirs)) /\ Dir \in [Objects -> Copy!Range(Dirs)]
    BY DEF CopyAssumption, Copy!DirAssumption
  <2>3. NoneForgotten'
    <3> SUFFICES ASSUME NEW o \in always' PROVE Covered(o)'
      BY DEF NoneForgotten
    <3>1. o \in Objects
      BY <2>1 DEF StoreTyped, Copy!Stored, Copy!Loose, Copy!Complete, Copy!repository
    <3>2. \E i \in DOMAIN Dirs : Dirs[i] = Dir[o]
      BY <2>2, <3>1 DEF Copy!Range
    <3>3. ~Listed(Dir[o])'
      BY <2>1, <2>2, <3>2 DEF Listed
    <3> QED
      BY <2>1, <3>3 DEF Covered, LooseCovered, OfLoose, OfPacks
  <2> QED
    BY <1>2, <2>1, <2>2, <2>3 DEF ReaderTyped, Steps, BeingOpened, BeingRead, OfLoose, OfPacks
<1>5. ASSUME Copy!PhaseDone PROVE SnapshotInv'
  <2>1. /\ UNCHANGED <<Copy!repository, dirs, queue, Copy!copying, entries, bytes, snapshot>>
        /\ phase = "loose" /\ phase' = "packs" /\ queue = <<>> /\ source = Nobody /\ dirs = <<>>
    BY <1>5, PhaseOrder DEF Copy!PhaseDone, Copy!Go
  <2>2. NoneForgotten'
    <3> SUFFICES ASSUME NEW o \in always PROVE o \in DOMAIN snapshot \/ file[o] = Copy!Gone
      BY <2>1 DEF NoneForgotten, Covered, OfLoose, OfPacks, Copy!repository
    <3>1. o \in Copy!Files
      BY DEF StoreTyped, Copy!Stored, Copy!Loose, Copy!Complete, Copy!Files
    <3>2. Listed(Dir[o]) /\ ~Queued(o)
      BY <2>1 DEF Listed, Queued
    <3>3. Nobody \notin Copy!Files
      BY DEF CopyAssumption, Copy!StoreAssumption
    <3> QED
      BY <2>1, <3>1, <3>2, <3>3 DEF NoneForgotten, Covered, LooseCovered, Coming, OfLoose
  <2> QED
    BY <1>2, <2>1, <2>2 DEF ReaderTyped, Steps, BeingOpened, BeingRead, OfLoose, OfPacks
<1>6. ASSUME Copy!PacksDone \/ Copy!Configure PROVE SnapshotInv'
  <2>1. /\ UNCHANGED <<Copy!repository, dirs, queue, Copy!copying, entries, bytes, snapshot>>
        /\ phase \in {"copy packs", "config"} /\ phase' \in {"config", "ready"}
        /\ queue = <<>> /\ source = Nobody
    BY <1>6, PhaseOrder DEF Copy!PacksDone, Copy!Configure, Copy!Go, ReaderTyped, OfLoose,
       OfPacks, BeingOpened,
       BeingRead
  <2>2. NoneForgotten'
    BY <2>1, StillCovered DEF OfLoose, OfPacks, Coming, Queued, Copy!copying
  <2> QED
    BY <1>2, <2>1, <2>2 DEF ReaderTyped, Steps, BeingOpened, BeingRead, OfLoose, OfPacks
<1>7. ASSUME Copy!Close PROVE SnapshotInv'
  <2>1. /\ UNCHANGED <<Copy!repository, dirs, queue, Copy!copying, entries, bytes>>
        /\ phase = "ready" /\ phase' = "closed" /\ DOMAIN snapshot' = {}
    BY <1>7 DEF Copy!Close, Copy!Go, Copy!NoCopy
  <2>2. StoreTyped'
    BY <2>1, StoreStays
  <2>3. ReaderTyped'
    BY <2>1 DEF ReaderTyped, Steps, BeingOpened, BeingRead, OfLoose, OfPacks, Copy!copying
  <2>4. OneVersion' /\ Detected' /\ NoneForgotten'
    BY <2>1 DEF OneVersion, Detected, NoneForgotten, Covered, OfLoose, OfPacks, ReaderTyped,
       BeingOpened, BeingRead, Copy!copying
  <2> QED
    BY <2>2, <2>3, <2>4
<1> QED
  BY <1>1, <1>3, <1>4, <1>5, <1>6, <1>7 DEF Copy!DirectoryGone

\* A directory is listed whole: an object that is in it is coming now.
LEMMA SnapshotDirectory ==
  ASSUME CopyAssumption, SnapshotInv, Copy!ListDirectory PROVE SnapshotInv'
<1> USE DEF SnapshotInv
<1> DEFINE here == {o \in Copy!Loose(file) : Dir[o] = Head(dirs)}
<1>1. /\ UNCHANGED <<Copy!repository, phase, Copy!copying, entries, bytes, snapshot>>
      /\ phase = "loose" /\ queue = <<>> /\ source = Nobody /\ dirs # <<>> /\ dirs' = Tail(dirs)
      /\ queue' \in [1 .. Copy!Cardinality(here) -> here] /\ Copy!IsInjective(queue')
  BY DEF Copy!ListDirectory
<1>2. Copy!IsFiniteSet(here) /\ here \subseteq Copy!Files
  <2>1. here \subseteq Objects /\ Copy!IsFiniteSet(Objects)
    BY DEF Copy!Loose, CopyAssumption, Copy!StoreAssumption
  <2> QED
    BY <2>1, FS_Subset, SameSets DEF Copy!Files
<1>3. queue' \in Seq(here) /\ \A o \in here : Queued(o)'
  <2> HIDE DEF here
  <2> QED
    BY <1>1, <1>2, WholeOrder, SameSets DEF Queued
<1>4. StoreTyped'
  BY <1>1, StoreStays
<1>5. ReaderTyped'
  <2>1. dirs' \in Seq(Copy!Range(Dirs))
    BY <1>1 DEF ReaderTyped
  <2>2. queue' \in Seq(Copy!Files)
    BY <1>2, <1>3
  <2> QED
    BY <1>1, <2>1, <2>2 DEF ReaderTyped, OfLoose, Copy!copying
<1>6. OneVersion' /\ Detected'
  BY <1>1 DEF OneVersion, Detected, Copy!copying
<1>7. NoneForgotten'
  <2> SUFFICES ASSUME NEW o \in always, Listed(Dir[o])', file[o] # Copy!Gone PROVE Coming(o)'
    BY <1>1 DEF NoneForgotten, Covered, LooseCovered, OfLoose, OfPacks, Copy!repository
  <2>1. o \in Objects
    BY DEF StoreTyped, Copy!Stored, Copy!Loose, Copy!Complete
  <2>2. CASE Dir[o] = Head(dirs)
    BY <1>3, <2>1, <2>2 DEF Coming, Copy!Loose
  <2>3. CASE Dir[o] # Head(dirs)
    <3>1. \A i \in 1 .. Len(dirs) : dirs[i] # Dir[o]
      <4> SUFFICES ASSUME NEW i \in 1 .. Len(dirs) PROVE dirs[i] # Dir[o]
        OBVIOUS
      <4>1. CASE i = 1
        BY <2>3, <4>1
      <4>2. CASE i # 1
        <5>1. /\ Len(Tail(dirs)) = Len(dirs) - 1 /\ i - 1 \in 1 .. Len(Tail(dirs))
              /\ Tail(dirs)[i - 1] = dirs[i]
          BY <1>1, <4>2 DEF ReaderTyped
        <5> QED
          BY <1>1, <5>1 DEF Listed
      <4> QED
        BY <4>1, <4>2
    <3>2. o \in DOMAIN snapshot
      <4>1. Nobody \notin Copy!Files /\ o \in Copy!Files
        BY <2>1 DEF CopyAssumption, Copy!StoreAssumption, Copy!Files
      <4> QED
        BY <1>1, <3>1, <4>1 DEF NoneForgotten, Covered, LooseCovered, Listed, Coming,
           Queued, OfLoose
    <3> QED
      BY <1>1, <3>2 DEF Coming
  <2> QED
    BY <2>2, <2>3
<1> QED
  BY <1>4, <1>5, <1>6, <1>7

\* Every pack that is whole is listed, so an object that is not loose is in one
\* that is coming.
LEMMA SnapshotPacks ==
  ASSUME CopyAssumption, SnapshotInv, Copy!ListPacks PROVE SnapshotInv'
<1> USE DEF SnapshotInv
<1>1. CASE Copy!Raise
  BY <1>1, SnapshotRaise
<1>2. CASE ~Copy!Raise
  <2>1. /\ UNCHANGED <<Copy!repository, dirs, Copy!copying, entries, bytes, snapshot>>
        /\ phase = "packs" /\ phase' = "copy packs" /\ source = Nobody
    BY <1>2 DEF Copy!ListPacks, Copy!Go
  <2>2. PICK order \in [1 .. Copy!Cardinality(Copy!Complete(file)) -> Copy!Complete(file)] :
          Copy!Sorted(order) /\ queue' = Copy!PairsOf(order)
    BY <1>2 DEF Copy!ListPacks
  <2>3. Copy!IsFiniteSet(Copy!Complete(file)) /\ Copy!Complete(file) \subseteq Copy!Packs
    <3>1. Copy!Complete(file) \subseteq Copy!Packs /\ Copy!IsFiniteSet(Copy!Packs)
      BY DEF Copy!Complete, CopyAssumption, Copy!StoreAssumption
    <3> QED
      BY <3>1, FS_Subset, SameSets
  <2>4. Copy!IsInjective(order)
    <3>1. Copy!Cardinality(Copy!Complete(file)) \in Nat
      BY <2>3, FS_CardinalityType, SameSets
    <3> QED
      BY <2>2, <2>3, <3>1, SortedDiffer
  <2>5. /\ order \in Seq(Copy!Complete(file))
        /\ \A p \in Copy!Complete(file) : \E i \in 1 .. Len(order) : order[i] = p
    BY <2>3, <2>4, WholeOrder, SameSets
  <2>6. queue' \in Seq(Copy!Files) /\ \A p \in Copy!Complete(file), x \in Copy!Suffixes : Queued(<<p, x>>)'
    <3>1. /\ queue' \in Seq(Copy!Files)
          /\ \A i \in 1 .. Len(order), x \in Copy!Suffixes :
               \E k \in 1 .. Len(queue') : queue'[k] = <<order[i], x>>
      BY <2>2, <2>3, <2>5, BothFiles
    <3> QED
      BY <2>5, <3>1 DEF Queued
  <2>7. StoreTyped'
    BY <2>1, StoreStays
  <2>8. ReaderTyped'
    BY <2>1, <2>6 DEF ReaderTyped, Steps, BeingOpened, BeingRead, OfPacks, Copy!copying
  <2>9. OneVersion' /\ Detected'
    BY <2>1 DEF OneVersion, Detected, Copy!copying
  <2>10. NoneForgotten'
    <3> SUFFICES ASSUME NEW o \in always, o \notin DOMAIN snapshot PROVE PackCovered(o)'
      BY <2>1 DEF NoneForgotten, Covered, OfLoose, OfPacks, Copy!repository
    <3>1. file[o] = Copy!Gone /\ o \in Copy!Stored(file, holds)
      BY <2>1 DEF NoneForgotten, Covered, StoreTyped
    <3>2. PICK p \in Copy!Complete(file) : o \in holds[p]
      BY <3>1 DEF Copy!Stored, Copy!Loose
    <3>3. p \in Copy!Packs /\ holds' = holds
      BY <2>1, <2>3 DEF Copy!repository
    <3> QED
      BY <2>6, <3>2, <3>3 DEF PackCovered, Coming
  <2> QED
    BY <2>7, <2>8, <2>9, <2>10
<1> QED
  BY <1>1, <1>2

\* The next file is under way, and was found as it is now.
LEMMA SnapshotStat ==
  ASSUME CopyAssumption, SnapshotInv, Copy!Stat PROVE SnapshotInv'
<1> USE DEF SnapshotInv
<1>1. CASE Copy!Raise
  BY <1>1, SnapshotRaise
<1>2. CASE ~Copy!Raise
  <2>1. /\ UNCHANGED <<Copy!repository, dirs, bytes, snapshot>>
        /\ source = Nobody /\ ~Copy!TooMany(entries + 1) /\ entries' = entries + 1
        /\ phase' = IF phase = "loose" THEN "open loose" ELSE "open packs"
        /\ copied' = <<>> /\ before' = file[source'] /\ file[source'] # Copy!Gone
    BY <1>2 DEF Copy!Stat
  <2>2. queue # <<>> /\ source' = Head(queue) /\ queue' = Tail(queue)
    BY <1>2 DEF Copy!Stat
  <2>9. /\ queue \in Seq(Copy!Files) /\ Len(queue) \in Nat \ {0}
        /\ source' \in Copy!Files /\ queue' \in Seq(Copy!Files) /\ source' = queue[1]
        /\ \A i \in 2 .. Len(queue) : i - 1 \in 1 .. Len(queue') /\ queue'[i - 1] = queue[i]
    <3>1. queue \in Seq(Copy!Files)
      BY DEF ReaderTyped
    <3>2. Len(queue) \in Nat \ {0}
      BY <2>2, <3>1, EmptySeq
    <3> HIDE DEF SnapshotInv
    <3> QED
      BY <2>2, <3>1, <3>2
  <2>3. phase \in {"loose", "copy packs"}
    BY <2>1, <2>2 DEF ReaderTyped, OfLoose, OfPacks, BeingOpened, BeingRead
  <2>4. StoreTyped' /\ source' # Nobody
    BY <2>1, <2>9, StoreStays DEF CopyAssumption, Copy!StoreAssumption
  <2>5. ReaderTyped'
    <3>1. entries' \in 0 .. MaxEntries
      <4>1. entries \in 0 .. MaxEntries /\ MaxEntries \in Nat
        BY DEF ReaderTyped, CopyAssumption, Copy!BudgetAssumption
      <4>2. entries' = entries + 1 /\ ~(entries + 1 > MaxEntries)
        BY <2>1 DEF Copy!TooMany
      <4> QED
        BY <4>1, <4>2
    <3>2. before' \in Stats
      BY <2>1, <2>9 DEF StoreTyped
    <3>3. copied' \in Seq(Nat) /\ bytes' + Len(copied') <= MaxBytes
      <4>1. bytes \in Nat /\ Len(copied) \in Nat /\ bytes + Len(copied) <= MaxBytes /\ MaxBytes \in Nat
        BY DEF ReaderTyped, CopyAssumption, Copy!BudgetAssumption
      <4>2. copied' \in Seq(Nat) /\ Len(copied') = 0 /\ bytes' = bytes
        BY <2>1, EmptySeq
      <4> QED
        BY <4>1, <4>2
    <3> QED
      BY <2>1, <2>3, <2>4, <2>9, <3>1, <3>2, <3>3
         DEF ReaderTyped, Steps, BeingOpened, BeingRead, OfLoose, OfPacks
  <2>6. OneVersion'
    BY <2>1 DEF OneVersion
  <2>7. Detected'
    <3>1. /\ file'[source'] = before' /\ copied' = <<>> /\ changes' = changes
          /\ before'.ino \in 1 .. changes + 1 /\ before'.size >= 1
      BY <2>1, <2>9 DEF StoreTyped, Copy!repository
    <3> QED
      BY <3>1 DEF Detected, Unmoved
  <2>8. NoneForgotten'
    <3>1. ASSUME NEW g \in Copy!Files, Coming(g) PROVE Coming(g)'
      <4>1. CASE g \in DOMAIN snapshot
        BY <4>1, <2>1 DEF Coming
      <4>2. source # g
        BY <2>1 DEF CopyAssumption, Copy!StoreAssumption
      <4>3. CASE Queued(g)
        <5>1. PICK i \in 1 .. Len(queue) : queue[i] = g
          BY <4>3 DEF Queued
        <5>2. CASE i = 1
          BY <5>1, <5>2, <2>9 DEF Coming
        <5>3. CASE i # 1
          BY <5>1, <5>3, <2>9 DEF Coming, Queued
        <5> QED
          BY <5>2, <5>3
      <4> QED
        BY <3>1, <4>1, <4>2, <4>3 DEF Coming
    <3> QED
      BY <3>1, <2>1, <2>3, StillCovered DEF OfLoose, OfPacks
  <2> QED
    BY <2>4, <2>5, <2>6, <2>7, <2>8
<1> QED
  BY <1>1, <1>2

\* What the descriptor gives is of the version that was found, unless the path
\* has moved on since.
LEMMA SnapshotCopies ==
  ASSUME CopyAssumption, SnapshotInv, Copy!Open \/ Copy!ReadUnit PROVE SnapshotInv'
<1> USE DEF SnapshotInv
<1>1. CASE Copy!Raise
  BY <1>1, SnapshotRaise
<1>2. CASE ~Copy!Raise
  <2>1. /\ UNCHANGED <<Copy!repository, dirs, queue, source, before, entries, bytes, snapshot>>
        /\ \/ copied' = copied /\ phase = "open loose" /\ phase' = "read loose"
           \/ copied' = copied /\ phase = "open packs" /\ phase' = "read packs"
           \/ phase \in BeingRead /\ phase' = phase
    BY <1>2 DEF Copy!Open, Copy!ReadUnit, BeingRead, Copy!copying
  <2>2. copied' = copied \/ (copied' = Append(copied, Copy!Opened.ver) /\ ~Copy!OverBudget(Len(copied) + 1))
    BY <1>2 DEF Copy!Open, Copy!ReadUnit, Copy!copying
  <2>3. source \in Copy!Files /\ file[source] \in Stats /\ before \in Stats /\ source # Nobody
    BY <2>1 DEF ReaderTyped, StoreTyped, BeingOpened, BeingRead
  <2>4. copied \in Seq(Nat) /\ Copy!Opened.ver \in Nat /\ MaxBytes \in Nat /\ bytes \in Nat
        /\ bytes + Len(copied) <= MaxBytes
    BY <2>3 DEF ReaderTyped, Copy!Opened, Stats, CopyAssumption, Copy!BudgetAssumption
  <2>5. copied' \in Seq(Nat) /\ bytes + Len(copied') <= MaxBytes
    <3>1. CASE copied' = copied
      BY <3>1, <2>4
    <3>2. CASE copied' = Append(copied, Copy!Opened.ver) /\ ~Copy!OverBudget(Len(copied) + 1)
      <4>1. copied' \in Seq(Nat) /\ Len(copied') = Len(copied) + 1 /\ Len(copied) \in Nat
        BY <3>2, <2>4, AppendProperties, LenProperties
      <4> QED
        BY <4>1, <3>2, <2>4 DEF Copy!OverBudget
    <3> QED
      BY <2>2, <3>1, <3>2
  <2>6. StoreTyped'
    BY <2>1, StoreStays
  <2>7. ReaderTyped'
    BY <2>1, <2>5 DEF ReaderTyped, Steps, BeingOpened, BeingRead, OfLoose, OfPacks
  <2>8. OneVersion'
    BY <2>1 DEF OneVersion
  <2>9. Detected'
    <3>1. CASE Moved(source)
      BY <2>1, <2>3, <3>1 DEF Detected, Moved, Copy!repository
    <3>2. CASE Unmoved(source)
      <4>1. Copy!Opened = before
        BY <3>2 DEF Copy!Opened, Unmoved
      <4>2. \A i \in 1 .. Len(copied') : copied'[i] = before.ver
        <5>1. CASE copied' = copied
          BY <5>1, <3>2 DEF Unmoved
        <5>2. CASE copied' = Append(copied, before.ver)
          <6>1. /\ Len(copied') = Len(copied) + 1 /\ Len(copied) \in Nat
                /\ copied'[Len(copied) + 1] = before.ver
                /\ \A i \in 1 .. Len(copied) : copied'[i] = copied[i]
            <7>1. before.ver \in Nat
              BY <2>3 DEF Stats
            <7> QED
              BY <5>2, <7>1, <2>4, AppendProperties, LenProperties
          <6> QED
            BY <6>1, <3>2 DEF Unmoved
        <5> QED
          BY <2>2, <4>1, <5>1, <5>2
      <4> QED
        BY <4>2, <3>2, <2>1, <2>3 DEF Detected, Unmoved, Copy!repository
    <3> QED
      BY <2>3, <3>1, <3>2 DEF Detected
  <2>10. NoneForgotten'
    <3>1. \A f : Coming(f) => Coming(f)'
      BY <2>1 DEF Coming, Queued
    <3> QED
      BY <2>1, <3>1, StillCovered DEF OfLoose, OfPacks, BeingRead
  <2> QED
    BY <2>6, <2>7, <2>8, <2>9, <2>10
<1> QED
  BY <1>1, <1>2

\* A copy is kept only if its path is as it was found, so that all of it has the
\* version found.
LEMMA SnapshotFinish ==
  ASSUME CopyAssumption, SnapshotInv, Copy!Finish PROVE SnapshotInv'
<1> USE DEF SnapshotInv
<1>1. CASE Copy!Raise
  BY <1>1, SnapshotRaise
<1>2. CASE ~Copy!Raise
  <2>1. /\ UNCHANGED <<Copy!repository, dirs, queue, entries>>
        /\ source' = Nobody /\ before' = Copy!Gone /\ copied' = <<>> /\ bytes' = bytes + Len(copied)
        /\ phase \in BeingRead /\ phase' = IF phase = "read loose" THEN "loose" ELSE "copy packs"
    BY <1>2 DEF Copy!Finish, BeingRead
  <2>2. /\ Len(copied) = before.size /\ file[source] = before
        /\ DOMAIN snapshot' = DOMAIN snapshot \cup {source}
        /\ snapshot'[source] = copied
        /\ \A f \in DOMAIN snapshot : f # source => snapshot'[f] = snapshot[f]
    BY <1>2 DEF Copy!Finish, Copy!SameState
  <2>3. /\ source \in Copy!Files /\ source # Nobody /\ before \in Stats /\ copied \in Seq(Nat)
        /\ bytes \in Nat /\ bytes + Len(copied) <= MaxBytes
    BY <2>1 DEF ReaderTyped, BeingOpened, BeingRead
  <2>4. StoreTyped'
    BY <2>1, StoreStays
  <2>5. ReaderTyped'
    <3>1. before' \in Stats
      <4>1. MaxSize \in Nat
        BY DEF CopyAssumption, Copy!BoundAssumption
      <4>2. Copy!Gone \in Stats
        BY <4>1 DEF Copy!Gone, Stats
      <4> QED
        BY <2>1, <4>2
    <3>2. copied' \in Seq(Nat) /\ Len(copied') = 0
      BY <2>1, EmptySeq
    <3>3. bytes' \in Nat /\ bytes' + Len(copied') <= MaxBytes
      <4>1. MaxBytes \in Nat /\ Len(copied) \in Nat
        BY <2>3, LenProperties DEF CopyAssumption, Copy!BudgetAssumption
      <4>2. bytes' = bytes + Len(copied)
        BY <2>1
      <4> QED
        BY <4>1, <4>2, <3>2, <2>3
    <3>4. DOMAIN snapshot' \subseteq Copy!Files
      BY <2>2, <2>3 DEF ReaderTyped
    <3> QED
      BY <2>1, <3>1, <3>2, <3>3, <3>4 DEF ReaderTyped, Steps, BeingOpened, BeingRead,
         OfLoose, OfPacks
  <2>6. OneVersion'
    <3>1. /\ Len(copied) >= 1 /\ \A i \in 1 .. Len(copied) : copied[i] = copied[1]
      <4>1. Unmoved(source) /\ before.size >= 1
        BY <2>2, <2>3 DEF Detected, Moved, Stats
      <4> QED
        BY <4>1, <2>2 DEF Unmoved
    <3> SUFFICES ASSUME NEW f \in DOMAIN snapshot'
                 PROVE  /\ snapshot'[f] \in Seq(Nat) /\ Len(snapshot'[f]) >= 1
                        /\ \A i \in 1 .. Len(snapshot'[f]) : snapshot'[f][i] = snapshot'[f][1]
      BY DEF OneVersion
    <3>2. CASE f = source
      BY <2>2, <2>3, <3>1, <3>2
    <3>3. CASE f # source
      BY <2>2, <3>3 DEF OneVersion
    <3> QED
      BY <3>2, <3>3
  <2>7. Detected'
    BY <2>1 DEF Detected
  <2>8. NoneForgotten'
    <3>1. \A f \in Copy!Files : Coming(f) => Coming(f)'
      BY <2>1, <2>2 DEF Coming, Queued
    <3> QED
      BY <2>1, <2>2, <3>1, StillCovered DEF OfLoose, OfPacks, BeingRead
  <2> QED
    BY <2>4, <2>5, <2>6, <2>7, <2>8
<1> QED
  BY <1>1, <1>2

\* The copy keeps its books whatever git, and what is not git, do to the store.
THEOREM SnapshotKept ==
  ASSUME CopyAssumption PROVE Copy!Spec => []SnapshotInv
<1>1. Copy!Init => SnapshotInv
  BY SnapshotInit
<1>2. SnapshotInv /\ [Copy!Next]_Copy!vars => SnapshotInv'
  <2>1. ASSUME SnapshotInv, UNCHANGED Copy!vars PROVE SnapshotInv'
    <3> USE <2>1 DEF SnapshotInv, Copy!vars, Copy!copying
    <3>1. StoreTyped'
      BY StoreStays
    <3>2. ReaderTyped' /\ OneVersion'
      BY DEF ReaderTyped, OneVersion
    <3>3. Detected'
      BY DEF Detected, Unmoved, Moved, Copy!repository
    <3>4. \A f : Coming(f) => Coming(f)'
      BY DEF Coming, Queued
    <3>5. NoneForgotten'
      BY <3>4, StillCovered
    <3> QED
      BY <3>1, <3>2, <3>3, <3>5
  <2>2. ASSUME SnapshotInv, Copy!Repository PROVE SnapshotInv'
    BY <2>2, SnapshotChanges
  <2>3. ASSUME SnapshotInv, Copy!Reader PROVE SnapshotInv'
    BY <2>3, SnapshotPhases, SnapshotDirectory, SnapshotPacks, SnapshotStat, SnapshotCopies,
       SnapshotFinish DEF Copy!Reader
  <2> QED
    BY <2>1, <2>2, <2>3 DEF Copy!Next
<1> QED
  BY <1>1, <1>2, PTL DEF Copy!Spec

-----------------------------------------------------------------------------
(* What the reader may rely on *)

\* Type correctness: every variable keeps its type, and a copied file is never
\* empty (_copy_snapshot_file, over a store that changes meanwhile).
THEOREM CopyTypesAlways ==
  ASSUME CopyAssumption PROVE Copy!Spec => []Copy!TypeOK
<1>1. SnapshotInv => Copy!TypeOK
  <2> SUFFICES ASSUME SnapshotInv PROVE Copy!TypeOK
    OBVIOUS
  <2>1. \A f \in DOMAIN snapshot : snapshot[f] # <<>>
    BY DEF SnapshotInv, OneVersion
  <2> QED
    BY <2>1 DEF SnapshotInv, StoreTyped, ReaderTyped, Copy!TypeOK, Stats, Steps
<1> QED
  BY <1>1, SnapshotKept, PTL

\* The copy never takes more than max_object_store_bytes, also of a file that
\* grows between the first lstat and the last read.
THEOREM CopyBudgetAlways ==
  ASSUME CopyAssumption PROVE Copy!Spec => []Copy!WithinBudget
<1>1. SnapshotInv => Copy!WithinBudget
  BY DEF SnapshotInv, ReaderTyped, Copy!WithinBudget, Copy!OnDisk
<1> QED
  BY <1>1, SnapshotKept, PTL

\* A file of a finished copy is what the store's file was at one moment: the
\* second lstat notices every replacement, rewrite and unlink.
THEOREM NeverTorn ==
  ASSUME CopyAssumption PROVE Copy!Spec => []Copy!NoTornFile
<1>1. SnapshotInv => Copy!NoTornFile
  <2> SUFFICES ASSUME SnapshotInv, NEW f \in DOMAIN snapshot
               PROVE  Copy!Cardinality(Copy!Range(snapshot[f])) = 1
    BY DEF Copy!NoTornFile
  <2>1. /\ snapshot[f] \in Seq(Nat) /\ Len(snapshot[f]) >= 1
        /\ \A i \in 1 .. Len(snapshot[f]) : snapshot[f][i] = snapshot[f][1]
    BY DEF SnapshotInv, OneVersion
  <2>2. Copy!Range(snapshot[f]) = {snapshot[f][1]}
    BY <2>1 DEF Copy!Range
  <2> QED
    BY <2>2, FS_Singleton, SameSets
<1> QED
  BY <1>1, SnapshotKept, PTL

\* An object the store has had throughout is in a finished copy: loose objects
\* are copied before packs are listed, and no such object is made loose again.
THEOREM NothingEverMissed ==
  ASSUME CopyAssumption PROVE Copy!Spec => []Copy!NothingMissed
<1>1. SnapshotInv => Copy!NothingMissed
  <2> SUFFICES ASSUME SnapshotInv, phase = "ready", NEW o \in always, o \notin DOMAIN snapshot
               PROVE  \E p \in Copy!Packs : /\ \A x \in Copy!Suffixes : <<p, x>> \in DOMAIN snapshot
                                       /\ o \in holds[p]
    BY DEF Copy!NothingMissed, SnapshotInv, StoreTyped, Copy!Stored, Copy!Loose, Copy!Complete
  <2>1. PackCovered(o)
    BY DEF SnapshotInv, NoneForgotten, Covered
  <2>2. \A f \in Copy!Files : Coming(f) => f \in DOMAIN snapshot
    <3>1. queue = <<>> /\ source = Nobody /\ Nobody \notin Copy!Files
      BY DEF SnapshotInv, ReaderTyped, BeingOpened, BeingRead, OfLoose, OfPacks, CopyAssumption,
         Copy!StoreAssumption
    <3> QED
      BY <3>1 DEF Coming, Queued
  <2>3. \A p \in Copy!Packs, x \in Copy!Suffixes : <<p, x>> \in Copy!Files
    BY DEF Copy!Files, Copy!PackFiles
  <2> QED
    BY <2>1, <2>2, <2>3 DEF PackCovered
<1> QED
  BY <1>1, SnapshotKept, PTL

\* All of it together: a finished copy is faithful (_snapshot_repository).
THEOREM CopyIsAlwaysFaithful ==
  ASSUME CopyAssumption PROVE Copy!Spec => []Copy!CopyIsFaithful
<1>1. Copy!TypeOK /\ Copy!WithinBudget /\ Copy!NoTornFile /\ Copy!NothingMissed => Copy!CopyIsFaithful
  BY DEF Copy!CopyIsFaithful
<1> QED
  BY <1>1, CopyTypesAlways, CopyBudgetAlways, NeverTorn, NothingEverMissed, PTL

-----------------------------------------------------------------------------
(* The snapshot of a commit *)

AllFacets == {"content", "endings", "bytes", "secret", "code", "mode", "object"}
FileInfo == [length : Nat, hidden : SUBSET AllFacets, truncated : BOOLEAN]
Fragments == [target : Commit!ToSet(Targets), symbols : SUBSET Names, length : Nat,
              whole : BOOLEAN, truncated : BOOLEAN]

DiffsTyped ==
  /\ listed \in 0 .. MaxCommitEntries /\ left \in Nat
  /\ remaining \in (0 .. MaxDiff) \cup (0 .. MaxContext)
  /\ files \in Seq(FileInfo)
  /\ left + Len(files) <= MaxFiles
  /\ stage = "entries" => files = <<>>
  /\ truncated \in BOOLEAN

ContextTyped ==
  /\ stage \in {"entries", "files", "imports", "context", "done", "failed"}
  /\ asked \subseteq Commit!ToSet(Targets) \X SUBSET Names
  /\ DOMAIN requests \subseteq Commit!ToSet(Targets)
  /\ \A t \in DOMAIN requests : requests[t] \subseteq Names
  /\ todo \subseteq DOMAIN requests
  /\ contexts \in Seq(Fragments) /\ Len(contexts) <= MaxContextFiles
  /\ ctxTruncated \in BOOLEAN

\* A request asks for all that the imports of its module do.
Asks(t, names) ==
  t \in DOMAIN requests
    /\ (requests[t] = Commit!Whole \/ (names # Commit!Whole /\ names \subseteq requests[t]))
AllRequested == \A a \in asked : Asks(a[1], a[2])

\* While nothing is flagged, a request for a file of the tree is waiting or has
\* been answered in full; when the reader is done, none waits.
Fetched(t) ==
  \E i \in 1 .. Len(contexts) :
    contexts[i].target = t /\ contexts[i].whole /\ contexts[i].symbols = requests[t]
NoneLost ==
  stage \in {"context", "done"} /\ ~ctxTruncated =>
    \A t \in DOMAIN requests \cap tree : Fetched(t) \/ (stage = "context" /\ t \in todo)

\* What a budget has left and what was taken from it are no more than it had,
\* but for a marker apiece.
DiffsBudgeted ==
  /\ Commit!Total(Commit!Lengths(files)) <= MaxDiff + Len(files)
  /\ stage \in {"entries", "files"} => Commit!Total(Commit!Lengths(files)) + remaining <= MaxDiff + Len(files)
ContextBudgeted ==
  /\ stage \in {"entries", "files", "imports"} => contexts = <<>>
  /\ Commit!Total(Commit!Lengths(contexts)) <= MaxContext + Len(contexts)
  /\ stage = "context" => Commit!Total(Commit!Lengths(contexts)) + remaining <= MaxContext + Len(contexts)
Budgeted == DiffsBudgeted /\ ContextBudgeted

\* While nothing is flagged, what has been read shows everything and what is still
\* to be read makes up the rest of what the commit has.
AllShown == ~truncated => \A i \in DOMAIN files : files[i].hidden = {}
AllListed ==
  /\ ~truncated => left + Len(files) = listed
  /\ stage \in {"imports", "context", "done"} => left = 0
DiffsWhole == AllShown /\ AllListed

CommitInv == DiffsTyped /\ ContextTyped /\ DiffsWhole /\ AllRequested /\ NoneLost

-----------------------------------------------------------------------------
(* What is counted, and what an entry shows *)

LEMMA LesserOfTwo ==
  ASSUME NEW a \in Int, NEW b \in Int
  PROVE  Commit!Min({a, b}) \in {a, b} /\ Commit!Min({a, b}) <= a /\ Commit!Min({a, b}) <= b
<1>1. \E x \in {a, b} : \A y \in {a, b} : x <= y
  BY DEF Commit!Min
<1> QED
  BY <1>1 DEF Commit!Min

Budget == (0 .. MaxDiff) \cup (0 .. MaxContext)

LEMMA RestIsLeft ==
  ASSUME CommitAssumption, remaining \in Budget, NEW n \in Nat PROVE Commit!Rest(n) \in Budget
BY DEF CommitAssumption, Commit!LimitAssumption, Budget, Commit!Rest

\* Whatever kind of change an entry is, if its rendering counts as complete it
\* shows every aspect in which the sides differ.
LEMMA CompleteShowsAll ==
  ASSUME CommitAssumption, NEW e \in Entries
  PROVE  /\ Commit!Body(e).length \in Nat /\ Commit!Facets(e) \subseteq AllFacets
         /\ Commit!Incomplete(e) \in BOOLEAN /\ Commit!Undecodable(e) \in BOOLEAN
         /\ ~Commit!Incomplete(e) /\ ~Commit!Undecodable(e) =>
              Commit!Facets(e) \subseteq
                Commit!Body(e).shows \cup (IF Commit!ModeLine(e) THEN {"mode"} ELSE {})
<1>1. e \in Commit!EntryRecords /\ Commit!Possible(e)
  BY DEF CommitAssumption, Commit!EntryAssumption
<1>2. e.text \in Nat /\ e.secret \in BOOLEAN /\ e.eol \in BOOLEAN
  BY <1>1 DEF Commit!EntryRecords
<1>3. /\ Commit!NonBlob(e) => Commit!Body(e) = [length |-> 1, shows |-> {"object"}, incomplete |-> TRUE]
      /\ ~Commit!NonBlob(e) /\ (Commit!IsBinary(e) \/ Commit!Oversized(e)) =>
           Commit!Body(e) = [length |-> 1, shows |-> {}, incomplete |-> TRUE]
      /\ ~Commit!NonBlob(e) /\ ~Commit!IsBinary(e) /\ ~Commit!Oversized(e) =>
           Commit!Body(e) = [length |-> e.text + (IF e.eol THEN 1 ELSE 0), shows |-> {"content"},
                      incomplete |-> Commit!Undecodable(e) \/ e.eol \/ e.secret]
  BY DEF Commit!Body, Commit!UnifiedDiff
<1>4. Commit!Body(e).length \in Nat /\ Commit!Facets(e) \subseteq AllFacets
  BY <1>2, <1>3 DEF Commit!Facets, AllFacets
<1>5. Commit!Incomplete(e) \in BOOLEAN /\ Commit!Undecodable(e) \in BOOLEAN
  BY <1>2, <1>3 DEF Commit!Incomplete, Commit!Undecodable
<1>6. ASSUME ~Commit!Incomplete(e), ~Commit!Undecodable(e)
      PROVE  Commit!Facets(e) \subseteq Commit!Body(e).shows \cup (IF Commit!ModeLine(e) THEN {"mode"} ELSE {})
  <2>1. ~Commit!Body(e).incomplete
    BY <1>6 DEF Commit!Incomplete
  <2>2. /\ ~Commit!NonBlob(e) /\ ~Commit!IsBinary(e) /\ ~Commit!Oversized(e) /\ ~e.eol /\ ~e.secret
        /\ Commit!Body(e).shows = {"content"}
    <3>1. ~Commit!NonBlob(e)
      BY <1>3, <2>1
    <3>2. ~Commit!IsBinary(e) /\ ~Commit!Oversized(e)
      BY <1>3, <2>1, <3>1
    <3>3. Commit!Body(e).shows = {"content"}
      BY <1>3, <3>1, <3>2
    <3>4. Commit!Body(e).incomplete = (Commit!Undecodable(e) \/ e.eol \/ e.secret)
      BY <1>3, <3>1, <3>2
    <3> QED
      BY <2>1, <3>1, <3>2, <3>3, <3>4
  <2>3. e.instruction \notin {"inline", "bare"}
    BY <1>6, <2>2 DEF Commit!Incomplete
  <2>4. e.mode => Commit!ModeLine(e)
    BY <1>1 DEF Commit!Possible, Commit!ModeLine, Commit!Sides
  <2> QED
    BY <1>6, <2>2, <2>3, <2>4 DEF Commit!Facets
<1> QED
  BY <1>4, <1>5, <1>6

-----------------------------------------------------------------------------
(* The steps *)

LEMMA CommitInit ==
  ASSUME CommitAssumption, Commit!Init PROVE CommitInv
<1>0. MaxFiles \in Nat /\ MaxDiff \in Nat /\ MaxContextFiles \in Nat
  BY DEF CommitAssumption, Commit!LimitAssumption
<1>1. DiffsTyped /\ ContextTyped
  <2>1. /\ stage = "entries" /\ listed = 0 /\ left = 0 /\ remaining = MaxDiff /\ truncated = FALSE
        /\ asked = {} /\ DOMAIN requests = {} /\ todo = {} /\ ctxTruncated = FALSE
        /\ files = <<>> /\ contexts = <<>>
    BY DEF Commit!Init
  <2>2. /\ files \in Seq(FileInfo) /\ Len(files) = 0
        /\ contexts \in Seq(Fragments) /\ Len(contexts) = 0
    BY <2>1, EmptySeq
  <2>3. DiffsTyped
    <3>1. left + Len(files) <= MaxFiles /\ remaining \in 0 .. MaxDiff
      BY <1>0, <2>1, <2>2
    <3>2. listed \in 0 .. MaxCommitEntries
      BY <2>1 DEF CommitAssumption, Commit!LimitAssumption
    <3> QED
      BY <2>1, <2>2, <3>1, <3>2 DEF DiffsTyped
  <2>4. ContextTyped
    <3>1. Len(contexts) <= MaxContextFiles
      BY <1>0, <2>2
    <3> QED
      BY <2>1, <2>2, <3>1 DEF ContextTyped
  <2> QED
    BY <2>3, <2>4
<1>2. DiffsWhole /\ AllRequested /\ NoneLost
  BY DEF Commit!Init, DiffsWhole, AllShown, AllListed, AllRequested, NoneLost
<1> QED
  BY <1>1, <1>2 DEF CommitInv

\* The steps that only change where the reader is.
LEMMA CommitMoves ==
  ASSUME CommitInv, Commit!GitFails \/ Commit!FilesRead \/ Commit!FileDone \/ UNCHANGED Commit!vars PROVE CommitInv'
<1> USE DEF CommitInv
<1>1. /\ UNCHANGED <<Commit!diffVars, asked, requests, tree, todo, contexts, ctxTruncated>>
      /\ stage' = stage \/ stage' \in {"failed", "imports"}
  BY DEF Commit!GitFails, Commit!FilesRead, Commit!FileDone, Commit!vars, Commit!contextVars
<1>2. DiffsTyped' /\ ContextTyped'
  BY <1>1 DEF DiffsTyped, ContextTyped, Commit!diffVars
<1>3. DiffsWhole' /\ AllRequested'
  <2>1. stage' \in {"imports", "context", "done"} => left = 0
    BY DEF DiffsWhole, AllListed, Commit!GitFails, Commit!FilesRead, Commit!FileDone,
       Commit!vars
  <2> QED
    BY <1>1, <2>1 DEF DiffsWhole, AllShown, AllListed, AllRequested, Asks, Commit!diffVars
<1>4. NoneLost'
  BY <1>1 DEF NoneLost, Fetched
<1> QED
  BY <1>2, <1>3, <1>4

LEMMA CommitLists ==
  ASSUME CommitAssumption, CommitInv, Commit!ListEntries PROVE CommitInv'
<1> USE DEF CommitInv
<1>1. PICK n \in 0 .. MaxCommitEntries :
        left' = Commit!LookedAt(n) /\ truncated' = (n > MaxFiles) /\ listed' = n
  BY DEF Commit!ListEntries, Commit!TooMany
<1>2. /\ UNCHANGED <<remaining, files, Commit!contextVars>> /\ files = <<>> /\ stage' = "files"
      /\ MaxFiles \in Nat /\ n \in Nat
  BY DEF Commit!ListEntries, DiffsTyped, CommitAssumption, Commit!LimitAssumption
<1>3. left' \in Nat /\ left' <= MaxFiles /\ (n <= MaxFiles => left' = n)
  <2>1. Commit!Min({n, MaxFiles}) \in {n, MaxFiles} /\ Commit!Min({n, MaxFiles}) <= MaxFiles
    BY <1>2, LesserOfTwo
  <2>2. Commit!Min({n, MaxFiles}) <= n /\ n <= MaxFiles => Commit!Min({n, MaxFiles}) = n
    BY <1>2, <2>1
  <2> QED
    BY <1>1, <1>2, <2>1, <2>2, LesserOfTwo DEF Commit!LookedAt
<1>4. DiffsTyped'
  BY <1>1, <1>2, <1>3 DEF DiffsTyped
<1>5. ContextTyped'
  BY <1>2 DEF ContextTyped, Commit!contextVars
<1>6. AllRequested' /\ NoneLost'
  BY <1>2 DEF AllRequested, Asks, NoneLost, Commit!contextVars
<1>7. DiffsWhole'
  <2>1. Len(files') = 0
    BY <1>2
  <2> QED
    <3>1. AllShown'
      BY <1>2 DEF AllShown
    <3>2. ASSUME ~truncated' PROVE left' = listed'
      <4>1. ~(n > MaxFiles)
        BY <1>1, <3>2
      <4>2. n <= MaxFiles
        BY <1>2, <4>1
      <4> QED
        BY <1>1, <1>3, <4>2
    <3>3. AllListed'
      BY <1>2, <1>3, <2>1, <3>2 DEF AllListed
    <3> QED
      BY <3>1, <3>3 DEF DiffsWhole
<1> QED
  BY <1>4, <1>5, <1>6, <1>7

\* An entry whose rendering is cut, or does not show everything, raises the flag.
LEMMA CommitReads ==
  ASSUME CommitAssumption, CommitInv, NEW e \in Entries, Commit!ReadEntry(e) PROVE CommitInv'
<1> USE DEF CommitInv
<1> DEFINE mode == IF Commit!ModeLine(e) THEN {"mode"} ELSE {}
           length == Commit!Body(e).length + (IF Commit!ModeLine(e) THEN 1 ELSE 0)
           cut == length > remaining
           taken == IF cut THEN remaining + 1 ELSE length
           flag == Commit!Incomplete(e) \/ cut \/ Commit!Undecodable(e)
           hidden == Commit!Facets(e) \ (IF cut THEN {} ELSE Commit!Body(e).shows \cup mode)
           info == [length |-> taken, hidden |-> hidden, truncated |-> flag]
<1>1. /\ UNCHANGED <<stage, listed, asked, requests, tree, todo, contexts, ctxTruncated>>
      /\ stage = "files" /\ left > 0 /\ left' = left - 1
      /\ files' = Append(files, info) /\ remaining' = Commit!Rest(taken)
      /\ truncated' = (truncated \/ flag)
  BY DEF Commit!ReadEntry
<1>2. remaining \in Budget /\ remaining \in Nat
  BY DEF DiffsTyped, Budget, CommitAssumption, Commit!LimitAssumption
<1>3. taken \in Nat /\ flag \in BOOLEAN /\ hidden \in SUBSET AllFacets
  BY <1>2, CompleteShowsAll
<1>4. ~flag => hidden = {}
  BY CompleteShowsAll
<1>5. /\ info \in FileInfo /\ info.hidden = hidden
  BY <1>3 DEF FileInfo
<1> HIDE DEF info, flag, taken, hidden
<1>6. /\ files \in Seq(FileInfo) /\ files' \in Seq(FileInfo) /\ Len(files') = Len(files) + 1
      /\ \A i \in 1 .. Len(files) : files'[i] = files[i]
      /\ files'[Len(files) + 1] = info /\ Len(files) \in Nat
  BY <1>1, <1>5, AppendProperties, LenProperties DEF DiffsTyped
<1>7. DiffsTyped'
  <2>1. remaining' \in Budget
    BY <1>1, <1>2, <1>3, RestIsLeft
  <2>2. left' \in Nat /\ left' + Len(files') <= MaxFiles
    <3>1. left \in Nat /\ left + Len(files) <= MaxFiles /\ left > 0 /\ left' = left - 1
          /\ MaxFiles \in Nat
      BY <1>1 DEF DiffsTyped, CommitAssumption, Commit!LimitAssumption
    <3> QED
      BY <3>1, <1>6
  <2> QED
    BY <1>1, <1>3, <1>6, <2>1, <2>2 DEF DiffsTyped, Budget
<1>8. ContextTyped' /\ AllRequested' /\ NoneLost'
  BY <1>1 DEF ContextTyped, AllRequested, Asks, NoneLost
<1>9. AllShown'
  <2> SUFFICES ASSUME ~truncated', NEW i \in DOMAIN files' PROVE files'[i].hidden = {}
    BY DEF AllShown
  <2>1. ~truncated /\ ~flag
    BY <1>1, <1>3 DEF DiffsTyped
  <2>2. i \in 1 .. Len(files) + 1 /\ \A j \in 1 .. Len(files) : files[j].hidden = {}
    BY <2>1, <1>6 DEF DiffsWhole, AllShown
  <2> QED
    BY <2>1, <2>2, <1>4, <1>5, <1>6
<1>10. AllListed'
  <2>1. left \in Nat /\ (~truncated => left + Len(files) = listed)
    BY DEF DiffsTyped, DiffsWhole, AllListed
  <2>2. ~truncated' => ~truncated
    BY <1>1
  <2> QED
    BY <1>1, <1>6, <2>1, <2>2 DEF AllListed
<1> QED
  BY <1>7, <1>8, <1>9, <1>10 DEF DiffsWhole

\* A request that already asks for the whole module goes on doing so.
LEMMA CommitImports ==
  ASSUME CommitInv, NEW t \in Commit!ToSet(Targets), NEW names \in SUBSET Names,
         Commit!Import(t, names)
  PROVE  CommitInv'
<1> USE DEF CommitInv
<1>1. /\ UNCHANGED <<stage, Commit!diffVars, tree, todo, contexts, ctxTruncated>>
      /\ stage = "imports" /\ asked' = asked \cup {<<t, names>>}
  BY DEF Commit!Import
<1>2. DiffsTyped' /\ DiffsWhole' /\ NoneLost'
  BY <1>1 DEF DiffsTyped, DiffsWhole, AllShown, AllListed, NoneLost, Commit!diffVars
<1>3. /\ DOMAIN requests' = DOMAIN requests \cup {t}
      /\ \A u \in DOMAIN requests : u # t => requests'[u] = requests[u]
      /\ requests'[t] = IF t \in DOMAIN requests THEN Commit!Merged(requests[t], names) ELSE names
  BY DEF Commit!Import
<1>4. requests'[t] \subseteq Names
  BY <1>3 DEF Commit!Merged, Commit!Whole, ContextTyped
<1>5. ContextTyped'
  BY <1>1, <1>3, <1>4 DEF ContextTyped
<1>6. AllRequested'
  <2> SUFFICES ASSUME NEW a \in asked' PROVE Asks(a[1], a[2])'
    BY DEF AllRequested
  <2>1. CASE a = <<t, names>>
    BY <1>3, <2>1 DEF Asks, Commit!Merged, Commit!Whole
  <2>2. CASE a \in asked
    <3>1. Asks(a[1], a[2])
      BY <2>2 DEF AllRequested
    <3>2. CASE a[1] = t
      BY <1>3, <3>1, <3>2 DEF Asks, Commit!Merged, Commit!Whole
    <3>3. CASE a[1] # t
      BY <1>3, <3>1, <3>3 DEF Asks
    <3> QED
      BY <3>2, <3>3
  <2> QED
    BY <1>1, <2>1, <2>2
<1> QED
  BY <1>2, <1>5, <1>6

LEMMA FiniteTargets == ASSUME CommitAssumption PROVE Commit!IsFiniteSet(Commit!ToSet(Targets))
<1>1. Targets \in Seq(Commit!ToSet(Targets)) /\ Commit!ToSet(Targets) = {Targets[i] : i \in DOMAIN Targets}
  BY DEF CommitAssumption, Commit!LimitAssumption, Commit!ToSet
<1>2. Targets \in Surjection(1 .. Len(Targets), Commit!ToSet(Targets))
  <2>1. Targets \in [1 .. Len(Targets) -> Commit!ToSet(Targets)]
    BY <1>1, LenProperties
  <2>2. \A t \in Commit!ToSet(Targets) : \E i \in 1 .. Len(Targets) : Targets[i] = t
    BY <1>1, <2>1
  <2> QED
    BY <2>1, <2>2 DEF Surjection
<1>3. Commit!IsFiniteSet(1 .. Len(Targets))
  BY <1>1, FS_Interval, LenProperties, SameSets
<1> QED
  BY <1>2, <1>3, FS_Surjection, SameSets

LEMMA CommitTree ==
  ASSUME CommitAssumption, CommitInv, Commit!ListTree PROVE CommitInv'
<1> USE DEF CommitInv
<1>1. /\ UNCHANGED <<listed, left, files, truncated, python, asked, requests, tree, contexts>>
      /\ stage = "imports" /\ stage' \in {"done", "context"}
  BY DEF Commit!ListTree
<1>2. \/ /\ todo' = todo /\ remaining' = remaining /\ stage' = "done"
         /\ DOMAIN requests = {} /\ ctxTruncated' = ctxTruncated
      \/ /\ todo' = todo /\ remaining' = remaining /\ stage' = "done" /\ ctxTruncated' = TRUE
      \/ /\ todo' = DOMAIN requests \cap tree /\ remaining' = MaxContext /\ stage' = "context"
         /\ ctxTruncated' = (Commit!Cardinality(todo') > MaxContextFiles)
  BY DEF Commit!ListTree
<1>3. remaining' \in Budget
  BY <1>2 DEF DiffsTyped, Budget, CommitAssumption, Commit!LimitAssumption
<1>4. DiffsTyped'
  BY <1>1, <1>3 DEF DiffsTyped, Budget
<1>5. ContextTyped'
  <2>1. ctxTruncated' \in BOOLEAN
    <3>1. CASE todo' = DOMAIN requests \cap tree
      <4>1. todo' \in SUBSET Commit!ToSet(Targets)
        BY <3>1 DEF ContextTyped
      <4>2. Commit!Cardinality(todo') \in Nat
        BY <4>1, FiniteTargets, FS_Subset, FS_CardinalityType, SameSets
      <4>3. MaxContextFiles \in Nat
        BY DEF CommitAssumption, Commit!LimitAssumption
      <4>4. \A n \in Nat : (n > MaxContextFiles) \in BOOLEAN
        BY <4>3
      <4>5. \/ ctxTruncated' = (Commit!Cardinality(todo') > MaxContextFiles)
            \/ ctxTruncated' = TRUE \/ ctxTruncated' = ctxTruncated
        BY <1>2
      <4> QED
        BY <4>2, <4>4, <4>5, Zenon DEF ContextTyped
    <3> QED
      BY <1>2, <3>1 DEF ContextTyped
  <2>2. todo' \subseteq DOMAIN requests
    BY <1>2 DEF ContextTyped
  <2> QED
    BY <1>1, <1>2, <2>1, <2>2 DEF ContextTyped
<1>6. DiffsWhole' /\ AllRequested'
  BY <1>1 DEF DiffsWhole, AllShown, AllListed, AllRequested, Asks
<1>7. NoneLost'
  BY <1>1, <1>2 DEF NoneLost
<1> QED
  BY <1>4, <1>5, <1>6, <1>7

\* A request that is passed over, answered in part or left waiting raises the
\* flag.
LEMMA CommitContext ==
  ASSUME CommitAssumption, CommitInv,
         \/ Commit!ContextDone
         \/ \E t \in todo :
              \/ Commit!Unusable(t)
              \/ \E defined \in SUBSET Names, length \in 1 .. 2, clean \in BOOLEAN :
                   Commit!Fragment(t, defined, length, clean)
  PROVE  CommitInv'
<1> USE DEF CommitInv
<1>1. /\ UNCHANGED <<listed, left, files, truncated, asked, requests, tree>>
      /\ stage = "context"
  BY DEF Commit!ContextDone, Commit!Unusable, Commit!Fragment, Commit!More, Commit!diffVars
<1>2. DiffsWhole' /\ AllRequested'
  BY <1>1 DEF DiffsWhole, AllShown, AllListed, AllRequested, Asks
<1>3. CASE Commit!ContextDone
  <2>1. /\ UNCHANGED <<remaining, todo, contexts>> /\ stage' = "done"
        /\ (ctxTruncated' = ctxTruncated /\ todo = {}) \/ ctxTruncated' = TRUE
    BY <1>3 DEF Commit!ContextDone, Commit!diffVars
  <2>2. DiffsTyped' /\ ContextTyped'
    BY <1>1, <2>1 DEF DiffsTyped, ContextTyped
  <2>3. NoneLost'
    BY <1>1, <2>1 DEF NoneLost, Fetched
  <2> QED
    BY <1>2, <2>2, <2>3
<1>4. ASSUME NEW t \in todo, Commit!Unusable(t) PROVE CommitInv'
  <2>1. /\ UNCHANGED <<stage, remaining, contexts>> /\ todo' = todo \ {t} /\ ctxTruncated' = TRUE
    BY <1>4 DEF Commit!Unusable, Commit!diffVars
  <2>2. DiffsTyped' /\ ContextTyped' /\ NoneLost'
    BY <1>1, <2>1 DEF DiffsTyped, ContextTyped, NoneLost
  <2> QED
    BY <1>2, <2>2
<1>5. ASSUME NEW t \in todo, NEW defined \in SUBSET Names, NEW length \in 1 .. 2,
             NEW clean \in BOOLEAN, Commit!Fragment(t, defined, length, clean)
      PROVE  CommitInv'
  <2> DEFINE symbols == requests[t]
             whole == length <= remaining /\ clean /\ symbols \subseteq defined
             cut == length > remaining \/ Commit!Short(symbols, defined) \/ ~clean
             taken == Commit!Min({length, remaining}) + (IF cut THEN 1 ELSE 0)
             fragment == [target |-> t, symbols |-> symbols, length |-> taken,
                          whole |-> whole, truncated |-> cut]
  <2>1. /\ stage' = stage /\ Len(contexts) < MaxContextFiles
        /\ contexts' = Append(contexts, fragment) /\ remaining' = Commit!Rest(taken)
        /\ ctxTruncated' = (ctxTruncated \/ cut) /\ todo' = todo \ {t}
    BY <1>5 DEF Commit!Fragment, Commit!More
  <2>2. remaining \in Budget /\ remaining \in Nat
    BY DEF DiffsTyped, Budget, CommitAssumption, Commit!LimitAssumption
  <2>3. taken \in Nat /\ cut \in BOOLEAN /\ whole \in BOOLEAN /\ (~cut => whole)
    <3>1. Commit!Min({length, remaining}) \in {length, remaining}
      <4>1. length \in Int /\ remaining \in Int
        BY <2>2
      <4> QED
        BY <4>1, LesserOfTwo
    <3> QED
      BY <2>2, <3>1 DEF Commit!Short
  <2>4. t \in DOMAIN requests /\ t \in Commit!ToSet(Targets) /\ symbols \in SUBSET Names
    BY DEF ContextTyped
  <2>5. /\ fragment \in Fragments /\ fragment.target = t /\ fragment.symbols = requests[t]
        /\ fragment.whole = whole
    BY <2>3, <2>4 DEF Fragments
  <2> HIDE DEF fragment, taken, cut, whole
  <2>6. /\ contexts \in Seq(Fragments) /\ contexts' \in Seq(Fragments)
        /\ Len(contexts) \in Nat /\ Len(contexts') = Len(contexts) + 1
        /\ \A i \in 1 .. Len(contexts) : contexts'[i] = contexts[i]
        /\ contexts'[Len(contexts) + 1] = fragment
    BY <2>1, <2>5, AppendProperties, LenProperties DEF ContextTyped
  <2>7. DiffsTyped'
    BY <1>1, <2>1, <2>2, <2>3, RestIsLeft DEF DiffsTyped, Budget
  <2>8. ContextTyped'
    <3>1. Len(contexts') <= MaxContextFiles
      BY <2>1, <2>6 DEF CommitAssumption, Commit!LimitAssumption
    <3>2. ctxTruncated' \in BOOLEAN
      BY <2>1, <2>3 DEF ContextTyped
    <3> QED
      BY <1>1, <2>1, <2>6, <3>1, <3>2 DEF ContextTyped
  <2>9. NoneLost'
    <3> SUFFICES ASSUME ~ctxTruncated', NEW u \in DOMAIN requests \cap tree
                 PROVE  Fetched(u)' \/ u \in todo'
      BY <1>1, <2>1 DEF NoneLost
    <3>1. ~ctxTruncated /\ ~cut
      BY <2>1, <2>3 DEF ContextTyped
    <3>2. CASE u = t
      <4>1. Len(contexts) + 1 \in 1 .. Len(contexts')
        BY <2>6
      <4> QED
        BY <1>1, <2>3, <2>5, <2>6, <3>1, <3>2, <4>1 DEF Fetched
    <3>3. CASE u # t
      <4>1. Fetched(u) \/ u \in todo
        BY <1>1, <3>1 DEF NoneLost
      <4>2. Fetched(u) => Fetched(u)'
        BY <1>1, <2>6 DEF Fetched
      <4> QED
        BY <2>1, <3>3, <4>1, <4>2
    <3> QED
      BY <3>2, <3>3
  <2> QED
    BY <1>2, <2>7, <2>8, <2>9
<1> QED
  BY <1>3, <1>4, <1>5

-----------------------------------------------------------------------------
(* The budgets *)

LEMMA LengthsOfMore ==
  ASSUME NEW R, NEW s \in Seq(R), \A r \in R : r.length \in Nat, NEW info \in R
  PROVE  /\ Commit!Lengths(s) \in Seq(Nat)
         /\ Commit!Lengths(Append(s, info)) = Append(Commit!Lengths(s), info.length)
<1>1. Commit!Lengths(s) \in Seq(Nat) /\ Len(Commit!Lengths(s)) = Len(s) /\ Len(s) \in Nat
  <2>1. DOMAIN s = 1 .. Len(s) /\ Len(s) \in Nat /\ \A i \in 1 .. Len(s) : s[i] \in R
    BY ElementOfSeq, LenProperties
  <2>2. Commit!Lengths(s) \in [1 .. Len(s) -> Nat]
    BY <2>1 DEF Commit!Lengths
  <2> QED
    BY <2>1, <2>2, LenProperties
<1> DEFINE t == Append(s, info)
           a == Commit!Lengths(t)
           b == Append(Commit!Lengths(s), info.length)
<1>2. /\ t \in Seq(R) /\ Len(t) = Len(s) + 1 /\ DOMAIN t = 1 .. Len(s) + 1
      /\ t[Len(s) + 1] = info /\ \A i \in 1 .. Len(s) : t[i] = s[i]
  BY <1>1, AppendProperties, LenProperties
<1>3. /\ DOMAIN b = 1 .. Len(s) + 1 /\ b[Len(s) + 1] = info.length
      /\ \A i \in 1 .. Len(s) : b[i] = s[i].length
  <2>1. /\ b \in Seq(Nat) /\ Len(b) = Len(s) + 1 /\ b[Len(s) + 1] = info.length
        /\ \A i \in 1 .. Len(s) : b[i] = Commit!Lengths(s)[i]
    BY <1>1, AppendProperties
  <2>2. DOMAIN b = 1 .. Len(s) + 1
    BY <1>1, <2>1, LenProperties
  <2>3. \A i \in 1 .. Len(s) : Commit!Lengths(s)[i] = s[i].length
    BY LenProperties DEF Commit!Lengths
  <2> HIDE DEF b
  <2> QED
    BY <2>1, <2>2, <2>3
<1>4. /\ DOMAIN a = 1 .. Len(s) + 1 /\ \A i \in 1 .. Len(s) + 1 : a[i] = t[i].length
      /\ a = [i \in 1 .. Len(s) + 1 |-> t[i].length]
  <2> HIDE DEF t
  <2> QED
    BY <1>2 DEF Commit!Lengths
<1>5. b = [i \in 1 .. Len(s) + 1 |-> b[i]]
  <2>1. Len(b) = Len(s) + 1 /\ b \in Seq(Nat)
    BY <1>1, AppendProperties
  <2>2. b \in [1 .. Len(b) -> Nat]
    BY <2>1, LenProperties
  <2> HIDE DEF b
  <2> QED
    BY <2>1, <2>2
<1>6. \A i \in 1 .. Len(s) + 1 : a[i] = b[i]
  <2> HIDE DEF a, b, t
  <2>1. ASSUME NEW i \in 1 .. Len(s) + 1 PROVE a[i] = b[i]
    <3>1. CASE i = Len(s) + 1
      BY <1>2, <1>3, <1>4, <3>1
    <3>2. CASE i # Len(s) + 1
      <4>1. i \in 1 .. Len(s)
        BY <1>1, <3>2
      <4> QED
        BY <1>2, <1>3, <1>4, <4>1
    <3> QED
      BY <3>1, <3>2
  <2> QED
    BY <2>1
<1>7. a = b
  <2> HIDE DEF a, b, t
  <2> QED
    BY <1>4, <1>5, <1>6
<1> QED
  BY <1>1, <1>7

\* What is shown of one more file, or of one more module, comes out of the budget.
LEMMA Spent ==
  ASSUME NEW max \in Nat, NEW R, NEW s \in Seq(R), \A r \in R : r.length \in Nat,
         NEW info \in R, remaining \in Nat,
         info.length <= remaining \/ info.length = remaining + 1,
         Commit!Total(Commit!Lengths(s)) + remaining <= max + Len(s)
  PROVE  /\ Commit!Total(Commit!Lengths(Append(s, info))) <= max + Len(Append(s, info))
         /\ Commit!Total(Commit!Lengths(Append(s, info))) + Commit!Rest(info.length) <= max + Len(Append(s, info))
<1>1. /\ Commit!Lengths(s) \in Seq(Nat)
      /\ Commit!Lengths(Append(s, info)) = Append(Commit!Lengths(s), info.length)
  BY LengthsOfMore
<1>2. Commit!Total(Commit!Lengths(s)) \in Nat
      /\ Commit!Total(Append(Commit!Lengths(s), info.length)) = Commit!Total(Commit!Lengths(s)) + info.length
  BY <1>1, TotalOfMore, SameTotals
<1>3. Len(Append(s, info)) = Len(s) + 1 /\ Len(s) \in Nat
  BY AppendProperties, LenProperties
<1>4. info.length \in Nat
  OBVIOUS
<1>5. info.length + Commit!Rest(info.length) <= remaining + 1 /\ Commit!Rest(info.length) \in Nat
  BY <1>4 DEF Commit!Rest
<1> QED
  BY <1>1, <1>2, <1>3, <1>4, <1>5

LEMMA InitBudgeted == ASSUME CommitAssumption, Commit!Init PROVE Budgeted
<1>1. Commit!Lengths(<<>>) = <<>>
  BY DEF Commit!Lengths
<1>2. Commit!Total(Commit!Lengths(<<>>)) = 0 /\ Len(<<>>) = 0
  BY <1>1, TotalOfNone, SameTotals
<1> QED
  BY <1>2 DEF Commit!Init, Budgeted, DiffsBudgeted, ContextBudgeted, CommitAssumption,
     Commit!LimitAssumption

LEMMA ReadBudgeted ==
  ASSUME CommitAssumption, CommitInv, Budgeted, NEW e \in Entries, Commit!ReadEntry(e) PROVE Budgeted'
<1> DEFINE length == Commit!Body(e).length + (IF Commit!ModeLine(e) THEN 1 ELSE 0)
           cut == length > remaining
           taken == IF cut THEN remaining + 1 ELSE length
<1>1. PICK info \in FileInfo :
        /\ info.length = taken /\ files' = Append(files, info)
        /\ UNCHANGED <<stage, contexts>> /\ stage = "files" /\ remaining' = Commit!Rest(taken)
  <2>1. remaining \in Nat
    BY DEF CommitInv, DiffsTyped, CommitAssumption, Commit!LimitAssumption
  <2>2. \E hidden, flag :
          files' = Append(files, [length |-> taken, hidden |-> hidden, truncated |-> flag])
          /\ hidden \in SUBSET AllFacets /\ flag \in BOOLEAN
    BY <2>1, CompleteShowsAll DEF Commit!ReadEntry
  <2>3. taken \in Nat
    BY <2>1, CompleteShowsAll
  <2>4. UNCHANGED <<stage, contexts>> /\ stage = "files" /\ remaining' = Commit!Rest(taken)
    BY DEF Commit!ReadEntry
  <2> HIDE DEF taken
  <2> QED
    BY <2>2, <2>3, <2>4 DEF FileInfo
<1>2. remaining \in Nat /\ MaxDiff \in Nat /\ files \in Seq(FileInfo)
  BY DEF CommitInv, DiffsTyped, CommitAssumption, Commit!LimitAssumption
<1>3. taken <= remaining \/ taken = remaining + 1
  BY <1>2, CompleteShowsAll
<1>4. \A r \in FileInfo : r.length \in Nat
  BY DEF FileInfo
<1>5. Commit!Total(Commit!Lengths(files)) + remaining <= MaxDiff + Len(files)
  BY <1>1 DEF Budgeted, DiffsBudgeted
<1> HIDE DEF taken
<1>6. DiffsBudgeted'
  BY <1>1, <1>2, <1>3, <1>4, <1>5, Spent DEF DiffsBudgeted
<1> QED
  BY <1>1, <1>6 DEF Budgeted, ContextBudgeted

LEMMA FragmentBudgeted ==
  ASSUME CommitAssumption, CommitInv, Budgeted, NEW t \in todo, NEW defined \in SUBSET Names,
         NEW length \in 1 .. 2, NEW clean \in BOOLEAN, Commit!Fragment(t, defined, length, clean)
  PROVE  Budgeted'
<1> DEFINE symbols == requests[t]
           cut == length > remaining \/ Commit!Short(symbols, defined) \/ ~clean
           whole == length <= remaining /\ clean /\ symbols \subseteq defined
           taken == Commit!Min({length, remaining}) + (IF cut THEN 1 ELSE 0)
           fragment == [target |-> t, symbols |-> symbols, length |-> taken,
                        whole |-> whole, truncated |-> cut]
<1>1. /\ stage' = stage /\ stage = "context" /\ files' = files
      /\ contexts' = Append(contexts, fragment) /\ remaining' = Commit!Rest(taken)
  BY DEF Commit!Fragment, Commit!More
<1>2. remaining \in Nat /\ MaxContext \in Nat /\ contexts \in Seq(Fragments)
  BY DEF CommitInv, DiffsTyped, ContextTyped, CommitAssumption, Commit!LimitAssumption
<1>3. taken \in Nat /\ (taken <= remaining \/ taken = remaining + 1)
  <2>1. Commit!Min({length, remaining}) \in {length, remaining} /\ Commit!Min({length, remaining}) <= remaining
    <3>1. length \in Int /\ remaining \in Int
      BY <1>2
    <3> QED
      BY <3>1, LesserOfTwo
  <2> QED
    BY <1>2, <2>1
<1>4. cut \in BOOLEAN /\ whole \in BOOLEAN
  BY <1>2 DEF Commit!Short
<1>5. fragment \in Fragments /\ fragment.length = taken
  <2>1. t \in Commit!ToSet(Targets) /\ symbols \in SUBSET Names
    BY DEF CommitInv, ContextTyped
  <2> HIDE DEF taken, cut, whole, symbols
  <2> QED
    BY <1>3, <1>4, <2>1 DEF Fragments
<1>6. \A r \in Fragments : r.length \in Nat
  BY DEF Fragments
<1>7. Commit!Total(Commit!Lengths(contexts)) + remaining <= MaxContext + Len(contexts)
  BY <1>1 DEF Budgeted, ContextBudgeted
<1> HIDE DEF fragment, taken
<1>8. /\ Commit!Total(Commit!Lengths(Append(contexts, fragment))) <= MaxContext + Len(Append(contexts, fragment))
      /\ Commit!Total(Commit!Lengths(Append(contexts, fragment))) + Commit!Rest(taken)
           <= MaxContext + Len(Append(contexts, fragment))
  BY <1>2, <1>3, <1>5, <1>6, <1>7, Spent
<1>9. ContextBudgeted'
  BY <1>1, <1>8 DEF ContextBudgeted
<1> QED
  BY <1>1, <1>9 DEF Budgeted, DiffsBudgeted

LEMMA ListBudgeted ==
  ASSUME CommitAssumption, CommitInv, Budgeted, Commit!ListTree PROVE Budgeted'
<1>1. /\ UNCHANGED <<files, contexts>> /\ stage = "imports" /\ contexts = <<>>
      /\ stage' = "done" \/ (stage' = "context" /\ remaining' = MaxContext)
  BY DEF Commit!ListTree, Budgeted, ContextBudgeted
<1>2. Commit!Total(Commit!Lengths(<<>>)) = 0 /\ Len(<<>>) = 0
  <2>1. Commit!Lengths(<<>>) = <<>>
    BY DEF Commit!Lengths
  <2> QED
    BY <2>1, TotalOfNone, SameTotals
<1> QED
  BY <1>1, <1>2 DEF Budgeted, DiffsBudgeted, ContextBudgeted, CommitAssumption,
     Commit!LimitAssumption

LEMMA StepBudgeted ==
  ASSUME CommitAssumption, CommitInv, Budgeted, [Commit!Next]_Commit!vars PROVE Budgeted'
<1>1. CASE Commit!GitFails \/ Commit!ListEntries \/ Commit!FilesRead \/ Commit!FileDone \/ UNCHANGED Commit!vars
  <2>1. /\ UNCHANGED <<remaining, files, contexts>>
        /\ stage' \notin {"entries", "context"} \/ stage' = stage
        /\ stage' = "files" => stage = "entries" \/ stage' = stage
        /\ stage' = "imports" => stage \in {"files", "imports"}
    BY <1>1 DEF Commit!GitFails, Commit!ListEntries, Commit!FilesRead, Commit!FileDone,
       Commit!vars, Commit!diffVars, Commit!contextVars
  <2> QED
    BY <2>1 DEF Budgeted, DiffsBudgeted, ContextBudgeted
<1>2. ASSUME NEW t \in Commit!ToSet(Targets), NEW names \in SUBSET Names, Commit!Import(t, names)
      PROVE  Budgeted'
  BY <1>2 DEF Commit!Import, Commit!diffVars, Budgeted, DiffsBudgeted, ContextBudgeted
<1>3. CASE Commit!ContextDone
  BY <1>3 DEF Commit!ContextDone, Commit!diffVars, Budgeted, DiffsBudgeted, ContextBudgeted
<1>4. ASSUME NEW t \in todo, Commit!Unusable(t) PROVE Budgeted'
  BY <1>4 DEF Commit!Unusable, Commit!More, Commit!diffVars, Budgeted, DiffsBudgeted,
     ContextBudgeted
<1> QED
  BY <1>1, <1>2, <1>3, <1>4, ReadBudgeted, FragmentBudgeted, ListBudgeted DEF Commit!Next

\* What is promised of a snapshot follows from what the reader keeps.
THEOREM CommitKept ==
  ASSUME CommitAssumption PROVE Commit!Spec => [](CommitInv /\ Budgeted)
<1>1. Commit!Init => CommitInv /\ Budgeted
  BY CommitInit, InitBudgeted
<1>2. CommitInv /\ [Commit!Next]_Commit!vars => CommitInv'
  BY CommitMoves, CommitLists, CommitReads, CommitImports, CommitTree, CommitContext DEF
     Commit!Next
<1>3. CommitInv /\ Budgeted /\ [Commit!Next]_Commit!vars => Budgeted'
  BY StepBudgeted
<1> QED
  BY <1>1, <1>2, <1>3, PTL DEF Commit!Spec

-----------------------------------------------------------------------------
(* What a review may rely on *)

\* Type correctness, with the limits on files and on context fragments
\* (GitCommitReader.read and _python_context).
THEOREM CommitTypesAlways ==
  ASSUME CommitAssumption PROVE Commit!Spec => []Commit!TypeOK
<1>1. CommitInv => Commit!TypeOK
  BY LenProperties DEF CommitInv, DiffsTyped, ContextTyped, Commit!TypeOK, CommitAssumption,
     Commit!LimitAssumption
<1> QED
  BY <1>1, CommitKept, PTL

\* Nothing a commit changes is hidden from a review that counts as complete: each
\* of its entries has been read and each aspect of them is shown, since every way
\* of leaving one out sets the flag and nothing resets it (GitCommitReader.read).
THEOREM NothingIsHidden ==
  ASSUME CommitAssumption PROVE Commit!Spec => []Commit!NothingHidden
<1>1. CommitInv => Commit!NothingHidden
  <2> SUFFICES ASSUME CommitInv, ~truncated
               PROVE  /\ \A i \in DOMAIN files : files[i].hidden = {}
                      /\ stage = "done" => Len(files) = listed
    BY DEF Commit!NothingHidden
  <2>1. \A i \in DOMAIN files : files[i].hidden = {}
    BY DEF CommitInv, DiffsWhole, AllShown
  <2>2. ASSUME stage = "done" PROVE Len(files) = listed
    <3>1. left + Len(files) = listed /\ left = 0 /\ Len(files) \in Nat
      BY <2>2, LenProperties DEF CommitInv, DiffsWhole, AllListed, DiffsTyped
    <3> QED
      BY <3>1
  <2> QED
    BY <2>1, <2>2
<1> QED
  BY <1>1, CommitKept, PTL

\* A module of the repository that a changed file imports is in the context of a
\* review that counts as complete, with all the symbols any of them names
\* (GitCommitReader._python_context; a file that does not parse imports nothing).
THEOREM ImportsAreCovered ==
  ASSUME CommitAssumption PROVE Commit!Spec => []Commit!ImportsCovered
<1>1. CommitInv => Commit!ImportsCovered
  <2> SUFFICES ASSUME CommitInv, stage = "done", ~ctxTruncated, NEW a \in asked, a[1] \in tree
               PROVE  \E i \in DOMAIN contexts : Commit!Covers(contexts[i], a[1], a[2])
    BY DEF Commit!ImportsCovered
  <2>1. Asks(a[1], a[2])
    BY DEF CommitInv, AllRequested
  <2>2. Fetched(a[1])
    BY <2>1 DEF CommitInv, NoneLost, Asks
  <2>3. DOMAIN contexts = 1 .. Len(contexts)
    BY LenProperties DEF CommitInv, ContextTyped
  <2> QED
    BY <2>1, <2>2, <2>3 DEF Asks, Fetched, Commit!Covers
<1> QED
  BY <1>1, CommitKept, PTL

\* What is shown of a commit, and of the modules it imports, keeps within the
\* budgets but for one marker for each file and each module.
THEOREM BudgetsAlways ==
  ASSUME CommitAssumption PROVE Commit!Spec => []Commit!WithinBudgets
<1>1. Budgeted => Commit!WithinBudgets
  BY DEF Budgeted, DiffsBudgeted, ContextBudgeted, Commit!WithinBudgets
<1> QED
  BY <1>1, CommitKept, PTL

-----------------------------------------------------------------------------
(* The reader as a whole *)

\* The parts share no variable: each goes its own way, and which of them a
\* behaviour is about does not change.
LEMMA ReaderStep ==
  ASSUME [ReaderNext]_<<which, readerPartVars>>
  PROVE  /\ which' = which
         /\ [Next]_<<forks, vars>>
         /\ which = "objects" => [Copy!Next]_Copy!vars
         /\ which = "commit" => [Commit!Next]_Commit!vars
<1>1. which' = which
  BY DEF ReaderNext
<1>2. [Next]_<<forks, vars>>
  BY DEF ReaderNext, readerPartVars, captureVars
<1>3. ASSUME which = "objects" PROVE [Copy!Next]_Copy!vars
  BY <1>3 DEF ReaderNext, readerPartVars, objectVars, Copy!vars, Copy!repository, Copy!copying
<1>4. ASSUME which = "commit" PROVE [Commit!Next]_Commit!vars
  BY <1>4 DEF ReaderNext, readerPartVars, commitVars, Commit!vars, Commit!diffVars,
     Commit!contextVars
<1> QED
  BY <1>1, <1>2, <1>3, <1>4

\* Every call of git the reader makes is one of GitCapture.
THEOREM EveryCapture == ReaderSpec => Spec
<1>1. ReaderInit => Init
  BY DEF ReaderInit, IdleCapture
<1>2. [ReaderNext]_<<which, readerPartVars>> => [Next]_<<forks, vars>>
  BY ReaderStep
<1> QED
  BY <1>1, <1>2, PTL DEF ReaderSpec, Spec

\* The copy of the object store is faithful, whatever the store's users do while
\* it is taken (commit_review.py, _snapshot_repository, _copy_snapshot_file).
THEOREM CopiesAreFaithful == ASSUME CopyAssumption PROVE ReaderSpec => []CopyIsFaithful
<1> DEFINE Here == which = "objects"
<1>1. ReaderInit /\ Here => Copy!Init
  BY DEF ReaderInit
<1>2. [ReaderNext]_<<which, readerPartVars>> /\ Here => [Copy!Next]_Copy!vars
  BY ReaderStep
<1>3. [ReaderNext]_<<which, readerPartVars>> => (Here' <=> Here)
  BY ReaderStep
<1>4. (Here => Copy!CopyIsFaithful) => CopyIsFaithful
  BY DEF CopyIsFaithful
<1> HIDE DEF Here
<1> QED
  BY <1>1, <1>2, <1>3, <1>4, CopyIsAlwaysFaithful, PTL DEF ReaderSpec, Copy!Spec

\* A snapshot without flags hides nothing: neither what a commit changes nor what
\* a changed file imports (GitCommitReader.read).
THEOREM CompleteIsAlwaysComplete ==
  ASSUME CommitAssumption PROVE ReaderSpec => []CompleteIsComplete
<1> DEFINE Here == which = "commit"
<1>1. ReaderInit /\ Here => Commit!Init
  BY DEF ReaderInit
<1>2. [ReaderNext]_<<which, readerPartVars>> /\ Here => [Commit!Next]_Commit!vars
  BY ReaderStep
<1>3. [ReaderNext]_<<which, readerPartVars>> => (Here' <=> Here)
  BY ReaderStep
<1>4. (Here => /\ Commit!TypeOK /\ Commit!NothingHidden
             /\ Commit!ImportsCovered /\ Commit!WithinBudgets)
        => CompleteIsComplete
  BY DEF CompleteIsComplete
<1> HIDE DEF Here
<1> QED
  BY <1>1, <1>2, <1>3, <1>4, CommitTypesAlways, NothingIsHidden, ImportsAreCovered,
     BudgetsAlways, PTL DEF ReaderSpec, Commit!Spec
=============================================================================
