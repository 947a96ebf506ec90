---------------------------- MODULE TracePreview ----------------------------
(***************************************************************************)
(* What a person is shown of a run's trace: of every action the two        *)
(* streams, cut by a limit of their own and by one budget for them all,    *)
(* with flags for what was left out.  A text is its length.                *)
(***************************************************************************)
EXTENDS Totals, Integers, FiniteSetsExt

CONSTANTS
  MAX_ACTIONS, MAX_CHARS, STREAM_CHARS,   \* TRACE_PREVIEW_...
  Lengths,     \* bound: the lengths a stream may have
  MaxTrace     \* bound: the actions of a trace
PreviewAssumption ==
  /\ MAX_ACTIONS \in Nat \ {0} /\ MAX_CHARS \in Nat \ {0} /\ STREAM_CHARS \in Nat \ {0}
  /\ Lengths \subseteq Nat /\ MaxTrace \in Nat

VARIABLES
  trace,    \* the file's actions: [stdout, stderr], or Malformed
  next,     \* the action to be shown next
  budget,
  shown,    \* [of, stdout, stderr, cutOut, cutErr] for every action shown
  answer    \* [status, actions, output]: how far the call is, and the flags
vars == <<trace, next, budget, shown, answer>>

Malformed == [stdout |-> -1, stderr |-> -1]
TraceActions == [stdout : Lengths, stderr : Lengths] \cup {Malformed}

Pending == [status |-> "none", actions |-> FALSE, output |-> FALSE]

Init ==
  /\ trace \in UNION {[1 .. n -> TraceActions] : n \in 0 .. MaxTrace}
  /\ next = 1 /\ budget = MAX_CHARS /\ shown = <<>> /\ answer = Pending

\* There is no trace, or it cannot be read.
Unavailable ==
  /\ answer = Pending /\ next = 1
  /\ answer' = [answer EXCEPT !.status = "refused"]
  /\ UNCHANGED <<trace, next, budget, shown>>

Over == next > Len(trace) \/ next > MAX_ACTIONS \/ (shown # <<>> /\ budget <= 0)

Skip ==
  /\ answer = Pending /\ ~Over /\ trace[next] = Malformed
  /\ next' = next + 1
  /\ UNCHANGED <<trace, budget, shown, answer>>

Clip(length, left) == Min({length, left, STREAM_CHARS})

Show ==
  /\ answer = Pending /\ ~Over /\ trace[next] # Malformed
  /\ LET out == Clip(trace[next].stdout, budget)
         err == Clip(trace[next].stderr, budget - out)
     IN /\ shown' = Append(shown, [of |-> next, stdout |-> out, stderr |-> err,
                                   cutOut |-> trace[next].stdout > out,
                                   cutErr |-> trace[next].stderr > err])
        /\ budget' = budget - out - err
  /\ next' = next + 1
  /\ UNCHANGED <<trace, answer>>

\* Fault: the actions that were cut off before the loop are not counted.
ActionsTruncated_Looped == next - 1 > Len(shown)

ActionsTruncated == Len(trace) > Len(shown)

Finish ==
  /\ answer = Pending /\ Over
  /\ answer' = [status |-> "shown", actions |-> ActionsTruncated, output |-> budget <= 0]
  /\ UNCHANGED <<trace, next, budget, shown>>

Next == Unavailable \/ Skip \/ Show \/ Finish
Spec == Init /\ [][Next]_vars

-----------------------------------------------------------------------------
(* Properties *)

Finished == answer.status = "shown"
LeftOut == {i \in DOMAIN trace : \A k \in DOMAIN shown : shown[k].of # i}
Cut == {k \in DOMAIN shown : shown[k].stdout < trace[shown[k].of].stdout
                             \/ shown[k].stderr < trace[shown[k].of].stderr}
Spent == [k \in DOMAIN shown |-> shown[k].stdout + shown[k].stderr]

\* No more is shown than the budget has, and no stream is more than its own
\* limit, or less than nothing, wherever between the streams the budget ends.
WithinBudget ==
  /\ Total(Spent) + budget = MAX_CHARS /\ budget >= 0
  /\ \A k \in DOMAIN shown : shown[k].stdout \in 0 .. STREAM_CHARS
                             /\ shown[k].stderr \in 0 .. STREAM_CHARS

\* Whatever is not shown is said not to be shown: an action by the list's flag,
\* the end of a stream by the stream's own; and a flag of those is never raised
\* over nothing.
OmissionsAreSaid ==
  Finished =>
    /\ answer.actions <=> LeftOut # {}
    /\ \A k \in DOMAIN shown :
         /\ shown[k].cutOut <=> shown[k].stdout < trace[shown[k].of].stdout
         /\ shown[k].cutErr <=> shown[k].stderr < trace[shown[k].of].stderr

\* Nothing is cut while there is budget for it, but by a stream's own limit.
CutForAReason ==
  Finished /\ budget > 0 =>
    /\ \A k \in Cut : \E s \in {shown[k].stdout, shown[k].stderr} : s = STREAM_CHARS
    /\ \A i \in LeftOut : trace[i] = Malformed \/ i > MAX_ACTIONS

\* ui/app.js:877 tells of the flag: "Output preview was truncated by the
\* server."  Then something of the output was cut or left out.
TruncatedIsTruncated == Finished /\ answer.output => Cut # {} \/ LeftOut # {}
=============================================================================
