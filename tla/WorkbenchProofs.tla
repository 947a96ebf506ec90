--------------------------- MODULE WorkbenchProofs ---------------------------
(***************************************************************************)
(* One tab of the workbench, for any number of runs, directories, keys,    *)
(* calls and gestures: a late answer never replaces a newer choice, and    *)
(* keys are kept and refused for a reason.                                 *)
(*                                                                         *)
(* The fence is an epoch: a call may touch the page only while no newer    *)
(* navigation has begun.  That is enough because whatever may still touch  *)
(* it, the calls of the newest navigation and the timer, is about the run  *)
(* that is wanted.                                                         *)
(***************************************************************************)
EXTENDS WorkbenchProperties, TLAPS

Profiles == [root: Workspaces, trusts: BOOLEAN]

-----------------------------------------------------------------------------
(* The tab *)

TabFields == {"operator", "stored", "approver", "workspace", "runtime", "profile", "runs",
              "selected", "trace", "mode", "busy", "goal", "pendingRun", "epoch", "poll",
              "shown", "dialogs", "path", "wanted", "forgotten"}

\* The run r is the one the person wants to see.
Wants(t, r) == t.wanted = r /\ r # None

\* A timer is for the wanted run, or was set before access was cleared.
PollFits(t) ==
  t.poll # None => Wants(t, t.poll) \/ (t.wanted = None /\ RunOf(t.selected) = None)

TabOK(t) ==
  /\ DOMAIN t = TabFields
  /\ t.epoch \in Nat /\ t.mode \in Levels
  /\ {t.operator, t.approver} \subseteq Keys \cup {None}
  /\ t.stored \in {None, "valid"}
  /\ t.workspace \in Workspaces \cup {None}
  /\ t.profile \in Profiles \cup {None}
  /\ t.profile # None \/ t.goal => t.workspace # None
  /\ t.selected \in Views \cup {None}
  /\ t.runs \subseteq Existing
  /\ {RunOf(t.selected), t.poll, t.pendingRun} \subseteq Existing \cup {None}
  /\ t.trace \in {None, RunOf(t.selected)}
  /\ t.shown = None \/ /\ t.shown.run \in Views \cup {None}
                       /\ t.shown.trace \in {None, RunOf(t.shown.run)}
  /\ PollFits(t)

-----------------------------------------------------------------------------
(* Calls *)

CallFields == {"kind", "at", "run", "epoch", "ws", "key", "reply", "held", "accepted", "meant",
               "level", "typed", "before", "err"}

\* Calls that may select a run.
Choosing == {"select", "poll", "create", "start", "resolve"}
OfRuns   == {"run", "trace", "start", "approvals", "decline"}

SelectionHolds(w, t) ==
  w.kind \in Choosing /\ w.epoch = t.epoch =>
    RunOf(t.selected) = None \/ Wants(t, RunOf(t.selected))

\* What a call carries with it, before its next request.
CarryOK(w, t) ==
  /\ DOMAIN w = CallFields
  /\ w.kind \in Choosing \cup {"connect", "bootstrap", "trust"}
  /\ w.epoch \in Nat /\ w.epoch <= t.epoch
  /\ w.run \in Existing \cup {None}
  /\ w.held \in Views \cup {None}
  /\ w.held # None => w.held.id = w.run
  /\ w.level \in Levels
  /\ w.kind = "trust" => w.held = None
  /\ w.kind = "connect" =>
       /\ {w.typed.op, w.typed.ap, w.before.op, w.before.ap} \subseteq Keys \cup {None}
       /\ w.typed.ws \in Workspaces \cup {None}
  \* A call of the newest navigation is about the run that is wanted, or it is
  \* creating it.
  /\ w.kind \in Choosing /\ w.epoch = t.epoch =>
       Wants(t, w.run) \/ (w.kind = "create" /\ w.run = None /\ t.wanted = Fresh)

\* What an answer says belongs to the request, and only a key that opens gets one.
ReplyOK(w) ==
  w.reply # None =>
    /\ w.reply \in Replies
    /\ w.reply.runs \subseteq Existing
    /\ w.reply.run # None => w.reply.run.id \in Existing /\ (w.at # "create" => w.reply.run.id = w.run)
    /\ w.reply.code = "ok" =>
         /\ w.key = "valid"
         /\ w.at \in {"create", "run", "start", "approvals", "decline"} => w.reply.run # None
    /\ w.reply.code = "401" => w.key # "valid"

\* What a call has by the time it sends a request to route at.
AtOK(w, at, t) ==
  /\ at \in Ops
  /\ at \in OfRuns => w.kind \in Choosing /\ w.run # None
  /\ at = "start" => w.kind \in {"create", "start"}
  /\ at \in {"approvals", "decline"} => w.kind = "resolve"
  /\ at \in {"approvals", "decline", "trace"} => w.held # None
  /\ at = "list" =>
       \/ w.kind \in {"connect", "bootstrap"}
       \/ w.kind \in {"create", "start", "resolve"} /\ w.held # None
  /\ at \in {"profile", "create", "trust"} => w.ws \in Workspaces
  /\ at = "create" => w.kind = "create" /\ w.held = None /\ (w.epoch = t.epoch => t.wanted = Fresh)
  /\ at = "trust" => w.kind = "trust"
  /\ at = "runtime" => w.kind \in {"connect", "bootstrap"}
  /\ at = "session" => w.kind = "connect"
  /\ w.kind = "connect" /\ at # "runtime" => w.typed.op = "valid"
  \* A selection for the newest navigation stays until the next.
  /\ at = "profile" => SelectionHolds(w, t)

CallOK(w, t) ==
  /\ CarryOK(w, t) /\ AtOK(w, w.at, t) /\ ReplyOK(w)
  /\ w.key \in Keys \cup {None}
  /\ w.accepted => w.key = "valid"
  /\ w.kind = "connect" /\ w.at = "runtime" => w.key = w.typed.op

\* Each new task is a navigation of its own.
OneFresh ==
  \A f, g \in Flows :
    flow[f].kind = "create" /\ flow[g].kind = "create" /\ flow[f].epoch = flow[g].epoch => f = g

WorkbenchInv ==
  /\ row \in [Runs -> Rows \cup {None}] /\ trusted \subseteq Workspaces
  /\ TabOK(tab)
  /\ DOMAIN flow = Flows
  /\ \A f \in Flows : flow[f] = Idle \/ CallOK(flow[f], tab)
  /\ OneFresh

-----------------------------------------------------------------------------
(* What a step of the tab may do *)

SelectionStep(s, u) ==
  RunOf(u.selected) \in {None, RunOf(s.selected)} \/ Wants(u, RunOf(u.selected))

\* From s to u, within a navigation or into a newer one.
Moved(s, u) ==
  /\ TabOK(u)
  /\ (u.epoch = s.epoch /\ u.wanted = s.wanted) \/ u.epoch > s.epoch
  /\ SelectionStep(s, u)

\* The call goes on as w: as the same task being created, if it is one, or a newer.
Heir(f, w) ==
  w.kind = "create" => \/ flow[f].kind = "create" /\ flow[f].epoch = w.epoch
                       \/ w.epoch > tab.epoch

Kept == WorkbenchInv' /\ LatestChoice
Still == UNCHANGED <<row, trusted>>

\* Calls under way are right about the tab whatever another one does to it.
LEMMA CallKept ==
  ASSUME NEW s, NEW u, TabOK(s), Moved(s, u), NEW w, CallOK(w, s)
  PROVE  CallOK(w, u)
<1>1. s.epoch \in Nat /\ u.epoch \in Nat /\ w.epoch \in Nat /\ w.epoch <= s.epoch
  BY DEF TabOK, Moved, CallOK, CarryOK
<1>2. CASE u.epoch = s.epoch /\ u.wanted = s.wanted
  <2>1. CarryOK(w, u)
    BY <1>2 DEF CallOK, CarryOK, Wants
  <2>2. SelectionHolds(w, s) => SelectionHolds(w, u)
    BY <1>2 DEF Moved, SelectionStep, SelectionHolds, Wants
  <2> QED
    BY <1>2, <2>1, <2>2 DEF CallOK, AtOK
<1>3. CASE u.epoch > s.epoch
  <2>1. w.epoch # u.epoch /\ w.epoch <= u.epoch
    BY <1>1, <1>3
  <2> QED
    BY <2>1 DEF CallOK, CarryOK, AtOK, SelectionHolds
<1> QED
  BY <1>2, <1>3 DEF Moved

\* One call ends, goes on or begins: no two are creating the same task.
LEMMA FreshStays ==
  ASSUME WorkbenchInv, NEW f \in Flows, \A g \in Flows \ {f} : flow'[g] = flow[g],
         flow'[f] = Idle \/ Heir(f, flow'[f])
  PROVE  OneFresh'
<1>1. ASSUME NEW g \in Flows PROVE flow[g].kind = "create" => flow[g].epoch <= tab.epoch
                                                        /\ flow[g].epoch \in Nat
  BY DEF WorkbenchInv, CallOK, CarryOK, Idle
<1>2. tab.epoch \in Nat
  BY DEF WorkbenchInv, TabOK
<1>3. ASSUME NEW g \in Flows \ {f}, flow'[g].kind = "create", flow'[f].kind = "create",
             flow'[f].epoch = flow'[g].epoch
      PROVE  FALSE
  <2>1. flow[g].kind = "create" /\ flow'[f].epoch = flow[g].epoch
    BY <1>3
  <2>2. Heir(f, flow'[f])
    BY <1>3 DEF Idle
  <2>3. CASE flow[f].kind = "create" /\ flow[f].epoch = flow'[f].epoch
    BY <2>1, <2>3 DEF WorkbenchInv, OneFresh
  <2>4. CASE flow'[f].epoch > tab.epoch
    BY <1>1, <1>2, <2>1, <2>4
  <2> QED
    BY <1>3, <2>2, <2>3, <2>4 DEF Heir
<1>4. ASSUME NEW g \in Flows \ {f}, NEW h \in Flows \ {f}, flow'[g].kind = "create",
             flow'[h].kind = "create", flow'[g].epoch = flow'[h].epoch
      PROVE  g = h
  BY <1>4 DEF WorkbenchInv, OneFresh
<1> QED
  BY <1>3, <1>4 DEF OneFresh

-----------------------------------------------------------------------------
(* The two ways for a call to go on: it ends, or it asks *)

LEMMA Finished ==
  ASSUME WorkbenchAssumption, WorkbenchInv, Still, NEW f \in Flows, NEW t, Moved(tab, t), Done(f, t)
  PROVE  Kept
<1>1. /\ Existing' = Existing /\ tab' = t /\ row' = row /\ trusted' = trusted
      /\ DOMAIN flow' = Flows /\ flow'[f] = Idle
      /\ \A g \in Flows \ {f} : flow'[g] = flow[g]
  BY DEF Still, Existing, Done, WorkbenchInv
<1>2. TabOK(tab)'
  BY <1>1 DEF Moved, TabOK, PollFits
<1>3. ASSUME NEW g \in Flows PROVE (flow[g] = Idle \/ CallOK(flow[g], tab))'
  <2>1. flow'[g] = Idle \/ CallOK(flow'[g], t)
    BY <1>1, CallKept DEF WorkbenchInv
  <2> QED
    BY <1>1, <2>1 DEF CallOK, CarryOK, AtOK, ReplyOK
<1>4. LatestChoice
  BY <1>1 DEF LatestChoice, Moved, SelectionStep, Wants
<1>5. OneFresh'
  BY <1>1, FreshStays
<1> QED
  BY <1>1, <1>2, <1>3, <1>4, <1>5 DEF Kept, WorkbenchInv

\* A request that is sent is sent with what the call has by then.
LEMMA Sending ==
  ASSUME WorkbenchAssumption, NEW w, NEW at, NEW t, TabOK(t), CarryOK(w, t), AtOK(w, at, t),
         w.kind = "connect" /\ at = "runtime" => t.operator = w.typed.op
  PROVE  /\ CallOK(Sent(w, at, t), t)
         /\ Sent(w, at, t).kind = w.kind /\ Sent(w, at, t).epoch = w.epoch
<1> DEFINE m == Sent(w, at, t)
<1>1. /\ DOMAIN m = CallFields /\ m.at = at /\ ~m.accepted
      /\ m.key = IF AuthScope(at) = "approver" THEN t.approver ELSE t.operator
      /\ m.reply = IF m.key = None THEN Reply("401") ELSE None
      /\ m.kind = w.kind /\ m.run = w.run /\ m.epoch = w.epoch /\ m.ws = w.ws
      /\ m.held = w.held /\ m.level = w.level /\ m.typed = w.typed /\ m.before = w.before
  BY DEF Sent, CarryOK, CallFields
<1> HIDE DEF m
<1>2. CarryOK(m, t)
  BY <1>1 DEF CarryOK
<1>3. AtOK(m, m.at, t)
  BY <1>1 DEF AtOK, SelectionHolds
<1>4. ReplyOK(m)
  BY <1>1 DEF ReplyOK, Reply, Replies, Codes, WorkbenchAssumption
<1>5. m.key \in Keys \cup {None}
  BY <1>1 DEF TabOK
<1>6. m.kind = "connect" /\ m.at = "runtime" => m.key = m.typed.op
  BY <1>1 DEF AuthScope
<1>7. CallOK(m, t) /\ m.kind = w.kind /\ m.epoch = w.epoch
  BY <1>1, <1>2, <1>3, <1>4, <1>5, <1>6 DEF CallOK
<1> QED
  BY <1>7 DEF m

LEMMA Waiting ==
  ASSUME WorkbenchAssumption, WorkbenchInv, Still, NEW f \in Flows, NEW w, NEW at, NEW t,
         Moved(tab, t), CarryOK(w, t), AtOK(w, at, t), Heir(f, w),
         w.kind = "connect" /\ at = "runtime" => t.operator = w.typed.op,
         Await(f, w, at, t)
  PROVE  Kept
<1> DEFINE m == Sent(w, at, t)
<1>1. /\ Existing' = Existing /\ tab' = t /\ row' = row /\ trusted' = trusted
      /\ DOMAIN flow' = Flows /\ flow'[f] = m
      /\ \A g \in Flows \ {f} : flow'[g] = flow[g]
  BY DEF Still, Existing, Await, WorkbenchInv
<1>2. TabOK(tab)'
  BY <1>1 DEF Moved, TabOK, PollFits
<1>3. CallOK(m, t) /\ m.kind = w.kind /\ m.epoch = w.epoch
  BY Sending DEF Moved
<1> HIDE DEF m
<1>4. ASSUME NEW g \in Flows PROVE (flow[g] = Idle \/ CallOK(flow[g], tab))'
  <2>1. flow'[g] = Idle \/ CallOK(flow'[g], t)
    BY <1>1, <1>3, CallKept DEF WorkbenchInv
  <2> QED
    BY <1>1, <2>1 DEF CallOK, CarryOK, AtOK, ReplyOK
<1>5. LatestChoice
  BY <1>1 DEF LatestChoice, Moved, SelectionStep, Wants
<1>6. OneFresh'
  <2>1. Heir(f, m)
    BY <1>3 DEF Heir
  <2> QED
    BY <1>1, <2>1, FreshStays
<1> QED
  BY <1>1, <1>2, <1>4, <1>5, <1>6 DEF Kept, WorkbenchInv

-----------------------------------------------------------------------------
(* What functions without an await do to the tab *)

\* u is the tab t with another page, other keys or another list.
Near(t, u) ==
  /\ TabOK(u) /\ u.epoch = t.epoch /\ u.wanted = t.wanted
  /\ RunOf(u.selected) = RunOf(t.selected)

LEMMA NearCarries ==
  ASSUME NEW s, NEW t, NEW u, NEW w, TabOK(t), Near(t, u)
  PROVE  /\ Moved(s, t) => Moved(s, u)
         /\ CarryOK(w, t) => CarryOK(w, u)
         /\ SelectionHolds(w, t) => SelectionHolds(w, u)
  BY DEF Near, Moved, SelectionStep, CarryOK, SelectionHolds, Wants

LEMMA NearTrans ==
  ASSUME NEW s, NEW t, NEW u, Near(s, t), Near(t, u)
  PROVE  Near(s, u)
BY DEF Near

LEMMA Drawn ==
  ASSUME NEW t, TabOK(t)
  PROVE  /\ Near(t, t) /\ Near(t, RenderAll(t))
         /\ Near(t, [t EXCEPT !.busy = FALSE]) /\ Near(t, [t EXCEPT !.busy = TRUE])
         /\ Near(t, [t EXCEPT !.goal = FALSE])
         /\ Near(t, [t EXCEPT !.pendingRun = None])
         /\ Near(t, [t EXCEPT !.poll = None])
         /\ Near(t, [t EXCEPT !.profile = None])
         /\ \A x : Near(t, [t EXCEPT !.dialogs = x]) /\ Near(t, [t EXCEPT !.path = x])
         /\ \A x \in SUBSET Existing : Near(t, [t EXCEPT !.runs = x])
<1> USE DEF TabFields
<1>1. Near(t, t) 
  BY DEF Near
<1>2. Near(t, RenderAll(t))
  BY DEF RenderAll, Near, TabOK, PollFits, Wants
<1>3. Near(t, [t EXCEPT !.busy = FALSE])
  BY DEF Near, TabOK, PollFits, Wants
<1>4. Near(t, [t EXCEPT !.busy = TRUE])
  BY DEF Near, TabOK, PollFits, Wants
<1>5. Near(t, [t EXCEPT !.goal = FALSE])
  BY DEF Near, TabOK, PollFits, Wants
<1>6. Near(t, [t EXCEPT !.pendingRun = None])
  BY DEF Near, TabOK, PollFits, Wants
<1>7. Near(t, [t EXCEPT !.poll = None])
  BY DEF Near, TabOK, PollFits, Wants
<1>8. Near(t, [t EXCEPT !.profile = None])
  BY DEF Near, TabOK, PollFits, Wants
<1>9. ASSUME NEW x PROVE Near(t, [t EXCEPT !.dialogs = x])
  BY DEF Near, TabOK, PollFits, Wants
<1>10. ASSUME NEW x PROVE Near(t, [t EXCEPT !.path = x])
  BY DEF Near, TabOK, PollFits, Wants
<1>11. ASSUME NEW x \in SUBSET Existing PROVE Near(t, [t EXCEPT !.runs = x])
  BY DEF Near, TabOK, PollFits, Wants
<1> QED
  BY <1>1, <1>2, <1>3, <1>4, <1>5, <1>6, <1>7, <1>8, <1>9, <1>10, <1>11

LEMMA Dialogs ==
  ASSUME NEW t, TabOK(t)
  PROVE  /\ Near(t, OpenSettings(t)) /\ Near(t, OpenTrustDialog(t))
         /\ \A d : Near(t, CloseDialog(t, d))
         /\ \A c : Near(t, HandleRequestError(t, c))
<1>1. ASSUME NEW d PROVE Near(t, Open(t, d))
  BY Drawn DEF Open
<1>2. Near(t, OpenSettings(t))
  BY <1>1 DEF OpenSettings
<1>3. Near(t, OpenTrustDialog(t))
  <2> DEFINE o == Open(t, "trust")
             p == [o EXCEPT !.path = t.profile.root]
  <2>1. Near(t, o) /\ TabOK(o)
    BY <1>1 DEF Near
  <2> HIDE DEF o
  <2>2. Near(o, p)
    BY <2>1, Drawn
  <2> HIDE DEF p
  <2>3. Near(t, p)
    BY <2>1, <2>2, NearTrans
  <2> QED
    BY <1>2, <2>3, Drawn DEF OpenTrustDialog, o, p
<1>4. ASSUME NEW d PROVE Near(t, CloseDialog(t, d))
  BY Drawn DEF CloseDialog
<1> QED
  BY <1>2, <1>3, <1>4, Drawn DEF HandleRequestError

\* A timer is set for the run that is selected or the one that was asked for.
LEMMA Scheduled ==
  ASSUME WorkbenchAssumption, NEW t, TabOK(t), NEW r \in Existing \cup {None},
         t.selected # None => Wants(t, IF r = None THEN RunOf(t.selected) ELSE r)
  PROVE  Near(t, SchedulePoll(t, r))
<1>1. CASE SchedulePoll(t, r) = [t EXCEPT !.poll = None]
  BY <1>1, Drawn
<1>2. CASE /\ t.selected # None
           /\ SchedulePoll(t, r) = [t EXCEPT !.poll = IF r = None THEN t.selected.id ELSE r]
  BY <1>2 DEF Near, TabOK, TabFields, PollFits, Wants, RunOf
<1> QED
  BY <1>1, <1>2 DEF SchedulePoll

LEMMA Matching ==
  ASSUME WorkbenchAssumption, NEW t, TabOK(t), NEW w
  PROVE  /\ t.selected = None <=> RunOf(t.selected) = None
         /\ SelectionMatches(t, w) <=>
              w.epoch = t.epoch /\ w.run # None /\ RunOf(t.selected) = w.run
         /\ CarryOK(w, t) /\ w.kind \in Choosing /\ SelectionMatches(t, w) =>
              Wants(t, RunOf(t.selected)) /\ Wants(t, w.run)
<1>1. t.selected # None => t.selected \in Views /\ t.selected.id \in Runs
  BY DEF TabOK, Views
<1>2. t.selected = None <=> RunOf(t.selected) = None
  BY <1>1 DEF RunOf, WorkbenchAssumption
<1>3. SelectionMatches(t, w) <=> w.epoch = t.epoch /\ w.run # None /\ RunOf(t.selected) = w.run
  BY <1>1, <1>2 DEF RunOf, SelectionMatches, WorkbenchAssumption
<1> QED
  BY <1>2, <1>3 DEF CarryOK

\* The run in view is shown as the service has just described it.
LEMMA Reselected ==
  ASSUME WorkbenchAssumption, NEW t, TabOK(t), NEW w, CarryOK(w, t), w.held # None,
         SelectionMatches(t, w)
  PROVE  /\ Near(t, [t EXCEPT !.selected = w.held])
         /\ \A x \in {None, w.run} : Near(t, [t EXCEPT !.selected = w.held, !.trace = x])
<1>1. w.held \in Views /\ RunOf(w.held) = w.run /\ RunOf(t.selected) = w.run
  BY Matching DEF CarryOK, RunOf
<1>2. Near(t, [t EXCEPT !.selected = w.held])
  BY <1>1 DEF Near, TabOK, TabFields, PollFits, Wants
<1>3. ASSUME NEW x \in {None, w.run} PROVE Near(t, [t EXCEPT !.selected = w.held, !.trace = x])
  BY <1>1, <1>3 DEF Near, TabOK, TabFields, PollFits, Wants
<1> QED
  BY <1>2, <1>3

-----------------------------------------------------------------------------
(* How a call goes on when a function it called has returned *)

\* The call is under way, the tab is as it has left it so far; trusting a
\* directory selects nothing.
Unchosen(t) == RunOf(t.selected) \in {None, RunOf(tab.selected)}
Going(f, w, t) ==
  /\ f \in Flows /\ Moved(tab, t) /\ CarryOK(w, t) /\ Heir(f, w)
  /\ w.kind = "trust" => Unchosen(t)

LEMMA GoingOn ==
  ASSUME NEW f, NEW w, NEW t, NEW u, Going(f, w, t), Near(t, u)
  PROVE  Going(f, w, u) /\ Moved(tab, u) /\ (Unchosen(t) => Unchosen(u))
<1>1. TabOK(t)
  BY DEF Going, Moved
<1>2. Unchosen(t) => Unchosen(u)
  BY DEF Near, Unchosen
<1> QED
  BY <1>1, <1>2, NearCarries DEF Going

\* The end of a call, with the run in view rendered and followed or not.
LEMMA Ended ==
  ASSUME WorkbenchAssumption, WorkbenchInv, Still, NEW f, NEW w, NEW t, NEW u,
         Going(f, w, t), Near(t, u), Done(f, u)
  PROVE  Kept
BY GoingOn, Finished DEF Going

LEMMA StartFailedKept ==
  ASSUME WorkbenchAssumption, WorkbenchInv, Still, NEW f, NEW w, NEW t, Going(f, w, t),
         StartFailed(f, w, t)
  PROVE  Kept
<1> DEFINE h == HandleRequestError(t, w.err)
           e == [h EXCEPT !.busy = FALSE]
<1>1. TabOK(t) /\ TabOK(h) /\ Near(t, h)
  BY Dialogs DEF Going, Moved, Near
<1>3. StartFailed(f, w, t) = Done(f, IF w.kind = "start" /\ SelectionMatches(t, w)
                                     THEN SchedulePoll(RenderAll(e), None) ELSE e)
  BY DEF StartFailed
<1> HIDE DEF h
<1>2. Near(t, e)
  BY <1>1, Drawn, NearTrans
<1> HIDE DEF e
<1>4. CASE w.kind = "start" /\ SelectionMatches(t, w)
  <2> DEFINE d == RenderAll(e)
  <2>1. Near(t, d) /\ TabOK(d)
    BY <1>1, <1>2, Drawn, NearTrans DEF Near
  <2>2. Wants(d, RunOf(d.selected))
    BY <1>1, <1>4, <2>1, Matching DEF Choosing, Going, Near, Wants
  <2> HIDE DEF d
  <2>3. Near(t, SchedulePoll(d, None))
    BY <1>1, <2>1, <2>2, Scheduled, NearTrans
  <2> QED
    BY <1>3, <1>4, <2>3, Ended DEF d
<1>5. CASE ~(w.kind = "start" /\ SelectionMatches(t, w))
  BY <1>2, <1>3, <1>5, Ended
<1> QED
  BY <1>4, <1>5

LEMMA AfterSelectRunKept ==
  ASSUME WorkbenchAssumption, WorkbenchInv, Still, NEW f, NEW w, NEW t, Going(f, w, t),
         AfterSelectRun(f, w, t)
  PROVE  Kept
<1>1. TabOK(t)
  BY DEF Going, Moved
<1> QED
  BY <1>1, Drawn, Ended, StartFailedKept DEF AfterSelectRun

LEMMA SelectRunThrowsKept ==
  ASSUME WorkbenchAssumption, WorkbenchInv, Still, NEW f, NEW w, NEW t, NEW code, Going(f, w, t),
         w.kind \in Choosing, w.epoch = t.epoch, w.run # None, SelectRunThrows(f, w, t, code)
  PROVE  Kept
<1> DEFINE e == HandleRequestError(t, code)
<1>1. TabOK(t) /\ TabOK(e) /\ Near(t, e)
  BY Dialogs DEF Going, Moved, Near
<1>2. SelectRunThrows(f, w, t, code) =
        CASE w.kind = "poll" -> Done(f, SchedulePoll(e, w.run))
          [] w.kind \in {"create", "start"} -> StartFailed(f, w, t)
          [] OTHER -> AfterSelectRun(f, w, e)
  BY DEF SelectRunThrows
<1>3. Going(f, w, e)
  BY <1>1, GoingOn
<1> HIDE DEF e
<1>4. CASE w.kind = "poll"
  <2>1. w.run \in Existing /\ Wants(e, w.run)
    BY <1>1 DEF Going, CarryOK, Near, Wants
  <2>2. Near(t, SchedulePoll(e, w.run))
    BY <1>1, <2>1, Scheduled, NearTrans
  <2> QED
    BY <1>2, <1>4, <2>2, Ended
<1>5. CASE w.kind \in {"create", "start"}
  BY <1>2, <1>5, StartFailedKept
<1>6. CASE w.kind \notin {"poll", "create", "start"}
  BY <1>2, <1>3, <1>6, AfterSelectRunKept
<1> QED
  BY <1>4, <1>5, <1>6

\* A run is read again for the error handlers and the timer: the wanted one.
LEMMA SelectRunKept ==
  ASSUME WorkbenchAssumption, WorkbenchInv, Still, NEW f, NEW w, NEW t, Going(f, w, t),
         w.kind \in Choosing, Wants(t, w.run), w.kind = "create" => w.epoch = t.epoch,
         SelectRun(f, w, t)
  PROVE  Kept
<1> DEFINE c == [t EXCEPT !.poll = None]
           s == [w EXCEPT !.epoch = t.epoch]
<1>1. TabOK(t) /\ TabOK(c) /\ Near(t, c) /\ Moved(tab, c)
  BY Drawn, GoingOn DEF Going, Moved, Near
<1>2. CarryOK(s, c) /\ s.kind = w.kind /\ s.run = w.run /\ Heir(f, s)
  BY <1>1 DEF Going, CarryOK, CallFields, Near, Wants, TabOK, Heir
<1>3. SelectRun(f, w, t) = IF t.selected # None /\ t.selected.id = w.run
                           THEN Await(f, s, "run", c) ELSE AfterSelectRun(f, s, c)
  BY DEF SelectRun
<1> HIDE DEF c, s
<1>4. CASE t.selected # None /\ t.selected.id = w.run
  <2>1. w.run # None
    BY <1>1, <1>4 DEF TabOK, Views, WorkbenchAssumption
  <2>2. AtOK(s, "run", c)
    BY <1>2, <2>1 DEF AtOK, Ops, OfRuns, Choosing
  <2> QED
    BY <1>1, <1>2, <1>3, <1>4, <2>2, Waiting DEF Going
<1>5. CASE ~(t.selected # None /\ t.selected.id = w.run)
  BY <1>1, <1>2, <1>3, <1>5, AfterSelectRunKept DEF Going, Choosing
<1> QED
  BY <1>4, <1>5

\* A task is created: a navigation to a run that has no id yet.
LEMMA EnterCreateKept ==
  ASSUME WorkbenchAssumption, WorkbenchInv, Still, NEW f \in Flows, NEW w, NEW t, Moved(tab, t),
         DOMAIN w = CallFields, w.held = None, t.workspace # None, Unchosen(t),
         EnterCreate(f, w, t)
  PROVE  Kept
<1> DEFINE n == [Navigate(t, Fresh) EXCEPT !.busy = TRUE]
           m == [w EXCEPT !.kind = "create", !.run = None, !.epoch = n.epoch,
                          !.ws = n.workspace, !.level = n.mode]
<1>1. /\ TabOK(n) /\ n.epoch = t.epoch + 1 /\ n.wanted = Fresh /\ n.workspace = t.workspace
      /\ n.selected = t.selected
  BY DEF Navigate, Moved, TabOK, TabFields, PollFits, Wants
<1>0. t.epoch \in Nat /\ tab.epoch \in Nat /\ t.epoch >= tab.epoch
  BY DEF Moved, TabOK, WorkbenchInv
<1>2. Moved(tab, n)
  BY <1>0, <1>1 DEF Moved, SelectionStep, Unchosen
<1>3. DOMAIN m = CallFields /\ m.kind = "create" /\ m.run = None /\ m.epoch = n.epoch
      /\ m.ws = n.workspace /\ m.level = n.mode /\ m.held = None
  BY DEF CallFields
<1>4. Await(f, m, "create", n)
  BY DEF EnterCreate
<1> HIDE DEF n, m
<1>5. CarryOK(m, n)
  BY <1>1, <1>3 DEF CarryOK, Choosing, TabOK, Wants
<1>6. AtOK(m, "create", n)
  BY <1>1, <1>3 DEF AtOK, Ops, OfRuns, TabOK, Moved
<1>7. Heir(f, m)
  BY <1>1, <1>3 DEF Heir, Moved, TabOK, WorkbenchInv
<1> QED
  BY <1>2, <1>3, <1>4, <1>5, <1>6, <1>7, Waiting

\* A planned run is started, unless its directory has to be trusted first.
LEMMA EnterStartKept ==
  ASSUME WorkbenchAssumption, WorkbenchInv, Still, NEW f \in Flows, NEW w, NEW t, NEW r,
         Moved(tab, t), DOMAIN w = CallFields, w.held = None, w.level \in Levels,
         EnterStart(f, w, t, r)
  PROVE  Kept
<1>1. TabOK(t)
  BY DEF Moved
<1>2. CASE Done(f, t)
  BY <1>2, Finished
<1>3. ASSUME t.selected # None, t.selected.id = r,
             Done(f, OpenTrustDialog([t EXCEPT !.pendingRun = r]))
      PROVE  Kept
  <2> DEFINE p == [t EXCEPT !.pendingRun = r]
  <2>1. Near(t, p) /\ TabOK(p)
    BY <1>1, <1>3 DEF Near, TabOK, TabFields, PollFits, Wants, RunOf
  <2> HIDE DEF p
  <2>2. Moved(tab, OpenTrustDialog(p))
    BY <1>1, <2>1, Dialogs, NearTrans, NearCarries
  <2> QED
    BY <1>3, <2>2, Finished DEF p
<1>4. ASSUME t.selected # None, t.selected.id = r,
             NEW n, n = [Navigate(t, r) EXCEPT !.busy = TRUE, !.pendingRun = None,
                                               !.selected.status = "starting"],
             Await(f, [w EXCEPT !.kind = "start", !.run = r, !.epoch = n.epoch],
                   "start", RenderAll(n))
      PROVE  Kept
  <2> DEFINE m == [w EXCEPT !.kind = "start", !.run = r, !.epoch = n.epoch]
  <2>1. r \in Existing /\ r # None /\ t.selected \in Views
    BY <1>1, <1>4 DEF TabOK, RunOf, Views, WorkbenchAssumption
  <2>2. [t.selected EXCEPT !.status = "starting"] \in Views
    BY <2>1 DEF Views, Statuses, Transient
  <2>3. /\ n.selected \in Views /\ n.selected.id = r
        /\ n.epoch = t.epoch + 1 /\ n.wanted = r /\ TabOK(n)
    <3>1. n.selected = [t.selected EXCEPT !.status = "starting"] /\ n.selected.id = r
      BY <1>1, <1>4, <2>1 DEF Navigate, TabOK, TabFields, Views
    <3>2. RunOf(n.selected) = r /\ RunOf(t.selected) = r
      BY <1>4, <2>1, <2>2, <3>1 DEF RunOf, WorkbenchAssumption
    <3> QED
      BY <1>1, <1>4, <2>1, <2>2, <3>1, <3>2 DEF Navigate, TabOK, TabFields, PollFits
  <2>4. Near(n, RenderAll(n))
    BY <2>3, Drawn
  <2>5. Moved(tab, n)
    BY <2>1, <2>3 DEF Moved, TabOK, WorkbenchInv, SelectionStep, Wants, RunOf
  <2>6. DOMAIN m = CallFields /\ m.kind = "start" /\ m.run = r /\ m.epoch = n.epoch
        /\ m.held = None /\ m.level = w.level
    BY DEF CallFields
  <2> HIDE DEF m
  <2>7. CarryOK(m, n)
    BY <2>1, <2>3, <2>6 DEF CarryOK, Choosing, TabOK, Wants
  <2>8. AtOK(m, "start", RenderAll(n)) /\ Heir(f, m)
    BY <2>1, <2>6 DEF AtOK, Ops, OfRuns, Choosing, Heir
  <2> QED
    BY <1>4, <2>3, <2>4, <2>5, <2>6, <2>7, <2>8, NearCarries, Waiting DEF m
<1> QED
  BY <1>2, <1>3, <1>4 DEF EnterStart

\* A directory has been trusted: what waited for it is started.
LEMMA AfterTrustKept ==
  ASSUME WorkbenchAssumption, WorkbenchInv, Still, NEW f, NEW w, NEW t, Going(f, w, t),
         w.kind = "trust", AfterTrust(f, w, t)
  PROVE  Kept
<1> DEFINE d == RenderAll(t)
           r == [d EXCEPT !.busy = FALSE]
           p == [r EXCEPT !.pendingRun = None]
<1>1. TabOK(t) /\ Near(t, d) /\ TabOK(d)
  BY Drawn DEF Going, Moved, Near
<1>2. AfterTrust(f, w, t) =
        IF r.pendingRun # None THEN EnterStart(f, w, p, r.pendingRun)
        ELSE IF r.goal THEN EnterCreate(f, w, r) ELSE Done(f, r)
  BY DEF AfterTrust
<1> HIDE DEF d
<1>3. Near(t, r) /\ TabOK(r)
  BY <1>1, Drawn, NearTrans DEF Near
<1> HIDE DEF r
<1>4. Near(t, p)
  BY <1>3, Drawn, NearTrans
<1> HIDE DEF p
<1>5. Moved(tab, r) /\ Moved(tab, p) /\ Unchosen(r)
  BY <1>3, <1>4, GoingOn DEF Going
<1>6. f \in Flows /\ DOMAIN w = CallFields /\ w.held = None /\ w.level \in Levels
  BY DEF Going, CarryOK
<1>7. r.goal => r.workspace # None
  BY <1>3 DEF TabOK
<1> QED
  BY <1>2, <1>5, <1>6, <1>7, EnterStartKept, EnterCreateKept, Finished

LEMMA AfterRefreshRunsKept ==
  ASSUME WorkbenchAssumption, WorkbenchInv, Still, NEW f, NEW w, NEW t, Going(f, w, t),
         w.kind \in {"create", "start", "resolve"} => w.held # None,
         AfterRefreshRuns(f, w, t)
  PROVE  Kept
<1> USE DEF Choosing
<1>1. TabOK(t) /\ CarryOK(w, t)
  BY DEF Going, Moved
<1>2. ASSUME NEW u, Near(t, u), Done(f, [u EXCEPT !.busy = FALSE]) PROVE Kept
  BY <1>2, Drawn, NearTrans, Ended DEF Near
<1>3. ASSUME NEW u, Near(t, u), SelectionMatches(t, w), w.kind \in Choosing
      PROVE  Near(t, SchedulePoll(RenderAll(u), None))
  <2> DEFINE d == RenderAll(u)
  <2>1. Near(t, d) /\ TabOK(d)
    BY <1>3, Drawn, NearTrans DEF Near
  <2>2. Wants(d, RunOf(d.selected))
    BY <1>1, <1>3, <2>1, Matching DEF Near, Wants
  <2> HIDE DEF d
  <2>3. Near(d, SchedulePoll(d, None))
    BY <2>1, <2>2, Scheduled
  <2> QED
    BY <2>1, <2>3, NearTrans DEF d
<1>4. CASE w.kind = "connect"
  <2> DEFINE r == RenderAll(t)
             s == IF (r.goal \/ r.pendingRun # None) /\ r.profile # None /\ ~r.profile.trusts
                  THEN OpenTrustDialog(r) ELSE r
  <2>1. Done(f, [s EXCEPT !.busy = FALSE])
    BY <1>4 DEF AfterRefreshRuns
  <2>2. Near(t, r) /\ TabOK(r)
    BY <1>1, Drawn DEF Near
  <2> HIDE DEF r
  <2>3. Near(t, s)
    BY <2>2, Dialogs, NearTrans
  <2> HIDE DEF s
  <2> QED
    BY <1>2, <2>1, <2>3
<1>5. CASE w.kind = "bootstrap"
  BY <1>1, <1>5, Drawn, Ended DEF AfterRefreshRuns
<1>6. CASE w.kind = "create"
  <2>1. Done(f, [IF SelectionMatches(t, w)
                 THEN SchedulePoll(RenderAll([t EXCEPT !.selected = w.held]), None)
                 ELSE t EXCEPT !.busy = FALSE])
    BY <1>6 DEF AfterRefreshRuns
  <2>2. CASE SelectionMatches(t, w)
    <3> DEFINE u == [t EXCEPT !.selected = w.held]
    <3>1. Near(t, u)
      BY <1>1, <1>6, <2>2, Reselected
    <3> HIDE DEF u
    <3>2. Near(t, SchedulePoll(RenderAll(u), None))
      BY <1>3, <1>6, <2>2, <3>1
    <3> QED
      BY <1>2, <2>1, <2>2, <3>2 DEF u
  <2>3. CASE ~SelectionMatches(t, w)
    BY <1>1, <1>2, <2>1, <2>3, Drawn
  <2> QED
    BY <2>2, <2>3
<1>7. CASE w.kind = "start"
  <2>1. Done(f, IF SelectionMatches(t, w)
                THEN SchedulePoll(RenderAll([t EXCEPT !.selected = w.held,
                                      !.trace = None, !.busy = FALSE]), None)
                ELSE [t EXCEPT !.busy = FALSE])
    BY <1>7 DEF AfterRefreshRuns
  <2>2. CASE SelectionMatches(t, w)
    <3> DEFINE c == [t EXCEPT !.selected = w.held, !.trace = None]
               u == [t EXCEPT !.selected = w.held, !.trace = None, !.busy = FALSE]
    <3>1. Near(t, c) /\ TabOK(c) /\ u = [c EXCEPT !.busy = FALSE]
      BY <1>1, <1>7, <2>2, Reselected DEF Near
    <3> HIDE DEF c
    <3>2. Near(t, u)
      BY <3>1, Drawn, NearTrans
    <3> HIDE DEF u
    <3>3. Near(t, SchedulePoll(RenderAll(u), None))
      BY <1>3, <1>7, <2>2, <3>2
    <3> QED
      BY <2>1, <2>2, <3>3, Ended DEF u
  <2>3. CASE ~SelectionMatches(t, w)
    BY <1>1, <1>2, <2>1, <2>3, Drawn
  <2> QED
    BY <2>2, <2>3
<1>8. CASE w.kind = "resolve" /\ w.err = None /\ SelectionMatches(t, w) /\ w.held.status = "done"
  <2>1. Await(f, w, "trace", t)
    BY <1>8 DEF AfterRefreshRuns
  <2>2. w.run # None
    BY <1>1, <1>8, Matching
  <2>3. AtOK(w, "trace", t)
    BY <1>8, <2>2 DEF AtOK, Ops, OfRuns
  <2> QED
    BY <1>8, <2>1, <2>3, Waiting DEF Going
<1>9. CASE w.kind = "resolve" /\ w.err = None /\ SelectionMatches(t, w) /\ w.held.status # "done"
  <2> DEFINE u == [t EXCEPT !.selected = w.held, !.trace = None]
  <2>1. Done(f, [SchedulePoll(RenderAll(u), None) EXCEPT !.busy = FALSE])
    BY <1>9 DEF AfterRefreshRuns
  <2>2. Near(t, u)
    BY <1>1, <1>9, Reselected
  <2> HIDE DEF u
  <2>3. Near(t, SchedulePoll(RenderAll(u), None))
    BY <1>3, <1>9, <2>2
  <2> QED
    BY <1>2, <2>1, <2>3
<1>10. CASE /\ w.kind \notin {"connect", "bootstrap", "create", "start"}
            /\ ~(w.kind = "resolve" /\ w.err = None /\ SelectionMatches(t, w))
  BY <1>1, <1>2, <1>10, Drawn DEF AfterRefreshRuns
<1> QED
  BY <1>4, <1>5, <1>6, <1>7, <1>8, <1>9, <1>10

LEMMA RefreshRunsKept ==
  ASSUME WorkbenchAssumption, WorkbenchInv, Still, NEW f, NEW w, NEW t, Going(f, w, t),
         \/ w.kind \in {"connect", "bootstrap"}
         \/ w.kind \in {"create", "start", "resolve"} /\ w.held # None,
         w.kind = "connect" => w.typed.op = "valid",
         RefreshRuns(f, w, t)
  PROVE  Kept
<1>1. CASE t.operator = None
  <2> DEFINE e == [t EXCEPT !.runs = {}]
  <2>1. AfterRefreshRuns(f, w, e)
    BY <1>1 DEF RefreshRuns
  <2>2. Near(t, e)
    BY Drawn DEF Going, Moved
  <2> HIDE DEF e
  <2> QED
    BY <2>1, <2>2, GoingOn, AfterRefreshRunsKept
<1>2. CASE t.operator # None
  <2>1. AtOK(w, "list", t)
    BY DEF AtOK, Ops, OfRuns
  <2> QED
    BY <1>2, <2>1, Waiting DEF Going, RefreshRuns
<1> QED
  BY <1>1, <1>2

LEMMA AfterRefreshWorkspaceKept ==
  ASSUME WorkbenchAssumption, WorkbenchInv, Still, NEW f, NEW w, NEW t, NEW ok, Going(f, w, t),
         SelectionHolds(w, t), w.kind = "connect" => w.typed.op = "valid",
         AfterRefreshWorkspace(f, w, t, ok)
  PROVE  Kept
<1>1. CASE w.kind \in {"connect", "bootstrap"}
  BY <1>1, RefreshRunsKept DEF AfterRefreshWorkspace
<1>2. CASE w.kind = "trust"
  BY <1>2, AfterTrustKept DEF AfterRefreshWorkspace
<1>3. CASE w.kind \in Choosing
  <2>1. CASE ok /\ w.epoch = t.epoch
    <3> DEFINE d == RenderAll(t)
    <3>1. Near(t, d) /\ TabOK(d) /\ TabOK(t)
      BY Drawn DEF Going, Moved, Near
    <3>2. d.selected # None => Wants(d, RunOf(d.selected))
      BY <1>3, <2>1, <3>1, Matching DEF SelectionHolds, Near, Wants
    <3>3. AfterSelectRun(f, w, SchedulePoll(d, None))
      BY <1>3, <2>1 DEF AfterRefreshWorkspace, Choosing
    <3> HIDE DEF d
    <3>4. Near(t, SchedulePoll(d, None))
      BY <3>1, <3>2, Scheduled, NearTrans
    <3> QED
      BY <3>3, <3>4, GoingOn, AfterSelectRunKept
  <2>2. CASE ~(ok /\ w.epoch = t.epoch)
    BY <1>3, <2>2, AfterSelectRunKept DEF AfterRefreshWorkspace, Choosing
  <2> QED
    BY <2>1, <2>2
<1> QED
  BY <1>1, <1>2, <1>3 DEF Going, CarryOK

LEMMA RefreshWorkspaceKept ==
  ASSUME WorkbenchAssumption, WorkbenchInv, Still, NEW f, NEW w, NEW t, Going(f, w, t),
         SelectionHolds(w, t), w.kind = "connect" => w.typed.op = "valid",
         RefreshWorkspace(f, w, t)
  PROVE  Kept
<1>1. TabOK(t)
  BY DEF Going, Moved
<1>2. CASE t.workspace = None \/ t.operator = None
  <2> DEFINE p == [t EXCEPT !.profile = None]
  <2>1. AfterRefreshWorkspace(f, w, p, FALSE)
    BY <1>2 DEF RefreshWorkspace
  <2>2. Near(t, p)
    BY <1>1, Drawn
  <2> HIDE DEF p
  <2> QED
    BY <1>1, <2>1, <2>2, GoingOn, NearCarries, AfterRefreshWorkspaceKept
<1>3. CASE ~(t.workspace = None \/ t.operator = None)
  <2> DEFINE m == [w EXCEPT !.ws = t.workspace]
  <2>1. Await(f, m, "profile", t)
    BY <1>3 DEF RefreshWorkspace
  <2>2. /\ DOMAIN m = CallFields /\ m.ws = t.workspace
        /\ \A x \in CallFields \ {"ws"} : m[x] = w[x]
    BY DEF Going, CarryOK, CallFields
  <2> HIDE DEF m
  <2>3. CarryOK(m, t) /\ AtOK(m, "profile", t)
    BY <1>1, <1>3, <2>2 DEF Going, CarryOK, AtOK, Ops, OfRuns, CallFields, TabOK, SelectionHolds
  <2>4. Heir(f, m)
    BY <2>2 DEF Going, Heir, CallFields
  <2> QED
    BY <2>1, <2>3, <2>4, Waiting DEF Going
<1> QED
  BY <1>2, <1>3

\* The run that was read is the wanted one: it is selected.
LEMMA SelectedKept ==
  ASSUME WorkbenchAssumption, WorkbenchInv, Still, NEW f, NEW w, NEW t, Going(f, w, t),
         w.kind \in Choosing, w.epoch = t.epoch, w.held # None, Selected(f, w, t)
  PROVE  Kept
<1> DEFINE x == IF w.held.status = "done" /\ w.reply.code = "ok" THEN w.held.id ELSE None
           u == [t EXCEPT !.selected = w.held, !.trace = x, !.workspace = w.held.home]
<1>1. RefreshWorkspace(f, w, u)
  BY DEF Selected
<1>2. /\ TabOK(t) /\ CarryOK(w, t)
      /\ w.held \in Views /\ w.held.home \in Workspaces /\ RunOf(w.held) = w.run
      /\ x \in {None, w.run}
  BY DEF Going, Moved, CarryOK, Views, RunOf
<1>3. w.held.home # None /\ w.run # None
  BY <1>2 DEF WorkbenchAssumption, Views, RunOf
<1>w. Wants(t, w.run)
  BY <1>2, <1>3 DEF CarryOK
<1>4. w.run \in Existing
  BY <1>2, <1>3 DEF CarryOK
<1> HIDE DEF x
<1>5. TabOK(u) /\ u.epoch = t.epoch /\ u.wanted = t.wanted /\ u.selected = w.held
  BY <1>2, <1>3, <1>4, <1>w DEF TabOK, TabFields, PollFits, Wants
<1> HIDE DEF u
<1>6. Moved(tab, u) /\ CarryOK(w, u) /\ SelectionHolds(w, u)
  BY <1>2, <1>5, <1>w DEF Going, Moved, CarryOK, SelectionHolds, SelectionStep, Wants
<1> QED
  BY <1>1, <1>6, RefreshWorkspaceKept DEF Going, Choosing

-----------------------------------------------------------------------------
(* Answers arrive *)

Arriving(f, w, t) == Going(f, w, t) /\ CallOK(w, t) /\ w.reply # None /\ w = flow[f]

LEMMA AnsweredKept ==
  ASSUME WorkbenchAssumption, WorkbenchInv, NEW f \in Flows, NEW w, w = flow[f], w # Idle,
         w.reply # None, NEW t, t = Answered(tab, w)
  PROVE  Arriving(f, w, t)
<1>1. TabOK(tab) /\ CallOK(w, tab)
  BY DEF WorkbenchInv
<1>2. Near(tab, t)
  <2>1. CASE t = tab
    BY <1>1, <2>1, Drawn
  <2>2. CASE t = [tab EXCEPT !.approver = None]
    BY <1>1, <2>2 DEF Near, TabOK, TabFields, PollFits, Wants
  <2>3. CASE t = [tab EXCEPT !.operator = None, !.stored = None]
    BY <1>1, <2>3 DEF Near, TabOK, TabFields, PollFits, Wants
  <2> QED
    BY <2>1, <2>2, <2>3 DEF Answered
<1>3. Moved(tab, t)
  BY <1>2 DEF Near, Moved, SelectionStep
<1>4. Heir(f, w) /\ Unchosen(t)
  BY <1>2 DEF Heir, Near, Unchosen
<1> QED
  BY <1>1, <1>3, <1>4, CallKept DEF Arriving, Going, CallOK

LEMMA ConnectedKept ==
  ASSUME WorkbenchAssumption, WorkbenchInv, Still, NEW f, NEW w, NEW t, Going(f, w, t),
         w.kind = "connect", w.typed.op = "valid", Connected(f, w, t)
  PROVE  Kept
<1> DEFINE ws == IF w.typed.ws = None THEN t.workspace ELSE w.typed.ws
           c == [t EXCEPT !.runtime = TRUE, !.stored = w.typed.op, !.workspace = ws]
           d == CloseDialog(c, "settings")
<1>1. RefreshWorkspace(f, w, d)
  BY DEF Connected
<1>2. TabOK(t) /\ w.typed.ws \in Workspaces \cup {None}
  BY DEF Going, Moved, CarryOK
<1>3. Near(t, c) /\ TabOK(c)
  BY <1>2 DEF Near, TabOK, TabFields, PollFits, Wants
<1> HIDE DEF c
<1>4. Near(t, d)
  BY <1>3, Dialogs, NearTrans
<1> HIDE DEF d
<1>5. SelectionHolds(w, d)
  BY DEF SelectionHolds, Choosing
<1> QED
  BY <1>1, <1>4, <1>5, GoingOn, RefreshWorkspaceKept

LEMMA ConnectFailsKept ==
  ASSUME WorkbenchAssumption, WorkbenchInv, Still, NEW f, NEW w, NEW t, Going(f, w, t),
         w.kind = "connect", ConnectFails(f, w, t)
  PROVE  Kept
<1>1. TabOK(t) /\ {w.before.op, w.before.ap} \subseteq Keys \cup {None}
  BY DEF Going, Moved, CarryOK
<1>2. Near(t, [t EXCEPT !.operator = w.before.op, !.approver = w.before.ap, !.busy = FALSE])
  BY <1>1 DEF Near, TabOK, TabFields, PollFits, Wants
<1> QED
  BY <1>2, Ended DEF ConnectFails

LEMMA RuntimeArrivesKept ==
  ASSUME WorkbenchAssumption, WorkbenchInv, Still, NEW f, NEW w, NEW t, Arriving(f, w, t),
         RuntimeArrives(f, w, t)
  PROVE  Kept
<1>1. /\ TabOK(t) /\ w.at = "runtime" /\ w.kind \in {"connect", "bootstrap"}
      /\ Going(f, w, t)
  BY DEF Arriving, Going, Moved, CallOK, AtOK, RuntimeArrives
<1>2. CASE w.kind = "bootstrap" /\ Ok(w)
  <2> DEFINE u == [t EXCEPT !.runtime = TRUE]
  <2>1. RefreshWorkspace(f, w, u)
    BY <1>2 DEF RuntimeArrives
  <2>2. Near(t, u)
    BY <1>1 DEF Near, TabOK, TabFields, PollFits, Wants
  <2> HIDE DEF u
  <2>3. SelectionHolds(w, u)
    BY <1>2 DEF SelectionHolds, Choosing
  <2> QED
    BY <1>1, <1>2, <2>1, <2>2, <2>3, GoingOn, RefreshWorkspaceKept
<1>3. CASE w.kind = "bootstrap" /\ ~Ok(w)
  BY <1>1, <1>3, Dialogs, Ended DEF RuntimeArrives
<1>4. CASE w.kind = "connect" /\ Fails(w)
  BY <1>1, <1>4, ConnectFailsKept DEF RuntimeArrives
<1>5. CASE w.kind = "connect" /\ ~Fails(w)
  \* The key that was typed is the one the server has accepted.
  <2>1. w.typed.op = "valid"
    BY <1>1, <1>5 DEF Arriving, CallOK, ReplyOK, Fails
  <2>2. CASE w.typed.ap = None
    BY <1>1, <1>5, <2>1, <2>2, ConnectedKept DEF RuntimeArrives
  <2>3. CASE w.typed.ap # None
    <3> DEFINE u == [t EXCEPT !.approver = w.typed.ap]
    <3>1. Await(f, w, "session", u)
      BY <1>5, <2>3 DEF RuntimeArrives
    <3>2. w.typed.ap \in Keys \cup {None}
      BY <1>1, <1>5 DEF Going, CarryOK
    <3>3. Near(t, u)
      BY <1>1, <3>2 DEF Near, TabOK, TabFields, PollFits, Wants
    <3> HIDE DEF u
    <3>4. AtOK(w, "session", u)
      BY <1>5, <2>1 DEF AtOK, Ops, OfRuns
    <3> QED
      BY <1>1, <3>1, <3>3, <3>4, GoingOn, Waiting DEF Going
  <2> QED
    BY <2>2, <2>3
<1> QED
  BY <1>1, <1>2, <1>3, <1>4, <1>5

LEMMA SessionArrivesKept ==
  ASSUME WorkbenchAssumption, WorkbenchInv, Still, NEW f, NEW w, NEW t, Arriving(f, w, t),
         SessionArrives(f, w, t)
  PROVE  Kept
BY ConnectedKept, ConnectFailsKept DEF SessionArrives, Arriving, CallOK, AtOK

LEMMA ProfileArrivesKept ==
  ASSUME WorkbenchAssumption, WorkbenchInv, Still, NEW f, NEW w, NEW t, Arriving(f, w, t),
         ProfileArrives(f, w, t)
  PROVE  Kept
<1>1. /\ TabOK(t) /\ w.at = "profile" /\ Going(f, w, t) /\ SelectionHolds(w, t)
      /\ w.kind = "connect" => w.typed.op = "valid"
  BY DEF Arriving, Going, Moved, CallOK, AtOK, ProfileArrives
<1>2. CASE AfterRefreshWorkspace(f, w, t, FALSE)
  BY <1>1, <1>2, AfterRefreshWorkspaceKept
<1>3. ASSUME NEW u, Near(t, u), NEW ok, AfterRefreshWorkspace(f, w, u, ok) PROVE Kept
  BY <1>1, <1>3, GoingOn, NearCarries, AfterRefreshWorkspaceKept
<1>4. ASSUME w.ws = t.workspace,
             AfterRefreshWorkspace(f, w, [t EXCEPT !.profile =
               [root |-> w.ws, trusts |-> w.reply.trusts]], TRUE)
      PROVE  Kept
  <2>1. w.ws \in Workspaces /\ w.ws # None /\ w.reply.trusts \in BOOLEAN
    BY <1>1 DEF Arriving, CallOK, AtOK, ReplyOK, Replies, WorkbenchAssumption
  <2>2. [root |-> w.ws, trusts |-> w.reply.trusts] \in Profiles
    BY <2>1 DEF Profiles
  <2>3. Near(t, [t EXCEPT !.profile = [root |-> w.ws, trusts |-> w.reply.trusts]])
    BY <1>1, <1>4, <2>1, <2>2 DEF Near, TabOK, TabFields, PollFits, Wants
  <2> QED
    BY <1>3, <1>4, <2>3
<1>5. CASE AfterRefreshWorkspace(f, w, [t EXCEPT !.profile = None], FALSE)
  BY <1>1, <1>3, <1>5, Drawn
<1> QED
  BY <1>2, <1>4, <1>5 DEF ProfileArrives

LEMMA ListArrivesKept ==
  ASSUME WorkbenchAssumption, WorkbenchInv, Still, NEW f, NEW w, NEW t, Arriving(f, w, t),
         ListArrives(f, w, t)
  PROVE  Kept
<1> DEFINE u == IF Ok(w) THEN [t EXCEPT !.runs = w.reply.runs]
                ELSE HandleRequestError(t, w.reply.code)
<1>1. AfterRefreshRuns(f, w, u)
  BY DEF ListArrives
<1>2. /\ TabOK(t) /\ w.at = "list" /\ Going(f, w, t)
      /\ w.kind \in {"create", "start", "resolve"} => w.held # None
      /\ w.reply.runs \in SUBSET Existing
  BY DEF Arriving, Going, Moved, CallOK, AtOK, ReplyOK, ListArrives
<1>3. Near(t, u)
  BY <1>2, Drawn, Dialogs
<1> HIDE DEF u
<1> QED
  BY <1>1, <1>2, <1>3, GoingOn, AfterRefreshRunsKept

LEMMA RunArrivesKept ==
  ASSUME WorkbenchAssumption, WorkbenchInv, Still, NEW f, NEW w, NEW t, Arriving(f, w, t),
         RunArrives(f, w, t)
  PROVE  Kept
<1>1. /\ w.at = "run" /\ Going(f, w, t) /\ w.kind \in Choosing /\ w.run # None
  BY DEF Arriving, CallOK, AtOK, OfRuns, RunArrives
<1>2. CASE w.epoch # t.epoch
  BY <1>1, <1>2, AfterSelectRunKept DEF RunArrives
<1>3. CASE w.epoch = t.epoch /\ Fails(w)
  BY <1>1, <1>3, SelectRunThrowsKept DEF RunArrives
<1>4. CASE w.epoch = t.epoch /\ ~Fails(w)
  <2> DEFINE s == [w EXCEPT !.held = w.reply.run]
  <2>1. IF s.held.status = "done" THEN Await(f, s, "trace", t) ELSE Selected(f, s, t)
    BY <1>4 DEF RunArrives
  <2>2. w.reply.run \in Views /\ w.reply.run # None /\ w.reply.run.id = w.run
    BY <1>1, <1>4 DEF Arriving, CallOK, ReplyOK, Replies, Fails
  <2>3. /\ DOMAIN s = CallFields /\ s.held = w.reply.run
        /\ \A x \in CallFields \ {"held"} : s[x] = w[x]
    BY <1>1 DEF Going, CarryOK, CallFields
  <2> HIDE DEF s
  <2>4. CarryOK(s, t) /\ s.kind = w.kind /\ s.epoch = w.epoch /\ s.run = w.run /\ Heir(f, s)
    BY <1>1, <2>2, <2>3 DEF Going, CarryOK, CallFields, Choosing, Heir
  <2>5. AtOK(s, "trace", t)
    BY <1>1, <2>2, <2>3, <2>4 DEF AtOK, Ops, OfRuns, Choosing
  <2> QED
    BY <1>1, <1>4, <2>1, <2>2, <2>3, <2>4, <2>5, Waiting, SelectedKept DEF Going, Choosing
<1> QED
  BY <1>2, <1>3, <1>4

LEMMA TraceArrivesKept ==
  ASSUME WorkbenchAssumption, WorkbenchInv, Still, NEW f, NEW w, NEW t, Arriving(f, w, t),
         TraceArrives(f, w, t)
  PROVE  Kept
<1>1. Going(f, w, t) /\ w.kind \in Choosing /\ w.run # None /\ w.held # None
  BY DEF Arriving, CallOK, AtOK, OfRuns, TraceArrives
<1> QED
  BY <1>1, AfterSelectRunKept, SelectRunThrowsKept, SelectedKept DEF TraceArrives

\* The run of the newest task has come to be: of the calls under way only the one
\* that made it may still touch the page.
LEMMA OthersAreOlder ==
  ASSUME WorkbenchAssumption, WorkbenchInv, NEW f \in Flows, flow[f].kind = "create",
         NEW t, TabOK(t), t.wanted = Fresh, t.epoch = flow[f].epoch,
         NEW u, u.epoch = t.epoch, NEW g \in Flows \ {f}, CallOK(flow[g], t)
  PROVE  CallOK(flow[g], u)
<1>1. flow[g].kind \in Choosing => flow[g].epoch # t.epoch
  <2>1. flow[g].run # Fresh
    BY DEF CallOK, CarryOK, WorkbenchAssumption, Existing
  <2>2. flow[g].kind = "create" => flow[g].epoch # t.epoch
    BY DEF WorkbenchInv, OneFresh
  <2> QED
    BY <2>1, <2>2 DEF CallOK, CarryOK, Wants
<1>2. CarryOK(flow[g], u)
  BY <1>1 DEF CallOK, CarryOK
<1>3. AtOK(flow[g], flow[g].at, u)
  BY <1>1 DEF CallOK, AtOK, SelectionHolds, Choosing
<1> QED
  BY <1>2, <1>3 DEF CallOK

\* A run has been created; if no other navigation has begun, it is in view.
LEMMA CreatedArrivesKept ==
  ASSUME WorkbenchAssumption, WorkbenchInv, Still, NEW f, NEW w, NEW t, Arriving(f, w, t),
         CreatedArrives(f, w, t)
  PROVE  Kept
<1>1. /\ TabOK(t) /\ w.at = "create" /\ Going(f, w, t) /\ w.kind = "create"
      /\ CarryOK(w, t) /\ w = flow[f] /\ f \in Flows
      /\ w.epoch = t.epoch => t.wanted = Fresh
  BY DEF Arriving, Going, Moved, CallOK, AtOK, CreatedArrives
<1>2. CASE Fails(w)
  <2> DEFINE m == [w EXCEPT !.err = w.reply.code]
  <2>1. StartFailed(f, m, t)
    BY <1>2 DEF CreatedArrives
  <2>2. Going(f, m, t)
    BY <1>1 DEF Going, CarryOK, CallFields, Heir
  <2> HIDE DEF m
  <2> QED
    BY <2>1, <2>2, StartFailedKept
<1>3. CASE ~Fails(w)
  <2> DEFINE made == w.reply.run
             k == [t EXCEPT !.runs = @ \cup {made.id}]
             l == Known(k, w, made.id)
             s == [l EXCEPT !.selected = made, !.trace = None]
             m == [w EXCEPT !.run = made.id]
  <2>1. Await(f, m, "start", IF w.epoch = t.epoch THEN RenderAll(s) ELSE l)
    BY <1>3 DEF CreatedArrives
  <2>2. made \in Views /\ made # None /\ made.id \in Existing /\ RunOf(made) = made.id
    BY <1>1, <1>3 DEF Arriving, CallOK, ReplyOK, Replies, Fails, RunOf
  <2>3. made.id # None
    BY <2>2 DEF Views, WorkbenchAssumption
  <2>4. w.held = None
    BY <1>1 DEF Arriving, CallOK, AtOK
  <2>5. k = [t EXCEPT !.runs = t.runs \cup {made.id}] /\ t.runs \cup {made.id} \in SUBSET Existing
    BY <1>1, <2>2 DEF TabOK
  <2>6. Near(t, k) /\ TabOK(k) /\ k.wanted = t.wanted /\ k.epoch = t.epoch
    BY <1>1, <2>5, Drawn DEF Near
  <2>8. /\ DOMAIN m = CallFields /\ m.run = made.id
        /\ \A x \in CallFields \ {"run"} : m[x] = w[x]
    BY <1>1 DEF CarryOK, CallFields
  <2>9. l = IF w.epoch = t.epoch THEN [k EXCEPT !.wanted = made.id] ELSE k
    BY <1>1, <2>6 DEF Known
  <2> HIDE DEF k, l, m
  <2>10. \A u : AtOK(m, "start", u)
    BY <1>1, <2>3, <2>8 DEF AtOK, Ops, OfRuns, Choosing, CallFields
  <2>11. m.kind = "create" /\ m.epoch = w.epoch /\ Heir(f, m)
    BY <1>1, <2>8 DEF CallFields, Heir
  <2>12. CASE w.epoch = t.epoch
    <3> DEFINE d == RenderAll(s)
    <3>1. k.poll = None
      BY <1>1, <2>6, <2>12 DEF TabOK, PollFits, Wants, WorkbenchAssumption, Existing
    <3>2. /\ TabOK(s) /\ s.epoch = t.epoch /\ s.wanted = made.id /\ s.selected = made
      BY <2>2, <2>3, <2>6, <2>9, <2>12, <3>1 DEF TabOK, TabFields, PollFits, Wants
    <3> HIDE DEF s
    <3>a. Near(s, d)
      BY <3>2, Drawn
    <3>3. /\ TabOK(d) /\ d.epoch = t.epoch /\ d.wanted = made.id
          /\ RunOf(d.selected) = made.id
      BY <2>2, <3>2, <3>a DEF Near
    <3>4. CarryOK(m, d)
      BY <1>1, <2>2, <2>3, <2>4, <2>8, <2>12, <3>3 DEF CarryOK, CallFields, Wants
    <3>5. Await(f, m, "start", d)
      BY <2>1, <2>12
    <3> HIDE DEF d
    <3>6. CallOK(Sent(m, "start", d), d) /\ Heir(f, Sent(m, "start", d))
      BY <2>10, <2>11, <3>3, <3>4, Sending DEF Heir
    <3>7. /\ Existing' = Existing /\ tab' = d /\ row' = row /\ trusted' = trusted
          /\ DOMAIN flow' = Flows /\ flow'[f] = Sent(m, "start", d)
          /\ \A g \in Flows \ {f} : flow'[g] = flow[g]
      BY <1>1, <3>5 DEF Still, Existing, Await, WorkbenchInv
    <3>8. TabOK(tab)'
      BY <3>3, <3>7 DEF TabOK, PollFits
    <3>9. t.epoch = tab.epoch /\ Moved(tab, t) /\ TabOK(tab)
      BY <1>1, <2>12 DEF WorkbenchInv, CallOK, CarryOK, Going, Moved, TabOK, Idle
    <3>10. ASSUME NEW g \in Flows PROVE (flow[g] = Idle \/ CallOK(flow[g], tab))'
      <4>1. ASSUME g # f, flow[g] # Idle PROVE CallOK(flow[g], d)
        <5>1. CallOK(flow[g], t)
          BY <3>9, <4>1, CallKept DEF WorkbenchInv
        <5> QED
          BY <1>1, <2>12, <3>3, <4>1, <5>1, OthersAreOlder
      <4>2. flow'[g] = Idle \/ CallOK(flow'[g], d)
        BY <3>6, <3>7, <4>1
      <4> QED
        BY <3>7, <4>2 DEF CallOK, CarryOK, AtOK, ReplyOK
    <3>11. LatestChoice
      BY <3>3, <3>7 DEF LatestChoice
    <3>12. OneFresh'
      BY <1>1, <3>6, <3>7, FreshStays
    <3> QED
      BY <3>7, <3>8, <3>10, <3>11, <3>12 DEF Kept, WorkbenchInv
  <2>13. CASE w.epoch # t.epoch
    <3>1. l = k /\ CarryOK(m, k)
      BY <1>1, <2>2, <2>4, <2>6, <2>8, <2>9, <2>13 DEF CarryOK, CallFields, Near, Wants
    <3> QED
      BY <1>1, <2>1, <2>6, <2>8, <2>10, <2>11, <2>13, <3>1, GoingOn, Waiting DEF Going, CallFields
  <2> QED
    BY <2>12, <2>13
<1> QED
  BY <1>2, <1>3

LEMMA StartedArrivesKept ==
  ASSUME WorkbenchAssumption, WorkbenchInv, Still, NEW f, NEW w, NEW t, Arriving(f, w, t),
         StartedArrives(f, w, t)
  PROVE  Kept
<1> DEFINE e == [w EXCEPT !.err = w.reply.code]
           mayRead == /\ t.operator # None
                      /\ IF w.kind = "create" THEN w.epoch = t.epoch
                         ELSE SelectionMatches(t, w)
<1>1. /\ TabOK(t) /\ w.at = "start" /\ Going(f, w, t) /\ CarryOK(w, t)
      /\ w.kind \in {"create", "start"} /\ w.run # None
  BY DEF Arriving, Going, Moved, CallOK, AtOK, OfRuns, StartedArrives
<1>2. Going(f, e, t) /\ e.kind = w.kind /\ e.run = w.run /\ e.epoch = w.epoch
  BY <1>1 DEF Going, CarryOK, CallFields, Heir
<1>3. CASE Ok(w)
  <2> DEFINE h == [w EXCEPT !.held = w.reply.run]
             u == IF w.kind = "create" THEN [t EXCEPT !.goal = FALSE] ELSE t
  <2>1. RefreshRuns(f, h, u)
    BY <1>3 DEF StartedArrives
  <2>2. w.reply.run \in Views /\ w.reply.run # None /\ w.reply.run.id = w.run
    BY <1>1, <1>3 DEF Arriving, CallOK, ReplyOK, Replies, Ok
  <2>3. /\ DOMAIN h = CallFields /\ h.held = w.reply.run
        /\ \A x \in CallFields \ {"held"} : h[x] = w[x]
    BY <1>1 DEF CarryOK, CallFields
  <2>4. Near(t, u)
    BY <1>1, Drawn
  <2> HIDE DEF h, u
  <2>5. Going(f, h, t) /\ h.kind = w.kind
    BY <1>1, <2>2, <2>3 DEF Going, CarryOK, CallFields, Choosing, Heir
  <2> QED
    BY <1>1, <2>1, <2>2, <2>3, <2>4, <2>5, GoingOn, RefreshRunsKept
<1>4. CASE ~Ok(w) /\ mayRead
  <2>1. SelectRun(f, e, t)
    BY <1>4 DEF StartedArrives
  <2>2. Wants(t, w.run) /\ w.epoch = t.epoch
    BY <1>1, <1>4 DEF CarryOK, Choosing, SelectionMatches
  <2> HIDE DEF e
  <2> QED
    BY <1>1, <1>2, <2>1, <2>2, SelectRunKept DEF Choosing
<1>5. CASE ~Ok(w) /\ ~mayRead
  <2>1. StartFailed(f, e, t)
    BY <1>5 DEF StartedArrives
  <2> HIDE DEF e
  <2> QED
    BY <1>2, <2>1, StartFailedKept
<1> QED
  BY <1>3, <1>4, <1>5

LEMMA TrustArrivesKept ==
  ASSUME WorkbenchAssumption, WorkbenchInv, Still, NEW f, NEW w, NEW t, Arriving(f, w, t),
         TrustArrives(f, w, t)
  PROVE  Kept
<1>1. TabOK(t) /\ w.at = "trust" /\ Going(f, w, t) /\ w.kind = "trust"
  BY DEF Arriving, Going, Moved, CallOK, AtOK, TrustArrives
<1>2. CASE Ok(w)
  <2> DEFINE d == CloseDialog(t, "trust")
  <2>1. RefreshWorkspace(f, w, d) /\ Near(t, d)
    BY <1>1, <1>2, Dialogs DEF TrustArrives
  <2> HIDE DEF d
  <2>2. SelectionHolds(w, d)
    BY <1>1 DEF SelectionHolds, Choosing
  <2> QED
    BY <1>1, <2>1, <2>2, GoingOn, RefreshWorkspaceKept
<1>3. CASE ~Ok(w)
  BY <1>1, <1>3, Drawn, Ended DEF TrustArrives
<1> QED
  BY <1>2, <1>3

LEMMA ResolveFailsKept ==
  ASSUME WorkbenchAssumption, WorkbenchInv, Still, NEW f, NEW w, NEW t, Going(f, w, t),
         w.kind = "resolve", ResolveFails(f, w, t)
  PROVE  Kept
<1> DEFINE e == HandleRequestError(t, w.reply.code)
           u == IF SelectionMatches(t, w) THEN SchedulePoll(e, w.run) ELSE e
<1>1. Done(f, [u EXCEPT !.busy = FALSE])
  BY DEF ResolveFails
<1>2. TabOK(t) /\ CarryOK(w, t) /\ Near(t, e) /\ TabOK(e)
  BY Dialogs DEF Going, Moved, Near
<1> HIDE DEF e
<1>3. Near(t, u)
  <2>1. CASE SelectionMatches(t, w)
    <3>1. w.run \in Existing /\ Wants(e, w.run)
      BY <1>2, <2>1, Matching DEF CarryOK, Choosing, Near, Wants
    <3>2. Near(e, SchedulePoll(e, w.run))
      BY <1>2, <3>1, Scheduled DEF CarryOK, WorkbenchAssumption, Existing
    <3> QED
      BY <1>2, <2>1, <3>2, NearTrans
  <2> QED
    BY <1>2, <2>1
<1> HIDE DEF u
<1>4. Near(t, [u EXCEPT !.busy = FALSE])
  BY <1>3, Drawn, NearTrans DEF Near
<1> QED
  BY <1>1, <1>4, Ended

LEMMA DecisionArrivesKept ==
  ASSUME WorkbenchAssumption, WorkbenchInv, Still, NEW f, NEW w, NEW t, Arriving(f, w, t),
         DecisionArrives(f, w, t)
  PROVE  Kept
<1>1. /\ w.at \in {"approvals", "decline"} /\ Going(f, w, t) /\ CarryOK(w, t)
      /\ TabOK(t) /\ w.kind = "resolve" /\ w.held # None /\ w.run # None
  BY DEF Arriving, Going, Moved, CallOK, AtOK, OfRuns, DecisionArrives
<1>2. CASE Ok(w)
  <2> DEFINE h == [w EXCEPT !.held = w.reply.run]
  <2>1. RefreshRuns(f, h, t)
    BY <1>2 DEF DecisionArrives
  <2>2. w.reply.run \in Views /\ w.reply.run # None /\ w.reply.run.id = w.run
    BY <1>1, <1>2 DEF Arriving, CallOK, ReplyOK, Replies, Ok
  <2>3. /\ DOMAIN h = CallFields /\ h.held = w.reply.run
        /\ \A x \in CallFields \ {"held"} : h[x] = w[x]
    BY <1>1 DEF CarryOK, CallFields
  <2> HIDE DEF h
  <2>4. Going(f, h, t) /\ h.kind = w.kind
    BY <1>1, <2>2, <2>3 DEF Going, CarryOK, CallFields, Choosing, Heir
  <2> QED
    BY <1>1, <2>1, <2>2, <2>3, <2>4, RefreshRunsKept
<1>3. CASE ~Ok(w) /\ w.reply.code # "409"
  BY <1>1, <1>3, ResolveFailsKept DEF DecisionArrives
<1>4. CASE ~Ok(w) /\ w.reply.code = "409"
  <2> DEFINE c == [w EXCEPT !.err = "409"]
  <2>1. IF SelectionMatches(t, w) THEN SelectRun(f, c, t) ELSE RefreshRuns(f, c, t)
    BY <1>4 DEF DecisionArrives
  <2>2. Going(f, c, t) /\ c.kind = w.kind /\ c.run = w.run /\ c.held = w.held
    BY <1>1 DEF Going, CarryOK, CallFields, Heir
  <2> HIDE DEF c
  <2>3. SelectionMatches(t, w) => Wants(t, w.run)
    BY <1>1, Matching DEF Choosing
  <2> QED
    BY <1>1, <2>1, <2>2, <2>3, SelectRunKept, RefreshRunsKept DEF Choosing
<1> QED
  BY <1>2, <1>3, <1>4

LEMMA DecisionTraceArrivesKept ==
  ASSUME WorkbenchAssumption, WorkbenchInv, Still, NEW f, NEW w, NEW t, Arriving(f, w, t),
         DecisionTraceArrives(f, w, t)
  PROVE  Kept
<1>1. /\ w.at = "trace" /\ Going(f, w, t) /\ CarryOK(w, t)
      /\ TabOK(t) /\ w.kind = "resolve" /\ w.held # None
  BY DEF Arriving, Going, Moved, CallOK, AtOK, DecisionTraceArrives, Selecting
<1>2. CASE Fails(w)
  BY <1>1, <1>2, ResolveFailsKept DEF DecisionTraceArrives
<1>3. CASE ~Fails(w) /\ SelectionMatches(t, w)
  <2> DEFINE u == [t EXCEPT !.selected = w.held, !.trace = w.run]
             d == RenderAll(u)
             p == SchedulePoll(d, None)
  <2>1. Done(f, [p EXCEPT !.busy = FALSE])
    BY <1>3 DEF DecisionTraceArrives
  <2>2. Near(t, u) /\ TabOK(u)
    BY <1>1, <1>3, Reselected DEF Near
  <2> HIDE DEF u
  <2>3. Near(t, d) /\ TabOK(d)
    BY <2>2, Drawn, NearTrans DEF Near
  <2>4. Wants(d, RunOf(d.selected))
    BY <1>1, <1>3, <2>3, Matching DEF Choosing, Near, Wants
  <2> HIDE DEF d
  <2>5. Near(t, p) /\ TabOK(p)
    BY <2>3, <2>4, Scheduled, NearTrans DEF Near
  <2> HIDE DEF p
  <2>6. Near(t, [p EXCEPT !.busy = FALSE])
    BY <2>5, Drawn, NearTrans
  <2> QED
    BY <1>1, <2>1, <2>6, Ended
<1>4. CASE ~Fails(w) /\ ~SelectionMatches(t, w)
  BY <1>1, <1>4, Drawn, Ended DEF DecisionTraceArrives
<1> QED
  BY <1>2, <1>3, <1>4

LEMMA ArriveKept ==
  ASSUME WorkbenchAssumption, WorkbenchInv, NEW f \in Flows, Arrive(f)
  PROVE  Kept
<1> DEFINE w == flow[f]
           t == Answered(tab, w)
<1>1. Still /\ w # Idle /\ w.reply # None
  BY DEF Arrive, Still, planeVars
<1>2. Arriving(f, w, t)
  BY <1>1, AnsweredKept
<1>3. \/ RuntimeArrives(f, w, t)  \/ SessionArrives(f, w, t)
      \/ ProfileArrives(f, w, t)  \/ ListArrives(f, w, t)
      \/ RunArrives(f, w, t)      \/ TraceArrives(f, w, t)
      \/ CreatedArrives(f, w, t)  \/ StartedArrives(f, w, t)
      \/ TrustArrives(f, w, t)    \/ DecisionArrives(f, w, t)
      \/ DecisionTraceArrives(f, w, t)
  BY DEF Arrive
<1> HIDE DEF w, t
<1> QED
  BY <1>1, <1>2, <1>3, RuntimeArrivesKept, SessionArrivesKept, ProfileArrivesKept,
     ListArrivesKept, RunArrivesKept, TraceArrivesKept, CreatedArrivesKept, StartedArrivesKept,
     TrustArrivesKept, DecisionArrivesKept, DecisionTraceArrivesKept

-----------------------------------------------------------------------------
(* The person and the timer *)

\* A gesture that calls nothing: the calls under way stay as they are.
LEMMA Quiet ==
  ASSUME WorkbenchAssumption, WorkbenchInv, Still, NEW t, Moved(tab, t), tab' = t, UNCHANGED flow
  PROVE  Kept
<1>1. Existing' = Existing /\ row' = row /\ trusted' = trusted /\ flow' = flow
  BY DEF Still, Existing
<1>2. TabOK(tab)'
  BY <1>1 DEF Moved, TabOK, PollFits
<1>3. ASSUME NEW g \in Flows PROVE (flow[g] = Idle \/ CallOK(flow[g], tab))'
  <2>1. flow[g] = Idle \/ CallOK(flow[g], t)
    BY CallKept DEF WorkbenchInv
  <2> QED
    BY <1>1, <2>1 DEF CallOK, CarryOK, AtOK, ReplyOK
<1>4. LatestChoice
  BY DEF LatestChoice, Moved, SelectionStep, Wants
<1>5. OneFresh'
  BY <1>1 DEF WorkbenchInv, OneFresh
<1> QED
  BY <1>1, <1>2, <1>3, <1>4, <1>5 DEF Kept, WorkbenchInv

LEMMA NearMoves ==
  ASSUME WorkbenchInv, NEW u, Near(tab, u)
  PROVE  Moved(tab, u)
BY DEF Near, Moved, SelectionStep

LEMMA NewTaskKept == ASSUME WorkbenchAssumption, WorkbenchInv, NewTask PROVE Kept
<1> DEFINE n == [Navigate(tab, None) EXCEPT !.selected = None,
                  !.trace = None, !.goal = FALSE, !.pendingRun = None]
<1>1. Still /\ tab' = RenderAll(n) /\ UNCHANGED flow
  BY DEF NewTask, Gesture, Still, planeVars
<1>2. TabOK(n) /\ n.epoch = tab.epoch + 1 /\ n.selected = None
  BY DEF WorkbenchInv, Navigate, TabOK, TabFields, PollFits, RunOf
<1> HIDE DEF n
<1>3. Near(n, RenderAll(n))
  BY <1>2, Drawn
<1>4. Moved(tab, n)
  BY <1>2 DEF Moved, WorkbenchInv, TabOK, SelectionStep, RunOf
<1> QED
  BY <1>1, <1>2, <1>3, <1>4, NearCarries, Quiet

\* Only the timer survives: it finds nothing selected.
LEMMA ForgetAccessKept == ASSUME WorkbenchAssumption, WorkbenchInv, ForgetAccess PROVE Kept
<1> DEFINE n == [Navigate(tab, None) EXCEPT
       !.operator = None, !.stored = None, !.approver = None,
       !.workspace = None, !.runtime = FALSE, !.profile = None, !.runs = {},
       !.selected = None, !.trace = None, !.goal = FALSE, !.pendingRun = None,
       !.poll = tab.poll, !.forgotten = TRUE]
<1>1. Still /\ tab' = RenderAll(n) /\ UNCHANGED flow
  BY DEF ForgetAccess, Gesture, Still, planeVars
<1>2. TabOK(n) /\ n.epoch = tab.epoch + 1 /\ n.selected = None
  <2>1. DOMAIN tab = TabFields /\ TabOK(tab)
    BY DEF WorkbenchInv, TabOK
  <2>2. /\ DOMAIN n = TabFields
        /\ n.epoch = tab.epoch + 1 /\ n.wanted = None /\ n.mode = tab.mode
        /\ n.operator = None /\ n.stored = None /\ n.approver = None
        /\ n.workspace = None /\ n.profile = None /\ n.runs = {} /\ ~n.goal
        /\ n.selected = None /\ n.trace = None /\ n.pendingRun = None
        /\ n.poll = tab.poll /\ n.shown = tab.shown
    BY <2>1 DEF Navigate, TabFields
  <2> HIDE DEF n
  <2> QED
    BY <2>1, <2>2 DEF TabOK, PollFits, RunOf
<1> HIDE DEF n
<1>3. Near(n, RenderAll(n))
  BY <1>2, Drawn
<1>4. Moved(tab, n)
  BY <1>2 DEF Moved, WorkbenchInv, TabOK, SelectionStep, RunOf
<1> QED
  BY <1>1, <1>2, <1>3, <1>4, NearCarries, Quiet

LEMMA PageKept ==
  ASSUME WorkbenchAssumption, WorkbenchInv,
         ClickSettings \/ CloseSettings \/ CancelTrust \/ \E l \in Levels : SetMode(l)
  PROVE  Kept
<1>1. Still /\ UNCHANGED flow /\ TabOK(tab)
  BY DEF ClickSettings, CloseSettings, CancelTrust, SetMode, Gesture, Still, planeVars, WorkbenchInv
<1>2. ASSUME NEW u, Near(tab, u), tab' = u PROVE Kept
  BY <1>1, <1>2, NearMoves, Quiet
<1>3. CASE ClickSettings
  BY <1>1, <1>2, <1>3, Dialogs DEF ClickSettings
<1>4. CASE CloseSettings
  BY <1>1, <1>2, <1>4, Dialogs DEF CloseSettings
<1>5. CASE CancelTrust
  <2> DEFINE c == CloseDialog(tab, "trust")
             g == [c EXCEPT !.goal = FALSE]
             u == [c EXCEPT !.goal = FALSE, !.pendingRun = None]
  <2>1. Near(tab, c) /\ TabOK(c) /\ tab' = u /\ u = [g EXCEPT !.pendingRun = None]
    BY <1>1, <1>5, Dialogs DEF CancelTrust, Near
  <2> HIDE DEF c
  <2>2. Near(tab, g) /\ TabOK(g)
    BY <2>1, Drawn, NearTrans DEF Near
  <2> HIDE DEF g
  <2>3. Near(tab, u)
    BY <2>1, <2>2, Drawn, NearTrans
  <2> QED
    BY <1>2, <2>1, <2>3
<1>6. ASSUME NEW l \in Levels, SetMode(l) PROVE Kept
  <2>1. Near(tab, [tab EXCEPT !.mode = l])
    BY <1>1 DEF Near, TabOK, TabFields, PollFits, Wants
  <2> QED
    BY <1>2, <1>6, <2>1 DEF SetMode
<1> QED
  BY <1>3, <1>4, <1>5, <1>6

\* A call that begins has nothing yet but its kind and its run.
LEMMA Begun ==
  ASSUME NEW kind, NEW r
  PROVE  /\ DOMAIN Call(kind, r) = CallFields
         /\ Call(kind, r).kind = kind /\ Call(kind, r).run = r /\ Call(kind, r).held = None
         /\ Call(kind, r).level = 0 /\ Call(kind, r).epoch = 0
BY DEF Call, CallFields

LEMMA ClickRunKept ==
  ASSUME WorkbenchAssumption, WorkbenchInv, NEW f \in Flows, NEW r, ClickRun(f, r)
  PROVE  Kept
<1> DEFINE n == Navigate(tab, r)
           m == [Call("select", r) EXCEPT !.epoch = n.epoch]
<1>1. Still /\ r \in Existing /\ r # None /\ Await(f, m, "run", n)
  BY DEF ClickRun, Gesture, Still, planeVars, WorkbenchInv, TabOK, Existing, WorkbenchAssumption
<1>2. TabOK(n) /\ n.epoch = tab.epoch + 1 /\ n.wanted = r /\ n.selected = tab.selected
  BY DEF WorkbenchInv, Navigate, TabOK, TabFields, PollFits
<1>3. DOMAIN m = CallFields /\ m.kind = "select" /\ m.run = r /\ m.held = None /\ m.level = 0
      /\ m.epoch = n.epoch
  BY Begun DEF CallFields
<1> HIDE DEF n, m
<1>4. Moved(tab, n)
  BY <1>2 DEF Moved, WorkbenchInv, TabOK, SelectionStep
<1>5. CarryOK(m, n) /\ AtOK(m, "run", n) /\ Heir(f, m)
  BY <1>1, <1>2, <1>3 DEF CarryOK, AtOK, Ops, OfRuns, Choosing, Levels, TabOK, Wants, Heir
<1> QED
  BY <1>1, <1>3, <1>4, <1>5, Waiting

LEMMA StartGoalKept ==
  ASSUME WorkbenchAssumption, WorkbenchInv, NEW f \in Flows, StartGoal(f)
  PROVE  Kept
<1> DEFINE g == [tab EXCEPT !.goal = TRUE, !.pendingRun = None]
<1>1. Still /\ TabOK(tab)
  BY DEF StartGoal, Gesture, Still, planeVars, WorkbenchInv
<1>2. CASE Done(f, OpenSettings(tab))
  BY <1>1, <1>2, Dialogs, NearMoves, Finished
<1>3. tab.profile # None => Near(tab, g) /\ g.workspace # None
  BY <1>1 DEF Near, TabOK, TabFields, PollFits, Wants
<1>4. tab.profile # None => TabOK(g) /\ Moved(tab, g) /\ Unchosen(g)
  BY <1>3, NearMoves DEF Near, Unchosen
<1>5. ASSUME tab.profile # None, Done(f, OpenTrustDialog(g)) PROVE Kept
  <2> HIDE DEF g
  <2>1. Near(tab, OpenTrustDialog(g))
    BY <1>3, <1>4, <1>5, Dialogs, NearTrans
  <2> QED
    BY <1>1, <1>5, <2>1, NearMoves, Finished
<1>6. ASSUME tab.profile # None, EnterCreate(f, Call("create", None), g) PROVE Kept
  <2> HIDE DEF g
  <2> QED
    BY <1>1, <1>3, <1>4, <1>6, Begun, EnterCreateKept
<1> QED
  BY <1>2, <1>5, <1>6 DEF StartGoal

LEMMA ClickStartKept ==
  ASSUME WorkbenchAssumption, WorkbenchInv, NEW f \in Flows, ClickStart(f)
  PROVE  Kept
<1>1. Still /\ EnterStart(f, Call("start", None), tab, tab.shown.run.id) /\ Near(tab, tab)
  BY Drawn DEF ClickStart, Gesture, Still, planeVars, WorkbenchInv
<1> QED
  BY <1>1, NearMoves, Begun, EnterStartKept DEF Levels

LEMMA ClickDecisionKept ==
  ASSUME WorkbenchAssumption, WorkbenchInv, NEW f \in Flows, NEW action \in {"approvals", "decline"},
         ClickDecision(f, action)
  PROVE  Kept
<1>1. Still /\ TabOK(tab)
  BY DEF ClickDecision, Gesture, Still, planeVars, WorkbenchInv
<1>2. CASE Done(f, tab)
  BY <1>1, <1>2, Drawn, NearMoves, Finished
<1>3. CASE Done(f, OpenSettings(tab))
  BY <1>1, <1>3, Dialogs, NearMoves, Finished
<1>4. ASSUME tab.selected # None,
             NEW n, n = [Navigate(tab, tab.selected.id) EXCEPT !.busy = TRUE,
                          !.selected.status = "approving"],
             Await(f, [Call("resolve", tab.selected.id) EXCEPT !.epoch = n.epoch,
                         !.held = tab.selected, !.meant = tab.shown.run],
                   action, RenderAll(n))
      PROVE  Kept
  <2> DEFINE r == tab.selected.id
             m == [Call("resolve", r) EXCEPT !.epoch = n.epoch,
                     !.held = tab.selected, !.meant = tab.shown.run]
  <2>1. r \in Existing /\ r # None /\ tab.selected \in Views /\ RunOf(tab.selected) = r
    BY <1>1, <1>4 DEF TabOK, RunOf, Views, WorkbenchAssumption
  <2>2. [tab.selected EXCEPT !.status = "approving"] \in Views
    BY <2>1 DEF Views, Statuses, Transient
  <2>3. n.selected = [tab.selected EXCEPT !.status = "approving"] /\ n.selected.id = r
    BY <1>1, <1>4, <2>1 DEF Navigate, TabOK, TabFields, Views
  <2>4. RunOf(n.selected) = r
    BY <2>2, <2>3 DEF RunOf, WorkbenchAssumption
  <2>5. n.epoch = tab.epoch + 1 /\ n.wanted = r /\ TabOK(n)
    BY <1>1, <1>4, <2>1, <2>2, <2>3, <2>4 DEF Navigate, TabOK, TabFields, PollFits
  <2>6. Near(n, RenderAll(n))
    BY <2>5, Drawn
  <2>7. Moved(tab, n)
    BY <1>1, <2>1, <2>4, <2>5 DEF Moved, TabOK, SelectionStep
  <2>8. /\ DOMAIN m = CallFields /\ m.kind = "resolve" /\ m.run = r /\ m.epoch = n.epoch
        /\ m.held = tab.selected /\ m.level = 0
    BY Begun DEF CallFields
  <2>9. Await(f, m, action, RenderAll(n))
    BY <1>4
  <2> HIDE DEF m, r
  <2>10. CarryOK(m, n)
    BY <2>1, <2>5, <2>8 DEF CarryOK, Choosing, Levels, TabOK, Wants, RunOf
  <2>11. AtOK(m, action, RenderAll(n)) /\ Heir(f, m)
    BY <1>4, <2>1, <2>8 DEF AtOK, Ops, OfRuns, Choosing, Heir
  <2> QED
    BY <1>1, <2>5, <2>6, <2>7, <2>8, <2>9, <2>10, <2>11, NearCarries, Waiting
<1> QED
  BY <1>2, <1>3, <1>4 DEF ClickDecision

LEMMA ConnectKept ==
  ASSUME WorkbenchAssumption, WorkbenchInv, NEW f \in Flows, NEW op \in Keys \cup {tab.operator},
         NEW ap \in Keys \cup {None}, NEW ws \in Workspaces \cup {None}, Connect(f, op, ap, ws)
  PROVE  Kept
<1> DEFINE n == [tab EXCEPT !.busy = TRUE, !.operator = op, !.forgotten = FALSE]
           m == [Call("connect", None) EXCEPT
                   !.typed = [op |-> op, ap |-> ap, ws |-> ws],
                   !.before = [op |-> tab.operator, ap |-> tab.approver]]
<1>1. Still /\ TabOK(tab) /\ Await(f, m, "runtime", n)
  BY DEF Connect, Gesture, Still, planeVars, WorkbenchInv
<1>2. {op, ap, tab.operator, tab.approver} \subseteq Keys \cup {None}
  BY <1>1 DEF TabOK
<1>3. Near(tab, n) /\ n.operator = op
  BY <1>1, <1>2 DEF Near, TabOK, TabFields, PollFits, Wants
<1>4. /\ DOMAIN m = CallFields /\ m.kind = "connect" /\ m.run = None /\ m.held = None
      /\ m.level = 0 /\ m.epoch = 0
      /\ m.typed = [op |-> op, ap |-> ap, ws |-> ws]
      /\ m.before = [op |-> tab.operator, ap |-> tab.approver]
  BY Begun DEF CallFields
<1> HIDE DEF n, m
<1>5. CarryOK(m, n) /\ AtOK(m, "runtime", n) /\ Heir(f, m)
  BY <1>2, <1>3, <1>4 DEF CarryOK, AtOK, Ops, OfRuns, Choosing, Levels, Near, TabOK, Heir
<1> QED
  BY <1>1, <1>3, <1>4, <1>5, NearMoves, Waiting

LEMMA ConfirmTrustKept ==
  ASSUME WorkbenchAssumption, WorkbenchInv, NEW f \in Flows, ConfirmTrust(f)
  PROVE  Kept
<1> DEFINE n == [tab EXCEPT !.busy = TRUE]
           m == [Call("trust", None) EXCEPT !.ws = tab.profile.root, !.meant = tab.path]
<1>1. Still /\ TabOK(tab) /\ Near(tab, tab) /\ Near(tab, n)
  BY Drawn DEF ConfirmTrust, Gesture, Still, planeVars, WorkbenchInv
<1>2. CASE Done(f, tab)
  BY <1>1, <1>2, NearMoves, Finished
<1>3. ASSUME tab.profile # None, Await(f, m, "trust", n) PROVE Kept
  <2>1. /\ DOMAIN m = CallFields /\ m.kind = "trust" /\ m.run = None /\ m.held = None
        /\ m.level = 0 /\ m.epoch = 0 /\ m.ws = tab.profile.root
    BY Begun DEF CallFields
  <2>2. tab.profile.root \in Workspaces
    BY <1>1, <1>3 DEF TabOK, Profiles
  <2> HIDE DEF n, m
  <2>3. CarryOK(m, n) /\ AtOK(m, "trust", n) /\ Heir(f, m)
    BY <1>1, <2>1, <2>2 DEF CarryOK, AtOK, Ops, OfRuns, Choosing, Levels, Near, TabOK, Heir
  <2> QED
    BY <1>1, <1>3, <2>1, <2>3, NearMoves, Waiting
<1> QED
  BY <1>2, <1>3 DEF ConfirmTrust

\* The timer fires for the wanted run, or after access was cleared.
LEMMA PollFiresKept ==
  ASSUME WorkbenchAssumption, WorkbenchInv, NEW f \in Flows, PollFires(f)
  PROVE  Kept
<1> DEFINE m == Call("poll", tab.poll)
<1>1. Still /\ TabOK(tab) /\ tab.poll # None /\ SelectRun(f, m, tab)
  BY DEF PollFires, Still, planeVars, WorkbenchInv
<1>2. DOMAIN m = CallFields /\ m.kind = "poll" /\ m.run = tab.poll /\ m.held = None
      /\ m.level = 0 /\ m.epoch = 0
  BY Begun
<1>3. CASE Wants(tab, tab.poll)
  <2>1. Moved(tab, tab)
    BY <1>1, Drawn, NearMoves
  <2> HIDE DEF m
  <2>2. CarryOK(m, tab) /\ Heir(f, m)
    BY <1>1, <1>2, <1>3 DEF CarryOK, Choosing, Levels, TabOK, Heir
  <2> QED
    BY <1>1, <1>2, <1>3, <2>1, <2>2, SelectRunKept DEF Going, Choosing
<1>4. CASE RunOf(tab.selected) = None
  <2> HIDE DEF m
  <2>1. tab.selected = None
    BY <1>1, <1>4, Matching
  <2>2. Done(f, [tab EXCEPT !.poll = None])
    BY <1>1, <1>2, <2>1 DEF SelectRun, AfterSelectRun, CallFields
  <2> QED
    BY <1>1, <2>2, Drawn, NearMoves, Finished
<1> QED
  BY <1>1, <1>3, <1>4 DEF TabOK, PollFits

\* What a tab is after loading, whatever the session storage has kept.
LEMMA LoadedOK ==
  ASSUME WorkbenchAssumption, NEW key \in {None, "valid"}, NEW ws \in Workspaces \cup {None}
  PROVE  /\ TabOK(Loaded(key, ws)) /\ Loaded(key, ws).selected = None
         /\ Loaded(key, ws).operator = key /\ Loaded(key, ws).poll = None
<1>1. DOMAIN Loaded(key, ws) = TabFields
  BY DEF Loaded, TabFields
<1> QED
  BY <1>1 DEF Loaded, TabOK, Levels, PollFits, RunOf, WorkbenchAssumption

\* The first request of a tab that still has its key.
LEMMA BootstrapOK ==
  ASSUME WorkbenchAssumption, NEW t, TabOK(t), t.operator # None
  PROVE  CallOK(Sent(Call("bootstrap", None), "runtime", t), t)
<1> DEFINE b == Call("bootstrap", None)
           m == Sent(b, "runtime", t)
<1>1. /\ DOMAIN m = CallFields /\ m.kind = "bootstrap" /\ m.run = None /\ m.held = None
      /\ m.level = 0 /\ m.epoch = 0 /\ m.at = "runtime" /\ m.key = t.operator
      /\ m.reply = None /\ ~m.accepted
  <2>1. DOMAIN b = CallFields /\ b.kind = "bootstrap" /\ b.run = None /\ b.held = None
        /\ b.level = 0 /\ b.epoch = 0
    BY Begun
  <2> HIDE DEF b
  <2> QED
    BY <2>1 DEF Sent, AuthScope, CallFields
<1> HIDE DEF m
<1>2. CarryOK(m, t) /\ AtOK(m, "runtime", t)
  BY <1>1 DEF CarryOK, AtOK, Ops, OfRuns, Choosing, Levels, TabOK
<1> QED
  BY <1>1, <1>2 DEF CallOK, ReplyOK, TabOK, m, b

LEMMA ReloadKept ==
  ASSUME WorkbenchAssumption, WorkbenchInv, NEW f \in Flows, Reload(f)
  PROVE  Kept
<1> DEFINE l == Loaded(tab.stored, tab.workspace)
           t == [l EXCEPT !.forgotten = tab.forgotten]
<1>1. /\ Existing' = Existing /\ row' = row /\ trusted' = trusted /\ tab' = t
      /\ flow' = [g \in Flows |->
           IF g = f /\ t.operator # None
           THEN Sent(Call("bootstrap", None), "runtime", t) ELSE Idle]
  BY DEF Reload, planeVars, Existing
<1>2. TabOK(l) /\ l.selected = None
  BY LoadedOK DEF WorkbenchInv, TabOK
<1> HIDE DEF l
<1>3. TabOK(t) /\ t.selected = None
  BY <1>2 DEF TabOK, TabFields, PollFits, Wants
<1> HIDE DEF t
<1>4. TabOK(tab)'
  BY <1>1, <1>3 DEF TabOK, PollFits
<1>5. ASSUME NEW g \in Flows PROVE (flow[g] = Idle \/ CallOK(flow[g], tab))'
  <2>1. flow'[g] = Idle \/ CallOK(flow'[g], t)
    BY <1>1, <1>3, BootstrapOK
  <2> QED
    BY <1>1, <2>1 DEF CallOK, CarryOK, AtOK, ReplyOK
<1>6. DOMAIN flow' = Flows
  BY <1>1
<1>7. LatestChoice
  BY <1>1, <1>3 DEF LatestChoice, RunOf
<1>8. OneFresh'
  <2>1. Sent(Call("bootstrap", None), "runtime", t).kind = "bootstrap"
    BY DEF Sent, Call
  <2>2. \A g \in Flows : flow'[g].kind # "create"
    BY <1>1, <2>1 DEF Idle
  <2> QED
    BY <2>2 DEF OneFresh
<1> QED
  BY <1>1, <1>4, <1>5, <1>6, <1>7, <1>8 DEF Kept, WorkbenchInv

LEMMA PersonKept ==
  ASSUME WorkbenchAssumption, WorkbenchInv, Person
  PROVE  Kept
BY NewTaskKept, ForgetAccessKept, PageKept, ClickRunKept, StartGoalKept, ClickStartKept,
   ClickDecisionKept, ConnectKept, ConfirmTrustKept, ReloadKept DEF Person

-----------------------------------------------------------------------------
(* The server and everybody else *)

\* The same call, whatever it has been answered.
SameCall(w, m) == m.kind = w.kind /\ m.epoch = w.epoch

\* No route removes a run or changes the tab: what was right about the calls
\* stays right, and the answers have to be looked at.
LEMMA Elsewheres ==
  ASSUME WorkbenchAssumption, WorkbenchInv, Existing \subseteq Existing',
         row' \in [Runs -> Rows \cup {None}], trusted' \subseteq Workspaces,
         UNCHANGED tab, DOMAIN flow' = Flows,
         \A g \in Flows : \/ flow'[g] = flow[g]
                          \/ CallOK(flow[g], tab)' /\ SameCall(flow[g], flow[g]')
  PROVE  Kept
<1>1. TabOK(tab) /\ TabOK(tab)'
  BY DEF WorkbenchInv, TabOK, PollFits
<1>2. ASSUME NEW g \in Flows PROVE (flow[g] = Idle \/ CallOK(flow[g], tab))'
  <2>1. CASE flow'[g] = flow[g] /\ CallOK(flow[g], tab)
    <3>1. CarryOK(flow[g], tab)'
      BY <2>1 DEF CallOK, CarryOK
    <3>2. AtOK(flow[g], flow[g].at, tab)' /\ ReplyOK(flow[g])'
      BY <2>1 DEF CallOK, AtOK, ReplyOK
    <3> QED
      BY <2>1, <3>1, <3>2 DEF CallOK
  <2> QED
    BY <2>1 DEF WorkbenchInv
<1>3. LatestChoice
  BY DEF LatestChoice
<1>4. OneFresh'
  <2>1. \A g \in Flows : SameCall(flow[g], flow[g]')
    BY DEF SameCall
  <2> QED
    BY <2>1 DEF SameCall, WorkbenchInv, OneFresh
<1> QED
  BY <1>1, <1>2, <1>3, <1>4 DEF Kept, WorkbenchInv

\* A row is overwritten with another row.
LEMMA RowChanges ==
  ASSUME WorkbenchAssumption, WorkbenchInv, NEW r \in Runs, NEW x \in Rows,
         row' = [row EXCEPT ![r] = x]
  PROVE  row' \in [Runs -> Rows \cup {None}] /\ Existing \subseteq Existing' /\ r \in Existing'
BY DEF WorkbenchInv, WorkbenchAssumption, Existing

LEMMA ExistingTyped ==
  ASSUME WorkbenchInv, NEW r \in Existing
  PROVE  r \in Runs /\ row[r] \in Rows /\ View(r) \in Views /\ View(r).id = r
BY DEF WorkbenchInv, Existing, Rows, View, Views

LEMMA Renamed ==
  ASSUME NEW g, NEW m, flow'[g] = m, CallOK(m, tab)'
  PROVE  CallOK(flow[g], tab)'
BY DEF CallOK, CarryOK, AtOK, ReplyOK, SelectionHolds

LEMMA Overwritten ==
  ASSUME NEW s \in Statuses, NEW n \in 0 .. MaxActions
  PROVE  /\ \A x \in Rows : [x EXCEPT !.status = s, !.asks = n] \in Rows
         /\ \A v \in Views : /\ [v EXCEPT !.status = s, !.asks = n] \in Views
                            /\ [v EXCEPT !.status = s, !.asks = n].id = v.id
<1>1. ASSUME NEW x \in Rows PROVE [x EXCEPT !.status = s, !.asks = n] \in Rows
  BY DEF Rows
<1>2. ASSUME NEW v \in Views
      PROVE  /\ [v EXCEPT !.status = s, !.asks = n] \in Views
             /\ [v EXCEPT !.status = s, !.asks = n].id = v.id
  BY DEF Views
<1> QED
  BY <1>1, <1>2

LEMMA Asks == ASSUME WorkbenchAssumption PROVE 0 \in 0 .. MaxActions
BY DEF WorkbenchAssumption, ActionsAssumption

\* A call gets an answer, its own or that it was lost.
LEMMA Delivered ==
  ASSUME WorkbenchAssumption, WorkbenchInv, Existing \subseteq Existing',
         row' \in [Runs -> Rows \cup {None}], trusted' \subseteq Workspaces, UNCHANGED tab,
         NEW f \in Flows, NEW w, w = flow[f], w # Idle,
         NEW a, NEW m, m = [w EXCEPT !.reply = a], flow' = [flow EXCEPT ![f] = m], ReplyOK(m)'
  PROVE  Kept
<1>1. CallOK(w, tab) /\ DOMAIN w = CallFields
  BY DEF WorkbenchInv, CallOK, CarryOK
<1>2. flow'[f] = m /\ DOMAIN flow' = Flows /\ \A g \in Flows \ {f} : flow'[g] = flow[g]
  BY DEF WorkbenchInv
<1>3. DOMAIN m = CallFields /\ \A x \in CallFields \ {"reply"} : m[x] = w[x]
  BY <1>1 DEF CallFields
<1>4. /\ m.kind = w.kind /\ m.at = w.at /\ m.run = w.run /\ m.epoch = w.epoch /\ m.ws = w.ws
      /\ m.key = w.key /\ m.held = w.held /\ m.accepted = w.accepted /\ m.level = w.level
      /\ m.typed = w.typed /\ m.before = w.before
  BY <1>3 DEF CallFields
<1>5. CarryOK(m, tab)'
  BY <1>1, <1>3, <1>4 DEF CallOK, CarryOK
<1>6. AtOK(m, m.at, tab)'
  BY <1>1, <1>4 DEF CallOK, AtOK, SelectionHolds
<1>7. CallOK(m, tab)'
  BY <1>1, <1>4, <1>5, <1>6 DEF CallOK
<1>8. CallOK(flow[f], tab)' /\ SameCall(flow[f], flow[f]')
  BY <1>2, <1>4, <1>7, Renamed DEF SameCall
<1> QED
  BY <1>2, <1>8, Elsewheres

\* What the answer rep to the call w has to say.
Fits(w, rep) ==
  /\ rep \in Replies
  /\ rep.runs \subseteq Existing
  /\ rep.run # None => rep.run.id \in Existing /\ (w.at # "create" => rep.run.id = w.run)
  /\ rep.code = "ok" =>
       /\ w.key = "valid"
       /\ w.at \in {"create", "run", "start", "approvals", "decline"} => rep.run # None
  /\ rep.code = "401" => w.key # "valid"

LEMMA Answers ==
  ASSUME WorkbenchAssumption, WorkbenchInv, Existing \subseteq Existing',
         row' \in [Runs -> Rows \cup {None}], trusted' \subseteq Workspaces,
         NEW f \in Flows, NEW w, w = flow[f], w # Idle, NEW rep, Fits(w, rep)', Deliver(f, rep)
  PROVE  Kept
<1> PICK a \in Seen(w, rep) : flow' = [flow EXCEPT ![f].reply = a]
  BY DEF Deliver
<1>1. UNCHANGED tab /\ DOMAIN w = CallFields
  BY DEF Deliver, WorkbenchInv, CallOK, CarryOK
<1>2. Fits(w, a)'
  <2>1. ASSUME NEW c \in {"lost", "404"} PROVE Fits(w, Reply(c))'
    BY DEF Fits, Reply, Replies, Codes
  <2> QED
    BY <2>1 DEF Seen
<1> DEFINE m == [w EXCEPT !.reply = a]
<1>3. flow' = [flow EXCEPT ![f] = m]
  BY DEF WorkbenchInv
<1>4. m.reply = a /\ m.at = w.at /\ m.run = w.run /\ m.key = w.key
  BY <1>1 DEF CallFields
<1> HIDE DEF m
<1>5. ReplyOK(m)'
  BY <1>2, <1>4 DEF Fits, ReplyOK
<1> QED
  BY <1>1, <1>3, <1>5, Delivered DEF m

\* A call that the service has taken on waits, with the key that opened.
LEMMA Accepted ==
  ASSUME WorkbenchAssumption, WorkbenchInv, Existing \subseteq Existing',
         row' \in [Runs -> Rows \cup {None}], trusted' \subseteq Workspaces,
         NEW f \in Flows, NEW w, w = flow[f], w # Idle, w.key = "valid", Accept(f)
  PROVE  Kept
<1> DEFINE m == [w EXCEPT !.accepted = TRUE]
<1>1. CallOK(w, tab) /\ DOMAIN w = CallFields /\ UNCHANGED tab
  BY DEF WorkbenchInv, CallOK, CarryOK, Accept
<1>2. flow'[f] = m /\ DOMAIN flow' = Flows /\ \A g \in Flows \ {f} : flow'[g] = flow[g]
  BY DEF Accept, WorkbenchInv
<1>3. /\ DOMAIN m = CallFields
      /\ m.kind = w.kind /\ m.at = w.at /\ m.run = w.run /\ m.epoch = w.epoch /\ m.ws = w.ws
      /\ m.key = w.key /\ m.held = w.held /\ m.reply = w.reply /\ m.level = w.level
      /\ m.typed = w.typed /\ m.before = w.before
  BY <1>1 DEF CallFields
<1> HIDE DEF m
<1>4. CarryOK(m, tab)'
  BY <1>1, <1>3 DEF CallOK, CarryOK
<1>5. AtOK(m, m.at, tab)' /\ ReplyOK(m)'
  BY <1>1, <1>3 DEF CallOK, AtOK, ReplyOK, SelectionHolds
<1>6. CallOK(m, tab)'
  BY <1>1, <1>3, <1>4, <1>5 DEF CallOK
<1>7. CallOK(flow[f], tab)' /\ SameCall(flow[f], flow[f]')
  BY <1>2, <1>3, <1>6, Renamed DEF SameCall
<1> QED
  BY <1>1, <1>2, <1>7, Elsewheres

LEMMA ServeKept ==
  ASSUME WorkbenchAssumption, WorkbenchInv, NEW f \in Flows, Serve(f)
  PROVE  Kept
<1> PICK w : w = flow[f]
  OBVIOUS
<1>1. CallOK(w, tab) /\ w # Idle /\ w.at \in Ops
  BY DEF Serve, WorkbenchInv, CallOK, AtOK
<1>2. row \in [Runs -> Rows \cup {None}] /\ trusted \subseteq Workspaces
  BY DEF WorkbenchInv
<1>3. ASSUME UNCHANGED planeVars, NEW rep, Fits(w, rep), Deliver(f, rep) PROVE Kept
  <2>1. Existing' = Existing /\ row' = row /\ trusted' = trusted
    BY <1>3 DEF planeVars, Existing
  <2>2. Fits(w, rep)'
    BY <1>3, <2>1 DEF Fits
  <2> QED
    BY <1>1, <1>2, <1>3, <2>1, <2>2, Answers
<1>4. CASE ~Opens(w) /\ Deliver(f, Reply("401")) /\ UNCHANGED planeVars
  <2>1. w.key # "valid"
    BY <1>1, <1>4 DEF Opens, AuthScope, Requires
  <2>2. Fits(w, Reply("401"))
    BY <2>1 DEF Fits, Reply, Replies, Codes
  <2> QED
    BY <1>3, <1>4, <2>2
<1>5. CASE /\ Opens(w) /\ w.at \in {"runtime", "session", "profile", "list", "run", "trace"}
           /\ Deliver(f, Read(w)) /\ UNCHANGED planeVars
  <2>1. w.key = "valid" /\ (w.at = "run" => w.run \in Existing)
    BY <1>1, <1>5 DEF Opens, CallOK, CarryOK, AtOK, OfRuns
  <2>2. Fits(w, Read(w))
    <3>1. CASE w.at = "profile"
      <4> DEFINE b == w.ws \in trusted
      <4>1. b \in BOOLEAN
        OBVIOUS
      <4>2. Read(w) = [Reply("ok") EXCEPT !.trusts = b]
        BY <3>1 DEF Read, Profile
      <4> HIDE DEF b
      <4>3. Read(w) = [code |-> "ok", run |-> None, runs |-> {}, trusts |-> b]
        BY <4>2 DEF Reply
      <4> QED
        BY <2>1, <3>1, <4>1, <4>3 DEF Fits, Replies, Codes
    <3>2. CASE w.at = "list"
      BY <2>1, <3>2 DEF Read, ListRuns, Fits, Reply, Replies, Codes, Existing
    <3>3. CASE w.at = "run"
      <4>1. View(w.run) \in Views /\ View(w.run).id = w.run /\ View(w.run) # None
        BY <2>1, <3>3, ExistingTyped DEF WorkbenchAssumption
      <4>2. Read(w) = OkRun(View(w.run))
        BY <2>1, <3>3 DEF Read, GetRun
      <4> QED
        BY <2>1, <3>3, <4>1, <4>2 DEF Fits, OkRun, Reply, Replies, Codes
    <3>4. CASE w.at \notin {"profile", "list", "run"}
      <4>1. Read(w) \in {Reply("ok"), Reply("404")}
        BY <3>4 DEF Read, GetTrace
      <4>2. Fits(w, Reply("404"))
        BY DEF Fits, Reply, Replies, Codes
      <4>3. Fits(w, Reply("ok"))
        BY <1>5, <2>1, <3>4 DEF Fits, Reply, Replies, Codes
      <4> QED
        BY <4>1, <4>2, <4>3
    <3> QED
      BY <3>1, <3>2, <3>3, <3>4
  <2> QED
    BY <1>3, <1>5, <2>2
<1>6. ASSUME Opens(w), w.at = "create", NEW r \in Runs, CreateRun(r, w.ws, w.level),
             Deliver(f, OkRun([id |-> r, status |-> "planned",
               asks |-> 0, home |-> w.ws, level |-> w.level]))
      PROVE  Kept
  <2> DEFINE x == [status |-> "planned", asks |-> 0, home |-> w.ws, level |-> w.level]
             v == [id |-> r, status |-> "planned", asks |-> 0, home |-> w.ws, level |-> w.level]
  <2>1. w.ws \in Workspaces /\ w.level \in Levels /\ w.key = "valid"
    BY <1>1, <1>6 DEF CallOK, CarryOK, AtOK, Opens
  <2>2. x \in Rows /\ v \in Views /\ v.id = r /\ v # None
    BY <2>1, Asks DEF Rows, Views, Statuses, WorkbenchAssumption
  <2>3. row' = [row EXCEPT ![r] = x] /\ trusted' = trusted
    BY <1>6 DEF CreateRun
  <2> HIDE DEF x, v
  <2>4. row' \in [Runs -> Rows \cup {None}] /\ Existing \subseteq Existing' /\ r \in Existing'
    BY <2>2, <2>3, RowChanges
  <2>5. Fits(w, OkRun(v))'
    BY <1>6, <2>1, <2>2, <2>4 DEF Fits, OkRun, Reply, Replies, Codes
  <2> QED
    BY <1>1, <1>2, <1>6, <2>3, <2>4, <2>5, Answers DEF v
<1>7. CASE Deliver(f, Reply("lost")) /\ UNCHANGED planeVars
  <2>1. Fits(w, Reply("lost"))
    BY DEF Fits, Reply, Replies, Codes
  <2> QED
    BY <1>3, <1>7, <2>1
<1>8. CASE Opens(w) /\ w.at = "trust" /\ Trust(w.ws) /\ Deliver(f, Reply("ok"))
  <2>1. w.ws \in Workspaces /\ w.key = "valid"
    BY <1>1, <1>8 DEF CallOK, AtOK, Opens
  <2>2. row' = row /\ trusted' \subseteq Workspaces /\ Existing' = Existing
    BY <1>2, <1>8, <2>1 DEF Trust, Existing
  <2>3. Fits(w, Reply("ok"))'
    BY <1>8, <2>1, <2>2 DEF Fits, Reply, Replies, Codes
  <2> QED
    BY <1>1, <1>2, <1>8, <2>2, <2>3, Answers
<1>9. CASE Opens(w) /\ w.at \in {"start", "approvals", "decline"}
  <2>1. w.run \in Existing /\ w.key = "valid"
    BY <1>1, <1>9 DEF CallOK, CarryOK, AtOK, OfRuns, Opens
  <2>2. w.run \in Runs /\ row[w.run] \in Rows /\ View(w.run) \in Views /\ View(w.run).id = w.run
    BY <2>1, ExistingTyped
  <2>3. ASSUME NEW rep, Fits(w, rep), Deliver(f, rep), UNCHANGED planeVars PROVE Kept
    BY <1>3, <2>3
  <2>4. ASSUME NEW c \in {"409", "lost"} PROVE Fits(w, Reply(c))
    BY DEF Fits, Reply, Replies, Codes
  <2>5. Fits(w, OkRun(View(w.run)))
    BY <2>1, <2>2 DEF Fits, OkRun, Reply, Replies, Codes, WorkbenchAssumption
  <2>6. ASSUME NEW x \in Rows, row' = [row EXCEPT ![w.run] = x], UNCHANGED trusted, Accept(f)
        PROVE  Kept
    BY <1>1, <1>2, <2>1, <2>2, <2>6, RowChanges, Accepted
  <2>7. ASSUME NEW s \in Statuses PROVE [row[w.run] EXCEPT !.status = s] \in Rows
    BY <2>2 DEF Rows
  <2>8. CASE w.at = "start" /\ Claims(w.run) /\ Start(w.run) /\ Accept(f)
    BY <1>2, <2>2, <2>6, <2>7, <2>8 DEF Start, Statuses, Transient
  <2>9. CASE Deliver(f, NotStarted(w.run)) /\ UNCHANGED planeVars
    BY <2>3, <2>4, <2>5, <2>9 DEF NotStarted
  <2>10. CASE Deliver(f, Reply("409")) /\ UNCHANGED planeVars
    BY <2>3, <2>4, <2>10
  <2>11. CASE Approve(w.run) /\ Accept(f)
    BY <1>2, <2>2, <2>6, <2>7, <2>11 DEF Approve, Statuses, Transient
  <2>12. CASE /\ Decline(w.run)
              /\ Deliver(f, OkRun([View(w.run) EXCEPT !.status = "done", !.asks = 0]))
    <3> DEFINE x == [row[w.run] EXCEPT !.status = "done", !.asks = 0]
               v == [View(w.run) EXCEPT !.status = "done", !.asks = 0]
    <3>1. x \in Rows /\ v \in Views /\ v.id = w.run /\ v # None
      <4>1. x \in Rows
        BY <2>2, Asks, Overwritten DEF Statuses
      <4>2. v \in Views /\ v.id = w.run
        BY <2>2, Asks, Overwritten DEF Statuses
      <4> QED
        BY <4>1, <4>2 DEF WorkbenchAssumption
    <3>2. row' = [row EXCEPT ![w.run] = x] /\ trusted' = trusted
      BY <1>2, <2>2, <2>12 DEF Decline
    <3> HIDE DEF x
    <3>3. row' \in [Runs -> Rows \cup {None}] /\ Existing \subseteq Existing' /\ w.run \in Existing'
      BY <2>2, <3>1, <3>2, RowChanges
    <3>4. PICK rep : rep = OkRun(v)
      OBVIOUS
    <3>5. Fits(w, rep) /\ rep.run = v /\ rep.runs = {}
      BY <2>1, <3>1, <3>4 DEF Fits, OkRun, Reply, Replies, Codes
    <3>6. Fits(w, rep)'
      BY <3>1, <3>3, <3>5 DEF Fits
    <3> QED
      BY <1>1, <1>2, <2>12, <3>2, <3>3, <3>4, <3>6, Answers
  <2> QED
    BY <1>9, <2>8, <2>9, <2>10, <2>11, <2>12 DEF Serve
<1> QED
  BY <1>1, <1>4, <1>5, <1>6, <1>7, <1>8, <1>9 DEF Serve

LEMMA ElsewhereKept ==
  ASSUME WorkbenchAssumption, WorkbenchInv, NEW r \in Runs, Elsewhere(r)
  PROVE  Kept
<1>1. /\ r \in Existing /\ row[r] \in Rows /\ row \in [Runs -> Rows \cup {None}]
      /\ trusted \subseteq Workspaces /\ UNCHANGED <<tab, flow>> /\ DOMAIN flow = Flows
  BY ExistingTyped DEF Elsewhere, WorkbenchInv
<1>2. ASSUME NEW x \in Rows, row' = [row EXCEPT ![r] = x], UNCHANGED trusted PROVE Kept
  BY <1>1, <1>2, RowChanges, Elsewheres
<1>3. ASSUME NEW s \in Statuses PROVE [row[r] EXCEPT !.status = s] \in Rows
  BY <1>1 DEF Rows
<1>4. [row[r] EXCEPT !.status = "done", !.asks = 0] \in Rows
  BY <1>1, Asks, Overwritten DEF Statuses
<1>5. CASE Start(r)
  BY <1>1, <1>2, <1>3, <1>5 DEF Start, Statuses, Transient
<1>6. CASE Approve(r)
  BY <1>1, <1>2, <1>3, <1>6 DEF Approve, Statuses, Transient
<1>7. CASE Decline(r)
  BY <1>1, <1>2, <1>4, <1>7 DEF Decline
<1> QED
  BY <1>5, <1>6, <1>7 DEF Elsewhere

\* The service is done with a run: the calls it has taken on get its row.
LEMMA WorkKept ==
  ASSUME WorkbenchAssumption, WorkbenchInv, NEW r \in Runs, Work(r)
  PROVE  Kept
<1>1. /\ r \in Existing /\ row[r] \in Rows /\ row \in [Runs -> Rows \cup {None}]
      /\ trusted \subseteq Workspaces /\ UNCHANGED <<trusted, tab>> /\ DOMAIN flow = Flows
      /\ View(r) \in Views /\ View(r).id = r
  BY ExistingTyped DEF Work, WorkbenchInv
<1>o. PICK o \in Outcomes(r) :
      /\ row' = [row EXCEPT ![r] = o]
      /\ LET v == [View(r) EXCEPT !.status = o.status, !.asks = o.asks]
             waits == {f \in Flows : flow[f] # Idle /\ flow[f].accepted
                                     /\ flow[f].run = r /\ flow[f].reply = None}
         IN  \E lost \in SUBSET (IF "lost" \in setting.failures THEN waits ELSE {}) :
               flow' = [f \in Flows |->
                 IF f \in waits
                 THEN [flow[f] EXCEPT !.reply =
                         IF f \in lost THEN Reply("lost") ELSE OkRun(v)]
                 ELSE flow[f]]
  BY DEF Work
<1>v. PICK v : v = [View(r) EXCEPT !.status = o.status, !.asks = o.asks]
  OBVIOUS
<1>2. o \in Rows
  <2>1. [row[r] EXCEPT !.status = "done", !.asks = 0] \in Rows
    BY <1>1, Asks, Overwritten DEF Statuses
  <2>2. ASSUME NEW n \in 1 .. MaxActions
        PROVE  [row[r] EXCEPT !.status = "waiting", !.asks = n] \in Rows
    <3>1. n \in 0 .. MaxActions
      BY DEF WorkbenchAssumption, ActionsAssumption
    <3> QED
      BY <1>1, <3>1, Overwritten DEF Statuses
  <2> QED
    BY <1>o, <2>1, <2>2 DEF Outcomes
<1>3. v \in Views /\ v.id = r /\ v # None
  <2>1. o.status \in Statuses /\ o.asks \in 0 .. MaxActions
    BY <1>2 DEF Rows
  <2>2. v \in Views /\ v.id = r
    BY <1>1, <1>v, <2>1 DEF Views
  <2> QED
    BY <2>2 DEF WorkbenchAssumption
<1>4. row' \in [Runs -> Rows \cup {None}] /\ Existing \subseteq Existing' /\ r \in Existing'
  BY <1>2, <1>o, RowChanges
<1>5. ASSUME NEW g \in Flows
      PROVE  flow'[g] = flow[g] \/ (CallOK(flow[g], tab)' /\ SameCall(flow[g], flow[g]'))
  <2>w. PICK w : w = flow[g]
    OBVIOUS
  <2>1. ASSUME flow'[g] # w
        PROVE  /\ w # Idle /\ w.accepted /\ w.run = r
               /\ \E a \in {Reply("lost"), OkRun(v)} : flow'[g] = [w EXCEPT !.reply = a]
    BY <1>o, <1>v, <2>w, <2>1
  <2>2. ASSUME w # Idle, w.accepted, w.run = r, NEW a \in {Reply("lost"), OkRun(v)},
               NEW m, m = [w EXCEPT !.reply = a], flow'[g] = m
        PROVE  CallOK(flow[g], tab)' /\ SameCall(flow[g], flow[g]')
    <3>1. CallOK(w, tab) /\ DOMAIN w = CallFields /\ w.key = "valid"
      BY <2>w, <2>2 DEF WorkbenchInv, CallOK, CarryOK
    <3>2. DOMAIN m = CallFields /\ m.reply = a /\ \A x \in CallFields \ {"reply"} : m[x] = w[x]
      BY <2>2, <3>1 DEF CallFields
    <3>3. /\ m.kind = w.kind /\ m.at = w.at /\ m.run = w.run /\ m.epoch = w.epoch /\ m.ws = w.ws
          /\ m.key = w.key /\ m.held = w.held /\ m.accepted = w.accepted /\ m.level = w.level
          /\ m.typed = w.typed /\ m.before = w.before
      BY <3>2 DEF CallFields
    <3>4. CarryOK(m, tab)'
      BY <1>1, <1>4, <3>1, <3>2, <3>3 DEF CallOK, CarryOK
    <3>5. AtOK(m, m.at, tab)'
      BY <1>1, <3>1, <3>3 DEF CallOK, AtOK, SelectionHolds
    <3>6. ReplyOK(m)'
      <4>1. CASE a = Reply("lost")
        BY <3>2, <4>1 DEF ReplyOK, Reply, Replies, Codes
      <4>2. CASE a = OkRun(v)
        <5>1. a = [code |-> "ok", run |-> v, runs |-> {}, trusts |-> FALSE]
          BY <4>2 DEF OkRun, Reply
        <5>2. a \in Replies
          BY <1>3, <5>1 DEF Replies, Codes
        <5> QED
          BY <1>3, <1>4, <2>2, <3>1, <3>2, <3>3, <5>1, <5>2 DEF ReplyOK
      <4> QED
        BY <2>2, <4>1, <4>2
    <3>7. CallOK(m, tab)'
      BY <1>1, <3>1, <3>3, <3>4, <3>5, <3>6 DEF CallOK
    <3>8. flow'[g] = m
      BY <2>2
    <3> QED
      BY <2>w, <3>3, <3>7, <3>8, Renamed DEF SameCall
  <2> QED
    BY <2>w, <2>1, <2>2
<1>6. DOMAIN flow' = Flows
  BY <1>o
<1> QED
  BY <1>1, <1>4, <1>5, <1>6, Elsewheres

-----------------------------------------------------------------------------
(* The theorems *)

LEMMA InitHolds == ASSUME WorkbenchAssumption, Init PROVE WorkbenchInv
<1>1. row \in [Runs -> Rows \cup {None}] /\ trusted \subseteq Workspaces
  BY DEF Init, WorkbenchAssumption, SettingAssumption
<1>2. ASSUME NEW ws \in Workspaces, tab = Ready(ws) PROVE TabOK(tab)
  <2> DEFINE l == Loaded("valid", ws)
             p == [l EXCEPT !.approver = "valid", !.runtime = TRUE, !.runs = Existing,
                     !.profile = [root |-> ws, trusts |-> ws \in trusted]]
  <2>1. TabOK(l) /\ l.workspace = ws /\ ws # None
    BY LoadedOK DEF Loaded, WorkbenchAssumption
  <2>2. [root |-> ws, trusts |-> ws \in trusted] \in Profiles
    <3>1. (ws \in trusted) \in BOOLEAN
      OBVIOUS
    <3> QED
      BY <3>1 DEF Profiles
  <2>3. tab = RenderAll(p)
    BY <1>2 DEF Ready
  <2> HIDE DEF l
  <2>4. TabOK(p)
    BY <2>1, <2>2 DEF TabOK, TabFields, PollFits, Wants, WorkbenchAssumption
  <2> HIDE DEF p
  <2> QED
    BY <2>3, <2>4, Drawn DEF Near
<1>3. ASSUME NEW key \in {None, "valid"}, NEW ws \in Workspaces, NEW f \in Flows,
             tab = Loaded(key, IF key = None THEN None ELSE ws),
             flow = [g \in Flows |-> IF g = f /\ key # None
                       THEN Sent(Call("bootstrap", None), "runtime", tab) ELSE Idle]
      PROVE  WorkbenchInv
  <2>1. TabOK(tab) /\ tab.operator = key
    BY <1>3, LoadedOK
  <2>2. ASSUME NEW g \in Flows PROVE flow[g] = Idle \/ CallOK(flow[g], tab)
    BY <1>3, <2>1, BootstrapOK
  <2>3. OneFresh
    <3>1. Sent(Call("bootstrap", None), "runtime", tab).kind = "bootstrap"
      BY DEF Sent, Call
    <3> QED
      BY <1>3, <3>1 DEF OneFresh, Idle
  <2> QED
    BY <1>1, <1>3, <2>1, <2>2, <2>3 DEF WorkbenchInv
<1>4. ASSUME NEW ws \in Workspaces, tab = Ready(ws), flow = [f \in Flows |-> Idle]
      PROVE  WorkbenchInv
  BY <1>1, <1>2, <1>4 DEF WorkbenchInv, OneFresh, Idle
<1> QED
  BY <1>3, <1>4 DEF Init

LEMMA StepKept == ASSUME WorkbenchAssumption, WorkbenchInv, Next PROVE Kept
BY ArriveKept, PersonKept, PollFiresKept, ServeKept, WorkKept, ElsewhereKept DEF Next

LEMMA StutterKept == ASSUME WorkbenchInv, UNCHANGED vars PROVE WorkbenchInv'
<1>1. row' = row /\ trusted' = trusted /\ tab' = tab /\ flow' = flow /\ Existing' = Existing
  BY DEF vars, planeVars, Existing
<1>2. TabOK(tab)'
  BY <1>1 DEF WorkbenchInv, TabOK, PollFits
<1>3. ASSUME NEW g \in Flows PROVE (flow[g] = Idle \/ CallOK(flow[g], tab))'
  BY <1>1 DEF WorkbenchInv, CallOK, CarryOK, AtOK, ReplyOK
<1>4. OneFresh'
  BY <1>1 DEF WorkbenchInv, OneFresh
<1> QED
  BY <1>1, <1>2, <1>3, <1>4 DEF WorkbenchInv

\* The invariant of one tab: its memory, its calls and the run that is wanted.
THEOREM InvariantAlways == ASSUME WorkbenchAssumption PROVE Spec => []WorkbenchInv
<1>1. Init => WorkbenchInv
  BY InitHolds
<1>2. WorkbenchInv /\ [Next]_<<vars, setting>> => WorkbenchInv'
  BY StepKept, StutterKept DEF Kept
<1> QED
  BY <1>1, <1>2, PTL DEF Spec

\* A late answer never replaces a newer choice: the task in view changes to
\* another run only if that is the run of the newest navigation, whatever the
\* calls under way and however late their answers.
THEOREM LatestChoiceAlwaysWins == ASSUME WorkbenchAssumption PROVE Spec => LatestChoiceWins
<1>1. WorkbenchInv /\ [Next]_<<vars, setting>> => [LatestChoice]_vars
  BY StepKept DEF Kept
<1> QED
  BY <1>1, InvariantAlways, PTL DEF Spec, LatestChoiceWins

\* Only a key the server has accepted is kept in the session storage, however
\* connections, reloads and their failures interleave.
THEOREM StoredKeyAlwaysWorked == ASSUME WorkbenchAssumption PROVE Spec => []StoredKeyWorked
<1>1. WorkbenchInv => StoredKeyWorked
  BY DEF WorkbenchInv, TabOK, StoredKeyWorked
<1> QED
  BY <1>1, InvariantAlways, PTL

\* A tab whose keys are right is never told otherwise: for each route the page
\* sends the key that the route asks for.
THEOREM RightKeysAlwaysOpen == ASSUME WorkbenchAssumption PROVE Spec => []RightKeysOpen
<1>1. WorkbenchInv => RightKeysOpen
  BY DEF WorkbenchInv, CallOK, ReplyOK, RightKeysOpen, Calls
<1> QED
  BY <1>1, InvariantAlways, PTL

\* Types of the tab's memory, what it keeps exists, and the trace on the page is
\* the shown run's.
THEOREM TypesAlways == ASSUME WorkbenchAssumption PROVE Spec => []TypeOK
<1>1. ASSUME WorkbenchInv PROVE TypeOK
  <2>1. TabOK(tab) /\ row \in [Runs -> Rows \cup {None}] /\ trusted \subseteq Workspaces
    BY <1>1 DEF WorkbenchInv
  <2>2. \A f \in Calls : /\ flow[f].at \in Ops /\ flow[f].reply \in Replies \cup {None}
                         /\ flow[f].epoch <= tab.epoch
    BY <1>1 DEF WorkbenchInv, Calls, CallOK, CarryOK, AtOK, ReplyOK
  <2>3. ShownRun \in Views \cup {None} /\ ShownTrace \in {None, RunOf(ShownRun)}
    BY <2>1 DEF TabOK, ShownRun, ShownTrace, RunOf
  <2>4. tab.selected \in Views \cup {None} /\ tab.runs \subseteq Existing
    BY <2>1 DEF TabOK
  <2>5. /\ {tab.operator, tab.stored, tab.approver} \subseteq Keys \cup {None}
        /\ tab.workspace \in Workspaces \cup {None}
        /\ tab.profile \in Profiles \cup {None}
        /\ {tab.poll, tab.pendingRun} \subseteq Existing \cup {None}
    BY <2>1 DEF TabOK, WorkbenchAssumption
  <2> QED
    BY <2>1, <2>2, <2>3, <2>4, <2>5 DEF TypeOK, Profiles
<1> QED
  BY <1>1, InvariantAlways, PTL

\* All of it together: on a tab whose memory has its types, keys are kept and
\* refused for a reason.
THEOREM KeysAreAlwaysJudged == ASSUME WorkbenchAssumption PROVE Spec => []KeysAreJudged
<1>1. TypeOK /\ RightKeysOpen /\ StoredKeyWorked => KeysAreJudged
  BY DEF KeysAreJudged
<1> QED
  BY <1>1, TypesAlways, RightKeysAlwaysOpen, StoredKeyAlwaysWorked, PTL
=============================================================================
