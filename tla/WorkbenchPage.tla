---------------------------- MODULE WorkbenchPage ----------------------------
(***************************************************************************)
(* What an undisturbed tab shows (Undisturbed of WorkbenchProperties), for *)
(* any number of runs, calls and gestures.                                 *)
(*                                                                         *)
(* Where app.js changes the selection it renders, except in selectRun,     *)
(* which first asks for the profile of the run's directory.  That the      *)
(* answer is not dropped, so that the page is rendered after all, depends  *)
(* on the tab's directory being the one that was asked about: calls of one *)
(* navigation are about one run, and a run stays where it is.              *)
(***************************************************************************)
EXTENDS WorkbenchProofs

\* With both keys, a directory and no goal; what is wanted is a run there is, and
\* the run in view is where its row says.
Steady(t) ==
  /\ t.operator = "valid" /\ t.approver = "valid"
  /\ t.workspace \in Workspaces
  /\ ~t.goal /\ t.wanted # Fresh
  /\ t.selected # None => t.selected.home = row[t.selected.id].home

\* What a call has before its next request, and what that may be.
Carries(w) ==
  /\ w.kind \in {"select", "poll", "start", "resolve", "trust"}
  /\ w.held # None => w.held.home = row[w.held.id].home
AsksAt(w, at, t) ==
  /\ at \notin {"runtime", "session", "create"}
  /\ at = "profile" /\ w.kind # "trust" =>
       /\ w.held # None /\ w.ws = w.held.home
       /\ w.epoch = t.epoch => w.ws = t.workspace
\* Requests about what there is succeed, and tell where a run is.
AnswerIs(w) ==
  w.reply # None =>
    /\ w.reply.code # "401"
    /\ w.at \in {"run", "profile"} => w.reply.code = "ok"
    /\ w.at = "trace" => w.reply.code \in {"ok", "404"}
    /\ w.reply.run # None => w.reply.run.home = row[w.reply.run.id].home
Regular(w, t) == Carries(w) /\ w.key = "valid" /\ AsksAt(w, w.at, t) /\ AnswerIs(w)

\* The page asks what a click would answer; or it will be rendered.
Agrees(t) == Question(IF t.shown = None THEN None ELSE t.shown.run) = Question(t.selected)
Pending(w, t) == w # Idle /\ w.epoch = t.epoch /\ (w.kind = "select" \/ w.at = "profile")

PageInv ==
  /\ Steady(tab)
  /\ \A f \in Flows : flow[f] = Idle \/ Regular(flow[f], tab)
  /\ Agrees(tab) \/ \E f \in Flows : Pending(flow[f], tab)

\* The inductive invariant, of a tab in any setting.
UndisturbedInv == Undisturbed => PageInv

-----------------------------------------------------------------------------
(* What a step of the tab may do *)

\* t is the tab in the same navigation or a newer one, in the directory it was or
\* in that of the run that is wanted.
InTouch(t) ==
  /\ DOMAIN t = TabFields /\ Steady(t) /\ t.epoch \in Nat
  /\ t.selected \in Views \cup {None} /\ t.trace \in Runs \cup {None}
  /\ \/ /\ t.epoch = tab.epoch /\ t.wanted = tab.wanted
        /\ t.workspace = tab.workspace
             \/ (tab.wanted \in Existing /\ t.workspace = row[tab.wanted].home)
     \/ t.epoch > tab.epoch

\* After the call f has gone on with the tab t the page need not be rendered.
Settles(f, t) ==
  /\ InTouch(t)
  /\ \/ Agrees(t)
     \/ /\ t.epoch = tab.epoch /\ t.selected = tab.selected /\ t.shown = tab.shown
        /\ ~Pending(flow[f], tab)

Essence == {"operator", "approver", "workspace", "wanted", "epoch", "selected", "trace", "shown"}
Alike(t, u) ==
  DOMAIN u = TabFields /\ (u.goal => t.goal) /\ \A x \in Essence : u[x] = t[x]

LEMMA AlikeSettles ==
  ASSUME NEW t, NEW u, Alike(t, u), NEW f
  PROVE  /\ InTouch(t) => InTouch(u)
         /\ Agrees(t) => Agrees(u)
         /\ Settles(f, t) => Settles(f, u)
<1>1. /\ u.operator = t.operator /\ u.approver = t.approver /\ u.workspace = t.workspace
      /\ (u.goal => t.goal) /\ u.wanted = t.wanted /\ u.epoch = t.epoch
      /\ u.selected = t.selected /\ u.trace = t.trace /\ u.shown = t.shown
      /\ DOMAIN u = TabFields
  BY DEF Alike, Essence
<1>2. InTouch(t) => InTouch(u)
  BY <1>1 DEF InTouch, Steady
<1>3. Agrees(t) => Agrees(u)
  BY <1>1 DEF Agrees
<1> QED
  BY <1>1, <1>2, <1>3 DEF Settles

LEMMA AlikeTrans ==
  ASSUME NEW s, NEW t, NEW u, Alike(s, t), Alike(t, u) PROVE Alike(s, u)
BY DEF Alike

\* Calls that another one leaves behind are right about its tab.
LEMMA OthersRegular ==
  ASSUME WorkbenchAssumption, WorkbenchInv, PageInv, NEW t, InTouch(t),
         NEW g \in Flows, NEW w, w = flow[g], w # Idle
  PROVE  Regular(w, t)
<1>1. Regular(w, tab) /\ CallOK(w, tab) /\ tab.epoch \in Nat /\ Steady(tab)
  BY DEF PageInv, WorkbenchInv, TabOK
<1>2. w.epoch \in Nat /\ w.epoch <= tab.epoch
  BY <1>1 DEF CallOK, CarryOK
<1>3. ASSUME w.at = "profile", w.kind # "trust", w.epoch = t.epoch PROVE w.ws = t.workspace
  <2>1. w.held # None /\ w.ws = w.held.home /\ w.held.home = row[w.held.id].home
    BY <1>1, <1>3 DEF Regular, Carries, AsksAt
  <2>2. t.epoch = tab.epoch /\ t.wanted = tab.wanted
        /\ (t.workspace = tab.workspace
              \/ (tab.wanted \in Existing /\ t.workspace = row[tab.wanted].home))
    BY <1>2, <1>3, <1>1 DEF InTouch
  <2>3. w.ws = tab.workspace
    BY <1>1, <1>3, <2>2 DEF Regular, AsksAt
  <2>4. w.held.id = tab.wanted
    BY <1>1, <1>3, <2>1, <2>2 DEF CallOK, CarryOK, Wants, Choosing, Regular, Carries, Steady
  <2> QED
    BY <2>1, <2>2, <2>3, <2>4
<1> QED
  BY <1>1, <1>3 DEF Regular, AsksAt

\* A call goes on, and the page agrees or will be rendered.
LEMMA PageStep ==
  ASSUME WorkbenchAssumption, WorkbenchInv, PageInv, Still, NEW f \in Flows,
         NEW t, InTouch(t), NEW m, m = Idle \/ Regular(m, t),
         Settles(f, t) \/ Pending(m, t), tab' = t, flow' = [flow EXCEPT ![f] = m]
  PROVE  PageInv'
<1>1. /\ DOMAIN flow = Flows /\ flow'[f] = m /\ \A g \in Flows \ {f} : flow'[g] = flow[g]
      /\ row' = row
  BY DEF WorkbenchInv, Still
<1>2. ASSUME NEW g \in Flows PROVE (flow[g] = Idle \/ Regular(flow[g], tab))'
  <2>1. flow'[g] = Idle \/ Regular(flow'[g], t)
    BY <1>1, OthersRegular
  <2> QED
    BY <1>1, <2>1 DEF Regular, Carries, AsksAt, AnswerIs
<1>3. (Agrees(tab) \/ \E g \in Flows : Pending(flow[g], tab))'
  <2>1. CASE Pending(m, t)
    BY <1>1, <2>1 DEF Pending
  <2>2. CASE Agrees(t)
    BY <2>2 DEF Agrees
  <2>3. CASE /\ t.epoch = tab.epoch /\ t.selected = tab.selected /\ t.shown = tab.shown
             /\ ~Pending(flow[f], tab)
    <3>1. CASE Agrees(tab)
      BY <2>3, <3>1 DEF Agrees
    <3>2. ASSUME NEW g \in Flows, Pending(flow[g], tab) PROVE Pending(flow'[g], t)
      BY <1>1, <2>3, <3>2 DEF Pending
    <3> QED
      BY <3>1, <3>2 DEF PageInv, Pending
  <2> QED
    BY <2>1, <2>2, <2>3 DEF Settles
<1>4. Steady(tab)'
  BY <1>1 DEF InTouch, Steady
<1> QED
  BY <1>2, <1>3, <1>4 DEF PageInv

LEMMA Ends ==
  ASSUME WorkbenchAssumption, WorkbenchInv, PageInv, Still, NEW f \in Flows,
         NEW t, Settles(f, t), Done(f, t)
  PROVE  PageInv'
BY PageStep DEF Done, Settles

LEMMA AsksNext ==
  ASSUME WorkbenchAssumption, WorkbenchInv, PageInv, Still, NEW f \in Flows,
         NEW t, InTouch(t), NEW w, NEW at, DOMAIN w = CallFields, Carries(w), AsksAt(w, at, t),
         Settles(f, t) \/ (w.epoch = t.epoch /\ (w.kind = "select" \/ at = "profile")),
         Await(f, w, at, t)
  PROVE  PageInv'
<1> DEFINE m == Sent(w, at, t)
<1>1. t.operator = "valid" /\ t.approver = "valid" /\ "valid" # None
  BY DEF InTouch, Steady, WorkbenchAssumption
<1>2. /\ m.at = at /\ m.key = "valid" /\ m.reply = None
      /\ m.kind = w.kind /\ m.epoch = w.epoch /\ m.ws = w.ws /\ m.held = w.held
  BY <1>1 DEF Sent, CallFields
<1>3. m # Idle
  <2>1. m.kind # "none"
    BY <1>2 DEF Carries
  <2> QED
    BY <2>1 DEF Idle
<1> HIDE DEF m
<1>4. Regular(m, t)
  BY <1>2 DEF Regular, Carries, AsksAt, AnswerIs
<1>5. Settles(f, t) \/ Pending(m, t)
  BY <1>2, <1>3 DEF Pending
<1>6. tab' = t /\ flow' = [flow EXCEPT ![f] = m]
  BY DEF Await, m
<1> QED
  BY <1>4, <1>5, <1>6, PageStep

-----------------------------------------------------------------------------
(* Functions without an await *)

LEMMA Untouched ==
  ASSUME NEW t, DOMAIN t = TabFields
  PROVE  /\ Alike(t, t)
         /\ Alike(t, [t EXCEPT !.busy = FALSE]) /\ Alike(t, [t EXCEPT !.busy = TRUE])
         /\ Alike(t, [t EXCEPT !.goal = FALSE])
         /\ \A x : /\ Alike(t, [t EXCEPT !.dialogs = x]) /\ Alike(t, [t EXCEPT !.path = x])
                   /\ Alike(t, [t EXCEPT !.runs = x]) /\ Alike(t, [t EXCEPT !.poll = x])
                   /\ Alike(t, [t EXCEPT !.profile = x]) /\ Alike(t, [t EXCEPT !.mode = x])
                   /\ Alike(t, [t EXCEPT !.pendingRun = x])
<1> USE DEF Alike, Essence, TabFields
<1>1. Alike(t, t)
  OBVIOUS
<1>2. Alike(t, [t EXCEPT !.busy = FALSE]) /\ Alike(t, [t EXCEPT !.busy = TRUE])
  OBVIOUS
<1>3. Alike(t, [t EXCEPT !.goal = FALSE])
  OBVIOUS
<1>4. ASSUME NEW x PROVE Alike(t, [t EXCEPT !.dialogs = x])
  OBVIOUS
<1>5. ASSUME NEW x PROVE Alike(t, [t EXCEPT !.path = x])
  OBVIOUS
<1>6. ASSUME NEW x PROVE Alike(t, [t EXCEPT !.runs = x])
  OBVIOUS
<1>7. ASSUME NEW x PROVE Alike(t, [t EXCEPT !.poll = x])
  OBVIOUS
<1>8. ASSUME NEW x PROVE Alike(t, [t EXCEPT !.profile = x])
  OBVIOUS
<1>9. ASSUME NEW x PROVE Alike(t, [t EXCEPT !.mode = x])
  OBVIOUS
<1>10. ASSUME NEW x PROVE Alike(t, [t EXCEPT !.pendingRun = x])
  OBVIOUS
<1> QED
  BY <1>1, <1>2, <1>3, <1>4, <1>5, <1>6, <1>7, <1>8, <1>9, <1>10

LEMMA DialogsAlike ==
  ASSUME NEW t, DOMAIN t = TabFields
  PROVE  /\ Alike(t, OpenSettings(t)) /\ Alike(t, OpenTrustDialog(t))
         /\ \A d : Alike(t, CloseDialog(t, d))
         /\ \A c : Alike(t, HandleRequestError(t, c))
         /\ \A r : Alike(t, SchedulePoll(t, r))
<1>1. ASSUME NEW d PROVE Alike(t, Open(t, d))
  BY Untouched DEF Open
<1>2. Alike(t, OpenSettings(t))
  BY <1>1 DEF OpenSettings
<1>3. Alike(t, OpenTrustDialog(t))
  <2> DEFINE o == Open(t, "trust")
             p == [o EXCEPT !.path = t.profile.root]
  <2>1. Alike(t, o) /\ DOMAIN o = TabFields
    BY <1>1 DEF Alike, Essence
  <2> HIDE DEF o
  <2>2. Alike(o, p)
    BY <2>1, Untouched
  <2> HIDE DEF p
  <2>3. Alike(t, p)
    BY <2>1, <2>2, AlikeTrans
  <2> QED
    BY <1>2, <2>3, Untouched DEF OpenTrustDialog, o, p
<1>4. ASSUME NEW d PROVE Alike(t, CloseDialog(t, d))
  BY Untouched DEF CloseDialog
<1>5. ASSUME NEW r PROVE Alike(t, SchedulePoll(t, r))
  BY Untouched DEF SchedulePoll
<1> QED
  BY <1>2, <1>3, <1>4, <1>5, Untouched DEF HandleRequestError

\* Rendering makes the page agree.
LEMMA Rendered ==
  ASSUME WorkbenchAssumption, NEW t, InTouch(t), NEW f
  PROVE  InTouch(RenderAll(t)) /\ Agrees(RenderAll(t)) /\ Settles(f, RenderAll(t))
<1>1. InTouch(RenderAll(t))
  BY DEF InTouch, Steady, RenderAll, TabFields
<1>2. Agrees(RenderAll(t))
  <2> DEFINE s == [run |-> t.selected, trace |-> t.trace]
             u == RenderAll(t)
  <2>1. u.shown = s /\ u.selected = t.selected
    BY DEF RenderAll, InTouch, TabFields
  <2>2. s.run = t.selected /\ s # None
    BY DEF InTouch, WorkbenchAssumption
  <2> HIDE DEF s, u
  <2>3. Agrees(u)
    BY <2>1, <2>2 DEF Agrees
  <2> QED
    BY <2>3 DEF u
<1> QED
  BY <1>1, <1>2 DEF Settles

-----------------------------------------------------------------------------
(* What a call does after its await, up to the next *)

LEMMA StartFailedPage ==
  ASSUME WorkbenchAssumption, WorkbenchInv, PageInv, Still, NEW f \in Flows,
         NEW t, Settles(f, t), NEW w, StartFailed(f, w, t)
  PROVE  PageInv'
<1> DEFINE h == HandleRequestError(t, w.err)
           e == [h EXCEPT !.busy = FALSE]
<1>1. Alike(t, h) /\ DOMAIN h = TabFields
  BY DialogsAlike DEF Settles, InTouch, Alike
<1> HIDE DEF h
<1>2. Alike(t, e)
  BY <1>1, Untouched, AlikeTrans
<1>3. StartFailed(f, w, t) => Done(f, e) \/ Done(f, SchedulePoll(RenderAll(e), None))
  BY DEF StartFailed, h
<1> HIDE DEF e
<1>4. Settles(f, e) /\ InTouch(e)
  BY <1>2, AlikeSettles DEF Settles
<1>5. Settles(f, RenderAll(e)) /\ DOMAIN RenderAll(e) = TabFields
  BY <1>4, Rendered DEF Settles, InTouch
<1>6. Settles(f, SchedulePoll(RenderAll(e), None))
  BY <1>5, DialogsAlike, AlikeSettles
<1> QED
  BY <1>3, <1>4, <1>6, Ends

LEMMA AfterSelectRunPage ==
  ASSUME WorkbenchAssumption, WorkbenchInv, PageInv, Still, NEW f \in Flows,
         NEW t, Settles(f, t), NEW w, Carries(w), AfterSelectRun(f, w, t)
  PROVE  PageInv'
<1>1. DOMAIN t = TabFields
  BY DEF Settles, InTouch
<1>2. Settles(f, [t EXCEPT !.busy = FALSE])
  BY <1>1, Untouched, AlikeSettles
<1> QED
  BY <1>2, Ends, StartFailedPage DEF AfterSelectRun

LEMMA SelectRunPage ==
  ASSUME WorkbenchAssumption, WorkbenchInv, PageInv, Still, NEW f \in Flows,
         NEW t, Settles(f, t), NEW w, DOMAIN w = CallFields, Carries(w), SelectRun(f, w, t)
  PROVE  PageInv'
<1> DEFINE c == [t EXCEPT !.poll = None]
           s == [w EXCEPT !.epoch = t.epoch]
<1>1. Settles(f, c) /\ InTouch(c)
  BY Untouched, AlikeSettles DEF Settles, InTouch
<1>2. DOMAIN s = CallFields /\ s.kind = w.kind /\ s.held = w.held
  BY DEF CallFields
<1>3. Await(f, s, "run", c) \/ AfterSelectRun(f, s, c)
  BY DEF SelectRun
<1> HIDE DEF c, s
<1>4. Carries(s) /\ AsksAt(s, "run", c)
  BY <1>2 DEF Carries, AsksAt
<1> QED
  BY <1>1, <1>2, <1>3, <1>4, AfterSelectRunPage, AsksNext

LEMMA AfterRefreshRunsPage ==
  ASSUME WorkbenchAssumption, WorkbenchInv, PageInv, Still, NEW f \in Flows,
         NEW t, Settles(f, t), NEW w, DOMAIN w = CallFields, Carries(w),
         w.kind \in {"start", "resolve"}, w.held \in Views, AfterRefreshRuns(f, w, t)
  PROVE  PageInv'
<1>1. DOMAIN t = TabFields /\ InTouch(t)
  BY DEF Settles, InTouch
<1>2. Settles(f, [t EXCEPT !.busy = FALSE])
  BY <1>1, Untouched, AlikeSettles
<1>3. CASE Done(f, [t EXCEPT !.busy = FALSE])
  BY <1>2, <1>3, Ends
<1>4. CASE Await(f, w, "trace", t)
  BY <1>1, <1>4, AsksNext DEF AsksAt
<1>5. ASSUME NEW u, InTouch(u), Done(f, SchedulePoll(RenderAll(u), None)) PROVE PageInv'
  <2>1. Settles(f, RenderAll(u)) /\ DOMAIN RenderAll(u) = TabFields
    BY <1>5, Rendered DEF Settles, InTouch
  <2> QED
    BY <1>5, <2>1, DialogsAlike, AlikeSettles, Ends
<1>6. CASE Done(f, SchedulePoll(RenderAll([t EXCEPT !.selected = w.held,
                     !.trace = None, !.busy = FALSE]), None))
  <2>1. InTouch([t EXCEPT !.selected = w.held, !.trace = None, !.busy = FALSE])
    BY <1>1 DEF InTouch, Steady, TabFields, Carries
  <2> QED
    BY <1>5, <1>6, <2>1
<1>7. CASE Done(f, [SchedulePoll(RenderAll([t EXCEPT !.selected = w.held,
                      !.trace = None]), None) EXCEPT !.busy = FALSE])
  <2> DEFINE u == [t EXCEPT !.selected = w.held, !.trace = None]
             p == SchedulePoll(RenderAll(u), None)
  <2>1. InTouch(u)
    BY <1>1 DEF InTouch, Steady, TabFields, Carries
  <2> HIDE DEF u
  <2>2. Settles(f, RenderAll(u)) /\ DOMAIN RenderAll(u) = TabFields
    BY <2>1, Rendered DEF Settles, InTouch
  <2>3. Settles(f, p) /\ DOMAIN p = TabFields
    BY <2>2, DialogsAlike, AlikeSettles DEF Alike
  <2> HIDE DEF p
  <2>4. Settles(f, [p EXCEPT !.busy = FALSE])
    BY <2>3, Untouched, AlikeSettles
  <2>5. Done(f, [p EXCEPT !.busy = FALSE])
    BY <1>7 DEF p, u
  <2> QED
    BY <2>4, <2>5, Ends
<1> QED
  BY <1>3, <1>4, <1>6, <1>7 DEF AfterRefreshRuns

LEMMA RefreshRunsPage ==
  ASSUME WorkbenchAssumption, WorkbenchInv, PageInv, Still, NEW f \in Flows,
         NEW t, Settles(f, t), NEW w, DOMAIN w = CallFields, Carries(w), RefreshRuns(f, w, t)
  PROVE  PageInv'
<1>1. InTouch(t) /\ t.operator # None
  BY DEF Settles, InTouch, Steady, WorkbenchAssumption
<1> QED
  BY <1>1, AsksNext DEF RefreshRuns, AsksAt

\* A newer navigation is in touch, whatever it is about.
LEMMA Navigated ==
  ASSUME WorkbenchInv, NEW t, InTouch(t), NEW r, r # Fresh
  PROVE  /\ InTouch(Navigate(t, r)) /\ DOMAIN Navigate(t, r) = TabFields
         /\ Navigate(t, r).selected = t.selected /\ Navigate(t, r).epoch = t.epoch + 1
<1> DEFINE n == Navigate(t, r)
<1>1. /\ DOMAIN n = TabFields /\ n.epoch = t.epoch + 1 /\ n.wanted = r
      /\ n.operator = t.operator /\ n.approver = t.approver /\ n.workspace = t.workspace
      /\ n.goal = t.goal /\ n.selected = t.selected /\ n.trace = t.trace
  BY DEF Navigate, InTouch, TabFields
<1>2. tab.epoch \in Nat
  BY DEF WorkbenchInv, TabOK
<1> HIDE DEF n
<1>3. n.epoch \in Nat /\ n.epoch > tab.epoch
  BY <1>1, <1>2 DEF InTouch
<1>4. InTouch(n)
  BY <1>1, <1>3 DEF InTouch, Steady
<1> QED
  BY <1>1, <1>4 DEF n

LEMMA EnterStartPage ==
  ASSUME WorkbenchAssumption, WorkbenchInv, PageInv, Still, NEW f \in Flows,
         NEW t, Settles(f, t), NEW w, DOMAIN w = CallFields, Carries(w),
         NEW r, EnterStart(f, w, t, r)
  PROVE  PageInv'
<1>1. DOMAIN t = TabFields /\ InTouch(t)
  BY DEF Settles, InTouch
<1>2. CASE Done(f, t)
  BY <1>2, Ends
<1>3. CASE Done(f, OpenTrustDialog([t EXCEPT !.pendingRun = r]))
  <2> DEFINE u == [t EXCEPT !.pendingRun = r]
  <2>1. Alike(t, u)
    BY <1>1, Untouched
  <2> HIDE DEF u
  <2>2. Settles(f, OpenTrustDialog(u))
    <3>1. DOMAIN u = TabFields
      BY <2>1 DEF Alike
    <3> QED
      BY <2>1, <3>1, DialogsAlike, AlikeSettles
  <2> QED
    BY <1>3, <2>2, Ends DEF u
<1>4. ASSUME ~(t.busy \/ t.selected = None), ~(t.selected.id # r \/ t.selected.status # "planned"),
             ~(t.selected.level # 0 /\ t.profile # None /\ ~t.profile.trusts)
      PROVE  PageInv'
  <2> DEFINE v == Navigate(t, r)
             n == [v EXCEPT !.busy = TRUE, !.pendingRun = None, !.selected.status = "starting"]
             s == [w EXCEPT !.kind = "start", !.run = r, !.epoch = n.epoch]
  <2>1. t.selected \in Views /\ r \in Runs /\ r # Fresh
    BY <1>1, <1>4 DEF InTouch, Views, WorkbenchAssumption
  <2>2. InTouch(v) /\ DOMAIN v = TabFields /\ v.selected = t.selected
    BY <1>1, <2>1, Navigated
  <2>3. Await(f, s, "start", RenderAll(n))
    BY <1>4 DEF EnterStart
  <2> HIDE DEF v
  <2>4. LET x == [v.selected EXCEPT !.status = "starting"]
        IN  x \in Views /\ x.home = row[x.id].home
    <3>1. v.selected # None
      BY <2>1, <2>2 DEF WorkbenchAssumption
    <3> QED
      BY <2>1, <2>2, <3>1 DEF Views, Statuses, Transient, InTouch, Steady
  <2>5. InTouch(n)
    BY <2>2, <2>4 DEF InTouch, Steady, TabFields
  <2> HIDE DEF n
  <2>6. InTouch(RenderAll(n)) /\ Settles(f, RenderAll(n))
    BY <2>5, Rendered
  <2>7. DOMAIN s = CallFields /\ s.kind = "start" /\ s.held = w.held
    BY DEF CallFields
  <2> HIDE DEF s
  <2>8. Carries(s) /\ AsksAt(s, "start", RenderAll(n))
    BY <2>7 DEF Carries, AsksAt
  <2> QED
    BY <2>3, <2>6, <2>7, <2>8, AsksNext
<1> QED
  BY <1>2, <1>3, <1>4 DEF EnterStart

LEMMA AfterTrustPage ==
  ASSUME WorkbenchAssumption, WorkbenchInv, PageInv, Still, NEW f \in Flows,
         NEW t, InTouch(t), NEW w, DOMAIN w = CallFields, Carries(w), AfterTrust(f, w, t)
  PROVE  PageInv'
<1> DEFINE q == RenderAll(t)
           r == [q EXCEPT !.busy = FALSE]
           u == [r EXCEPT !.pendingRun = None]
<1>1. Settles(f, q) /\ DOMAIN q = TabFields
  BY Rendered DEF Settles, InTouch
<1>2. AfterTrust(f, w, t) =>
        \/ EnterStart(f, w, u, r.pendingRun)
        \/ r.goal
        \/ Done(f, r)
  BY DEF AfterTrust
<1> HIDE DEF q
<1>3. Settles(f, r) /\ DOMAIN r = TabFields
  <2>1. Settles(f, r)
    BY <1>1, Untouched, AlikeSettles
  <2> QED
    BY <2>1 DEF Settles, InTouch
<1> HIDE DEF r
<1>4. Settles(f, u)
  BY <1>3, Untouched, AlikeSettles
<1>5. ~r.goal
  BY <1>3 DEF Settles, InTouch, Steady
<1> HIDE DEF u
<1> QED
  BY <1>2, <1>3, <1>4, <1>5, EnterStartPage, Ends

LEMMA AfterRefreshWorkspacePage ==
  ASSUME WorkbenchAssumption, WorkbenchInv, PageInv, Still, NEW f \in Flows,
         NEW t, InTouch(t), NEW w, DOMAIN w = CallFields, Carries(w), NEW ok \in BOOLEAN,
         Settles(f, t) \/ w.kind = "trust" \/ (ok /\ w.epoch = t.epoch),
         AfterRefreshWorkspace(f, w, t, ok)
  PROVE  PageInv'
<1>1. CASE w.kind = "trust"
  BY <1>1, AfterTrustPage DEF AfterRefreshWorkspace
<1>2. CASE w.kind # "trust"
  <2>1. w.kind \notin {"connect", "bootstrap"}
    BY DEF Carries
  <2>2. CASE ok /\ w.epoch = t.epoch
    <3>1. AfterSelectRun(f, w, SchedulePoll(RenderAll(t), None))
      BY <1>2, <2>1, <2>2 DEF AfterRefreshWorkspace
    <3>2. Settles(f, RenderAll(t)) /\ DOMAIN RenderAll(t) = TabFields
      BY Rendered DEF Settles, InTouch
    <3>3. Settles(f, SchedulePoll(RenderAll(t), None))
      BY <3>2, DialogsAlike, AlikeSettles
    <3> QED
      BY <3>1, <3>3, AfterSelectRunPage
  <2>3. CASE ~(ok /\ w.epoch = t.epoch)
    <3>1. AfterSelectRun(f, w, t) /\ Settles(f, t)
      BY <1>2, <2>1, <2>3 DEF AfterRefreshWorkspace
    <3> QED
      BY <3>1, AfterSelectRunPage
  <2> QED
    BY <2>2, <2>3
<1> QED
  BY <1>1, <1>2

LEMMA RefreshWorkspacePage ==
  ASSUME WorkbenchAssumption, WorkbenchInv, PageInv, Still, NEW f \in Flows,
         NEW t, InTouch(t), NEW w, DOMAIN w = CallFields, Carries(w),
         \/ w.kind = "trust" /\ Settles(f, t)
         \/ w.held # None /\ w.epoch = t.epoch /\ t.workspace = w.held.home,
         RefreshWorkspace(f, w, t)
  PROVE  PageInv'
<1> DEFINE s == [w EXCEPT !.ws = t.workspace]
<1>1. t.workspace # None /\ t.operator # None
  BY DEF InTouch, Steady, WorkbenchAssumption
<1>2. Await(f, s, "profile", t)
  BY <1>1 DEF RefreshWorkspace
<1>3. /\ DOMAIN s = CallFields /\ s.kind = w.kind /\ s.held = w.held /\ s.epoch = w.epoch
      /\ s.ws = t.workspace
  BY DEF CallFields
<1> HIDE DEF s
<1>4. Carries(s) /\ AsksAt(s, "profile", t)
  BY <1>3 DEF Carries, AsksAt
<1> QED
  BY <1>2, <1>3, <1>4, AsksNext

\* The run of the newest navigation is selected, in the directory it is in.
LEMMA SelectedPage ==
  ASSUME WorkbenchAssumption, WorkbenchInv, PageInv, Still, NEW f \in Flows,
         NEW w, DOMAIN w = CallFields, Carries(w), w.epoch = tab.epoch,
         w.held \in Views, w.held.id = tab.wanted, tab.wanted \in Existing,
         Selected(f, w, tab)
  PROVE  PageInv'
<1> DEFINE u == [tab EXCEPT !.selected = w.held,
                   !.trace = IF w.held.status = "done" /\ w.reply.code = "ok"
                             THEN w.held.id ELSE None,
                   !.workspace = w.held.home]
<1>1. /\ DOMAIN tab = TabFields /\ tab.epoch \in Nat /\ Steady(tab)
      /\ w.held # None /\ w.held.home = row[tab.wanted].home
      /\ w.held.home \in Workspaces /\ w.held.id \in Runs
  BY DEF WorkbenchInv, TabOK, PageInv, Carries, Views, WorkbenchAssumption
<1>2. /\ DOMAIN u = TabFields /\ u.operator = tab.operator /\ u.approver = tab.approver
      /\ u.workspace = w.held.home /\ u.goal = tab.goal /\ u.wanted = tab.wanted
      /\ u.epoch = tab.epoch /\ u.selected = w.held /\ u.trace \in Runs \cup {None}
  BY <1>1 DEF TabFields
<1>3. RefreshWorkspace(f, w, u)
  BY DEF Selected
<1> HIDE DEF u
<1>4. InTouch(u)
  BY <1>1, <1>2 DEF InTouch, Steady
<1> QED
  BY <1>1, <1>2, <1>3, <1>4, RefreshWorkspacePage

-----------------------------------------------------------------------------
(* Answers arrive *)

\* f is about a call that gets an answer.
Hears(f, w) == f \in Flows /\ w = flow[f] /\ w # Idle /\ w.reply # None

LEMMA TabInTouch == ASSUME WorkbenchInv, PageInv PROVE InTouch(tab) /\ DOMAIN tab = TabFields
<1>1. tab.selected \in Views \cup {None} /\ tab.trace \in Runs \cup {None}
  BY DEF WorkbenchInv, TabOK, Existing
<1> QED
  BY <1>1 DEF InTouch, WorkbenchInv, TabOK, PageInv

LEMMA Heard ==
  ASSUME WorkbenchAssumption, WorkbenchInv, PageInv, NEW f, NEW w, Hears(f, w)
  PROVE  /\ InTouch(tab) /\ Answered(tab, w) = tab
         /\ Regular(w, tab) /\ Carries(w) /\ CallOK(w, tab) /\ CarryOK(w, tab)
         /\ DOMAIN w = CallFields /\ w.reply.run \in Views \cup {None}
         /\ (w.kind # "select" /\ w.at # "profile") \/ w.epoch # tab.epoch => Settles(f, tab)
<1>1. Regular(w, tab) /\ Carries(w) /\ CallOK(w, tab) /\ CarryOK(w, tab) /\ DOMAIN w = CallFields
  BY DEF Hears, PageInv, Regular, WorkbenchInv, CallOK, CarryOK
<1>2. w.reply.code # "401" /\ w.reply.run \in Views \cup {None}
  BY <1>1 DEF Hears, Regular, AnswerIs, CallOK, ReplyOK, Replies
<1>3. Answered(tab, w) = tab
  BY <1>2 DEF Answered
<1>4. (w.kind # "select" /\ w.at # "profile") \/ w.epoch # tab.epoch => Settles(f, tab)
  BY TabInTouch DEF Settles, Pending, Hears
<1> QED
  BY <1>1, <1>2, <1>3, <1>4, TabInTouch

LEMMA ProfileArrivesPage ==
  ASSUME WorkbenchAssumption, WorkbenchInv, PageInv, Still, NEW f \in Flows, NEW w, Hears(f, w),
         ProfileArrives(f, w, tab)
  PROVE  PageInv'
<1>1. /\ InTouch(tab) /\ DOMAIN tab = TabFields /\ Carries(w) /\ DOMAIN w = CallFields
      /\ w.at = "profile" /\ w.reply.code = "ok"
      /\ w.kind # "trust" /\ w.epoch = tab.epoch => w.ws = tab.workspace
      /\ w.epoch # tab.epoch => Settles(f, tab)
  BY Heard, TabInTouch DEF Hears, Regular, AsksAt, AnswerIs, ProfileArrives
<1> DEFINE u == [tab EXCEPT !.profile = [root |-> w.ws, trusts |-> w.reply.trusts]]
<1>2. CASE AfterRefreshWorkspace(f, w, tab, FALSE) /\ (w.kind # "trust" => w.epoch # tab.epoch)
  BY <1>1, <1>2, AfterRefreshWorkspacePage
<1>3. CASE AfterRefreshWorkspace(f, w, u, TRUE) /\ (w.kind # "trust" => w.epoch = tab.epoch)
  <2>1. Alike(tab, u) /\ u.epoch = tab.epoch
    BY <1>1, Untouched DEF TabFields
  <2> HIDE DEF u
  <2>2. InTouch(u)
    BY <1>1, <2>1, AlikeSettles
  <2> QED
    BY <1>1, <1>3, <2>1, <2>2, AfterRefreshWorkspacePage
<1> QED
  <2>1. w.kind \notin {"connect", "bootstrap"}
    BY <1>1 DEF Carries
  <2> QED
    BY <1>1, <1>2, <1>3, <2>1 DEF ProfileArrives, Ok

LEMMA ListArrivesPage ==
  ASSUME WorkbenchAssumption, WorkbenchInv, PageInv, Still, NEW f \in Flows, NEW w, Hears(f, w),
         ListArrives(f, w, tab)
  PROVE  PageInv'
<1> DEFINE u == IF Ok(w) THEN [tab EXCEPT !.runs = w.reply.runs]
                ELSE HandleRequestError(tab, w.reply.code)
<1>1. /\ Carries(w) /\ DOMAIN w = CallFields /\ w.at = "list" /\ CallOK(w, tab)
  BY Heard DEF ListArrives
<1>2. w.kind \in {"start", "resolve"} /\ w.held \in Views
  BY <1>1 DEF Carries, CallOK, AtOK, CarryOK
<1>3. Settles(f, tab) /\ DOMAIN tab = TabFields
  BY <1>1, <1>2, Heard, TabInTouch
<1>4. Alike(tab, u)
  BY <1>3, Untouched, DialogsAlike
<1>5. AfterRefreshRuns(f, w, u)
  BY DEF ListArrives
<1> HIDE DEF u
<1>6. Settles(f, u)
  BY <1>3, <1>4, AlikeSettles
<1> QED
  BY <1>1, <1>2, <1>5, <1>6, AfterRefreshRunsPage

LEMMA RunArrivesPage ==
  ASSUME WorkbenchAssumption, WorkbenchInv, PageInv, Still, NEW f \in Flows, NEW w, Hears(f, w),
         RunArrives(f, w, tab)
  PROVE  PageInv'
<1>1. /\ Carries(w) /\ CarryOK(w, tab) /\ CallOK(w, tab) /\ DOMAIN w = CallFields
      /\ InTouch(tab) /\ w.at = "run" /\ w.reply.code = "ok"
      /\ w.epoch # tab.epoch => Settles(f, tab)
  BY Heard DEF Hears, Regular, AnswerIs, RunArrives
<1>2. CASE w.epoch # tab.epoch
  BY <1>1, <1>2, AfterSelectRunPage DEF RunArrives
<1>3. CASE w.epoch = tab.epoch
  <2> DEFINE s == [w EXCEPT !.held = w.reply.run]
  <2>1. IF s.held.status = "done" THEN Await(f, s, "trace", tab) ELSE Selected(f, s, tab)
    BY <1>1, <1>3 DEF RunArrives, Fails
  <2>2. /\ w.reply.run \in Views /\ w.reply.run.id = w.run /\ w.run \in Existing
        /\ w.reply.run.home = row[w.reply.run.id].home /\ w.kind \in Choosing
    BY <1>1, Heard DEF Hears, CallOK, ReplyOK, AtOK, OfRuns, CarryOK, Replies, Regular, AnswerIs
  <2>3. w.run = tab.wanted
    BY <1>1, <1>3, <2>2 DEF CarryOK, Wants, PageInv, Steady
  <2>4. /\ DOMAIN s = CallFields /\ s.held = w.reply.run /\ s.kind = w.kind
        /\ s.epoch = w.epoch
    BY <1>1 DEF CallFields
  <2> HIDE DEF s
  <2>5. Carries(s) /\ AsksAt(s, "trace", tab)
    BY <1>1, <2>2, <2>4 DEF Carries, AsksAt
  <2>6. CASE Await(f, s, "trace", tab)
    <3>1. s.kind # "select" => Settles(f, tab)
      BY <1>1, <2>4, Heard
    <3> QED
      BY <1>1, <1>3, <2>4, <2>5, <2>6, <3>1, AsksNext
  <2>7. CASE Selected(f, s, tab)
    BY <1>3, <2>2, <2>3, <2>4, <2>5, <2>7, SelectedPage
  <2> QED
    BY <2>1, <2>6, <2>7
<1> QED
  BY <1>2, <1>3

LEMMA TraceArrivesPage ==
  ASSUME WorkbenchAssumption, WorkbenchInv, PageInv, Still, NEW f \in Flows, NEW w, Hears(f, w),
         TraceArrives(f, w, tab)
  PROVE  PageInv'
<1>1. /\ Carries(w) /\ CarryOK(w, tab) /\ CallOK(w, tab) /\ DOMAIN w = CallFields
      /\ w.at = "trace" /\ w.reply.code \in {"ok", "404"}
      /\ w.epoch # tab.epoch => Settles(f, tab)
  BY Heard DEF Hears, Regular, AnswerIs, TraceArrives
<1>2. CASE w.epoch # tab.epoch
  BY <1>1, <1>2, AfterSelectRunPage DEF TraceArrives
<1>3. CASE w.epoch = tab.epoch
  <2>1. Selected(f, w, tab)
    BY <1>1, <1>3 DEF TraceArrives
  <2>2. /\ w.held \in Views /\ w.held.id = w.run /\ w.run \in Existing /\ w.kind \in Choosing
    BY <1>1 DEF CallOK, AtOK, OfRuns, CarryOK
  <2>3. w.run = tab.wanted
    BY <1>1, <1>3, <2>2 DEF CarryOK, Wants, PageInv, Steady
  <2> QED
    BY <1>1, <1>3, <2>1, <2>2, <2>3, SelectedPage
<1> QED
  BY <1>2, <1>3

LEMMA StartedArrivesPage ==
  ASSUME WorkbenchAssumption, WorkbenchInv, PageInv, Still, NEW f \in Flows, NEW w, Hears(f, w),
         StartedArrives(f, w, tab)
  PROVE  PageInv'
<1> DEFINE e == [w EXCEPT !.err = w.reply.code]
           h == [w EXCEPT !.held = w.reply.run]
<1>1. /\ Carries(w) /\ CallOK(w, tab) /\ DOMAIN w = CallFields /\ w.at = "start"
      /\ w.reply.run # None => w.reply.run.home = row[w.reply.run.id].home
  BY Heard DEF Hears, Regular, AnswerIs, StartedArrives
<1>2. w.kind = "start"
  BY <1>1 DEF Carries, CallOK, AtOK
<1>3. Settles(f, tab)
  BY <1>1, <1>2, Heard
<1>4. DOMAIN e = CallFields /\ e.kind = "start" /\ e.held = w.held
  BY <1>1, <1>2 DEF CallFields
<1>5. DOMAIN h = CallFields /\ h.kind = "start" /\ h.held = w.reply.run
  BY <1>1, <1>2 DEF CallFields
<1>6. RefreshRuns(f, h, tab) \/ SelectRun(f, e, tab) \/ StartFailed(f, e, tab)
  BY <1>2 DEF StartedArrives
<1> HIDE DEF e, h
<1>7. Carries(e) /\ Carries(h)
  BY <1>1, <1>4, <1>5 DEF Carries
<1> QED
  BY <1>3, <1>4, <1>5, <1>6, <1>7, RefreshRunsPage, SelectRunPage, StartFailedPage

LEMMA TrustArrivesPage ==
  ASSUME WorkbenchAssumption, WorkbenchInv, PageInv, Still, NEW f \in Flows, NEW w, Hears(f, w),
         TrustArrives(f, w, tab)
  PROVE  PageInv'
<1> DEFINE c == CloseDialog(tab, "trust")
           b == [tab EXCEPT !.busy = FALSE]
<1>1. /\ Carries(w) /\ CallOK(w, tab) /\ DOMAIN w = CallFields /\ w.at = "trust"
      /\ DOMAIN tab = TabFields
  BY Heard, TabInTouch DEF TrustArrives
<1>2. w.kind = "trust"
  BY <1>1 DEF CallOK, AtOK
<1>3. Settles(f, tab)
  BY <1>1, <1>2, Heard
<1>4. Settles(f, c) /\ Settles(f, b)
  BY <1>1, <1>3, Untouched, DialogsAlike, AlikeSettles
<1>5. RefreshWorkspace(f, w, c) \/ Done(f, b)
  BY DEF TrustArrives
<1> HIDE DEF b, c
<1> QED
  BY <1>1, <1>2, <1>4, <1>5, RefreshWorkspacePage, Ends DEF Settles

LEMMA ResolveFailsPage ==
  ASSUME WorkbenchAssumption, WorkbenchInv, PageInv, Still, NEW f \in Flows, NEW w,
         Settles(f, tab), ResolveFails(f, w, tab)
  PROVE  PageInv'
<1> DEFINE e == HandleRequestError(tab, w.reply.code)
           p == SchedulePoll(e, w.run)
<1>1. Alike(tab, e)
  BY TabInTouch, DialogsAlike
<1>2. Done(f, [p EXCEPT !.busy = FALSE]) \/ Done(f, [e EXCEPT !.busy = FALSE])
  BY DEF ResolveFails
<1> HIDE DEF e
<1>3. Settles(f, e) /\ DOMAIN e = TabFields
  <2>1. Settles(f, e)
    BY <1>1, AlikeSettles
  <2> QED
    BY <2>1 DEF Settles, InTouch
<1>4. Settles(f, p) /\ DOMAIN p = TabFields
  <2>1. Settles(f, p)
    BY <1>3, DialogsAlike, AlikeSettles
  <2> QED
    BY <2>1 DEF Settles, InTouch
<1> HIDE DEF p
<1>5. Settles(f, [p EXCEPT !.busy = FALSE]) /\ Settles(f, [e EXCEPT !.busy = FALSE])
  BY <1>3, <1>4, Untouched, AlikeSettles
<1> QED
  BY <1>2, <1>5, Ends

LEMMA DecisionArrivesPage ==
  ASSUME WorkbenchAssumption, WorkbenchInv, PageInv, Still, NEW f \in Flows, NEW w, Hears(f, w),
         DecisionArrives(f, w, tab)
  PROVE  PageInv'
<1> DEFINE e == [w EXCEPT !.err = "409"]
           h == [w EXCEPT !.held = w.reply.run]
<1>1. /\ Carries(w) /\ CallOK(w, tab) /\ DOMAIN w = CallFields
      /\ w.at \in {"approvals", "decline"}
      /\ w.reply.run # None => w.reply.run.home = row[w.reply.run.id].home
  BY Heard DEF Hears, Regular, AnswerIs, DecisionArrives
<1>2. w.kind = "resolve"
  BY <1>1 DEF CallOK, AtOK
<1>3. Settles(f, tab)
  BY <1>1, <1>2, Heard
<1>4. DOMAIN e = CallFields /\ e.kind = "resolve" /\ e.held = w.held
  BY <1>1, <1>2 DEF CallFields
<1>5. DOMAIN h = CallFields /\ h.kind = "resolve" /\ h.held = w.reply.run
  BY <1>1, <1>2 DEF CallFields
<1>6. \/ RefreshRuns(f, h, tab) \/ RefreshRuns(f, e, tab)
      \/ ResolveFails(f, w, tab) \/ SelectRun(f, e, tab)
  BY DEF DecisionArrives
<1> HIDE DEF e, h
<1>7. Carries(e) /\ Carries(h)
  BY <1>1, <1>2, <1>4, <1>5 DEF Carries
<1> QED
  BY <1>3, <1>4, <1>5, <1>6, <1>7, RefreshRunsPage, SelectRunPage, ResolveFailsPage

LEMMA DecisionTraceArrivesPage ==
  ASSUME WorkbenchAssumption, WorkbenchInv, PageInv, Still, NEW f \in Flows, NEW w, Hears(f, w),
         DecisionTraceArrives(f, w, tab)
  PROVE  PageInv'
<1> DEFINE u == [tab EXCEPT !.selected = w.held, !.trace = w.run]
           p == SchedulePoll(RenderAll(u), None)
<1>1. /\ CallOK(w, tab) /\ CarryOK(w, tab) /\ w.at = "trace" /\ w.kind = "resolve"
      /\ Carries(w) /\ DOMAIN tab = TabFields /\ InTouch(tab)
  BY Heard, TabInTouch DEF DecisionTraceArrives, Selecting
<1>2. Settles(f, tab)
  BY <1>1, Heard
<1>3. w.held \in Views /\ w.run \in Runs
  BY <1>1 DEF CallOK, AtOK, OfRuns, CarryOK, Existing
<1>4. InTouch(u)
  BY <1>1, <1>3 DEF InTouch, Steady, TabFields, Carries
<1>5. \/ ResolveFails(f, w, tab)
      \/ Done(f, [p EXCEPT !.busy = FALSE])
      \/ Done(f, [tab EXCEPT !.busy = FALSE])
  BY DEF DecisionTraceArrives
<1> HIDE DEF u
<1>6. Settles(f, RenderAll(u)) /\ DOMAIN RenderAll(u) = TabFields
  BY <1>4, Rendered DEF Settles, InTouch
<1>7. Settles(f, p)
  BY <1>6, DialogsAlike, AlikeSettles
<1>8. DOMAIN p = TabFields
  BY <1>7 DEF Settles, InTouch
<1> HIDE DEF p
<1>9. Settles(f, [p EXCEPT !.busy = FALSE]) /\ Settles(f, [tab EXCEPT !.busy = FALSE])
  BY <1>1, <1>2, <1>7, <1>8, Untouched, AlikeSettles
<1> QED
  BY <1>2, <1>5, <1>9, ResolveFailsPage, Ends

LEMMA ArrivePage ==
  ASSUME WorkbenchAssumption, WorkbenchInv, PageInv, NEW f \in Flows, Arrive(f)
  PROVE  PageInv'
<1> PICK w : w = flow[f]
  OBVIOUS
<1>1. Hears(f, w) /\ Still
  BY DEF Arrive, Hears, Still, planeVars
<1>2. Answered(tab, w) = tab /\ w.at \notin {"runtime", "session", "create"}
  BY <1>1, Heard DEF Regular, AsksAt
<1>3. \/ ProfileArrives(f, w, tab)  \/ ListArrives(f, w, tab)
      \/ RunArrives(f, w, tab)      \/ TraceArrives(f, w, tab)
      \/ StartedArrives(f, w, tab)  \/ TrustArrives(f, w, tab)
      \/ DecisionArrives(f, w, tab) \/ DecisionTraceArrives(f, w, tab)
  BY <1>2 DEF Arrive, RuntimeArrives, SessionArrives, CreatedArrives
<1> QED
  BY <1>1, <1>3, ProfileArrivesPage, ListArrivesPage, RunArrivesPage, TraceArrivesPage,
     StartedArrivesPage, TrustArrivesPage, DecisionArrivesPage, DecisionTraceArrivesPage

-----------------------------------------------------------------------------
(* The person and the timer *)

\* No call goes on: the page agrees, or nothing it shows has changed.
LEMMA Quieter ==
  ASSUME WorkbenchAssumption, WorkbenchInv, PageInv, Still, NEW t, InTouch(t),
         Agrees(t) \/ (t.epoch = tab.epoch /\ t.selected = tab.selected /\ t.shown = tab.shown),
         tab' = t, flow' = flow
  PROVE  PageInv'
<1>1. row' = row
  BY DEF Still
<1>2. ASSUME NEW g \in Flows PROVE (flow[g] = Idle \/ Regular(flow[g], tab))'
  <2>1. flow[g] = Idle \/ Regular(flow[g], t)
    BY OthersRegular
  <2> QED
    BY <1>1, <2>1 DEF Regular, Carries, AsksAt, AnswerIs
<1>3. (Agrees(tab) \/ \E g \in Flows : Pending(flow[g], tab))'
  BY DEF PageInv, Agrees, Pending
<1>4. Steady(tab)'
  BY <1>1 DEF InTouch, Steady
<1> QED
  BY <1>2, <1>3, <1>4 DEF PageInv

LEMMA SamePage ==
  ASSUME WorkbenchAssumption, WorkbenchInv, PageInv, Still, NEW t, Alike(tab, t),
         tab' = t, flow' = flow
  PROVE  PageInv'
<1>1. t.epoch = tab.epoch /\ t.selected = tab.selected /\ t.shown = tab.shown
  BY DEF Alike, Essence
<1>2. InTouch(t)
  BY TabInTouch, AlikeSettles
<1> QED
  BY <1>1, <1>2, Quieter

\* A call that is free may begin.
LEMMA BeginsPage ==
  ASSUME WorkbenchAssumption, WorkbenchInv, PageInv, NEW f, FreeFlow(f)
  PROVE  /\ Settles(f, tab) /\ InTouch(tab) /\ DOMAIN tab = TabFields
         /\ \A kind \in {"select", "poll", "start", "resolve", "trust"} : \A r :
              DOMAIN Call(kind, r) = CallFields /\ Carries(Call(kind, r))
                /\ Call(kind, r).kind = kind /\ Call(kind, r).held = None
<1>1. Settles(f, tab)
  BY TabInTouch DEF Settles, Pending, FreeFlow
<1> QED
  BY <1>1, TabInTouch DEF Call, CallFields, Carries

LEMMA PollFiresPage ==
  ASSUME WorkbenchAssumption, WorkbenchInv, PageInv, NEW f \in Flows, PollFires(f)
  PROVE  PageInv'
<1>1. FreeFlow(f) /\ Still /\ SelectRun(f, Call("poll", tab.poll), tab)
  BY DEF PollFires, Still, planeVars
<1> QED
  BY <1>1, BeginsPage, SelectRunPage

LEMMA ClickRunPage ==
  ASSUME WorkbenchAssumption, WorkbenchInv, PageInv, NEW f \in Flows, NEW r \in Runs,
         ClickRun(f, r)
  PROVE  PageInv'
<1> DEFINE n == Navigate(tab, r)
           c == Call("select", r)
           w == [c EXCEPT !.epoch = n.epoch]
<1>1. FreeFlow(f) /\ Still /\ Await(f, w, "run", n)
  BY DEF ClickRun, Gesture, Still, planeVars
<1>2. r # Fresh
  BY DEF WorkbenchAssumption
<1>3. InTouch(n)
  BY <1>1, <1>2, BeginsPage, Navigated
<1>4. DOMAIN c = CallFields /\ c.kind = "select" /\ c.held = None
  BY DEF Call, CallFields
<1> HIDE DEF c, n
<1>5. DOMAIN w = CallFields /\ w.kind = "select" /\ w.held = None /\ w.epoch = n.epoch
  BY <1>4 DEF CallFields
<1> HIDE DEF w
<1>6. Carries(w) /\ AsksAt(w, "run", n)
  BY <1>5 DEF Carries, AsksAt
<1> QED
  BY <1>1, <1>3, <1>5, <1>6, AsksNext

LEMMA NewTaskPage ==
  ASSUME WorkbenchAssumption, WorkbenchInv, PageInv, NewTask
  PROVE  PageInv'
<1> DEFINE n == Navigate(tab, None)
           u == [n EXCEPT !.selected = None, !.trace = None, !.goal = FALSE, !.pendingRun = None]
<1>1. None # Fresh
  BY DEF WorkbenchAssumption
<1>2. InTouch(n)
  BY <1>1, TabInTouch, Navigated
<1>3. tab' = RenderAll(u) /\ flow' = flow /\ Still
  BY DEF NewTask, Gesture, Still, planeVars
<1> HIDE DEF n
<1>4. InTouch(u)
  BY <1>2 DEF InTouch, Steady, TabFields
<1> HIDE DEF u
<1>5. InTouch(RenderAll(u)) /\ Agrees(RenderAll(u))
  BY <1>4, Rendered
<1> QED
  BY <1>3, <1>5, Quieter

LEMMA ClickStartPage ==
  ASSUME WorkbenchAssumption, WorkbenchInv, PageInv, NEW f \in Flows, ClickStart(f)
  PROVE  PageInv'
<1>1. FreeFlow(f) /\ Still /\ EnterStart(f, Call("start", None), tab, tab.shown.run.id)
  BY DEF ClickStart, Gesture, Still, planeVars
<1> QED
  BY <1>1, BeginsPage, EnterStartPage

LEMMA ClickDecisionPage ==
  ASSUME WorkbenchAssumption, WorkbenchInv, PageInv, NEW f \in Flows,
         NEW a \in {"approvals", "decline"}, ClickDecision(f, a)
  PROVE  PageInv'
<1>1. FreeFlow(f) /\ Still
  BY DEF ClickDecision, Gesture, Still, planeVars
<1>2. Settles(f, tab) /\ InTouch(tab) /\ DOMAIN tab = TabFields
  BY <1>1, BeginsPage
<1>3. CASE Done(f, tab)
  BY <1>1, <1>2, <1>3, Ends
<1>4. CASE Done(f, OpenSettings(tab))
  BY <1>1, <1>2, <1>4, DialogsAlike, AlikeSettles, Ends
<1>5. ASSUME ~(tab.selected = None \/ (tab.selected # None /\ tab.selected.asks = 0)),
             tab.approver # None
      PROVE  PageInv'
  <2> DEFINE run == tab.selected
             v == Navigate(tab, run.id)
             n == [v EXCEPT !.busy = TRUE, !.selected.status = "approving"]
             c == Call("resolve", run.id)
             w == [c EXCEPT !.epoch = n.epoch, !.held = run, !.meant = tab.shown.run]
  <2>1. Await(f, w, a, RenderAll(n))
    BY <1>5 DEF ClickDecision
  <2>2. run \in Views /\ run # None /\ run.id \in Runs /\ run.id # Fresh
        /\ run.home = row[run.id].home
    BY <1>2, <1>5 DEF InTouch, Steady, Views, WorkbenchAssumption
  <2>3. InTouch(v) /\ DOMAIN v = TabFields /\ v.selected = run
    BY <1>2, <2>2, Navigated
  <2> HIDE DEF v
  <2>4. LET x == [v.selected EXCEPT !.status = "approving"]
        IN  x \in Views /\ x.home = row[x.id].home
    BY <2>2, <2>3 DEF Views, Statuses, Transient
  <2>5. InTouch(n)
    BY <2>3, <2>4 DEF InTouch, Steady, TabFields
  <2> HIDE DEF n
  <2>6. DOMAIN c = CallFields /\ c.kind = "resolve"
    BY DEF Call, CallFields
  <2> HIDE DEF c
  <2>7. DOMAIN w = CallFields /\ w.kind = "resolve" /\ w.held = run
    BY <2>6 DEF CallFields
  <2> HIDE DEF w
  <2>8. Carries(w) /\ AsksAt(w, a, RenderAll(n))
    BY <2>2, <2>7 DEF Carries, AsksAt
  <2>9. InTouch(RenderAll(n)) /\ Settles(f, RenderAll(n))
    BY <2>5, Rendered
  <2> QED
    BY <1>1, <2>1, <2>7, <2>8, <2>9, AsksNext
<1> QED
  BY <1>3, <1>4, <1>5 DEF ClickDecision

LEMMA ConfirmTrustPage ==
  ASSUME WorkbenchAssumption, WorkbenchInv, PageInv, NEW f \in Flows, ConfirmTrust(f)
  PROVE  PageInv'
<1> DEFINE b == [tab EXCEPT !.busy = TRUE]
           c == Call("trust", None)
           w == [c EXCEPT !.ws = tab.profile.root, !.meant = tab.path]
<1>1. FreeFlow(f) /\ Still /\ (Done(f, tab) \/ Await(f, w, "trust", b))
  BY DEF ConfirmTrust, Gesture, Still, planeVars
<1>2. Settles(f, tab) /\ DOMAIN tab = TabFields
  BY <1>1, BeginsPage
<1>3. Settles(f, b)
  BY <1>2, Untouched, AlikeSettles
<1>4. DOMAIN c = CallFields /\ c.kind = "trust" /\ c.held = None
  BY DEF Call, CallFields
<1> HIDE DEF b, c
<1>5. DOMAIN w = CallFields /\ w.kind = "trust" /\ w.held = None
  BY <1>4 DEF CallFields
<1> HIDE DEF w
<1>6. Carries(w) /\ AsksAt(w, "trust", b)
  BY <1>5 DEF Carries, AsksAt
<1> QED
  BY <1>1, <1>2, <1>3, <1>5, <1>6, Ends, AsksNext DEF Settles

LEMMA PersonPage ==
  ASSUME WorkbenchAssumption, WorkbenchInv, PageInv, Undisturbed, Person
  PROVE  PageInv'
<1>1. \A g \in {"goal", "connect", "forget", "reload"} : g \notin setting.gestures
  BY DEF Undisturbed
<1>2. ASSUME NEW l \in Levels, SetMode(l) PROVE PageInv'
  BY <1>2, TabInTouch, Untouched, SamePage DEF SetMode, Gesture, Still, planeVars
<1>3. CASE CancelTrust
  <2> DEFINE c == CloseDialog(tab, "trust")
             g == [c EXCEPT !.goal = FALSE]
             u == [g EXCEPT !.pendingRun = None]
  <2>1. Alike(tab, c)
    BY TabInTouch, DialogsAlike
  <2>2. DOMAIN c = TabFields
    BY <2>1 DEF Alike
  <2>3. tab' = [c EXCEPT !.goal = FALSE, !.pendingRun = None] /\ flow' = flow /\ Still
    BY <1>3 DEF CancelTrust, Gesture, Still, planeVars
  <2> HIDE DEF c
  <2>4. tab' = u
    BY <2>3
  <2>5. Alike(tab, g)
    BY <2>1, <2>2, Untouched, AlikeTrans
  <2>6. DOMAIN g = TabFields
    BY <2>5 DEF Alike
  <2> HIDE DEF g
  <2>7. Alike(tab, u)
    BY <2>5, <2>6, Untouched, AlikeTrans
  <2> QED
    BY <2>3, <2>4, <2>7, SamePage
<1>4. /\ ~ClickSettings /\ ~CloseSettings /\ ~ForgetAccess
      /\ \A f : ~StartGoal(f) /\ ~Reload(f)
      /\ \A f, op, ap, ws : ~Connect(f, op, ap, ws)
  BY <1>1 DEF ClickSettings, CloseSettings, ForgetAccess, StartGoal, Reload, Connect, Gesture
<1> QED
  BY <1>2, <1>3, <1>4, NewTaskPage, ClickStartPage, ConfirmTrustPage, ClickRunPage,
     ClickDecisionPage DEF Person

-----------------------------------------------------------------------------
(* The server and everybody else *)

\* A run stays in its directory.
Stay == Existing \subseteq Existing' /\ \A r \in Existing : row'[r].home = row[r].home

\* An answer that an undisturbed tab may get.
Serves(w, rep) ==
  /\ rep.code # "401"
  /\ w.at \in {"run", "profile"} => rep.code = "ok"
  /\ w.at = "trace" => rep.code \in {"ok", "404"}
  /\ rep.run # None => rep.run.home = row'[rep.run.id].home

\* Calls get answers or are taken on; nothing else changes for the tab.
LEMMA ServedPage ==
  ASSUME WorkbenchAssumption, WorkbenchInv, PageInv, Stay, UNCHANGED tab,
         \A g \in Flows :
           \/ flow'[g] = flow[g]
           \/ flow[g] # Idle /\ flow'[g] = [flow[g] EXCEPT !.accepted = TRUE]
           \/ /\ flow[g] # Idle
              /\ \E rep : Serves(flow[g], rep) /\ flow'[g] = [flow[g] EXCEPT !.reply = rep]
  PROVE  PageInv'
<1>1. ASSUME NEW g \in Flows, flow[g] # Idle
      PROVE  Regular(flow[g], tab)' /\ (Pending(flow[g], tab) => Pending(flow[g], tab)')
  <2> PICK w : w = flow[g]
    OBVIOUS
  <2> PICK m : m = flow'[g]
    OBVIOUS
  <2>1. Regular(w, tab) /\ CallOK(w, tab) /\ DOMAIN w = CallFields
    BY <1>1 DEF PageInv, WorkbenchInv, CallOK, CarryOK
  <2>2. /\ w.held # None => w.held.id \in Existing
        /\ w.reply # None /\ w.reply.run # None => w.reply.run.id \in Existing
    <3>1. w.held # None => w.held.id \in Runs
      BY <2>1 DEF CallOK, CarryOK, Views
    <3> QED
      BY <2>1, <3>1 DEF CallOK, CarryOK, ReplyOK, WorkbenchAssumption
  <2>3. AnswerIs(w)'
    BY <2>1, <2>2 DEF Regular, AnswerIs, Stay
  <2>4. ASSUME m # w
        PROVE  /\ m.kind = w.kind /\ m.at = w.at /\ m.epoch = w.epoch /\ m.ws = w.ws
               /\ m.key = w.key /\ m.held = w.held /\ m.kind # "none"
               /\ m.reply = w.reply \/ Serves(w, m.reply)
    <3>1. CASE m = [w EXCEPT !.accepted = TRUE]
      BY <2>1, <3>1 DEF CallFields, Regular, Carries
    <3>2. ASSUME NEW rep, Serves(w, rep), m = [w EXCEPT !.reply = rep]
          PROVE  /\ m.kind = w.kind /\ m.at = w.at /\ m.epoch = w.epoch /\ m.ws = w.ws
                 /\ m.key = w.key /\ m.held = w.held /\ m.kind # "none"
                 /\ Serves(w, m.reply)
      <4>1. m.reply = rep
        BY <2>1, <3>2 DEF CallFields
      <4> QED
        BY <2>1, <3>2, <4>1 DEF CallFields, Regular, Carries
    <3>3. \/ m = [w EXCEPT !.accepted = TRUE]
          \/ \E rep : Serves(w, rep) /\ m = [w EXCEPT !.reply = rep]
      BY <2>4
    <3> QED
      BY <3>1, <3>2, <3>3
  <2>5. AnswerIs(m)'
    BY <2>3, <2>4 DEF AnswerIs, Serves
  <2>6. Regular(m, tab)'
    BY <2>1, <2>2, <2>4, <2>5 DEF Regular, Carries, AsksAt, Stay
  <2>7. m # Idle
    BY <1>1, <2>4 DEF Idle
  <2> QED
    BY <2>4, <2>6, <2>7 DEF Regular, Carries, AsksAt, AnswerIs, Pending
<1>2. ASSUME NEW g \in Flows PROVE (flow[g] = Idle \/ Regular(flow[g], tab))'
  BY <1>1
<1>3. Steady(tab)'
  <2>1. tab.selected # None => tab.selected.id \in Existing
    <3>1. tab.selected # None => tab.selected.id \in Runs
      BY DEF WorkbenchInv, TabOK, Views
    <3> QED
      BY <3>1 DEF WorkbenchInv, TabOK, RunOf, WorkbenchAssumption
  <2> QED
    BY <2>1 DEF PageInv, Steady, Stay
<1>4. (Agrees(tab) \/ \E g \in Flows : Pending(flow[g], tab))'
  <2>1. Agrees(tab) => Agrees(tab)'
    BY DEF Agrees
  <2>2. ASSUME NEW g \in Flows, Pending(flow[g], tab) PROVE Pending(flow[g], tab)'
    BY <1>1, <2>2 DEF Pending
  <2> QED
    BY <2>1, <2>2 DEF PageInv
<1> QED
  BY <1>2, <1>3, <1>4 DEF PageInv

LEMMA RowMoves ==
  ASSUME WorkbenchAssumption, WorkbenchInv, NEW r \in Existing,
         NEW x \in Rows, x.home = row[r].home, row' = [row EXCEPT ![r] = x]
  PROVE  Stay
<1>1. r \in Runs /\ row \in [Runs -> Rows \cup {None}] /\ x # None
  BY DEF WorkbenchInv, Existing, WorkbenchAssumption
<1> QED
  BY <1>1 DEF Stay, Existing

LEMMA Decided ==
  ASSUME WorkbenchAssumption, WorkbenchInv, NEW r \in Existing
  PROVE  (Start(r) \/ Approve(r) \/ Decline(r)) => Stay
<1>1. row[r] \in Rows /\ r \in Runs
  BY ExistingTyped
<1>2. ASSUME NEW s \in Statuses
      PROVE  LET x == [row[r] EXCEPT !.status = s]
             IN  x \in Rows /\ x.home = row[r].home
  BY <1>1 DEF Rows
<1>3. LET x == [row[r] EXCEPT !.status = "done", !.asks = 0]
      IN  x \in Rows /\ x.home = row[r].home
  BY <1>1, Asks DEF Rows, Statuses
<1>4. ASSUME NEW s \in Statuses, row' = [row EXCEPT ![r].status = s] PROVE Stay
  BY <1>2, <1>4, RowMoves
<1>5. CASE row' = [row EXCEPT ![r].status = "done", ![r].asks = 0]
  <2>1. row' = [row EXCEPT ![r] = [row[r] EXCEPT !.status = "done", !.asks = 0]]
    BY <1>5, <1>1 DEF WorkbenchInv
  <2> QED
    BY <1>3, <2>1, RowMoves
<1>6. "starting" \in Statuses /\ "approving" \in Statuses
  BY DEF Statuses, Transient
<1> QED
  BY <1>4, <1>5, <1>6 DEF Start, Approve, Decline

LEMMA Unmoved == ASSUME UNCHANGED row PROVE Stay
BY DEF Stay, Existing

LEMMA ServePage ==
  ASSUME WorkbenchAssumption, WorkbenchInv, PageInv, Undisturbed, NEW f \in Flows, Serve(f)
  PROVE  PageInv'
<1> PICK w : w = flow[f]
  OBVIOUS
<1>1. /\ w # Idle /\ w.key = "valid" /\ w.at \in Ops /\ w.at \notin {"runtime", "session", "create"}
      /\ w.at \in OfRuns => w.run \in Existing
      /\ DOMAIN flow = Flows /\ tab' = tab
  BY DEF Serve, Deliver, Accept, PageInv, Regular, AsksAt, WorkbenchInv, CallOK, AtOK, CarryOK
<1>2. Opens(w)
  BY <1>1 DEF Opens, AuthScope, Requires
<1>3. ASSUME NEW rep, Serves(w, rep), Stay, Deliver(f, rep) PROVE PageInv'
  <2>1. Seen(w, rep) = {rep}
    BY DEF Undisturbed, Seen
  <2>2. flow' = [flow EXCEPT ![f].reply = rep]
    BY <1>3, <2>1 DEF Deliver
  <2>3. flow'[f] = [w EXCEPT !.reply = rep] /\ \A g \in Flows \ {f} : flow'[g] = flow[g]
    BY <1>1, <2>2
  <2> QED
    BY <1>1, <1>3, <2>3, ServedPage
<1>4. ASSUME Stay, Accept(f) PROVE PageInv'
  <2>1. flow'[f] = [w EXCEPT !.accepted = TRUE] /\ \A g \in Flows \ {f} : flow'[g] = flow[g]
    BY <1>1, <1>4 DEF Accept
  <2> QED
    BY <1>1, <1>4, <2>1, ServedPage
<1>5. ASSUME NEW r \in Existing
      PROVE  /\ OkRun(View(r)).code = "ok" /\ OkRun(View(r)).run.id = r
             /\ OkRun(View(r)).run.home = row[r].home
  BY DEF OkRun, Reply, View
<1>6. \A c : Reply(c).code = c /\ Reply(c).run = None
  BY DEF Reply
<1>7. CASE w.at \in {"profile", "list", "run", "trace"}
  <2>1. Deliver(f, Read(w)) /\ UNCHANGED row
    BY <1>2, <1>7 DEF Serve, planeVars
  <2>2. CASE w.at = "profile"
    <3>1. Read(w).code = "ok" /\ Read(w).run = None
      BY <2>2 DEF Read, Profile, Reply
    <3> QED
      BY <1>3, <2>1, <2>2, <3>1, Unmoved DEF Serves
  <2>3. CASE w.at = "list"
    <3>1. Read(w).code = "ok" /\ Read(w).run = None
      BY <2>3 DEF Read, ListRuns, Reply
    <3> QED
      BY <1>3, <2>1, <2>3, <3>1, Unmoved DEF Serves
  <2>4. CASE w.at = "run"
    <3>1. Read(w) = OkRun(View(w.run)) /\ w.run \in Existing
      BY <1>1, <2>4 DEF Read, GetRun, OfRuns
    <3> QED
      BY <1>3, <1>5, <2>1, <2>4, <3>1, Unmoved DEF Serves
  <2>5. CASE w.at = "trace"
    <3>1. Read(w).code \in {"ok", "404"} /\ Read(w).run = None
      BY <1>6, <2>5 DEF Read, GetTrace
    <3> QED
      BY <1>3, <2>1, <2>5, <3>1, Unmoved DEF Serves
  <2> QED
    BY <1>7, <2>2, <2>3, <2>4, <2>5
<1>8. CASE w.at = "trust"
  <2>1. Deliver(f, Reply("ok")) /\ UNCHANGED row
    BY <1>2, <1>8 DEF Serve, Trust
  <2> QED
    BY <1>3, <1>6, <1>8, <2>1, Unmoved DEF Serves
<1>9. CASE w.at = "start"
  <2>1. w.run \in Existing
    BY <1>1, <1>9 DEF OfRuns
  <2>2. \/ Start(w.run) /\ Accept(f)
        \/ UNCHANGED row /\ Deliver(f, OkRun(View(w.run)))
        \/ UNCHANGED row /\ Deliver(f, Reply("409"))
    BY <1>2, <1>9 DEF Serve, NotStarted, planeVars
  <2> QED
    BY <1>3, <1>4, <1>5, <1>6, <1>9, <2>1, <2>2, Decided, Unmoved DEF Serves
<1>10. CASE w.at \in {"approvals", "decline"}
  <2> DEFINE rep == OkRun([View(w.run) EXCEPT !.status = "done", !.asks = 0])
  <2>1. w.run \in Existing
    BY <1>1, <1>10 DEF OfRuns
  <2>2. \/ UNCHANGED row /\ Deliver(f, Reply("409"))
        \/ Approve(w.run) /\ Accept(f)
        \/ Decline(w.run) /\ Deliver(f, rep)
    BY <1>2, <1>10 DEF Serve, planeVars
  <2>3. rep.code = "ok" /\ rep.run.id = w.run /\ rep.run.home = row[w.run].home
    BY DEF OkRun, Reply, View
  <2> HIDE DEF rep
  <2>4. ASSUME Decline(w.run) PROVE Serves(w, rep)
    BY <1>10, <2>1, <2>3, <2>4, Decided DEF Serves, Stay
  <2> QED
    BY <1>3, <1>4, <1>6, <1>10, <2>1, <2>2, <2>4, Decided, Unmoved DEF Serves
<1> QED
  BY <1>1, <1>7, <1>8, <1>9, <1>10 DEF Ops

LEMMA ElsewherePage ==
  ASSUME WorkbenchAssumption, WorkbenchInv, PageInv, NEW r \in Runs, Elsewhere(r)
  PROVE  PageInv'
<1>1. Stay /\ UNCHANGED tab /\ \A g \in Flows : flow'[g] = flow[g]
  BY Decided DEF Elsewhere
<1> QED
  BY <1>1, ServedPage

LEMMA WorkPage ==
  ASSUME WorkbenchAssumption, WorkbenchInv, PageInv, Undisturbed, NEW r \in Runs, Work(r)
  PROVE  PageInv'
<1>1. r \in Existing /\ row[r] \in Rows /\ UNCHANGED tab
  BY ExistingTyped DEF Work
<1>o. PICK o \in Outcomes(r) :
      /\ row' = [row EXCEPT ![r] = o]
      /\ LET v == [View(r) EXCEPT !.status = o.status, !.asks = o.asks]
             waits == {f \in Flows : flow[f] # Idle /\ flow[f].accepted
                                     /\ flow[f].run = r /\ flow[f].reply = None}
         IN  \E lost \in SUBSET (IF "lost" \in setting.failures THEN waits ELSE {}) :
               flow' = [f \in Flows |->
                 IF f \in waits
                 THEN [flow[f] EXCEPT !.reply =
                         IF f \in lost THEN Reply("lost") ELSE OkRun(v)]
                 ELSE flow[f]]
  BY DEF Work
<1> DEFINE v == [View(r) EXCEPT !.status = o.status, !.asks = o.asks]
           rep == OkRun(v)
<1>2. o \in Rows /\ o.home = row[r].home
  <2>1. LET x == [row[r] EXCEPT !.status = "done", !.asks = 0]
        IN  x \in Rows /\ x.home = row[r].home
    BY <1>1, Asks DEF Rows, Statuses
  <2>2. ASSUME NEW n \in 1 .. MaxActions
        PROVE  LET x == [row[r] EXCEPT !.status = "waiting", !.asks = n]
               IN  x \in Rows /\ x.home = row[r].home
    <3>1. n \in 0 .. MaxActions
      BY DEF WorkbenchAssumption, ActionsAssumption
    <3> QED
      BY <1>1, <3>1 DEF Rows, Statuses
  <2> QED
    BY <1>o, <2>1, <2>2 DEF Outcomes
<1>3. Stay
  BY <1>1, <1>2, <1>o, RowMoves
<1>4. rep.code = "ok" /\ rep.run.id = r /\ rep.run.home = row'[r].home
  <2>1. row'[r].home = row[r].home
    BY <1>1, <1>3 DEF Stay
  <2> QED
    BY <2>1 DEF OkRun, Reply, View
<1>5. \A g \in Flows :
        \/ flow'[g] = flow[g]
        \/ flow[g] # Idle /\ flow'[g] = [flow[g] EXCEPT !.reply = rep]
  <2>1. "lost" \notin setting.failures
    BY DEF Undisturbed
  <2> QED
    BY <1>o, <2>1
<1> HIDE DEF rep, v
<1>6. \A g \in Flows : Serves(flow[g], rep)
  BY <1>4 DEF Serves
<1> QED
  BY <1>1, <1>3, <1>5, <1>6, ServedPage

-----------------------------------------------------------------------------
(* The theorem *)

LEMMA InitPage == ASSUME WorkbenchAssumption, Init, Undisturbed PROVE PageInv
<1> PICK ws \in Workspaces : tab = Ready(ws)
  BY DEF Init, Undisturbed
<1>1. \A f \in Flows : flow[f] = Idle
  BY DEF Init, Undisturbed
<1> DEFINE l == Loaded("valid", ws)
           p == [l EXCEPT !.approver = "valid", !.runtime = TRUE, !.runs = Existing,
                   !.profile = [root |-> ws, trusts |-> ws \in trusted]]
           s == [run |-> None, trace |-> None]
<1>2. /\ p.operator = "valid" /\ p.approver = "valid" /\ p.workspace = ws /\ p.goal = FALSE
      /\ p.wanted = None /\ p.selected = None /\ p.trace = None /\ DOMAIN p = TabFields
  BY DEF Loaded, TabFields
<1>3. tab = RenderAll(p)
  BY DEF Ready
<1> HIDE DEF p, l
<1>4. /\ tab.operator = "valid" /\ tab.approver = "valid" /\ tab.workspace = ws
      /\ tab.goal = FALSE /\ tab.wanted = None /\ tab.selected = None /\ tab.shown = s
  BY <1>2, <1>3 DEF RenderAll, TabFields
<1>5. s # None /\ s.run = None /\ None # Fresh
  BY DEF WorkbenchAssumption
<1> HIDE DEF s
<1> QED
  BY <1>1, <1>4, <1>5 DEF PageInv, Steady, Agrees

\* The page of an undisturbed tab asks about the challenge in memory, the one a
\* click would send, unless the run of the newest click is still being read or
\* the profile that goes with the selection is (app.js, selectRun and
\* refreshWorkspace), whatever the order of answers and of others' decisions.
THEOREM ShownUnlessNavigatingAlways ==
  ASSUME WorkbenchAssumption PROVE Spec => []ShownUnlessNavigating
<1>1. Init => UndisturbedInv
  BY InitPage DEF UndisturbedInv
<1>2. WorkbenchInv /\ UndisturbedInv /\ [Next]_<<vars, setting>> => UndisturbedInv'
  <2> SUFFICES ASSUME WorkbenchInv, PageInv, Undisturbed, [Next]_<<vars, setting>>
               PROVE  PageInv'
    BY DEF UndisturbedInv, Undisturbed, Next
  <2>1. CASE UNCHANGED <<vars, setting>>
    BY <2>1 DEF vars, planeVars, PageInv, Steady, Regular, Carries, AsksAt, AnswerIs, Agrees,
       Pending
  <2>2. CASE Next
    BY <2>2, ArrivePage, PersonPage, PollFiresPage, ServePage, WorkPage, ElsewherePage DEF Next
  <2> QED
    BY <2>1, <2>2
<1>3. UndisturbedInv => ShownUnlessNavigating
  <2> SUFFICES ASSUME Undisturbed, PageInv PROVE ShownUnlessNavigating
    BY DEF UndisturbedInv, ShownUnlessNavigating
  <2> QED
    BY DEF PageInv, Agrees, Pending, ShownUnlessNavigating, ShownRun, Calls
<1> QED
  BY <1>1, <1>2, <1>3, InvariantAlways, PTL DEF Spec
=============================================================================
