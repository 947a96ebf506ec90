----------------------------- MODULE Workbench ------------------------------
(***************************************************************************)
(* One browser tab of the workbench, ui/app.js, in front of the control    *)
(* plane.  JavaScript runs to the next await; a call of an async function  *)
(* is a flow, and between two of its steps other flows, the person and     *)
(* other tabs go on.  A flow's request is served once, later than it was   *)
(* sent, and its answer arrives later than it was served.                  *)
(*                                                                         *)
(* tab is the object state of app.js with what the page displays: shown is *)
(* the run the conversation was last rendered with, path the directory the *)
(* trust dialog names, dialogs the modal dialogs, the topmost one last.    *)
(***************************************************************************)
EXTENDS ControlPlane, Sequences

CONSTANTS
  Flows,         \* bound: calls under way at the same time
  Keys,          \* keys a person may type: "valid", "wrong"
  Settings       \* bound: the surroundings of a behaviour, one of these

\* A setting has
\*   gestures   what the person does
\*   most       the number of gestures
\*   other      whether somebody else starts and decides runs too
\*   settled    whether the tab starts out connected, with both keys
\*   failures   how requests may fail, a subset of {"lost", "404"}
\*   rows       the rows the tab may find
SettingAssumption ==
  \A s \in Settings :
    /\ s.most \in Nat /\ {s.other, s.settled} \subseteq BOOLEAN
    /\ s.failures \subseteq {"lost", "404"}
    /\ s.rows \subseteq [Runs -> Rows \cup {None}]

Fresh == "fresh"   \* the task the person wants is the one being created

\* The absent value is none of the others, the fresh task is no run yet, and one
\* key opens.
WorkbenchAssumption ==
  /\ ActionsAssumption
  /\ None \notin Runs \cup Workspaces \cup Keys \cup Rows \cup Views \cup {Fresh}
  /\ None \notin [run: Views \cup {None}, trace: Runs \cup {None}]
  /\ Fresh \notin Runs
  /\ "valid" \in Keys
  /\ SettingAssumption

VARIABLES
  tab,       \* the tab's memory and page
  flow,      \* calls under way
  gestures,  \* gestures so far
  setting    \* the setting of this behaviour

vars == <<planeVars, tab, flow, gestures>>

Idle  == [kind |-> "none"]
Ops   == {"runtime", "session", "profile", "list", "run", "trace", "create",
          "start", "trust", "approvals", "decline"}

\* The tab as it is after loading: only the session storage has survived.
Loaded(key, ws) ==
  [operator |-> key, stored |-> key, approver |-> None, workspace |-> ws,
   runtime |-> FALSE, profile |-> None, runs |-> {}, selected |-> None,
   trace |-> None, mode |-> 1, busy |-> FALSE, goal |-> FALSE,
   pendingRun |-> None, epoch |-> 0, poll |-> None, shown |-> None,
   dialogs |-> IF key = None THEN <<"settings">> ELSE <<>>, path |-> None,
   wanted |-> None, forgotten |-> FALSE]

Call(kind, r) ==
  [kind |-> kind, at |-> "none", run |-> r, epoch |-> 0, ws |-> None,
   key |-> None, reply |-> None, held |-> None, accepted |-> FALSE,
   meant |-> None, level |-> 0, typed |-> [op |-> None, ap |-> None, ws |-> None],
   before |-> [op |-> None, ap |-> None], err |-> None]

-----------------------------------------------------------------------------
(* Functions of app.js without an await: from tab to tab *)

Open(t, d) ==
  IF \E i \in DOMAIN t.dialogs : t.dialogs[i] = d
  THEN t ELSE [t EXCEPT !.dialogs = Append(@, d)]
CloseDialog(t, d) ==
  [t EXCEPT !.dialogs = SelectSeq(@, LAMBDA x : x # d)]
OpenSettings(t) == Open(t, "settings")
OpenTrustDialog(t) ==
  IF t.profile = None THEN t
  ELSE IF t.approver = None THEN OpenSettings(t)
  ELSE [Open(t, "trust") EXCEPT !.path = t.profile.root]

RenderAll(t) == [t EXCEPT !.shown = [run |-> t.selected, trace |-> t.trace]]

\* navigationEpoch += 1 and clearPoll: the person (or a dialog they confirmed)
\* wants to see run r from now on.
Navigate(t, r) == [t EXCEPT !.epoch = @ + 1, !.poll = None, !.wanted = r]

SchedulePoll(t, r) ==
  [t EXCEPT !.poll =
     IF /\ t.operator # None
        /\ t.selected # None
        /\ t.selected.status \in Transient
     THEN IF r = None THEN t.selected.id ELSE r
     ELSE None]

SelectionMatches(t, w) ==
  w.epoch = t.epoch /\ t.selected # None /\ t.selected.id = w.run

HandleRequestError(t, code) == IF code = "401" THEN OpenSettings(t) ELSE t

-----------------------------------------------------------------------------
(* Requests *)

AuthScope(at) ==
  IF at \in {"session", "trust", "approvals", "decline"}
  THEN "approver" ELSE "operator"

\* request, up to its await: without a key it throws at once.
Sent(w, at, t) ==
  LET key == IF AuthScope(at) = "approver" THEN t.approver ELSE t.operator
  IN  [w EXCEPT !.at = at, !.key = key, !.accepted = FALSE,
                !.reply = IF key = None THEN Reply("401") ELSE None]

\* request, after its await: a 401 of the server forgets the key it was sent
\* with.  A request that was not sent forgets nothing.
Answered(t, w) ==
  IF w.reply.code # "401" \/ w.key = None THEN t
  ELSE IF AuthScope(w.at) = "approver" THEN [t EXCEPT !.approver = None]
  ELSE [t EXCEPT !.operator = None, !.stored = None]

Await(f, w, at, t) ==
  tab' = t /\ flow' = [flow EXCEPT ![f] = Sent(w, at, t)]
Done(f, t) == tab' = t /\ flow' = [flow EXCEPT ![f] = Idle]

-----------------------------------------------------------------------------
(* Flows.  An operator named after a function is what that function does   *)
(* up to its next await, AfterX what the caller does when X has returned.  *)

\* refreshRuns, and what its five callers do with it.
AfterRefreshRuns(f, w, t) ==
  CASE w.kind = "connect" ->
         LET r == RenderAll(t)
             s == IF (r.goal \/ r.pendingRun # None) /\ r.profile # None
                     /\ ~r.profile.trusts
                  THEN OpenTrustDialog(r) ELSE r
         IN  Done(f, [s EXCEPT !.busy = FALSE])
    [] w.kind = "bootstrap" -> Done(f, RenderAll(t))
    [] w.kind = "create" ->
         Done(f, [IF SelectionMatches(t, w)
                  THEN SchedulePoll(RenderAll([t EXCEPT !.selected = w.held]), None)
                  ELSE t EXCEPT !.busy = FALSE])
    [] w.kind = "start" ->
         Done(f, IF SelectionMatches(t, w)
                 THEN SchedulePoll(RenderAll([t EXCEPT !.selected = w.held,
                                       !.trace = None, !.busy = FALSE]), None)
                 ELSE [t EXCEPT !.busy = FALSE])
    [] w.kind = "resolve" /\ w.err = None /\ SelectionMatches(t, w) ->
         IF w.held.status = "done" THEN Await(f, w, "trace", t)
         ELSE Done(f, [SchedulePoll(RenderAll([t EXCEPT !.selected = w.held,
                                     !.trace = None]), None) EXCEPT !.busy = FALSE])
    [] OTHER -> Done(f, [t EXCEPT !.busy = FALSE])

RefreshRuns(f, w, t) ==
  IF t.operator = None THEN AfterRefreshRuns(f, w, [t EXCEPT !.runs = {}])
  ELSE Await(f, w, "list", t)

\* The end of a createAndStartRun or startExistingRun that failed.
StartFailed(f, w, t) ==
  LET e == [HandleRequestError(t, w.err) EXCEPT !.busy = FALSE]
  IN  Done(f, IF w.kind = "start" /\ SelectionMatches(t, w)
              THEN SchedulePoll(RenderAll(e), None) ELSE e)

\* selectRun returned, to the click, the poll timer or an error handler.
AfterSelectRun(f, w, t) ==
  CASE w.kind \in {"select", "poll"} -> Done(f, t)
    [] w.kind = "resolve" -> Done(f, [t EXCEPT !.busy = FALSE])
    [] OTHER -> StartFailed(f, w, t)

\* selectRun failed and its epoch is still the newest.
SelectRunThrows(f, w, t, code) ==
  CASE w.kind = "poll" ->
         Done(f, SchedulePoll(HandleRequestError(t, code), w.run))
    [] w.kind \in {"create", "start"} -> StartFailed(f, w, t)
    [] OTHER -> AfterSelectRun(f, w, HandleRequestError(t, code))

\* The call of selectRun from an error handler or the poll timer: it neither
\* navigates nor goes on when another run is selected.
SelectRun(f, w, t) ==
  LET c == [t EXCEPT !.poll = None]
      s == [w EXCEPT !.epoch = t.epoch]
  IN  IF t.selected # None /\ t.selected.id = w.run
      THEN Await(f, s, "run", c) ELSE AfterSelectRun(f, s, c)

\* Fault: the task that is created is no newer choice.
EnterCreate_NotNavigating(f, w, t) ==
  LET n == [t EXCEPT !.poll = None, !.wanted = Fresh, !.busy = TRUE]
  IN  Await(f, [w EXCEPT !.kind = "create", !.run = None, !.epoch = n.epoch,
                         !.ws = n.workspace, !.level = n.mode], "create", n)

EnterCreate(f, w, t) ==
  LET n == [Navigate(t, Fresh) EXCEPT !.busy = TRUE]
  IN  Await(f, [w EXCEPT !.kind = "create", !.run = None, !.epoch = n.epoch,
                         !.ws = n.workspace, !.level = n.mode], "create", n)

\* startExistingRun
EnterStart(f, w, t, r) ==
  IF \/ t.busy \/ t.selected = None
  THEN Done(f, t)
  ELSE IF t.selected.id # r \/ t.selected.status # "planned"
  THEN Done(f, t)
  ELSE IF t.selected.level # 0 /\ t.profile # None /\ ~t.profile.trusts
  THEN Done(f, OpenTrustDialog([t EXCEPT !.pendingRun = r]))
  ELSE LET n == [Navigate(t, r) EXCEPT !.busy = TRUE, !.pendingRun = None,
                                       !.selected.status = "starting"]
       IN  Await(f, [w EXCEPT !.kind = "start", !.run = r, !.epoch = n.epoch],
                 "start", RenderAll(n))

\* trustWorkspace, once the attestation is stored and the profile read again.
AfterTrust(f, w, t) ==
  LET r == [RenderAll(t) EXCEPT !.busy = FALSE]
  IN  IF r.pendingRun # None
      THEN EnterStart(f, w, [r EXCEPT !.pendingRun = None], r.pendingRun)
      ELSE IF r.goal THEN EnterCreate(f, w, r) ELSE Done(f, r)

\* Fault: a run that has been selected is not rendered.
AfterRefreshWorkspace_NotRendered(f, w, t, ok) ==
  CASE w.kind \in {"connect", "bootstrap"} -> RefreshRuns(f, w, t)
    [] w.kind = "trust" -> AfterTrust(f, w, t)
    [] OTHER -> AfterSelectRun(f, w,
                  IF ok /\ w.epoch = t.epoch THEN SchedulePoll(t, None) ELSE t)

\* Fault: a run that has been selected is not polled.
AfterRefreshWorkspace_NotPolled(f, w, t, ok) ==
  CASE w.kind \in {"connect", "bootstrap"} -> RefreshRuns(f, w, t)
    [] w.kind = "trust" -> AfterTrust(f, w, t)
    [] OTHER -> AfterSelectRun(f, w,
                  IF ok /\ w.epoch = t.epoch THEN RenderAll(t) ELSE t)

\* refreshWorkspace, and what its callers do with its result.
AfterRefreshWorkspace(f, w, t, ok) ==
  CASE w.kind \in {"connect", "bootstrap"} -> RefreshRuns(f, w, t)
    [] w.kind = "trust" -> AfterTrust(f, w, t)
    [] OTHER -> AfterSelectRun(f, w,
                  IF ok /\ w.epoch = t.epoch
                  THEN SchedulePoll(RenderAll(t), None) ELSE t)

RefreshWorkspace(f, w, t) ==
  IF t.workspace = None \/ t.operator = None
  THEN AfterRefreshWorkspace(f, w, [t EXCEPT !.profile = None], FALSE)
  ELSE Await(f, [w EXCEPT !.ws = t.workspace], "profile", t)

-----------------------------------------------------------------------------
(* What the person does.  A modal dialog covers the page; only the topmost *)
(* dialog takes clicks.                                                    *)

Top(t) == IF t.dialogs = <<>> THEN "page" ELSE t.dialogs[Len(t.dialogs)]

Gesture(g, top) ==
  /\ g \in setting.gestures
  /\ Top(tab) = top
  /\ gestures < setting.most
  /\ gestures' = gestures + 1
  /\ UNCHANGED planeVars

FreeFlow(f) == flow[f] = Idle

\* A click on a run of the sidebar: selectRun, navigating.
ClickRun(f, r) ==
  /\ Gesture("select", "page")
  /\ FreeFlow(f)
  /\ r \in tab.runs
  /\ LET n == Navigate(tab, r)
     IN  Await(f, [Call("select", r) EXCEPT !.epoch = n.epoch], "run", n)

NewTask ==
  /\ Gesture("new", "page")
  /\ tab' = RenderAll([Navigate(tab, None) EXCEPT !.selected = None,
                !.trace = None, !.goal = FALSE, !.pendingRun = None])
  /\ UNCHANGED flow

SetMode(l) ==
  /\ Gesture("mode", "page")
  /\ tab' = [tab EXCEPT !.mode = l]
  /\ UNCHANGED flow

\* startGoal, with a goal typed.
StartGoal(f) ==
  /\ Gesture("goal", "page")
  /\ Existing # Runs
  /\ FreeFlow(f)
  /\ ~tab.busy
  /\ LET g == [tab EXCEPT !.goal = TRUE, !.pendingRun = None]
     IN  IF ~tab.runtime \/ tab.profile = None THEN Done(f, OpenSettings(tab))
         ELSE IF tab.mode = 1 /\ ~tab.profile.trusts
         THEN Done(f, OpenTrustDialog(g))
         ELSE EnterCreate(f, Call("create", None), g)

\* The Start run button of a run shown as planned.
ClickStart(f) ==
  /\ Gesture("start", "page")
  /\ FreeFlow(f)
  /\ tab.shown # None /\ tab.shown.run # None
  /\ tab.shown.run.status = "planned"
  /\ EnterStart(f, Call("start", None), tab, tab.shown.run.id)

\* resolveApproval, from the panel of the challenge the page shows.
ClickDecision(f, action) ==
  /\ Gesture("decide", "page")
  /\ FreeFlow(f)
  /\ tab.shown # None /\ tab.shown.run # None
  /\ tab.shown.run.status = "waiting"
  /\ IF tab.selected = None \/ (tab.selected # None /\ tab.selected.asks = 0)
     THEN Done(f, tab)
     ELSE IF tab.approver = None THEN Done(f, OpenSettings(tab))
     ELSE LET run == tab.selected
              n == [Navigate(tab, run.id) EXCEPT !.busy = TRUE,
                       !.selected.status = "approving"]
          IN  Await(f, [Call("resolve", run.id) EXCEPT !.epoch = n.epoch,
                          !.held = run, !.meant = tab.shown.run],
                    action, RenderAll(n))

ClickSettings ==
  Gesture("connect", "page") /\ tab' = OpenSettings(tab) /\ UNCHANGED flow

CloseSettings ==
  /\ Gesture("connect", "settings")
  /\ tab' = CloseDialog(tab, "settings")
  /\ UNCHANGED flow

\* connectFromSettings
Connect(f, op, ap, ws) ==
  /\ Gesture("connect", "settings")
  /\ FreeFlow(f)
  /\ ~tab.busy
  /\ op # None
  /\ LET n == [tab EXCEPT !.busy = TRUE, !.operator = op, !.forgotten = FALSE]
     IN  Await(f, [Call("connect", None) EXCEPT
                     !.typed = [op |-> op, ap |-> ap, ws |-> ws],
                     !.before = [op |-> tab.operator, ap |-> tab.approver]],
               "runtime", n)

ForgetAccess ==
  /\ Gesture("forget", "settings")
  /\ tab' = RenderAll([Navigate(tab, None) EXCEPT
       !.operator = None, !.stored = None, !.approver = None,
       !.workspace = None, !.runtime = FALSE, !.profile = None, !.runs = {},
       !.selected = None, !.trace = None, !.goal = FALSE, !.pendingRun = None,
       !.poll = tab.poll, !.forgotten = TRUE])
  /\ UNCHANGED flow

CancelTrust ==
  /\ Gesture("trust", "trust")
  /\ tab' = [CloseDialog(tab, "trust") EXCEPT !.goal = FALSE, !.pendingRun = None]
  /\ UNCHANGED flow

\* trustWorkspace, from the dialog.
ConfirmTrust(f) ==
  /\ Gesture("trust", "trust")
  /\ FreeFlow(f)
  /\ ~tab.busy
  /\ IF tab.profile = None \/ tab.approver = None THEN Done(f, tab)
     ELSE Await(f, [Call("trust", None) EXCEPT !.ws = tab.profile.root,
                      !.meant = tab.path], "trust", [tab EXCEPT !.busy = TRUE])

\* The tab is loaded again: bootstrap.
Reload(f) ==
  /\ "reload" \in setting.gestures
  /\ gestures < setting.most
  /\ gestures' = gestures + 1
  /\ UNCHANGED planeVars
  /\ LET t == [Loaded(tab.stored, tab.workspace) EXCEPT
                 !.forgotten = tab.forgotten]
     IN  /\ tab' = t
         /\ flow' = [g \in Flows |->
              IF g = f /\ t.operator # None
              THEN Sent(Call("bootstrap", None), "runtime", t) ELSE Idle]

Person ==
  \/ NewTask \/ ClickSettings \/ CloseSettings \/ ForgetAccess \/ CancelTrust
  \/ \E l \in Levels : SetMode(l)
  \/ \E f \in Flows :
       \/ StartGoal(f) \/ ClickStart(f) \/ ConfirmTrust(f) \/ Reload(f)
       \/ \E r \in Runs : ClickRun(f, r)
       \/ \E a \in {"approvals", "decline"} : ClickDecision(f, a)
       \/ \E op \in Keys \cup {tab.operator}, ap \in Keys \cup {None},
             ws \in Workspaces \cup {None} : Connect(f, op, ap, ws)

-----------------------------------------------------------------------------
(* Answers arrive *)

Ok(w) == w.reply.code = "ok"
Fails(w) == w.reply.code # "ok"
\* The flow is inside selectRun: a decision only after a conflict.
Selecting(w) == w.kind # "resolve" \/ w.err = "409"

\* connectFromSettings, in its catch and finally.
ConnectFails(f, w, t) ==
  Done(f, [t EXCEPT !.operator = w.before.op, !.approver = w.before.ap,
                    !.busy = FALSE])

\* connectFromSettings, after its last check of a key.
Connected(f, w, t) ==
  LET ws == IF w.typed.ws = None THEN t.workspace ELSE w.typed.ws
  IN  RefreshWorkspace(f, w, CloseDialog([t EXCEPT !.runtime = TRUE,
        !.stored = w.typed.op, !.workspace = ws], "settings"))

\* Fault: an answer that refuses the key is taken for the runtime.
RuntimeArrives_AnyAnswer(f, w, t) ==
  /\ w.at = "runtime"
  /\ IF w.kind = "bootstrap" THEN RefreshWorkspace(f, w, [t EXCEPT !.runtime = TRUE])
     ELSE IF w.typed.ap = None THEN Connected(f, w, t)
     ELSE Await(f, w, "session", [t EXCEPT !.approver = w.typed.ap])

RuntimeArrives(f, w, t) ==
  /\ w.at = "runtime"
  /\ IF w.kind = "bootstrap"
     THEN IF Ok(w) THEN RefreshWorkspace(f, w, [t EXCEPT !.runtime = TRUE])
          ELSE Done(f, HandleRequestError(t, w.reply.code))
     ELSE IF Fails(w) THEN ConnectFails(f, w, t)
     ELSE IF w.typed.ap = None THEN Connected(f, w, t)
     ELSE Await(f, w, "session", [t EXCEPT !.approver = w.typed.ap])

SessionArrives(f, w, t) ==
  /\ w.at = "session"
  /\ IF Ok(w) THEN Connected(f, w, t) ELSE ConnectFails(f, w, t)

\* refreshWorkspace: an answer about another workspace, or of an earlier
\* navigation when the caller gave one, is dropped.
ProfileArrives(f, w, t) ==
  LET fenced == w.kind \notin {"connect", "bootstrap", "trust"}
      stale  == w.ws # t.workspace \/ (fenced /\ w.epoch # t.epoch)
  IN  /\ w.at = "profile"
      /\ IF stale THEN AfterRefreshWorkspace(f, w, t, FALSE)
         ELSE IF Ok(w)
         THEN AfterRefreshWorkspace(f, w, [t EXCEPT !.profile =
                [root |-> w.ws, trusts |-> w.reply.trusts]], TRUE)
         ELSE AfterRefreshWorkspace(f, w, [t EXCEPT !.profile = None], FALSE)

ListArrives(f, w, t) ==
  /\ w.at = "list"
  /\ AfterRefreshRuns(f, w, IF Ok(w) THEN [t EXCEPT !.runs = w.reply.runs]
                            ELSE HandleRequestError(t, w.reply.code))

\* selectRun, with the run and its trace in hand.
Selected(f, w, t) ==
  RefreshWorkspace(f, w, [t EXCEPT !.selected = w.held,
    !.trace = IF w.held.status = "done" /\ w.reply.code = "ok"
              THEN w.held.id ELSE None,
    !.workspace = w.held.home])

\* selectRun after its first await.
RunArrives(f, w, t) ==
  /\ w.at = "run"
  /\ IF w.epoch # t.epoch THEN AfterSelectRun(f, w, t)
     ELSE IF Fails(w) THEN SelectRunThrows(f, w, t, w.reply.code)
     ELSE LET s == [w EXCEPT !.held = w.reply.run]
          IN  IF s.held.status = "done" THEN Await(f, s, "trace", t)
              ELSE Selected(f, s, t)

\* selectRun after its second await; a trace that is gone is no failure.
TraceArrives(f, w, t) ==
  /\ w.at = "trace" /\ Selecting(w)
  /\ IF w.epoch # t.epoch THEN AfterSelectRun(f, w, t)
     ELSE IF w.reply.code \notin {"ok", "404"}
     THEN SelectRunThrows(f, w, t, w.reply.code)
     ELSE Selected(f, w, t)

\* The task the person wants has become run r, if it is the one w has created:
\* for the properties, whatever the code then puts in view.
Known(t, w, r) ==
  IF t.wanted = Fresh /\ w.epoch = t.epoch THEN [t EXCEPT !.wanted = r] ELSE t

\* createAndStartRun, the run exists.
CreatedArrives(f, w, t) ==
  /\ w.at = "create"
  /\ IF Fails(w) THEN StartFailed(f, [w EXCEPT !.err = w.reply.code], t)
     ELSE LET made == w.reply.run
              l == Known([t EXCEPT !.runs = @ \cup {made.id}], w, made.id)
          IN  Await(f, [w EXCEPT !.run = made.id], "start",
                IF w.epoch = t.epoch
                THEN RenderAll([l EXCEPT !.selected = made, !.trace = None])
                ELSE l)

\* createAndStartRun and startExistingRun, the service has answered.
StartedArrives(f, w, t) ==
  LET e == [w EXCEPT !.err = w.reply.code]
      mayRead == /\ t.operator # None
                 /\ IF w.kind = "create" THEN w.epoch = t.epoch
                    ELSE SelectionMatches(t, w)
  IN  /\ w.at = "start"
      /\ IF Ok(w)
         THEN RefreshRuns(f, [w EXCEPT !.held = w.reply.run],
                IF w.kind = "create" THEN [t EXCEPT !.goal = FALSE] ELSE t)
         ELSE IF mayRead THEN SelectRun(f, e, t) ELSE StartFailed(f, e, t)

TrustArrives(f, w, t) ==
  /\ w.at = "trust"
  /\ IF Ok(w) THEN RefreshWorkspace(f, w, CloseDialog(t, "trust"))
     ELSE Done(f, [t EXCEPT !.busy = FALSE])

\* resolveApproval: the error handler for anything but a conflict.
ResolveFails(f, w, t) ==
  LET e == HandleRequestError(t, w.reply.code)
  IN  Done(f, [IF SelectionMatches(t, w) THEN SchedulePoll(e, w.run) ELSE e
               EXCEPT !.busy = FALSE])

DecisionArrives(f, w, t) ==
  /\ w.at \in {"approvals", "decline"}
  /\ IF Ok(w) THEN RefreshRuns(f, [w EXCEPT !.held = w.reply.run], t)
     ELSE IF w.reply.code # "409" THEN ResolveFails(f, w, t)
     ELSE IF SelectionMatches(t, w)
     THEN SelectRun(f, [w EXCEPT !.err = "409"], t)
     ELSE RefreshRuns(f, [w EXCEPT !.err = "409"], t)

\* resolveApproval after its last await.
DecisionTraceArrives(f, w, t) ==
  /\ w.at = "trace" /\ ~Selecting(w)
  /\ IF Fails(w) THEN ResolveFails(f, w, t)
     ELSE Done(f, [IF SelectionMatches(t, w)
                   THEN SchedulePoll(RenderAll([t EXCEPT !.selected = w.held,
                          !.trace = w.run]), None)
                   ELSE t EXCEPT !.busy = FALSE])

\* An answer of the server, or of request itself when there was no key.
Arrive(f) ==
  LET w == flow[f]
      t == Answered(tab, w)
  IN  /\ w # Idle
      /\ w.reply # None
      /\ \/ RuntimeArrives(f, w, t)  \/ SessionArrives(f, w, t)
         \/ ProfileArrives(f, w, t)  \/ ListArrives(f, w, t)
         \/ RunArrives(f, w, t)      \/ TraceArrives(f, w, t)
         \/ CreatedArrives(f, w, t)  \/ StartedArrives(f, w, t)
         \/ TrustArrives(f, w, t)    \/ DecisionArrives(f, w, t)
         \/ DecisionTraceArrives(f, w, t)
      /\ UNCHANGED <<planeVars, gestures>>

\* pollRun, 1.4 seconds after schedulePoll.
PollFires(f) ==
  /\ tab.poll # None
  /\ FreeFlow(f)
  /\ SelectRun(f, Call("poll", tab.poll), tab)
  /\ UNCHANGED <<planeVars, gestures>>

-----------------------------------------------------------------------------
(* The server and everybody else *)

\* What the tab gets to see of an answer: a connection may break after the
\* server has done its part, and a trace file may be gone.
Seen(w, rep) ==
  {rep} \cup {Reply(c) : c \in setting.failures \cap
                ({"lost"} \cup IF w.at = "trace" THEN {"404"} ELSE {})}
Deliver(f, rep) ==
  /\ \E a \in Seen(flow[f], rep) : flow' = [flow EXCEPT ![f].reply = a]
  /\ UNCHANGED <<tab, gestures>>
Accept(f) ==
  /\ flow' = [flow EXCEPT ![f].accepted = TRUE]
  /\ UNCHANGED <<tab, gestures>>

Opens(w) == w.key = "valid" /\ AuthScope(w.at) = Requires(w.at)

Read(w) ==
  CASE w.at = "profile" -> Profile(w.ws)
    [] w.at = "list"    -> ListRuns
    [] w.at = "run"     -> GetRun(w.run)
    [] w.at = "trace"   -> GetTrace(w.run)
    [] OTHER            -> Reply("ok")

Serve(f) ==
  LET w == flow[f]
  IN  /\ w # Idle
      /\ w.reply = None /\ ~w.accepted
      /\ \/ ~Opens(w) /\ Deliver(f, Reply("401")) /\ UNCHANGED planeVars
         \/ /\ Opens(w)
            /\ w.at \in {"runtime", "session", "profile", "list", "run", "trace"}
            /\ Deliver(f, Read(w)) /\ UNCHANGED planeVars
         \/ /\ Opens(w) /\ w.at = "create"
            /\ \/ \E r \in Runs :
                    /\ CreateRun(r, w.ws, w.level)
                    /\ Deliver(f, OkRun([id |-> r, status |-> "planned",
                         asks |-> 0, home |-> w.ws, level |-> w.level]))
               \/ /\ Existing = Runs   \* bound: no run id is left
                  /\ Deliver(f, Reply("lost")) /\ UNCHANGED planeVars
         \/ /\ Opens(w) /\ w.at = "trust"
            /\ Trust(w.ws) /\ Deliver(f, Reply("ok"))
         \/ /\ Opens(w) /\ w.at = "start"
            /\ IF Claims(w.run) THEN Start(w.run) /\ Accept(f)
               ELSE Deliver(f, NotStarted(w.run)) /\ UNCHANGED planeVars
         \/ /\ Opens(w) /\ w.at \in {"approvals", "decline"}
            /\ IF ~Asked(w.run, w.held.asks)
               THEN Deliver(f, Reply("409")) /\ UNCHANGED planeVars
               ELSE IF w.at = "approvals" THEN Approve(w.run) /\ Accept(f)
               ELSE /\ Decline(w.run)
                    /\ Deliver(f, OkRun([View(w.run) EXCEPT !.status = "done",
                                                           !.asks = 0]))

\* The service is done with run r for now; a request that waits gets the row.
Work(r) ==
  /\ r \in Existing
  /\ row[r].status \in Transient
  /\ \E o \in Outcomes(r) :
       /\ row' = [row EXCEPT ![r] = o]
       /\ LET v == [View(r) EXCEPT !.status = o.status, !.asks = o.asks]
              waits == {f \in Flows : flow[f] # Idle /\ flow[f].accepted
                                      /\ flow[f].run = r /\ flow[f].reply = None}
          IN  \E lost \in SUBSET (IF "lost" \in setting.failures THEN waits ELSE {}) :
                flow' = [f \in Flows |->
                  IF f \in waits
                  THEN [flow[f] EXCEPT !.reply =
                          IF f \in lost THEN Reply("lost") ELSE OkRun(v)]
                  ELSE flow[f]]
  /\ UNCHANGED <<trusted, tab, gestures>>

\* Another tab or the command line starts or decides a run.
Elsewhere(r) ==
  /\ setting.other
  /\ r \in Existing
  /\ \/ Claims(r) /\ Start(r)
     \/ row[r].status = "waiting" /\ (Approve(r) \/ Decline(r))
  /\ UNCHANGED <<tab, flow, gestures>>

-----------------------------------------------------------------------------

\* A tab that has been connected with both keys and has read everything.
Ready(ws) ==
  RenderAll([Loaded("valid", ws) EXCEPT !.approver = "valid", !.runtime = TRUE,
    !.runs = Existing, !.profile = [root |-> ws, trusts |-> ws \in trusted]])

\* The tab is opened on a service that may have runs, with or without the key
\* of an earlier load; or it is where connecting has brought it.
Init ==
  /\ setting \in Settings
  /\ row \in setting.rows
  /\ trusted \in SUBSET Workspaces
  /\ gestures = 0
  /\ IF setting.settled
     THEN /\ \E ws \in Workspaces : tab = Ready(ws)
          /\ flow = [f \in Flows |-> Idle]
     ELSE \E key \in {None, "valid"}, ws \in Workspaces, f \in Flows :
          /\ tab = Loaded(key, IF key = None THEN None ELSE ws)
          /\ flow = [g \in Flows |->
               IF g = f /\ key # None
               THEN Sent(Call("bootstrap", None), "runtime", tab) ELSE Idle]

\* request throws at once without a key: nothing comes before its handler.
Denied(f) == flow[f] # Idle /\ flow[f].reply # None /\ flow[f].key = None

Next ==
  /\ UNCHANGED setting
  /\ IF \E f \in Flows : Denied(f)
     THEN \E f \in Flows : Denied(f) /\ Arrive(f)
     ELSE \/ Person
          \/ \E f \in Flows : Arrive(f) \/ PollFires(f) \/ Serve(f)
          \/ \E r \in Runs : Work(r) \/ Elsewhere(r)

Spec == Init /\ [][Next]_<<vars, setting>>

\* The event loop runs every handler whose answer is there and every timer
\* that is due; the server answers; a workflow has deadlines and budgets.
Fairness ==
  /\ \A f \in Flows : WF_vars(Arrive(f)) /\ WF_vars(Serve(f))
  /\ WF_vars(\E f \in Flows : PollFires(f))
  /\ \A r \in Runs : WF_vars(Work(r))
FairSpec == Spec /\ Fairness
=============================================================================
