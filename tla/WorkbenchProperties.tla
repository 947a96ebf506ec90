------------------------ MODULE WorkbenchProperties -------------------------
(* What the workbench owes the person in front of it. *)
EXTENDS Workbench

Calls == {f \in Flows : flow[f] # Idle}
RunOf(v) == IF v = None THEN None ELSE v.id
\* The challenge a run snapshot asks about, if it asks.
Question(v) ==
  IF v = None THEN None
  ELSE IF v.status = "waiting" THEN <<v.id, v.asks>> ELSE None
ShownRun == IF tab.shown = None THEN None ELSE tab.shown.run
ShownTrace == IF tab.shown = None THEN None ELSE tab.shown.trace

\* Types of the tab's memory; and a trace on the page is the shown run's.
TypeOK ==
  /\ row \in [Runs -> Rows \cup {None}]
  /\ trusted \subseteq Workspaces
  /\ {tab.operator, tab.stored, tab.approver} \subseteq Keys \cup {None}
  /\ tab.workspace \in Workspaces \cup {None}
  /\ tab.profile \in [root: Workspaces, trusts: BOOLEAN] \cup {None}
  /\ {tab.selected, ShownRun} \subseteq Views \cup {None}
  /\ tab.runs \subseteq Existing
  /\ {tab.poll, tab.pendingRun} \subseteq Existing \cup {None}
  /\ ShownTrace \in {None, RunOf(ShownRun)}
  /\ \A f \in Calls : /\ flow[f].at \in Ops
                      /\ flow[f].reply \in Replies \cup {None}
                      /\ flow[f].epoch <= tab.epoch

\* A late answer never replaces a newer choice: the task in view changes to
\* another run only if that is the run of the newest navigation (selectRun,
\* createAndStartRun, startExistingRun, resolveApproval and their fences).
\* When the newest choice is a new task, that is the run made for it and no
\* other, neither before it exists nor after it has come into view.
LatestChoice ==
  RunOf(tab'.selected) \notin {None, RunOf(tab.selected)}
    => tab'.wanted = RunOf(tab'.selected)
LatestChoiceWins == [][LatestChoice]_vars

\* A tab with both keys, whose requests succeed, in which runs are looked at,
\* started and decided and directories trusted, while no run is created and
\* nobody connects, forgets the keys or loads the page again.
Undisturbed ==
  /\ setting.settled /\ setting.failures = {}
  /\ setting.gestures \cap {"goal", "connect", "forget", "reload"} = {}

\* The page of such a tab asks about the challenge in memory, the one a click
\* would send: if not, the run of the newest click is still being read, or the
\* profile that goes with the selection is.
ShownUnlessNavigating ==
  Undisturbed =>
    \/ Question(ShownRun) = Question(tab.selected)
    \/ \E f \in Calls : /\ flow[f].epoch = tab.epoch
                        /\ flow[f].kind = "select" \/ flow[f].at = "profile"

\* authScope of app.js and the dependencies of the routes agree: a tab whose
\* keys are right is never told otherwise by the server.
RightKeysOpen ==
  (\A f \in Calls : flow[f].key \in {None, "valid"})
    => \A f \in Calls : flow[f].reply # None /\ flow[f].key # None
                          => flow[f].reply.code # "401"

\* Only a key the server has accepted is kept in the session storage.
StoredKeyWorked == tab.stored \in {None, "valid"}

\* Both, on a tab whose memory has its types.
KeysAreJudged == TypeOK /\ RightKeysOpen /\ StoredKeyWorked

\* A run shown as starting or approving is asked for until it is something
\* else, however navigations, decisions and other tabs interleave; for a tab
\* whose requests succeed and that is not connected anew in between.
ShownProgressIsFollowed ==
  (tab.selected # None /\ tab.selected.status \in Transient)
    ~> (tab.selected = None \/ tab.selected.status \notin Transient)

\* docs/architecture.md:36: a run "pauses with its exact argv, rule, workspace,
\* and reason visible to the human".  What an approval approves is what the
\* page showed when the button was clicked.
ApprovedIsShown ==
  \A f \in Calls :
    flow[f].at = "approvals" => Question(flow[f].meant) = <<flow[f].run, flow[f].held.asks>>

\* index.html:123: "Trust this workspace?" and a path.  What is trusted is the
\* directory the dialog named when the person confirmed.
TrustedIsShown ==
  \A f \in Calls : flow[f].at = "trust" => flow[f].ws = flow[f].meant

\* forgetAccess: "Access cleared for this tab".  Until the person connects
\* again there is no key, no stored key, no runtime and no run in the tab.
ForgetClears ==
  tab.forgotten => /\ tab.operator = None /\ tab.stored = None
                   /\ tab.approver = None
                   /\ ~tab.runtime /\ tab.runs = {} /\ tab.selected = None
=============================================================================
