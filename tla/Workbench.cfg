SPECIFICATION Spec
CONSTANTS
  Flows = {f1, f2}
  Runs = {r1, r2}
  Workspaces = {w1}
  Keys = {"valid", "wrong"}
  MaxActions = 2
  Settings <- Surroundings
  r1 = r1  r2 = r2  w1 = w1  None = None
SYMMETRY FlowSymmetry
CHECK_DEADLOCK FALSE
INVARIANTS
  ShownUnlessNavigating KeysAreJudged
PROPERTIES LatestChoiceWins
