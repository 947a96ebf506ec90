SPECIFICATION PartsSpec
CONSTANTS
  Exes = {"e1", "e2"}
  LIMIT = 1
  MaxWrites = 2
  Ids = {"i1", "i2"}
  Actions = {"a1", "a2"}
  Processes = {"p1", "p2"}
  Ttls = {1}
  LOCK_TIMEOUT = 2
  MaxNow = 3
  TIMEOUT = 3
  MAX_BYTES = 3
  MaxPieces = 2
  MaxBody = 5
  MAX_ACTIONS = 2
  MAX_CHARS = 4
  STREAM_CHARS = 2
  Lengths = {0, 1, 2, 3}
  MaxTrace = 3
  Files = {"f", "g"}
  Contents = {"a", "b"}
  Sizes <- SameSize
  Cases = 2
  MAX_FIXTURE_FILES = 3
  MAX_FIXTURE_BYTES = 3
  Times = {1, 2}
  Flows = {f1, f2}
  r1 = r1  r2 = r2  w1 = w1  None = None
CHECK_DEADLOCK FALSE
INVARIANTS
  ApprovedIsExecuted SuccessIsItsOwn NothingLeftRunning OutputIsKept
  ClaimsAreGood RequestKeepsLimits PreviewIsHonest SuiteIsWhole
PROPERTIES RunnerAnswers EveryCaseIsRun ShownProgressIsFollowed
