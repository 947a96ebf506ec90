SPECIFICATION LapseSpec
CONSTANTS
  s1 = s1  s2 = s2  w1 = w1  w2 = w2  t1 = t1  t2 = t2
  r1 = r1  r2 = r2  b1 = b1  b2 = b2
  None = None
  Runs = {r1}
  Services = {s1, s2}
  Workers = {w1, w2}
  Host <- TwoProcesses
  Tools = {t1}
  MaxPlan = 1
  Fingerprints = {"f1"}
  Binaries = {b1, b2}
  MaxFaults = 1
  MaxApprovals = 2
  MaxRebinds = 1
INVARIANTS LaunchIsAuthorised
PROPERTIES TerminalIsFinal
