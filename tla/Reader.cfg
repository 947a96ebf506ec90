SPECIFICATION PartsSpec
CONSTANTS
  Limit <- Limits
  Chunk = 3
  Capacity = 2
  MaxOutput = 4
  obj1 = obj1  obj2 = obj2  obj3 = obj3  pack1 = pack1  pack2 = pack2  Nobody = Nobody
  Objects = {obj1, obj2, obj3}
  Dirs <- TwoDirs
  Dir <- DirOf
  PackOrder <- TwoPacks
  InitialPacks <- OnePacked
  Absent = {obj3}
  MaxBytes = 5
  MaxEntries = 4
  MaxSize = 2
  MaxChanges = 4
  MaxFiles = 2
  MaxDiff = 5
  MaxContext = 3
  MaxContextFiles = 2
  Entries <- AnyEntries
  MaxCommitEntries = 3
  Targets <- ThreeFiles
  Names = {"m", "n"}
  MaxRequests = 3
CHECK_DEADLOCK FALSE
INVARIANTS
  Bounded KilledBeforeReturn NeverTruncatedAlone
  CopyIsFaithful CompleteIsComplete DiffsAreTrue
PROPERTIES CallReturns
