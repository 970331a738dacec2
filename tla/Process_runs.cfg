SPECIFICATION Spec
CONSTANTS
  w1 = w1
  w2 = w2
  Workers = {w1, w2}
  Scanner = scanner
  Main = main
  Nil = nil
  Dirs = {"a", "b", "c", "d", "e"}
  Roots <- RootA
  Kids <- FourLevels
  MaxDepth = 2
  SkipSubdirectories = FALSE
  UpdateIndex = TRUE
  UpdateSkipCheck = FALSE
  ShowIgnoredOnly = FALSE
  WorkCap = 1
  LogCap = 1
  PerfCap = 1
  MaxSignals = 2
  ScanLogs <- None
  LoadLogs <- None
  HashOps <- HashPerf
  FixLogs <- FixUpdates
  SaveOps <- SavedOrFailed
INVARIANTS TypeOK ExitCodeIsHonest SummaryAgrees LogInv NoEventLost NothingLeftBehind FullCoverage
PROPERTIES NoSaveAfterJoin EveryRunEnds
