SPECIFICATION Spec
CONSTANTS
  None = none
  Files = {a, b, c}
  Hashes = {"h"}
  HashOf <- OneBag
  Systems = {"share", "show", "none"}
  Contents = {"indexed", "other", "grown", "short", "empty"}
  LogCap = 1
  Word = 8
  MaxRuns = 3
  MaxChanges = 1
  MaxStops = 2
SYMMETRY Sym
INVARIANTS TypeOK MergedShare SharedIsMerged NothingStale AllMerged
CHECK_DEADLOCK FALSE
