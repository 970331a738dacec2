SPECIFICATION Spec
CONSTANTS
  None = none
  Files = {a, b, c, d}
  Hashes = {"h"}
  HashOf <- OneBag
  Systems = {"share"}
  Contents = {}
  LogCap = 2
  Word = 8
  MaxRuns = 2
  MaxChanges = 0
  MaxStops = 0
SYMMETRY Sym
INVARIANTS ActualAtLeastMinimum
