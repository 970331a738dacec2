SPECIFICATION Spec
CONSTANTS
  None = none
  Files = {"f"}
  Subs = {}
  Contents <- SameSize
  Algos = {"md5", "blake3"}
  Options <- OnlyLogDeleted
  Budget <- Two
  LiveWrites <- NoRewrite
INVARIANTS DelMeansRemoved
