SPECIFICATION Spec
CONSTANTS
  None = none
  Dirs = {"a", "b"}
  Workers = {"w1", "w2"}
  QueueCap = 1
  Faults <- NoFaults
  MaxRuns = 1
  MaxKills = 0
INVARIANTS NoChangesWereMade
