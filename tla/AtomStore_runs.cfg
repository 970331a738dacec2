SPECIFICATION Spec
CONSTANTS
  None = none
  Dirs = {"a", "b"}
  Workers = {"w1", "w2"}
  QueueCap = 1
  Faults <- AllFaults
  MaxRuns = 3
  MaxKills = 1
INVARIANTS TypeOK AtomReadable NothingLostBySwap LoadSeesInstalled SavesInstalled TornKeepsBackup
PROPERTIES Transactional RunEnds
CHECK_DEADLOCK FALSE
