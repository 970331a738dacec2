SPECIFICATION Spec
CONSTANTS
  None = none
  Hole = hole
  Blocks = 3
  Block = 2
  Sizes = {1, 4, 5}
  PageSize = 2
  Word = 64
  Faults <- AllFaults
  MaxChanges = 1
INVARIANTS TypeOK ListsComplete SuccessShares ReclaimedCovers MatchReclaimsNothing
PROPERTIES Terminates
