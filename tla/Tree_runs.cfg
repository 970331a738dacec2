SPECIFICATION Spec
CONSTANTS
  Star = "*"
  DotNames = {".h"}
  OwnNames = {}
  Dirs <- TheDirs
  Above <- TheAbove
  Name <- TheName
  Looks <- TheLooks
  RuleBooks <- TheRuleBooks
  Markers <- TheMarkers
  Commands <- TheCommands
  MaxCommands = 3
  MaxEvents = 1
  Global = "global"
  Dot = "."
  None = none
  Bad = bad
INVARIANTS TypeOK WalkComplete
PROPERTIES IndexKept OthersUntouched CheckAgrees FuseCollects
CHECK_DEADLOCK FALSE
