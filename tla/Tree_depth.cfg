SPECIFICATION Spec
CONSTANTS
  Star = "*"
  DotNames = {".h"}
  OwnNames = {}
  Dirs <- TheDirs
  Above <- TheAbove
  Name <- TheName
  Looks <- TheLooks
  RuleBooks <- TheRuleBooks
  Markers <- TheMarkers
  Commands <- TheCommands
  MaxCommands = 1
  MaxEvents = 0
  Global = "global"
  Dot = "."
  None = none
  Bad = bad
INVARIANTS WalkDocumented
CHECK_DEADLOCK FALSE
