SPECIFICATION Spec
CONSTANTS
  Members = {m1, m2}
  Viewers <- MCViewers
  Bodies <- MCBodies
  Texts <- MCTexts
  Numerals <- MCNumerals
  TrueWords <- MCTrueWords
  FalseWords <- MCFalseWords
  RustPatterns <- MCRustPatterns
  RustRegex <- MCRustRegex
  PgPatterns <- MCPgPatterns
  PgRegex <- MCPgRegex
  Day = 2
  Limits = {1, 2}
  MaxGroups = 2
  MaxConditions = 2
  MaxNow = 1
  MaxEdits = 1
  MaxFacts = 1
SYMMETRY MemberSymmetry
INVARIANTS PathsAgree PreviewTold SavesAsItself
CHECK_DEADLOCK FALSE
