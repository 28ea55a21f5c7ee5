SPECIFICATION Spec
CONSTANTS
  Chars <- MCChars
  Routes <- MCRoutes
  Methods = {"get", "put"}
  Paths <- MCPaths
  MaxRoutes = 4
CHECK_DEADLOCK FALSE
INVARIANTS FindIsRight ShortFirstIsDisjoint MatcherAgrees
PROPERTY RejectsDuplicates
