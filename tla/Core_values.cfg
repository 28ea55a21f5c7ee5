SPECIFICATION MCSpec
CONSTANTS
  Slots = {a, b}
  Values = {v1, v2}
  Errors = {e1}
  Unspecified = unspecified
  Plain = {"a", "x"}
  Hex = {"a"}
  Alnum = {"a", "A", "b"}
  Joining = {"-"}
  Lower <- MCLower
  Starts <- MCStarts
  Pieces <- MCPieces
  Room <- MCRoom
INVARIANTS
  TypeOK
  MemberIsSound
  PointerIsValid
  PatternsAreParsed
  MediaTypesAreParsed
  Base64IsTurnedBack
PROPERTIES
  AllOrNothing
  SumSpec
