SPECIFICATION Spec
CONSTANTS
  Bits = 6
  Pieces <- MCPieces
  MaxPieces = 4
  Bounds <- MCBounds
  Dates <- MCDates
  Times <- MCTimes
  Binaries = {0, 1, 173}
  MaxBytes = 3
  StringPieces <- MCStringPieces
  BodyCharacters <- MCBodyCharacters
  MaxBody = 5
  PathTokens = {".", "?", "!", "a", "0", "-1", "a(b)", "'a"}
  MaxTokens = 5
  Expressions <- MCExpressions
  Arms <- MCArms
  Interiors <- MCInteriors
  TypeFields <- MCTypeFields
  Operands <- MCOperands
  Operators <- MCOperators
  MaxOperands = 4
INVARIANTS
  WordHasOneReading DatesAreOnTheCalendar LiteralReadsBack PathReadsBack RangeReadsBack PartsCoverTheBody
  CollectionReadsBack OperatorsBindByPrecedence
CHECK_DEADLOCK FALSE
