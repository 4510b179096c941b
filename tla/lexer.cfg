SPECIFICATION Spec
CONSTANT Inputs <- LexerInputs
INVARIANTS
  TypeOK
  NestingInv
  CommentInBrackets
  UnclosedMeansTextEnded
  ItemsMatchGrammar
  GroupEndMatchesGrammar
PROPERTIES
  OpaqueText
  Terminates
  RefinesTokenizer
\* A call returns: the last state has no successor.
CHECK_DEADLOCK FALSE
