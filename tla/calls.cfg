SPECIFICATION Spec
CONSTANTS
  Calls <- MCCallFamilies
  SignatureTokens <- MCSignatureTokens
  Parameters <- MCParameters
  AttributeNames <- MCAttributeNames
  AttributeItems <- MCAttributeItems
  Pieces <- MCPieces
  MaxItems = 3
  MaxPieces = 4
  MaxWritten = 2
INVARIANTS
  PositionalsMatchSignature FlagsAreKnown LenientOnlyMisses ExternalListsEndWithBracket SegmentsAreThePieces
  WrittenSignatureReadsBack ExternTakesWhatDefTakes
CHECK_DEADLOCK FALSE
