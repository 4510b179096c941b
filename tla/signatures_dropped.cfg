SPECIFICATION Spec
CONSTANTS
  Calls <- MCCallFamilies
  SignatureTokens <- MCSignatureTokens
  Parameters <- MCParameters
  AttributeNames <- MCAttributeNames
  AttributeItems <- MCAttributeItems
  Pieces <- MCPieces
  MaxItems = 3
  MaxPieces = 4
  MaxWritten = 2
INVARIANT EveryTokenKept
CHECK_DEADLOCK FALSE
