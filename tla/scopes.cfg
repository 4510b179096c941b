SPECIFICATION Spec
CONSTANTS
  Sources <- MCSources
  Tables <- MCTables
  Quoted <- MCQuoted
  MaxCommandWords = 5
INVARIANT HeadsAreLexical
INVARIANT CollectedOnce
INVARIANT ScopesAreLeft
\* The parse ends.
CHECK_DEADLOCK FALSE
