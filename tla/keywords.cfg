SPECIFICATION Spec
CONSTANT Statements <- KeywordStatements
INVARIANTS EveryItemAccountedFor EndOfOptionsEndsFlags NoFlagIsPositional HelpForgivesOnlyMissing
CHECK_DEADLOCK FALSE
