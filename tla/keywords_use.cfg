SPECIFICATION Spec
CONSTANT Statements <- UseStatements
INVARIANTS EndOfOptionsEndsFlagsOfUse
CHECK_DEADLOCK FALSE
