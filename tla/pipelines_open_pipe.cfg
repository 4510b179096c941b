SPECIFICATION Spec
CONSTANT TokenLists <- ShortLists
INVARIANT OpenPipeReportedOnce
CHECK_DEADLOCK FALSE
