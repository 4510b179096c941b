SPECIFICATION Spec
CONSTANT TokenLists <- ShortLists
INVARIANT EveryCommentRecorded
CHECK_DEADLOCK FALSE
