SPECIFICATION Spec
CONSTANT TokenLists <- PipelinesLists
INVARIANTS TypeOK EveryWordInOneStatement CommentsKept LeadingCommentsAreDocComments PipelineBoundaries AssignmentIsLast TerminatorEndsItsLine OpenPipeBeforeSemicolon
PROPERTY Terminates
CHECK_DEADLOCK FALSE
