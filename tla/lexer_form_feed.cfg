SPECIFICATION Spec
CONSTANT Inputs <- FormFeedInputs
INVARIANTS
  ItemsAreBalanced
\* A call returns: the last state has no successor.
CHECK_DEADLOCK FALSE
