SPECIFICATION Spec
CONSTANT MaxStarts = 2
INVARIANT FailureLeavesNoTrace
CHECK_DEADLOCK FALSE
