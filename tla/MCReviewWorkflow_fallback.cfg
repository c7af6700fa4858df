SPECIFICATION Spec
CONSTANTS
    MaxIteration = 5
    RecursionLimit = 25
    Sharing <- Copied
INVARIANT
    NeverOutOfSteps
CHECK_DEADLOCK FALSE
