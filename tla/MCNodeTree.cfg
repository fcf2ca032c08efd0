SPECIFICATION Spec
CONSTANTS
  MaxNodes = 4
  MaxHandles = 1
INVARIANTS TypeOK AliveIffOwned VisitsRight
PROPERTIES TraversalEnds
\* The traversal is over, the caller panicked, or its visitor outgrew the model.
CHECK_DEADLOCK FALSE
