SPECIFICATION Spec
CONSTANTS
  MaxTyped = 6
  Calls <- MCCalls
CHECK_DEADLOCK FALSE
INVARIANTS TypeOK ListensUntilExit ProcessesFreedOnce
PROPERTIES TypedAheadIsRead
