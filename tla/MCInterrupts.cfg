SPECIFICATION Spec
CONSTANTS
  Sleeps <- MCSleeps
  MaxTicks = 3
INVARIANTS TypeOK SecondEoiEndsNothing
PROPERTIES WaitsLongEnough WaitEnds RequestsAreServed
