SPECIFICATION Spec
CONSTANTS
  Sleeps <- MCSleeps
  MaxTicks = 3

PROPERTIES RegisteredIsServed
