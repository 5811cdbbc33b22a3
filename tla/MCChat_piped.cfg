CONSTANTS
  Output = 2
  Room = 1
SPECIFICATION Spec
PROPERTIES OutputIsPiped
CHECK_DEADLOCK FALSE
