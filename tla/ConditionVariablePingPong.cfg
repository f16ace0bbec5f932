CONSTANTS
  COUNTLIMIT = 2
  MaxSpurious = 0
SPECIFICATION Spec
PROPERTY BothReturn
CHECK_DEADLOCK FALSE
