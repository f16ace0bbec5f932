\* Pong and setTrue may hang (see the findings), so deadlock is not an error.
CONSTANTS
  countlimit = 3
  MaxSpurious = 2
SPECIFICATION Spec
INVARIANTS OneMover
PROPERTIES TakesTurns Returns
CHECK_DEADLOCK FALSE
