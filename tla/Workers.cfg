\* The crew of fullTimePartTimeWorkers.cpp.
CONSTANTS
  FullTime = {f1, f2, f3}
  PartTime = {p1, p2, p3}
SPECIFICATION Spec
INVARIANT PartTimeWaits
CHECK_DEADLOCK FALSE
