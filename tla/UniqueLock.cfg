\* uniqueLock.cpp alone, with its two threads.
CONSTANT Catalogue <- UniqueLock
SPECIFICATION Spec
PROPERTIES MainReturns
CHECK_DEADLOCK FALSE
