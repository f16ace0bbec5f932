\* One byte is enough to lose it; the run allows a whole frame.
CONSTANT MaxBytes = 6
SPECIFICATION Spec
INVARIANT EveryByteReceived
CHECK_DEADLOCK FALSE
