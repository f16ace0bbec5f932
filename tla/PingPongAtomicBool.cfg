\* Any limit will do: the last round is the interesting one.
CONSTANT countlimit = 2
SPECIFICATION Spec
PROPERTY BothReturn
CHECK_DEADLOCK FALSE
