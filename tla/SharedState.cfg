\* One to seven threads and one or two iterations of their loops; the programs end
\* or hang, and a program that ended has no step.
CONSTANT Catalogue <- Programs
SPECIFICATION Spec
INVARIANTS AccessesOrdered OutputPossible ConstructedOnce
PROPERTIES EndsAsKnown
CHECK_DEADLOCK FALSE
