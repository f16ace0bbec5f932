\* The crew of fullTimePartTimeWorkers.cpp; three clients of two tasks; one
\* getter that calls get() three times, and an adder more than it needs.
\* The programs end, and an ended program has no step.
CONSTANTS
  FullTime = {f1, f2, f3}
  PartTime = {p1, p2, p3}
  MaxSpurious = 2
  NumClients = 3
  NumTasks = 2
  Adders = {a1, a2, a3, a4}
  Getter = g1
  NumGets = 3
  NoThread = NoThread
  NoValue = NoValue
  Garbage = Garbage
SPECIFICATION Spec
INVARIANTS
  NobodyAhead CountersExact WorksOnData WakeUpOwed
  TaskInOnePlace DequeueFindsTask
PROPERTIES ImplementsQueue MainReturns
CHECK_DEADLOCK FALSE
