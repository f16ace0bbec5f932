\* Three tasks, all orders and ties of three priorities; three nested functions
\* below spawn_task, as in main().
CONSTANTS
  NumTasks = 3
  MaxRounds = 3
  MaxPrio = 2
  MaxSuspends = 3
  MaxWaits = 2
  MaxTime = 1
  Addresses = {f1, f2, f3}
  Root = Root
  Null = Null
  Values = {v1, v2}
  None = None
  MaxSteps = 5
SPECIFICATION Spec
INVARIANTS
  FramesOwned ResumesLiveTask TurnOrder
  AssertionsHold LinksAreAlive EndsWithResult
PROPERTIES WakesInOrder ImplementsCallStack AllFinished
