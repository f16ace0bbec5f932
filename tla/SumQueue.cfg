\* As many removers as adders, as in main().
CONSTANTS
  Adders = {a1, a2}
  Getters = {g1, g2}
  NoThread = NoThread
  NoValue = NoValue
  MaxSpurious = 2
SPECIFICATION SumSpec
INVARIANTS
  TypeOK LockDiscipline TakeFindsElement NoLostWakeup SumOfAllNumbers
PROPERTIES ImplementsQueue
