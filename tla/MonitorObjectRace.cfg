\* As many consumers as producers, as in main().
CONSTANTS
  Adders = {a1, a2}
  Getters = {g1, g2}
  NumGets = 1
  NoThread = NoThread
  Garbage = Garbage
  MaxSpurious = 2
SPECIFICATION Spec
INVARIANTS NeverPopsEmpty
