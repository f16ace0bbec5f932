\* Twelve bytes hold two frames of a byte each, or an ESC and an empty one, with any
\* byte before each of them; the numbers take fun1 through both of its branches and
\* up to four levels of calls.  Four tasks, as in main(), and a frame more than they
\* can own.
\* The programs end, and an ended program has no step.
CONSTANTS
  MaxValues = 3
  Nums = {0, 1, 2, 3, 4, 5, 6, 7, 8, 9, 10}
  MaxLength = 3
  NumData = 5
  MaxBytes = 12
  Tasks = {t1, t2, t3, t4}
  Frames = {fr1, fr2, fr3, fr4, fr5}
  Null = Null
  Unborn = Unborn
SPECIFICATION Spec
INVARIANTS
  FrameLifetimes ValuesInOrder NothingReadEarly HandlesAlive AwaitsAreCalls
  Interleaves ReceivesAll YieldsFramesSent FramesHandled
PROPERTIES Ends
CHECK_DEADLOCK FALSE
