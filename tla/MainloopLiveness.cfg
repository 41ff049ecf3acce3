SPECIFICATION Spec
CONSTANTS
  t1 = t1
  t2 = t2
  d1 = d1
  d2 = d2
  w1 = w1
  Timer = {t1, t2}
  Deferred = {d1}
  Wakeup = {}
  Io = Io
  Nil = Nil
  Intervals = {1, 2}
  MaxLag = 1
  ReenableInPass = FALSE
  DeleteForced = FALSE
PROPERTIES
  TimersServed
  DeletedFreed
CHECK_DEADLOCK FALSE
