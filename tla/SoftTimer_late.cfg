SPECIFICATION TimerSpec
CONSTANTS
  W = 44
  Quarter = 11
  Pre = 1
  Post = 9
  Horizon = 2
  DelHorizon = 3
  MaxTimer = 3
  Func = {f, g}
  Interval = {1, 3}
  MaxGap = 1
  MaxRun = 1
INVARIANTS Sorted NeverLost WakeupNotStale
