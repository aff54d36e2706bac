\* Two timers and a tick counter that wraps: timer.c implements AbstractTimer.
CONSTANTS
  t1 = t1
  t2 = t2
  t3 = t3
  cb = cb
  None = None
  NULL = NULL
  Timers <- MCTimers2
  Callbacks <- MCCallbacks
  Periods <- MCPeriods02
  MaxTimers = 2
  TickMod = 3
  SchedDepth = 1
  MaxPreempt = 1
  Reorder = FALSE
  ReinitActive = FALSE
SPECIFICATION LiveSpec
PROPERTIES AbstractSpec PreciseShot OneShotEnds PeriodicRepeats
