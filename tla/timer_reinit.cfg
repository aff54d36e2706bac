\* init of a running timer, a tick between its stores.
CONSTANTS
  t1 = t1
  cb = cb
  None = None
  NULL = NULL
  Timers <- MCTimers
  Callbacks <- MCCallbacks
  Periods <- MCPeriods
  MaxTimers = 1
  TickMod = 8
  SchedDepth = 1
  MaxPreempt = 1
  Reorder = FALSE
  ReinitActive = TRUE
SPECIFICATION ReinitSpec
PROPERTY ShotAsked
