\* Three timers compete for two slots; stores in any order; init of running timers.
CONSTANTS
  t1 = t1
  t2 = t2
  t3 = t3
  cb = cb
  None = None
  NULL = NULL
  Timers <- MCTimers3
  Callbacks <- MCMaybeCallbacks
  Periods <- MCPeriods1
  MaxTimers = 2
  TickMod = 2
  SchedDepth = 1
  MaxPreempt = 1
  Reorder = TRUE
  ReinitActive = TRUE
SPECIFICATION Spec
SYMMETRY Symmetry3
INVARIANTS TypeOK PoolInjective ActiveRegistered PoolAllocated CallConsistent
