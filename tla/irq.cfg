\* Two pins, handlers set, replaced and removed.
CONSTANTS
  p1 = p1
  p2 = p2
  h1 = h1
  h2 = h2
  None = None
  NULL = NULL
  Pins <- MCPins2
  Handlers <- MCHandlers
  Triggers <- MCSingle
  SchedDepth = 1
SPECIFICATION Spec
SYMMETRY PinSymmetry
INVARIANTS TypeOK CallableOnly ListensIffHandled WantedCaught
PROPERTY OwnEdges
