\* Three PWMs, two slots, two pins.
CONSTANTS
  x1 = x1
  x2 = x2
  x3 = x3
  p1 = p1
  p2 = p2
  NULL = NULL
  Pwms <- MCPwms
  Pins <- MCPins
  MaxPwm = 2
  Resolution = 3
  DutyRange = 4
  CpuFreq = 40
  Word = 64
  Freqs <- MCFreqs
  Duties <- MCDuties
SPECIFICATION WaveSpec
SYMMETRY PwmSymmetry
VIEW PwmView
INVARIANTS TypeOK PoolExact DutyAccurate PlainPinsHeld OpenDrain
