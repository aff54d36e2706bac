\* A soft reboot with objects left in the tables.
CONSTANTS
  CyclesPerMs = 2
  Word = 8
  TickMod = 4
  Timeouts <- MCTimeouts
  Delays <- MCDelays
  MaxLag = 1
SPECIFICATION Spec
INVARIANT HeapSafe
