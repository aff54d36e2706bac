\* Boots, sleeps, lockups and resets, with a watchdog and with objects left in the tables.
CONSTANTS
  CyclesPerMs = 2
  Word = 8
  TickMod = 4
  Timeouts <- MCTimeouts
  Delays <- MCDelays
  MaxLag = 1
SPECIFICATION LiveSpec
INVARIANTS TypeOK LostFromTables
PROPERTIES NoEarlyBite SleepsItsTime LockupEnds SleepEnds RawReached
