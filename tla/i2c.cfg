\* Reads and writes, with and without STOP; refused bytes; timeouts.
CONSTANTS
  Slave = Slave
  Nobody = Nobody
  ReadBufs <- MCReadBufs
  WriteBufs <- MCWriteBufs
  Freqs <- MCFreqs
  SysClk = 27000000
  Word = 1073741824
SPECIFICATION LiveSpec
INVARIANTS TypeOK Transferred BusReleased
PROPERTY Returns
