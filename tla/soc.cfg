\* Any sequence of calls of tt.py, SPI and ADC.
CONSTANTS
  Bytes <- MCBytes
  SpiCtrls <- MCSpiCtrls
  Channels <- MCChannels
  Copies <- MCCopies
  None = None
SPECIFICATION Spec
INVARIANTS TypeOK TTOwned SendClocks
