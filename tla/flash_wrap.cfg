\* A negative block number.
CONSTANTS
  Word = 64
  FlashBase = 8
  FlashSize = 8
  FsOffset = 2
  BlockSize = 2
  Byte <- MCByte
  Erased = 1
  NoRequest = NoRequest
  Blocks <- MCMinusOne
  Offsets <- MCZero
  MaxLen = 3
SPECIFICATION Spec
INVARIANT FirmwareKept
