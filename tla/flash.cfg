\* Calls within the device and off its end, cut off anywhere.
CONSTANTS
  Word = 64
  FlashBase = 8
  FlashSize = 8
  FsOffset = 2
  BlockSize = 2
  Byte <- MCByte
  Erased = 1
  NoRequest = NoRequest
  Blocks <- MCBlocks
  Offsets <- MCOffsets
  MaxLen = 3
SPECIFICATION Spec
INVARIANTS TypeOK FirmwareKept
PROPERTY BlockDevice
