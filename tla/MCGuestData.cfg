SPECIFICATION GuestDataSpec
CONSTANTS
  PAGE = 4
  HIGH_RAM_BASE = 8
  SHARDS = 2
  U64 = 64
  U32 = 32
  Ram <- MCRam
  Length <- MCLength
  Byte = {0, 1}
  Nul = 0
  Stale = 9
  MaxBuffers = 3
  BufferLen = {1, 2}
  MaxRead = 3
  MaxReply = 2
INVARIANTS AccessCovered RamAdmitted ReadsTheRequest ReplyExact
