SPECIFICATION FairSpec
CONSTANTS
  SEQ_MOD = 16
  WIN_MOD = 4
  MAX_PAYLOAD_SIZE = 1
  MAX_RETX_ATTEMPTS = 4
  Byte <- MCByte
  Filler = 0
  Stream <- MCServerTwo
  Config <- MCConfig
  Openers = {"client", "server"}
  Mortals = {"server"}
  Elapsed = {10}
  Rooms <- MCToServerTwo
  MaxFaults = 1
INVARIANTS AckedIsReceived
PROPERTIES Completes Ends
CHECK_DEADLOCK FALSE
