SPECIFICATION Spec
CONSTANTS
  SEQ_MOD = 16
  WIN_MOD = 4
  MAX_PAYLOAD_SIZE = 1
  MAX_RETX_ATTEMPTS = 1
  Byte <- MCByte
  Filler = 0
  Stream <- MCStream
  Config <- MCWrapConfig
  Openers = {"client"}
  Mortals = {}
  Elapsed = {10}
  Rooms <- MCBothTwo
  MaxFaults = 2
INVARIANT AckedIsReceived
CHECK_DEADLOCK FALSE
