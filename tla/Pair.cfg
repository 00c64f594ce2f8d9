SPECIFICATION Spec
CONSTANTS
  SEQ_MOD = 16
  WIN_MOD = 4
  MAX_PAYLOAD_SIZE = 1
  MAX_RETX_ATTEMPTS = 1
  Byte <- MCByte
  Filler = 0
  Stream <- MCStream
  Config <- MCConfig
  Openers = {"client"}
  Mortals = {"server"}
  Elapsed = {10}
  Rooms <- MCEitherTwo
  MaxFaults = 2
INVARIANTS TypeOK AckedIsReceived CleanMeansComplete NotExhausted
PROPERTIES FailsForCause StatesAdvance BothDeliver
CHECK_DEADLOCK FALSE
