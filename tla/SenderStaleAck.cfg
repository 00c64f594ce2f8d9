SPECIFICATION Spec
CONSTANTS
  SEQ_MOD = 16
  WIN_MOD = 6
  MAX_PAYLOAD_SIZE = 2
  Byte <- MCByte
  Stream <- MCStream
  Capacity = 2
  Isn = 14
  RtTimeout = 1
  MaxRetx = 1
  PeerCapacity = 2
  MaxAcks = 3
  InOrder = {FALSE}
INVARIANT WindowRespected
CHECK_DEADLOCK FALSE
