SPECIFICATION Spec
CONSTANTS
  SEQ_MOD = 16
  WIN_MOD = 6
  MAX_PAYLOAD_SIZE = 2
  Byte <- MCByte
  Stream <- MCStream
  Capacity = 3
  Isn = 14
  RtTimeout = 1
  MaxRetx = 1
  PeerCapacity = 3
  MaxAcks = 3
  InOrder = {FALSE, TRUE}
INVARIANTS TypeOK WindowRespectedInOrder OutstandingTiles SentIsRead ForgetsOnlyAcked NeverIdle Backoff
CHECK_DEADLOCK FALSE
