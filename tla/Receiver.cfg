SPECIFICATION Spec
CONSTANTS
  Byte <- MCByte
  Filler = 0
  Stream <- MCStream
  Capacity = 3
  SEQ_MOD = 8
  Isn = 6
INVARIANTS TypeOK ReceiverHolds AcksOnlyArrived FinAckedIffEnded NeverStuck
PROPERTIES WindowNeverShrinks ImplementsDelivery
