CONSTANTS
  Byte <- MCByte
  Stream <- MCStream
  Filler = 0
  Capacity = 3
SPECIFICATION Spec
INVARIANTS TypeOK HoldsStream UnassembledCount
PROPERTIES ArrivedBytesStay PushDeliversAll ImplementsDelivery
