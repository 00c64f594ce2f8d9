CONSTANTS
  Byte <- MCByte
  Stream <- MCStream
  Filler = 0
  Capacity = 3
SPECIFICATION Spec
INVARIANTS WithinCapacity
