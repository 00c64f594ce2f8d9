SPECIFICATION Spec
CONSTANTS
  SEQ_MOD = 8
  MaxCheckpoint = 30
INVARIANTS UnwrapsToClosest RoundTrip
CHECK_DEADLOCK FALSE
