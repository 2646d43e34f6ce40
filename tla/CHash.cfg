SPECIFICATION RingSpec
CONSTANTS
  Buckets = 7
  MaxHash = 7
  Servers = 2
INVARIANTS RingTypeOK SearchBounds BucketsRight
CHECK_DEADLOCK FALSE
