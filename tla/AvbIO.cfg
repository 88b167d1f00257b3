SPECIFICATION FairSpec
CONSTANTS
  Byte = {0, 1, 2}
  MaxSize = 3
  MaxInterrupts = 1
  DigestSize = 2
INVARIANT TransferExact
INVARIANT TrustMeansEqual
INVARIANT PrintedWasRead
PROPERTY Ends
CHECK_DEADLOCK FALSE
