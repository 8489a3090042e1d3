\* Retained < MaxOut: output is evicted.  MaxPending = 1: the buffer fills up.
SPECIFICATION FairSpec
CONSTANTS
  Streams = {stdout}
  Exit = Exit
  MaxOut = 2
  MaxConns = 2
  Retained = 1
  MaxPending = 1
INVARIANTS
  BufferBounded
  NoGapForever
PROPERTIES
  RecoveryFollowsTheWalk
  StreamEndsForSubscribers
