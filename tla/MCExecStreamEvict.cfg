\* Retained = 1: one chunk of output is evicted by the next.
SPECIFICATION Spec
CONSTANTS
  Streams = {stdout}
  Exit = Exit
  MaxOut = 2
  MaxConns = 2
  Retained = 1
  MaxPending = 2
INVARIANTS
  PublishedInOrder
