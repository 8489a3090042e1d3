\* Retained = MaxOut: no output is evicted.
SPECIFICATION Spec
CONSTANTS
  Streams = {stdout, stderr}
  Exit = Exit
  MaxOut = 2
  MaxConns = 2
  Retained = 2
  MaxPending = 2
SYMMETRY Symmetry
INVARIANTS
  OneTerminalEvent
  
  PublishedInOrder
PROPERTIES
  ImplementsProcessEvents
