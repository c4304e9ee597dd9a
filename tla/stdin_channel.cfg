SPECIFICATION FairSpec
CONSTANTS
  MAX_JSON_BUFFER = 4
  BUFSIZ = 3
  MaxWritten = 5
INVARIANTS
  TypeOK
  InOrder
  NoPhantomStop
  EofHandlesAll
PROPERTIES
  CloseEnds
  SignalEnds
