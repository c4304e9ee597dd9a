SPECIFICATION Spec
CONSTANTS
  c1 = c1
  c2 = c2
  Client = {c1, c2}
  Fd = {0, 3, 4, 5}
  MAX_TCP_CLIENTS = 1
  Backlog = 1
  enable_tcp = TRUE
  enable_rtu = TRUE
  Faults = {"select", "new_tcp", "listen", "new_rtu", "mapping", "accept", "accept_closes"}
SYMMETRY Symmetry
INVARIANTS
  StdinOpen
  NeverBlocked
  WatchedOpen
  IInv
  PoolExact
PROPERTIES
  NoLeakWhileServing
  StopIsShort
  ImplementsService
