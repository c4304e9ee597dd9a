SPECIFICATION FairSpec
CONSTANTS
  c1 = c1
  c2 = c2
  Client = {c1, c2}
  Fd = {0, 3, 4, 5}
  MAX_TCP_CLIENTS = 1
  Backlog = 1
  enable_tcp = TRUE
  enable_rtu = FALSE
  Faults = {}
INVARIANTS
  ExitReleasesAll
PROPERTIES
  StopLeadsToExit
  QueuedClientTaken
  ConnectionServed
