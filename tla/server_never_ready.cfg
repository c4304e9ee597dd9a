SPECIFICATION FairSpec
CONSTANTS
  c1 = c1
  Client = {c1}
  Fd = {0, 3, 4, 5}
  MAX_TCP_CLIENTS = 1
  Backlog = 1
  enable_tcp = TRUE
  enable_rtu = TRUE
  Faults = {}
PROPERTIES
  BecomesReady
