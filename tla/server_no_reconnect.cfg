SPECIFICATION FairSpec
CONSTANTS
  c1 = c1
  Client = {c1}
  Fd = {0, 3, 4}
  MAX_TCP_CLIENTS = 1
  Backlog = 1
  enable_tcp = FALSE
  enable_rtu = TRUE
  Faults = {}
PROPERTIES
  RtuRecovers
