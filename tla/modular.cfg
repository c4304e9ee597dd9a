SPECIFICATION Spec
CONSTANTS
  File <- MCFile
  c1 = c1
  c2 = c2
  c3 = c3
  Client = {c1, c2, c3}
  Fd = {3, 4, 5, 6}
  MAX_TCP_CLIENTS = 2
  Base = 2
  nb_registers = 2
  Addresses <- MCAddresses
  Values <- MCValues
CHECK_DEADLOCK FALSE
INVARIANTS
  BackendTypeOK
  NoOrphan
  PoolExact
  NothingBeforeMapping
PROPERTIES
  LoadersAgree
  NoInnocentDropped
  ReconnectGivesLiveLine
  UpdatesLikeMain
