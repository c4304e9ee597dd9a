SPECIFICATION Spec
CONSTANTS
  Base = 2
  holding_regs_start = 1
  nb_holding_regs = 3
  Addresses <- MCAddresses
  Values <- MCValues
PROPERTIES
  StaysInBounds
