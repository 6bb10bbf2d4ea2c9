CONSTANTS
  Bond <- OneTreasury
  Notional = 4
SPECIFICATION LifeSpec
INVARIANT AccruedIsDefined
CHECK_DEADLOCK FALSE
