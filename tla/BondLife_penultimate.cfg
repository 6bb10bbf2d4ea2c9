CONSTANTS
  Bond <- CutLastOfFour
  Notional = 4
SPECIFICATION LifeSpec
PROPERTY ScheduleGenerated
CHECK_DEADLOCK FALSE
