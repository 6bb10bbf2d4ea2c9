CONSTANTS
  Size = 6
  Value <- Residual
  Tolerance = 1
  MaxIterations = 4
  Holiday <- HolidayDef
  Lag <- LagDef
  Bond <- BondDef
  Notional = 4
  StartDate <- StartDateDef
  Term = 400
  Note <- NoteDef
  IndexNames <- CpiNames
  IndexLag = 3
  IndexMonth <- TurnOfYear
  IndexValue = {100, 103}
  Offered <- OfferedDef
  NoSector = "none"
  Buckets <- BucketsDef
  MaxPositions = 4

SPECIFICATION PartSpec

INVARIANTS
  NoHolidayLost
  BusinessDaysKeepOrder
  AccrualsAddUp
  ScheduleIsRegular
  AccruedFollowsCoupons
  PrincipalIsRepaid
  CallsAreCoherent
  CouponKnownAhead
  CpiHasNoJump
  TablesReconcile
  RootIsRoot
  BisectionConverges

PROPERTIES
  BondRunsOn
  RateSettles
  CpiStays

CHECK_DEADLOCK FALSE
