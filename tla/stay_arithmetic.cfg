\* Two stays within four days, zones up to a whole day on either side of UTC.
SPECIFICATION Spec
CONSTANTS
  DayLen = 3
  LastDay = 3
  Zones <- AllZones
INVARIANTS
  OverlapMeansSharedNight
  NightsAreCounted
  CancellableBeforeCheckInDay
  PastFromNextMidnight
CHECK_DEADLOCK FALSE
