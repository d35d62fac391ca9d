SPECIFICATION Spec
CONSTANTS
  TeamCounts = {2, 3, 4, 5, 6, 7, 8}
  Formats = {"SINGLE", "DOUBLE"}
  StartDates <- MCStartDates
  DaySets <- MCDaySets
  StartTimes <- DayTimes
  EndTimes <- Closing
  Durations <- MCDurations
  ServerZones <- Zones
INVARIANTS
  TypeOK
  EveryPairMeets
  OneMatchPerRound
  OnAllowedDays
  WithinHours
  RoundsOnLaterDays
