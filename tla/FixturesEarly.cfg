SPECIFICATION Spec
CONSTANTS
  TeamCounts = {3, 4}
  Formats = {"SINGLE"}
  StartDates <- MCStartDates
  DaySets <- MCDaySets
  StartTimes <- Early
  EndTimes <- Closing
  Durations <- MCDurations
  ServerZones <- Zones
INVARIANT
  RoundsOnLaterDays
