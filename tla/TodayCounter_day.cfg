\* Starts at every hour of the day, two midnights and more.
SPECIFICATION Spec
CONSTANTS
  Day = 86400
  TZDIFF = 28800
  Starts <- AllHours
  Steps <- HalfADay
  Horizon <- ThreeDays
  MaxSend = 3
INVARIANT CountsToday
