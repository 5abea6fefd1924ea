SPECIFICATION Spec
CONSTANTS
  Requests = {r1, r2}
  MaxRows = 2
  Duration = 2
  Step = 2
  None = None
  Local <- MCLocal
  Utc <- MCUtc
  Day <- MCDay
  Midnights = {TRUE, FALSE}
  Inputs <- DayOffInputs
INVARIANTS DayOffStandsAlone
