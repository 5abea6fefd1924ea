SPECIFICATION FairSpec
CONSTANTS
  anna = anna boris = boris emma = emma fay = fay cut = cut dye = dye k1 = k1 k2 = k2
  Clients = {anna, boris}
  Employees = {emma, fay}
  Services = {cut, dye}
  Keys <- MCKeys
  Ids = {}
  Requests = {r1, r2}
  Horizon = 3
  None = None
  StepKey <- MCStepKey
  Duration <- MCDuration
  Grid <- MCGrid
  Inputs <- RaceInputs
INVARIANTS Consistent NoDoubleBooking JourneyIsWhole UnmovedStepsFollow OnlyRivalsDeadlock
PROPERTIES RetryIsReplayed EveryRequestAnswered
