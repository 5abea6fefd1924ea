SPECIFICATION FairSpec
CONSTANTS
  anna = anna boris = boris emma = emma root = root cut = cut dye = dye k1 = k1 k2 = k2
  Clients = {anna, boris}
  Employees = {emma}
  Admins = {}
  Services = {cut}
  Keys = {k1, k2}
  Ids = {a1, a2}
  Entries = {w1}
  Requests = {r1, r2}
  Horizon = 2
  MaxMoves = 1
  None = None
  Duration <- MCDuration
  Grid <- MCGrid
  Inputs <- MoveInputs
  Wishes <- WaitWishes
INVARIANTS TrailExplainsRow
PROPERTIES TerminalIsFinal ImplementsLedger EveryRequestAnswered
