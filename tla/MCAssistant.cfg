SPECIFICATION FairSpec

CONSTANTS
  anna = anna
  boris = boris
  carol = carol
  emma = emma
  olga = olga
  cut = cut
  None = None
  Clients = {anna, boris, carol}
  Employees = {emma, olga}
  Services = {cut}
  Duration <- MCDuration
  Keys <- MCKeys
  Ids = {1}
  Horizon = 2
  Members = {anna, boris}
  Grid <- MCGrid
  TokenKey <- MCTokenKey
  Requests = {1}
  Asks <- MCAsks
  Calls <- MCCalls
  Journeys <- MCJourneys
  OwnSteps <- MCOwnSteps
  OwnKeys <- MCOwnKeys
  StaffStatuses = {"CONFIRMED", "NO_SHOW"}
  Lifetime = 1
  Nonces = {1}
  MaxEntries = 2

INVARIANTS
  Consistent
  TokenBooksOnce
  NoDoubleBooking
  CallsAreFew

PROPERTIES
  TerminalIsFinal
  OnlyTheProposed
  EveryChatAnswered

CHECK_DEADLOCK FALSE
