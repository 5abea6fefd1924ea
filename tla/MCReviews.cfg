SPECIFICATION Spec

CONSTANTS
  anna = anna
  boris = boris
  emma = emma
  root = root
  alien = alien
  v1 = v1
  v2 = v2
  u1 = u1
  u2 = u2
  None = None
  Clients = {anna, boris}
  Employees = {emma}
  Admins = {root, alien}
  Members <- MCMembers
  Appts = {v1, v2}
  ClientOf <- MCClientOf
  EmployeeOf <- MCEmployeeOf
  Fields <- MCFields
  Values = {1, 2}
  Overall = "rating"
  Texts = {"ok", "no"}
  Window = 0
  Horizon = 1
  MaxAudit = 3
  Requests = {u1, u2}
  Inputs <- MCInputs

SYMMETRY Swap

INVARIANTS
  Consistent
  AuditAgrees

PROPERTIES
  EveryChangeIsAudited
  OnlyModerationUnhides
  AnswersShowThePublished

CHECK_DEADLOCK FALSE
