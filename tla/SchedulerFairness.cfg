SPECIFICATION ReleasingSpec
CONSTANTS
  i1 = i1  i2 = i2  b1 = b1  x1 = x1
  ui = ui  bg = bg
  logs = logs  cfn = cfn
  Calls = {i1, i2, b1}
  Direct = {i1, i2, b1}
  Scopes = {ui, bg}
  Services = {logs, cfn}
  ScopeOf <- MCScopeOf
  ServiceOf <- MCServiceOf
  KindOf <- MCKindOf
  Background = {bg}
  Limit <- MCLimit
  ServiceLimit = 1
  QueueLimit = 3
  CleanupQueueLimit = 1
  PriorityBurst = 2
  OperationBudget = 1
INVARIANTS
  OldestPassedOverAtMostBurst
PROPERTIES
  InteractiveServed
