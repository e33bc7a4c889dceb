SPECIFICATION FairSpec
CONSTANTS
  i1 = i1  i2 = i2  b1 = b1  x1 = x1  c1 = c1  c2 = c2
  ui = ui  bg = bg  cl = cl
  logs = logs  cfn = cfn  sts = sts
  Calls = {i1, c1, c2}
  Direct = {c2}
  Scopes = {ui, bg, cl}
  Services = {logs}
  ScopeOf <- MCScopeOf
  ServiceOf <- MCOneService
  KindOf <- MCKindOf
  Background = {bg}
  Limit <- MCLimit
  ServiceLimit = 1
  QueueLimit = 2
  CleanupQueueLimit = 1
  PriorityBurst = 1
  OperationBudget = 2
PROPERTIES
  CleanupServed
