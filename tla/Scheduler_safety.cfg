SPECIFICATION Spec
CONSTANTS
  i1 = i1  i2 = i2  b1 = b1  x1 = x1  c1 = c1  c2 = c2
  ui = ui  bg = bg  cl = cl
  logs = logs  cfn = cfn  sts = sts
  Calls = {i1, i2, b1, x1}
  Direct = {x1}
  Scopes = {ui, bg}
  Services = {logs, cfn, sts}
  ScopeOf <- MCScopeOf
  ServiceOf <- MCServiceOf
  KindOf <- MCKindOf
  Background = {bg}
  Limit <- MCLimit
  ServiceLimit = 1
  QueueLimit = 2
  CleanupQueueLimit = 1
  PriorityBurst = 1
  OperationBudget = 2
INVARIANTS
  CountersMatchPermits
  NoLostWakeup
  BurstBounded
PROPERTIES
  FirstComeFirstServed
  ImplementsBudget
