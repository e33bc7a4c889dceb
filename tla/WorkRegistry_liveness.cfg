SPECIFICATION FairSpec
CONSTANTS
  r1 = r1  r2 = r2  r3 = r3
  a = a  b = b
  shared = shared  other = other
  None = None
  Requests = {r1, r2}
  Ids = {a, b}
  IdOf <- MCIdOf
  Keys = {shared}
  KeyOf <- MCKeyOf
  Capacity = 2
  JobCapacity = 1
  Tombstones = 1
CHECK_DEADLOCK FALSE
PROPERTIES
  EveryRequestEnds
  KeyComesFree
