SPECIFICATION FairSpec
CONSTANTS
  q1 = q1  q2 = q2  q3 = q3
  same = same  other = other
  alice = alice
  Runs = {q1, q2, q3}
  Keys = {same, other}
  KeyOf <- MCKeyOf
  AuthorityOf <- MCOneAuthority
  QueryLimit = 2
  StartLimit = 1
  RegistryLimit = 2
  Policies <- MCPolicies
CHECK_DEADLOCK FALSE
INVARIANTS
  PinnedSlotsRecoverable
  UnresolvedHoldSlots
  UnresolvedOncePerKey
  StartedOnlyIfAllowed
PROPERTIES
  ActiveEntriesSettled
