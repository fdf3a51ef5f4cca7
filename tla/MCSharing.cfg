SPECIFICATION MCSpec
CONSTANTS
  None = none
  Values = {0, 1, 2}
  Limit = 1
  MaxSets = 1
  MaxChanges = 1
  MaxLosses = 1
  MaxLoads = 2
  LinkTtl = 2
  MaxFaults = 2
INVARIANTS KeysAgree
PROPERTIES KeysSettle LinksFollow
CHECK_DEADLOCK FALSE
