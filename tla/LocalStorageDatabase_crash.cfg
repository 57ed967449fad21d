SPECIFICATION Spec
CONSTANTS
  k1 = k1
  k2 = k2
  v1 = v1
  v2 = v2
  Null = Null
  Unchanged = Unchanged
  Keys = {k1, k2}
  Values = {v1, v2}
  MaximumItemsToUpdate = 2
  IOErrors = FALSE
  MaxChanges = 5
  MaxCrashes = 2
INVARIANTS
  NothingLost
PROPERTIES
  Durable
