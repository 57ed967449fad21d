SPECIFICATION FairSpec
CONSTANTS
  k1 = k1
  k2 = k2
  v1 = v1
  v2 = v2
  Null = Null
  Unchanged = Unchanged
  Keys = {k1, k2}
  Values = {v1}
  MaximumItemsToUpdate = 1
  IOErrors = TRUE
  MaxChanges = 4
  MaxCrashes = 1
PROPERTIES
  CollectedGetsWritten
  LostOnlyByFailure
