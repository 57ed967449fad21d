SPECIFICATION FairSpec
CONSTANTS
  c1 = c1
  c2 = c2
  w1 = w1
  small = small
  large = large
  Free = Free
  Callers = {c1, c2}
  Workers = {w1}
  Pages = {small, large}
  Kind <- OneOfTwoKinds
INVARIANTS
  OneScavenger
  DecommitsApart
PROPERTIES
  FreePagesScavenged
  RunsAfterRequest
