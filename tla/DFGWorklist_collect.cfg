SPECIFICATION FairSpec
CONSTANTS
  VMs <- MCVMs
  Keys <- MCKeys
  Plans <- MCPlans
  KeyOf <- MCKeyOf
  VMOf <- MCVMOf
  Mortal <- MCMortal
  NThreads = 2
  MaxCollections = 1
  Nobody = Nobody
  Self = Self
  NoPlan = NoPlan
INVARIANTS
  RunsApartFromCollector
  PlanInOnePlace
  CancelPath
CHECK_DEADLOCK FALSE
PROPERTIES
  PlansFinish
  WaitersReturn
