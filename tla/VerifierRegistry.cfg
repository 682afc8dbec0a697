SPECIFICATION Spec
CONSTANTS
  o1 = o1
  o2 = o2
  Registries <- MCRegistries
  Plans <- MCPlans
  Ids <- MCIds
  Malformed = Malformed
  MaxOutput = 1
INVARIANTS EvidenceIsEarned NothingRunsUngranted
CHECK_DEADLOCK FALSE
