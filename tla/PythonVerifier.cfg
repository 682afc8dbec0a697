SPECIFICATION VerifierSpec
CONSTANTS
  v1 = v1
  v2 = v2
  o1 = o1
  o2 = o2
  Huge = Huge
  Plans <- MCPlans
  Candidates <- MCCandidates
  Values <- MCValues
  Expected <- MCExpected
  MaxWritten = 1
INVARIANTS PassIsEarned FailureIsOwn
PROPERTIES VerifyEnds
CHECK_DEADLOCK FALSE
