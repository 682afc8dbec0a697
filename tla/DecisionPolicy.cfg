SPECIFICATION Spec
CONSTANTS
  CriterionIds = {c1, c2}
  ObligationIds = {o1, o2}
  MaxObligations = 2
INVARIANTS DecidesAsExpected VerifiedIsEarned TracesExact
CHECK_DEADLOCK FALSE
