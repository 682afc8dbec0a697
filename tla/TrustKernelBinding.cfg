SPECIFICATION Spec
CONSTANTS
  run1 = run1
  run2 = run2
  task = task
  crit1 = crit1
  crit2 = crit2
  ob1 = ob1
  ob2 = ob2
  m1 = m1
  m2 = m2
  Threads = {t1}
  Contexts <- MCContexts
  Proposals <- MCProposals
  Approved <- MCApproved
  Claims <- MCClaims
  Candidates <- MCCandidates
  Arguments <- Mixed
  ReceiptIds = {r1, r2}
  Unused = Unused
  NoReceipt = NoReceipt
  NoCall = NoCall
  MaxCalls = 2
  MaxFaults = 0
  MaxRestarts = 0
INVARIANTS TypeOK ArtifactEarned
CHECK_DEADLOCK FALSE
