SPECIFICATION PreparedSpec
CONSTANTS
  run1 = run1
  run2 = run2
  task = task
  crit1 = crit1
  crit2 = crit2
  ob1 = ob1
  ob2 = ob2
  m1 = m1
  m2 = m2
  Threads = {t1, t2}
  Contexts <- MCContexts
  Proposals <- MCProposals
  Approved <- MCApproved
  Claims <- MCClaims
  Candidates <- RaceCandidates
  Arguments <- RaceArguments
  ReceiptIds = {r1, r2}
  Unused = Unused
  NoReceipt = NoReceipt
  NoCall = NoCall
  MaxCalls = 3
  MaxFaults = 1
  MaxRestarts = 1
INVARIANTS OneArtifactPerReceipt LossIsAccounted ReleaseIsAudited AuditInOrder
CHECK_DEADLOCK FALSE
