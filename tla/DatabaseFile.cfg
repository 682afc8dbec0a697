SPECIFICATION FileSpec
CONSTANTS
  t1 = t1
  t2 = t2
  p1 = p1
  run1 = run1
  s1 = s1
  l1 = l1
  l2 = l2
  c1 = c1
  c2 = c2
  p2 = p2
  Threads <- MCThreads
  Processes <- MCProcesses
  ProcessOf <- MCProcessOf
  ReceiptIds = {r1}
  Digests = {d1}
  Unused = Unused
  NoThread = NoThread
  Runs = {run1}
  Subjects = {s1}
  Labels = {l1, l2}
  Payloads = {c1, c2}
  Items <- MCItems
  MaxCalls = 2
  MaxSaves = 3
  MaxReads = 1
  MaxFaults = 1
INVARIANTS SingleUse SavedIsDurable ReadsAgree
PROPERTIES ImplementsReceiptUse LockReleases
CHECK_DEADLOCK FALSE
