SPECIFICATION GateSpec
CONSTANTS
  Threads = {t1, t2}
  ReceiptIds = {r1}
  Digests = {d1, d2}
  Unused = Unused
  NoThread = NoThread
  MaxCalls = 3
  MaxInterrupts = 1
  MaxViews = 1
INVARIANTS ChainVerifies AlterationShows ReleaseIsOnRecord PropagatedIsConsumed
PROPERTIES ImplementsReceiptUse EveryCallEnds
CHECK_DEADLOCK FALSE
