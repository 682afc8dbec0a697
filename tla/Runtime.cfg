SPECIFICATION MCSpec
CONSTANTS
  crit1 = crit1
  ob1 = ob1
  ob2 = ob2
  tool = tool
  other = other
  r1 = r1
  r2 = r2
  Runs = {r1, r2}
  Configs <- Varied
  Obligations <- AllObligations
  MaxFaults = 1
  MaxCrashes = 1
INVARIANTS BaselineAlwaysChecked DeniedVerifierStops ResultIsDurable RecordedIsSpent LossIsConfined
PROPERTIES ImplementsLedger RunEnds
CHECK_DEADLOCK FALSE
