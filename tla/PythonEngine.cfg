SPECIFICATION Spec
CONSTANTS
  Specs = {s1, s2, s3}
  OfTask = {s1, s2}
  Registered = {s1}
  Codes = {c1, c2}
  Unwrappable = {c2}
  Baseline = base
  Proposed = {base, check, banned}
  Allowed = {check}
  MaxObligations = 1
  MaxRepairs = 2
  ErrorKinds = {"error", "blank"}
  None = None
INVARIANTS TypeOK ApprovedIsVerified OneEnding RepairIsInformed AttemptsInOrder RejectionIsEarned
CHECK_DEADLOCK FALSE
