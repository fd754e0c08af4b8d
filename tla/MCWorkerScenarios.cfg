SPECIFICATION WorkerSpec
CONSTANTS
  v1 = v1
  k1 = k1
  k2 = k2
  p1 = p1
  p2 = p2
  c1 = c1
  c2 = c2
  c3 = c3
  c4 = c4
  None = None
  Movies = {v1}
  Keys = {k1, k2}
  Jobs <- BothJobs
  Malformed = {}
  ClaimIds = {c1, c2, c3}
  MaxRetry = 1
  Processes = {p1, p2}
  Reapers = {p2}
  CommitAttempts = 2
  Scenarios <- ThreeScenarios
INVARIANTS UnharmedByShutdown StillRunning DeletedLeavesNothing
PROPERTIES CommittedNeverFails
SYMMETRY ClaimSymmetry
CHECK_DEADLOCK FALSE
