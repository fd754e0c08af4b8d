SPECIFICATION QueueSpec
CONSTANTS
  v1 = v1
  k1 = k1
  k2 = k2
  c1 = c1
  c2 = c2
  Movies = {v1}
  Keys = {k1, k2}
  Jobs <- MCJobs
  Malformed <- MCMalformed
  ClaimIds = {c1, c2}
  MaxRetry = 1
INVARIANTS OnePlace NothingLost BudgetExact
PROPERTIES StaleOwnerHarmless LedgerImplemented
SYMMETRY ClaimSymmetry
CHECK_DEADLOCK FALSE
