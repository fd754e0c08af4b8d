SPECIFICATION UploadSpec
CONSTANTS
  k1 = k1
  k2 = k2
  k3 = k3
  r1 = r1
  r2 = r2
  r3 = r3
  Keys = {k1, k2, k3}
  Oversized = {k3}
  Requests = {r1, r2, r3}
  Kinds = {"url", "complete", "delete", "cleanup"}
  MaxFaults = 1
  MaxCrashes = 1
INVARIANTS NoOversizedJob OneJob ProcessingHasJob JobHasSource
PROPERTIES CleanupSparesActive
SYMMETRY RequestSymmetry
CHECK_DEADLOCK FALSE
