SPECIFICATION Spec
CONSTANTS
  f1 = f1  f2 = f2  app = app
  alice = alice  bob = bob
  Findings = {f1, f2}
  Files = {app}
  FileOf <- InOneFile
  Approvals = {alice, bob}
  Named = {alice, bob}
  WritesEnabled = TRUE
  FromFork = FALSE
  MayFail = TRUE
  MaxRows = 3
INVARIANTS
  ApprovedWasShown
CHECK_DEADLOCK FALSE
