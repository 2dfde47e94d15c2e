SPECIFICATION Spec
CONSTANTS
  f1 = f1  f2 = f2  f3 = f3  x = x  app = app  req = req  lib = lib  none = none
  NoPackage = NoPackage  NoPatch = {none}
  Findings <- CodeFindings
  Extra <- CodeExtra
  Files = {app, req}
  FileOf <- TwoFilesOf
  PackageOf <- CodePackageOf
  Reported = {f1, f2, x}
  MaxAttempts = 1
  MaxTargets = 2
  MaxRuns = 2
  MaxOldRows = 1
INVARIANTS
  ApprovedTreeWasVerified
CHECK_DEADLOCK FALSE
