SPECIFICATION FairSpec
CONSTANTS
  f1 = f1  f2 = f2  f3 = f3  x = x  app = app  req = req  lib = lib  none = none
  NoPackage = NoPackage  NoPatch = {none}
  Findings <- MixedFindings
  Extra <- CodeExtra
  Files = {app, req}
  FileOf <- MixedFileOf
  PackageOf <- MixedPackageOf
  Reported = {f1,f2,x}
  MaxAttempts = 2
  MaxTargets = 2
  MaxRuns = 2
  MaxOldRows = 1
INVARIANTS
  TypeOK
  AttemptsBounded
  ResultsFollowTargets
  OneFixPerPackage
  SavedFixesAreClean
  FixWasVerified
  RootIsBasePlusFixes
  MergedFilesAreTheVerifiedTree
  StatusAgreesWithRows
  ApprovedTreeIsTheRoot
PROPERTIES
  RootMovesOnlyByVerifiedFix
  ImplementsFixSession
  RunEnds
CHECK_DEADLOCK FALSE
