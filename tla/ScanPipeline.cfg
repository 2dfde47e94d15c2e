SPECIFICATION Spec
CONSTANTS
  Optional = {"codeql", "trivy", "syft"}
  EnableCodeql = TRUE
  Analyze = TRUE
  Discover = TRUE
  Repos <- SomeRepos
  Rules <- SomeRules
  Prints <- SomePrints
  Packages = {"p"}
  Misconfigurations = {"DS002"}
  KeyRules = {"key"}
  Outputs <- SomeOutputs
  Diffs <- SomeDiffs
  Claims <- SomeClaims
  MaxLlm = 2
  MaxBatch = 2
  MaxReviews = 2
  MaxFound = 2
INVARIANTS
  TypeOK
  NothingLost
  MergesJustified
  DiscoveriesAreNew
  EveryFindingJudged
CHECK_DEADLOCK FALSE
