SPECIFICATION MCSpec
CONSTANTS
  scan = scan
  verify = verify
  write = write
  Nobody = Nobody
  Scans <- TheScans
  Verifiers <- TheVerifiers
  Writers <- TheWriters
  Scripts <- SomeScripts
  Groups <- AllGroups
  Adapters = {"run_trivy", "run_gitleaks", "run_codeql", "generate_sbom"}
  Reports <- SomeReports
  Rounds = 2
INVARIANT RescanHasLooked
CHECK_DEADLOCK FALSE
