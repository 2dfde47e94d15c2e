SPECIFICATION FairSpec
CONSTANTS
  d1 = d1  d2 = d2  d3 = d3  pr = pr  repo = repo
  Deliveries = {d1, d2, d3}
  EventOf <- AndDraft
  PrOf <- ToOnePR
  RepoOf <- OfOneRepo
  BusyPRs = {}
  KnownRepos = {}
  UseMcp = FALSE
  PostComments = TRUE
  Faults = {"scan", "github", "transport", "db", "timeout", "crash"}
  MaxJobs = 2
  MaxTries = 2
  MaxSends = 2
INVARIANTS
  TypeOK
  ResultAgreesWithRow
  ShownReportIsStored
  OneCommentUnlessCrossed
PROPERTIES
  ImplementsScanRows
  JobSettles
CHECK_DEADLOCK FALSE
