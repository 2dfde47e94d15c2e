SPECIFICATION Spec
CONSTANTS
  d1 = d1  d2 = d2  d3 = d3  pr = pr  repo = repo
  Deliveries = {d1, d2}
  EventOf <- TwoPushes
  PrOf <- ToOnePR
  RepoOf <- OfOneRepo
  BusyPRs = {}
  KnownRepos = {repo}
  UseMcp = TRUE
  PostComments = TRUE
  Faults = {}
  MaxJobs = 2
  MaxTries = 2
  MaxSends = 1
INVARIANTS
  OneCommentPerPR
CHECK_DEADLOCK FALSE
