-------------------------------- MODULE ScanJobs --------------------------------
(***************************************************************************)
(* A webhook delivery from its arrival to the report on the pull request:  *)
(* the webhook (backend/api/webhook.py), the job queue (arq, as            *)
(* backend/services/queue.py uses it), the worker (backend/worker.py) and  *)
(* the rows it writes (backend/services/store.py).                         *)
(*                                                                         *)
(* The delivery id is the id of the job and the key of the scan row.  The  *)
(* queue accepts an id only while it knows neither the job nor its result, *)
(* and keeps a result for keep_result seconds.  A job whose worker dies is *)
(* run again, at most MaxTries times; a job that raises or times out is    *)
(* not.  Every database transaction and every GitHub request is one step,  *)
(* so the jobs that run side by side interleave between them.              *)
(***************************************************************************)
EXTENDS Integers, Sequences, FiniteSets

CONSTANTS
  Deliveries,     \* delivery ids
  EventOf,        \* the webhook event of a delivery
  PrOf, RepoOf,   \* the pull request of a delivery, the repository of that
  BusyPRs,        \* where a new comment is not among the first 100
  KnownRepos,     \* repositories that have a row from the start
  UseMcp,         \* settings.use_mcp
  PostComments,   \* settings.post_pr_comments
  Faults,         \* which of AllFaults can happen
  MaxJobs,        \* WorkerSettings.max_jobs
  MaxTries,       \* arq's max_tries
  MaxSends        \* bound: how often GitHub sends a delivery

AllFaults == {"scan", "github", "transport", "db", "timeout", "crash"}

Repos == {RepoOf[PrOf[d]] : d \in Deliveries}

ASSUME ScanJobsAssumption ==
  /\ IsFiniteSet(Deliveries)
  /\ UseMcp \in BOOLEAN /\ PostComments \in BOOLEAN
  /\ Faults \subseteq AllFaults
  /\ MaxJobs \in Nat \ {0} /\ MaxTries \in Nat \ {0} /\ MaxSends \in Nat

VARIABLES
  sent,       \* how often the delivery was sent
  job,        \* what the queue knows of it: nothing, queued, running, or its result
  tries,      \* how often the queue has started it
  pc,         \* where scan_pull_request is
  row,        \* the status of the scan row, "none" before there is one
  findings,   \* how many runs have their findings in the findings table
  repos,      \* the repositories table
  demoted,    \* history: marked failed after it was completed, and not completed since
  seen,       \* the comment that upsert_report_comment found, 0 for none
  comments,   \* the report comments of every PR: whose report each one shows
  crossed     \* history: PRs where a job looked while another was about to write

jvars == <<job, tries, pc>>
dbvars == <<row, findings, repos, demoted>>
ghvars == <<seen, comments, crossed>>
vars == <<sent, jvars, dbvars, ghvars>>

PRs == {PrOf[d] : d \in Deliveries}

Init ==
  /\ sent = [d \in Deliveries |-> 0]
  /\ job = [d \in Deliveries |-> "none"]
  /\ tries = [d \in Deliveries |-> 0]
  /\ pc = [d \in Deliveries |-> "idle"]
  /\ row = [d \in Deliveries |-> "none"]
  /\ findings = [d \in Deliveries |-> 0]
  /\ repos = KnownRepos
  /\ demoted = {}
  /\ seen = [d \in Deliveries |-> 0]
  /\ comments = [p \in PRs |-> <<>>]
  /\ crossed = {}
-----------------------------------------------------------------------------
(* The webhook and the queue.                                              *)

ScanActions == {"opened", "synchronize", "reopened", "ready_for_review"}

\* github_webhook, up to the queue; every other event is answered and forgotten.
Accepted(e) ==
  /\ e.signed
  /\ e.event = "pull_request"
  /\ e.action \in ScanActions /\ ~e.draft
  /\ e.wellFormed
  /\ e.hasId

\* enqueue: the id of the delivery is that of the job, so that the queue takes
\* it only if it knows neither the job nor its result.
NewJob(d) == job[d] = "none"

\* An accepted delivery is enqueued, unless the queue knows it ("duplicate").
Deliver(d) ==
  /\ sent[d] < MaxSends
  /\ sent' = [sent EXCEPT ![d] = @ + 1]
  /\ job' = IF Accepted(EventOf[d]) /\ NewJob(d)
              THEN [job EXCEPT ![d] = "queued"] ELSE job
  /\ UNCHANGED <<tries, pc, dbvars, ghvars>>

Running == {d \in Deliveries : job[d] = "running"}
Results == {"returned", "raised", "db error", "timed out", "max tries"}

\* Mutant of Settle: the coroutine is left where it was.
SettleLeaving(d, result) ==
  /\ job' = [job EXCEPT ![d] = result]
  /\ tries' = [tries EXCEPT ![d] = 0]
  /\ pc' = pc

\* The job is over: the queue keeps its result and forgets its tries.
Settle(d, result) ==
  /\ job' = [job EXCEPT ![d] = result]
  /\ tries' = [tries EXCEPT ![d] = 0]
  /\ pc' = [pc EXCEPT ![d] = "idle"]

Goto(d, node) == pc' = [pc EXCEPT ![d] = node] /\ UNCHANGED <<job, tries>>

\* Mutant of Take: a try is not counted.
TakeUncounted(d) ==
  /\ job[d] = "queued" /\ tries[d] < MaxTries
  /\ Cardinality(Running) < MaxJobs
  /\ job' = [job EXCEPT ![d] = "running"]
  /\ pc' = [pc EXCEPT ![d] = "start"]
  /\ UNCHANGED <<sent, tries, dbvars, ghvars>>

Take(d) ==
  /\ job[d] = "queued" /\ tries[d] < MaxTries
  /\ Cardinality(Running) < MaxJobs
  /\ job' = [job EXCEPT ![d] = "running"]
  /\ tries' = [tries EXCEPT ![d] = @ + 1]
  /\ pc' = [pc EXCEPT ![d] = "start"]
  /\ UNCHANGED <<sent, dbvars, ghvars>>

\* A job that was started too often fails without running.
GiveUp(d) ==
  /\ job[d] = "queued" /\ tries[d] = MaxTries
  /\ Cardinality(Running) < MaxJobs
  /\ Settle(d, "max tries")
  /\ UNCHANGED <<sent, dbvars, ghvars>>

\* keep_result seconds after a job ended.
ExpireResult(d) ==
  /\ job[d] \in Results
  /\ job' = [job EXCEPT ![d] = "none"]
  /\ UNCHANGED <<sent, tries, pc, dbvars, ghvars>>
-----------------------------------------------------------------------------
(* scan_pull_request.                                                      *)

\* Mutants of RestartScan: a failed scan is skipped like a completed one; the
\* findings of the earlier run stay; a completed scan is repeated.
RestartScanSkips(d) ==
  /\ pc[d] = "start" /\ row[d] # "none"
  /\ IF row[d] # "running"
       THEN Settle(d, "returned") /\ UNCHANGED <<row, findings>>
       ELSE /\ findings' = [findings EXCEPT ![d] = 0]
            /\ Goto(d, "scan") /\ UNCHANGED row
  /\ UNCHANGED <<sent, repos, demoted, ghvars>>

RestartScanKeeps(d) ==
  /\ pc[d] = "start" /\ row[d] # "none"
  /\ IF row[d] = "completed"
       THEN Settle(d, "returned") /\ UNCHANGED row
       ELSE row' = [row EXCEPT ![d] = "running"] /\ Goto(d, "scan")
  /\ UNCHANGED <<sent, findings, repos, demoted, ghvars>>

RestartScanRepeats(d) ==
  /\ pc[d] = "start" /\ row[d] # "none"
  /\ findings' = [findings EXCEPT ![d] = 0]
  /\ row' = [row EXCEPT ![d] = "running"]
  /\ Goto(d, "scan")
  /\ UNCHANGED <<sent, repos, demoted, ghvars>>

\* start_scan, when the delivery has a row: skip it or retry on it.
RestartScan(d) ==
  /\ pc[d] = "start" /\ row[d] # "none"
  /\ IF row[d] = "completed"
       THEN Settle(d, "returned") /\ UNCHANGED <<row, findings>>
       ELSE /\ findings' = [findings EXCEPT ![d] = 0]
            /\ row' = [row EXCEPT ![d] = "running"]
            /\ Goto(d, "scan")
  /\ UNCHANGED <<sent, repos, demoted, ghvars>>

\* start_scan, when the delivery has no row: look for the repository's row.
FirstScan(d) ==
  /\ pc[d] = "start" /\ row[d] = "none"
  /\ IF RepoOf[PrOf[d]] \in repos
       THEN row' = [row EXCEPT ![d] = "running"] /\ Goto(d, "scan")
       ELSE Goto(d, "newrepo") /\ UNCHANGED row
  /\ UNCHANGED <<sent, findings, repos, demoted, ghvars>>

\* Insert the repository and the scan; the unique name fails the transaction,
\* and with it the job, if another job has inserted the repository meanwhile.
FirstScanOfRepo(d) ==
  /\ pc[d] = "newrepo"
  /\ IF RepoOf[PrOf[d]] \in repos
       THEN Settle(d, "db error") /\ UNCHANGED <<row, repos>>
       ELSE /\ repos' = repos \cup {RepoOf[PrOf[d]]}
            /\ row' = [row EXCEPT ![d] = "running"]
            /\ Goto(d, "scan")
  /\ UNCHANGED <<sent, findings, demoted, ghvars>>

\* Checkout and the graph; whatever is raised there fails the scan.
Scan(d) ==
  /\ pc[d] = "scan"
  /\ \E next \in {"save"} \cup (IF "scan" \in Faults THEN {"failing"} ELSE {}) : Goto(d, next)
  /\ UNCHANGED <<sent, dbvars, ghvars>>

\* save_findings; a scan has at most one row per finding.
SaveFindings(d) ==
  /\ pc[d] = "save"
  /\ IF findings[d] = 0
       THEN findings' = [findings EXCEPT ![d] = 1] /\ Goto(d, "finish")
       ELSE Goto(d, "failing") /\ UNCHANGED findings
  /\ UNCHANGED <<sent, row, repos, demoted, ghvars>>

\* finish_scan at the end of run_scan.
FinishScan(d) ==
  /\ pc[d] = "finish"
  /\ row' = [row EXCEPT ![d] = "completed"]
  /\ demoted' = demoted \ {d}
  /\ Goto(d, IF PostComments THEN "lookup" ELSE "unposted")
  /\ UNCHANGED <<sent, findings, repos, ghvars>>

\* Another job is about to write the report comment of the same pull request.
OthersWrite(d) == \E e \in Deliveries \ {d} : pc[e] = "write" /\ PrOf[e] = PrOf[d]

Crossed(d) == crossed' = IF OthersWrite(d) THEN crossed \cup {PrOf[d]} ELSE crossed

\* Mutant of LookUp: only the comment of the same scan is found.
LookUpOwn(d) ==
  /\ pc[d] = "lookup"
  /\ LET p == PrOf[d] IN
       seen' = [seen EXCEPT ![d] = IF p \in BusyPRs \/ comments[p] = <<>> \/ comments[p][1] # d THEN 0 ELSE 1]
  /\ Crossed(d)
  /\ Goto(d, "write")
  /\ UNCHANGED <<sent, dbvars, comments>>

\* upsert_report_comment: find our comment on the first page of comments.
LookUp(d) ==
  /\ pc[d] = "lookup"
  /\ LET p == PrOf[d] IN
       seen' = [seen EXCEPT ![d] = IF p \in BusyPRs \/ comments[p] = <<>> THEN 0 ELSE 1]
  /\ Crossed(d)
  /\ Goto(d, "write")
  /\ UNCHANGED <<sent, dbvars, comments>>

\* PATCH the comment that was found, or POST a new one.
Written(d) ==
  LET p == PrOf[d] IN
    [comments EXCEPT ![p] = IF seen[d] = 0 THEN Append(@, d) ELSE [@ EXCEPT ![seen[d]] = d]]

WriteComment(d) ==
  /\ pc[d] = "write"
  /\ comments' = Written(d)
  /\ Goto(d, "posted")
  /\ UNCHANGED <<sent, dbvars, seen, crossed>>

\* Where an error of the request leads: the MCP gateway turns all of them into
\* tool errors, which the worker catches; without it only GitHub's are caught.
AfterPostError == IF UseMcp THEN "unposted" ELSE "failing"

\* The request is refused, or lost with or without its effect.
PostFails(d) ==
  /\ pc[d] \in {"lookup", "write"}
  /\ \/ "github" \in Faults /\ Goto(d, "unposted") /\ UNCHANGED comments
     \/ /\ "transport" \in Faults /\ Goto(d, AfterPostError)
        /\ comments' \in {comments} \cup (IF pc[d] = "write" THEN {Written(d)} ELSE {})
  /\ UNCHANGED <<sent, dbvars, seen, crossed>>

\* The audit event about the report, the last thing that the job does.
AuditReport(d) ==
  /\ pc[d] \in {"posted", "unposted"}
  /\ Settle(d, "returned")
  /\ UNCHANGED <<sent, dbvars, ghvars>>

\* The handler of scan_pull_request, which then raises again.
FailScan(d) ==
  /\ pc[d] = "failing"
  /\ row' = [row EXCEPT ![d] = "failed"]
  /\ demoted' = IF row[d] = "completed" THEN demoted \cup {d} ELSE demoted
  /\ Settle(d, "raised")
  /\ UNCHANGED <<sent, findings, repos, ghvars>>

\* The database is not there: before the handler's try and in the handler the
\* job just ends; a report that was posted counts as not posted with MCP.
DbFails(d) ==
  /\ "db" \in Faults
  /\ \/ pc[d] \in {"start", "newrepo", "failing"} /\ Settle(d, "db error")
     \/ pc[d] \in {"save", "finish", "unposted"} /\ Goto(d, "failing")
     \/ pc[d] = "posted" /\ Goto(d, AfterPostError)
  /\ UNCHANGED <<sent, dbvars, ghvars>>

\* job_timeout cancels the coroutine, which no handler of the worker catches.
TimeOut(d) ==
  /\ "timeout" \in Faults
  /\ job[d] = "running"
  /\ Settle(d, "timed out")
  /\ UNCHANGED <<sent, dbvars, ghvars>>

\* The worker process stops: its jobs are run again by the next one.
Crash ==
  /\ "crash" \in Faults
  /\ Running # {}
  /\ job' = [d \in Deliveries |-> IF d \in Running THEN "queued" ELSE job[d]]
  /\ pc' = [d \in Deliveries |-> "idle"]
  /\ UNCHANGED <<sent, tries, dbvars, ghvars>>

\* What the queue and the worker do for a delivery when nothing goes wrong
\* outside of them.
Work(d) ==
  \/ Take(d) \/ GiveUp(d)
  \/ RestartScan(d) \/ FirstScan(d) \/ FirstScanOfRepo(d)
  \/ Scan(d) \/ SaveFindings(d) \/ FinishScan(d)
  \/ LookUp(d) \/ WriteComment(d) \/ AuditReport(d) \/ FailScan(d)

Next ==
  \/ \E d \in Deliveries :
       Deliver(d) \/ Work(d) \/ PostFails(d) \/ DbFails(d) \/ TimeOut(d) \/ ExpireResult(d)
  \/ Crash

Spec == Init /\ [][Next]_vars

\* A queued job is polled for, and a running one goes on: every call it makes
\* has a timeout, and so has the job.
FairSpec == Spec /\ \A d \in Deliveries : WF_vars(Work(d))
-----------------------------------------------------------------------------
(* Properties.                                                             *)

Nodes == {"start", "newrepo", "scan", "save", "finish", "lookup", "write", "posted",
          "unposted", "failing"}

\* Every variable has its type, and exactly the running jobs are somewhere.
TypeOK ==
  /\ sent \in [Deliveries -> 0..MaxSends]
  /\ job \in [Deliveries -> {"none", "queued", "running"} \cup Results]
  /\ tries \in [Deliveries -> 0..MaxTries]
  /\ pc \in [Deliveries -> {"idle"} \cup Nodes]
  /\ \A d \in Deliveries : pc[d] = "idle" <=> job[d] # "running"
  /\ row \in [Deliveries -> {"none", "running", "completed", "failed"}]
  /\ findings \in [Deliveries -> {0, 1}]
  /\ repos \subseteq KnownRepos \cup Repos
  /\ demoted \subseteq Deliveries /\ crossed \subseteq PRs
  /\ seen \in [Deliveries -> {0, 1}]
  /\ comments \in [PRs -> Seq(Deliveries)]

\* What the queue keeps of a job agrees with its scan row, whatever the job met
\* and however often it was sent: a job that returned has a completed scan, and
\* one that raised the error of its scan has a failed one.
ResultAgreesWithRow ==
  \A d \in Deliveries :
    /\ job[d] = "returned" => row[d] = "completed"
    /\ job[d] = "raised" => row[d] = "failed"

\* Whatever report a pull request shows is that of a completed scan, so that
\* the dashboard has its findings: no retry, timeout, crash, lost answer or other
\* job leaves the report of a scan that has been started again.  The exception
\* is a scan that its own job marked failed after it was completed (FailScan, as
\* AfterPostError leads to it), until a retry completes it.
ShownReportIsStored ==
  \A p \in PRs : \A i \in DOMAIN comments[p] :
    LET d == comments[p][i] IN
      d \in demoted \/ (row[d] = "completed" /\ findings[d] = 1)

\* github.py, upsert_report_comment: "Create or update our single report comment
\* so re-scans don't spam the PR".
OneCommentPerPR == \A p \in PRs : Len(comments[p]) <= 1

\* What holds of the comments instead: a pull request gets a second one only where
\* two jobs crossed, the one looking for a comment while the other was about to
\* write it, or where ours is not on the first page.  No retry, redelivery, crash
\* or lost answer makes a second one.
OneCommentUnlessCrossed ==
  \A p \in PRs : Len(comments[p]) > 1 => p \in crossed \cup BusyPRs

\* A queued job is over some day, although its worker may die again and again.
JobSettles == \A d \in Deliveries : job[d] = "queued" ~> job[d] \in Results

\* A completed row is marked failed only when its report cannot be dealt with:
\* the database is gone, or the connection to GitHub without the MCP gateway.
MayDemote == "db" \in Faults \/ ("transport" \in Faults /\ ~UseMcp)

\* The job of a completed scan still has its report to deal with.
Reporting(d) ==
  row[d] = "completed" /\ pc[d] \in {"lookup", "write", "posted", "unposted", "failing"}

Promise == INSTANCE ScanRows WITH reporting <- {d \in Deliveries : Reporting(d)}

\* Every delivery's row keeps the promise of start_scan, however the webhook, the
\* queue and the jobs interleave: never repeated once completed, retried from
\* scratch before that, completed only with the findings of that very run, and
\* marked failed after that only by the job that is still posting its report.
ImplementsScanRows == Promise!Spec
=============================================================================
