# Verification of the Agentic Code Security Reviewer

TLA+ specifications of the reviewer, the TLC configurations that check them on
small instances, and theorems about them that TLAPS proves for every value of
the constants. Everything is written from the source in `backend/`,
`mcp_server/` and `frontend/`; source lines are in `PROJECT.json` under `map`.

    tlc -config RemediationLoop.cfg MCRemediationLoop          # a run
    tlapm RemediationLoop_proofs.tla                           # a proof module

## 1. The system

A pull request event arrives at the webhook, which queues a scan under GitHub's
delivery id. A worker takes the job, creates or reuses the scan's row, checks the
pull request out and runs a LangGraph graph: plan, scan, correlate, analyze,
discover, report and, with the MCP gateway, the remediation subgraph, which asks
an LLM for patches and verifies them with tools. The result is saved, the row is
completed and the report is posted as a comment. A human may then approve the
verified fixes on the dashboard, and the approval endpoint turns them into a
branch, commits and a pull request.

| Part | State | Operations | Talks to | Hard behaviour | Correct if |
|---|---|---|---|---|---|
| Webhook (`api/webhook.py`) | none | accept or refuse an event | queue | repeated deliveries | only signed, well-formed, wanted events become jobs |
| Queue (`services/queue.py`, arq) | jobs, tries, kept results | enqueue, take, retry, give up, forget | webhook, worker | a worker dies, a delivery comes again | every queued job is over some day; a completed scan is not repeated |
| Worker (`worker.py`) | a coroutine per job, two at a time | scan, post, fail | store, graph, GitHub | interleaving of jobs, timeouts, lost answers | what the queue, the row and the comment say agrees |
| Store (`services/store.py`, `models/db.py`) | scans, findings, remediations, audit trail, repositories | one transaction per function | database | conflicts, retries on the same row | findings are those of one run, rows tell what happened |
| Checkout (`services/workspace.py`) | a directory, changed lines | clone, diff, tag | git | hunks without new lines, renames | a finding is new if it is on a changed line |
| Scan graph (`graph/workflow.py`) | channels, checkpointed under the scan id | one node after another | scanners, LLM | scanners side by side, stale channels when run again | a failing scanner degrades the scan only |
| Analyst, discovery (`services/analyst.py`, `discovery.py`) | what has been judged and found so far | judge, review | LLM client, correlator | batches that fail, answers that leave something out | every finding has a verdict; what is added is news |
| Remediation subgraph (`graph/remediation.py`) | targets, attempt, current patch, cumulative root, results | propose, verify, record, finish | patch agent, verifier, store | retries, stale channels, a crash inside a node | each target settled once, in order, within its attempts; the root is the saved fixes |
| Verifier (`services/verification.py`) | baseline, copies | build, lint, tests, rescan | MCP tools | baseline against a moving root | a fix passes only if its issue is gone and nothing new came |
| Patch agent (`services/remediation.py`) | none | propose, guardrails, version bump | LLM, files | several edits of one file | a patch touches only the finding's file |
| LLM client (`services/llm.py`) | token window, usage, cache | reserve, settle, retry | provider | calls that overlap, expired reservations | limit and budget are kept up to a known overshoot |
| Correlator (`services/correlator.py`) | none | merge findings | graph, verifier | order, repeated application | one finding per issue, none lost |
| MCP gateway (`mcp_server/`, `services/mcp_client.py`) | workspaces, audit records | governed tool calls | sandbox, GitHub, scanners | audit after the effect, cut outputs | only enabled groups act, every call is audited |
| Sandbox (`services/sandbox.py`) | containers | run, kill | Docker | timeout, cancellation | no container outlives its call |
| GitHub client (`services/github.py`) | none | comment, branch, commit, pull request | GitHub | check then act, lost answers | one comment; no write without approval |
| Approval endpoint and PR agent (`api/dashboard.py`, `services/pr_agent.py`) | rows' status, audit trail, branch | approve | store, gateway | two humans, partial failure, rows that change | one pull request per approval, with what was verified and approved |
| Dashboard (`frontend/`) | the rows it loaded | show, approve | API | stale page | shows what an approval does |

Also in the repository: planner, scanner adapters and report (partly modelled, with the
parts that use them), redaction, telemetry, read API, benchmark harness, migrations. `PROJECT.json` lists every
component with its status, and under `hazards` the lines where tests hardly
reach.

## 2. Modules and plan

Written:

1. `RemediationLoop` (abstract specification `FixSession`, instances
   `MCRemediationLoop`, proofs `RemediationLoop_proofs` and `RemediationRows_proofs`): what makes the tool worth
   trusting is that a fix it calls verified was verified.
2. `ScanJobs` (abstract specification `ScanRows`, instances `MCScanJobs`, proofs
   `ScanJobs_proofs`): webhook, queue, worker, rows and report.
3. `FixApproval` (abstract specification `FixGate`, instances `MCFixApproval`,
   proofs `FixApproval_proofs`): from verified rows to a pull request.
4. `LlmClient` (instances `MCLlmClient`, proofs `LlmClient_proofs`): token window,
   retries, cache and budget.
5. `ScanPipeline` (instances `MCScanPipeline`, proofs `ScanPipeline_proofs`): the scan graph from the checkout to the
   report, with the correlator, the analyst and the discovery.
6. `ToolCalls` (instances `MCToolCalls`, proofs `ToolCalls_proofs` and `Evidence_proofs`): tool calls
   through the MCP gateway, containers and their time limits.

The modules meet in three places. What `ScanPipeline` does is the step `Scan` of
`ScanJobs`, which may fail, and its new findings are the `Findings` of
`RemediationLoop`. `RemediationLoop!Passed` takes for granted that build, linter, tests and
rescan answer what they found: what holds of that is `ToolCalls!PassedOnEvidence`, and what
does not is the violation `ToolCallsUnreported`.

Left, in this order:

7. `Verifier`: findings with lines and functions, `same_issue` with its window of
   lines; a refinement of `RemediationLoop!Passed`.
8. `ReviewSystem`: composes `ScanJobs`, `RemediationLoop` (as `FixSession`) and
   `FixApproval` over one set of rows, with approvals while a scan is retried.
9. `PatchGuards` and `BenchMatching`: algorithms over bounded inputs (the edits of one
   proposal applied to lines; the matching of findings in the benchmark).

A later module that needs a run takes the place of one whose question it covers
(`ReviewSystem` would ask that of `RemediationApprovalMix`).

## 3. How the models correspond to the code

### RemediationLoop

One action per node of the subgraph; a conditional edge is the `Route...`
operator that gives the next `pc`. The channels of `ScanState` that the nodes
read are variables of the same names (`rem_history` is only the count of entries
that the recorder counts; `rem_idx` is one more than in the code).

- *Data.* A tree is, for every file, the set of issues still in it. A patch is
  the new content of the finding's file: `validate_patch` lets no other file
  through. What the LLM proposes is arbitrary within that (`Edits`). A dependency
  is bumped without the LLM: the issues of the other packages stay (`Bumps`).
- *Verification.* `Passed` is the conjunction of the checks of `Verifier.verify`.
  Build, linter, tests and scanners give any answer. `Reported` are the issues that the
  scanners see: findings of the discovery are outside of it.
- *Selection.* The analyst's verdicts and priorities come from the LLM, so any
  sequence of eligible findings with one target per package is a selection.
- *Trees that were verified.* `VerifiedTrees` are those a verification of the scan has passed
  in, of whatever run: the base with the verified rows of one run up to some row.
  `ApprovedTree` is what `commit_file` makes of the offered rows.
- *Failures.* `Crash` at any node before its result is checkpointed (exception,
  timeout, death of the worker), `CrashAfterSave` between a node's row and its
  checkpoint. `Restart` is the next run of the job: `start_scan` keeps the remediation
  rows, LangGraph starts at the entry node with the channels of the last
  checkpoint, and only the findings are written again before `rem_init`. `MaxRuns` and
  `MaxOldRows`, the number of rows that a retry may find, are bounds.

### ScanJobs

`pc[d]` is where `scan_pull_request` is for delivery `d`; every database
transaction and GitHub request is one step, so two jobs interleave between them.
`start_scan` is one step when the delivery has a row or the repository is known,
and two (`FirstScan`, `FirstScanOfRepo`) when the repository's row is inserted:
the look-up and the insert of two transactions can overlap. `Scan` is checkout and
graph, which may raise. `upsert_report_comment` is `LookUp` and `WriteComment`.

- *Faults* are a constant: `scan` (checkout or graph raise), `github` (a refused
  request), `transport` (a lost request or answer), `db`, `timeout`
  (`job_timeout` cancels the coroutine; `CancelledError` is not caught), `crash`
  (the process dies; arq runs its jobs again, at most `MaxTries` times). A job that raised is not
  retried: arq retries only what raised `Retry` or was cancelled by a shutdown.
- The queue knows a job id while the job is queued or running or its result is
  kept; `ExpireResult` is the end of `keep_result`.
- *The comment* is on the first page of comments unless the pull request is in
  `BusyPRs`.
- *Histories.* `demoted` are the scans that the handler of `scan_pull_request` has marked failed
  after they were completed; `Reporting(d)` says when that may happen, and is what `ScanRows`
  lets a completed row be marked failed for. `crossed` are the pull requests where a job looked
  for the comment while another was about to write it. The code keeps neither; they
  say in which cases a promise is broken, and that it holds in all others.

### FixApproval

`rows` is the remediations table of one scan, by id, to which the worker may still add
(`SaveRow`): the endpoint does not look at the status of the scan. A verified
row's content is its id. `View` is the loaded page, with the rows it counts as awaiting approval
in the history `shown`. `Ask` is the request, from that page or from a client
that has loaded none: the endpoint's checks and its query. The request names no rows, so that
nothing in the code relates `shown` to what `Ask` picks (`FixApprovalUnseen`).
`FixGate` speaks of what the endpoint picked.

`Grant` is the audit event before the first write, followed by one step per
request to GitHub and `Mark`. Each request may fail before its effect (`Fail`) or
after it (`Goto` to `failed`, an answer that is lost). `Merge` and `DeleteBranch`
are people at GitHub; a branch is not deleted while an approval writes to it,
which is an assumption about people (`DeleteBranch`, guard `Writing = {}`).
`commit_file` overwrites whole files, so that a branch is the last row committed
for every file.

### LlmClient

A client is an `LLMClient` object: its calls follow one another, as the agents await
each answer, and its `pc` is the place in `complete_json` and `_chat` at which it waits.
`events` is the deque of a limiter, with the age of an entry in ticks (`Window` of them
are the 60 seconds) where the code has a time; `queue` is the lock of `reserve` with
those who wait for it. `LimiterOf` is a constant: each job has one client and a limiter of its own
(`worker.py:55`), the benchmark gives one limiter to all of its clients.

- *Answers.* A request may be refused or unreachable (sleep and retry), fail in JSON mode
  (retry without it), be refused for good, be unreadable, or be answered with any bill
  up to `MaxBill` and any content, at any time, later than the window too.
- *Waiting.* `Reserve` is one pass of the loop: it drops what has expired, and reserves
  if the estimate fits. The sleep in between is that the step is not taken.
- *Cache.* An entry may have expired, hold a reply that no longer validates, and the
  cache may fail, which nobody catches.
- *Sums.* The tokens of a window are counted as the units at its entries (`Units`, `Total`).
- `over` is the part of a bill that was not reserved. The code does not keep it;
  it is what `WindowWithinLimit` leaves out, as no limiter can know it in advance.

### ScanPipeline

One action per node of the graph, or several where it awaits: every scanner (`Scanned`),
every request of the analysis (`AskBatch`) and of the discovery (`Review`, then
`Claimed` for each finding of the answer that is taken).

- *Data.* Files, severities and families of CWEs are numbers since the code sorts by
  them; a family stands for its CWEs, and the rules whose CWE is one of a secret's family
  but not the one that the analyst tests for are a constant (`KeyRules`), as are those
  of misconfigurations by their prefix. A fingerprint stands for what it hashes. A repository is
  its names and the languages of its suffixes, from which `Languages` and the plan follow.
- *Diffs* are sets of hunks with their status; `Described` is what `git diff -U0
  --diff-filter` and `parse_changed_lines` make of them.
- *The correlator* is written out: both passes, the stable sorts and each field that
  `_merge` changes but `owasp`, which is treated like `cwe`, and the text of the evidence.
  Sorting and grouping are stated without recursion, so that they can be proved about: the
  k-th of a stable sort is the element with k - 1 before it (`Enumerated`, `Stably`), a
  group of the second pass lies between one start and the next (`Starts`, `GroupFrom`).
- *Ids.* `IdOf` is what the scanners' ids are hashed from. Nothing in the code keeps two
  findings with one id apart, and the analysis is a dictionary by id: with two versions of
  a package and one CVE in a lockfile it keeps one of them. `NothingLost` is stated for
  scans in which ids are apart (`IdsApart`), the other properties for all.
- *One issue.* Two findings are one issue (`OneIssue`) with one fingerprint, or with one weakness in
  one file if findings of it reach every line between the two, give or take three. That
  is what `NothingLost` and `MergesJustified` compare by, so that a finding further down stands in
  for none. A merged finding need not begin where a finding in it does: `_merge` keeps the line
  of the primary, and what is above it is in no finding. The property says so, and asks
  for the end only.
- *Answers* of the scanners are any of `Outputs` with or without an error, those of the LLM
  arbitrary: any verdict or none for each finding, citing a shown line or not; any of `Claims`.
- *Failures.* git, a scanner, a request, the budget; `RecordFails` is an audit write
  of the scan node that raises, which leaves the other scanners running.

### ToolCalls

A client is whoever calls tools, one at a time: a scanner of the scan node, a run of
`Verifier.verify`, an approval or the posting of a report. `at` and `todo` are its own
state, `stage` is where its call is on the server's side.

- *Containers.* `docker run` is started (`box` is `coming`), Docker creates the container
  and its program ends on its own or never (`Created`, `Ended`), independently of
  `run_sandboxed`, which waits, gives up at its time limit, kills and waits once more.
- *Output* is all of the report, a part or nothing; a report is how many findings it
  has and how long they are, from which `compact` and the cap of `tool_json` follow.
- *Time limits.* `OuterTimeout` is the scan node's, half a minute longer than the sandbox's: it
  comes first only if the call has spent time outside (`late`): in the queue for the trivy
  database, in an earlier language of codeql, or after its kill. `JobTimeout` is
  arq's or a shutdown, anywhere. Both cancel the call where it waits.
- *Audit.* The record is appended, then stored by the sink, which may raise and turn
  any answer into an error.
- `seen` keeps what became of each check of a verification (`Truth`), whatever its answer was
  (`AnswerOf`): an exec tool that ends with exit code 0 while it is being stopped is `late`,
  though its answer is that of one in time; an issue in a row that `compact` drops is `issue dropped`,
  though its answer is that of a clean scan.

## 4. Runs

Passing runs (states on one machine; each within three minutes):

| Run | Instance and bounds | States | Shows |
|---|---|---|---|
| `RemediationLoop` | two advisories of a package and a secret in one manifest, one extra issue; 2 attempts, 2 targets, 2 runs, the second of which finds at most 1 row, fairness | 782,987 | attempts bounded, one result per target in order, one bump per package, saved fixes clean; nothing stale in the second run; root, merged files and statuses agree with its rows; what one run offers is the verified tree; implements `FixSession`; every run ends |
| `ScanJobs` | three deliveries for one pull request (one while it was a draft), no MCP, every fault, 2 jobs, 2 tries, 2 sends, fairness | 346,431 | implements `ScanRows`; results agree with rows; a report shown is stored, or its scan was marked failed over it; a second comment needs two jobs that cross; jobs settle |
| `FixApproval` | two findings in one file, two named approvers, 3 rows, everything may fail | 2,112,644 | implements `FixGate`; opened rows are in a pull request; open pull requests are frozen |
| `LlmClient` | 2 clients, 1 limiter, 1 prompt with an outdated reply in the cache; first turn estimated at 1, second at 4, limit 3, bills up to 2, budget 1, 2 attempts, window of 1 tick, 1 call each, fairness | 625,633 | window kept up to what a bill exceeds, budget up to one answer; reservations are those of requests; calls end |
| `ScanPipeline` | 5 scanners, two versions of a package with one id, 3 repositories, 3 pull requests, 7 claims of the LLM; 2 findings for the LLM, 2 in a request, 2 reviews, 2 discoveries | 771,679 | nothing lost while ids are apart, merges have a reason, discoveries repeat neither scanners nor themselves, every finding judged |
| `ToolCalls` | one scanner, one verification with three scripts, one writer; scripts that meet at the trivy database; 3 sizes of reports, 2 languages for codeql, fairness | 330,607 | nothing left behind, what passes has the evidence that answers can give, writes are audited, overdue containers are killed, scans end |

Why the bounds are enough: two targets in one file are the smallest case in which
fixes accumulate, collide and undo one another; with two attempts (the code has three) a
proposal can be rejected, fail, and be tried again for the last time, and the proof is for any number;
two runs are the smallest case of stale channels, and a third run starts from the same
kind of state as the second; the one row that the second finds is a verified or a failed one. Two deliveries of one pull request and two jobs
are the code's `max_jobs`; two tries and two sends give a retry and a redelivery.
Three rows give a finding with an older and a newer row next to another finding.
Two clients are the smallest number that wait for one window, and an estimate above the
limit, a bill above the estimate and an answer after the window all occur. The
findings of `MCScanPipeline` give each branch of both merging passes: a fingerprint in
two places, neighbours within and beyond three lines, neighbouring secrets, a chain
that joins only through the last of its group. In `MCToolCalls` two calls want the
trivy database at once, which is all that calls share but the process; a verification with gitleaks
runs by itself. The proofs lift what they cover from these bounds.

Runs that find a violation, each of one statement of the repository
(`PROJECT.json`, `findings`, quotes it):

| Run | Statement | What happens |
|---|---|---|
| `RemediationApprovalMix` | fixes are verified against the code as it will be merged | a verified row of an interrupted run is offered with one that its retry verified for another file: the tree with both is one that no verification, of either run, has passed in |
| `ScanJobsComments` | a single report comment | two jobs look before either has written |
| `FixApprovalUnseen` | the fixes of the pull request were approved by a human | the worker saves a row after the page was loaded, and the approval commits it instead of the one shown |
| `LlmClientBudget` | the token budget is a hard cap per scan | the budget is compared before a request and charged after it: a second turn goes over |
| `ScanPipelineScope` | what the report calls pre-existing is not of this pull request | a finding on a changed line is merged into one above it and takes over its scope |
| `ToolCallsUnreported` | the rescan of a verified fix no longer reports the issue | trivy finds it, `compact` drops its row, and the adapter does not compare the rows with their count |

In longer behaviours `RescanHasLooked` fails in a second way: gitleaks that fails without output
counts as a clean run. `PassedOnEvidence` names both exceptions, and so says that the scanners have no third.

Other behaviour that the models reach, and that no document of the repository
speaks against, is under `hazards` with a note: a patch that brings back what an earlier one has
fixed, a redelivery that the queue takes for a duplicate, a completed scan whose
report is not posted after a crash, an analysis that two findings with one id share.

`CHECK_DEADLOCK FALSE` throughout: scans, jobs and approvals end.

Every property of a passing run has a mutant of a mapped definition that violates
it; the mutated operators stand before the definitions they mutate and are
marked as mutants.

## 5. Fairness

- `RemediationLoop!FairSpec`: weak fairness of `Step`, the next node of a run.
  LangGraph runs the next node as soon as one returns, and every node returns:
  LLM requests, sandboxes and scanners have timeouts and bounded retries. Crashes
  are not fair, restarts neither.
- `ScanJobs!FairSpec`: weak fairness of `Work(d)`, what the queue and the worker do for
  a delivery: arq polls for queued jobs, and a running job is cancelled at
  `job_timeout` if it does not go on by itself. Deliveries, faults, crashes and the
  expiry of results are not fair.
- `LlmClient!FairSpec`: weak fairness of `Tick` (time passes) and of `Advance(c)`: requests
  end at the timeout of httpx, sleeps are bounded, and the lock of a limiter is
  first come, first served. A client need not make another call.
- `ToolCalls!FairSpec`: weak fairness of `Step(p)`: the event loop goes on and timers fire. Docker and
  the containers are not fair (`Created`, `Ended`), and neither is cancellation.
- `FixApproval` has no liveness property: a human may never approve. Neither has
  `ScanPipeline`: its loops are over lists that get shorter.

## 6. What is proved

The proofs use the named assumptions on the constants (`ConstantsAssumption`,
`ScanJobsAssumption`, `FixApprovalAssumption`, `LlmClientAssumption`,
`ToolCallsAssumption`, and of `ScanPipeline` those of its scanners' `Outputs`, of the LLM's
`Claims`, of `Prints` and of sizes), which TLC evaluates in every run;
one theorem about `RemediationLoop`, two about `ScanJobs` and one about `ToolCalls` assume
more in their statements, as said below. Within
these the theorems hold for all findings, files, deliveries, approvals, clients, tools and bounds.

**`RemediationLoop_proofs`.** No property is inductive as it stands, and each gets the
strengthening it needs:

- `TypeCorrect` carries `LatestExists`, as `rem_finish` reads the latest verified
  result of each file. `TargetsSettledInOrder` (the results follow the targets) is
  inductive given the types.
- `SavedFixesClean` needs `PatchInFile`: what waits for verification is a content of
  the target's file.
- `RecordedFixWasVerified` needs the types only: at `record_ok` the newest row, the
  root and the current patch are the same verification, and `rem_verified` is true only
  there or after an interruption.
- `RootIsTheSavedFixes` (the root is the base with this run's rows applied) needs
  `RunRows`: a run has no rows before `rem_init`.
- `MergedFilesVerified` needs `RootFromResults`: the results of a run tell the same
  fixes as its tree.
- `RootMovesByVerifiedFix` is an action property. `LoopImplementsSession` maps every
  step to a step of `FixSession` or a stutter: a verified target is settled when its
  row is saved, another when its outcome is recorded.

**`RemediationRows_proofs`** builds on these, for what needs the rows of one run counted or
paired with its results:

- `OneFixForPackage` needs `TargetsApart` (two targets never share a package) and
  `RowsOfTargets` (every row of the run is of a target already reached).
- `StatusesTellRows` needs the pairing of verified and failed rows with the results of the run
  (`OutcomesSaved`) and that statuses are open until `rem_finish` (`StatusOpen`).
- `AttemptsAreBounded` needs that the history has as many entries as there were attempts
  before this one (`HistoryCounts`), that the run has saved at most as many verifications for
  its current target (`VerificationsCount`), and that a target that comes up has none yet.
- `ApprovedTreesAreRoots`: when all verified rows of a completed scan are of the run at hand
  (`FixesOfThisRun`, part of the property), committing them all gives the root, by
  `RootIsTheSavedFixes`: no finding has two of them (`OneFixPerFinding`), and for every file the
  newest decides in both. `OneRunsFixesWereVerified` adds that this root is the tree of the newest
  verified row: under `FixesOfThisRun` the property that `RemediationApprovalMix`
  violates holds.

**`ScanJobs_proofs`.** `TypeCorrect`, `ResultsAgree`, and `JobsImplementRows` from an
invariant (`RowsOK`) that ties each node of the worker to the row and its findings (at
`finish` the row is running and its findings are saved, at `lookup` and later it
is completed). `ShownReportsStored` holds with every fault, as it leaves out the scans that
were marked failed over their report (`demoted`); `NothingDemoted` says that there are none if no
database fault can happen and no transport fault without the MCP gateway: then the handler is
not reached from a completed row. `CommentsUnlessCrossed` needs `CommentsOK`: on a pull request
where no jobs crossed, at most one is about to write, and it knows whether there is a
comment. `SerialWorkerCommentsOnce` assumes
`MaxJobs = 1` and no busy pull request (invariant `SerialOK`): what `ScanJobsComments` violates with two jobs
holds with one, through crashes and lost answers.

**`FixApproval_proofs`.** `TypeCorrect`; `OpenPrsFrozen`, `OpenedRowsInPrs` and
`ApprovalImplementsGate` from an invariant in two parts: the accounts of the approvals, `AccountInv`
(what is left is part of what was picked, in places that are all different; who writes
was granted and has no pull request yet) and the branch, `BranchInv` (at most one
approval writes, the branch holds exactly what that one has committed, in order of
place, and no pull request is open meanwhile). The argument rests on GitHub refusing
a branch that exists and a second pull request from a branch, and on `DeleteBranch`
waiting for the writer.

**`ScanPipeline_proofs`.** The theorems are about findings in any number and order, and go
from the operators up:

- `EnumeratedIs`: a finite set under a strict order is enumerated once each and in order (its
  elements have different ranks, and as many ranks as elements leave none out). So
  `ElementsAt` and `StableSort` lose, add and change nothing (`ElementsAtIs`, `StableSortIs`);
  the three orders of the correlator are strict (`CorrelatorOrders`).
- `MergeIs`: what `_merge` returns has the scanner, rule, file, line and fingerprint of one of the
  group and speaks for each of it (`Absorbs`: same file, no rule less, as severe, as long).
- `FingerprintPass`, `ProximityPass`: each finding is in exactly one group, and a group has one
  fingerprint, or is a chain of code findings of one weakness. Hence `CorrelatedIs`: what is
  given is absorbed, what comes out is sound (`Sound`: it stems from an original, and each merged
  rule is justified by originals) and no two have one fingerprint. As its hypothesis is
  soundness again, it applies to the second correlation as well as to the first.
- `PipelineInvariant` carries this through the graph: `RawInv` (`Gather` collects what was reported
  and nothing else), `AnalysisInv` (whatever is analysed is a finding of the correlator with
  a verdict, whatever is not is still pending) and `FindingsInv` (the findings are sound and
  keep all sources). The analysis needs the correlator's fingerprints to be apart: with
  `IdsApart` a finding's id then finds no analysis but its own.

`ScanTypes`, `MergesAreJustified`, `NothingIsLost` (under `IdsApart`, as the property has it) and
`EveryFindingIsJudged` follow; that linked findings are one issue is `LinkedIsOneIssue`.
`DiscoveriesNew` needs two things more: only a claim that repeats nothing known is appended, and what is
known holds all findings of the scan and all that was found before.

**`LlmClient_proofs`.** `TypeCorrect`; `LimitIsKept`, as a sum over a window does not grow when
entries expire or become bills (`Total` is a cardinality, so that an injection or an inclusion shows it), and a new
entry is what `Fits` has left room for; `BudgetOvershootBounded`, for which a client that has a
request to make must have been within its budget when it decided to
(`BudgetInv`); `RequestsHoldTheirReservations` from `HeldInv`: a client has
at most the one entry it reserved, whose age is that of its request, so that it expires only
with the window.

**`ToolCalls_proofs`.** `TypeCorrect`; `CallsLeaveNothing` from an invariant that ties copies,
lock and containers to the stage of the call that holds them (`Held`: the holder of
the lock runs trivy, whoever runs trivy uncancelled holds the lock, a call that is not in its
sandbox has no live container) through every way out of a call; `EffectsAreLogged` from
`Logged`: an effect without a record belongs to a call that has not been audited yet.

**`Evidence_proofs`.** `PassesOnEvidence` assumes that a verifier's script holds nothing but
builds, linter runs, tests and scanners, and the linter whenever it holds anything
(`ChecksOnly`), as `verify` has it. The invariant (`Passing`) follows a verification that is
unblemished so far: what it has checked and what it has to do make up a script, a
good answer is that of a check that went as `PassedOnEvidence` has it (`GoodIsFine`, from
`AnswerOf`, `Truth` and what `compact` sends), and who is past the linter has tests to run.

Every safety property of the passing runs is a theorem. Model-checked only: `RunEnds`,
`JobSettles`, `CallsEnd`, `OverdueIsKilled` and `ScansEnd` (liveness under fairness, which
TLAPS does not do), and the six violations.

## 7. Not modelled

Text and layout (reports, prompts, patches, diffs), metrics and redaction, the parsers of
the scanners' formats, paths in workspaces, the arguments of `docker run`, the knowledge
base: they work on strings, and no property here tells their values apart. Read-only
endpoints change no state; the benchmark keeps none beyond its result files; of the
migrations the constraints that matter are in `ScanJobs`. `same_issue` is identity of
issues in `RemediationLoop`, so its window of lines is not examined yet, nor are the
line numbers of a proposal's edits. `record_tool_run` and most audit events change no state
that anything reads, and are only modelled as far as they may fail. A failing
`ws.cleanup` or `aclose` is left out. Planned parts
are in section 2.
