---------------------------- MODULE ScanJobs_proofs ----------------------------
(***************************************************************************)
(* Proofs about the scan jobs for any number of deliveries, jobs, tries    *)
(* and faults.                                                             *)
(***************************************************************************)
EXTENDS ScanJobs, SequenceTheorems, FiniteSetTheorems, TLAPS

-----------------------------------------------------------------------------
(* Types.                                                                  *)

\* The part of TypeOK about the queue and the coroutines.
JobsOK ==
  /\ job \in [Deliveries -> {"none", "queued", "running"} \cup Results]
  /\ tries \in [Deliveries -> 0..MaxTries]
  /\ pc \in [Deliveries -> {"idle"} \cup Nodes]
  /\ \A d \in Deliveries : pc[d] = "idle" <=> job[d] # "running"

\* A job that is over is nowhere in its coroutine.
LEMMA SettleKeepsJobs ==
  ASSUME JobsOK, NEW d \in Deliveries, NEW result \in Results, Settle(d, result)
  PROVE  JobsOK'
<1>1. 0 \in 0..MaxTries
  BY ScanJobsAssumption
<1>2. job' \in [Deliveries -> {"none", "queued", "running"} \cup Results]
  BY DEF JobsOK, Settle
<1>3. tries' \in [Deliveries -> 0..MaxTries]
  BY <1>1 DEF JobsOK, Settle
<1>4. result # "running"
  BY DEF Results
<1>5. pc' \in [Deliveries -> {"idle"} \cup Nodes]
  BY DEF JobsOK, Settle
<1>6. \A e \in Deliveries : pc'[e] = "idle" <=> job'[e] # "running"
  BY <1>4 DEF JobsOK, Settle
<1>7. QED BY <1>2, <1>3, <1>5, <1>6 DEF JobsOK

\* A step from one node of the coroutine to another.
LEMMA GotoKeepsJobs ==
  ASSUME JobsOK, NEW d \in Deliveries, pc[d] # "idle", NEW node \in Nodes, Goto(d, node)
  PROVE  JobsOK'
BY DEF JobsOK, Goto, Nodes, Results

\* Writing a report keeps the comments of every PR a list of reports.
LEMMA WrittenIsComments ==
  ASSUME TypeOK, NEW d \in Deliveries
  PROVE  Written(d) \in [PRs -> Seq(Deliveries)]
<1>1. PrOf[d] \in PRs
  BY DEF PRs
<1>2. comments[PrOf[d]] \in Seq(Deliveries)
  BY <1>1 DEF TypeOK
<1>3. Append(comments[PrOf[d]], d) \in Seq(Deliveries)
  BY <1>2
<1>4. [comments[PrOf[d]] EXCEPT ![seen[d]] = d] \in Seq(Deliveries)
  <2> DEFINE c == comments[PrOf[d]]
  <2>1. CASE seen[d] \in 1..Len(c)
    BY <1>2, <2>1, ExceptSeq
  <2>2. CASE seen[d] \notin 1..Len(c)
    <3>1. [c EXCEPT ![seen[d]] = d] = c
      BY <1>2, <2>2, DOMAIN c = 1..Len(c)
    <3>2. QED BY <1>2, <3>1
  <2>3. QED BY <2>1, <2>2
<1>5. QED BY <1>1, <1>3, <1>4 DEF Written, TypeOK

\* TypeOK is inductive: every step of a job, a fault and a crash keeps it.
LEMMA StepKeepsTypes == TypeOK /\ [Next]_vars => TypeOK'
<1> SUFFICES ASSUME TypeOK, [Next]_vars PROVE TypeOK'
  OBVIOUS
<1>0. JobsOK /\ ScanJobsAssumption
  BY ScanJobsAssumption DEF TypeOK, JobsOK
<1>j. ASSUME JobsOK', UNCHANGED <<sent, dbvars, ghvars>> PROVE TypeOK'
  BY <1>j DEF TypeOK, JobsOK, dbvars, ghvars
<1>u. ASSUME UNCHANGED vars PROVE TypeOK'
  BY <1>u DEF TypeOK, vars, jvars, dbvars, ghvars
<1>d. ASSUME NEW d \in Deliveries,
             Deliver(d) \/ Work(d) \/ PostFails(d) \/ DbFails(d) \/ TimeOut(d) \/ ExpireResult(d)
      PROVE  TypeOK'
  <2>1. CASE Deliver(d)
    <3>1. sent' \in [Deliveries -> 0..MaxSends]
      BY <1>0, <2>1 DEF Deliver, NewJob, TypeOK, ScanJobsAssumption
    <3>2. JobsOK'
      BY <1>0, <2>1 DEF Deliver, NewJob, JobsOK, Results
    <3>3. QED BY <2>1, <3>1, <3>2 DEF Deliver, NewJob, TypeOK, JobsOK, dbvars, ghvars
  <2>2. CASE Take(d)
    <3>1. JobsOK'
      <4>1. tries[d] + 1 \in 0..MaxTries
        BY <1>0, <2>2 DEF Take, JobsOK
      <4>2. tries' \in [Deliveries -> 0..MaxTries]
        BY <1>0, <2>2, <4>1 DEF Take, JobsOK
      <4>3. job' \in [Deliveries -> {"none", "queued", "running"} \cup Results]
            /\ pc' \in [Deliveries -> {"idle"} \cup Nodes]
        BY <1>0, <2>2 DEF Take, JobsOK, Nodes
      <4>4. \A e \in Deliveries : pc'[e] = "idle" <=> job'[e] # "running"
        BY <1>0, <2>2 DEF Take, JobsOK
      <4>5. QED BY <4>2, <4>3, <4>4 DEF JobsOK
    <3>2. QED BY <1>j, <2>2, <3>1 DEF Take
  <2>3. CASE GiveUp(d)
    <3>1. JobsOK'
      BY <1>0, <2>3, SettleKeepsJobs DEF GiveUp, Results
    <3>2. QED BY <1>j, <2>3, <3>1 DEF GiveUp
  <2>4. CASE RestartScan(d)
    <3>1. JobsOK'
      BY <1>0, <2>4, SettleKeepsJobs, GotoKeepsJobs DEF RestartScan, Results, Nodes
    <3>2. row' \in [Deliveries -> {"none", "running", "completed", "failed"}]
          /\ findings' \in [Deliveries -> {0, 1}]
      BY <2>4 DEF RestartScan, TypeOK
    <3>3. QED BY <2>4, <3>1, <3>2 DEF RestartScan, TypeOK, JobsOK, ghvars
  <2>5. CASE FirstScan(d)
    <3>1. JobsOK'
      BY <1>0, <2>5, GotoKeepsJobs DEF FirstScan, Nodes
    <3>2. row' \in [Deliveries -> {"none", "running", "completed", "failed"}]
      BY <2>5 DEF FirstScan, TypeOK
    <3>3. QED BY <2>5, <3>1, <3>2 DEF FirstScan, TypeOK, JobsOK, ghvars
  <2>6. CASE FirstScanOfRepo(d)
    <3>1. JobsOK'
      BY <1>0, <2>6, SettleKeepsJobs, GotoKeepsJobs DEF FirstScanOfRepo, Results, Nodes
    <3>2. row' \in [Deliveries -> {"none", "running", "completed", "failed"}]
      BY <2>6 DEF FirstScanOfRepo, TypeOK
    <3>3. repos' \subseteq KnownRepos \cup Repos
      <4>1. RepoOf[PrOf[d]] \in Repos
        BY DEF Repos
      <4>2. repos' = repos \/ repos' = repos \cup {RepoOf[PrOf[d]]}
        BY <2>6, Zenon DEF FirstScanOfRepo
      <4>3. repos \subseteq KnownRepos \cup Repos
        BY DEF TypeOK
      <4>4. QED BY <4>1, <4>2, <4>3
    <3>4. QED BY <2>6, <3>1, <3>2, <3>3 DEF FirstScanOfRepo, TypeOK, JobsOK, ghvars
  <2>7. CASE Scan(d)
    <3>1. PICK node \in Nodes : Goto(d, node)
      BY <2>7 DEF Scan, Nodes
    <3>2. JobsOK'
      BY <1>0, <2>7, <3>1, GotoKeepsJobs DEF Scan
    <3>3. QED BY <1>j, <2>7, <3>2 DEF Scan
  <2>8. CASE SaveFindings(d)
    <3>1. JobsOK'
      BY <1>0, <2>8, GotoKeepsJobs DEF SaveFindings, Nodes
    <3>2. findings' \in [Deliveries -> {0, 1}]
      BY <2>8 DEF SaveFindings, TypeOK
    <3>3. QED BY <2>8, <3>1, <3>2 DEF SaveFindings, TypeOK, JobsOK, ghvars
  <2>9. CASE FinishScan(d)
    <3>1. JobsOK'
      BY <1>0, <2>9, GotoKeepsJobs DEF FinishScan, Nodes
    <3>2. row' \in [Deliveries -> {"none", "running", "completed", "failed"}]
      BY <2>9 DEF FinishScan, TypeOK
    <3>3. QED BY <2>9, <3>1, <3>2 DEF FinishScan, TypeOK, JobsOK, ghvars
  <2>10. CASE LookUp(d)
    <3>1. JobsOK'
      BY <1>0, <2>10, GotoKeepsJobs DEF LookUp, Nodes
    <3>2. seen' \in [Deliveries -> {0, 1}]
      BY <2>10 DEF LookUp, TypeOK
    <3>3. crossed' \subseteq PRs
      BY <2>10 DEF LookUp, Crossed, TypeOK, PRs
    <3>4. QED BY <2>10, <3>1, <3>2, <3>3 DEF LookUp, TypeOK, JobsOK, dbvars
  <2>11. CASE WriteComment(d)
    <3>1. JobsOK'
      BY <1>0, <2>11, GotoKeepsJobs DEF WriteComment, Nodes
    <3>2. comments' \in [PRs -> Seq(Deliveries)]
      BY <2>11, WrittenIsComments DEF WriteComment
    <3>3. QED BY <2>11, <3>1, <3>2 DEF WriteComment, TypeOK, JobsOK, dbvars
  <2>12. CASE AuditReport(d)
    <3>1. JobsOK'
      BY <1>0, <2>12, SettleKeepsJobs DEF AuditReport, Results
    <3>2. QED BY <2>12, <3>1 DEF AuditReport, TypeOK, JobsOK, dbvars, ghvars
  <2>13. CASE FailScan(d)
    <3>1. JobsOK'
      BY <1>0, <2>13, SettleKeepsJobs DEF FailScan, Results
    <3>2. row' \in [Deliveries -> {"none", "running", "completed", "failed"}]
      BY <2>13 DEF FailScan, TypeOK
    <3>3. QED BY <2>13, <3>1, <3>2 DEF FailScan, TypeOK, JobsOK, ghvars
  <2>14. CASE PostFails(d)
    <3>1. PICK node \in Nodes : Goto(d, node)
      BY <2>14 DEF PostFails, AfterPostError, Nodes
    <3>2. JobsOK'
      BY <1>0, <2>14, <3>1, GotoKeepsJobs DEF PostFails
    <3>3. comments' \in [PRs -> Seq(Deliveries)]
      BY <2>14, WrittenIsComments DEF PostFails, TypeOK
    <3>4. QED BY <2>14, <3>2, <3>3 DEF PostFails, TypeOK, JobsOK, dbvars
  <2>15. CASE DbFails(d)
    <3>1. JobsOK'
      BY <1>0, <2>15, SettleKeepsJobs, GotoKeepsJobs DEF DbFails, AfterPostError, Results, Nodes
    <3>2. QED BY <1>j, <2>15, <3>1 DEF DbFails
  <2>16. CASE TimeOut(d)
    <3>1. JobsOK'
      BY <1>0, <2>16, SettleKeepsJobs DEF TimeOut, Results
    <3>2. QED BY <1>j, <2>16, <3>1 DEF TimeOut
  <2>17. CASE ExpireResult(d)
    <3>1. JobsOK'
      BY <1>0, <2>17 DEF ExpireResult, JobsOK, Results
    <3>2. QED BY <1>j, <2>17, <3>1 DEF ExpireResult
  <2>18. QED
    BY <1>d, <2>1, <2>2, <2>3, <2>4, <2>5, <2>6, <2>7, <2>8, <2>9, <2>10, <2>11, <2>12, <2>13,
       <2>14, <2>15, <2>16, <2>17 DEF Work
<1>c. ASSUME Crash PROVE TypeOK'
  <2>1. JobsOK'
    BY <1>0, <1>c DEF Crash, Running, JobsOK, Nodes, Results
  <2>2. QED BY <1>j, <1>c, <2>1 DEF Crash
<1>1. QED BY <1>u, <1>d, <1>c DEF Next

\* Types hold in every reachable state, and exactly the running jobs are
\* somewhere in scan_pull_request.
THEOREM TypeCorrect == Spec => []TypeOK
<1>1. Init => TypeOK
  <2> SUFFICES ASSUME Init PROVE TypeOK
    OBVIOUS
  <2>1. comments \in [PRs -> Seq(Deliveries)]
    BY DEF Init
  <2>2. QED BY <2>1, ScanJobsAssumption DEF Init, TypeOK, Nodes, Results
<1>2. QED BY <1>1, StepKeepsTypes, PTL DEF Spec
-----------------------------------------------------------------------------
(* Scan rows.                                                              *)

\* Where a coroutine is whose scan is completed.
ReportNodes == {"lookup", "write", "posted", "unposted"}

\* Where the coroutine of a delivery is says what its row and its findings are;
\* the queue's result says it when the coroutine is gone.
RowOK(d) ==
  /\ pc[d] = "newrepo" => row[d] = "none"
  /\ pc[d] \in {"scan", "save"} => row[d] = "running" /\ findings[d] = 0
  /\ pc[d] = "finish" => row[d] = "running" /\ findings[d] = 1
  /\ pc[d] \in ReportNodes => row[d] = "completed"
  /\ pc[d] = "failing" => row[d] = "running" \/ (row[d] = "completed" /\ MayDemote)
  /\ row[d] = "none" => findings[d] = 0
  /\ row[d] = "completed" => findings[d] = 1
  /\ job[d] = "returned" => row[d] = "completed"
  /\ job[d] = "raised" => row[d] = "failed"

RowsOK == \A d \in Deliveries : RowOK(d)

\* A step for one delivery leaves the others alone.
Apart(d) ==
  \A e \in Deliveries \ {d} :
    job'[e] = job[e] /\ pc'[e] = pc[e] /\ row'[e] = row[e] /\ findings'[e] = findings[e]

\* What a step for one delivery does to its row: nothing, or what start_scan,
\* save_findings, finish_scan or the handler of scan_pull_request does.
Quiet(d) == row' = row /\ findings' = findings /\ (Reporting(d)' => Reporting(d))

Started(d) ==
  /\ row[d] # "completed"
  /\ row' = [row EXCEPT ![d] = "running"] /\ findings' = [findings EXCEPT ![d] = 0]

Saved(d) ==
  row[d] = "running" /\ findings[d] = 0 /\ row' = row /\ findings' = [findings EXCEPT ![d] = 1]

Completed(d) ==
  /\ row[d] = "running" /\ findings[d] = 1
  /\ row' = [row EXCEPT ![d] = "completed"] /\ findings' = findings
  /\ pc'[d] \in ReportNodes

Failed(d) ==
  /\ row[d] = "running" \/ (Reporting(d) /\ MayDemote)
  /\ row' = [row EXCEPT ![d] = "failed"] /\ findings' = findings

Move(d) == Quiet(d) \/ Started(d) \/ Saved(d) \/ Completed(d) \/ Failed(d)

\* A step of one delivery keeps RowOK, and moves its row or leaves it.
LEMMA RowStep ==
  ASSUME TypeOK, RowsOK, NEW d \in Deliveries,
         Deliver(d) \/ Work(d) \/ PostFails(d) \/ DbFails(d) \/ TimeOut(d) \/ ExpireResult(d)
  PROVE  Apart(d) /\ RowOK(d)' /\ Move(d)
<1> USE DEF TypeOK, Apart
<1>0. RowOK(d)
  BY DEF RowsOK
<1>1. CASE Deliver(d)
  <2>1. pc' = pc /\ row' = row /\ findings' = findings
        /\ \A e \in Deliveries \ {d} : job'[e] = job[e]
    BY <1>1 DEF Deliver, NewJob, dbvars
  <2>2. CASE job'[d] = "queued"
    BY <1>0, <2>1, <2>2 DEF RowOK, Move, Quiet, Reporting
  <2>3. CASE job'[d] = job[d]
    BY <1>0, <2>1, <2>3 DEF RowOK, Move, Quiet, Reporting
  <2>4. job'[d] = "queued" \/ job'[d] = job[d]
    BY <1>1 DEF Deliver, NewJob
  <2>5. QED BY <2>2, <2>3, <2>4
<1>2. CASE Take(d) \/ ExpireResult(d) \/ GiveUp(d) \/ TimeOut(d)
  <2>1. row' = row /\ findings' = findings
        /\ job'[d] \in {"running", "none", "max tries", "timed out"}
        /\ pc'[d] \in {"start", "idle"}
    BY <1>2 DEF Take, ExpireResult, GiveUp, TimeOut, Settle, dbvars, Results
  <2>2. Apart(d)
    BY <1>2 DEF Take, ExpireResult, GiveUp, TimeOut, Settle, dbvars
  <2>3. QED BY <1>0, <2>1, <2>2 DEF RowOK, ReportNodes, Move, Quiet, Reporting
<1>3. CASE RestartScan(d)
  <2>1. CASE row[d] = "completed"
    BY <1>0, <1>3, <2>1 DEF RestartScan, Settle, RowOK, ReportNodes, Move, Quiet, Reporting
  <2>2. CASE row[d] # "completed"
    <3>1. Started(d)
      BY <1>3, <2>2 DEF RestartScan, Started
    <3>2. job' = job /\ pc' = [pc EXCEPT ![d] = "scan"] /\ job[d] = "running"
      BY <1>3, <2>2 DEF RestartScan, Goto
    <3>3. QED BY <3>1, <3>2 DEF RowOK, ReportNodes, Move, Started
  <2>3. QED BY <2>1, <2>2
<1>4. CASE FirstScan(d)
  <2>1. CASE RepoOf[PrOf[d]] \in repos
    <3>1. Started(d)
      <4>1. findings = [findings EXCEPT ![d] = 0]
        BY <1>0, <1>4 DEF FirstScan, RowOK
      <4>2. QED BY <1>4, <2>1, <4>1 DEF FirstScan, Started
    <3>2. job' = job /\ pc' = [pc EXCEPT ![d] = "scan"] /\ job[d] = "running"
      BY <1>4, <2>1 DEF FirstScan, Goto
    <3>3. QED BY <3>1, <3>2 DEF RowOK, ReportNodes, Move, Started
  <2>2. CASE RepoOf[PrOf[d]] \notin repos
    BY <1>0, <1>4, <2>2 DEF FirstScan, Goto, RowOK, ReportNodes, Move, Quiet, Reporting
  <2>3. QED BY <2>1, <2>2
<1>5. CASE FirstScanOfRepo(d)
  <2>1. CASE RepoOf[PrOf[d]] \notin repos
    <3>1. Started(d)
      <4>1. findings = [findings EXCEPT ![d] = 0]
        BY <1>0, <1>5 DEF FirstScanOfRepo, RowOK
      <4>2. QED BY <1>0, <1>5, <2>1, <4>1 DEF FirstScanOfRepo, Started, RowOK
    <3>2. job' = job /\ pc' = [pc EXCEPT ![d] = "scan"] /\ job[d] = "running"
      BY <1>5, <2>1 DEF FirstScanOfRepo, Goto
    <3>3. QED BY <3>1, <3>2 DEF RowOK, ReportNodes, Move, Started
  <2>2. CASE RepoOf[PrOf[d]] \in repos
    BY <1>0, <1>5, <2>2 DEF FirstScanOfRepo, Settle, RowOK, ReportNodes, Move, Quiet, Reporting
  <2>3. QED BY <2>1, <2>2
<1>6. CASE Scan(d)
  <2>1. row' = row /\ findings' = findings /\ job' = job
        /\ (pc' = [pc EXCEPT ![d] = "save"] \/ pc' = [pc EXCEPT ![d] = "failing"])
    BY <1>6 DEF Scan, Goto, dbvars
  <2>2. QED BY <1>0, <1>6, <2>1 DEF Scan, RowOK, ReportNodes, Move, Quiet, Reporting
<1>7. CASE SaveFindings(d)
  <2>1. Saved(d)
    BY <1>0, <1>7 DEF SaveFindings, RowOK, Saved
  <2>2. job' = job /\ pc' = [pc EXCEPT ![d] = "finish"] /\ job[d] = "running"
    BY <1>0, <1>7 DEF SaveFindings, RowOK, Goto
  <2>3. QED BY <1>0, <2>1, <2>2 DEF RowOK, ReportNodes, Move, Saved
<1>8. CASE FinishScan(d)
  <2>1. Completed(d)
    BY <1>0, <1>8 DEF FinishScan, RowOK, Completed, Goto, ReportNodes
  <2>2. job' = job /\ job[d] = "running"
        /\ (pc' = [pc EXCEPT ![d] = "lookup"] \/ pc' = [pc EXCEPT ![d] = "unposted"])
    BY <1>8 DEF FinishScan, Goto
  <2>3. QED BY <1>0, <2>1, <2>2 DEF RowOK, ReportNodes, Move, Completed
<1>9. CASE LookUp(d) \/ WriteComment(d)
  <2>1. row' = row /\ findings' = findings /\ job' = job /\ row[d] = "completed"
        /\ pc[d] \in ReportNodes
        /\ (pc' = [pc EXCEPT ![d] = "write"] \/ pc' = [pc EXCEPT ![d] = "posted"])
    BY <1>0, <1>9 DEF LookUp, WriteComment, Goto, RowOK, ReportNodes, dbvars
  <2>2. QED BY <1>0, <2>1 DEF RowOK, ReportNodes, Move, Quiet, Reporting
<1>10. CASE AuditReport(d)
  <2>1. row' = row /\ findings' = findings /\ row[d] = "completed" /\ Settle(d, "returned")
    BY <1>0, <1>10 DEF AuditReport, RowOK, ReportNodes, dbvars
  <2>2. QED BY <1>0, <2>1 DEF Settle, RowOK, ReportNodes, Move, Quiet, Reporting
<1>11. CASE FailScan(d)
  <2>1. Failed(d)
    BY <1>0, <1>11 DEF FailScan, RowOK, Failed, Reporting
  <2>2. Settle(d, "raised")
    BY <1>11 DEF FailScan
  <2>3. QED BY <2>1, <2>2 DEF Settle, RowOK, ReportNodes, Move, Failed
<1>12. CASE PostFails(d)
  <2>1. row' = row /\ findings' = findings /\ job' = job /\ row[d] = "completed" /\ job[d] = "running"
        /\ pc[d] \in ReportNodes
    BY <1>0, <1>12 DEF PostFails, Goto, RowOK, ReportNodes, dbvars
  <2>2. \/ pc' = [pc EXCEPT ![d] = "unposted"]
        \/ pc' = [pc EXCEPT ![d] = "failing"] /\ MayDemote
    BY <1>12 DEF PostFails, AfterPostError, Goto, MayDemote
  <2>3. QED BY <1>0, <2>1, <2>2 DEF RowOK, ReportNodes, Move, Quiet, Reporting
<1>13. CASE DbFails(d)
  <2>1. row' = row /\ findings' = findings /\ MayDemote /\ job[d] = "running"
    BY <1>13 DEF DbFails, dbvars, MayDemote
  <2>2. CASE Settle(d, "db error")
    BY <1>0, <2>1, <2>2 DEF Settle, RowOK, ReportNodes, Move, Quiet, Reporting
  <2>3. CASE pc[d] \in {"save", "finish", "unposted", "posted"}
             /\ (Goto(d, "failing") \/ (pc[d] = "posted" /\ Goto(d, "unposted")))
    BY <1>0, <2>1, <2>3 DEF Goto, RowOK, ReportNodes, Move, Quiet, Reporting
  <2>4. QED BY <1>13, <2>2, <2>3 DEF DbFails, AfterPostError
<1>14. QED
  BY <1>1, <1>2, <1>3, <1>4, <1>5, <1>6, <1>7, <1>8, <1>9, <1>10, <1>11, <1>12, <1>13 DEF Work

\* A move of one row is a step of the promise, or none.
LEMMA MoveKeepsPromise ==
  ASSUME TypeOK, NEW d \in Deliveries, Apart(d), Move(d)
  PROVE  [Promise!Next]_(Promise!rvars)
<1> DEFINE before == {e \in Deliveries : Reporting(e)}
           after == {e \in Deliveries : Reporting(e)'}
<1>0. before' = after
  OBVIOUS
<1>1. \A e \in Deliveries \ {d} : Reporting(e)' <=> Reporting(e)
  BY DEF Apart, Reporting
<1>2. Reporting(d)' => after = before \cup {d}
  BY <1>1
<1>3. ~Reporting(d)' => after = before \ {d}
  BY <1>1
<1>4. CASE Quiet(d)
  <2>1. after = before \ (before \ after)
    BY <1>1, <1>4 DEF Quiet
  <2>2. Promise!Reported
    BY <1>0, <1>4, <2>1 DEF Quiet, Promise!Reported
  <2>3. QED BY <2>2 DEF Promise!Next
<1>5. CASE Started(d)
  <2>1. ~Reporting(d) /\ ~Reporting(d)'
    BY <1>5 DEF Started, Reporting
  <2>2. QED BY <1>0, <1>3, <1>5, <2>1 DEF Started, Promise!Start, Promise!Next
<1>6. CASE Saved(d)
  <2>1. ~Reporting(d) /\ ~Reporting(d)'
    BY <1>6 DEF Saved, Reporting
  <2>2. QED BY <1>0, <1>3, <1>6, <2>1 DEF Saved, Promise!Save, Promise!Next
<1>7. CASE Completed(d)
  <2>1. Reporting(d)'
    BY <1>7 DEF Completed, Reporting, ReportNodes, TypeOK
  <2>2. QED BY <1>0, <1>2, <1>7, <2>1 DEF Completed, Promise!Complete, Promise!Next
<1>8. CASE Failed(d)
  <2>1. ~Reporting(d)'
    BY <1>8 DEF Failed, Reporting, TypeOK
  <2>2. QED BY <1>0, <1>3, <1>8, <2>1 DEF Failed, Promise!Fail, Promise!Next
<1>9. QED BY <1>4, <1>5, <1>6, <1>7, <1>8 DEF Move

\* RowsOK is inductive, and every step is a step of the rows or a stutter.
LEMMA NextKeepsRows ==
  TypeOK /\ RowsOK /\ [Next]_vars => RowsOK' /\ [Promise!Next]_(Promise!rvars)
<1> SUFFICES ASSUME TypeOK, RowsOK, [Next]_vars
             PROVE  RowsOK' /\ [Promise!Next]_(Promise!rvars)
  OBVIOUS
<1>1. ASSUME NEW d \in Deliveries,
             Deliver(d) \/ Work(d) \/ PostFails(d) \/ DbFails(d) \/ TimeOut(d) \/ ExpireResult(d)
      PROVE  RowsOK' /\ [Promise!Next]_(Promise!rvars)
  <2>1. Apart(d) /\ RowOK(d)' /\ Move(d)
    BY <1>1, RowStep
  <2>2. ASSUME NEW e \in Deliveries \ {d} PROVE RowOK(e)'
    BY <2>1, RowOK(e) DEF Apart, RowOK, RowsOK
  <2>3. QED BY <2>1, <2>2, MoveKeepsPromise DEF RowsOK
<1>2. CASE Crash
  <2>1. row' = row /\ findings' = findings
    BY <1>2 DEF Crash, dbvars
  <2>2. ASSUME NEW d \in Deliveries PROVE RowOK(d)'
    <3>1. pc'[d] = "idle" /\ job'[d] \in {"queued", job[d]}
      BY <1>2 DEF Crash
    <3>2. CASE job'[d] = "queued"
      BY <2>1, <3>1, <3>2 DEF RowOK, RowsOK, ReportNodes
    <3>3. CASE job'[d] = job[d]
      BY <2>1, <3>1, <3>3 DEF RowOK, RowsOK, ReportNodes
    <3>4. QED BY <3>1, <3>2, <3>3
  <2>3. Promise!Reported
    <3> DEFINE before == {e \in Deliveries : Reporting(e)}
    <3>1. \A e \in Deliveries : ~Reporting(e)'
      BY <1>2 DEF Crash, Reporting
    <3>2. before' = before \ before
      BY <3>1
    <3>3. QED BY <2>1, <3>2 DEF Promise!Reported
  <2>4. QED BY <2>2, <2>3 DEF RowsOK, Promise!Next
<1>3. CASE UNCHANGED vars
  <2>1. row' = row /\ findings' = findings /\ pc' = pc /\ job' = job
    BY <1>3 DEF vars, jvars, dbvars
  <2>2. {d \in Deliveries : Reporting(d)}' = {d \in Deliveries : Reporting(d)}
    BY <2>1 DEF Reporting
  <2>3. QED BY <2>1, <2>2 DEF RowsOK, RowOK, Promise!rvars
<1>4. QED BY <1>1, <1>2, <1>3 DEF Next

\* At the start no delivery has a job, a row or findings.
LEMMA InitRows == Init => RowsOK /\ Promise!Init
BY DEF Init, RowsOK, RowOK, ReportNodes, Reporting, Promise!Init

\* A job that returned has a completed row and one that raised a failed one,
\* in every interleaving and under every fault.
THEOREM ResultsAgree == Spec => []ResultAgreesWithRow
<1>1. RowsOK => ResultAgreesWithRow
  BY DEF RowsOK, RowOK, ResultAgreesWithRow
<1>2. QED BY <1>1, TypeCorrect, InitRows, NextKeepsRows, PTL DEF Spec

\* The jobs implement the promise of start_scan for every delivery.
THEOREM JobsImplementRows == Spec => ImplementsScanRows
<1>1. QED BY TypeCorrect, InitRows, NextKeepsRows, PTL DEF Spec, ImplementsScanRows, Promise!Spec
-----------------------------------------------------------------------------
(* Reports.                                                                *)

\* The scan has its findings, unless its own job marked it failed again.
Stored(d) == d \in demoted \/ (row[d] = "completed" /\ findings[d] = 1)

\* No step starts a stored scan again, takes its findings or marks it failed
\* without counting it as demoted.
LEMMA StoredStays ==
  ASSUME TypeOK, RowsOK, [Next]_vars, NEW e \in Deliveries, Stored(e)
  PROVE  Stored(e)'
<1> USE DEF Stored, TypeOK
<1>1. ASSUME NEW d \in Deliveries,
             Deliver(d) \/ Work(d) \/ PostFails(d) \/ DbFails(d) \/ TimeOut(d) \/ ExpireResult(d)
      PROVE  Stored(e)'
  <2>0. RowOK(d)
    BY DEF RowsOK
  <2>1. CASE RestartScan(d)
    BY <2>1 DEF RestartScan
  <2>2. CASE FirstScan(d) \/ FirstScanOfRepo(d)
    <3>1. row[d] = "none" /\ demoted' = demoted /\ findings' = findings
          /\ (row' = row \/ row' = [row EXCEPT ![d] = "running"])
      BY <2>0, <2>2 DEF FirstScan, FirstScanOfRepo, RowOK
    <3>2. QED BY <3>1
  <2>3. CASE SaveFindings(d)
    BY <2>0, <2>3 DEF SaveFindings, RowOK
  <2>4. CASE FinishScan(d)
    BY <2>0, <2>4 DEF FinishScan, RowOK
  <2>5. CASE FailScan(d)
    BY <2>0, <2>5 DEF FailScan, RowOK
  <2>6. CASE UNCHANGED dbvars
    BY <2>6 DEF dbvars
  <2>7. QED
    BY <1>1, <2>1, <2>2, <2>3, <2>4, <2>5, <2>6
    DEF Work, Deliver, NewJob, Take, GiveUp, Scan, LookUp, WriteComment, PostFails, AuditReport,
        DbFails, TimeOut, ExpireResult
<1>2. CASE Crash
  BY <1>2 DEF Crash, dbvars
<1>3. CASE UNCHANGED vars
  BY <1>3 DEF vars, dbvars
<1>4. QED BY <1>1, <1>2, <1>3 DEF Next

\* A report is written only for a scan that is completed: whatever comments a
\* step adds or changes then show that scan.
LEMMA WrittenShows ==
  ASSUME TypeOK, NEW d \in Deliveries, NEW p \in PRs, NEW i \in DOMAIN Written(d)[p]
  PROVE  Written(d)[p][i] = d \/ (i \in DOMAIN comments[p] /\ Written(d)[p][i] = comments[p][i])
<1>1. comments[p] \in Seq(Deliveries)
  BY DEF TypeOK
<1>2. CASE p # PrOf[d]
  BY <1>2 DEF Written, TypeOK
<1>3. CASE p = PrOf[d] /\ seen[d] = 0
  BY <1>1, <1>3 DEF Written, TypeOK
<1>4. CASE p = PrOf[d] /\ seen[d] # 0
  BY <1>1, <1>4 DEF Written, TypeOK
<1>5. QED BY <1>2, <1>3, <1>4

\* Every report that a pull request shows is that of a completed scan with its
\* findings, unless its own job marked that scan failed after completing it.
THEOREM ShownReportsStored == Spec => []ShownReportIsStored
<1>1. Init => ShownReportIsStored
  BY DEF Init, ShownReportIsStored
<1>2. TypeOK /\ RowsOK /\ [Next]_vars /\ ShownReportIsStored => ShownReportIsStored'
  <2> SUFFICES ASSUME TypeOK, RowsOK, [Next]_vars, ShownReportIsStored,
                      NEW p \in PRs, NEW i \in DOMAIN comments'[p],
                      NEW x, x = comments'[p][i]
               PROVE  Stored(x)'
    BY DEF ShownReportIsStored, Stored
  <2>0. ASSUME NEW j \in DOMAIN comments[p]
        PROVE  comments[p][j] \in Deliveries /\ Stored(comments[p][j])
    BY <2>0 DEF ShownReportIsStored, Stored, TypeOK
  <2>1. \/ comments' = comments
        \/ \E d \in Deliveries : comments' = Written(d) /\ pc[d] = "write"
    BY DEF Next, Work, Deliver, NewJob, Take, GiveUp, RestartScan, FirstScan, FirstScanOfRepo, Scan,
       SaveFindings, FinishScan, LookUp, WriteComment, PostFails, AuditReport, FailScan, DbFails,
       TimeOut, ExpireResult, Crash, vars, ghvars
  <2>2. CASE comments' = comments
    <3>1. x \in Deliveries /\ Stored(x)
      BY <2>0, <2>2
    <3>2. QED BY <3>1, StoredStays
  <2>3. ASSUME NEW d \in Deliveries, comments' = Written(d), pc[d] = "write"
        PROVE  Stored(x)'
    <3>1. Stored(d)
      BY <2>3, RowOK(d) DEF RowsOK, RowOK, ReportNodes, Stored
    <3>2. x = d \/ (i \in DOMAIN comments[p] /\ x = comments[p][i])
      BY <2>3, WrittenShows
    <3>3. x \in Deliveries /\ Stored(x)
      BY <2>0, <3>1, <3>2
    <3>4. QED BY <3>3, StoredStays
  <2>4. QED BY <2>1, <2>2, <2>3
<1>3. QED BY <1>1, <1>2, TypeCorrect, InitRows, NextKeepsRows, PTL DEF Spec

\* While the database stays there, and with the MCP gateway, no completed scan is
\* ever marked failed, so that every shown report's scan is completed.
THEOREM NothingDemoted ==
  ASSUME ~MayDemote PROVE Spec => [](demoted = {})
<1>1. Init => demoted = {}
  BY DEF Init
<1>2. RowsOK /\ demoted = {} /\ [Next]_vars => (demoted = {})'
  <2> SUFFICES ASSUME RowsOK, demoted = {}, [Next]_vars PROVE demoted' = {}
    OBVIOUS
  <2>1. ASSUME NEW d \in Deliveries, FinishScan(d) PROVE demoted' = {}
    BY <2>1 DEF FinishScan
  <2>2. ASSUME NEW d \in Deliveries, FailScan(d) PROVE demoted' = {}
    BY <2>2, RowOK(d) DEF FailScan, RowsOK, RowOK
  <2>3. CASE demoted' = demoted
    BY <2>3
  <2>4. QED
    BY <2>1, <2>2, <2>3
    DEF Next, Work, Deliver, NewJob, Take, GiveUp, RestartScan, FirstScan, FirstScanOfRepo, Scan,
        SaveFindings, LookUp, WriteComment, PostFails, AuditReport, DbFails,
        TimeOut, ExpireResult, Crash, vars, dbvars
<1>3. QED BY <1>1, <1>2, TypeCorrect, InitRows, NextKeepsRows, PTL DEF Spec
-----------------------------------------------------------------------------
(* Report comments.                                                        *)

\* Where the find-then-create of two jobs can have gone wrong.
Unsure == crossed \cup BusyPRs

\* On every other pull request at most one job is about to write, it knows whether
\* there is a comment, and there is at most one.
CommentsOK ==
  \A p \in PRs \ Unsure :
    /\ Len(comments[p]) <= 1
    /\ \A d \in Deliveries : pc[d] = "write" /\ PrOf[d] = p => seen[d] = Len(comments[p])
    /\ \A d, e \in Deliveries :
         pc[d] = "write" /\ PrOf[d] = p /\ pc[e] = "write" /\ PrOf[e] = p => d = e

\* A report written by the only job that is about to leaves its PR with one comment.
LEMMA WrittenOnce ==
  ASSUME TypeOK, CommentsOK, NEW d \in Deliveries, pc[d] = "write", NEW p \in PRs \ Unsure
  PROVE  Len(Written(d)[p]) <= 1
<1>0. PrOf[d] \in PRs
  BY DEF PRs
<1>1. comments[p] \in Seq(Deliveries) /\ Len(comments[p]) <= 1
  BY DEF TypeOK, CommentsOK
<1>2. CASE p # PrOf[d]
  BY <1>1, <1>2 DEF Written, TypeOK
<1>3. CASE p = PrOf[d] /\ Len(comments[p]) = 0
  <2>1. seen[d] = 0
    BY <1>3 DEF CommentsOK
  <2>2. Written(d)[p] = Append(comments[p], d)
    BY <1>0, <1>3, <2>1 DEF Written, TypeOK
  <2>3. QED BY <1>1, <1>3, <2>2
<1>4. CASE p = PrOf[d] /\ Len(comments[p]) = 1
  <2>1. seen[d] = 1
    BY <1>4 DEF CommentsOK
  <2>2. Written(d)[p] = [comments[p] EXCEPT ![1] = d]
    BY <1>0, <1>4, <2>1 DEF Written, TypeOK
  <2>3. QED BY <1>1, <1>4, <2>2, ExceptSeq
<1>5. Len(comments[p]) \in Nat
  BY <1>1, LenProperties
<1>6. \A n \in Nat : n <= 1 => n = 0 \/ n = 1
  OBVIOUS
<1>7. Len(comments[p]) = 0 \/ Len(comments[p]) = 1
  BY <1>1, <1>5, <1>6, Zenon
<1>8. QED BY <1>2, <1>3, <1>4, <1>7

\* What one step of a delivery does to the coroutines and the comments.
LEMMA PcStep ==
  ASSUME TypeOK, NEW d \in Deliveries,
         Deliver(d) \/ Work(d) \/ PostFails(d) \/ DbFails(d) \/ TimeOut(d) \/ ExpireResult(d)
  PROVE  /\ \A e \in Deliveries \ {d} : pc'[e] = pc[e]
         /\ Take(d) \/ pc[d] # "idle" \/ pc'[d] = "idle"
         /\ pc'[d] = "write" => LookUp(d) \/ pc' = pc
         /\ (seen' = seen /\ crossed' = crossed) \/ LookUp(d)
         /\ \/ comments' = comments
            \/ comments' = Written(d) /\ pc[d] = "write" /\ pc'[d] # "write"
<1> USE DEF TypeOK, ghvars
<1>1. CASE Deliver(d) \/ ExpireResult(d)
  BY <1>1 DEF Deliver, NewJob, ExpireResult
<1>2. CASE Take(d) \/ GiveUp(d) \/ TimeOut(d)
  BY <1>2 DEF Take, GiveUp, TimeOut, Settle
<1>3. CASE RestartScan(d) \/ FirstScan(d) \/ FirstScanOfRepo(d)
  BY <1>3 DEF RestartScan, FirstScan, FirstScanOfRepo, Settle, Goto
<1>4. CASE Scan(d)
  <2>1. Goto(d, "save") \/ Goto(d, "failing")
    BY <1>4 DEF Scan
  <2>2. QED BY <1>4, <2>1 DEF Scan, Goto
<1>5. CASE SaveFindings(d) \/ FinishScan(d)
  BY <1>5 DEF SaveFindings, FinishScan, Goto
<1>6. CASE LookUp(d)
  BY <1>6 DEF LookUp, Goto
<1>7. CASE WriteComment(d)
  BY <1>7 DEF WriteComment, Goto
<1>8. CASE AuditReport(d) \/ FailScan(d)
  BY <1>8 DEF AuditReport, FailScan, Settle
<1>9. CASE PostFails(d)
  BY <1>9 DEF PostFails, Goto, AfterPostError
<1>10. CASE DbFails(d)
  BY <1>10 DEF DbFails, Goto, Settle, AfterPostError
<1>11. QED
  BY <1>1, <1>2, <1>3, <1>4, <1>5, <1>6, <1>7, <1>8, <1>9, <1>10 DEF Work

\* CommentsOK is inductive: whoever looks while another is about to write makes
\* the pull request one where two jobs crossed.
LEMMA NextKeepsComments ==
  ASSUME TypeOK, CommentsOK, [Next]_vars
  PROVE  CommentsOK'
<1>1. ASSUME NEW d \in Deliveries,
             Deliver(d) \/ Work(d) \/ PostFails(d) \/ DbFails(d) \/ TimeOut(d) \/ ExpireResult(d)
      PROVE  CommentsOK'
  <2>1. \A e \in Deliveries \ {d} : pc'[e] = pc[e]
    BY <1>1, PcStep
  <2>2. CASE LookUp(d)
    <3>1. comments' = comments /\ seen' = [seen EXCEPT ![d] = seen'[d]] /\ pc'[d] = "write"
      BY <2>2 DEF LookUp, Goto, TypeOK
    <3>2. crossed \subseteq crossed'
      BY <2>2 DEF LookUp, Crossed
    <3>3. SUFFICES ASSUME NEW p \in PRs \ Unsure'
                   PROVE  /\ \A e \in Deliveries :
                               pc'[e] = "write" /\ PrOf[e] = p => seen'[e] = Len(comments[p])
                          /\ \A e \in Deliveries :
                               pc'[e] = "write" /\ PrOf[e] = p /\ PrOf[d] = p => e = d
      BY <2>1, <3>1, <3>2 DEF CommentsOK, Unsure
    <3>4. p \notin Unsure
      BY <3>2, <3>3 DEF Unsure
    <3>5. PrOf[d] = p => \A e \in Deliveries \ {d} : ~(pc[e] = "write" /\ PrOf[e] = p)
      BY <2>2, <3>3 DEF LookUp, Crossed, OthersWrite, Unsure
    <3>6. PrOf[d] = p => seen'[d] = Len(comments[p])
      <4>1. comments[p] \in Seq(Deliveries) /\ Len(comments[p]) <= 1
        BY <3>4 DEF TypeOK, CommentsOK
      <4>2. Len(comments[p]) = IF comments[p] = <<>> THEN 0 ELSE 1
        BY <4>1
      <4>3. p \notin BusyPRs
        BY <3>4 DEF Unsure
      <4>4. QED BY <2>2, <4>2, <4>3 DEF LookUp, TypeOK
    <3>7. QED BY <2>1, <3>1, <3>4, <3>5, <3>6 DEF CommentsOK, TypeOK
  <2>3. CASE ~LookUp(d)
    <3>1. seen' = seen /\ crossed' = crossed
      BY <1>1, <2>3, PcStep
    <3>2. \A e \in Deliveries : pc'[e] = "write" => pc[e] = "write"
      BY <1>1, <2>1, <2>3, PcStep
    <3>3. CASE comments' = comments
      BY <3>1, <3>2, <3>3 DEF CommentsOK, Unsure
    <3>4. CASE comments' = Written(d) /\ pc[d] = "write" /\ pc'[d] # "write"
      <4>1. \A p \in PRs \ Unsure : Len(comments'[p]) <= 1
        BY <3>4, WrittenOnce
      <4>2. \A p \in PRs \ {PrOf[d]} : comments'[p] = comments[p]
        BY <3>4 DEF Written, TypeOK
      <4>3. \A e \in Deliveries : pc'[e] = "write" /\ PrOf[e] = PrOf[d] => PrOf[d] \in Unsure
        BY <3>2, <3>4 DEF CommentsOK, PRs
      <4>4. QED BY <3>1, <3>2, <4>1, <4>2, <4>3 DEF CommentsOK, Unsure
    <3>5. QED BY <1>1, <3>3, <3>4, PcStep
  <2>4. QED BY <2>2, <2>3
<1>2. CASE Crash
  BY <1>2 DEF Crash, CommentsOK, Unsure, ghvars
<1>3. CASE UNCHANGED vars
  BY <1>3 DEF CommentsOK, Unsure, vars, jvars, ghvars
<1>4. QED BY <1>1, <1>2, <1>3 DEF Next

\* At the start there is no comment and nobody about to write one.
LEMMA InitComments == Init => CommentsOK
BY DEF Init, CommentsOK

\* A pull request gets a second report comment only where two jobs crossed, or
\* where ours is not on the first page, whatever fails, is lost or is retried.
THEOREM CommentsUnlessCrossed == Spec => []OneCommentUnlessCrossed
<1>1. TypeOK /\ CommentsOK /\ [Next]_vars => CommentsOK'
  BY NextKeepsComments
<1>2. TypeOK /\ CommentsOK => OneCommentUnlessCrossed
  BY DEF TypeOK, CommentsOK, OneCommentUnlessCrossed, Unsure
<1>3. QED BY <1>1, <1>2, InitComments, TypeCorrect, PTL DEF Spec

\* One job at a time: at most one coroutine is anywhere, so that no two cross.
SerialOK ==
  /\ \A d, e \in Deliveries : pc[d] # "idle" /\ pc[e] # "idle" => d = e
  /\ crossed = {}

\* A job is taken only when no other one runs.
LEMMA TakenAlone ==
  ASSUME MaxJobs = 1, TypeOK, NEW d \in Deliveries, Take(d), NEW e \in Deliveries
  PROVE  pc[e] = "idle"
<1>1. IsFiniteSet(Running)
  BY ScanJobsAssumption, FS_Subset DEF Running
<1>2. Cardinality(Running) = 0
  BY <1>1, FS_CardinalityType DEF Take
<1>3. Running = {}
  BY <1>1, <1>2, FS_EmptySet
<1>4. QED BY <1>3 DEF Running, TypeOK

\* SerialOK is inductive when the worker runs one job at a time.
LEMMA NextKeepsSerial ==
  ASSUME MaxJobs = 1, TypeOK, SerialOK, [Next]_vars
  PROVE  SerialOK'
<1>1. ASSUME NEW d \in Deliveries,
             Deliver(d) \/ Work(d) \/ PostFails(d) \/ DbFails(d) \/ TimeOut(d) \/ ExpireResult(d)
      PROVE  SerialOK'
  <2>1. \A e \in Deliveries \ {d} : pc'[e] = pc[e]
    BY <1>1, PcStep
  <2>2. Take(d) \/ pc[d] # "idle" \/ pc'[d] = "idle"
    BY <1>1, PcStep
  <2>3. pc'[d] # "idle" => \A e \in Deliveries \ {d} : pc'[e] = "idle"
    BY <2>1, <2>2, TakenAlone DEF SerialOK
  <2>4. \A e, f \in Deliveries : pc'[e] # "idle" /\ pc'[f] # "idle" => e = f
    BY <2>1, <2>3 DEF SerialOK
  <2>5. CASE LookUp(d)
    <3>1. ~OthersWrite(d)
      BY <2>5 DEF LookUp, OthersWrite, SerialOK
    <3>2. QED BY <2>4, <2>5, <3>1 DEF LookUp, Crossed, SerialOK
  <2>6. CASE ~LookUp(d)
    <3>1. crossed' = crossed
      BY <1>1, <2>6, PcStep
    <3>2. QED BY <2>4, <3>1 DEF SerialOK
  <2>7. QED BY <2>5, <2>6
<1>2. CASE Crash
  BY <1>2 DEF Crash, SerialOK, ghvars
<1>3. CASE UNCHANGED vars
  BY <1>3 DEF SerialOK, vars, jvars, ghvars
<1>4. QED BY <1>1, <1>2, <1>3 DEF Next

\* A worker that runs one job at a time never puts two report comments on a pull
\* request whose comment is always on the first page: there upsert_report_comment
\* keeps its word, whatever fails, is lost or is retried.
THEOREM SerialWorkerCommentsOnce ==
  ASSUME MaxJobs = 1, BusyPRs = {} PROVE Spec => []OneCommentPerPR
<1>1. Init => SerialOK
  BY DEF Init, SerialOK
<1>2. TypeOK /\ SerialOK /\ [Next]_vars => SerialOK'
  BY NextKeepsSerial
<1>3. TypeOK /\ SerialOK /\ OneCommentUnlessCrossed => OneCommentPerPR
  <2>1. \A n \in Nat : ~(n > 1) => n <= 1
    OBVIOUS
  <2>2. TypeOK => \A p \in PRs : Len(comments[p]) \in Nat
    BY DEF TypeOK
  <2>3. QED BY <2>1, <2>2 DEF SerialOK, OneCommentPerPR, OneCommentUnlessCrossed
<1>4. QED BY <1>1, <1>2, <1>3, CommentsUnlessCrossed, TypeCorrect, PTL DEF Spec
=============================================================================
