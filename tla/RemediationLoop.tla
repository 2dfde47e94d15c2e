--------------------------- MODULE RemediationLoop ---------------------------
(***************************************************************************)
(* The remediation subgraph of one scan job (backend/graph/remediation.py) *)
(* with the verifier it calls (backend/services/verification.py), the      *)
(* patch agent (backend/services/remediation.py) and the rows it persists  *)
(* (backend/services/store.py, save_remediation).                          *)
(*                                                                         *)
(* A source tree is what a rescan can tell about it: for every file, the   *)
(* set of issues the file still contains.  A patch is the new content of   *)
(* the one file it may touch, the finding's file.  The LLM is arbitrary:   *)
(* a patch may remove the issue or not, remove others, bring back an issue *)
(* that an earlier patch removed, or add one that was never there.         *)
(*                                                                         *)
(* A job that fails or whose worker dies is run again on the same scan row *)
(* and the same checkpointer thread: LangGraph starts over at the entry    *)
(* node but keeps the channels of the run before (Restart).                *)
(***************************************************************************)
EXTENDS Integers, Sequences, FiniteSets, FiniteSetsExt, Functions

CONSTANTS
  Findings,      \* eligible findings of the PR (confirmed, confident, new)
  Extra,         \* issues that are not in the PR and that a patch may add
  Files,
  FileOf,        \* the file of every finding and every extra issue
  PackageOf,     \* the vulnerable package of a dependency finding
  NoPackage,     \* PackageOf of a finding in code
  Reported,      \* issues that the scanners report (discovered ones they miss)
  NoPatch,       \* rem_current is None; a row without files
  MaxAttempts,   \* RemediationConfig.max_attempts
  MaxTargets,    \* RemediationConfig.max_targets
  MaxRuns,       \* bound: how often the job is run
  MaxOldRows     \* bound: how many rows a run finds that is not the first

Issues == Findings \cup Extra

ASSUME ConstantsAssumption ==
  /\ IsFiniteSet(Findings) /\ IsFiniteSet(Extra)
  /\ Findings \cap Extra = {}
  /\ FileOf \in [Issues -> Files]
  /\ NoPackage \notin Findings
  /\ Findings \subseteq DOMAIN PackageOf
  /\ Reported \subseteq Issues
  /\ NoPatch \notin SUBSET Issues
  /\ MaxAttempts \in Nat \ {0}
  /\ MaxTargets \in Nat \ {0}
  /\ MaxRuns \in Nat \ {0}
  /\ MaxOldRows \in Nat

VARIABLES
  run,           \* which run of the job this is
  pc,            \* the node about to execute, or how the run ended
  hasTests,      \* the repository has tests (has_tests)
  rem_targets, rem_idx, rem_attempt, rem_current, rem_declined,
  rem_verified, rem_retriable, rem_root, rem_results,
  rem_history,   \* how many of its entries count as an attempt
  rem_final_files,
  status,        \* FindingStatus of the findings in the graph's state
  rows           \* the remediations table, by id

channels == <<rem_targets, rem_idx, rem_attempt, rem_current, rem_declined,
              rem_verified, rem_retriable, rem_root, rem_results, rem_history,
              rem_final_files, status>>
vars == <<run, pc, hasTests, channels, rows>>
-----------------------------------------------------------------------------
(* Trees, rescans and patches.                                             *)

IssuesIn(file) == {i \in Issues : FileOf[i] = file}

\* The workspace of the pull request: every finding is in its file.
Base == [file \in Files |-> {f \in Findings : FileOf[f] = file}]

\* The tree that make_copy writes: a copy with the patched file replaced.
Patched(tree, f, content) == [tree EXCEPT ![FileOf[f]] = content]

\* What the security rescan of a tree reports.
Rescan(tree) == {i \in Reported : i \in tree[FileOf[i]]}

SamePackage(f, g) ==
  PackageOf[f] # NoPackage /\ PackageOf[f] = PackageOf[g] /\ FileOf[f] = FileOf[g]

\* Mutant of Selections: two advisories of one package are both targets.
SelectionsPerAdvisory ==
  {ts \in UNION {[1..n -> Findings] : n \in 0..MaxTargets} :
     \A i, j \in DOMAIN ts : i # j => ts[i] # ts[j]}

\* select_targets: the analyst's verdicts and priorities are the LLM's, so any
\* selection in any order, with one target per vulnerable package of a file.
Selections ==
  {ts \in UNION {[1..n -> Findings] : n \in 0..MaxTargets} :
     \A i, j \in DOMAIN ts :
       i # j => ts[i] # ts[j] /\ ~SamePackage(ts[i], ts[j])}

\* An edit of the file by the LLM that passes the guardrails (validate_patch):
\* it may do anything to the issues of that one file.
Edits(f) == SUBSET IssuesIn(FileOf[f])

\* A bump of the pinned version: the issues of other packages and of the code in
\* the file stay, the new version may still have issues or bring in new ones.
Bumps(f, tree) ==
  {c \in Edits(f) :
     \A g \in Findings \cap IssuesIn(FileOf[f]) :
       ~SamePackage(f, g) => (g \in c <=> g \in tree[FileOf[f]])}

\* What propose_patch can return for f, applied to tree.
Patches(f, tree) == IF PackageOf[f] = NoPackage THEN Edits(f) ELSE Bumps(f, tree)

\* persisting and introduced: the rescan of the patched tree is compared with
\* the findings of the scan, the verifier's baseline in every verification.
Persisting(f, tree) == f \in Rescan(tree)
Introduced(tree) == Rescan(tree) \ Findings

\* Mutants of Passed: new issues, and the issue itself, are not looked for.
PassedDespiteNew(f, tree, buildOk, checksOk) ==
  buildOk /\ hasTests /\ checksOk /\ ~Persisting(f, tree)

PassedOnTests(f, tree, buildOk, checksOk) ==
  buildOk /\ hasTests /\ checksOk /\ Introduced(tree) = {}

\* Verifier.verify: buildOk stands for build and linter, checksOk for the
\* project's tests and the scanners of the rescan having run without error.
Passed(f, tree, buildOk, checksOk) ==
  /\ buildOk
  /\ hasTests
  /\ checksOk
  /\ ~Persisting(f, tree)
  /\ Introduced(tree) = {}

Retriable(buildOk) == ~buildOk \/ hasTests
-----------------------------------------------------------------------------
Target == rem_targets[rem_idx]

\* The conditional edges of the subgraph.
RouteNext(idx) == IF idx <= Len(rem_targets) THEN "propose" ELSE "finish"

RoutePropose(declined, attempt) ==
  IF declined THEN "record_declined"
  ELSE IF attempt <= MaxAttempts THEN "propose" ELSE "record_failed"

\* Mutants of RouteVerify: one attempt too many; the recorder is skipped.
RouteVerifyLate(verified, retriable, attempt) ==
  IF verified THEN "record_ok"
  ELSE IF ~retriable \/ attempt > MaxAttempts + 1 THEN "record_failed" ELSE "propose"

RouteVerifySilently(verified, retriable, attempt) ==
  IF verified THEN "record_ok"
  ELSE IF ~retriable \/ attempt > MaxAttempts THEN "next" ELSE "propose"

RouteVerify(verified, retriable, attempt) ==
  IF verified THEN "record_ok"
  ELSE IF ~retriable \/ attempt > MaxAttempts THEN "record_failed" ELSE "propose"

Row(f, outcome, content) == [run |-> run, fp |-> f, status |-> outcome, content |-> content]

Init ==
  /\ run = 1
  /\ pc = "init"
  /\ hasTests \in BOOLEAN
  /\ rem_targets = <<>> /\ rem_idx = 0 /\ rem_attempt = 1
  /\ rem_current = NoPatch /\ rem_declined = FALSE
  /\ rem_verified = FALSE /\ rem_retriable = TRUE
  /\ rem_root = Base /\ rem_results = <<>> /\ rem_history = 0
  /\ rem_final_files = [file \in {} |-> {}]
  /\ status = [f \in Findings |-> "open"]
  /\ rows = <<>>

\* Mutants of RemInit: a retried job starts from the root, or with the results,
\* that the interrupted run left in the channels.
RemInitOnOldRoot ==
  /\ pc = "init"
  /\ \E ts \in Selections : rem_targets' = ts
  /\ rem_idx' = 0
  /\ rem_results' = <<>>
  /\ pc' = "next"
  /\ UNCHANGED <<run, hasTests, rem_root, rem_attempt, rem_current, rem_declined, rem_verified,
                 rem_retriable, rem_history, rem_final_files, status, rows>>

RemInitWithOldResults ==
  /\ pc = "init"
  /\ \E ts \in Selections : rem_targets' = ts
  /\ rem_idx' = 0
  /\ rem_root' = Base
  /\ pc' = "next"
  /\ UNCHANGED <<run, hasTests, rem_results, rem_attempt, rem_current, rem_declined, rem_verified,
                 rem_retriable, rem_history, rem_final_files, status, rows>>

\* rem_init: no targets when the tests of the unpatched tree already fail.
\* rem_idx is one more than in the code, which starts from -1.
RemInit ==
  /\ pc = "init"
  /\ \E ts \in Selections, baselinePasses \in BOOLEAN :
       rem_targets' = IF hasTests /\ ~baselinePasses THEN <<>> ELSE ts
  /\ rem_idx' = 0
  /\ rem_root' = Base
  /\ rem_results' = <<>>
  /\ pc' = "next"
  /\ UNCHANGED <<run, hasTests, rem_attempt, rem_current, rem_declined, rem_verified,
                 rem_retriable, rem_history, rem_final_files, status, rows>>

\* Mutant of NextTarget: the attempts of the last target are still counted.
NextTargetWithHistory ==
  /\ pc = "next"
  /\ rem_idx' = rem_idx + 1
  /\ rem_attempt' = 1
  /\ rem_current' = NoPatch
  /\ rem_declined' = FALSE
  /\ pc' = RouteNext(rem_idx')
  /\ UNCHANGED <<run, hasTests, rem_targets, rem_verified, rem_retriable, rem_root,
                 rem_results, rem_history, rem_final_files, status, rows>>

\* rem_next and route_next.
NextTarget ==
  /\ pc = "next"
  /\ rem_idx' = rem_idx + 1
  /\ rem_attempt' = 1
  /\ rem_current' = NoPatch
  /\ rem_history' = 0
  /\ rem_declined' = FALSE
  /\ pc' = RouteNext(rem_idx')
  /\ UNCHANGED <<run, hasTests, rem_targets, rem_verified, rem_retriable, rem_root,
                 rem_results, rem_final_files, status, rows>>

\* rem_propose when the LLM fails or its budget is spent: the target is given
\* up.  A dependency is bumped without the LLM.
LlmUnavailable ==
  /\ pc = "propose"
  /\ PackageOf[Target] = NoPackage
  /\ rem_current' = NoPatch
  /\ rem_declined' = TRUE
  /\ pc' = RoutePropose(rem_declined', rem_attempt)
  /\ UNCHANGED <<run, hasTests, rem_targets, rem_idx, rem_attempt, rem_verified, rem_retriable,
                 rem_root, rem_results, rem_history, rem_final_files, status, rows>>

\* rem_propose when a guardrail rejects the proposal: the model declined (as
\* every failure to bump a dependency counts), or it is asked again.
ProposalRejected ==
  /\ pc = "propose"
  /\ rem_current' = NoPatch
  /\ rem_declined' \in (IF PackageOf[Target] = NoPackage THEN BOOLEAN ELSE {TRUE})
  /\ rem_attempt' = rem_attempt + 1
  /\ rem_history' = rem_history + 1
  /\ pc' = RoutePropose(rem_declined', rem_attempt')
  /\ UNCHANGED <<run, hasTests, rem_targets, rem_idx, rem_verified, rem_retriable, rem_root,
                 rem_results, rem_final_files, status, rows>>

\* rem_propose when the patch passes the guardrails.
ProposalAccepted ==
  /\ pc = "propose"
  /\ rem_current' \in Patches(Target, rem_root)
  /\ pc' = "verify"
  /\ UNCHANGED <<run, hasTests, rem_targets, rem_idx, rem_attempt, rem_declined, rem_verified,
                 rem_retriable, rem_root, rem_results, rem_history, rem_final_files, status,
                 rows>>

\* Mutant of VerifyPass: the next target starts from the tree of this one.
VerifyPassInPlace ==
  /\ pc = "verify"
  /\ \E buildOk, checksOk \in BOOLEAN :
       Passed(Target, Patched(rem_root, Target, rem_current), buildOk, checksOk)
  /\ rows' = Append(rows, Row(Target, "verified", rem_current))
  /\ rem_history' = rem_history + 1
  /\ rem_verified' = TRUE
  /\ pc' = RouteVerify(rem_verified', rem_retriable, rem_attempt)
  /\ UNCHANGED <<run, hasTests, rem_targets, rem_idx, rem_attempt, rem_current, rem_declined,
                 rem_root, rem_retriable, rem_results, rem_final_files, status>>

\* rem_verify when every check passes: the row is saved with its files and the
\* patched copy becomes the base of the next target.
VerifyPass ==
  /\ pc = "verify"
  /\ LET tree == Patched(rem_root, Target, rem_current) IN
       /\ \E buildOk, checksOk \in BOOLEAN : Passed(Target, tree, buildOk, checksOk)
       /\ rem_root' = tree
  /\ rows' = Append(rows, Row(Target, "verified", rem_current))
  /\ rem_history' = rem_history + 1
  /\ rem_verified' = TRUE
  /\ pc' = RouteVerify(rem_verified', rem_retriable, rem_attempt)
  /\ UNCHANGED <<run, hasTests, rem_targets, rem_idx, rem_attempt, rem_current, rem_declined,
                 rem_retriable, rem_results, rem_final_files, status>>

\* Mutant of VerifyFail: rem_verified keeps the value that a verification
\* of the interrupted run left.
VerifyFailStale ==
  /\ pc = "verify"
  /\ \E buildOk, checksOk \in BOOLEAN :
       /\ ~Passed(Target, Patched(rem_root, Target, rem_current), buildOk, checksOk)
       /\ rem_retriable' = Retriable(buildOk)
  /\ rows' = Append(rows, Row(Target, "failed_verification", NoPatch))
  /\ rem_history' = rem_history + 1
  /\ rem_attempt' = rem_attempt + 1
  /\ pc' = RouteVerify(rem_verified, rem_retriable', rem_attempt')
  /\ UNCHANGED <<run, hasTests, rem_targets, rem_idx, rem_current, rem_declined, rem_verified,
                 rem_root, rem_results, rem_final_files, status>>

\* Mutant of VerifyFail: a failed verification leaves no trace and counts for
\* nothing.
VerifyFailUncounted ==
  /\ pc = "verify"
  /\ \E buildOk, checksOk \in BOOLEAN :
       /\ ~Passed(Target, Patched(rem_root, Target, rem_current), buildOk, checksOk)
       /\ rem_retriable' = Retriable(buildOk)
  /\ rem_verified' = FALSE
  /\ pc' = RouteVerify(rem_verified', rem_retriable', rem_attempt)
  /\ UNCHANGED <<run, hasTests, rem_targets, rem_idx, rem_attempt, rem_current, rem_declined,
                 rem_root, rem_results, rem_history, rem_final_files, status, rows>>

\* rem_verify when a check fails, and route_verify.
VerifyFail ==
  /\ pc = "verify"
  /\ \E buildOk, checksOk \in BOOLEAN :
       /\ ~Passed(Target, Patched(rem_root, Target, rem_current), buildOk, checksOk)
       /\ rem_retriable' = Retriable(buildOk)
  /\ rows' = Append(rows, Row(Target, "failed_verification", NoPatch))
  /\ rem_history' = rem_history + 1
  /\ rem_verified' = FALSE
  /\ rem_attempt' = rem_attempt + 1
  /\ pc' = RouteVerify(rem_verified', rem_retriable', rem_attempt')
  /\ UNCHANGED <<run, hasTests, rem_targets, rem_idx, rem_current, rem_declined, rem_root,
                 rem_results, rem_final_files, status>>

\* The recorder of one outcome: a result, and a row unless rem_verify saved it.
Record(outcome) ==
  /\ rem_results' = Append(rem_results,
       [fp |-> Target, outcome |-> outcome, attempts |-> rem_history,
        content |-> IF outcome = "verified" THEN rem_current ELSE NoPatch])
  /\ rows' = IF outcome = "verified" THEN rows ELSE Append(rows, Row(Target, outcome, NoPatch))
  /\ rem_verified' = FALSE
  /\ rem_retriable' = TRUE
  /\ pc' = "next"
  /\ UNCHANGED <<run, hasTests, rem_targets, rem_idx, rem_attempt, rem_current, rem_declined,
                 rem_root, rem_history, rem_final_files, status>>

RecordOk == pc = "record_ok" /\ Record("verified")
RecordFailed == pc = "record_failed" /\ Record("failed")
RecordDeclined == pc = "record_declined" /\ Record("declined")

VerifiedResults == {i \in DOMAIN rem_results : rem_results[i].outcome = "verified"}
VerifiedResultsIn(file) == {i \in VerifiedResults : FileOf[rem_results[i].fp] = file}

\* The status rem_finish gives a finding: that of its result, if it has one.
FinalStatus(f) ==
  LET mine == {i \in DOMAIN rem_results : rem_results[i].fp = f} IN
    CASE \E i \in mine : rem_results[i].outcome = "verified" -> "fixed"
      [] \E i \in mine : rem_results[i].outcome = "failed" -> "fix_failed"
      [] OTHER -> status[f]

\* Mutant of Finish: the first content of a file wins.
FinishFirstWins ==
  /\ pc = "finish"
  /\ status' = [f \in Findings |-> FinalStatus(f)]
  /\ rem_final_files' =
       [file \in {file \in Files : VerifiedResultsIn(file) # {}} |->
          rem_results[Min(VerifiedResultsIn(file))].content]
  /\ pc' = "done"
  /\ UNCHANGED <<run, hasTests, rem_targets, rem_idx, rem_attempt, rem_current, rem_declined,
                 rem_verified, rem_retriable, rem_root, rem_results, rem_history, rows>>

\* rem_finish: the statuses, and the files of the verified results merged in
\* order, the last content of a file winning.
Finish ==
  /\ pc = "finish"
  /\ status' = [f \in Findings |-> FinalStatus(f)]
  /\ rem_final_files' =
       [file \in {file \in Files : VerifiedResultsIn(file) # {}} |->
          rem_results[Max(VerifiedResultsIn(file))].content]
  /\ pc' = "done"
  /\ UNCHANGED <<run, hasTests, rem_targets, rem_idx, rem_attempt, rem_current, rem_declined,
                 rem_verified, rem_retriable, rem_root, rem_results, rem_history, rows>>

\* run_scan saves the findings and completes the scan row (see ScanJobs).
Complete ==
  /\ pc = "done"
  /\ pc' = "completed"
  /\ UNCHANGED <<run, hasTests, channels, rows>>

Running == pc \notin {"completed", "crashed"}

\* The job fails or its worker dies before a node's result is checkpointed: a
\* tool call raised, the job timed out, the database was lost.
Crash ==
  /\ Running
  /\ pc' = "crashed"
  /\ UNCHANGED <<run, hasTests, channels, rows>>

\* ... or dies inside a node after its row was saved.
CrashAfterSave ==
  /\ \/ /\ pc = "verify"
        /\ \E buildOk, checksOk \in BOOLEAN :
             LET passed == Passed(Target, Patched(rem_root, Target, rem_current), buildOk, checksOk) IN
               rows' = Append(rows, IF passed THEN Row(Target, "verified", rem_current)
                                    ELSE Row(Target, "failed_verification", NoPatch))
     \/ pc = "record_failed" /\ rows' = Append(rows, Row(Target, "failed", NoPatch))
     \/ pc = "record_declined" /\ rows' = Append(rows, Row(Target, "declined", NoPatch))
  /\ pc' = "crashed"
  /\ UNCHANGED <<run, hasTests, channels>>

\* The job is run again on the same row: start_scan drops the findings but
\* not the remediation rows, and the graph starts over with stale channels, of
\* which only the findings are written before rem_init reads them.
Restart ==
  /\ pc = "crashed"
  /\ run < MaxRuns /\ Len(rows) <= MaxOldRows
  /\ run' = run + 1
  /\ pc' = "init"
  /\ status' = [f \in Findings |-> "open"]
  /\ UNCHANGED <<hasTests, rem_targets, rem_idx, rem_attempt, rem_current, rem_declined,
                 rem_verified, rem_retriable, rem_root, rem_results, rem_history,
                 rem_final_files, rows>>

Step ==
  \/ RemInit \/ NextTarget
  \/ LlmUnavailable \/ ProposalRejected \/ ProposalAccepted
  \/ VerifyPass \/ VerifyFail
  \/ RecordOk \/ RecordFailed \/ RecordDeclined
  \/ Finish \/ Complete

Next == Step \/ Crash \/ CrashAfterSave \/ Restart

Spec == Init /\ [][Next]_vars

\* Every node returns: the LLM client, the sandbox and the scanners have
\* timeouts, so a run that is not interrupted goes on.
FairSpec == Spec /\ WF_vars(Step)
-----------------------------------------------------------------------------
(* Properties.                                                             *)

Outcomes == {"verified", "failed", "declined"}
Contents == (SUBSET Issues) \cup {NoPatch}
RowType == [run : Nat, fp : Findings, status : Outcomes \cup {"failed_verification"},
            content : Contents]
ResultType ==
  [fp : Findings, outcome : {"verified"}, attempts : Nat, content : SUBSET Issues] \cup
  [fp : Findings, outcome : {"failed", "declined"}, attempts : Nat, content : {NoPatch}]

FlagsOK ==
  /\ hasTests \in BOOLEAN
  /\ rem_declined \in BOOLEAN /\ rem_verified \in BOOLEAN /\ rem_retriable \in BOOLEAN

\* Every variable has its type, and a node that works on a target has one.
TypeOK ==
  /\ run \in 1..MaxRuns
  /\ pc \in {"init", "next", "propose", "verify", "record_ok", "record_failed",
             "record_declined", "finish", "done", "completed", "crashed"}
  /\ FlagsOK
  /\ rem_targets \in Seq(Findings)
  /\ rem_idx \in Nat
  /\ pc \in {"propose", "verify", "record_ok", "record_failed", "record_declined"} =>
       rem_idx \in 1..Len(rem_targets)
  /\ rem_attempt \in 1..(MaxAttempts + 1)
  /\ pc \in {"propose", "verify"} => rem_attempt \in 1..MaxAttempts
  /\ rem_current \in Contents
  /\ pc \in {"verify", "record_ok"} => rem_current \in SUBSET Issues
  /\ rem_root \in [Files -> SUBSET Issues]
  /\ rem_results \in Seq(ResultType)
  /\ rem_history \in Nat
  /\ rem_final_files \in UNION {[files -> SUBSET Issues] : files \in SUBSET Files}
  /\ status \in [Findings -> {"open", "fixed", "fix_failed"}]
  /\ rows \in Seq(RowType)

\* README: a patch that fails is retried "at most 3 times".  No run verifies
\* more than MaxAttempts patches for one finding, whatever mix of rejected and
\* failing proposals it goes through, and no result reports more attempts.
AttemptsBounded ==
  /\ \A i \in DOMAIN rem_results : rem_results[i].attempts <= MaxAttempts
  /\ \A r \in 1..run, f \in Findings :
       Cardinality({i \in DOMAIN rows : rows[i].run = r /\ rows[i].fp = f
                      /\ rows[i].status \in {"verified", "failed_verification"}}) <= MaxAttempts

\* The results are those of the targets, one each and in the order in which
\* the targets were taken: no target is skipped, settled twice or overtaken.
ResultsFollowTargets ==
  /\ pc \in {"propose", "verify", "record_ok", "record_failed", "record_declined"} =>
       Len(rem_results) = rem_idx - 1
  /\ pc = "next" => Len(rem_results) = rem_idx
  /\ pc \in {"finish", "done", "completed"} => Len(rem_results) = Len(rem_targets)
  /\ pc # "init" /\ pc # "crashed" =>
       \A i \in DOMAIN rem_results : i \in DOMAIN rem_targets /\ rem_results[i].fp = rem_targets[i]

\* A fix is recorded only for the patch that was verified in this very run for
\* this target: the newest row is that verification and the patched file of
\* the root is that patch.  A stale rem_verified or rem_current of an
\* interrupted run never leaks into a later one.
FixWasVerified ==
  pc = "record_ok" =>
    /\ rem_verified
    /\ rows # <<>>
    /\ rows[Len(rows)] = Row(Target, "verified", rem_current)
    /\ rem_root[FileOf[Target]] = rem_current

\* The rows of this run that were saved as verified fixes of a file.
FixRows(file) ==
  {i \in DOMAIN rows : rows[i].run = run /\ rows[i].status = "verified" /\ FileOf[rows[i].fp] = file}

\* "Patches accumulate": the tree a target is verified against is the pull
\* request with exactly the saved fixes of this run applied, in order, and no
\* trace of a patch that was rejected or failed.
RootIsBasePlusFixes ==
  pc \notin {"init", "crashed"} =>
    \A file \in Files :
      \/ FixRows(file) = {} /\ rem_root[file] = Base[file]
      \/ \E i \in FixRows(file) :
           (\A j \in FixRows(file) : j <= i) /\ rem_root[file] = rows[i].content

\* The files that rem_finish merges from the results give the tree that the
\* last verified target was checked in: what is reported as patched content
\* was built and tested together.
MergedFilesAreTheVerifiedTree ==
  pc \in {"done", "completed"} =>
    \A file \in Files :
      rem_root[file] = IF file \in DOMAIN rem_final_files THEN rem_final_files[file] ELSE Base[file]

\* architecture.md, "What fix verified means", 4 and 5: no saved fix leaves its
\* own issue or an issue that was not in the pull request in a rescan, and no
\* other kind of row carries files that an approval could commit.
SavedFixesAreClean ==
  \A i \in DOMAIN rows :
    IF rows[i].status = "verified"
      THEN /\ rows[i].fp \in Reported => rows[i].fp \notin rows[i].content
           /\ rows[i].content \cap Extra \cap Reported = {}
      ELSE rows[i].content = NoPatch

\* A finding ends as fixed exactly if this run saved a verified fix for it, and
\* as fix_failed exactly if it saved the failure, although the rows of the
\* interrupted runs before it are still there.
StatusAgreesWithRows ==
  pc \in {"done", "completed"} =>
    \A f \in Findings :
      /\ status[f] = "fixed" <=>
           \E i \in DOMAIN rows : rows[i].run = run /\ rows[i].fp = f /\ rows[i].status = "verified"
      /\ status[f] = "fix_failed" <=>
           \E i \in DOMAIN rows : rows[i].run = run /\ rows[i].fp = f /\ rows[i].status = "failed"

\* A bump of a package is proposed once per file and run: no two targets of a
\* run save fixes for the same package, which would undo one another's version.
OneFixPerPackage ==
  \A i, j \in DOMAIN rows :
    /\ rows[i].run = rows[j].run /\ rows[i].fp # rows[j].fp
    /\ rows[i].status = "verified" /\ rows[j].status = "verified"
    => ~SamePackage(rows[i].fp, rows[j].fp)

\* The root of a run moves only by a patch that passed every check for the
\* current target, and only in the file of that target.
RootMovesOnlyByVerifiedFix ==
  [][pc # "init" /\ rem_root' # rem_root =>
       /\ pc = "verify"
       /\ \A file \in Files : file # FileOf[Target] => rem_root'[file] = rem_root[file]
       /\ ~Persisting(Target, rem_root')
       /\ Introduced(rem_root') = {}]_vars

\* Every run ends: its retries are bounded and every target is settled.
RunEnds == Running ~> pc \in {"completed", "crashed"}

\* What the scan row offers for approval, verified_remediations: per finding
\* the latest of its verified rows, placed where the first of them stands.
VerifiedRows(f) == {i \in DOMAIN rows : rows[i].status = "verified" /\ rows[i].fp = f}
Offered == {f \in Findings : VerifiedRows(f) # {}}
OfferedFor(file) == {f \in Offered : FileOf[f] = file}
Place(f) == Min(VerifiedRows(f))

\* The tree of the fix branch when every offered fix is committed in order.
ApprovedTree ==
  [file \in Files |->
     IF OfferedFor(file) = {} THEN Base[file]
     ELSE LET last == CHOOSE f \in OfferedFor(file) : \A g \in OfferedFor(file) : Place(g) <= Place(f)
          IN rows[Max(VerifiedRows(last))].content]

VerifiedFixes == {i \in DOMAIN rows : rows[i].status = "verified"}

\* The verifications of a run that had passed in a file when row i was saved.
PassedBy(i, file) ==
  {j \in VerifiedFixes : j <= i /\ rows[j].run = rows[i].run /\ FileOf[rows[j].fp] = file}

\* The tree in which the verification of row i passed: the pull request with the
\* fixes of its run up to this one, as RootIsBasePlusFixes says of the root.
TreeVerifiedBy(i) ==
  [file \in Files |->
     IF PassedBy(i, file) = {} THEN Base[file] ELSE rows[Max(PassedBy(i, file))].content]

VerifiedTrees == {TreeVerifiedBy(i) : i \in VerifiedFixes}

\* remediation.py: "later fixes are verified against the code as it will actually
\* be merged".  The tree that an approval of all offered fixes of a completed
\* scan commits is one in which some verification of this scan has passed, in
\* whichever run of the job.
ApprovedTreeWasVerified ==
  pc = "completed" /\ Offered # {} => ApprovedTree \in VerifiedTrees

\* No interrupted run has left a verified row.
FixesOfThisRun == \A i \in VerifiedFixes : rows[i].run = run

\* What a human can approve is what was tested together: as long as no verified
\* row is left of an interrupted run, committing the offered fixes of a completed
\* scan in their order, file by file, gives the very root that the last of
\* its verifications passed in.
ApprovedTreeIsTheRoot == pc = "completed" /\ FixesOfThisRun => ApprovedTree = rem_root
-----------------------------------------------------------------------------
(* The loop implements FixSession.  A verified target is settled when its  *)
(* row is saved, a given-up target when its outcome is recorded.           *)

Idle == pc \in {"init", "crashed"}

CleanFix(f, content) ==
  (f \in Reported => f \notin content) /\ content \cap Extra \cap Reported = {}

ResultOutcomes == [i \in DOMAIN rem_results |-> rem_results[i].outcome]

Session == INSTANCE FixSession WITH
  Contents <- SUBSET Issues,
  Clean <- CleanFix,
  phase <- IF Idle THEN "waiting" ELSE IF pc \in {"done", "completed"} THEN "ended" ELSE "working",
  targets <- IF Idle THEN <<>> ELSE rem_targets,
  outcomes <- IF Idle THEN <<>>
              ELSE IF pc = "record_ok" THEN Append(ResultOutcomes, "verified") ELSE ResultOutcomes,
  tree <- IF Idle THEN Base ELSE rem_root

\* Seen from the outcomes and the tree, retries, stale channels, rejected
\* proposals and crashes inside a node are invisible.
ImplementsFixSession == Session!Spec
=============================================================================
