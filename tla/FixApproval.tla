------------------------------ MODULE FixApproval ------------------------------
(***************************************************************************)
(* The human approval of the verified fixes of one scan: the rows that     *)
(* the worker saves and the dashboard shows (frontend/src/lib.ts), the     *)
(* approval endpoint (backend/api/dashboard.py), the pull request agent    *)
(* (backend/services/pr_agent.py) and the branch and pull requests at      *)
(* GitHub.                                                                 *)
(*                                                                         *)
(* Approvals run side by side with each other, with the worker that saves  *)
(* rows (the endpoint does not ask whether the scan is over) and with      *)
(* people who merge pull requests and delete branches.  Every transaction  *)
(* and every GitHub request is one step.  The content of a verified row is *)
(* its id: a tree is, for every file, the row whose content it has.        *)
(***************************************************************************)
EXTENDS Integers, Sequences, FiniteSets, FiniteSetsExt, Functions

CONSTANTS
  Findings,
  Files, FileOf,    \* the one file that a finding's fix changes
  Approvals,        \* requests to approve
  Named,            \* those whose approved_by is not blank
  WritesEnabled,    \* settings.allow_github_write
  FromFork,         \* the pull request comes from a fork
  MayFail,          \* requests get lost, processes die
  MaxRows           \* bound: rows that the worker saves

ASSUME FixApprovalAssumption ==
  /\ FileOf \in [Findings -> Files]
  /\ Named \subseteq Approvals
  /\ WritesEnabled \in BOOLEAN /\ FromFork \in BOOLEAN /\ MayFail \in BOOLEAN
  /\ MaxRows \in Nat

VARIABLES
  scanning,   \* a job of the scan is running or may run again
  rows,       \* the remediations of the scan, by id
  pc,         \* where the request is
  picked,     \* the fixes the endpoint read: per finding its place and its row
  left,       \* the findings whose fix is not committed yet
  granted,    \* approvals in the audit trail
  shown,      \* history: the rows that the loaded page counted as awaiting approval
  branch,     \* acsr/fix-<scan>
  prs         \* pull requests from that branch, by number

avars == <<pc, picked, left, granted, shown>>
vars == <<scanning, rows, avars, branch, prs>>

Untouched == [file \in Files |-> 0]
NoFixes == [f \in {} |-> 0]

Init ==
  /\ scanning = TRUE
  /\ rows = <<>>
  /\ pc = [a \in Approvals |-> "idle"]
  /\ picked = [a \in Approvals |-> NoFixes]
  /\ left = [a \in Approvals |-> {}]
  /\ granted = {}
  /\ shown = [a \in Approvals |-> {}]
  /\ branch = [live |-> FALSE, tree |-> Untouched, fixes |-> {}]
  /\ prs = <<>>
-----------------------------------------------------------------------------
(* The worker.                                                             *)

\* save_remediation, in whatever order the runs of the job come to it.
SaveRow ==
  /\ scanning /\ Len(rows) < MaxRows
  /\ \E f \in Findings, status \in {"verified", "failed_verification"} :
       rows' = Append(rows, [fp |-> f, status |-> status])
  /\ UNCHANGED <<scanning, avars, branch, prs>>

EndScan ==
  /\ scanning
  /\ scanning' = FALSE
  /\ UNCHANGED <<rows, avars, branch, prs>>
-----------------------------------------------------------------------------
(* The request to approve.                                                 *)

RowsOf(f) == {i \in DOMAIN rows : rows[i].fp = f}
VerifiedRows(f) == {i \in RowsOf(f) : rows[i].status = "verified"}

\* awaitingApproval: the latest row of a finding, if it is a verified one.
AwaitingApproval ==
  {i \in DOMAIN rows : rows[i].status = "verified" /\ \A j \in RowsOf(rows[i].fp) : j <= i}

\* verified_remediations: the latest verified row of a finding, at the place of
\* its first one.
Offered ==
  [f \in {f \in Findings : VerifiedRows(f) # {}} |->
     [place |-> Min(VerifiedRows(f)), row |-> Max(VerifiedRows(f))]]

\* The dashboard shows its button, and the rows that it is for, only when
\* something awaits approval.
View(a) ==
  /\ pc[a] = "idle"
  /\ AwaitingApproval # {}
  /\ pc' = [pc EXCEPT ![a] = "viewing"]
  /\ shown' = [shown EXCEPT ![a] = AwaitingApproval]
  /\ UNCHANGED <<scanning, rows, picked, left, granted, branch, prs>>

Acceptable(a) == WritesEnabled /\ a \in Named /\ ~FromFork /\ DOMAIN Offered # {}

\* approve_remediations: the checks, and the fixes as they are now.  The request
\* comes from the page that was loaded, or from any other client of the API.
Ask(a) ==
  /\ pc[a] \in {"idle", "viewing"}
  /\ IF Acceptable(a)
       THEN /\ picked' = [picked EXCEPT ![a] = Offered]
            /\ left' = [left EXCEPT ![a] = DOMAIN Offered]
            /\ pc' = [pc EXCEPT ![a] = "granting"]
       ELSE pc' = [pc EXCEPT ![a] = "refused"] /\ UNCHANGED <<picked, left>>
  /\ UNCHANGED <<scanning, rows, granted, branch, prs, shown>>

\* An answer that is lost: the effect is there, the request fails.
Goto(a, node) ==
  \E next \in {node} \cup (IF MayFail THEN {"failed"} ELSE {}) : pc' = [pc EXCEPT ![a] = next]

\* The approval is written to the audit trail before the first write.
Grant(a) ==
  /\ pc[a] = "granting"
  /\ granted' = granted \cup {a}
  /\ Goto(a, "create")
  /\ UNCHANGED <<scanning, rows, picked, left, branch, prs, shown>>

\* Mutant of CreateBranch: a branch that is already there is used.
CreateBranchOrReuse(a) ==
  /\ pc[a] = "create"
  /\ branch' = IF branch.live THEN branch ELSE [live |-> TRUE, tree |-> Untouched, fixes |-> {}]
  /\ Goto(a, "commit")
  /\ UNCHANGED <<scanning, rows, picked, left, granted, prs, shown>>

\* create_branch; GitHub refuses a ref that exists.
CreateBranch(a) ==
  /\ pc[a] = "create"
  /\ ~branch.live
  /\ branch' = [live |-> TRUE, tree |-> Untouched, fixes |-> {}]
  /\ Goto(a, "commit")
  /\ UNCHANGED <<scanning, rows, picked, left, granted, prs, shown>>

FirstLeft(a) ==
  CHOOSE f \in left[a] : \A g \in left[a] : picked[a][f].place <= picked[a][g].place

\* Mutant of CommitFix: one turn too many.
CommitFixOnceMore(a) ==
  /\ pc[a] = "commit"
  /\ branch.live
  /\ LET f == FirstLeft(a) IN
       /\ branch' = [branch EXCEPT !.tree[FileOf[f]] = picked[a][f].row,
                                   !.fixes = @ \cup {picked[a][f].row}]
       /\ left' = [left EXCEPT ![a] = @ \ {f}]
       /\ Goto(a, IF left[a] = {} THEN "open" ELSE "commit")
  /\ UNCHANGED <<scanning, rows, picked, granted, prs, shown>>

\* apply_patch of the next fix, in the order in which the fixes were made.
CommitFix(a) ==
  /\ pc[a] = "commit"
  /\ branch.live
  /\ LET f == FirstLeft(a) IN
       /\ branch' = [branch EXCEPT !.tree[FileOf[f]] = picked[a][f].row,
                                   !.fixes = @ \cup {picked[a][f].row}]
       /\ left' = [left EXCEPT ![a] = @ \ {f}]
       /\ Goto(a, IF left[a] = {f} THEN "open" ELSE "commit")
  /\ UNCHANGED <<scanning, rows, picked, granted, prs, shown>>

HasOpenPr == \E i \in DOMAIN prs : prs[i].state = "open"

\* create_pull_request; GitHub refuses a second one from the same branch.
OpenPr(a) ==
  /\ pc[a] = "open"
  /\ branch.live /\ ~HasOpenPr
  /\ prs' = Append(prs, [by |-> a, state |-> "open", tree |-> branch.tree, fixes |-> branch.fixes])
  /\ Goto(a, "mark")
  /\ UNCHANGED <<scanning, rows, picked, left, granted, branch, shown>>

\* Mutant of Mark: whatever awaits approval is marked.
MarkVerified(a) ==
  /\ pc[a] = "mark"
  /\ rows' = [i \in DOMAIN rows |->
                IF rows[i].status = "verified" THEN [rows[i] EXCEPT !.status = "pr_opened"] ELSE rows[i]]
  /\ Goto(a, "done")
  /\ UNCHANGED <<scanning, picked, left, granted, branch, prs, shown>>

\* mark_remediations, for the rows that were read at the start.
Mark(a) ==
  /\ pc[a] = "mark"
  /\ LET ids == {picked[a][f].row : f \in DOMAIN picked[a]} IN
       rows' = [i \in DOMAIN rows |->
                  IF i \in ids THEN [rows[i] EXCEPT !.status = "pr_opened"] ELSE rows[i]]
  /\ Goto(a, "done")
  /\ UNCHANGED <<scanning, picked, left, granted, branch, prs, shown>>

\* What GitHub answers with an error.
RefusedByGitHub(a) ==
  \/ pc[a] = "create" /\ branch.live
  \/ pc[a] = "commit" /\ ~branch.live
  \/ pc[a] = "open" /\ (~branch.live \/ HasOpenPr)

\* The request fails without an effect; what it did before stays.
Fail(a) ==
  /\ \/ RefusedByGitHub(a)
     \/ MayFail /\ pc[a] \in {"granting", "create", "commit", "open", "mark"}
  /\ pc' = [pc EXCEPT ![a] = "failed"]
  /\ UNCHANGED <<scanning, rows, picked, left, granted, branch, prs, shown>>
-----------------------------------------------------------------------------
(* People at GitHub.                                                       *)

Writing == {a \in Approvals : pc[a] \in {"commit", "open"}}

Merge ==
  /\ \E i \in DOMAIN prs : prs[i].state = "open" /\ prs' = [prs EXCEPT ![i].state = "merged"]
  /\ UNCHANGED <<scanning, rows, avars, branch>>

\* A branch is deleted after its pull request, or to clean up after an approval
\* that failed, but not under the hands of one that is still writing to it.
DeleteBranch ==
  /\ branch.live /\ Writing = {}
  /\ branch' = [branch EXCEPT !.live = FALSE]
  /\ prs' = [i \in DOMAIN prs |->
               IF prs[i].state = "open" THEN [prs[i] EXCEPT !.state = "closed"] ELSE prs[i]]
  /\ UNCHANGED <<scanning, rows, avars>>

Next ==
  \/ SaveRow \/ EndScan
  \/ \E a \in Approvals :
       \/ View(a) \/ Ask(a) \/ Grant(a) \/ CreateBranch(a) \/ CommitFix(a) \/ OpenPr(a)
       \/ Mark(a) \/ Fail(a)
  \/ Merge \/ DeleteBranch

Spec == Init /\ [][Next]_vars
-----------------------------------------------------------------------------
(* Properties.                                                             *)

Fixes == [place : 1..MaxRows, row : 1..MaxRows]
Offers == UNION {[fs -> Fixes] : fs \in SUBSET Findings}
Trees == [Files -> 0..MaxRows]

\* Every variable has its type, and what is left to commit was picked.
TypeOK ==
  /\ scanning \in BOOLEAN
  /\ rows \in Seq([fp : Findings, status : {"verified", "failed_verification", "pr_opened"}])
  /\ Len(rows) <= MaxRows
  /\ pc \in [Approvals -> {"idle", "viewing", "granting", "create", "commit", "open", "mark",
                           "done", "refused", "failed"}]
  /\ picked \in [Approvals -> Offers]
  /\ left \in [Approvals -> SUBSET Findings]
  /\ \A a \in Approvals : left[a] \subseteq DOMAIN picked[a]
  /\ \A a \in Approvals : pc[a] \in {"granting", "create", "commit"} => left[a] # {}
  /\ granted \subseteq Approvals
  /\ shown \in [Approvals -> SUBSET (1..MaxRows)]
  /\ branch \in [live : BOOLEAN, tree : Trees, fixes : SUBSET (1..MaxRows)]
  /\ prs \in Seq([by : Approvals, state : {"open", "merged", "closed"}, tree : Trees,
                  fixes : SUBSET (1..MaxRows)])

\* A row that is marked pr_opened is in a pull request: neither a lost answer nor
\* a row that was saved while the approval was under way is marked by mistake.
OpenedRowsAreInPr ==
  \A i \in DOMAIN rows : rows[i].status = "pr_opened" => \E n \in DOMAIN prs : i \in prs[n].fixes

\* The branch of an open pull request is not written to again: a later approval,
\* or the retry of a failed one, does not change what is under review.
OpenPrIsFrozen ==
  \A n \in DOMAIN prs : prs[n].state = "open" =>
    branch.live /\ branch.tree = prs[n].tree /\ branch.fixes = prs[n].fixes

\* The tree that the fixes fs of an offer give, committed in their order.
TreeOf(offer, fs) ==
  [file \in Files |->
     LET here == {f \in fs : FileOf[f] = file} IN
       IF here = {} THEN 0
       ELSE LET last == CHOOSE f \in here : \A g \in here : offer[g].place <= offer[f].place
            IN offer[last].row]

WholeTree(offer) == TreeOf(offer, DOMAIN offer)

Gate == INSTANCE FixGate WITH
  None <- NoFixes,
  Tree <- WholeTree,
  grants <- [a \in Approvals |-> IF a \in granted THEN picked[a] ELSE NoFixes],
  spent <- {prs[n].by : n \in DOMAIN prs},
  opened <- [n \in DOMAIN prs |-> prs[n].tree]

\* A pull request is opened for one named request at most once, and holds all
\* the verified fixes that the scan had when the request arrived, whole and in
\* order, and no others, however approvals, the worker, lost answers and people
\* at GitHub interleave.  What the page had shown is not part of the gate: the
\* endpoint never learns of it (ApprovedWasShown).
ImplementsFixGate == Gate!Spec

\* pr_agent.py, in the text of every pull request: "Every fix below was verified
\* automatically ... and approved by a human before this PR was opened".  A human
\* who approves on the dashboard, which shows the patch of each fix and asks
\* "Approve N verified fix(es) and open a pull request?", has been shown every
\* row that the pull request commits as one of these N.
ApprovedWasShown ==
  \A n \in DOMAIN prs :
    LET a == prs[n].by IN shown[a] # {} => prs[n].fixes \subseteq shown[a]
=============================================================================
