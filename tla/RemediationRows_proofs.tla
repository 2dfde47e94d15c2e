------------------------ MODULE RemediationRows_proofs ------------------------
(***************************************************************************)
(* Proofs about the rows that the remediation loop saves: whose they are,  *)
(* how many there are, and what the findings' statuses make of them.       *)
(***************************************************************************)
EXTENDS RemediationLoop_proofs, FiniteSetTheorems, WellFoundedInduction

\* The routes are part of every step that takes one.
USE DEF RouteNext, RoutePropose, RouteVerify

-----------------------------------------------------------------------------
(* Every row of a run is of a target that the run has reached.             *)

OnTarget == pc \in {"propose", "verify", "record_ok", "record_failed", "record_declined"}

TargetsApart ==
  \A i, j \in DOMAIN rem_targets :
    i # j => rem_targets[i] # rem_targets[j] /\ ~SamePackage(rem_targets[i], rem_targets[j])

RowsOfTargets ==
  \A k \in DOMAIN rows : rows[k].run = run =>
    \E t \in DOMAIN rem_targets : t <= rem_idx /\ rows[k].fp = rem_targets[t]

\* A row of the current target.
NewRow(outcome) ==
  \E c \in Contents : rows' = Append(rows, Row(Target, outcome, c))

\* What a step does to the rows: nothing, or one row more of its target.
LEMMA StepOnRows ==
  ASSUME TypeOK, [Next]_vars
  PROVE  \/ UNCHANGED rows
         \/ /\ OnTarget /\ pc' # "init"
            /\ UNCHANGED <<run, rem_targets, rem_idx>>
            /\ \E o \in Outcomes \cup {"failed_verification"} : NewRow(o)
<1> USE DEF channels, OnTarget, NewRow, Outcomes
<1>1. NoPatch \in Contents
  BY DEF Contents
<1>2. CASE VerifyPass
  <2>1. /\ pc = "verify"
        /\ UNCHANGED <<run, rem_targets, rem_idx>>
        /\ rows' = Append(rows, Row(Target, "verified", rem_current))
    BY <1>2 DEF VerifyPass
  <2>2. rem_current \in Contents
    BY DEF TypeOK
  <2>3. pc' # "init"
    BY <1>2 DEF VerifyPass
  <2>4. QED BY <2>1, <2>2, <2>3, Zenon
<1>3. CASE VerifyFail
  <2>1. /\ pc = "verify" /\ pc' # "init"
        /\ UNCHANGED <<run, rem_targets, rem_idx>>
        /\ rows' = Append(rows, Row(Target, "failed_verification", NoPatch))
    BY <1>3 DEF VerifyFail
  <2>2. QED BY <1>1, <2>1, Zenon
<1>4. CASE RecordOk
  BY <1>4 DEF RecordOk, Record
<1>5. CASE RecordFailed \/ RecordDeclined
  BY <1>1, <1>5 DEF RecordFailed, RecordDeclined, Record
<1>6. CASE CrashAfterSave
  BY <1>1, <1>6 DEF CrashAfterSave, TypeOK
<1>7. CASE RemInit \/ NextTarget \/ LlmUnavailable \/ ProposalRejected \/ ProposalAccepted
  BY <1>7 DEF RemInit, NextTarget, LlmUnavailable, ProposalRejected, ProposalAccepted
<1>8. CASE Finish \/ Complete \/ Crash \/ Restart \/ UNCHANGED vars
  BY <1>8 DEF Finish, Complete, Crash, Restart, vars
<1>9. QED
  BY <1>2, <1>3, <1>4, <1>5, <1>6, <1>7, <1>8 DEF Next, Step

\* What a step does to the targets: rem_init chooses them, in a run that has
\* no rows yet; rem_next goes on by one.
LEMMA StepOnTargets ==
  ASSUME TypeOK, [Next]_vars
  PROVE  \/ RemInit
         \/ UNCHANGED rem_targets /\ (Restart \/ UNCHANGED run) /\ rem_idx' \in {rem_idx, rem_idx + 1}
<1> USE DEF channels
<1>1. CASE NextTarget
  BY <1>1 DEF NextTarget
<1>2. CASE LlmUnavailable \/ ProposalRejected \/ ProposalAccepted \/ VerifyPass \/ VerifyFail
  BY <1>2 DEF LlmUnavailable, ProposalRejected, ProposalAccepted, VerifyPass, VerifyFail
<1>3. CASE RecordOk \/ RecordFailed \/ RecordDeclined \/ Finish \/ Complete
  BY <1>3 DEF RecordOk, RecordFailed, RecordDeclined, Record, Finish, Complete
<1>4. CASE Crash \/ CrashAfterSave \/ Restart \/ UNCHANGED vars
  BY <1>4 DEF Crash, CrashAfterSave, Restart, vars
<1>5. QED
  BY <1>1, <1>2, <1>3, <1>4 DEF Next, Step

\* A new row stands behind the others, which stay.
LEMMA AppendedRow ==
  ASSUME TypeOK, NEW o \in Outcomes \cup {"failed_verification"}, NewRow(o), Target \in Findings
  PROVE  LET n == Len(rows) + 1 IN
           /\ n \in Nat /\ DOMAIN rows = 1..(n - 1) /\ DOMAIN rows' = 1..n
           /\ \A k \in 1..(n - 1) : rows'[k] = rows[k]
           /\ rows'[n].run = run /\ rows'[n].fp = Target /\ rows'[n].status = o
<1>1. PICK c \in Contents : rows' = Append(rows, Row(Target, o, c))
  BY DEF NewRow
<1>2. Row(Target, o, c) \in RowType
  BY DEF Row, RowType, TypeOK
<1>3. rows \in Seq(RowType)
  BY DEF TypeOK
<1>4. rows'[Len(rows) + 1] = Row(Target, o, c)
  BY <1>1, <1>2, <1>3
<1>5. QED BY <1>1, <1>2, <1>3, <1>4 DEF Row

\* Where a node works on a target, it is one of the list.
LEMMA TargetInList ==
  ASSUME TypeOK, OnTarget
  PROVE  /\ rem_idx \in DOMAIN rem_targets /\ Target = rem_targets[rem_idx] /\ Target \in Findings
BY DEF TypeOK, OnTarget, Target

\* Targets stay apart, and every row of the run is of one that was reached.
LEMMA RowsOfTargetsInductive == Spec => [](TargetsApart /\ RowsOfTargets)
<1>1. Init => TargetsApart /\ RowsOfTargets
  BY DEF Init, TargetsApart, RowsOfTargets
<1>2. TypeOK /\ RunRows /\ RowsOfTargets /\ TargetsApart /\ [Next]_vars => TargetsApart' /\ RowsOfTargets'
  <2> SUFFICES ASSUME TypeOK, RunRows, RowsOfTargets, TargetsApart, [Next]_vars
               PROVE  TargetsApart' /\ RowsOfTargets'
    OBVIOUS
  <2>1. \A k \in DOMAIN rows : rows[k].run \in Nat
    <3>1. \A k \in DOMAIN rows : rows[k] \in RowType
      BY DEF TypeOK
    <3>2. QED BY <3>1 DEF RowType
  <2>2. CASE RemInit
    <3>1. rem_targets' \in Selections \cup {<<>>} /\ UNCHANGED <<rows, run>> /\ pc = "init"
      <4>1. PICK ts \in Selections, passes \in BOOLEAN :
              rem_targets' = IF hasTests /\ ~passes THEN <<>> ELSE ts
        BY <2>2, Zenon DEF RemInit
      <4>2. QED BY <2>2, <4>1 DEF RemInit
    <3>2. TargetsApart'
      <4>1. CASE rem_targets' = <<>>
        BY <4>1 DEF TargetsApart
      <4>2. CASE rem_targets' \in Selections
        BY <4>2, Zenon DEF Selections, TargetsApart
      <4>3. QED BY <3>1, <4>1, <4>2
    <3>3. \A k \in DOMAIN rows : rows[k].run # run
      <4>1. \A k \in DOMAIN rows : rows[k].run \in Nat /\ rows[k].run < run
        BY <2>2, <2>1 DEF RemInit, RunRows
      <4>2. QED BY <4>1 DEF TypeOK
    <3>4. QED BY <3>1, <3>2, <3>3 DEF RowsOfTargets
  <2>3. CASE UNCHANGED rem_targets /\ (Restart \/ UNCHANGED run) /\ rem_idx' \in {rem_idx, rem_idx + 1}
    <3>1. TargetsApart'
      BY <2>3 DEF TargetsApart
    <3>2. CASE UNCHANGED rows /\ UNCHANGED run
      <4>1. \A t \in DOMAIN rem_targets : t <= rem_idx => t <= rem_idx'
        BY <2>3 DEF TypeOK
      <4>2. QED BY <2>3, <3>1, <3>2, <4>1 DEF RowsOfTargets
    <3>3. CASE Restart
      <4>1. run' = run + 1 /\ rows' = rows
        BY <3>3 DEF Restart
      <4>2. \A k \in DOMAIN rows : rows[k].run \in Nat /\ rows[k].run <= run
        BY <2>1 DEF RunRows
      <4>3. QED BY <3>1, <4>1, <4>2 DEF RowsOfTargets, TypeOK
    <3>4. CASE \E o \in Outcomes \cup {"failed_verification"} :
                 NewRow(o) /\ OnTarget /\ UNCHANGED <<run, rem_targets, rem_idx>>
      <4>1. PICK o \in Outcomes \cup {"failed_verification"} :
              NewRow(o) /\ OnTarget /\ UNCHANGED <<run, rem_targets, rem_idx>>
        BY <3>4
      <4>2. rem_idx \in DOMAIN rem_targets /\ Target = rem_targets[rem_idx] /\ Target \in Findings
        BY <4>1, TargetInList
      <4>3. PICK n \in Nat : /\ DOMAIN rows = 1..(n - 1) /\ DOMAIN rows' = 1..n
                             /\ \A k \in 1..(n - 1) : rows'[k] = rows[k]
                             /\ rows'[n].fp = Target
        BY <4>1, <4>2, AppendedRow
      <4>4. \A k \in 1..n : k = n \/ k \in 1..(n - 1)
        OBVIOUS
      <4>5. rem_idx <= rem_idx
        BY DEF TypeOK
      <4>6. QED BY <3>1, <4>1, <4>2, <4>3, <4>4, <4>5 DEF RowsOfTargets
    <3>5. QED BY <2>3, <3>2, <3>3, <3>4, StepOnRows
  <2>4. QED BY <2>2, <2>3, StepOnTargets
<1>3. QED BY <1>1, <1>2, TypeCorrect, RowsOfRuns, PTL DEF Spec

-----------------------------------------------------------------------------
(* One fix for a package.                                                  *)

\* Two targets of a run never save fixes for the same package of a file,
\* which would undo one another's version.
THEOREM OneFixForPackage == Spec => []OneFixPerPackage
<1> DEFINE Apart == \A i, j \in DOMAIN rows :
                      rows[i].run = rows[j].run /\ rows[i].fp # rows[j].fp
                        => ~SamePackage(rows[i].fp, rows[j].fp)
<1>1. Init => Apart
  BY DEF Init
<1>2. TypeOK /\ TargetsApart /\ RowsOfTargets /\ Apart /\ [Next]_vars => Apart'
  <2> SUFFICES ASSUME TypeOK, TargetsApart, RowsOfTargets, Apart, [Next]_vars
               PROVE  Apart'
    OBVIOUS
  <2>1. CASE UNCHANGED rows
    BY <2>1 DEF SamePackage
  <2>2. CASE \E o \in Outcomes \cup {"failed_verification"} :
               NewRow(o) /\ OnTarget
    <3>1. PICK o \in Outcomes \cup {"failed_verification"} : NewRow(o) /\ OnTarget
      BY <2>2
    <3>2. rem_idx \in DOMAIN rem_targets /\ Target = rem_targets[rem_idx] /\ Target \in Findings
      BY <3>1, TargetInList
    <3>3. PICK n \in Nat : /\ DOMAIN rows = 1..(n - 1) /\ DOMAIN rows' = 1..n
                           /\ \A k \in 1..(n - 1) : rows'[k] = rows[k]
                           /\ rows'[n].run = run /\ rows'[n].fp = Target
      BY <3>1, <3>2, AppendedRow
    <3>4. ASSUME NEW k \in 1..(n - 1), rows[k].run = run, rows[k].fp # Target
          PROVE  ~SamePackage(rows[k].fp, Target) /\ ~SamePackage(Target, rows[k].fp)
      BY <3>2, <3>3, <3>4, Zenon DEF RowsOfTargets, TargetsApart
    <3>5. \A k \in 1..n : k = n \/ k \in 1..(n - 1)
      OBVIOUS
    <3>6. QED BY <3>3, <3>4, <3>5 DEF SamePackage
  <2>3. QED BY <2>1, <2>2, StepOnRows
<1>3. Apart => OneFixPerPackage
  BY Zenon DEF OneFixPerPackage
<1>4. QED BY <1>1, <1>2, <1>3, TypeCorrect, RowsOfTargetsInductive, PTL DEF Spec

-----------------------------------------------------------------------------
(* The statuses of the findings.                                           *)

RowOf(f, outcome) ==
  \E k \in DOMAIN rows : rows[k].run = run /\ rows[k].fp = f /\ rows[k].status = outcome

ResultOf(f, outcome) ==
  \E i \in DOMAIN rem_results : rem_results[i].fp = f /\ rem_results[i].outcome = outcome

\* The rows of the run tell the same fixes and failures as its results.
OutcomesSaved ==
  pc \notin {"init", "crashed"} => \A f \in Findings :
    /\ RowOf(f, "verified") <=> ResultOf(f, "verified") \/ (pc = "record_ok" /\ f = Target)
    /\ RowOf(f, "failed") <=> ResultOf(f, "failed")

\* Until rem_finish every finding is open.
StatusOpen == pc \notin {"done", "completed", "crashed"} => \A f \in Findings : status[f] = "open"

\* A new row is one more of its target, and nothing else.
LEMMA RowOfAppended ==
  ASSUME TypeOK, OnTarget, NEW o \in Outcomes \cup {"failed_verification"}, NewRow(o), UNCHANGED run,
         NEW f, NEW outcome
  PROVE  RowOf(f, outcome)' <=> RowOf(f, outcome) \/ (f = Target /\ outcome = o)
<1>1. Target \in Findings
  BY TargetInList
<1>2. PICK n \in Nat : /\ DOMAIN rows = 1..(n - 1) /\ DOMAIN rows' = 1..n /\ n \in 1..n
                       /\ \A k \in 1..(n - 1) : rows'[k] = rows[k]
                       /\ rows'[n].run = run /\ rows'[n].fp = Target /\ rows'[n].status = o
  <2>1. Len(rows) \in Nat
    BY DEF TypeOK
  <2>2. Len(rows) + 1 \in Nat /\ Len(rows) + 1 \in 1..(Len(rows) + 1)
    BY <2>1
  <2>3. QED BY <1>1, <2>2, AppendedRow
<1>3. \A k \in 1..n : k = n \/ k \in 1..(n - 1)
  OBVIOUS
<1>4. 1..(n - 1) \subseteq 1..n
  OBVIOUS
<1>5. QED BY <1>2, <1>3, <1>4, Zenon DEF RowOf

\* A recorded result is one more of its target.
LEMMA ResultOfRecorded ==
  ASSUME TypeOK, OnTarget, NEW o \in Outcomes, Record(o), o = "verified" => pc = "record_ok",
         NEW f, NEW outcome
  PROVE  ResultOf(f, outcome)' <=> ResultOf(f, outcome) \/ (f = Target /\ outcome = o)
<1> DEFINE r == [fp |-> Target, outcome |-> o, attempts |-> rem_history,
                 content |-> IF o = "verified" THEN rem_current ELSE NoPatch]
<1>1. r \in ResultType
  <2>1. Target \in Findings
    BY TargetInList
  <2>2. QED BY <2>1 DEF TypeOK, ResultType, Outcomes
<1>2. r.fp = Target /\ r.outcome = o
  OBVIOUS
<1>3. rem_results \in Seq(ResultType) /\ rem_results' = Append(rem_results, r)
  BY DEF TypeOK, Record
<1> HIDE DEF r
<1>4. PICK n \in Nat : /\ DOMAIN rem_results = 1..(n - 1) /\ DOMAIN rem_results' = 1..n /\ n \in 1..n
                       /\ \A k \in 1..(n - 1) : rem_results'[k] = rem_results[k]
                       /\ rem_results'[n] = r
  <2>1. Len(rem_results) + 1 \in Nat /\ Len(rem_results) + 1 \in 1..(Len(rem_results) + 1)
    BY <1>3
  <2>2. QED BY <1>1, <1>3, <2>1
<1>5. \A k \in 1..n : k = n \/ k \in 1..(n - 1)
  OBVIOUS
<1>6. 1..(n - 1) \subseteq 1..n
  OBVIOUS
<1>7. QED BY <1>2, <1>4, <1>5, <1>6, Zenon DEF ResultOf

\* A target has one result.
LEMMA ResultsApart ==
  ASSUME TypeOK, ResultsFollowTargets, TargetsApart, pc \notin {"init", "crashed"}, NEW f
  PROVE  ~(ResultOf(f, "verified") /\ ResultOf(f, "failed"))
<1>1. \A i \in DOMAIN rem_results : i \in DOMAIN rem_targets /\ rem_results[i].fp = rem_targets[i]
  BY DEF ResultsFollowTargets
<1>2. \A i, j \in DOMAIN rem_results : rem_results[i].fp = rem_results[j].fp => i = j
  BY <1>1, Zenon DEF TargetsApart
<1>3. QED BY <1>2, Zenon DEF ResultOf

\* rem_finish gives a status to the findings with a result.
LEMMA FinalStatuses ==
  ASSUME NEW f \in Findings, status[f] = "open", ~(ResultOf(f, "verified") /\ ResultOf(f, "failed"))
  PROVE  /\ FinalStatus(f) = "fixed" <=> ResultOf(f, "verified")
         /\ FinalStatus(f) = "fix_failed" <=> ResultOf(f, "failed")
BY DEF FinalStatus, ResultOf

LEMMA StatusesInductive == Spec => [](OutcomesSaved /\ StatusOpen /\ StatusAgreesWithRows)
<1> DEFINE Inv == OutcomesSaved /\ StatusOpen /\ StatusAgreesWithRows
<1>1. Init => Inv
  BY DEF Init, OutcomesSaved, StatusOpen, StatusAgreesWithRows
<1>2. TypeOK /\ RunRows /\ ResultsFollowTargets /\ TargetsApart /\ Inv /\ [Next]_vars => Inv'
  <2> SUFFICES ASSUME TypeOK, RunRows, ResultsFollowTargets, TargetsApart,
                      OutcomesSaved, StatusOpen, StatusAgreesWithRows, [Next]_vars
               PROVE  OutcomesSaved' /\ StatusOpen' /\ StatusAgreesWithRows'
    OBVIOUS
  <2> USE DEF channels
  <2>1. UNCHANGED <<rows, run>> => \A f, o : RowOf(f, o)' <=> RowOf(f, o)
    BY DEF RowOf
  <2>2. UNCHANGED rem_results => \A f, o : ResultOf(f, o)' <=> ResultOf(f, o)
    BY DEF ResultOf
  <2>3. pc' \notin {"done", "completed"} => StatusAgreesWithRows'
    BY DEF StatusAgreesWithRows
  <2>4. pc \notin {"done", "completed", "crashed"} /\ UNCHANGED status => StatusOpen'
    BY DEF StatusOpen
  <2>5. CASE RemInit
    <3>1. /\ pc = "init" /\ pc' = "next" /\ rem_results' = <<>> /\ UNCHANGED <<rows, run, status>>
      BY <2>5 DEF RemInit
    <3>2. \A k \in DOMAIN rows : rows[k].run # run
      <4>1. \A k \in DOMAIN rows : rows[k] \in RowType /\ rows[k].run < run
        BY <3>1 DEF RunRows, TypeOK
      <4>2. QED BY <4>1 DEF RowType, TypeOK
    <3>3. \A f \in Findings, o \in {"verified", "failed"} : ~RowOf(f, o)' /\ ~ResultOf(f, o)'
      BY <3>1, <3>2 DEF RowOf, ResultOf
    <3>4. QED BY <2>3, <2>4, <3>1, <3>3 DEF OutcomesSaved
  <2>6. CASE NextTarget \/ LlmUnavailable \/ ProposalRejected \/ ProposalAccepted
    <3>1. /\ pc \in {"next", "propose"} /\ pc' \notin {"record_ok", "done", "completed"}
          /\ UNCHANGED <<rows, run, rem_results, status>>
      BY <2>6 DEF NextTarget, LlmUnavailable, ProposalRejected, ProposalAccepted
    <3>2. OutcomesSaved'
      BY <2>1, <2>2, <3>1 DEF OutcomesSaved
    <3>3. QED BY <2>3, <2>4, <3>1, <3>2
  <2>7. CASE VerifyPass
    <3>1. /\ pc = "verify" /\ pc' = "record_ok" /\ Target' = Target
          /\ UNCHANGED <<run, rem_results, status>>
          /\ rows' = Append(rows, Row(Target, "verified", rem_current))
      BY <2>7 DEF VerifyPass, Target
    <3>2. OnTarget /\ NewRow("verified")
      BY <3>1 DEF OnTarget, NewRow, TypeOK
    <3>3. \A f, o : RowOf(f, o)' <=> RowOf(f, o) \/ (f = Target /\ o = "verified")
      BY <3>1, <3>2, RowOfAppended DEF Outcomes
    <3>4. OutcomesSaved'
      BY <2>2, <3>1, <3>3 DEF OutcomesSaved
    <3>5. QED BY <2>3, <2>4, <3>1, <3>4
  <2>8. CASE VerifyFail
    <3>1. /\ pc = "verify" /\ pc' \in {"record_failed", "propose"}
          /\ UNCHANGED <<run, rem_results, status>>
          /\ rows' = Append(rows, Row(Target, "failed_verification", NoPatch))
      BY <2>8 DEF VerifyFail
    <3>2. OnTarget /\ NewRow("failed_verification")
      BY <3>1 DEF OnTarget, NewRow, Contents
    <3>3. \A f, o : RowOf(f, o)' <=> RowOf(f, o) \/ (f = Target /\ o = "failed_verification")
      BY <3>1, <3>2, RowOfAppended
    <3>4. OutcomesSaved'
      BY <2>2, <3>1, <3>3 DEF OutcomesSaved
    <3>5. QED BY <2>3, <2>4, <3>1, <3>4
  <2>9. CASE RecordOk
    <3>1. /\ pc = "record_ok" /\ pc' = "next" /\ Record("verified")
          /\ UNCHANGED <<run, rows, status>>
      BY <2>9 DEF RecordOk, Record
    <3>2. \A f, o : ResultOf(f, o)' <=> ResultOf(f, o) \/ (f = Target /\ o = "verified")
      BY <3>1, ResultOfRecorded DEF OnTarget, Outcomes
    <3>3. OutcomesSaved'
      BY <2>1, <3>1, <3>2 DEF OutcomesSaved
    <3>4. QED BY <2>3, <2>4, <3>1, <3>3
  <2>10. CASE RecordFailed \/ RecordDeclined
    <3>1. PICK o \in {"failed", "declined"} : Record(o)
      BY <2>10 DEF RecordFailed, RecordDeclined
    <3>2. /\ pc \in {"record_failed", "record_declined"} /\ pc' = "next"
          /\ UNCHANGED <<run, status>>
          /\ rows' = Append(rows, Row(Target, o, NoPatch))
      BY <2>10, <3>1 DEF RecordFailed, RecordDeclined, Record
    <3>3. OnTarget /\ NewRow(o) /\ o \in Outcomes /\ o # "verified"
      BY <3>2 DEF OnTarget, NewRow, Contents, Outcomes
    <3>4. \A f, s : RowOf(f, s)' <=> RowOf(f, s) \/ (f = Target /\ s = o)
      BY <3>2, <3>3, RowOfAppended
    <3>5. \A f, s : ResultOf(f, s)' <=> ResultOf(f, s) \/ (f = Target /\ s = o)
      BY <3>1, <3>3, ResultOfRecorded
    <3>6. OutcomesSaved'
      BY <3>2, <3>3, <3>4, <3>5 DEF OutcomesSaved
    <3>7. QED BY <2>3, <2>4, <3>2, <3>6
  <2>11. CASE Finish
    <3>1. /\ pc = "finish" /\ pc' = "done" /\ UNCHANGED <<run, rows, rem_results>>
          /\ status' = [f \in Findings |-> FinalStatus(f)]
      BY <2>11 DEF Finish
    <3>2. OutcomesSaved'
      BY <2>1, <2>2, <3>1 DEF OutcomesSaved
    <3>3. ASSUME NEW f \in Findings
          PROVE  /\ status'[f] = "fixed" <=> RowOf(f, "verified")'
                 /\ status'[f] = "fix_failed" <=> RowOf(f, "failed")'
      <4>1. status[f] = "open" /\ ~(ResultOf(f, "verified") /\ ResultOf(f, "failed"))
        BY <3>1, ResultsApart DEF StatusOpen
      <4>2. status'[f] = FinalStatus(f)
        BY <3>1
      <4>3. /\ RowOf(f, "verified")' <=> ResultOf(f, "verified")
            /\ RowOf(f, "failed")' <=> ResultOf(f, "failed")
        BY <2>1, <3>1 DEF OutcomesSaved
      <4>4. QED BY <4>1, <4>2, <4>3, FinalStatuses
    <3>4. StatusAgreesWithRows'
      BY <3>3, Zenon DEF StatusAgreesWithRows, RowOf
    <3>5. QED BY <3>1, <3>2, <3>4 DEF StatusOpen
  <2>12. CASE Complete
    <3>1. pc = "done" /\ pc' = "completed" /\ UNCHANGED <<run, rows, rem_results, status>>
      BY <2>12 DEF Complete
    <3>2. OutcomesSaved' /\ StatusOpen'
      BY <2>1, <2>2, <3>1 DEF OutcomesSaved, StatusOpen
    <3>3. StatusAgreesWithRows'
      BY <3>1 DEF StatusAgreesWithRows
    <3>4. QED BY <3>2, <3>3
  <2>13. CASE Crash \/ CrashAfterSave
    <3>1. pc' = "crashed"
      BY <2>13 DEF Crash, CrashAfterSave
    <3>2. QED BY <3>1 DEF OutcomesSaved, StatusOpen, StatusAgreesWithRows
  <2>14. CASE Restart
    <3>1. pc' = "init" /\ status' = [f \in Findings |-> "open"]
      BY <2>14 DEF Restart
    <3>2. QED BY <3>1 DEF OutcomesSaved, StatusOpen, StatusAgreesWithRows
  <2>15. CASE UNCHANGED vars
    <3>1. UNCHANGED <<pc, rows, run, rem_results, status>> /\ Target' = Target
      BY <2>15 DEF vars, Target
    <3>2. OutcomesSaved' /\ StatusOpen'
      BY <2>1, <2>2, <3>1 DEF OutcomesSaved, StatusOpen
    <3>3. StatusAgreesWithRows'
      BY <3>1 DEF StatusAgreesWithRows
    <3>4. QED BY <3>2, <3>3
  <2>16. QED
    BY <2>5, <2>6, <2>7, <2>8, <2>9, <2>10, <2>11, <2>12, <2>13, <2>14, <2>15 DEF Next, Step
<1>3. QED
  BY <1>1, <1>2, TypeCorrect, RowsOfRuns, TargetsSettledInOrder, RowsOfTargetsInductive, PTL DEF Spec

\* A finding ends as fixed exactly if its run saved a verified fix for it, and
\* as failed exactly if it saved the failure.
THEOREM StatusesTellRows == Spec => []StatusAgreesWithRows
BY StatusesInductive, PTL

-----------------------------------------------------------------------------
(* What is offered for approval.                                           *)

\* A run saves one verified fix for a finding at most.
OneFixPerFinding ==
  \A i, j \in DOMAIN rows :
    /\ rows[i].run = rows[j].run /\ rows[i].fp = rows[j].fp
    /\ rows[i].status = "verified" /\ rows[j].status = "verified"
    => i = j

\* A target that is being verified has no fix of this run yet.
LEMMA TargetHasNoFix ==
  ASSUME TypeOK, ResultsFollowTargets, TargetsApart, OutcomesSaved, pc = "verify"
  PROVE  ~RowOf(Target, "verified")
<1>1. OnTarget
  BY DEF OnTarget
<1>2. rem_idx \in DOMAIN rem_targets /\ Target = rem_targets[rem_idx] /\ Target \in Findings
  BY <1>1, TargetInList
<1>3. \A i \in DOMAIN rem_results : i # rem_idx /\ i \in DOMAIN rem_targets /\ rem_results[i].fp = rem_targets[i]
  <2>1. DOMAIN rem_results = 1..(rem_idx - 1) /\ rem_idx \in Nat
    BY DEF TypeOK, ResultsFollowTargets
  <2>2. QED BY <2>1 DEF ResultsFollowTargets
<1>4. ~ResultOf(Target, "verified")
  BY <1>2, <1>3, Zenon DEF ResultOf, TargetsApart
<1>5. QED BY <1>2, <1>4 DEF OutcomesSaved

\* Only a verification that passes saves a verified row.
LEMMA StepOnFixes ==
  ASSUME TypeOK, [Next]_vars
  PROVE  \/ UNCHANGED rows
         \/ OnTarget /\ UNCHANGED run /\ \E o \in {"failed", "declined", "failed_verification"} : NewRow(o)
         \/ pc = "verify" /\ UNCHANGED run /\ NewRow("verified")
<1> USE DEF channels, OnTarget, NewRow
<1>1. NoPatch \in Contents
  BY DEF Contents
<1>2. CASE VerifyPass
  <2>1. pc = "verify" /\ UNCHANGED run /\ rows' = Append(rows, Row(Target, "verified", rem_current))
    BY <1>2 DEF VerifyPass
  <2>2. rem_current \in Contents
    BY DEF TypeOK
  <2>3. QED BY <2>1, <2>2, Zenon
<1>3. CASE VerifyFail
  <2>1. pc = "verify" /\ UNCHANGED run /\ rows' = Append(rows, Row(Target, "failed_verification", NoPatch))
    BY <1>3 DEF VerifyFail
  <2>2. QED BY <1>1, <2>1, Zenon
<1>4. CASE RecordOk
  BY <1>4 DEF RecordOk, Record
<1>5. CASE RecordFailed \/ RecordDeclined
  BY <1>1, <1>5 DEF RecordFailed, RecordDeclined, Record
<1>6. CASE CrashAfterSave
  BY <1>1, <1>6 DEF CrashAfterSave, TypeOK
<1>7. CASE RemInit \/ NextTarget \/ LlmUnavailable \/ ProposalRejected \/ ProposalAccepted
  BY <1>7 DEF RemInit, NextTarget, LlmUnavailable, ProposalRejected, ProposalAccepted
<1>8. CASE Finish \/ Complete \/ Crash \/ Restart \/ UNCHANGED vars
  BY <1>8 DEF Finish, Complete, Crash, Restart, vars
<1>9. QED
  BY <1>2, <1>3, <1>4, <1>5, <1>6, <1>7, <1>8 DEF Next, Step

LEMMA OneFixInductive == Spec => []OneFixPerFinding
<1>1. Init => OneFixPerFinding
  BY DEF Init, OneFixPerFinding
<1>2. /\ TypeOK /\ ResultsFollowTargets /\ TargetsApart /\ OutcomesSaved /\ OneFixPerFinding
      /\ [Next]_vars
      => OneFixPerFinding'
  <2> SUFFICES ASSUME TypeOK, ResultsFollowTargets, TargetsApart, OutcomesSaved,
                      OneFixPerFinding, [Next]_vars
               PROVE  OneFixPerFinding'
    OBVIOUS
  <2>1. CASE UNCHANGED rows
    BY <2>1 DEF OneFixPerFinding
  <2>2. ASSUME NEW o \in Outcomes \cup {"failed_verification"}, NewRow(o), OnTarget,
               o = "verified" => ~RowOf(Target, "verified")
        PROVE  OneFixPerFinding'
    <3>1. Target \in Findings
      BY <2>2, TargetInList
    <3>2. PICK n \in Nat : /\ DOMAIN rows = 1..(n - 1) /\ DOMAIN rows' = 1..n
                           /\ \A k \in 1..(n - 1) : rows'[k] = rows[k]
                           /\ rows'[n].run = run /\ rows'[n].fp = Target /\ rows'[n].status = o
      BY <2>2, <3>1, AppendedRow
    <3>3. \A k \in 1..n : k = n \/ k \in 1..(n - 1)
      OBVIOUS
    <3>4. ASSUME NEW k \in 1..(n - 1), rows[k].run = run, rows[k].fp = Target,
                 rows[k].status = "verified", o = "verified"
          PROVE  FALSE
      BY <2>2, <3>2, <3>4 DEF RowOf
    <3>5. QED BY <3>2, <3>3, <3>4 DEF OneFixPerFinding
  <2>3. QED BY <2>1, <2>2, StepOnFixes, TargetHasNoFix DEF Outcomes, OnTarget
<1>3. QED
  BY <1>1, <1>2, TypeCorrect, TargetsSettledInOrder, RowsOfTargetsInductive, StatusesInductive, PTL
  DEF Spec

\* The first and the last verified row of a finding are the same one.
LEMMA OneVerifiedRow ==
  ASSUME TypeOK, OneFixPerFinding, FixesOfThisRun, NEW f, NEW i \in VerifiedRows(f)
  PROVE  VerifiedRows(f) = {i} /\ Place(f) = i /\ Max(VerifiedRows(f)) = i
<1>1. VerifiedRows(f) = {i}
  BY Zenon DEF VerifiedRows, VerifiedFixes, OneFixPerFinding, FixesOfThisRun
<1>2. i \in Nat
  BY DEF VerifiedRows, TypeOK
<1>3. Min({i}) = i
  <2>1. \E x \in {i} : \A y \in {i} : x <= y
    BY <1>2
  <2>2. Min({i}) \in {i}
    BY <2>1, Zenon DEF Min
  <2>3. QED BY <2>2
<1>4. Max({i}) = i
  BY <1>2, MaxOfLatest
<1>5. QED BY <1>1, <1>3, <1>4 DEF Place

\* The fixes that are offered for a file end with the last one of this run.
LEMMA OfferedContent ==
  ASSUME TypeOK, OneFixPerFinding, FixesOfThisRun, NEW file \in Files,
         NEW i \in FixRows(file), \A j \in FixRows(file) : j <= i
  PROVE  OfferedFor(file) # {} /\ ApprovedTree[file] = rows[i].content
<1>1. /\ i \in DOMAIN rows /\ i \in Nat /\ rows[i].status = "verified"
      /\ FileOf[rows[i].fp] = file /\ rows[i].fp \in Findings
  <2>1. i \in DOMAIN rows /\ i \in Nat
    BY DEF FixRows, TypeOK
  <2>2. rows[i] \in RowType
    BY <2>1 DEF TypeOK
  <2>3. QED BY <2>1, <2>2 DEF FixRows, RowType
<1> DEFINE f == rows[i].fp
<1>2. i \in VerifiedRows(f) /\ f \in OfferedFor(file)
  BY <1>1 DEF VerifiedRows, OfferedFor, Offered
<1>3. ASSUME NEW g \in OfferedFor(file)
      PROVE  \E j \in FixRows(file) : j \in VerifiedRows(g) /\ Place(g) = j /\ rows[j].fp = g
  <2>1. PICK j \in VerifiedRows(g) : TRUE
    BY DEF OfferedFor, Offered
  <2>2. j \in FixRows(file)
    BY DEF OfferedFor, VerifiedRows, FixRows, VerifiedFixes, FixesOfThisRun
  <2>3. QED BY <2>1, <2>2, OneVerifiedRow DEF VerifiedRows
<1>4. Place(f) = i /\ Max(VerifiedRows(f)) = i
  BY <1>2, OneVerifiedRow
<1>5. \A g \in OfferedFor(file) : Place(g) <= Place(f)
  BY <1>3, <1>4
<1>6. ASSUME NEW g \in OfferedFor(file), \A h \in OfferedFor(file) : Place(h) <= Place(g)
      PROVE  g = f
  <2>1. PICK j \in FixRows(file) : j \in VerifiedRows(g) /\ Place(g) = j /\ rows[j].fp = g
    BY <1>3
  <2>2. i <= j /\ j <= i
    BY <1>2, <1>4, <1>6, <2>1
  <2>3. j \in Nat
    BY DEF FixRows, TypeOK
  <2>4. i = j
    BY <1>1, <2>2, <2>3
  <2>5. QED BY <2>1, <2>4
<1>7. f = CHOOSE g \in OfferedFor(file) : \A h \in OfferedFor(file) : Place(h) <= Place(g)
  BY <1>2, <1>5, <1>6, Zenon
<1>8. QED BY <1>2, <1>4, <1>7 DEF ApprovedTree

LEMMA CompletedTreeIsApproved ==
  ASSUME TypeOK, RootIsBasePlusFixes, OneFixPerFinding, FixesOfThisRun, pc = "completed"
  PROVE  ApprovedTree = rem_root
<1>1. ASSUME NEW file \in Files PROVE ApprovedTree[file] = rem_root[file]
  <2>1. CASE FixRows(file) = {} /\ rem_root[file] = Base[file]
    <3>1. OfferedFor(file) = {}
      BY <2>1 DEF OfferedFor, Offered, VerifiedRows, FixRows, VerifiedFixes, FixesOfThisRun
    <3>2. QED BY <2>1, <3>1 DEF ApprovedTree
  <2>2. CASE \E i \in FixRows(file) :
               (\A j \in FixRows(file) : j <= i) /\ rem_root[file] = rows[i].content
    BY <2>2, OfferedContent
  <2>3. QED BY <2>1, <2>2 DEF RootIsBasePlusFixes
<1>2. ApprovedTree = [file \in Files |-> ApprovedTree[file]]
  BY DEF ApprovedTree
<1>3. rem_root = [file \in Files |-> rem_root[file]]
  BY DEF TypeOK
<1>4. QED BY <1>1, <1>2, <1>3, Zenon

\* Committing the offered fixes gives the tree of the last verification, for
\* any number of findings, files, attempts and runs, as long as no interrupted
\* run left a verified fix (verified_remediations over the rows of the scan).
THEOREM ApprovedTreesAreRoots == Spec => []ApprovedTreeIsTheRoot
<1>1. TypeOK /\ RootIsBasePlusFixes /\ OneFixPerFinding => ApprovedTreeIsTheRoot
  BY CompletedTreeIsApproved DEF ApprovedTreeIsTheRoot
<1>2. QED BY <1>1, TypeCorrect, RootIsTheSavedFixes, OneFixInductive, PTL

\* Of the rows of a scan that were verified there is a latest one.
LEMMA LatestFix ==
  ASSUME TypeOK, VerifiedFixes # {}
  PROVE  \E i \in VerifiedFixes : \A j \in VerifiedFixes : j <= i
<1> DEFINE n == Len(rows)
           T == {k \in Nat : n - k \in VerifiedFixes}
<1>1. n \in Nat /\ VerifiedFixes \subseteq 1..n
  BY DEF TypeOK, VerifiedFixes
<1>2. T \subseteq Nat /\ T # {}
  <2>1. PICK i \in VerifiedFixes : TRUE
    OBVIOUS
  <2>2. n - i \in Nat /\ n - (n - i) = i
    BY <1>1, <2>1
  <2>3. QED BY <2>1, <2>2
<1>3. PICK k \in T : \A m \in T : ~ (<<m, k>> \in OpToRel(<, Nat))
  BY <1>2, NatLessThanWellFounded, WFMin
<1>4. ASSUME NEW j \in VerifiedFixes PROVE j <= n - k
  <2>1. j \in 1..n /\ n - j \in Nat /\ n - (n - j) = j
    BY <1>1
  <2>2. n - j \in T
    BY <2>1
  <2>3. ~ (n - j < k)
    BY <1>2, <1>3, <2>2 DEF OpToRel
  <2>4. k \in Nat
    BY <1>2, <1>3
  <2>5. QED BY <1>1, <2>1, <2>3, <2>4
<1>5. QED BY <1>3, <1>4

\* When all verified rows are of one run, its root is the tree that its last
\* verification passed in.
LEMMA RootWasVerified ==
  ASSUME TypeOK, RootIsBasePlusFixes, FixesOfThisRun, pc = "completed", VerifiedFixes # {}
  PROVE  rem_root \in VerifiedTrees
<1>1. PICK i \in VerifiedFixes : \A j \in VerifiedFixes : j <= i
  BY LatestFix
<1>2. ASSUME NEW file \in Files PROVE TreeVerifiedBy(i)[file] = rem_root[file]
  <2>1. PassedBy(i, file) = FixRows(file)
    BY <1>1 DEF PassedBy, FixRows, VerifiedFixes, FixesOfThisRun
  <2>2. FixRows(file) \in SUBSET Nat
    BY DEF FixRows, TypeOK
  <2>3. CASE FixRows(file) = {} /\ rem_root[file] = Base[file]
    BY <2>1, <2>3 DEF TreeVerifiedBy
  <2>4. ASSUME NEW j \in FixRows(file), \A k \in FixRows(file) : k <= j,
               rem_root[file] = rows[j].content
        PROVE  TreeVerifiedBy(i)[file] = rem_root[file]
    <3>1. Max(FixRows(file)) = j
      BY <2>2, <2>4, MaxOfLatest
    <3>2. QED BY <2>1, <2>4, <3>1 DEF TreeVerifiedBy
  <2>5. QED BY <2>3, <2>4 DEF RootIsBasePlusFixes
<1>3. TreeVerifiedBy(i) = [file \in Files |-> TreeVerifiedBy(i)[file]]
  BY DEF TreeVerifiedBy
<1>4. rem_root = [file \in Files |-> rem_root[file]]
  BY DEF TypeOK
<1>5. rem_root = TreeVerifiedBy(i)
  BY <1>2, <1>3, <1>4, Zenon
<1>6. QED BY <1>1, <1>5 DEF VerifiedTrees

\* An approval commits a tree that no verification saw only when the fixes of
\* two runs meet: while every verified row is of the run that completed, what is
\* approved was verified, for any number of findings, files and attempts.
THEOREM OneRunsFixesWereVerified == Spec => [](FixesOfThisRun => ApprovedTreeWasVerified)
<1>1. TypeOK /\ RootIsBasePlusFixes /\ OneFixPerFinding => (FixesOfThisRun => ApprovedTreeWasVerified)
  <2> SUFFICES ASSUME TypeOK, RootIsBasePlusFixes, OneFixPerFinding, FixesOfThisRun,
                      pc = "completed", Offered # {}
               PROVE  ApprovedTree \in VerifiedTrees
    BY DEF ApprovedTreeWasVerified
  <2>1. VerifiedFixes # {}
    BY DEF Offered, VerifiedRows, VerifiedFixes
  <2>2. QED BY <2>1, CompletedTreeIsApproved, RootWasVerified
<1>2. QED BY <1>1, TypeCorrect, RootIsTheSavedFixes, OneFixInductive, PTL

-----------------------------------------------------------------------------
(* The attempts of a target.                                               *)

Verifications(r, f) ==
  {i \in DOMAIN rows : rows[i].run = r /\ rows[i].fp = f
                        /\ rows[i].status \in {"verified", "failed_verification"}}

\* The history counts the attempts, up to the one at hand.
HistoryCounts ==
  /\ pc \in {"propose", "verify", "record_failed", "record_declined"} => rem_history = rem_attempt - 1
  /\ pc = "record_ok" => rem_history <= MaxAttempts
  /\ \A i \in DOMAIN rem_results : rem_results[i].attempts <= MaxAttempts

\* Every verification of the target at hand was an attempt before this one.
VerificationsCount ==
  /\ \A r \in Nat, f \in Findings : Cardinality(Verifications(r, f)) <= MaxAttempts
  /\ pc \in {"propose", "verify"} => Cardinality(Verifications(run, Target)) <= rem_attempt - 1

\* A run has finitely many rows.
LEMMA VerificationsFinite ==
  ASSUME TypeOK, NEW r, NEW f
  PROVE  IsFiniteSet(Verifications(r, f)) /\ Cardinality(Verifications(r, f)) \in Nat
<1>1. DOMAIN rows = 1..Len(rows) /\ Len(rows) \in Nat
  BY DEF TypeOK
<1>2. IsFiniteSet(DOMAIN rows)
  BY <1>1, FS_Interval
<1>3. Verifications(r, f) \in SUBSET (DOMAIN rows)
  BY DEF Verifications
<1>4. IsFiniteSet(Verifications(r, f))
  BY <1>2, <1>3, FS_Subset
<1>5. QED BY <1>4, FS_CardinalityType

\* A row of the target is one verification more of it at most, and none of
\* any other finding.
LEMMA VerificationsOfAppended ==
  ASSUME TypeOK, OnTarget, NEW o \in Outcomes \cup {"failed_verification"}, NewRow(o),
         NEW r, NEW f
  PROVE  /\ r # run \/ f # Target \/ o \in {"failed", "declined"} =>
              Verifications(r, f)' = Verifications(r, f)
         /\ \/ Verifications(r, f)' = Verifications(r, f)
            \/ Cardinality(Verifications(r, f)') = Cardinality(Verifications(r, f)) + 1
<1>1. Target \in Findings
  BY TargetInList
<1>2. PICK n \in Nat : /\ DOMAIN rows = 1..(n - 1) /\ DOMAIN rows' = 1..n /\ n \in 1..n
                       /\ \A k \in 1..(n - 1) : rows'[k] = rows[k]
                       /\ rows'[n].run = run /\ rows'[n].fp = Target /\ rows'[n].status = o
  <2>1. Len(rows) + 1 \in Nat /\ Len(rows) + 1 \in 1..(Len(rows) + 1)
    BY DEF TypeOK
  <2>2. QED BY <1>1, <2>1, AppendedRow
<1>3. \A k \in 1..n : k = n \/ k \in 1..(n - 1)
  OBVIOUS
<1>4. 1..(n - 1) \subseteq 1..n
  OBVIOUS
<1>5. Verifications(r, f)' \ {n} = Verifications(r, f) \ {n} /\ n \notin Verifications(r, f)
  <2>1. n \notin 1..(n - 1)
    OBVIOUS
  <2>2. QED BY <1>2, <1>3, <1>4, <2>1 DEF Verifications
<1>6. \/ Verifications(r, f)' = Verifications(r, f)
      \/ /\ Verifications(r, f)' = Verifications(r, f) \cup {n}
         /\ n \in Verifications(r, f)'
  BY <1>5
<1>7. r # run \/ f # Target \/ o \in {"failed", "declined"} => n \notin Verifications(r, f)'
  BY <1>2 DEF Verifications
<1>8. Cardinality(Verifications(r, f) \cup {n}) = Cardinality(Verifications(r, f)) + 1
  BY <1>5, VerificationsFinite, FS_AddElement
<1>9. CASE Verifications(r, f)' = Verifications(r, f)
  BY <1>9
<1>10. CASE Verifications(r, f)' = Verifications(r, f) \cup {n} /\ n \in Verifications(r, f)'
  <2>1. Cardinality(Verifications(r, f)') = Cardinality(Verifications(r, f)) + 1
    BY <1>8, <1>10, Zenon
  <2>2. QED BY <1>7, <1>10, <2>1
<1>11. QED BY <1>6, <1>9, <1>10

\* The next target has no rows in this run yet.
LEMMA NextTargetIsFresh ==
  ASSUME TypeOK, TargetsApart, RowsOfTargets, NextTarget, pc' = "propose"
  PROVE  Target' \in Findings /\ Cardinality(Verifications(run, Target)') = 0
<1>1. /\ rem_idx' = rem_idx + 1 /\ UNCHANGED <<rem_targets, rows, run>> /\ rem_idx' \in DOMAIN rem_targets
  BY DEF NextTarget, TypeOK
<1>2. Target' = rem_targets[rem_idx'] /\ Target' \in Findings
  BY <1>1 DEF Target, TypeOK
<1>3. ASSUME NEW k \in DOMAIN rows, rows[k].run = run PROVE rows[k].fp # Target'
  <2>1. PICK t \in DOMAIN rem_targets : t <= rem_idx /\ rows[k].fp = rem_targets[t]
    BY <1>3 DEF RowsOfTargets
  <2>2. t # rem_idx'
    BY <1>1, <2>1 DEF TypeOK
  <2>3. QED BY <1>1, <1>2, <2>1, <2>2 DEF TargetsApart
<1>4. Verifications(run, Target)' = {}
  BY <1>1, <1>3 DEF Verifications
<1>5. QED BY <1>2, <1>4, FS_EmptySet

\* No run verifies more than MaxAttempts patches for a finding, and no result
\* reports more attempts.
THEOREM AttemptsAreBounded == Spec => []AttemptsBounded
<1> USE ConstantsAssumption
<1>1. Init => HistoryCounts /\ VerificationsCount
  <2> SUFFICES ASSUME Init PROVE HistoryCounts /\ VerificationsCount
    OBVIOUS
  <2>1. HistoryCounts
    BY DEF Init, HistoryCounts
  <2>2. \A r, f : Cardinality(Verifications(r, f)) = 0
    <3>1. \A r, f : Verifications(r, f) = {}
      BY DEF Init, Verifications
    <3>2. QED BY <3>1, FS_EmptySet, Zenon
  <2>3. pc = "init" /\ 0 <= MaxAttempts
    BY DEF Init
  <2>4. QED BY <2>1, <2>2, <2>3 DEF VerificationsCount
<1>2. TypeOK /\ HistoryCounts /\ [Next]_vars => HistoryCounts'
  <2> SUFFICES ASSUME TypeOK, HistoryCounts, [Next]_vars
               PROVE  HistoryCounts'
    OBVIOUS
  <2> USE DEF channels
  <2>1. CASE RemInit
    BY <2>1 DEF RemInit, HistoryCounts
  <2>2. CASE NextTarget
    BY <2>2 DEF NextTarget, HistoryCounts
  <2>3. CASE LlmUnavailable
    BY <2>3 DEF LlmUnavailable, HistoryCounts
  <2>4. CASE ProposalRejected
    BY <2>4 DEF ProposalRejected, HistoryCounts, TypeOK
  <2>5. CASE ProposalAccepted
    BY <2>5 DEF ProposalAccepted, HistoryCounts
  <2>6. CASE VerifyPass
    BY <2>6 DEF VerifyPass, HistoryCounts, TypeOK
  <2>7. CASE VerifyFail
    BY <2>7 DEF VerifyFail, HistoryCounts, TypeOK
  <2>8. CASE RecordOk \/ RecordFailed \/ RecordDeclined
    <3>1. PICK o \in Outcomes : Record(o) /\ (o = "verified" => pc = "record_ok")
      BY <2>8 DEF RecordOk, RecordFailed, RecordDeclined, Outcomes
    <3> DEFINE r == [fp |-> Target, outcome |-> o, attempts |-> rem_history,
                     content |-> IF o = "verified" THEN rem_current ELSE NoPatch]
    <3>2. rem_history <= MaxAttempts
      BY <2>8 DEF RecordOk, RecordFailed, RecordDeclined, HistoryCounts, TypeOK
    <3>3. pc' = "next" /\ rem_results' = Append(rem_results, r) /\ r.attempts = rem_history
      BY <3>1 DEF Record
    <3> HIDE DEF r
    <3>4. \A i \in DOMAIN rem_results' :
            (i \in DOMAIN rem_results /\ rem_results'[i] = rem_results[i]) \/ rem_results'[i] = r
      BY <3>3 DEF TypeOK
    <3>5. QED BY <3>2, <3>3, <3>4 DEF HistoryCounts
  <2>9. CASE Finish \/ Complete
    BY <2>9 DEF Finish, Complete, HistoryCounts
  <2>10. CASE Crash \/ CrashAfterSave \/ Restart
    BY <2>10 DEF Crash, CrashAfterSave, Restart, HistoryCounts
  <2>11. CASE UNCHANGED vars
    BY <2>11 DEF vars, HistoryCounts
  <2>12. QED
    BY <2>1, <2>2, <2>3, <2>4, <2>5, <2>6, <2>7, <2>8, <2>9, <2>10, <2>11 DEF Next, Step
<1>3. /\ TypeOK /\ TypeOK' /\ RunRows /\ TargetsApart /\ RowsOfTargets /\ VerificationsCount /\ [Next]_vars
      => VerificationsCount'
  <2> SUFFICES ASSUME TypeOK, TypeOK', RunRows, TargetsApart, RowsOfTargets, VerificationsCount, [Next]_vars
               PROVE  VerificationsCount'
    OBVIOUS
  <2> USE DEF channels
  <2>1. UNCHANGED rows => \A r, f : Verifications(r, f)' = Verifications(r, f)
    BY DEF Verifications
  <2>2. UNCHANGED rows /\ pc' \notin {"propose", "verify"} => VerificationsCount'
    BY <2>1 DEF VerificationsCount
  <2>3. CASE RemInit \/ RecordOk \/ Finish \/ Complete \/ Crash \/ Restart
    BY <2>2, <2>3 DEF RemInit, RecordOk, Record, Finish, Complete, Crash, Restart
  <2>4. CASE NextTarget
    <3>1. UNCHANGED <<rows, run>> /\ rem_attempt' = 1 /\ pc' \in {"propose", "finish"}
      BY <2>4 DEF NextTarget
    <3>2. CASE pc' = "propose"
      BY <2>1, <2>4, <3>1, <3>2, NextTargetIsFresh DEF VerificationsCount
    <3>3. QED BY <2>2, <3>1, <3>2
  <2>5. CASE LlmUnavailable \/ ProposalRejected \/ ProposalAccepted
    <3>1. /\ pc = "propose" /\ UNCHANGED <<rows, run>> /\ Target' = Target
          /\ rem_attempt' \in {rem_attempt, rem_attempt + 1}
      BY <2>5 DEF LlmUnavailable, ProposalRejected, ProposalAccepted, Target
    <3>2. rem_attempt \in Nat /\ Cardinality(Verifications(run, Target)) \in Nat
      BY VerificationsFinite DEF TypeOK
    <3>3. Cardinality(Verifications(run, Target)) <= rem_attempt' - 1
      BY <3>1, <3>2 DEF VerificationsCount
    <3>4. Verifications(run, Target)' = Verifications(run, Target)
      BY <3>1 DEF Verifications
    <3>5. QED BY <2>1, <3>1, <3>3, <3>4 DEF VerificationsCount
  <2>6. ASSUME NEW o \in Outcomes \cup {"failed_verification"}, NewRow(o), OnTarget,
               pc = "verify" \/ o \in {"failed", "declined"}
        PROVE  /\ \A r \in Nat, f \in Findings : Cardinality(Verifications(r, f)') <= MaxAttempts
               /\ pc = "verify" => \A r, f : r = run /\ f = Target =>
                                     Cardinality(Verifications(r, f)') <= rem_attempt
    <3>1. pc = "verify" => rem_attempt \in 1..MaxAttempts
      BY DEF TypeOK
    <3>2. ASSUME NEW r \in Nat, NEW f \in Findings
          PROVE  Cardinality(Verifications(r, f)') <= MaxAttempts
      <4>1. CASE r # run \/ f # Target \/ o \in {"failed", "declined"}
        <5>1. Verifications(r, f)' = Verifications(r, f)
          BY <2>6, <4>1, VerificationsOfAppended
        <5>2. QED BY <5>1 DEF VerificationsCount
      <4>2. CASE r = run /\ f = Target /\ pc = "verify"
        <5>1. Cardinality(Verifications(r, f)) \in Nat /\ Cardinality(Verifications(r, f)) <= rem_attempt - 1
          BY <4>2, VerificationsFinite DEF VerificationsCount
        <5>2. \/ Verifications(r, f)' = Verifications(r, f)
              \/ Cardinality(Verifications(r, f)') = Cardinality(Verifications(r, f)) + 1
          BY <2>6, VerificationsOfAppended
        <5>3. CASE Verifications(r, f)' = Verifications(r, f)
          BY <3>1, <4>2, <5>1, <5>3
        <5>4. CASE Cardinality(Verifications(r, f)') = Cardinality(Verifications(r, f)) + 1
          BY <3>1, <4>2, <5>1, <5>4
        <5>5. QED BY <5>2, <5>3, <5>4
      <4>3. QED BY <2>6, <4>1, <4>2
    <3>3. ASSUME pc = "verify", NEW r, NEW f, r = run, f = Target
          PROVE  Cardinality(Verifications(r, f)') <= rem_attempt
      <4>1. Cardinality(Verifications(r, f)) \in Nat /\ Cardinality(Verifications(r, f)) <= rem_attempt - 1
        BY <3>3, VerificationsFinite DEF VerificationsCount
      <4>2. \/ Verifications(r, f)' = Verifications(r, f)
            \/ Cardinality(Verifications(r, f)') = Cardinality(Verifications(r, f)) + 1
        BY <2>6, VerificationsOfAppended
      <4>3. QED BY <3>1, <3>3, <4>1, <4>2
    <3>4. QED BY <3>2, <3>3
  <2>7. CASE VerifyPass \/ VerifyFail
    <3>1. PICK o \in Outcomes \cup {"failed_verification"} : NewRow(o) /\ OnTarget
      <4>1. ~UNCHANGED rows
        BY <2>7 DEF VerifyPass, VerifyFail, TypeOK
      <4>2. QED BY <4>1, StepOnRows
    <3>2. /\ pc = "verify" /\ UNCHANGED run /\ Target' = Target
          /\ pc' = "propose" => rem_attempt' = rem_attempt + 1
          /\ pc' \in {"propose", "record_ok", "record_failed"}
      BY <2>7 DEF VerifyPass, VerifyFail, Target
    <3>3. /\ \A r \in Nat, f \in Findings : Cardinality(Verifications(r, f)') <= MaxAttempts
          /\ \A r, f : r = run /\ f = Target => Cardinality(Verifications(r, f)') <= rem_attempt
      BY <2>6, <3>1, <3>2
    <3>4. pc' \in {"propose", "verify"} => Cardinality(Verifications(run, Target)') <= rem_attempt' - 1
      <4>1. Cardinality(Verifications(run, Target)') <= rem_attempt
        <5>1. PICK r, f : r = run /\ f = Target
          OBVIOUS
        <5>2. Verifications(run, Target)' = Verifications(r, f)'
          BY <3>2, <5>1 DEF Verifications
        <5>3. QED BY <3>3, <5>1, <5>2
      <4>2. rem_attempt \in Nat
        BY DEF TypeOK
      <4>3. CASE pc' = "propose"
        <5>1. rem_attempt' - 1 = rem_attempt
          BY <3>2, <4>2, <4>3
        <5>2. QED BY <4>1, <5>1
      <4>4. QED BY <3>2, <4>3
    <3>5. QED BY <3>2, <3>3, <3>4 DEF VerificationsCount
  <2>8. CASE RecordFailed \/ RecordDeclined \/ CrashAfterSave
    <3>1. /\ pc' \in {"next", "crashed"} /\ OnTarget
          /\ \E o \in Outcomes \cup {"failed_verification"} :
               NewRow(o) /\ (pc = "verify" \/ o \in {"failed", "declined"})
      <4>1. CASE RecordFailed \/ RecordDeclined
        BY <4>1 DEF RecordFailed, RecordDeclined, Record, OnTarget, NewRow, Outcomes, Contents
      <4>2. CASE CrashAfterSave
        BY <4>2 DEF CrashAfterSave, OnTarget, NewRow, Outcomes, Contents, TypeOK
      <4>3. QED BY <2>8, <4>1, <4>2
    <3>2. \A r \in Nat, f \in Findings : Cardinality(Verifications(r, f)') <= MaxAttempts
      BY <2>6, <3>1
    <3>3. QED BY <3>1, <3>2 DEF VerificationsCount
  <2>9. CASE UNCHANGED vars
    <3>1. UNCHANGED <<rows, pc, run, rem_attempt>> /\ Target' = Target
      BY <2>9 DEF vars, Target
    <3>2. Verifications(run, Target)' = Verifications(run, Target)
      BY <3>1 DEF Verifications
    <3>3. QED BY <2>1, <3>1, <3>2 DEF VerificationsCount
  <2>10. QED
    BY <2>3, <2>4, <2>5, <2>7, <2>8, <2>9 DEF Next, Step
<1>4. HistoryCounts /\ VerificationsCount /\ TypeOK => AttemptsBounded
  <2>1. TypeOK => \A r \in 1..run : r \in Nat
    BY DEF TypeOK
  <2>2. QED BY <2>1, Zenon DEF HistoryCounts, VerificationsCount, AttemptsBounded, Verifications
<1>5. QED
  BY <1>1, <1>2, <1>3, <1>4, TypeCorrect, RowsOfRuns, RowsOfTargetsInductive, PTL DEF Spec

=============================================================================
