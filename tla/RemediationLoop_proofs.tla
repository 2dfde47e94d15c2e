------------------------ MODULE RemediationLoop_proofs ------------------------
(***************************************************************************)
(* Proofs about the remediation loop for every choice of findings, files,  *)
(* packages and bounds.                                                    *)
(***************************************************************************)
EXTENDS RemediationLoop, SequenceTheorems, TLAPS

\* The routes are part of every step that takes one.
USE DEF RouteNext, RoutePropose, RouteVerify

-----------------------------------------------------------------------------
(* The operators the actions are built from.                               *)

\* What rem_init can choose is a list of findings.
LEMMA SelectionsAreLists == Selections \subseteq Seq(Findings)
<1>1. ASSUME NEW ts \in Selections PROVE ts \in Seq(Findings)
  <2>1. PICK n \in 0..MaxTargets : ts \in [1..n -> Findings]
    BY <1>1, Zenon DEF Selections
  <2>2. n \in Nat
    BY <2>1, ConstantsAssumption
  <2>3. QED BY <2>1, <2>2, SeqDef
<1>2. QED BY <1>1

\* A patch is a content of the target's file, and the patched tree is a tree.
LEMMA PatchesAreContents ==
  ASSUME NEW f \in Findings, NEW tree \in [Files -> SUBSET Issues]
  PROVE  /\ Patches(f, tree) \subseteq SUBSET Issues
         /\ \A c \in SUBSET Issues : Patched(tree, f, c) \in [Files -> SUBSET Issues]
<1>1. FileOf[f] \in Files
  BY ConstantsAssumption DEF Issues
<1>2. Patches(f, tree) \subseteq SUBSET Issues
  BY DEF Patches, Edits, Bumps, IssuesIn
<1>3. ASSUME NEW c \in SUBSET Issues
      PROVE  Patched(tree, f, c) \in [Files -> SUBSET Issues]
  BY <1>1 DEF Patched
<1>4. QED BY <1>2, <1>3

\* Max is the greatest element wherever there is one.
LEMMA MaxOfLatest ==
  ASSUME NEW S \in SUBSET Nat, NEW i \in S, \A j \in S : j <= i
  PROVE  Max(S) = i
<1>1. \A y \in S : i >= y OBVIOUS
<1>2. \E x \in S : \A y \in S : x >= y BY <1>1
<1>3. Max(S) \in S /\ \A y \in S : Max(S) >= y BY <1>2, Zenon DEF Max
<1>4. \A m \in S : (\A y \in S : m >= y) => m = i OBVIOUS
<1>5. QED BY <1>3, <1>4, Zenon

-----------------------------------------------------------------------------
(* Type correctness.  rem_finish reads the latest verified result of each  *)
(* file, so the proof carries the fact that there is one.                  *)

LatestExists ==
  \A file \in Files : 
    VerifiedResultsIn(file) # {} =>
      \E i \in VerifiedResultsIn(file) : \A j \in VerifiedResultsIn(file) : j <= i

\* Settling a target appends a result of the right type.
LEMMA RecordKeepsTypes ==
  ASSUME TypeOK, LatestExists, NEW outcome \in Outcomes, Record(outcome),
         pc \in {"record_ok", "record_failed", "record_declined"},
         outcome = "verified" <=> pc = "record_ok"
  PROVE  TypeOK' /\ LatestExists'
<1> DEFINE r == [fp |-> Target, outcome |-> outcome, attempts |-> rem_history,
                 content |-> IF outcome = "verified" THEN rem_current ELSE NoPatch]
<1>1. Target \in Findings
  BY DEF TypeOK, Target
<1>2. r \in ResultType
  BY <1>1 DEF TypeOK, ResultType, Outcomes
<1>3. rem_results' = Append(rem_results, r)
  BY DEF Record
<1>4. rem_results' \in Seq(ResultType)
  BY <1>2, <1>3 DEF TypeOK
<1>5. Row(Target, outcome, NoPatch) \in RowType
  BY <1>1 DEF TypeOK, Row, RowType, Contents, Outcomes
<1>6. rows' \in Seq(RowType)
  BY <1>5 DEF TypeOK, Record
<1>7. TypeOK'
  <2>1. FlagsOK'
    BY Zenon DEF TypeOK, Record, FlagsOK
  <2>2. QED BY <1>4, <1>6, <2>1 DEF TypeOK, Record
<1>8. LatestExists'
  <2> SUFFICES ASSUME NEW file \in Files, VerifiedResultsIn(file)' # {}
               PROVE  \E i \in VerifiedResultsIn(file)' : \A j \in VerifiedResultsIn(file)' : j <= i
    BY DEF LatestExists
  <2> DEFINE n == Len(rem_results) + 1
  <2>1. /\ rem_results \in Seq(ResultType) /\ n \in Nat
        /\ DOMAIN rem_results = 1..(n - 1) /\ DOMAIN rem_results' = 1..n
        /\ \A i \in 1..(n - 1) : rem_results'[i] = rem_results[i]
    BY <1>2, <1>3 DEF TypeOK
  <2>2. VerifiedResultsIn(file)' \subseteq VerifiedResultsIn(file) \cup {n}
    BY <2>1 DEF VerifiedResultsIn, VerifiedResults
  <2>3. VerifiedResultsIn(file) \subseteq VerifiedResultsIn(file)' /\ VerifiedResultsIn(file) \subseteq 1..(n - 1)
    BY <2>1 DEF VerifiedResultsIn, VerifiedResults
  <2>4. CASE n \in VerifiedResultsIn(file)'
    BY <2>1, <2>2, <2>3, <2>4
  <2>5. CASE n \notin VerifiedResultsIn(file)'
    <3>1. VerifiedResultsIn(file)' = VerifiedResultsIn(file)
      BY <2>2, <2>3, <2>5
    <3>2. QED BY <3>1 DEF LatestExists
  <2>6. QED BY <2>4, <2>5
<1>9. QED BY <1>7, <1>8

\* Merging the results gives files of the right type, and statuses.
LEMMA FinishKeepsTypes ==
  ASSUME TypeOK, LatestExists, Finish
  PROVE  TypeOK' /\ LatestExists'
<1>1. ASSUME NEW file \in Files, VerifiedResultsIn(file) # {}
      PROVE  rem_results[Max(VerifiedResultsIn(file))].content \in SUBSET Issues
  <2>1. PICK i \in VerifiedResultsIn(file) : \A j \in VerifiedResultsIn(file) : j <= i
    BY <1>1 DEF LatestExists
  <2>2. VerifiedResultsIn(file) \subseteq 1..Len(rem_results)
    BY DEF TypeOK, VerifiedResultsIn, VerifiedResults
  <2>3. Max(VerifiedResultsIn(file)) = i
    BY <2>1, <2>2, MaxOfLatest
  <2>4. rem_results[i] \in ResultType /\ rem_results[i].outcome = "verified"
    BY <2>1, <2>2 DEF TypeOK, VerifiedResultsIn, VerifiedResults
  <2>5. QED BY <2>3, <2>4 DEF ResultType
<1>2. rem_final_files' \in UNION {[files -> SUBSET Issues] : files \in SUBSET Files}
  <2> DEFINE patched == {file \in Files : VerifiedResultsIn(file) # {}}
             merged == [file \in patched |-> rem_results[Max(VerifiedResultsIn(file))].content]
  <2>1. rem_final_files' = merged
    BY Zenon DEF Finish
  <2>2. merged \in [patched -> SUBSET Issues]
    BY <1>1
  <2>3. patched \in SUBSET Files
    OBVIOUS
  <2>4. QED BY <2>1, <2>2, <2>3, Zenon
<1>3. status' \in [Findings -> {"open", "fixed", "fix_failed"}]
  <2>1. ASSUME NEW f \in Findings PROVE FinalStatus(f) \in {"open", "fixed", "fix_failed"}
    BY DEF FinalStatus, TypeOK
  <2>2. QED BY <2>1 DEF Finish
<1>4. LatestExists'
  BY DEF Finish, LatestExists, VerifiedResultsIn, VerifiedResults
<1>5. FlagsOK'
  BY DEF Finish, TypeOK, FlagsOK
<1>6. QED BY <1>2, <1>3, <1>4, <1>5 DEF Finish, TypeOK

\* Every step keeps the type of every variable.
LEMMA StepKeepsTypes ==
  ASSUME TypeOK, LatestExists, [Next]_vars
  PROVE  TypeOK' /\ LatestExists'
<1> USE ConstantsAssumption DEF channels
<1>1. UNCHANGED rem_results => LatestExists'
  BY DEF LatestExists, VerifiedResultsIn, VerifiedResults
<1>2. pc \in {"propose", "verify", "record_ok", "record_failed", "record_declined"} => Target \in Findings
  BY DEF TypeOK, Target
<1>3. ASSUME NEW outcome \in {"verified", "failed_verification", "failed", "declined"},
             NEW c \in Contents, Target \in Findings
      PROVE  Append(rows, Row(Target, outcome, c)) \in Seq(RowType)
  <2>1. Row(Target, outcome, c) \in RowType
    BY <1>3 DEF TypeOK, Row, RowType, Outcomes
  <2>2. QED BY <2>1 DEF TypeOK
<1>0. FlagsOK'
  <2>1. FlagsOK
    BY DEF TypeOK
  <2>2. CASE ProposalRejected
    <3>1. rem_declined' \in BOOLEAN
      BY <2>2, Zenon DEF ProposalRejected
    <3>2. QED BY <2>1, <2>2, <3>1, Zenon DEF ProposalRejected, FlagsOK
  <2>3. CASE VerifyFail
    <3>1. rem_retriable' \in BOOLEAN
      BY <2>3, Zenon DEF VerifyFail, Retriable
    <3>2. QED BY <2>1, <2>3, <3>1, Zenon DEF VerifyFail, FlagsOK
  <2>4. CASE RemInit \/ NextTarget \/ LlmUnavailable
    BY <2>1, <2>4, Zenon DEF FlagsOK, RemInit, NextTarget, LlmUnavailable
  <2>5. CASE ProposalAccepted \/ VerifyPass \/ Finish \/ Complete
    BY <2>1, <2>5, Zenon DEF FlagsOK, ProposalAccepted, VerifyPass, Finish, Complete
  <2>6. CASE RecordOk \/ RecordFailed \/ RecordDeclined
    BY <2>1, <2>6, Zenon DEF FlagsOK, RecordOk, RecordFailed, RecordDeclined, Record
  <2>7. CASE Crash \/ CrashAfterSave \/ Restart \/ UNCHANGED vars
    BY <2>1, <2>7, Zenon DEF FlagsOK, Crash, CrashAfterSave, Restart, vars
  <2>8. QED
    BY <2>2, <2>3, <2>4, <2>5, <2>6, <2>7, Zenon DEF Next, Step
<1>4. CASE RemInit
  <2>1. Base \in [Files -> SUBSET Issues]
    BY DEF Base, Issues
  <2>2. rem_targets' \in Seq(Findings)
    BY <1>4, SelectionsAreLists DEF RemInit
  <2>3. TypeOK'
    BY <1>0, <1>4, <2>1, <2>2 DEF RemInit, TypeOK
  <2>4. LatestExists'
    BY <1>4 DEF RemInit, LatestExists, VerifiedResultsIn, VerifiedResults
  <2>5. QED BY <2>3, <2>4
<1>5. CASE NextTarget
  BY <1>0, <1>1, <1>5 DEF NextTarget, TypeOK, Contents
<1>6. CASE LlmUnavailable
  BY <1>0, <1>1, <1>6 DEF LlmUnavailable, TypeOK, Contents
<1>7. CASE ProposalRejected
  BY <1>0, <1>1, <1>7 DEF ProposalRejected, TypeOK, Contents
<1>8. CASE ProposalAccepted
  <2>1. rem_current' \in SUBSET Issues
    BY <1>2, <1>8, PatchesAreContents DEF ProposalAccepted, TypeOK
  <2>2. QED BY <1>0, <1>1, <1>8, <2>1 DEF ProposalAccepted, TypeOK, Contents
<1>9. CASE VerifyPass
  <2>1. rem_root' \in [Files -> SUBSET Issues]
    BY <1>2, <1>9, PatchesAreContents DEF VerifyPass, TypeOK
  <2>2. rows' \in Seq(RowType)
    BY <1>2, <1>3, <1>9 DEF VerifyPass, TypeOK, Contents
  <2>3. QED BY <1>0, <1>1, <1>9, <2>1, <2>2 DEF VerifyPass, TypeOK
<1>10. CASE VerifyFail
  <2>1. rows' \in Seq(RowType)
    BY <1>2, <1>3, <1>10, NoPatch \in Contents DEF VerifyFail, Contents
  <2>2. rem_attempt' \in 1..(MaxAttempts + 1) /\ rem_history' \in Nat
    BY <1>10 DEF VerifyFail, TypeOK
  <2>3. /\ pc' \in {"record_failed", "propose"}
        /\ pc' = "propose" => rem_attempt' \in 1..MaxAttempts
    BY <1>10, <2>2 DEF VerifyFail, TypeOK
  <2>4. /\ rem_idx' = rem_idx /\ rem_targets' = rem_targets
        /\ rem_idx \in 1..Len(rem_targets)
    BY <1>10 DEF VerifyFail, TypeOK
  <2>5. QED BY <1>0, <1>1, <1>10, <2>1, <2>2, <2>3, <2>4 DEF VerifyFail, TypeOK
<1>11. CASE RecordOk
  BY <1>11, RecordKeepsTypes DEF RecordOk, Outcomes
<1>12. CASE RecordFailed
  BY <1>12, RecordKeepsTypes DEF RecordFailed, Outcomes
<1>13. CASE RecordDeclined
  BY <1>13, RecordKeepsTypes DEF RecordDeclined, Outcomes
<1>14. CASE Finish
  BY <1>14, FinishKeepsTypes
<1>15. CASE Complete
  BY <1>0, <1>1, <1>15 DEF Complete, TypeOK
<1>16. CASE Crash
  BY <1>0, <1>1, <1>16 DEF Crash, TypeOK
<1>17. CASE CrashAfterSave
  <2>1. rows' \in Seq(RowType)
    <3>1. PICK o \in {"verified", "failed_verification", "failed", "declined"}, c \in Contents :
            rows' = Append(rows, Row(Target, o, c))
      BY <1>2, <1>17 DEF CrashAfterSave, TypeOK, Contents
    <3>2. QED BY <1>2, <1>3, <1>17, <3>1 DEF CrashAfterSave
  <2>2. QED BY <1>0, <1>1, <1>17, <2>1 DEF CrashAfterSave, TypeOK
<1>18. CASE Restart
  BY <1>0, <1>1, <1>18 DEF Restart, TypeOK
<1>19. CASE UNCHANGED vars
  BY <1>0, <1>1, <1>19 DEF vars, TypeOK
<1>20. QED
  BY <1>4, <1>5, <1>6, <1>7, <1>8, <1>9, <1>10, <1>11, <1>12, <1>13, <1>14, <1>15, <1>16,
     <1>17, <1>18, <1>19 DEF Next, Step

\* The types hold and each file has a latest verified result, if any.
LEMMA TypesAndLatest == Spec => [](TypeOK /\ LatestExists)
<1>1. Init => TypeOK /\ LatestExists
  <2>1. ASSUME Init PROVE TypeOK
    <3>1. FlagsOK
      BY <2>1, Zenon DEF Init, FlagsOK
    <3>2. Base \in [Files -> SUBSET Issues]
      BY DEF Base, Issues
    <3>3. rem_final_files \in UNION {[files -> SUBSET Issues] : files \in SUBSET Files}
      <4>1. rem_final_files \in [{} -> SUBSET Issues]
        BY <2>1 DEF Init
      <4>2. {} \in SUBSET Files OBVIOUS
      <4>3. QED BY <4>1, <4>2, Zenon
    <3>4. /\ run \in 1..MaxRuns /\ rem_attempt \in 1..(MaxAttempts + 1)
          /\ rem_idx \in Nat /\ rem_history \in Nat /\ pc = "init"
      BY <2>1, ConstantsAssumption DEF Init
    <3>5. rem_targets \in Seq(Findings) /\ rem_results \in Seq(ResultType) /\ rows \in Seq(RowType)
      BY <2>1 DEF Init
    <3>6. /\ status \in [Findings -> {"open", "fixed", "fix_failed"}]
          /\ rem_root = Base /\ rem_current \in Contents
      BY <2>1 DEF Init, Contents
    <3>7. QED BY <3>1, <3>2, <3>3, <3>4, <3>5, <3>6 DEF TypeOK
  <2>2. ASSUME Init PROVE LatestExists
    BY <2>2 DEF Init, LatestExists, VerifiedResultsIn, VerifiedResults
  <2>3. QED BY <2>1, <2>2
<1>2. TypeOK /\ LatestExists /\ [Next]_vars => TypeOK' /\ LatestExists'
  BY StepKeepsTypes
<1>3. QED BY <1>1, <1>2, PTL DEF Spec

\* Every variable keeps its type, for any findings, files and bounds.
THEOREM TypeCorrect == Spec => []TypeOK
BY TypesAndLatest, PTL

-----------------------------------------------------------------------------
(* Targets and results.                                                    *)

\* Each target gets one result, in the order of the targets.
THEOREM TargetsSettledInOrder == Spec => []ResultsFollowTargets
<1>1. Init => ResultsFollowTargets
  BY DEF Init, ResultsFollowTargets
<1>2. TypeOK /\ ResultsFollowTargets /\ [Next]_vars => ResultsFollowTargets'
  <2> SUFFICES ASSUME TypeOK, ResultsFollowTargets, [Next]_vars
               PROVE  ResultsFollowTargets'
    OBVIOUS
  <2> USE DEF channels
  <2>1. CASE RemInit
    BY <2>1 DEF RemInit, ResultsFollowTargets
  <2>2. CASE NextTarget
    <3>1. /\ Len(rem_results) = rem_idx /\ rem_idx' = rem_idx + 1
          /\ rem_results' = rem_results /\ rem_targets' = rem_targets
          /\ pc' \in {"propose", "finish"}
      BY <2>2 DEF NextTarget, ResultsFollowTargets
    <3>2. \A i \in DOMAIN rem_results : i \in DOMAIN rem_targets /\ rem_results[i].fp = rem_targets[i]
      BY <2>2 DEF NextTarget, ResultsFollowTargets
    <3>3. Len(rem_results) <= Len(rem_targets)
      BY <3>2 DEF TypeOK
    <3>4. pc' = "finish" => rem_idx' > Len(rem_targets)
      BY <2>2 DEF NextTarget, TypeOK
    <3>5. pc' = "finish" => Len(rem_results') = Len(rem_targets')
      BY <3>1, <3>3, <3>4 DEF TypeOK
    <3>6. QED BY <3>1, <3>2, <3>5 DEF ResultsFollowTargets, TypeOK
  <2>3. CASE LlmUnavailable \/ ProposalRejected \/ ProposalAccepted \/ VerifyPass \/ VerifyFail
    <3>1. /\ pc \in {"propose", "verify"}
          /\ pc' \in {"propose", "verify", "record_ok", "record_failed", "record_declined"}
          /\ UNCHANGED <<rem_results, rem_idx, rem_targets>>
      BY <2>3 DEF LlmUnavailable, ProposalRejected, ProposalAccepted, VerifyPass, VerifyFail
    <3>2. QED BY <3>1 DEF ResultsFollowTargets
  <2>4. CASE RecordOk \/ RecordFailed \/ RecordDeclined
    <3>1. PICK outcome \in Outcomes : Record(outcome)
      BY <2>4 DEF RecordOk, RecordFailed, RecordDeclined, Outcomes
    <3>2. pc \in {"record_ok", "record_failed", "record_declined"} /\ pc' = "next"
      BY <2>4, <3>1 DEF RecordOk, RecordFailed, RecordDeclined, Record
    <3> DEFINE r == [fp |-> Target, outcome |-> outcome, attempts |-> rem_history,
                     content |-> IF outcome = "verified" THEN rem_current ELSE NoPatch]
    <3>3. rem_results' = Append(rem_results, r) /\ r.fp = Target
      BY <3>1 DEF Record
    <3>4. Len(rem_results) = rem_idx - 1 /\ rem_idx \in 1..Len(rem_targets)
      BY <3>2 DEF ResultsFollowTargets, TypeOK
    <3>5. \A i \in DOMAIN rem_results : i \in DOMAIN rem_targets /\ rem_results[i].fp = rem_targets[i]
      BY <3>2 DEF ResultsFollowTargets
    <3>6. rem_idx' = rem_idx /\ rem_targets' = rem_targets
      BY <3>1 DEF Record
    <3>7. Len(rem_results') = rem_idx
      BY <3>3, <3>4 DEF TypeOK
    <3>8. \A i \in DOMAIN rem_results' : i \in DOMAIN rem_targets /\ rem_results'[i].fp = rem_targets[i]
      <4> SUFFICES ASSUME NEW i \in DOMAIN rem_results'
                   PROVE  i \in DOMAIN rem_targets /\ rem_results'[i].fp = rem_targets[i]
        OBVIOUS
      <4> HIDE DEF r
      <4>1. i \in 1..rem_idx
        BY <3>3, <3>7 DEF TypeOK
      <4>2. CASE i = rem_idx
        <5>1. rem_results'[i] = r
          BY <3>3, <3>4, <4>2 DEF TypeOK
        <5>2. QED BY <3>3, <3>4, <4>2, <5>1 DEF Target, TypeOK
      <4>3. CASE i \in 1..(rem_idx - 1)
        BY <3>3, <3>4, <3>5, <4>3 DEF TypeOK
      <4>4. QED BY <3>4, <4>1, <4>2, <4>3
    <3>9. QED BY <3>2, <3>6, <3>7, <3>8 DEF ResultsFollowTargets
  <2>5. CASE Finish \/ Complete
    BY <2>5 DEF Finish, Complete, ResultsFollowTargets
  <2>6. CASE Crash \/ CrashAfterSave \/ Restart
    BY <2>6 DEF Crash, CrashAfterSave, Restart, ResultsFollowTargets
  <2>7. CASE UNCHANGED vars
    BY <2>7 DEF vars, ResultsFollowTargets
  <2>8. QED
    BY <2>1, <2>2, <2>3, <2>4, <2>5, <2>6, <2>7 DEF Next, Step
<1>3. QED BY <1>1, <1>2, TypeCorrect, PTL DEF Spec

-----------------------------------------------------------------------------
(* What is saved as a verified fix.                                        *)

\* A patch waiting for verification is a content of the target's file.
PatchInFile == pc = "verify" => rem_current \subseteq IssuesIn(FileOf[Target])

\* A patch that passes leaves neither its own issue nor a new one.
LEMMA PassedIsClean ==
  ASSUME TypeOK, NEW f \in Findings, NEW c \in SUBSET IssuesIn(FileOf[f]),
         NEW buildOk \in BOOLEAN, NEW checksOk \in BOOLEAN,
         Passed(f, Patched(rem_root, f, c), buildOk, checksOk)
  PROVE  (f \in Reported => f \notin c) /\ c \cap Extra \cap Reported = {}
<1>1. FileOf[f] \in Files
  BY ConstantsAssumption DEF Issues
<1>2. Patched(rem_root, f, c)[FileOf[f]] = c
  BY <1>1 DEF Patched, TypeOK
<1>3. f \notin Rescan(Patched(rem_root, f, c))
  BY DEF Passed, Persisting
<1>4. Rescan(Patched(rem_root, f, c)) \subseteq Findings
  BY DEF Passed, Introduced
<1>5. \A i \in Reported : i \in c /\ FileOf[i] = FileOf[f] => i \in Rescan(Patched(rem_root, f, c))
  BY <1>2 DEF Rescan
<1>6. f \in Reported => f \notin c
  BY <1>3, <1>5
<1>7. ASSUME NEW i \in c, i \in Extra, i \in Reported PROVE FALSE
  <2>1. FileOf[i] = FileOf[f]
    BY <1>7 DEF IssuesIn
  <2>2. i \in Findings
    BY <1>4, <1>5, <1>7, <2>1
  <2>3. QED BY <1>7, <2>2, ConstantsAssumption
<1>8. QED BY <1>6, <1>7

CleanRow(row) ==
  IF row.status = "verified"
    THEN /\ row.fp \in Reported => row.fp \notin row.content
         /\ row.content \cap Extra \cap Reported = {}
    ELSE row.content = NoPatch

\* Appending a clean row keeps all rows clean.
LEMMA CleanAppend ==
  ASSUME TypeOK, SavedFixesAreClean, NEW row \in RowType, CleanRow(row),
         rows' = Append(rows, row)
  PROVE  SavedFixesAreClean'
<1>1. SavedFixesAreClean <=> \A i \in DOMAIN rows : CleanRow(rows[i])
  BY Zenon DEF SavedFixesAreClean, CleanRow
<1>2. SavedFixesAreClean' <=> \A i \in DOMAIN rows' : CleanRow(rows'[i])
  BY Zenon DEF SavedFixesAreClean, CleanRow
<1>3. \A i \in DOMAIN rows' : (i \in DOMAIN rows /\ rows'[i] = rows[i]) \/ rows'[i] = row
  BY DEF TypeOK
<1>4. QED BY <1>1, <1>2, <1>3, Zenon

\* Saved fixes are clean while the patch at hand stays inside its file.
LEMMA SavedFixesInductive == Spec => [](SavedFixesAreClean /\ PatchInFile)
<1>1. Init => SavedFixesAreClean /\ PatchInFile
  BY DEF Init, SavedFixesAreClean, PatchInFile
<1>2. TypeOK /\ SavedFixesAreClean /\ PatchInFile /\ [Next]_vars => SavedFixesAreClean' /\ PatchInFile'
  <2> SUFFICES ASSUME TypeOK, SavedFixesAreClean, PatchInFile, [Next]_vars
               PROVE  SavedFixesAreClean' /\ PatchInFile'
    OBVIOUS
  <2> USE DEF channels
  <2>1. pc \in {"propose", "verify", "record_ok", "record_failed", "record_declined"} => Target \in Findings
    BY DEF TypeOK, Target
  <2>2. UNCHANGED rows => SavedFixesAreClean'
    BY DEF SavedFixesAreClean
  <2>3. pc' # "verify" => PatchInFile'
    BY DEF PatchInFile
  <2>4. CASE ProposalAccepted
    <3>1. PatchInFile'
      BY <2>4 DEF ProposalAccepted, PatchInFile, Patches, Edits, Bumps, Target
    <3>2. QED BY <2>2, <2>4, <3>1 DEF ProposalAccepted
  <2>5. CASE VerifyPass
    <3>1. PICK buildOk \in BOOLEAN, checksOk \in BOOLEAN :
            Passed(Target, Patched(rem_root, Target, rem_current), buildOk, checksOk)
      BY <2>5, Zenon DEF VerifyPass
    <3>2. /\ Target \in Findings /\ rem_current \in SUBSET IssuesIn(FileOf[Target])
          /\ rem_current \in Contents /\ pc' # "verify"
      BY <2>1, <2>5 DEF VerifyPass, PatchInFile, TypeOK
    <3>3. Row(Target, "verified", rem_current) \in RowType
      BY <3>2 DEF Row, RowType, TypeOK, Outcomes
    <3>4. CleanRow(Row(Target, "verified", rem_current))
      BY <3>1, <3>2, PassedIsClean DEF CleanRow, Row
    <3>5. rows' = Append(rows, Row(Target, "verified", rem_current))
      BY <2>5 DEF VerifyPass
    <3>6. QED BY <2>3, <3>2, <3>3, <3>4, <3>5, CleanAppend
  <2>6. ASSUME NEW o \in {"failed_verification", "failed", "declined"}, Target \in Findings,
               rows' = Append(rows, Row(Target, o, NoPatch))
        PROVE  SavedFixesAreClean'
    <3>1. Row(Target, o, NoPatch) \in RowType
      BY <2>6 DEF Row, RowType, TypeOK, Outcomes, Contents
    <3>2. CleanRow(Row(Target, o, NoPatch))
      BY <2>6 DEF CleanRow, Row
    <3>3. QED BY <2>6, <3>1, <3>2, CleanAppend
  <2>7. CASE VerifyFail
    BY <2>1, <2>3, <2>6, <2>7 DEF VerifyFail
  <2>8. CASE RecordOk
    BY <2>2, <2>3, <2>8 DEF RecordOk, Record
  <2>9. CASE RecordFailed \/ RecordDeclined
    BY <2>1, <2>3, <2>6, <2>9 DEF RecordFailed, RecordDeclined, Record
  <2>10. CASE CrashAfterSave
    <3>1. CASE pc = "verify"
      <4>1. PICK buildOk \in BOOLEAN, checksOk \in BOOLEAN :
              LET passed == Passed(Target, Patched(rem_root, Target, rem_current), buildOk, checksOk) IN
                rows' = Append(rows, IF passed THEN Row(Target, "verified", rem_current)
                                     ELSE Row(Target, "failed_verification", NoPatch))
        BY <2>10, <3>1, Zenon DEF CrashAfterSave
      <4>2. CASE Passed(Target, Patched(rem_root, Target, rem_current), buildOk, checksOk)
        <5>1. /\ Target \in Findings /\ rem_current \in SUBSET IssuesIn(FileOf[Target])
              /\ rem_current \in Contents /\ pc' # "verify"
          BY <2>1, <2>10, <3>1 DEF CrashAfterSave, PatchInFile, TypeOK
        <5>2. Row(Target, "verified", rem_current) \in RowType
          BY <5>1 DEF Row, RowType, TypeOK, Outcomes
        <5>3. CleanRow(Row(Target, "verified", rem_current))
          BY <4>2, <5>1, PassedIsClean DEF CleanRow, Row
        <5>4. rows' = Append(rows, Row(Target, "verified", rem_current))
          BY <4>1, <4>2
        <5>5. QED BY <2>3, <5>1, <5>2, <5>3, <5>4, CleanAppend
      <4>3. CASE ~Passed(Target, Patched(rem_root, Target, rem_current), buildOk, checksOk)
        <5>1. rows' = Append(rows, Row(Target, "failed_verification", NoPatch)) /\ pc' # "verify"
          BY <2>10, <4>1, <4>3 DEF CrashAfterSave
        <5>2. QED BY <2>1, <2>3, <2>6, <3>1, <5>1
      <4>4. QED BY <4>2, <4>3
    <3>2. CASE pc # "verify"
      BY <2>1, <2>3, <2>6, <2>10, <3>2 DEF CrashAfterSave
    <3>3. QED BY <3>1, <3>2
  <2>11. CASE RemInit \/ NextTarget \/ LlmUnavailable \/ ProposalRejected
    BY <2>2, <2>3, <2>11 DEF RemInit, NextTarget, LlmUnavailable, ProposalRejected
  <2>12. CASE Finish \/ Complete \/ Crash \/ Restart
    BY <2>2, <2>3, <2>12 DEF Finish, Complete, Crash, Restart
  <2>13. CASE UNCHANGED vars
    BY <2>2, <2>13 DEF vars, PatchInFile, Target
  <2>14. QED
    BY <2>4, <2>5, <2>7, <2>8, <2>9, <2>10, <2>11, <2>12, <2>13 DEF Next, Step
<1>3. QED BY <1>1, <1>2, TypeCorrect, PTL DEF Spec

\* No saved fix leaves its issue or a new one behind, and nothing else that is
\* saved carries files.
THEOREM SavedFixesClean == Spec => []SavedFixesAreClean
BY SavedFixesInductive, PTL

\* A patch that is being verified holds only issues of its file.
LEMMA PatchesInFile == Spec => []PatchInFile
BY SavedFixesInductive, PTL

-----------------------------------------------------------------------------
(* The tree of a run.                                                      *)

\* What is recorded as fixed is the patch that was just verified and saved.
THEOREM RecordedFixWasVerified == Spec => []FixWasVerified
<1>1. Init => FixWasVerified
  BY DEF Init, FixWasVerified
<1>2. TypeOK /\ FixWasVerified /\ [Next]_vars => FixWasVerified'
  <2> SUFFICES ASSUME TypeOK, FixWasVerified, [Next]_vars, pc' = "record_ok"
               PROVE  FixWasVerified'
    BY DEF FixWasVerified
  <2> USE DEF channels
  <2>1. CASE VerifyPass
    <3>1. Target \in Findings /\ FileOf[Target] \in Files /\ Target' = Target
      BY <2>1, ConstantsAssumption DEF VerifyPass, TypeOK, Target, Issues
    <3>2. rows' = Append(rows, Row(Target, "verified", rem_current)) /\ rows \in Seq(RowType)
      BY <2>1 DEF VerifyPass, TypeOK
    <3>3. Row(Target, "verified", rem_current) \in RowType
      BY <2>1, <3>1 DEF Row, RowType, VerifyPass, TypeOK, Outcomes
    <3>4. rows' # <<>> /\ rows'[Len(rows')] = Row(Target, "verified", rem_current)
      BY <3>2, <3>3
    <3>5. rem_root'[FileOf[Target]] = rem_current
      BY <2>1, <3>1 DEF VerifyPass, Patched, TypeOK
    <3>6. rem_verified' /\ rem_current' = rem_current /\ run' = run
      BY <2>1 DEF VerifyPass
    <3>7. Row(Target, "verified", rem_current)' = Row(Target, "verified", rem_current)
      BY <3>1, <3>6 DEF Row
    <3>8. QED BY <3>1, <3>4, <3>5, <3>6, <3>7 DEF FixWasVerified
  <2>2. CASE UNCHANGED vars
    BY <2>2 DEF vars, FixWasVerified, Row, Target
  <2>3. QED
    BY <2>1, <2>2 DEF Next, Step, RemInit, NextTarget, LlmUnavailable, ProposalRejected,
       ProposalAccepted, VerifyFail, RecordOk, RecordFailed, RecordDeclined, Record, Finish,
       Complete, Crash, CrashAfterSave, Restart
<1>3. QED BY <1>1, <1>2, TypeCorrect, PTL DEF Spec

\* Before rem_init of a run has chosen its tree, the run has saved no row.
RunRows ==
  /\ \A i \in DOMAIN rows : rows[i].run <= run
  /\ pc = "init" => \A i \in DOMAIN rows : rows[i].run < run

\* A row of the run that is not a verified fix leaves the fixes as they were.
LEMMA OtherRowKeepsFixes ==
  ASSUME TypeOK, NEW row \in RowType, row.status # "verified", row.run = run,
         rows' = Append(rows, row), run' = run
  PROVE  /\ \A file \in Files : FixRows(file)' = FixRows(file)
         /\ \A file \in Files : \A i \in FixRows(file) : rows'[i] = rows[i]
         /\ \A i \in DOMAIN rows' : (i \in DOMAIN rows /\ rows'[i] = rows[i]) \/ rows'[i].run = run
<1> DEFINE n == Len(rows) + 1
<1>1. /\ DOMAIN rows = 1..(n - 1) /\ DOMAIN rows' = 1..n /\ n \in Nat \ {0}
      /\ rows'[n] = row /\ \A i \in 1..(n - 1) : rows'[i] = rows[i]
  BY DEF TypeOK
<1>2. QED BY <1>1 DEF FixRows

\* The tree of a run is its base with the fixes of rows that only it has saved.
LEMMA RootInductive == Spec => [](RootIsBasePlusFixes /\ RunRows)
<1>1. Init => RootIsBasePlusFixes /\ RunRows
  BY DEF Init, RootIsBasePlusFixes, RunRows
<1>2. TypeOK /\ RootIsBasePlusFixes /\ RunRows /\ [Next]_vars => RootIsBasePlusFixes' /\ RunRows'
  <2> SUFFICES ASSUME TypeOK, RootIsBasePlusFixes, RunRows, [Next]_vars
               PROVE  RootIsBasePlusFixes' /\ RunRows'
    OBVIOUS
  <2> USE DEF channels
  <2>1. pc \in {"propose", "verify", "record_ok", "record_failed", "record_declined"} => Target \in Findings
    BY DEF TypeOK, Target
  <2>2. UNCHANGED <<rows, run>> =>
          \A file \in Files : FixRows(file)' = FixRows(file) /\ \A i \in FixRows(file) : rows'[i] = rows[i]
    BY DEF FixRows
  <2>3. CASE RemInit
    <3>1. RunRows'
      BY <2>3 DEF RemInit, RunRows
    <3>2. \A file \in Files : FixRows(file)' = {} /\ rem_root'[file] = Base[file]
      BY <2>3 DEF RemInit, RunRows, FixRows, TypeOK, RowType
    <3>3. Base' = Base
      BY DEF Base
    <3>4. QED BY <3>1, <3>2, <3>3 DEF RootIsBasePlusFixes
  <2>4. ASSUME UNCHANGED <<rows, run, rem_root>>, pc \notin {"init", "crashed"}, pc' # "init"
        PROVE  RootIsBasePlusFixes' /\ RunRows'
    <3>1. RunRows'
      BY <2>4 DEF RunRows
    <3>2. RootIsBasePlusFixes'
      BY <2>2, <2>4 DEF RootIsBasePlusFixes, Base
    <3>3. QED BY <3>1, <3>2
  <2>5. ASSUME NEW row \in RowType, row.status # "verified", row.run = run,
               rows' = Append(rows, row), UNCHANGED <<run, rem_root>>,
               pc \notin {"init", "crashed"}, pc' # "init"
        PROVE  RootIsBasePlusFixes' /\ RunRows'
    <3>1. /\ \A file \in Files : FixRows(file)' = FixRows(file)
          /\ \A file \in Files : \A i \in FixRows(file) : rows'[i] = rows[i]
          /\ \A i \in DOMAIN rows' : (i \in DOMAIN rows /\ rows'[i] = rows[i]) \/ rows'[i].run = run
      BY <2>5, OtherRowKeepsFixes
    <3>2. RunRows'
      BY <2>5, <3>1 DEF RunRows, TypeOK
    <3>3. RootIsBasePlusFixes'
      <4>1. \A file \in Files :
              \/ FixRows(file) = {} /\ rem_root[file] = Base[file]
              \/ \E i \in FixRows(file) :
                   (\A j \in FixRows(file) : j <= i) /\ rem_root[file] = rows[i].content
        BY <2>5 DEF RootIsBasePlusFixes
      <4>2. Base' = Base /\ rem_root' = rem_root
        BY <2>5 DEF Base
      <4> SUFFICES ASSUME NEW file \in Files
                   PROVE  \/ FixRows(file)' = {} /\ rem_root'[file] = Base'[file]
                          \/ \E i \in FixRows(file)' :
                               /\ \A j \in FixRows(file)' : j <= i
                               /\ rem_root'[file] = rows'[i].content
        BY DEF RootIsBasePlusFixes
      <4>3. FixRows(file)' = FixRows(file) /\ \A i \in FixRows(file) : rows'[i] = rows[i]
        BY <3>1
      <4>4. QED BY <4>1, <4>2, <4>3
    <3>4. QED BY <3>2, <3>3
  <2>6. ASSUME NEW o \in {"failed_verification", "failed", "declined"}, Target \in Findings
        PROVE  /\ Row(Target, o, NoPatch) \in RowType
               /\ Row(Target, o, NoPatch).status # "verified"
               /\ Row(Target, o, NoPatch).run = run
    BY <2>6 DEF Row, RowType, TypeOK, Outcomes, Contents
  <2>7. CASE VerifyPass
    <3>0. Target \in Findings /\ FileOf[Target] \in Files
      BY <2>1, <2>7, ConstantsAssumption DEF VerifyPass, Issues
    <3>a. PICK F \in Files : F = FileOf[Target]
      BY <3>0
    <3>b. PICK n \in Nat \ {0} : n = Len(rows) + 1
      BY DEF TypeOK
    <3>1. Target \in Findings /\ F \in Files
      BY <3>0
    <3>2. Row(Target, "verified", rem_current) \in RowType
      BY <2>7, <3>1 DEF Row, RowType, VerifyPass, TypeOK, Outcomes
    <3>3. /\ n \in Nat \ {0} /\ DOMAIN rows = 1..(n - 1) /\ DOMAIN rows' = 1..n
          /\ rows'[n] = Row(Target, "verified", rem_current)
          /\ \A i \in 1..(n - 1) : rows'[i] = rows[i]
      BY <2>7, <3>2, <3>b DEF VerifyPass, TypeOK
    <3>4. run' = run /\ pc = "verify" /\ pc' = "record_ok"
      BY <2>7 DEF VerifyPass
    <3>5. rows'[n].run = run /\ rows'[n].status = "verified" /\ FileOf[rows'[n].fp] = F
          /\ rows'[n].content = rem_current
      BY <3>3, <3>a DEF Row
    <3>6. /\ rem_root'[F] = rem_current
          /\ \A file \in Files \ {F} : rem_root'[file] = rem_root[file]
      BY <2>7, <3>1, <3>a DEF VerifyPass, Patched, TypeOK
    <3>7. /\ n \in FixRows(F)'
          /\ \A j \in FixRows(F)' : j <= n
      BY <3>3, <3>4, <3>5 DEF FixRows
    <3>8. ASSUME NEW file \in Files, file # F
          PROVE  FixRows(file)' = FixRows(file) /\ \A i \in FixRows(file) : rows'[i] = rows[i]
      <4>1. ASSUME NEW i \in FixRows(file)' PROVE i \in FixRows(file)
        <5>1. i \in 1..n /\ i # n
          BY <3>3, <3>5, <3>8, <4>1 DEF FixRows
        <5>2. i \in 1..(n - 1)
          BY <3>3, <5>1
        <5>3. QED BY <3>3, <3>4, <4>1, <5>2 DEF FixRows
      <4>2. ASSUME NEW i \in FixRows(file)
            PROVE  i \in FixRows(file)' /\ rows'[i] = rows[i]
        <5>1. i \in 1..(n - 1) /\ i \in 1..n
          BY <3>3, <4>2 DEF FixRows
        <5>2. QED BY <3>3, <3>4, <4>2, <5>1 DEF FixRows
      <4>3. QED BY <4>1, <4>2
    <3>9. ASSUME NEW file \in Files
          PROVE  \/ FixRows(file)' = {} /\ rem_root'[file] = Base[file]
                 \/ \E i \in FixRows(file)' :
                      (\A j \in FixRows(file)' : j <= i) /\ rem_root'[file] = rows'[i].content
      <4>1. CASE file = F
        <5>1. rem_root'[file] = rows'[n].content
          BY <3>5, <3>6, <4>1
        <5>2. n \in FixRows(file)' /\ \A j \in FixRows(file)' : j <= n
          BY <3>7, <4>1
        <5>3. QED BY <5>1, <5>2
      <4>2. CASE file # F
        BY <3>4, <3>6, <3>8, <4>2 DEF RootIsBasePlusFixes
      <4>3. QED BY <4>1, <4>2
    <3>10. RootIsBasePlusFixes'
      BY <3>9 DEF RootIsBasePlusFixes, Base
    <3>11. RunRows'
      BY <3>3, <3>4, <3>5 DEF RunRows, TypeOK
    <3>12. QED BY <3>10, <3>11
  <2>8. CASE VerifyFail
    BY <2>1, <2>5, <2>6, <2>8 DEF VerifyFail
  <2>9. CASE RecordFailed \/ RecordDeclined
    BY <2>1, <2>5, <2>6, <2>9 DEF RecordFailed, RecordDeclined, Record
  <2>10. CASE RecordOk
    BY <2>4, <2>10 DEF RecordOk, Record
  <2>11. CASE NextTarget \/ LlmUnavailable \/ ProposalRejected \/ ProposalAccepted
    BY <2>4, <2>11 DEF NextTarget, LlmUnavailable, ProposalRejected, ProposalAccepted
  <2>12. CASE Finish \/ Complete
    BY <2>4, <2>12 DEF Finish, Complete
  <2>13. CASE Crash \/ CrashAfterSave
    <3>1. pc' = "crashed" /\ run' = run /\ run \in Nat
      BY <2>13 DEF Crash, CrashAfterSave, TypeOK
    <3>2. UNCHANGED rows \/ \E f \in Findings, o \in Outcomes \cup {"failed_verification"}, c \in Contents :
            rows' = Append(rows, Row(f, o, c))
      BY <2>1, <2>13 DEF Crash, CrashAfterSave, Outcomes, Contents, TypeOK
    <3>3. \A i \in DOMAIN rows' : (i \in DOMAIN rows /\ rows'[i] = rows[i]) \/ rows'[i].run = run
      <4>1. CASE UNCHANGED rows
        BY <4>1
      <4>2. CASE \E f \in Findings, o \in Outcomes \cup {"failed_verification"}, c \in Contents :
                   rows' = Append(rows, Row(f, o, c))
        <5>1. PICK f \in Findings, o \in Outcomes \cup {"failed_verification"}, c \in Contents :
                rows' = Append(rows, Row(f, o, c))
          BY <4>2
        <5>2. Row(f, o, c) \in RowType /\ Row(f, o, c).run = run
          BY DEF Row, RowType, TypeOK
        <5>3. QED BY <5>1, <5>2 DEF TypeOK
      <4>3. QED BY <3>2, <4>1, <4>2
    <3>4. QED BY <3>1, <3>3 DEF RunRows, RootIsBasePlusFixes
  <2>14. CASE Restart
    <3>1. run' = run + 1 /\ rows' = rows /\ pc' = "init"
      BY <2>14 DEF Restart
    <3>2. \A i \in DOMAIN rows : rows[i].run \in Nat /\ rows[i].run <= run
      <4>1. \A i \in DOMAIN rows : rows[i] \in RowType
        BY DEF TypeOK
      <4>2. QED BY <4>1 DEF RunRows, RowType
    <3>3. \A i \in DOMAIN rows : rows[i].run < run + 1 /\ rows[i].run <= run + 1
      BY <3>2 DEF TypeOK
    <3>4. QED BY <3>1, <3>3 DEF RunRows, RootIsBasePlusFixes
  <2>15. CASE UNCHANGED vars
    BY <2>2, <2>15 DEF vars, RunRows, RootIsBasePlusFixes, Base
  <2>16. QED
    BY <2>3, <2>7, <2>8, <2>9, <2>10, <2>11, <2>12, <2>13, <2>14, <2>15 DEF Next, Step
<1>3. QED BY <1>1, <1>2, TypeCorrect, PTL DEF Spec

\* The tree of a run is the pull request with the fixes saved in this run.
THEOREM RootIsTheSavedFixes == Spec => []RootIsBasePlusFixes
BY RootInductive, PTL

\* Rows are those of this run and of earlier ones.
LEMMA RowsOfRuns == Spec => []RunRows
BY RootInductive, PTL

-----------------------------------------------------------------------------
(* Steps that move the tree, and the files that are reported.              *)

\* The tree moves only by a patch that passed, in the target's file.
THEOREM RootMovesByVerifiedFix == Spec => RootMovesOnlyByVerifiedFix
<1>1. TypeOK /\ [Next]_vars =>
        [pc # "init" /\ rem_root' # rem_root =>
           /\ pc = "verify"
           /\ \A file \in Files : file # FileOf[Target] => rem_root'[file] = rem_root[file]
           /\ ~Persisting(Target, rem_root')
           /\ Introduced(rem_root') = {}]_vars
  <2> SUFFICES ASSUME TypeOK, Next, pc # "init", rem_root' # rem_root
               PROVE  /\ pc = "verify"
                      /\ \A file \in Files : file # FileOf[Target] => rem_root'[file] = rem_root[file]
                      /\ ~Persisting(Target, rem_root')
                      /\ Introduced(rem_root') = {}
    BY DEF channels, vars
  <2>1. VerifyPass
    BY DEF Next, Step, RemInit, NextTarget, LlmUnavailable, ProposalRejected, ProposalAccepted,
       VerifyFail, RecordOk, RecordFailed, RecordDeclined, Record, Finish, Complete, Crash,
       CrashAfterSave, Restart, channels
  <2>2. /\ pc = "verify" /\ rem_root' = Patched(rem_root, Target, rem_current)
        /\ \E buildOk, checksOk \in BOOLEAN :
             Passed(Target, Patched(rem_root, Target, rem_current), buildOk, checksOk)
    BY <2>1, Zenon DEF VerifyPass
  <2>3. ~Persisting(Target, rem_root') /\ Introduced(rem_root') = {}
    BY <2>2, Zenon DEF Passed
  <2>4. \A file \in Files : file # FileOf[Target] => rem_root'[file] = rem_root[file]
    BY <2>2 DEF Patched, TypeOK
  <2>5. QED BY <2>2, <2>3, <2>4
<1>2. QED BY <1>1, TypeCorrect, PTL DEF Spec, RootMovesOnlyByVerifiedFix

\* Between rem_init and rem_finish the tree is the pull request with the files
\* of the verified results; at record_ok the target's own result is pending.
Settled(file) == ~(pc = "record_ok" /\ file = FileOf[Target])

RootFromResults ==
  ~Idle =>
    \A file \in Files : Settled(file) =>
      \/ VerifiedResultsIn(file) = {} /\ rem_root[file] = Base[file]
      \/ \E i \in VerifiedResultsIn(file) :
           (\A j \in VerifiedResultsIn(file) : j <= i) /\ rem_root[file] = rem_results[i].content

MergeInv == RootFromResults /\ MergedFilesAreTheVerifiedTree

\* The merged files of a finished run are those of the last verified tree.
THEOREM MergedFilesVerified == Spec => []MergedFilesAreTheVerifiedTree
<1>1. Init => MergeInv
  BY DEF Init, MergeInv, RootFromResults, MergedFilesAreTheVerifiedTree, Idle
<1>2. TypeOK /\ FixWasVerified /\ MergeInv /\ [Next]_vars => MergeInv'
  <2> SUFFICES ASSUME TypeOK, FixWasVerified, MergeInv, [Next]_vars
               PROVE  MergeInv'
    OBVIOUS
  <2> USE DEF channels
  <2>1. Base' = Base
    BY DEF Base
  <2>2. UNCHANGED rem_results => \A file \in Files : VerifiedResultsIn(file)' = VerifiedResultsIn(file)
    BY DEF VerifiedResultsIn, VerifiedResults
  <2>3. pc' \notin {"done", "completed"} => MergedFilesAreTheVerifiedTree'
    BY DEF MergedFilesAreTheVerifiedTree
  <2>4. ASSUME UNCHANGED <<rem_results, rem_root>>, pc \notin {"init", "crashed", "record_ok"},
               pc' # "record_ok"
        PROVE  RootFromResults'
    <3>1. \A file \in Files : Settled(file)
      BY <2>4 DEF Settled
    <3>2. QED BY <2>1, <2>2, <2>4, <3>1 DEF MergeInv, RootFromResults, Idle
  <2>5. CASE RemInit
    <3>1. \A file \in Files : VerifiedResultsIn(file)' = {} /\ rem_root'[file] = Base[file]
      BY <2>5 DEF RemInit, VerifiedResultsIn, VerifiedResults
    <3>2. RootFromResults'
      BY <2>1, <3>1 DEF RootFromResults
    <3>3. QED BY <2>3, <2>5, <3>2 DEF RemInit, MergeInv
  <2>6. CASE NextTarget \/ LlmUnavailable \/ ProposalRejected \/ ProposalAccepted \/ VerifyFail
    <3>1. /\ UNCHANGED <<rem_results, rem_root>> /\ pc \notin {"init", "crashed", "record_ok"}
          /\ pc' \notin {"record_ok", "done", "completed"}
      BY <2>6 DEF NextTarget, LlmUnavailable, ProposalRejected, ProposalAccepted, VerifyFail
    <3>2. QED BY <2>3, <2>4, <3>1 DEF MergeInv
  <2>7. CASE VerifyPass
    <3>1. /\ pc = "verify" /\ pc' = "record_ok" /\ UNCHANGED <<rem_results, rem_targets, rem_idx>>
          /\ rem_root' = Patched(rem_root, Target, rem_current)
      BY <2>7 DEF VerifyPass
    <3>2. Target' = Target
      BY <3>1 DEF Target
    <3>3. \A file \in Files : Settled(file)' => file # FileOf[Target]
      BY <3>1, <3>2 DEF Settled
    <3>4. \A file \in Files : file # FileOf[Target] => rem_root'[file] = rem_root[file]
      BY <3>1 DEF Patched, TypeOK
    <3>5. \A file \in Files : Settled(file)
      BY <3>1 DEF Settled
    <3>6. RootFromResults'
      BY <2>1, <2>2, <3>1, <3>3, <3>4, <3>5 DEF MergeInv, RootFromResults, Idle
    <3>7. QED BY <2>3, <3>1, <3>6 DEF MergeInv
  <2>8. CASE RecordFailed \/ RecordDeclined
    <3>1. PICK outcome \in {"failed", "declined"} : Record(outcome)
      BY <2>8 DEF RecordFailed, RecordDeclined
    <3>2. /\ pc \in {"record_failed", "record_declined"} /\ pc' = "next" /\ rem_root' = rem_root
          /\ rem_results' = Append(rem_results,
               [fp |-> Target, outcome |-> outcome, attempts |-> rem_history, content |-> NoPatch])
      BY <2>8, <3>1 DEF RecordFailed, RecordDeclined, Record
    <3>3. ASSUME NEW file \in Files
          PROVE  /\ VerifiedResultsIn(file)' = VerifiedResultsIn(file)
                 /\ \A i \in VerifiedResultsIn(file) : rem_results'[i] = rem_results[i]
      BY <3>2 DEF VerifiedResultsIn, VerifiedResults, TypeOK
    <3>4. \A file \in Files : Settled(file)
      BY <3>2 DEF Settled
    <3>5. RootFromResults'
      BY <2>1, <3>2, <3>3, <3>4 DEF MergeInv, RootFromResults, Idle
    <3>6. QED BY <2>3, <3>2, <3>5 DEF MergeInv
  <2>9. CASE RecordOk
    <3>1. /\ pc = "record_ok" /\ pc' = "next" /\ rem_root' = rem_root
          /\ rem_results' = Append(rem_results,
               [fp |-> Target, outcome |-> "verified", attempts |-> rem_history, content |-> rem_current])
      BY <2>9 DEF RecordOk, Record
    <3>2. Target \in Findings /\ FileOf[Target] \in Files
      BY <3>1, ConstantsAssumption DEF TypeOK, Target, Issues
    <3>3. PICK F \in Files : F = FileOf[Target]
      BY <3>2
    <3>4. PICK n \in Nat \ {0} : n = Len(rem_results) + 1
      BY DEF TypeOK
    <3>5. /\ DOMAIN rem_results = 1..(n - 1) /\ DOMAIN rem_results' = 1..n
          /\ rem_results'[n].fp = Target /\ rem_results'[n].outcome = "verified"
          /\ rem_results'[n].content = rem_current
          /\ \A i \in 1..(n - 1) : rem_results'[i] = rem_results[i]
      BY <3>1, <3>4 DEF TypeOK
    <3>6. rem_root[F] = rem_current
      BY <3>1, <3>3 DEF FixWasVerified
    <3>7. n \in VerifiedResultsIn(F)' /\ \A j \in VerifiedResultsIn(F)' : j <= n
      BY <3>3, <3>5 DEF VerifiedResultsIn, VerifiedResults
    <3>8. ASSUME NEW file \in Files, file # F
          PROVE  /\ VerifiedResultsIn(file)' = VerifiedResultsIn(file)
                 /\ \A i \in VerifiedResultsIn(file) : rem_results'[i] = rem_results[i]
      <4>1. VerifiedResultsIn(file)' \subseteq 1..n /\ n \notin VerifiedResultsIn(file)'
        BY <3>3, <3>5, <3>8 DEF VerifiedResultsIn, VerifiedResults
      <4>2. VerifiedResultsIn(file)' \subseteq 1..(n - 1)
        BY <4>1
      <4>3. VerifiedResultsIn(file) \subseteq 1..(n - 1) /\ 1..(n - 1) \subseteq 1..n
        BY <3>5 DEF VerifiedResultsIn, VerifiedResults
      <4>4. \A i \in 1..(n - 1) : i \in VerifiedResultsIn(file)' <=> i \in VerifiedResultsIn(file)
        BY <3>5, <4>3 DEF VerifiedResultsIn, VerifiedResults
      <4>5. QED BY <3>5, <4>2, <4>3, <4>4
    <3>9. ASSUME NEW file \in Files
          PROVE  \/ VerifiedResultsIn(file)' = {} /\ rem_root'[file] = Base[file]
                 \/ \E i \in VerifiedResultsIn(file)' :
                      (\A j \in VerifiedResultsIn(file)' : j <= i) /\ rem_root'[file] = rem_results'[i].content
      <4>1. CASE file = F
        <5>1. rem_root'[file] = rem_results'[n].content
          BY <3>1, <3>5, <3>6, <4>1
        <5>2. n \in VerifiedResultsIn(file)' /\ \A j \in VerifiedResultsIn(file)' : j <= n
          BY <3>7, <4>1
        <5>3. QED BY <5>1, <5>2
      <4>2. CASE file # F
        <5>1. Settled(file)
          BY <3>3, <4>2 DEF Settled
        <5>2. QED BY <3>1, <3>8, <4>2, <5>1 DEF MergeInv, RootFromResults, Idle
      <4>3. QED BY <4>1, <4>2
    <3>10. RootFromResults'
      BY <2>1, <3>9 DEF RootFromResults
    <3>11. QED BY <2>3, <3>1, <3>10 DEF MergeInv
  <2>10. CASE Finish
    <3>1. RootFromResults'
      BY <2>4, <2>10 DEF Finish
    <3>2. ASSUME NEW file \in Files
          PROVE  rem_root[file] = IF file \in DOMAIN rem_final_files' THEN rem_final_files'[file]
                                  ELSE Base[file]
      <4>1. \/ VerifiedResultsIn(file) = {} /\ rem_root[file] = Base[file]
            \/ \E i \in VerifiedResultsIn(file) :
                 (\A j \in VerifiedResultsIn(file) : j <= i) /\ rem_root[file] = rem_results[i].content
        BY <2>10 DEF Finish, MergeInv, RootFromResults, Idle, Settled
      <4>2. file \in DOMAIN rem_final_files' <=> VerifiedResultsIn(file) # {}
        BY <2>10 DEF Finish
      <4>3. VerifiedResultsIn(file) # {} =>
              rem_final_files'[file] = rem_results[Max(VerifiedResultsIn(file))].content
        BY <2>10 DEF Finish
      <4>4. CASE VerifiedResultsIn(file) = {}
        BY <4>1, <4>2, <4>4
      <4>5. CASE VerifiedResultsIn(file) # {}
        <5>1. PICK i \in VerifiedResultsIn(file) :
                (\A j \in VerifiedResultsIn(file) : j <= i) /\ rem_root[file] = rem_results[i].content
          BY <4>1, <4>5
        <5>2. VerifiedResultsIn(file) \subseteq Nat
          BY DEF VerifiedResultsIn, VerifiedResults, TypeOK
        <5>3. Max(VerifiedResultsIn(file)) = i
          BY <5>1, <5>2, MaxOfLatest
        <5>4. QED BY <4>2, <4>3, <4>5, <5>1, <5>3
      <4>6. QED BY <4>4, <4>5
    <3>3. MergedFilesAreTheVerifiedTree'
      BY <2>1, <2>10, <3>2 DEF Finish, MergedFilesAreTheVerifiedTree
    <3>4. QED BY <3>1, <3>3 DEF MergeInv
  <2>11. CASE Complete
    <3>1. RootFromResults'
      BY <2>4, <2>11 DEF Complete
    <3>2. MergedFilesAreTheVerifiedTree'
      BY <2>1, <2>11 DEF Complete, MergeInv, MergedFilesAreTheVerifiedTree
    <3>3. QED BY <3>1, <3>2 DEF MergeInv
  <2>12. CASE Crash \/ CrashAfterSave \/ Restart
    <3>1. Idle' /\ pc' \notin {"done", "completed"}
      BY <2>12 DEF Crash, CrashAfterSave, Restart, Idle
    <3>2. QED BY <2>3, <3>1 DEF MergeInv, RootFromResults
  <2>13. CASE UNCHANGED vars
    <3>1. \A file \in Files : Settled(file)' <=> Settled(file)
      BY <2>13 DEF vars, Settled, Target
    <3>2. RootFromResults'
      BY <2>1, <2>2, <2>13, <3>1 DEF vars, MergeInv, RootFromResults, Idle
    <3>3. QED BY <2>1, <2>13, <3>2 DEF vars, MergeInv, MergedFilesAreTheVerifiedTree
  <2>14. QED
    BY <2>5, <2>6, <2>7, <2>8, <2>9, <2>10, <2>11, <2>12, <2>13 DEF Next, Step
<1>3. QED
  BY <1>1, <1>2, TypeCorrect, RecordedFixWasVerified, PTL DEF Spec, MergeInv

-----------------------------------------------------------------------------
(* The loop implements FixSession.                                         *)

\* The outcomes of the results, and what a new result adds to them.
LEMMA OutcomesOfResults ==
  ASSUME TypeOK
  PROVE  /\ ResultOutcomes \in Seq(Outcomes)
         /\ Len(ResultOutcomes) = Len(rem_results)
         /\ \A r \in ResultType :
              rem_results' = Append(rem_results, r) => ResultOutcomes' = Append(ResultOutcomes, r.outcome)
<1>1. rem_results \in Seq(ResultType) /\ \A r \in ResultType : r.outcome \in Outcomes
  BY DEF TypeOK, ResultType, Outcomes
<1>2. PICK n \in Nat : n = Len(rem_results) /\ DOMAIN rem_results = 1..n
  BY <1>1
<1>3. ResultOutcomes \in [1..n -> Outcomes]
  BY <1>1, <1>2 DEF ResultOutcomes
<1>4. ResultOutcomes \in Seq(Outcomes) /\ Len(ResultOutcomes) = n
  BY <1>3, SeqDef
<1>5. ASSUME NEW r \in ResultType, rem_results' = Append(rem_results, r)
      PROVE  ResultOutcomes' = Append(ResultOutcomes, r.outcome)
  <2> DEFINE A == Append(ResultOutcomes, r.outcome)
  <2>1. /\ DOMAIN rem_results' = 1..(n + 1) /\ rem_results'[n + 1] = r
        /\ \A i \in 1..n : rem_results'[i] = rem_results[i]
    BY <1>1, <1>2, <1>5
  <2>2. /\ A \in Seq(Outcomes) /\ DOMAIN A = 1..(n + 1) /\ A[n + 1] = r.outcome
        /\ \A i \in 1..n : A[i] = ResultOutcomes[i]
    BY <1>1, <1>4
  <2>3. ResultOutcomes' = [i \in 1..(n + 1) |-> rem_results'[i].outcome]
    BY <2>1 DEF ResultOutcomes
  <2>4. \A i \in 1..n : ResultOutcomes[i] = rem_results[i].outcome
    BY <1>2 DEF ResultOutcomes
  <2>5. \A i \in 1..(n + 1) : A[i] = rem_results'[i].outcome
    <3> SUFFICES ASSUME NEW i \in 1..(n + 1) PROVE A[i] = rem_results'[i].outcome
      OBVIOUS
    <3>1. CASE i = n + 1
      BY <2>1, <2>2, <3>1
    <3>2. CASE i \in 1..n
      BY <2>1, <2>2, <2>4, <3>2
    <3>3. i = n + 1 \/ i \in 1..n
      BY <1>2
    <3>4. QED BY <3>1, <3>2, <3>3
  <2>6. A = [i \in 1..(n + 1) |-> A[i]]
    BY <2>2
  <2>7. QED BY <2>3, <2>5, <2>6
<1>6. QED BY <1>2, <1>4, <1>5

\* A node that runs between two outcomes leaves the session as it is.
LEMMA QuietStep ==
  ASSUME UNCHANGED <<rem_targets, rem_results, rem_root>>,
         pc \in {"next", "propose", "verify"}, 
         pc' \in {"next", "propose", "verify", "record_failed", "record_declined", "finish"}
  PROVE  UNCHANGED Session!svars
BY DEF Session!svars, Idle, ResultOutcomes

\* Every behaviour of the loop is one of the session: targets are settled one
\* by one, each once, and only a clean fix of the target moves the tree.
THEOREM LoopImplementsSession == Spec => ImplementsFixSession
<1>1. Init => Session!Init
  BY DEF Init, Session!Init, Idle
<1>2. TypeOK /\ ResultsFollowTargets /\ PatchInFile /\ [Next]_vars => [Session!Next]_(Session!svars)
  <2> SUFFICES ASSUME TypeOK, ResultsFollowTargets, PatchInFile, [Next]_vars
               PROVE  Session!Next \/ UNCHANGED Session!svars
    OBVIOUS
  <2> USE DEF channels
  <2>1. CASE RemInit
    <3>1. /\ pc = "init" /\ pc' = "next" /\ rem_root' = Base /\ rem_results' = <<>>
          /\ rem_targets' \in Selections \cup {<<>>}
      BY <2>1 DEF RemInit
    <3>2. rem_targets' \in UNION {[1..n -> Findings] : n \in 0..MaxTargets}
      <4>1. <<>> \in [1..0 -> Findings] /\ 0 \in 0..MaxTargets
        BY ConstantsAssumption
      <4>2. QED BY <3>1, <4>1 DEF Selections
    <3>3. ResultOutcomes' = <<>>
      BY <3>1 DEF ResultOutcomes
    <3>4. Base' = Base
      BY DEF Base
    <3>5. Session!Begin
      BY <3>1, <3>2, <3>3, <3>4 DEF Session!Begin, Idle
    <3>6. QED BY <3>5 DEF Session!Next
  <2>2. CASE NextTarget \/ LlmUnavailable \/ ProposalRejected \/ ProposalAccepted \/ VerifyFail
    <3>1. /\ UNCHANGED <<rem_targets, rem_results, rem_root>> /\ pc \in {"next", "propose", "verify"}
          /\ pc' \in {"next", "propose", "verify", "record_failed", "record_declined", "finish"}
      BY <2>2 DEF NextTarget, LlmUnavailable, ProposalRejected, ProposalAccepted, VerifyFail
    <3>2. QED BY <3>1, QuietStep
  <2>3. ASSUME pc \in {"verify", "record_failed", "record_declined"}
        PROVE  Session!Working /\ Session!Subject = Target
    <3>1. rem_idx \in 1..Len(rem_targets) /\ Len(rem_results) = rem_idx - 1
      BY <2>3 DEF TypeOK, ResultsFollowTargets
    <3>2. Len(ResultOutcomes) = rem_idx - 1
      BY <3>1, OutcomesOfResults
    <3>3. Len(ResultOutcomes) < Len(rem_targets) /\ Len(ResultOutcomes) + 1 = rem_idx
      BY <3>1, <3>2 DEF TypeOK
    <3>4. QED BY <2>3, <3>3 DEF Session!Working, Session!Subject, Idle, Target
  <2>4. CASE VerifyPass
    <3>1. PICK buildOk \in BOOLEAN, checksOk \in BOOLEAN :
            Passed(Target, Patched(rem_root, Target, rem_current), buildOk, checksOk)
      BY <2>4, Zenon DEF VerifyPass
    <3>2. /\ pc = "verify" /\ pc' = "record_ok" /\ UNCHANGED <<rem_targets, rem_results>>
          /\ rem_root' = [rem_root EXCEPT ![FileOf[Target]] = rem_current]
      BY <2>4 DEF VerifyPass, Patched
    <3>3. Target \in Findings /\ rem_current \in SUBSET IssuesIn(FileOf[Target])
      BY <3>2 DEF TypeOK, Target, PatchInFile
    <3>4. CleanFix(Target, rem_current) /\ rem_current \in SUBSET Issues
      BY <3>1, <3>3, PassedIsClean DEF CleanFix, IssuesIn
    <3>5. ResultOutcomes' = ResultOutcomes
      BY <3>2 DEF ResultOutcomes
    <3>6. Session!Working /\ Session!Subject = Target
      BY <2>3, <3>2
    <3>7. Session!Fix
      BY <3>2, <3>4, <3>5, <3>6 DEF Session!Fix, Idle
    <3>8. QED BY <3>7 DEF Session!Next
  <2>5. CASE RecordOk
    <3>1. /\ pc = "record_ok" /\ pc' = "next" /\ UNCHANGED <<rem_targets, rem_root>>
          /\ rem_results' = Append(rem_results,
               [fp |-> Target, outcome |-> "verified", attempts |-> rem_history, content |-> rem_current])
      BY <2>5 DEF RecordOk, Record
    <3>2. [fp |-> Target, outcome |-> "verified", attempts |-> rem_history, content |-> rem_current] \in ResultType
      BY <3>1 DEF TypeOK, Target, ResultType
    <3>3. ResultOutcomes' = Append(ResultOutcomes, "verified")
      BY <3>1, <3>2, OutcomesOfResults
    <3>4. QED BY <3>1, <3>3 DEF Session!svars, Idle
  <2>6. CASE RecordFailed \/ RecordDeclined
    <3>1. PICK outcome \in {"failed", "declined"} : Record(outcome)
      BY <2>6 DEF RecordFailed, RecordDeclined
    <3>2. /\ pc \in {"record_failed", "record_declined"} /\ pc' = "next" /\ UNCHANGED <<rem_targets, rem_root>>
          /\ rem_results' = Append(rem_results,
               [fp |-> Target, outcome |-> outcome, attempts |-> rem_history, content |-> NoPatch])
      BY <2>6, <3>1 DEF RecordFailed, RecordDeclined, Record
    <3>3. [fp |-> Target, outcome |-> outcome, attempts |-> rem_history, content |-> NoPatch] \in ResultType
      BY <3>2 DEF TypeOK, Target, ResultType
    <3>4. ResultOutcomes' = Append(ResultOutcomes, outcome)
      BY <3>2, <3>3, OutcomesOfResults
    <3>5. Session!Working
      BY <2>3, <3>2
    <3>6. Session!GiveUp
      BY <3>2, <3>4, <3>5 DEF Session!GiveUp, Idle
    <3>7. QED BY <3>6 DEF Session!Next
  <2>7. CASE Finish
    <3>1. /\ pc = "finish" /\ pc' = "done" /\ UNCHANGED <<rem_targets, rem_results, rem_root>>
          /\ Len(rem_results) = Len(rem_targets)
      BY <2>7 DEF Finish, ResultsFollowTargets
    <3>2. Len(ResultOutcomes) = Len(rem_targets) /\ ResultOutcomes' = ResultOutcomes
      BY <3>1, OutcomesOfResults DEF ResultOutcomes
    <3>3. Session!End
      BY <3>1, <3>2 DEF Session!End, Idle
    <3>4. QED BY <3>3 DEF Session!Next
  <2>8. CASE Complete
    BY <2>8 DEF Complete, Session!svars, Idle, ResultOutcomes
  <2>9. CASE Crash \/ CrashAfterSave \/ Restart
    <3>1. Idle' /\ Base' = Base
      BY <2>9 DEF Crash, CrashAfterSave, Restart, Idle, Base
    <3>2. Session!Interrupt
      BY <3>1 DEF Session!Interrupt
    <3>3. QED BY <3>2 DEF Session!Next
  <2>10. CASE UNCHANGED vars
    BY <2>10 DEF vars, Session!svars, Idle, ResultOutcomes, Base
  <2>11. QED
    BY <2>1, <2>2, <2>4, <2>5, <2>6, <2>7, <2>8, <2>9, <2>10 DEF Next, Step
<1>3. QED
  BY <1>1, <1>2, TypeCorrect, TargetsSettledInOrder, PatchesInFile, PTL
     DEF Spec, ImplementsFixSession, Session!Spec
=============================================================================
