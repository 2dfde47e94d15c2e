-------------------------------- MODULE ScanRows --------------------------------
(***************************************************************************)
(* What the scans table promises for every webhook delivery, without       *)
(* queue, worker, tries or comments (store.py, start_scan: "a completed    *)
(* scan is not repeated, a failed or interrupted one is retried on the     *)
(* same row").  The findings of a row are those of one run, and they are   *)
(* saved before it completes.  Once the report of a completed scan has     *)
(* been dealt with, the row stays as it is.                                *)
(***************************************************************************)
EXTENDS Integers

CONSTANTS
  Deliveries,
  MayDemote   \* a completed row can be marked failed over its report

VARIABLES
  row,        \* the status of the row, "none" before there is one
  findings,   \* how many runs have their findings in the findings table
  reporting   \* completed scans whose report is not dealt with

rvars == <<row, findings, reporting>>

Init ==
  /\ row = [d \in Deliveries |-> "none"]
  /\ findings = [d \in Deliveries |-> 0]
  /\ reporting = {}

\* The first run, or a retry, which drops what an earlier run saved.
Start(d) ==
  /\ row[d] # "completed"
  /\ row' = [row EXCEPT ![d] = "running"]
  /\ findings' = [findings EXCEPT ![d] = 0]
  /\ UNCHANGED reporting

Save(d) ==
  /\ row[d] = "running" /\ findings[d] = 0
  /\ findings' = [findings EXCEPT ![d] = 1]
  /\ UNCHANGED <<row, reporting>>

Complete(d) ==
  /\ row[d] = "running" /\ findings[d] = 1
  /\ row' = [row EXCEPT ![d] = "completed"]
  /\ reporting' = reporting \cup {d}
  /\ UNCHANGED findings

Fail(d) ==
  /\ row[d] = "running" \/ (d \in reporting /\ MayDemote)
  /\ row' = [row EXCEPT ![d] = "failed"]
  /\ reporting' = reporting \ {d}
  /\ UNCHANGED findings

\* The reports are posted or given up; those of all jobs if the worker dies.
Reported ==
  /\ \E done \in SUBSET reporting : reporting' = reporting \ done
  /\ UNCHANGED <<row, findings>>

Next == Reported \/ \E d \in Deliveries : Start(d) \/ Save(d) \/ Complete(d) \/ Fail(d)

Spec == Init /\ [][Next]_rvars
=============================================================================
