----------------------------- MODULE MCFixApproval -----------------------------
(* Instances of FixApproval for TLC: two findings in one file, two humans. *)
EXTENDS FixApproval, TLC

CONSTANTS f1, f2, app, alice, bob

InOneFile == f1 :> app @@ f2 :> app
=============================================================================
