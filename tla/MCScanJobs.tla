------------------------------ MODULE MCScanJobs ------------------------------
(* Instances of ScanJobs for TLC: pushes to one pull request of a repository. *)
EXTENDS ScanJobs, TLC

CONSTANTS d1, d2, d3, pr, repo

Push == [signed |-> TRUE, event |-> "pull_request", action |-> "synchronize",
         draft |-> FALSE, wellFormed |-> TRUE, hasId |-> TRUE]

TwoPushes == d1 :> Push @@ d2 :> Push
\* The third delivery is a push to the pull request while it was a draft.
AndDraft == TwoPushes @@ d3 :> [Push EXCEPT !.draft = TRUE]

ToOnePR == d1 :> pr @@ d2 :> pr @@ d3 :> pr
OfOneRepo == pr :> repo

=============================================================================
