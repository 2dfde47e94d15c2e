------------------------------ MODULE MCToolCalls ------------------------------
(* Instances of ToolCalls for TLC: a scanner of one job, a verification of *)
(* another and the approval of a fix, in one process.                      *)
EXTENDS ToolCalls, TLC

CONSTANTS scan, verify, write

TheScans == {scan}
TheVerifiers == {verify}
TheWriters == {write}

AllGroups == {"read", "scan", "exec", "repo_write"}

SomeScripts ==
  scan :> {<< >>, <<"run_trivy">>, <<"run_codeql">>, <<"generate_sbom">>}
    @@ verify :> {<< >>, <<"build_project", "run_linter", "run_tests", "run_trivy", "run_gitleaks">>,
                  <<"build_project", "run_linter", "run_tests", "run_trivy">>,
                  <<"build_project", "run_linter", "run_trivy">>}
    @@ write :> {<< >>, <<"create_branch", "get_pull_request">>, <<"post_review_comment">>}

\* One finding; more than fit, so that compact drops some; and so many of
\* such a size that what compact leaves is cut.
SomeReports == {[count |-> 1, chars |-> 700], [count |-> 50, chars |-> 620], [count |-> 50, chars |-> 700]}

\* Calls meet at the trivy database only: codeql, gitleaks and the writes go
\* by themselves.
MCInit ==
  /\ Init
  /\ \/ /\ todo[scan] = <<"run_trivy">> /\ todo[write] = <<>>
        /\ "run_gitleaks" \notin Range(todo[verify])
     \/ todo[scan] = <<>> /\ todo[write] = <<>>
     \/ todo[scan] \in {<<"run_codeql">>, <<"generate_sbom">>} /\ todo[write] = <<>> /\ todo[verify] = <<>>
     \/ todo[scan] = <<>> /\ todo[verify] = <<>>
MCSpec == MCInit /\ [][Next]_vars
MCFairSpec == MCSpec /\ \A p \in Clients : WF_vars(Step(p))

=============================================================================
