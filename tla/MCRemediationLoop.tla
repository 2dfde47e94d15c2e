-------------------------- MODULE MCRemediationLoop --------------------------
(* Instances of RemediationLoop for TLC. *)
EXTENDS RemediationLoop, TLC

CONSTANTS f1, f2, f3, x, app, req, lib, none

\* Two findings in the code of one file, which a patch may also make worse.
CodeFindings == {f1, f2}
CodeExtra == {x}
CodeFileOf == f1 :> app @@ f2 :> app @@ x :> app
CodePackageOf == f1 :> NoPackage @@ f2 :> NoPackage

\* Two advisories of one package, a secret in the same manifest and a finding
\* in code: two fixes can meet in a file, and two targets in a package.
MixedFindings == {f1, f2, f3}
MixedFileOf == f1 :> req @@ f2 :> req @@ f3 :> req @@ x :> req
MixedPackageOf == f1 :> lib @@ f2 :> lib @@ f3 :> NoPackage

\* Two findings in the code of different files.
TwoFilesOf == f1 :> app @@ f2 :> req @@ x :> app
=============================================================================
