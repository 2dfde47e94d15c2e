---------------------------- MODULE MCScanPipeline ----------------------------
(* Instances of ScanPipeline for TLC: one file with an injection that two  *)
(* analyzers see on neighbouring lines and that occurs again further down, *)
(* two secrets next to each other, and a vulnerable dependency, also in    *)
(* two versions.                                                           *)
EXTENDS ScanPipeline, TLC

SqlInjection == 3
Dependency == 4

Raw(scanner, rule, line, severity, family, print) ==
  [scanner |-> scanner, rule |-> rule, file |-> 1, line |-> line, end |-> line,
   severity |-> severity, family |-> family, print |-> print, package |-> NoPackage,
   scope |-> "unknown", also |-> {}, merged |-> {}, verdict |-> "none"]

Source == Raw("semgrep", "taint", 10, 2, SqlInjection, "a")
Copy == Raw("semgrep", "taint", 30, 2, SqlInjection, "a")
Near == [Raw("semgrep", "format", 13, 1, SqlInjection, "b") EXCEPT !.end = 14]
Sink == Raw("codeql", "sqli", 12, 3, SqlInjection, "c")
Far == Raw("codeql", "sqli", 17, 3, SqlInjection, "d")
Key1 == Raw("gitleaks", "aws", 20, 3, Secret, "k1")
Key2 == Raw("gitleaks", "jwt", 21, 3, Secret, "k2")
Advisory == [Raw("trivy", "cve", 1, 2, Dependency, "v") EXCEPT !.package = "p", !.file = 2]
OtherVersion == [Advisory EXCEPT !.print = "w"]

SomeOutputs ==
  "semgrep" :> {<<Source, Near>>, <<Source, Copy>>} @@ "codeql" :> {<<Sink, Far>>}
    @@ "gitleaks" :> {<<Key1, Key2>>} @@ "trivy" :> {<<Advisory>>, <<Advisory, OtherVersion>>} @@ "syft" :> {}

SomeRules == {"taint", "format", "sqli", "aws", "jwt", "cve"}
               \cup {"llm-sql", "llm-logic", "llm-auth", "llm-guess"}
SomePrints == {"a", "b", "c", "d", "k1", "k2", "v", "w", "x", "l", "o", "g", "h", "z"}

Claim(rule, line, family, print, confidence, cites) ==
  [rule |-> rule, file |-> 1, line |-> line, severity |-> 2, family |-> family,
   print |-> print, confidence |-> confidence, cites |-> cites]

SomeClaims ==
  {Claim("llm-sql", 40, SqlInjection, "a", 80, TRUE), Claim("llm-sql", 42, SqlInjection, "x", 80, TRUE),
   Claim("llm-logic", 20, NoFamily, "l", 60, TRUE), Claim("llm-auth", 50, Auth, "o", 60, TRUE),
   Claim("llm-guess", 60, SqlInjection, "g", 40, TRUE), Claim("llm-guess", 70, SqlInjection, "h", 90, FALSE),
   [Claim("llm-sql", 5, SqlInjection, "z", 80, TRUE) EXCEPT !.file = 3]}

SomeRepos ==
  {[languages |-> {}, names |-> {"requirements.txt"}, sources |-> {1, 3}, auth |-> {3}],
   [languages |-> {}, names |-> {"go.mod"}, sources |-> {}, auth |-> {}],
   [languages |-> {"go"}, names |-> {"Dockerfile"}, sources |-> {}, auth |-> {}]}

Hunk(file, start, count, status) ==
  [file |-> file, start |-> start, count |-> count, status |-> status]

\* A PR that changes the code; one that only deletes and renames; and one
\* that changes the manifest.
SomeDiffs ==
  {{Hunk(1, 13, 2, "M"), Hunk(1, 20, 1, "M")}, {Hunk(1, 9, 0, "M"), Hunk(3, 1, 9, "R")},
   {Hunk(2, 1, 1, "A")}}

=============================================================================
