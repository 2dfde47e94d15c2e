------------------------------ MODULE ScanPipeline ------------------------------
(***************************************************************************)
(* A checkout (backend/services/workspace.py) and the scan graph up to its *)
(* report (backend/graph/workflow.py): plan, the scanners side by side,    *)
(* correlate (correlator.py), analyze (analyst.py), discover (discovery.py)*)
(* and report.                                                             *)
(*                                                                         *)
(* Files, severities and CWE families are numbers: the code sorts by them; *)
(* the CWEs of one family, most of which are alone in theirs, are one.     *)
(* A fingerprint stands for what it hashes: CWE or rule, file, symbol and  *)
(* snippet.  What the scanners and the LLM answer is arbitrary, within     *)
(* what the assumptions below say of it.                                   *)
(***************************************************************************)
EXTENDS Integers, Sequences, FiniteSets, Functions

CONSTANTS
  Optional,      \* the scanners whose modules can be imported, beyond two
  EnableCodeql, Analyze, Discover,   \* deps
  Diffs,         \* the sets of hunks that a PR may consist of
  Repos,         \* what a checkout may look like: the languages of its suffixes,
                 \* the names that the planner looks for, its source files, and
                 \* those of them that know of authorization
  Rules, Prints, Packages,   \* what findings are called by and told apart by
  Misconfigurations,   \* trivy's rules whose name starts with DS, AVD or KSV
  KeyRules,      \* rules with another CWE of CWE-798's family
  Outputs,       \* the sequences of findings that a scanner may report
  Claims,        \* findings that the LLM may claim to have discovered
  MaxLlm,        \* analyze_findings(max_llm_findings)
  MaxBatch,      \* findings in one request (_batches)
  MaxReviews,    \* discover_findings(max_calls)
  MaxFound       \* bound: what the LLM finds in all of its answers

VARIABLES
  pc, repo,
  changed,    \* workspace.changed_lines, as pairs of a file and a line
  plan,
  outs,       \* the ScanOutput of every planned scanner
  raw,        \* state["raw_findings"]
  findings,   \* state["findings"]
  warned,     \* state["warnings"] is not empty
  pending,    \* what analyze_findings has left to ask about
  judged,     \* its `out`: finding id -> finding with its analysis
  unread,     \* the files that discover_findings has left to show
  shown,      \* the files of the request that it has an answer to
  found,      \* what it has found
  reviews,    \* the requests that it has made
  report

analysis == <<pending, judged>>
discovery == <<unread, shown, found, reviews>>
workspace == <<repo, changed>>
vars == <<pc, workspace, plan, outs, raw, findings, warned, analysis, discovery, report>>

Running == [findings |-> <<>>, error |-> FALSE, done |-> FALSE]
NoReport == [new |-> {}, old |-> {}, deps |-> {}, errors |-> {}]

Init ==
  /\ pc = "checkout" /\ repo \in Repos /\ changed = {} /\ plan = <<>>
  /\ outs = << >>
  /\ raw = <<>> /\ findings = <<>> /\ warned = FALSE
  /\ pending = <<>> /\ judged = << >>
  /\ unread = <<>> /\ shown = {} /\ found = <<>> /\ reviews = 0
  /\ report = NoReport

-----------------------------------------------------------------------------
(* Sequences and sorting.                                                  *)

\* The elements of S, each behind those that are before it.
Enumerated(S, before) ==
  [k \in 1..Cardinality(S) |->
     CHOOSE i \in S : Cardinality({j \in S : <<j, i>> \in before}) = k - 1]

InOrder(ns) == Enumerated(ns, {p \in ns \X ns : p[1] < p[2]})

\* The elements of s at some of its indices, in order.
ElementsAt(s, at) == LET order == InOrder(at) IN [k \in DOMAIN order |-> s[order[k]]]

Pairs(s) == (DOMAIN s) \X (DOMAIN s)

\* Python's sort is stable: what is not less than the other stays as it is.
Stably(s, less) ==
  {p \in Pairs(s) : p \in less \/ (<<p[2], p[1]>> \notin less /\ p[1] < p[2])}

StableSort(s, less) ==
  LET order == Enumerated(DOMAIN s, Stably(s, less)) IN [k \in DOMAIN order |-> s[order[k]]]

MaxOf(ns) == CHOOSE n \in ns : \A m \in ns : m <= n

-----------------------------------------------------------------------------
(* Findings.                                                               *)

Verdicts == {"none", "true_positive", "false_positive", "needs_review"}
Severities == 0..4
NoPackage == ""
Scanners == <<"semgrep", "gitleaks", "codeql", "trivy", "syft">>
Detectors == Range(Scanners) \cup {"llm-review"}

Finding ==
  [scanner : Detectors, rule : Rules, print : Prints, package : Packages \cup {NoPackage},
   file : Nat, line : Nat \ {0}, end : Nat, severity : Severities, family : Nat,
   scope : {"new", "existing", "unknown"}, also : SUBSET Detectors, merged : SUBSET Rules,
   verdict : Verdicts]

Discovered(claim) ==
  [scanner |-> "llm-review", rule |-> claim.rule, file |-> claim.file, line |-> claim.line,
   end |-> claim.line, severity |-> claim.severity, family |-> claim.family,
   print |-> claim.print, package |-> NoPackage, scope |-> "unknown", also |-> {}, merged |-> {},
   verdict |-> IF claim.confidence >= 75 THEN "true_positive" ELSE "needs_review"]

\* What the scanners and the LLM may find.
Originals ==
  (UNION {Range(out) : out \in UNION {Outputs[name] : name \in Range(Scanners)}})
    \cup {Discovered(claim) : claim \in Claims}

\* A finding has lines from 1 on (models/finding.py), and nothing is merged
\* into it before the correlator has seen it.
ASSUME OutputsAssumption ==
  /\ DOMAIN Outputs = Range(Scanners)
  /\ \A name \in Range(Scanners) : \A out \in Outputs[name] :
       /\ out \in Seq(Finding)
       /\ \A i \in DOMAIN out : /\ out[i].end >= out[i].line
                                /\ out[i].also = {} /\ out[i].merged = {}

ASSUME ClaimsAssumption ==
  \A claim \in Claims :
    /\ claim.rule \in Rules /\ claim.print \in Prints
    /\ claim.file \in Nat /\ claim.line \in Nat \ {0} /\ claim.family \in Nat
    /\ claim.severity \in Severities

\* A fingerprint hashes the CWE, or the rule that decides it, and the file.
ASSUME PrintsAssumption ==
  \A f, g \in Originals : f.print = g.print => f.file = g.file /\ f.family = g.family

ASSUME SizesAssumption ==
  /\ MaxReviews \in Nat /\ MaxBatch \in Nat
  /\ \A r \in Repos : r.sources \subseteq Nat /\ IsFiniteSet(r.sources)

-----------------------------------------------------------------------------
(* Checkout and plan.                                                      *)

\* parse_changed_lines of `git diff -U0`: a hunk that only deletes has no
\* lines on the new side.
LinesOf(hunk) == {hunk.file} \X (hunk.start..(hunk.start + hunk.count - 1))

\* describe_changes: only files that the PR adds or modifies, none that it
\* renames.
Described(diff) == UNION {LinesOf(hunk) : hunk \in {h \in diff : h.status \in {"A", "M"}}}

ChangedFiles == {line[1] : line \in changed}

\* prepare_from_git: it may fail, and leaves nothing behind then.
Checkout ==
  /\ pc = "checkout"
  /\ \/ \E diff \in Diffs : changed' = Described(diff) /\ pc' = "plan"
     \/ pc' = "failed" /\ UNCHANGED changed
  /\ UNCHANGED <<repo, plan, outs, raw, findings, warned, analysis, discovery, report>>

\* build_adapters, for the names of scan_pull_request.
Adapters ==
  ({"semgrep", "gitleaks"} \cup Optional) \ (IF EnableCodeql THEN {} ELSE {"codeql"})

Manifests ==
  {"requirements.txt", "poetry.lock", "Pipfile.lock", "package-lock.json", "yarn.lock", "pom.xml",
   "go.mod", "Gemfile.lock", "uv.lock"}

HasManifest == repo.names \cap Manifests # {}
HasDockerfile == "Dockerfile" \in repo.names

\* detect_languages: by suffix, and python by two names.
Languages ==
  repo.languages \cup (IF repo.names \cap {"requirements.txt", "pyproject.toml"} # {}
                      THEN {"python"} ELSE {})

\* make_plan.
Applies(name) ==
  CASE name = "semgrep"  -> Languages \cap {"python", "javascript", "typescript", "go", "java", "ruby"} # {}
    [] name = "gitleaks" -> TRUE
    [] name = "codeql"   -> EnableCodeql /\ Languages \cap {"python", "javascript", "typescript"} # {}
    [] name = "trivy"    -> HasManifest \/ HasDockerfile
    [] name = "syft"     -> HasManifest

Plan ==
  /\ pc = "plan"
  /\ plan' = ElementsAt(Scanners, {k \in DOMAIN Scanners :
                                     Applies(Scanners[k]) /\ Scanners[k] \in Adapters})
  /\ outs' = [name \in Range(plan') |-> Running]
  /\ pc' = "scan"
  /\ UNCHANGED <<workspace, raw, findings, warned, analysis, discovery, report>>

-----------------------------------------------------------------------------
(* Scan.  The scanners run side by side; one that raises, times out or     *)
(* answers nonsense is an error, and codeql may report findings and an     *)
(* error.  A scanner that is still running when another's tool run cannot  *)
(* be recorded goes on, although the scan has failed.                      *)

Scanned(name) ==
  /\ pc \in {"scan", "failed"} /\ name \in DOMAIN outs /\ ~outs[name].done
  /\ \E out \in Outputs[name] \cup {<<>>}, error \in BOOLEAN :
       /\ error /\ name # "codeql" => out = <<>>
       /\ outs' = [outs EXCEPT ![name] = [findings |-> out, error |-> error, done |-> TRUE]]
  /\ UNCHANGED <<pc, workspace, plan, raw, findings, warned, analysis, discovery, report>>

\* record_tool_run raises: gather does not wait for the others.
RecordFails(name) ==
  /\ pc = "scan" /\ name \in DOMAIN outs /\ ~outs[name].done
  /\ outs' = [outs EXCEPT ![name].done = TRUE]
  /\ pc' = "failed"
  /\ UNCHANGED <<workspace, plan, raw, findings, warned, analysis, discovery, report>>

\* The findings of all scanners: where in the plan, and where in the output.
Slots == UNION {{k} \X (DOMAIN outs[plan[k]].findings) : k \in DOMAIN plan}

Earlier == {p \in Slots \X Slots : \/ p[1][1] < p[2][1]
                                   \/ p[1][1] = p[2][1] /\ p[1][2] < p[2][2]}

Gather ==
  /\ pc = "scan" /\ \A name \in DOMAIN outs : outs[name].done
  /\ raw' = LET order == Enumerated(Slots, Earlier)
            IN [i \in DOMAIN order |-> outs[plan[order[i][1]]].findings[order[i][2]]]
  /\ pc' = "correlate"
  /\ UNCHANGED <<workspace, plan, outs, findings, warned, analysis, discovery, report>>

-----------------------------------------------------------------------------
(* The correlator.                                                         *)

CodeAnalyzers == {"semgrep", "codeql"}
LineWindow == 3
NoFamily == 0
Secret == 1       \* the family of CWE-798
Auth == 2         \* the family of CWE-639

\* SCANNER_PRIORITY; whatever is not listed comes last.
Priority(name) ==
  CASE name = "codeql" -> 0 [] name = "semgrep" -> 1 [] name = "trivy" -> 2
    [] name = "gitleaks" -> 3 [] OTHER -> 4

Ranked(s) ==
  {p \in Pairs(s) : LET f == s[p[1]]  g == s[p[2]]
                    IN \/ Priority(f.scanner) < Priority(g.scanner)
                       \/ Priority(f.scanner) = Priority(g.scanner) /\ f.severity > g.severity}

RulesOf(f) == {f.rule} \cup f.merged

\* Mutant: the rules that were merged before are forgotten.
MergeAnew(group) ==
  LET primary == StableSort(group, Ranked(group))[1]
  IN [primary EXCEPT
       !.severity = MaxOf({f.severity : f \in Range(group)}),
       !.end = MaxOf({f.end : f \in Range(group)}),
       !.merged = {f.rule : f \in Range(group)} \ {primary.rule}]

\* Mutant: a finding is merged into itself.
MergeWithItself(group) ==
  LET primary == StableSort(group, Ranked(group))[1]
  IN [primary EXCEPT
       !.severity = MaxOf({f.severity : f \in Range(group)}),
       !.end = MaxOf({f.end : f \in Range(group)}),
       !.also = {f.scanner : f \in Range(group)} \ {primary.scanner},
       !.merged = UNION {RulesOf(f) : f \in Range(group)}]

\* _merge.
Merge(group) ==
  LET sorted == StableSort(group, Ranked(group))
      primary == sorted[1]
      labelled == {i \in DOMAIN sorted : sorted[i].family # NoFamily}
  IN [primary EXCEPT
       !.severity = MaxOf({f.severity : f \in Range(group)}),
       !.family = IF @ = NoFamily /\ labelled # {} THEN ElementsAt(sorted, labelled)[1].family
                  ELSE @,
       !.end = MaxOf({f.end : f \in Range(group)}),
       !.also = {f.scanner : f \in Range(group)} \ {primary.scanner},
       !.merged = (UNION {RulesOf(f) : f \in Range(group)}) \ {primary.rule}]

\* Mutant: neighbouring secrets are one issue.
SameWeakness(last, f) ==
  /\ f.family # NoFamily /\ last.file = f.file /\ last.family = f.family
  /\ f.line - last.end <= LineWindow

\* _same_issue.
SameIssue(last, f) ==
  /\ f.family # NoFamily /\ last.file = f.file /\ last.family = f.family
  /\ f.family # Secret
  /\ {f.scanner, last.scanner} \subseteq CodeAnalyzers
  /\ f.line - last.end <= LineWindow

ByPlace(s) ==
  {p \in Pairs(s) : LET f == s[p[1]]  g == s[p[2]]
                    IN \/ f.file < g.file
                       \/ f.file = g.file /\ f.family < g.family
                       \/ f.file = g.file /\ f.family = g.family /\ f.line < g.line}

BySeverity(s) ==
  {p \in Pairs(s) : LET f == s[p[1]]  g == s[p[2]]
                    IN \/ f.severity > g.severity
                       \/ f.severity = g.severity /\ f.file < g.file
                       \/ f.severity = g.severity /\ f.file = g.file /\ f.line < g.line}

\* The first pass: one finding for every fingerprint, in order of appearance.
FirstSeen(s) == {i \in DOMAIN s : \A j \in 1..(i - 1) : s[j].print # s[i].print}

OfPrint(s, i) == ElementsAt(s, {j \in DOMAIN s : s[j].print = s[i].print})

ByFingerprint(s) ==
  LET first == InOrder(FirstSeen(s)) IN [k \in DOMAIN first |-> Merge(OfPrint(s, first[k]))]

\* The second pass: each finding joins the group before it if it is the same
\* issue as the last of that group, and starts a group otherwise.
Starts(s) == {i \in DOMAIN s : i = 1 \/ ~SameIssue(s[i - 1], s[i])}

GroupFrom(s, starts, b) ==
  ElementsAt(s, {j \in DOMAIN s : b <= j /\ (b + 1)..j \cap starts = {}})

ByProximity(s) ==
  LET starts == Starts(s)
      first == InOrder(starts)
  IN [k \in DOMAIN first |-> LET group == GroupFrom(s, starts, first[k])
                             IN IF Len(group) > 1 THEN Merge(group) ELSE group[1]]

Correlated(s) ==
  LET merged == ByFingerprint(s)
      result == ByProximity(StableSort(merged, ByPlace(merged)))
  IN StableSort(result, BySeverity(result))

\* tag_pr_scope.
Touches(f) == \E n \in f.line..f.end : <<f.file, n>> \in changed

Tagged(f) == [f EXCEPT !.scope = IF Touches(f) THEN "new" ELSE "existing"]

LinesKnown == changed # {}

Correlate ==
  /\ pc = "correlate"
  /\ findings' = Correlated(IF LinesKnown THEN [i \in DOMAIN raw |-> Tagged(raw[i])] ELSE raw)
  /\ pc' = "analyze"
  /\ UNCHANGED <<workspace, plan, outs, raw, warned, analysis, discovery, report>>

-----------------------------------------------------------------------------
(* The analyst.                                                            *)

IdOf(f) == <<f.scanner, f.rule, f.file, f.package, f.line>>

\* deterministic_analysis: the verdicts that tool evidence may give, a
\* secret's by what its file and line look like; none if the LLM decides.
Deterministic(f) ==
  IF f.scanner = "trivy" /\ (f.package # NoPackage \/ f.rule \in Misconfigurations)
    THEN {"true_positive"}
  ELSE IF /\ f.scanner \in {"gitleaks", "trivy", "semgrep"}
          /\ f.family = Secret /\ f.rule \notin KeyRules
    THEN {"true_positive", "false_positive"}
  ELSE {}

Judge(f, verdict) == [f EXCEPT !.verdict = verdict]

\* out[f.id] = f of a dictionary that already holds `known`.
Into(known, s) ==
  LET ids == {IdOf(s[i]) : i \in DOMAIN s}
  IN [id \in DOMAIN known \cup ids |->
       IF id \in ids THEN s[MaxOf({i \in DOMAIN s : IdOf(s[i]) = id})] ELSE known[id]]

\* Without analysis, and the first loop of analyze_findings: tool evidence,
\* the first MaxLlm for the LLM, and the others left for a human.
StartAnalysis ==
  /\ pc = "analyze"
  /\ IF ~Analyze
     THEN /\ warned' = TRUE
          /\ pc' = "discover"
          /\ UNCHANGED analysis
     ELSE LET unclear == {i \in DOMAIN findings : Deterministic(findings[i]) = {}}
              asked == {i \in unclear : Cardinality({j \in unclear : j < i}) < MaxLlm}
              rest == DOMAIN findings \ asked
          IN /\ pending' = ElementsAt(findings, asked)
             /\ \E evidence \in [rest -> Verdicts] :
                  /\ \A i \in rest : evidence[i] \in IF i \in unclear THEN {"needs_review"}
                                                     ELSE Deterministic(findings[i])
                  /\ judged' = Into(<< >>, ElementsAt(
                       [i \in DOMAIN findings |-> IF i \in rest THEN Judge(findings[i], evidence[i])
                                                  ELSE findings[i]], rest))
             /\ warned' = (unclear # asked)
             /\ pc' = "asking"
  /\ UNCHANGED <<workspace, plan, outs, raw, findings, discovery, report>>

\* Mutant: a finding without a verdict is left as it is.
VerdictsOrNone(answers, id, failed) ==
  IF failed \/ id \notin DOMAIN answers THEN "none" ELSE answers[id].verdict

\* _apply, and the default for what the LLM did not answer: a verdict must
\* cite a line of the code that was shown.
VerdictOf(answers, id, failed) ==
  IF failed \/ id \notin DOMAIN answers \/ ~answers[id].cites
  THEN "needs_review" ELSE answers[id].verdict

Items == [verdict : {"true_positive", "false_positive"}, cites : BOOLEAN]

\* One request of analyze_findings: answered, or refused by the budget or
\* failed, in which case the next one is made all the same.
AskBatch ==
  /\ pc = "asking" /\ pending # <<>>
  /\ \E k \in 1..MaxBatch, failed \in BOOLEAN :
       /\ k <= Len(pending)
       /\ LET batch == SubSeq(pending, 1, k)
              ids == {IdOf(batch[i]) : i \in DOMAIN batch}
          IN \E some \in SUBSET ids : \E answers \in [some -> Items] :
               judged' = Into(judged, [i \in DOMAIN batch |->
                 Judge(batch[i], VerdictOf(answers, IdOf(batch[i]), failed))])
       /\ pending' = SubSeq(pending, k + 1, Len(pending))
       /\ warned' = (warned \/ failed)
  /\ UNCHANGED <<pc, workspace, plan, outs, raw, findings, discovery, report>>

Analysed ==
  /\ pc = "asking" /\ pending = <<>>
  /\ findings' = [i \in DOMAIN findings |-> judged[IdOf(findings[i])]]
  /\ pc' = "discover"
  /\ UNCHANGED <<workspace, plan, outs, raw, warned, analysis, discovery, report>>

-----------------------------------------------------------------------------
(* Discovery.                                                              *)

Distance(m, n) == IF m <= n THEN n - m ELSE m - n

\* Mutant: what the scanners have found is not looked at.
KnownToItself(claim) ==
  \E f \in Range(found) :
    /\ f.file = claim.file /\ Distance(f.line, claim.line) <= 3
    /\ claim.family \in {f.family, NoFamily}

\* _duplicate.
Known(claim) ==
  \E f \in Range(findings) \cup Range(found) :
    /\ f.file = claim.file /\ Distance(f.line, claim.line) <= 3
    /\ claim.family \in {f.family, NoFamily}

\* select_files: the source files among the changed ones, or all of them if
\* no line has changed.
Selected == IF ChangedFiles # {} THEN ChangedFiles \cap repo.sources ELSE repo.sources

\* An answer is kept if it cites lines of a file that was shown, is not too
\* unsure, and is no duplicate; missing authorization needs a file that
\* knows the concept.
Believed(claim) ==
  /\ claim.file \in shown /\ claim.cites /\ claim.confidence >= 50
  /\ ~Known(claim)
  /\ claim.family = Auth => Selected \cap repo.auth # {}

\* discover_node: nothing to do without analysis.
StartDiscovery ==
  /\ pc = "discover"
  /\ IF Analyze /\ Discover
     THEN unread' = InOrder(Selected) /\ pc' = "reviewing"
     ELSE pc' = "report" /\ UNCHANGED unread
  /\ UNCHANGED <<workspace, plan, outs, raw, findings, warned, analysis, shown, found, reviews,
                 report>>

\* One request of discover_findings, with as many files as fit (_batches).
\* The budget ends the discovery, any other failure only this request.
Review ==
  /\ pc = "reviewing" /\ unread # <<>> /\ reviews < MaxReviews
  /\ \E k \in 1..Len(unread) :
       \/ /\ shown' = Range(SubSeq(unread, 1, k)) /\ unread' = SubSeq(unread, k + 1, Len(unread))
          /\ UNCHANGED warned
       \/ /\ shown' = {} /\ unread' \in {SubSeq(unread, k + 1, Len(unread)), <<>>}
          /\ warned' = TRUE
  /\ reviews' = reviews + 1
  /\ UNCHANGED <<pc, workspace, plan, outs, raw, findings, analysis, found, report>>

\* The next finding of the answer; those that are not believed are skipped.
Claimed ==
  /\ pc = "reviewing" /\ Len(found) < MaxFound
  /\ \E claim \in Claims : Believed(claim) /\ found' = Append(found, Discovered(claim))
  /\ UNCHANGED <<pc, workspace, plan, outs, raw, findings, warned, analysis, unread, shown,
                 reviews, report>>

\* The end of discover_node: everything is correlated again.
MergeDiscovered ==
  /\ pc = "reviewing" /\ (unread = <<>> \/ reviews = MaxReviews)
  /\ findings' = Correlated(findings \o found)
  /\ pc' = "report"
  /\ UNCHANGED <<workspace, plan, outs, raw, warned, analysis, discovery, report>>

\* render_report: which findings are under which heading.
Report ==
  /\ pc = "report"
  /\ LET live == {f \in Range(findings) : f.verdict # "false_positive"}
         code == {f \in live : f.package = NoPackage}
     IN report' = [new |-> {f \in code : f.scope # "existing"},
                   old |-> {f \in code : f.scope = "existing"},
                   deps |-> {f \in live \ code : f.scope # "existing"},
                   errors |-> {name \in DOMAIN outs : outs[name].error}]
  /\ pc' = "done"
  /\ UNCHANGED <<workspace, plan, outs, raw, findings, warned, analysis, discovery>>

Next ==
  \/ Checkout \/ Plan \/ Gather \/ Correlate \/ StartAnalysis \/ AskBatch \/ Analysed
  \/ StartDiscovery \/ Review \/ Claimed \/ MergeDiscovered \/ Report
  \/ \E name \in DOMAIN outs : Scanned(name) \/ RecordFails(name)

Spec == Init /\ [][Next]_vars

-----------------------------------------------------------------------------
(* Properties.                                                             *)

Places == {"checkout", "plan", "scan", "correlate", "analyze", "asking", "discover",
           "reviewing", "report", "done", "failed"}

FindingOK(f) ==
  f \in Finding /\ f.end >= f.line /\ f.rule \notin f.merged /\ f.scanner \notin f.also

TypeOK ==
  /\ pc \in Places /\ repo \in Repos /\ warned \in BOOLEAN
  /\ Range(plan) \subseteq Adapters /\ DOMAIN outs = Range(plan)
  /\ shown \subseteq Selected /\ reviews \in 0..MaxReviews
  /\ \A s \in {raw, findings, pending, found} : \A f \in Range(s) : FindingOK(f)
  /\ \A id \in DOMAIN judged : FindingOK(judged[id]) /\ IdOf(judged[id]) = id

Reported == UNION {Range(outs[name].findings) : name \in DOMAIN outs}

\* What the report is built from: the scanners', and the LLM's once they
\* are merged.
Sources == Reported \cup IF pc \in {"report", "done"} THEN Range(found) ELSE {}

Correlating == pc \in {"analyze", "asking", "discover", "reviewing", "report", "done"}

\* What two scanner findings have in common if they have one id.  The code
\* does not ensure it: the analysis is kept by id, and of two versions of a
\* package with one CVE in a lockfile it keeps one.
IdsApart == \A f, g \in Reported : IdOf(f) = IdOf(g) => f.print = g.print

\* A line that findings of a weakness reach: from the first line of one to
\* LineWindow behind the end of another with its fingerprint.
Covered(file, family, n) ==
  \E s, t \in Sources :
    /\ s.print = t.print /\ s.file = file /\ s.family = family
    /\ s.line <= n /\ n <= t.end + LineWindow

Between(m, n) == IF m <= n THEN m..n ELSE n..m

\* The two reasons to take findings for one issue: one fingerprint, or one
\* weakness in one file, secrets apart, with no line from the one to the
\* other that findings of that weakness do not reach.
OneIssue(r, f) ==
  \/ r.print = f.print
  \/ /\ r.file = f.file /\ r.family = f.family /\ r.family \notin {NoFamily, Secret}
     /\ \A n \in Between(r.line, f.line) : Covered(r.file, r.family, n)

\* Whatever a scanner or the LLM found is in a finding of the same issue, and
\* not just in another one of its rule further down: in its file, naming its
\* rule, at least as severe and ending no earlier, through both correlations,
\* the analysis and the failure of any scanner, as long as no id stands for two
\* fingerprints.  It need not start there: _merge keeps the first line of one
\* finding of the group, and an earlier line of another is in no finding then.
NothingLost ==
  Correlating /\ IdsApart => \A r \in Sources : \E f \in Range(findings) :
    /\ OneIssue(r, f) /\ f.file = r.file /\ r.rule \in RulesOf(f)
    /\ f.severity >= r.severity /\ f.end >= r.end

\* A finding takes in another only for a reason: both stem from findings
\* with one fingerprint, or from code analyzers that saw one weakness on
\* neighbouring lines; a secret is an issue of its own (_merge, _same_issue).
MergesJustified ==
  Correlating => \A f \in Range(findings) : \A rule \in f.merged :
    \E r, p \in Sources :
      /\ r.rule = rule /\ r.print = p.print /\ OneIssue(p, f)
      /\ p.print = f.print \/ {p.scanner, f.scanner} \subseteq CodeAnalyzers

\* A discovery that says again what a finding says.
Repeats(d, f) ==
  /\ d.file = f.file /\ d.line - f.line \in -3..3
  /\ d.family = f.family \/ d.family = NoFamily

\* discovery.py: "Discovered findings must cite real lines, never duplicate
\* scanner findings".  What the LLM adds is news, whatever it answers in however
\* many requests: none is within three lines of a finding of the scanners of its
\* family, and none of one that it came up with before (_duplicate).  A finding
\* is where the correlator has put it, on the first line of its primary: one that
\* was merged into it from further down is not looked at.
DiscoveriesAreNew ==
  /\ pc = "reviewing" => \A d \in Range(found), f \in Range(findings) : ~Repeats(d, f)
  /\ \A i, j \in DOMAIN found : i < j => ~Repeats(found[j], found[i])

\* No finding reaches the report without a verdict, whatever the LLM leaves
\* out, refuses or fails to answer (analyze_findings).
EveryFindingJudged ==
  pc \in {"discover", "reviewing", "report", "done"} /\ Analyze
    => \A f \in Range(findings) : f.verdict # "none"

\* What the report calls "pre-existing finding(s) not introduced by this PR"
\* holds nothing that a scanner saw on a changed line (tag_pr_scope,
\* render_report).  The code breaks this, as _merge keeps the scope of one
\* finding of a group: see the run ScanPipelineScope.
NothingNewIsOld ==
  \A g \in report.old : \A r \in Reported :
    Touches(r) => \/ r.file # g.file \/ r.rule \notin RulesOf(g)
                  \/ r.line < g.line \/ r.end > g.end

=============================================================================
