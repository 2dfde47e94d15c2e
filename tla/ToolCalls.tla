------------------------------- MODULE ToolCalls -------------------------------
(***************************************************************************)
(* The MCP gateway and what is behind it: a call of a tool from its client *)
(* (backend/services/mcp_client.py, verification.py, the scan node)        *)
(* through the governed wrapper (mcp_server/policy.py) into a container    *)
(* (dev_tools.py, security_tools.py, scanners/, sandbox.py) or to GitHub   *)
(* (github_tools.py), and back.                                            *)
(*                                                                         *)
(* The processes are the clients.  Each has one call at a time; the calls  *)
(* of all of them share the process and the lock of the trivy database.    *)
(* What a container prints, and when it ends, is arbitrary.                *)
(***************************************************************************)
EXTENDS Integers, Sequences, FiniteSets, Functions

CONSTANTS
  Scans,      \* scanners of scan_node, each under its own timeout
  Verifiers,  \* runs of Verifier.verify
  Writers,    \* open_remediation_pr, and the posting of a report
  Scripts,    \* for every client, the sequences of tools it may call
  Groups,     \* ToolPolicy.groups
  Adapters,   \* ctx.adapters
  Reports,    \* what a scanner may report: how many findings, and the size of
              \* the JSON of one of them without its evidence
  Rounds,     \* the languages that codeql is run for, one after another
  Nobody

Clients == Scans \cup Verifiers \cup Writers

\* The tools by the group that they are registered in (`register` of
\* dev_tools.py, security_tools.py and github_tools.py).  The first three run
\* the project's own code; of the tools that only read one stands for those
\* that ask GitHub and one for those that read the workspace.
ExecTools == {"build_project", "run_linter", "run_tests"}
ScanTools == {"run_semgrep", "run_gitleaks", "run_codeql", "run_trivy", "generate_sbom"}
WriteTools == {"create_branch", "apply_patch", "create_pull_request"}
ReadTools == {"get_pull_request", "workspace_get_file"}
Tools == ExecTools \cup ScanTools \cup WriteTools \cup ReadTools \cup {"post_review_comment"}

ASSUME ToolCallsAssumption ==
  /\ Scans \cap Verifiers = {} /\ Writers \cap (Scans \cup Verifiers) = {}
  /\ Nobody \notin Clients
  /\ \A p \in Clients : \A script \in Scripts[p] : script \in Seq(Tools)
  /\ \A report \in Reports : report.count \in Nat /\ report.chars \in Nat
  /\ Rounds \in Nat

VARIABLES
  at,         \* where the client is
  todo,       \* the tools that it has yet to call; the first is being called
  workspaces, \* WorkspaceRegistry: clients whose workspace is registered
  stage,      \* where the call is
  box,        \* its container
  out,        \* what the container has printed, with its exit code
  round,      \* the languages that codeql has done
  late,       \* the call has spent time that its sandbox does not count
  cancelled,  \* the call was cancelled where it waited
  answer,     \* the answer of the call
  lock,       \* TrivyAdapter._db_lock
  copies,     \* calls with a throwaway copy on disk (run_in_sandbox_copy)
  seen,       \* what really happened to the tools of each verification
  flaws,      \* the rescan reported an error or an issue
  effects,    \* writes that GitHub has carried out
  audited     \* AuditLog.records

client == <<at, todo, workspaces, seen, flaws>>
sandbox == <<box, out, round>>
rest == <<effects, audited>>
vars == <<client, stage, sandbox, late, cancelled, answer, lock, copies, rest>>

GroupOf(tool) ==
  CASE tool \in ExecTools -> "exec" [] tool \in ScanTools -> "scan"
    [] tool \in WriteTools -> "repo_write" [] tool \in ReadTools -> "read" [] OTHER -> "comment"

\* What a container may leave: the exit code; all of its output, a part of it
\* or nothing; the findings in it, and whether the last of them is the issue
\* that a verification looks for.
Empty == [count |-> 0, chars |-> 0]
Outputs == [ok : BOOLEAN, printed : {"all", "part", "nothing"},
            report : Reports \cup {Empty}, issue : BOOLEAN]
Printed(ok, printed) == [ok |-> ok, printed |-> printed, report |-> Empty, issue |-> FALSE]
NoOutput == Printed(FALSE, "nothing")

Answers == {"none", "good", "bad", "issue", "error", "cut"}
InSandbox == {"running", "killing", "draining"}

Init ==
  /\ at = [p \in Clients |-> "ready"]
  /\ todo \in [Clients -> UNION {Scripts[p] : p \in Clients}]
  /\ \A p \in Clients : todo[p] \in Scripts[p]
  /\ workspaces = Clients
  /\ stage = [p \in Clients |-> "idle"]
  /\ box = [p \in Clients |-> "none"]
  /\ out = [p \in Clients |-> NoOutput]
  /\ round = [p \in Clients |-> 0]
  /\ late = [p \in Clients |-> FALSE]
  /\ cancelled = {}
  /\ answer = [p \in Clients |-> "none"]
  /\ lock = Nobody
  /\ copies = {}
  /\ seen = [p \in Clients |-> {}]
  /\ flaws = [p \in Clients |-> FALSE]
  /\ effects = {} /\ audited = {}

Tool(p) == Head(todo[p])
Set(f, p, x) == [f EXCEPT ![p] = x]

-----------------------------------------------------------------------------
(* The call, on the server's side.                                         *)

\* Tools of a group that is not enabled are not registered, so that the
\* client library's server refuses them without asking the wrapper.
Advertised(tool) == GroupOf(tool) \in Groups

Begin(p) ==
  /\ at[p] = "ready" /\ todo[p] # <<>>
  /\ at' = Set(at, p, "waiting")
  /\ UNCHANGED <<todo, workspaces, seen, flaws, out, round, late, cancelled, rest>>

\* Refused; or over at once, with an error: the workspace is unknown, the
\* scanner not installed, the copy or the start of docker fails, the branch
\* is not an acsr/ branch.
Refused(p) ==
  /\ Begin(p)
  /\ answer' = Set(answer, p, "error")
  /\ stage' = Set(stage, p, IF Advertised(Tool(p)) THEN "over" ELSE "answered")
  /\ UNCHANGED <<box, lock, copies>>

\* registry.get and the look-up of the adapter, in tools that need them.
Admitted(p) ==
  /\ Advertised(Tool(p))
  /\ Tool(p) \in ExecTools \cup ScanTools => p \in workspaces
  /\ Tool(p) \in ScanTools => Tool(p) \in Adapters

\* docker run has been started; the container is not there yet.
Launch(p) ==
  /\ Begin(p) /\ Admitted(p)
  /\ Tool(p) \in ExecTools \cup ScanTools
  /\ Tool(p) = "run_trivy" => lock = Nobody
  /\ stage' = Set(stage, p, "running") /\ box' = Set(box, p, "coming")
  /\ lock' = IF Tool(p) = "run_trivy" THEN p ELSE lock
  /\ copies' = IF Tool(p) \in ExecTools THEN copies \cup {p} ELSE copies
  /\ UNCHANGED answer

Queue(p) ==
  /\ Begin(p) /\ Admitted(p)
  /\ Tool(p) = "run_trivy" /\ lock # Nobody
  /\ stage' = Set(stage, p, "queued")
  /\ UNCHANGED <<box, lock, copies, answer>>

Acquire(p) ==
  /\ stage[p] = "queued" /\ lock = Nobody
  /\ lock' = p /\ late' = Set(late, p, TRUE)
  /\ stage' = Set(stage, p, "running") /\ box' = Set(box, p, "coming")
  /\ UNCHANGED <<client, out, round, cancelled, answer, copies, rest>>

\* A request to GitHub.
Ask(p) ==
  /\ Begin(p) /\ Admitted(p)
  /\ Tool(p) \notin ExecTools \cup ScanTools
  /\ stage' = Set(stage, p, "requesting")
  /\ UNCHANGED <<box, answer, lock, copies>>

Effect(p) == {<<p, Tool(p)>>} \ (Clients \X ReadTools)

\* It may be refused, and its answer may be lost after it was carried out.
Requested(p) ==
  /\ stage[p] = "requesting"
  /\ \E done, told \in BOOLEAN :
       /\ told => done
       /\ effects' = IF done THEN effects \cup Effect(p) ELSE effects
       /\ answer' = Set(answer, p, IF told THEN "good" ELSE "error")
  /\ stage' = Set(stage, p, "over")
  /\ UNCHANGED <<client, sandbox, late, cancelled, lock, copies, audited>>

-----------------------------------------------------------------------------
(* The container: Docker creates it, its program ends or not.              *)

Created(p) ==
  /\ box[p] = "coming" /\ box' = Set(box, p, "up")
  /\ UNCHANGED <<client, stage, out, round, late, cancelled, answer, lock, copies, rest>>

\* codeql has another language to do.
More(p) == Tool(p) = "run_codeql" /\ round[p] + 1 < Rounds

\* It may fail to be created; a program that fails has printed nothing or a
\* part; one that succeeds all, unless there is nothing to print.  The report
\* of codeql's last language stands for those of all.
Ended(p) ==
  /\ box[p] \in {"coming", "up"} /\ box' = Set(box, p, "gone")
  /\ IF stage[p] \notin InSandbox THEN UNCHANGED out
     ELSE \E o \in {Printed(FALSE, "nothing"), Printed(FALSE, "part"), Printed(TRUE, "nothing")}
                   \cup IF More(p) THEN {Printed(TRUE, "all")}
                        ELSE [ok : {TRUE}, printed : {"all"}, report : Reports, issue : BOOLEAN] :
            /\ box[p] = "coming" => o = NoOutput
            /\ Tool(p) \in ExecTools => o.printed = "nothing"
            /\ out' = Set(out, p, o)
  /\ UNCHANGED <<client, stage, round, late, cancelled, answer, lock, copies, rest>>

-----------------------------------------------------------------------------
(* run_sandboxed, and what the tools make of its result.                   *)

OutputCap == 30000     \* MAX_OUTPUT_CHARS
CompactLimit == OutputCap - 2000
RowEstimate == 600

\* compact: without evidence if need be, and then only the first rows; the
\* components of an SBOM are sent as they are.
RowsSent(tool, report) ==
  IF \/ tool = "generate_sbom"
     \/ report.count * report.chars <= CompactLimit
     \/ report.count < CompactLimit \div RowEstimate
  THEN report.count ELSE CompactLimit \div RowEstimate

\* tool_json cuts the text; it is JSON no longer.
Cut(tool, report) == RowsSent(tool, report) * report.chars > OutputCap

\* The scanners' own checks of what was printed; only gitleaks may print
\* nothing.
Readable(tool, o) ==
  o.printed = "all" \/ (o.printed = "nothing" /\ tool = "run_gitleaks")

\* Mutant: a run that timed out counts if it has printed its report.
AnswerInTime(tool, o, overdue) ==
  IF tool \in ExecTools THEN IF o.ok THEN "good" ELSE "bad"
  ELSE IF ~Readable(tool, o) THEN "bad"
  ELSE IF Cut(tool, o.report) THEN "cut"
  ELSE IF o.issue /\ o.report.count = RowsSent(tool, o.report) THEN "issue" ELSE "good"

\* The exec tools tell by the exit code, although the time limit may have
\* passed, the scanners by what was printed; a part of a report does not
\* parse.  The issue is the last row, if it is sent.
AnswerOf(tool, o, overdue) ==
  IF tool \in ExecTools THEN IF o.ok THEN "good" ELSE "bad"
  ELSE IF overdue \/ ~Readable(tool, o) THEN "bad"
  ELSE IF Cut(tool, o.report) THEN "cut"
  ELSE IF o.issue /\ o.report.count = RowsSent(tool, o.report) THEN "issue" ELSE "good"

\* What the output says of the check, whatever became of it on the way: done,
\* failed, done when its time limit had passed, stopped there, or with the
\* issue still there; among the rows that were sent or among those that
\* compact has dropped.
Truth(tool, o, overdue) ==
  IF tool \in ExecTools THEN IF ~o.ok THEN "failed" ELSE IF overdue THEN "late" ELSE "done"
  ELSE IF overdue THEN "stopped"
  ELSE IF o.printed # "all" /\ ~o.ok THEN "failed"
  ELSE IF ~o.issue THEN "done"
  ELSE IF o.report.count > RowsSent(tool, o.report) THEN "issue dropped" ELSE "issue"

Truths == {"done", "failed", "late", "stopped", "issue", "issue dropped"}

\* Every way out of the tool gives back its lock and its copy.
Leave(p) ==
  /\ stage' = Set(stage, p, "over")
  /\ lock' = IF lock = p THEN Nobody ELSE lock
  /\ copies' = copies \ {p}

Conclude(p, overdue) ==
  /\ answer' = Set(answer, p, AnswerOf(Tool(p), out[p], overdue))
  /\ seen' = IF p \in Verifiers
             THEN Set(seen, p, seen[p] \cup {<<Tool(p), Truth(Tool(p), out[p], overdue)>>}) ELSE seen
  /\ out' = Set(out, p, NoOutput)
  /\ Leave(p)
  /\ UNCHANGED <<box, round, late>>

\* codeql runs for one language after another, and stops at an error.
NextLanguage(p) ==
  /\ round' = Set(round, p, round[p] + 1) /\ late' = Set(late, p, TRUE)
  /\ box' = Set(box, p, "coming") /\ out' = Set(out, p, NoOutput)
  /\ UNCHANGED <<stage, seen, answer, lock, copies>>

Finished(p) ==
  /\ stage[p] = "running" /\ box[p] = "gone"
  /\ IF More(p) /\ out[p].printed = "all" THEN NextLanguage(p) ELSE Conclude(p, FALSE)
  /\ UNCHANGED <<at, todo, workspaces, flaws, cancelled, rest>>

\* wait_for gives up: docker kill, whose result is not looked at, and then
\* communicate once more, for as long as it takes.
Timeout(p) ==
  /\ stage[p] = "running"
  /\ stage' = Set(stage, p, "killing")
  /\ UNCHANGED <<client, sandbox, late, cancelled, answer, lock, copies, rest>>

\* Mutant: the container is not killed.
KillNothing(p) ==
  /\ stage[p] = "killing" /\ stage' = Set(stage, p, "draining")
  /\ UNCHANGED <<client, sandbox, late, cancelled, answer, lock, copies, rest>>

Kill(p) ==
  /\ stage[p] = "killing"
  /\ IF box[p] = "up"
     THEN /\ box' = Set(box, p, "gone")
          /\ \E printed \in IF Tool(p) \in ExecTools THEN {"nothing"} ELSE {"all", "part"} :
               out' = Set(out, p, Printed(FALSE, printed))
     ELSE UNCHANGED <<box, out>>
  /\ stage' = Set(stage, p, "draining")
  /\ UNCHANGED <<client, round, late, cancelled, answer, lock, copies, rest>>

\* Mutant: the container is not waited for.
DrainedAtOnce(p) ==
  /\ stage[p] = "draining"
  /\ Conclude(p, TRUE)
  /\ UNCHANGED <<at, todo, workspaces, flaws, cancelled, rest>>

Drained(p) ==
  /\ stage[p] = "draining" /\ box[p] = "gone"
  /\ Conclude(p, TRUE)
  /\ UNCHANGED <<at, todo, workspaces, flaws, cancelled, rest>>

\* Mutant: a call that raised is not recorded.
AuditAnswers(p) ==
  /\ stage[p] = "over"
  /\ audited' = IF answer[p] = "error" THEN audited ELSE audited \cup {<<p, Tool(p)>>}
  /\ stage' = Set(stage, p, "answered")
  /\ \E stored \in BOOLEAN : answer' = IF stored THEN answer ELSE Set(answer, p, "error")
  /\ UNCHANGED <<client, sandbox, late, cancelled, lock, copies, effects>>

\* The `finally` of governed: the record is appended, and then stored; if
\* that fails its exception takes the place of the result.
Audit(p) ==
  /\ stage[p] = "over"
  /\ audited' = audited \cup {<<p, Tool(p)>>}
  /\ stage' = Set(stage, p, "answered")
  /\ \E stored \in BOOLEAN : answer' = IF stored THEN answer ELSE Set(answer, p, "error")
  /\ UNCHANGED <<client, sandbox, late, cancelled, lock, copies, effects>>

-----------------------------------------------------------------------------
(* The clients.                                                            *)

Quit(p, where) == at' = Set(at, p, where) /\ todo' = Set(todo, p, <<>>)

\* run_one: an error of any kind is the scanner's.
ScanReceives(p) ==
  /\ p \in Scans
  /\ Quit(p, IF answer[p] \in {"good", "issue"} THEN "done" ELSE "failed")
  /\ UNCHANGED <<workspaces, seen, flaws>>

\* verify: raises when a build, a linter run or a test cannot be called, and
\* when the answer of a scanner is cut; stops at the first bad check, and at
\* a project without tests; and judges the rescan when all scanners have run.
VerifierReceives(p) ==
  LET tool == Tool(p)
      raises == answer[p] = "cut" \/ (answer[p] = "error" /\ tool \in ExecTools)
      flawed == flaws[p] \/ answer[p] # "good"
      untested == tool = "run_linter" /\ "run_tests" \notin Range(todo[p])
  IN /\ p \in Verifiers
     /\ UNCHANGED seen
     /\ IF raises \/ (tool \in ExecTools /\ answer[p] = "bad") \/ untested \/ Len(todo[p]) = 1
        THEN /\ Quit(p, IF raises THEN "raised" ELSE IF flawed \/ untested THEN "failed" ELSE "passed")
             /\ workspaces' = workspaces \ {p}
             /\ UNCHANGED flaws
        ELSE /\ at' = Set(at, p, "ready") /\ todo' = Set(todo, p, Tail(todo[p]))
             /\ flaws' = Set(flaws, p, flawed)
             /\ UNCHANGED workspaces

WriterReceives(p) ==
  /\ p \in Writers
  /\ IF answer[p] # "good" THEN Quit(p, "failed")
     ELSE IF Len(todo[p]) = 1 THEN Quit(p, "done")
     ELSE at' = Set(at, p, "ready") /\ todo' = Set(todo, p, Tail(todo[p]))
  /\ UNCHANGED <<workspaces, seen, flaws>>

\* Mutant: the answer is not taken.
ReceiveAndKeep(p) ==
  /\ stage[p] = "answered" /\ at[p] = "waiting"
  /\ ScanReceives(p) \/ VerifierReceives(p) \/ WriterReceives(p)
  /\ box' = Set(box, p, "none") /\ round' = Set(round, p, 0)
  /\ UNCHANGED <<stage, answer, out, late, cancelled, lock, copies, rest>>

Receive(p) ==
  /\ stage[p] = "answered" /\ at[p] = "waiting"
  /\ ScanReceives(p) \/ VerifierReceives(p) \/ WriterReceives(p)
  /\ stage' = Set(stage, p, "idle")
  /\ answer' = Set(answer, p, "none") /\ box' = Set(box, p, "none")
  /\ round' = Set(round, p, 0) /\ late' = Set(late, p, FALSE)
  /\ UNCHANGED <<out, cancelled, lock, copies, rest>>

\* CancelledError where the call waits: docker run and its container are left
\* as they are, a request may have been carried out; the call is recorded as
\* any other.
Cancelled(p) ==
  /\ cancelled' = cancelled \cup {p}
  /\ Leave(p)
  /\ \/ UNCHANGED effects
     \/ stage[p] = "requesting" /\ effects' = effects \cup Effect(p)
  /\ UNCHANGED <<sandbox, late, answer, audited>>

\* Mutant: the time in the queue does not count.
OuterTimeoutInSandbox(p) ==
  /\ p \in Scans /\ at[p] = "waiting"
  /\ \/ stage[p] \in {"killing", "draining"}
     \/ (stage[p] = "running" /\ late[p])
  /\ at' = Set(at, p, "failed")
  /\ Cancelled(p) \/ UNCHANGED <<stage, sandbox, late, cancelled, answer, lock, copies, rest>>
  /\ UNCHANGED <<todo, workspaces, seen, flaws>>

\* wait_for of scan_node, at half a minute more than the sandbox: it comes
\* first only if time was spent elsewhere.  The client library may cancel
\* the call or let it run.
OuterTimeout(p) ==
  /\ p \in Scans /\ at[p] = "waiting"
  /\ \/ stage[p] \in {"queued", "killing", "draining"}
     \/ (stage[p] = "running" /\ late[p])
  /\ at' = Set(at, p, "failed")
  /\ Cancelled(p) \/ UNCHANGED <<stage, sandbox, late, cancelled, answer, lock, copies, rest>>
  /\ UNCHANGED <<todo, workspaces, seen, flaws>>

\* job_timeout, or the shutdown of the worker, in the middle of a call.
JobTimeout(p) ==
  /\ at[p] = "waiting" /\ stage[p] \in InSandbox \cup {"queued", "requesting"}
  /\ at' = Set(at, p, "raised")
  /\ workspaces' = IF p \in Verifiers THEN workspaces \ {p} ELSE workspaces
  /\ Cancelled(p)
  /\ UNCHANGED <<todo, seen, flaws>>

-----------------------------------------------------------------------------
Step(p) ==
  \/ Refused(p) \/ Launch(p) \/ Queue(p) \/ Acquire(p) \/ Ask(p) \/ Requested(p)
  \/ Finished(p) \/ Timeout(p) \/ Kill(p) \/ Drained(p) \/ Audit(p) \/ Receive(p)
  \/ OuterTimeout(p)

Next == \E p \in Clients : Step(p) \/ JobTimeout(p) \/ Created(p) \/ Ended(p)

Spec == Init /\ [][Next]_vars

\* The event loop goes on and timers fire; containers need not end.
FairSpec == Spec /\ \A p \in Clients : WF_vars(Step(p))

-----------------------------------------------------------------------------
(* Properties.                                                             *)

TypeOK ==
  /\ at \in [Clients -> {"ready", "waiting", "done", "passed", "failed", "raised"}]
  /\ todo \in [Clients -> Seq(Tools)]
  /\ \A p \in Clients : stage[p] # "idle" => todo[p] # <<>>
  /\ workspaces \subseteq Clients
  /\ stage \in [Clients -> {"idle", "queued", "requesting", "over", "answered"} \cup InSandbox]
  /\ box \in [Clients -> {"none", "coming", "up", "gone"}]
  /\ out \in [Clients -> Outputs]
  /\ round \in [Clients -> Nat]
  /\ late \in [Clients -> BOOLEAN]
  /\ flaws \in [Clients -> BOOLEAN]
  /\ cancelled \subseteq Clients
  /\ answer \in [Clients -> Answers]
  /\ lock \in Clients \cup {Nobody} /\ copies \subseteq Clients
  /\ seen \in [Clients -> SUBSET (Tools \X Truths)]
  /\ effects \subseteq Clients \X Tools /\ audited \subseteq Clients \X Tools

\* A call that is over has left nothing behind: no copy on disk, no lock and,
\* unless it was cancelled, no container; so that two scans use the trivy
\* database at once only after a cancellation (run_sandboxed, _db_lock,
\* run_in_sandbox_copy).
Live(p) == box[p] \in {"coming", "up"}

NothingLeftBehind ==
  /\ \A p \in copies : stage[p] \in InSandbox
  /\ lock # Nobody => stage[lock] \in InSandbox
  /\ \A p \in Clients \ cancelled : Live(p) => stage[p] \in InSandbox
  /\ \A p, q \in Clients \ cancelled :
       Live(p) /\ Live(q) /\ Tool(p) = "run_trivy" /\ Tool(q) = "run_trivy" => p = q

\* A container that is up when its time limit has passed comes to an end,
\* although its program may not, unless the call was cancelled meanwhile
\* (run_sandboxed); one that Docker has yet to create is not bounded so.
OverdueIsKilled ==
  \A p \in Clients :
    stage[p] = "killing" /\ box[p] = "up" ~> box[p] = "gone" \/ p \in cancelled

\* What a verification that passes rests on: every tool of its script was
\* run, the tests among them; the build, the linter and the tests ended with
\* exit code 0, at the latest while docker run was being stopped; and every
\* scanner was done within its limit and had no finding of the issue among
\* the rows that it sent, but for gitleaks, which may have failed without a
\* word (verify, run_sandboxed, compact, the adapters).  What the scanners
\* owe beyond that is RescanHasLooked.
PassedOnEvidence ==
  \A p \in Verifiers : at[p] = "passed" =>
    /\ \A check \in seen[p] :
         IF check[1] \in ExecTools THEN check[2] \in {"done", "late"}
         ELSE \/ check[2] \in {"done", "issue dropped"}
              \/ check = <<"run_gitleaks", "failed">>
    /\ {check[1] : check \in seen[p]} \in {Range(script) : script \in Scripts[p]}
    /\ "run_tests" \in {check[1] : check \in seen[p]}

\* A write that GitHub has carried out is in the audit log when its caller
\* goes on, whatever became of the answer.
WritesAudited ==
  \A e \in effects : stage[e[1]] \notin {"requesting", "over"} => e \in audited

\* A scanner ends for its scan, even if its container never does and no other
\* call gives the trivy database back (scan_node).
ScansEnd == \A p \in Scans : at[p] = "waiting" ~> at[p] # "waiting"

\* What the documentation says of a verified fix, that the rescan no longer
\* reports the original issue: every scanner of the rescan has looked, and
\* none has found it.
RescanHasLooked ==
  \A p \in Verifiers : at[p] = "passed" =>
    \A check \in seen[p] : check[1] \in ScanTools => check[2] = "done"

=============================================================================
