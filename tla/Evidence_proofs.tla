---------------------------- MODULE Evidence_proofs ----------------------------
(***************************************************************************)
(* What a verification that passes rests on, for any scripts of the        *)
(* verifiers that call the linter and nothing but checks.                  *)
(***************************************************************************)
EXTENDS ToolCalls_proofs

\* `verify` calls the linter whenever it calls anything, and no tool that asks GitHub.
ChecksOnly ==
  \A p \in Verifiers : \A script \in Scripts[p] :
    /\ Range(script) \subseteq ExecTools \cup ScanTools
    /\ script # <<>> => "run_linter" \in Range(script)

Checked(p) == {check[1] : check \in seen[p]}

\* Nothing that was seen speaks against the fix, as far as the verifier can
\* tell.
Fine(check) ==
  IF check[1] \in ExecTools THEN check[2] \in {"done", "late"}
  ELSE check[2] \in {"done", "issue dropped"} \/ check = <<"run_gitleaks", "failed">>

\* The script that a verification follows: what it has checked and what it
\* has to do make it up, and who is past the linter has tests to run.
Following(p, script) ==
  /\ Checked(p) \cup Range(todo[p]) = Range(script)
  /\ "run_linter" \in Range(todo[p]) \/ "run_tests" \in Range(script)

Unblemished(p) ==
  /\ at[p] \in {"ready", "waiting"} /\ todo[p] # <<>>
  /\ ~flaws[p] /\ answer[p] \in {"none", "good"}

Passing(p) ==
  /\ at[p] = "passed" =>
       /\ stage[p] = "idle"
       /\ \A check \in seen[p] : Fine(check)
       /\ \E script \in Scripts[p] : Checked(p) = Range(script) /\ "run_tests" \in Range(script)
  /\ stage[p] \notin {"over", "answered"} => answer[p] = "none"
  /\ Range(todo[p]) \subseteq ExecTools \cup ScanTools /\ stage[p] # "requesting"
  /\ Unblemished(p) =>
       /\ \A check \in seen[p] : Fine(check)
       /\ answer[p] = "good" => Tool(p) \in Checked(p)
       /\ \E script \in Scripts[p] : Following(p, script)

Evident == TypeInv /\ \A p \in Verifiers : Passing(p)

-----------------------------------------------------------------------------
(* Sequences of tools.                                                     *)

LEMMA RangeOfTodo ==
  ASSUME NEW s \in Seq(Tools), s # <<>>
  PROVE  /\ Head(s) \in Range(s) /\ Range(s) = {Head(s)} \cup Range(Tail(s))
         /\ Len(s) = 1 => Range(s) = {Head(s)}
         /\ Len(s) # 1 => Tail(s) # <<>>
<1> DEFINE n == Len(s)
<1>1. n \in Nat /\ n = Len(s) /\ DOMAIN s = 1..n /\ n >= 1
  <2>1. n \in Nat /\ DOMAIN s = 1..n
    OBVIOUS
  <2>2. n # 0
    OBVIOUS
  <2>3. QED BY <2>1, <2>2
<1> HIDE DEF n
<1>2. Head(s) = s[1] /\ 1 \in DOMAIN s
  BY <1>1
<1>3. /\ Len(Tail(s)) = n - 1 /\ DOMAIN Tail(s) = 1..(n - 1)
      /\ \A i \in 1..(n - 1) : Tail(s)[i] = s[i + 1]
  BY <1>1
<1>4. Range(s) \subseteq {Head(s)} \cup Range(Tail(s))
  <2>1. ASSUME NEW i \in DOMAIN s PROVE s[i] \in {Head(s)} \cup Range(Tail(s))
    <3>1. CASE i = 1
      BY <1>2, <3>1
    <3>2. CASE i # 1
      <4>1. i - 1 \in 1..(n - 1) /\ (i - 1) + 1 = i
        BY <1>1, <3>2
      <4>2. QED BY <1>3, <4>1 DEF Range
    <3>3. QED BY <3>1, <3>2
  <2>2. QED BY <2>1 DEF Range
<1>5. Range(Tail(s)) \subseteq Range(s)
  <2>1. ASSUME NEW i \in 1..(n - 1) PROVE i + 1 \in DOMAIN s
    BY <1>1
  <2>2. QED BY <1>3, <2>1 DEF Range
<1>6. Head(s) \in Range(s)
  BY <1>2 DEF Range
<1>7. Len(s) = 1 => Range(s) = {Head(s)}
  BY <1>1, <1>2 DEF Range
<1>8. Len(s) # 1 => Tail(s) # <<>>
  <2>1. Len(s) # 1 => Len(Tail(s)) # 0
    BY <1>1, <1>3
  <2>2. Len(<<>>) = 0
    OBVIOUS
  <2>3. QED BY <2>1, <2>2
<1>9. QED BY <1>4, <1>5, <1>6, <1>7, <1>8

\* A good answer means a fine check (AnswerOf and Truth).
LEMMA GoodIsFine ==
  ASSUME ToolCallsAssumption, NEW tool \in ExecTools \cup ScanTools, NEW o \in Outputs, NEW overdue \in BOOLEAN,
         AnswerOf(tool, o, overdue) = "good"
  PROVE  Fine(<<tool, Truth(tool, o, overdue)>>)
<1>1. CASE tool \in ExecTools
  <2>1. o.ok
    BY <1>1 DEF AnswerOf
  <2>2. Truth(tool, o, overdue) \in {"done", "late"}
    BY <1>1, <2>1 DEF Truth
  <2>3. QED BY <1>1, <2>2 DEF Fine
<1>2. CASE tool \notin ExecTools
  <2>1. /\ ~overdue /\ Readable(tool, o)
        /\ ~(o.issue /\ o.report.count = RowsSent(tool, o.report))
    BY <1>2 DEF AnswerOf
  <2>2. o.report.count \in Nat
    BY DEF ToolCallsAssumption, Outputs, Empty
  <2>3. RowsSent(tool, o.report) = o.report.count \/ o.report.count > RowsSent(tool, o.report)
                                                  \/ o.report.count = RowsSent(tool, o.report)
    BY <2>2 DEF RowsSent, CompactLimit, OutputCap, RowEstimate
  <2>4. CASE o.printed # "all" /\ ~o.ok
    <3>1. tool = "run_gitleaks"
      BY <2>1, <2>4 DEF Readable
    <3>2. Truth(tool, o, overdue) = "failed"
      BY <1>2, <2>1, <2>4 DEF Truth
    <3>3. QED BY <1>2, <3>1, <3>2, Zenon DEF Fine
  <2>5. CASE ~(o.printed # "all" /\ ~o.ok)
    <3>1. Truth(tool, o, overdue) \in {"done", "issue dropped"}
      BY <1>2, <2>1, <2>3, <2>5 DEF Truth
    <3>2. QED BY <1>2, <3>1 DEF Fine
  <2>6. QED BY <2>4, <2>5
<1>3. QED BY <1>1, <1>2

-----------------------------------------------------------------------------
(* Steps.                                                                  *)

\* A step of one client leaves the others' calls alone.
LEMMA OthersLeftAlone ==
  ASSUME TypeInv, NEW q \in Clients, NEW p \in Clients, p # q,
         Step(q) \/ JobTimeout(q) \/ Created(q) \/ Ended(q)
  PROVE  /\ at'[p] = at[p] /\ todo'[p] = todo[p] /\ stage'[p] = stage[p]
         /\ answer'[p] = answer[p] /\ seen'[p] = seen[p] /\ flaws'[p] = flaws[p]
<1> USE DEF Set
<1>1. CASE Refused(q) \/ Launch(q) \/ Queue(q) \/ Ask(q)
  BY <1>1 DEF Refused, Launch, Queue, Ask, Begin, TypeInv, TypeOK
<1>2. CASE Acquire(q) \/ Timeout(q) \/ Kill(q) \/ Created(q) \/ Ended(q)
  BY <1>2 DEF Acquire, Timeout, Kill, Created, Ended, client, TypeInv, TypeOK
<1>3. CASE Finished(q) \/ Drained(q)
  <2>1. UNCHANGED <<at, todo, flaws>> /\ (NextLanguage(q) \/ \E overdue \in BOOLEAN : Conclude(q, overdue))
    BY <1>3 DEF Finished, Drained
  <2>2. CASE NextLanguage(q)
    BY <2>1, <2>2 DEF NextLanguage
  <2>3. CASE \E overdue \in BOOLEAN : Conclude(q, overdue)
    <3>1. PICK overdue \in BOOLEAN : Conclude(q, overdue)
      BY <2>3
    <3>2. stage'[p] = stage[p] /\ answer'[p] = answer[p]
      BY <3>1 DEF Conclude, Leave, TypeInv, TypeOK
    <3>3. seen'[p] = seen[p]
      BY <3>1 DEF Conclude, TypeInv, TypeOK
    <3>4. QED BY <2>1, <3>2, <3>3
  <2>4. QED BY <2>1, <2>2, <2>3
<1>4. CASE Requested(q) \/ Audit(q)
  BY <1>4 DEF Requested, Audit, client, TypeInv, TypeOK
<1>5. CASE Receive(q)
  <2>1. todo[q] # <<>>
    BY <1>5 DEF Receive, TypeInv, TypeOK
  <2>2. at'[p] = at[p] /\ todo'[p] = todo[p] /\ seen' = seen
    BY <1>5, <2>1, Receives DEF Receive
  <2>3. flaws'[p] = flaws[p]
    BY <1>5 DEF Receive, ScanReceives, VerifierReceives, WriterReceives, TypeInv, TypeOK
  <2>4. QED BY <1>5, <2>2, <2>3 DEF Receive, TypeInv, TypeOK
<1>6. CASE OuterTimeout(q) \/ JobTimeout(q)
  BY <1>6 DEF OuterTimeout, JobTimeout, Cancelled, Leave, TypeInv, TypeOK
<1>7. QED BY <1>1, <1>2, <1>3, <1>4, <1>5, <1>6 DEF Step

\* A call begins, or waits: nothing is checked or answered, unless it is
\* refused.
LEMMA BeginKeepsPassing ==
  ASSUME TypeInv, NEW p \in Verifiers, Passing(p),
         UNCHANGED <<todo, seen, flaws>>,
         at'[p] = at[p] \/ (at[p] = "ready" /\ at'[p] = "waiting"),
         stage[p] = "idle" => at[p] = "ready" \/ stage'[p] = "idle", stage'[p] # "requesting",
         \/ answer'[p] = answer[p] /\ (stage[p] \in {"over", "answered"} => stage'[p] \in {"over", "answered"})
         \/ answer'[p] = "error" /\ stage'[p] \in {"over", "answered"}
  PROVE  Passing(p)'
<1>1. Tool(p)' = Tool(p) /\ Checked(p)' = Checked(p) /\ \A script : Following(p, script)' = Following(p, script)
  BY DEF Tool, Checked, Following
<1>2. Unblemished(p)' => Unblemished(p)
  BY DEF Unblemished
<1>3. at'[p] = "passed" => at[p] = "passed" /\ stage'[p] = "idle"
  BY DEF Passing
<1>4. QED BY <1>1, <1>2, <1>3 DEF Passing

LEMMA ConcludeKeepsPassing ==
  ASSUME ToolCallsAssumption, TypeInv, NEW p \in Verifiers, Passing(p), stage[p] \in InSandbox,
         NEW overdue \in BOOLEAN, Conclude(p, overdue), UNCHANGED <<at, todo, flaws>>
  PROVE  Passing(p)'
<1> p \in Clients
  BY DEF Clients
<1> DEFINE truth == Truth(Tool(p), out[p], overdue)
<1>1. /\ stage'[p] = "over" /\ answer'[p] = AnswerOf(Tool(p), out[p], overdue)
      /\ seen'[p] = seen[p] \cup {<<Tool(p), truth>>}
  BY DEF Conclude, Leave, Set, TypeInv, TypeOK
<1>2. /\ todo[p] # <<>> /\ todo[p] \in Seq(Tools) /\ at[p] # "passed" /\ answer[p] = "none"
      /\ out[p] \in Outputs
  BY DEF TypeInv, TypeOK, InSandbox, Passing
<1>3. Tool(p) \in Range(todo[p]) /\ Tool(p) \in ExecTools \cup ScanTools
  BY <1>2, RangeOfTodo DEF Tool, Passing
<1>4. Checked(p)' = Checked(p) \cup {Tool(p)}
  <2>1. Checked(p)' = {check[1] : check \in seen[p] \cup {<<Tool(p), truth>>}}
    BY <1>1 DEF Checked
  <2>2. Checked(p)' = {check[1] : check \in seen[p]} \cup {<<Tool(p), truth>>[1]}
    BY <2>1
  <2>3. QED BY <2>2 DEF Checked
<1>5. Tool(p)' = Tool(p)
  BY DEF Tool
<1>6. ASSUME Unblemished(p)'
      PROVE  /\ \A check \in seen'[p] : Fine(check)
             /\ Tool(p)' \in Checked(p)'
             /\ \E script \in Scripts[p] : Following(p, script)'
  <2>1. AnswerOf(Tool(p), out[p], overdue) = "good"
    BY <1>1, <1>6 DEF Unblemished, AnswerOf
  <2>2. Unblemished(p)
    BY <1>2, <1>6 DEF Unblemished
  <2>3. \A check \in seen[p] : Fine(check)
    BY <2>2 DEF Passing
  <2>4. Fine(<<Tool(p), truth>>)
    BY <1>2, <1>3, <2>1, GoodIsFine
  <2>5. PICK script \in Scripts[p] : Following(p, script)
    BY <2>2 DEF Passing
  <2>6. Following(p, script)'
    BY <1>3, <1>4, <2>5 DEF Following
  <2>7. QED BY <1>1, <1>4, <1>5, <2>3, <2>4, <2>6
<1>7. QED BY <1>1, <1>2, <1>6 DEF Passing

LEMMA ReceiveKeepsPassing ==
  ASSUME TypeInv, NEW p \in Verifiers, Passing(p), ToolCallsAssumption, Receive(p)
  PROVE  Passing(p)'
<1> p \in Clients
  BY DEF Clients
<1>1. /\ stage[p] = "answered" /\ stage'[p] = "idle" /\ answer'[p] = "none"
      /\ at[p] = "waiting" /\ VerifierReceives(p)
  BY DEF Receive, Set, TypeInv, TypeOK, ScanReceives, WriterReceives, ToolCallsAssumption
<1>2. seen' = seen /\ Checked(p)' = Checked(p)
  BY <1>1 DEF VerifierReceives, Checked
<1>3. todo[p] # <<>> /\ todo[p] \in Seq(Tools)
  BY <1>1 DEF TypeInv, TypeOK
<1> DEFINE untested == Tool(p) = "run_linter" /\ "run_tests" \notin Range(todo[p])
<1>4. CASE \E x \in {"raised", "failed", "passed"} : Quit(p, x)
  <2>1. PICK x \in {"raised", "failed", "passed"} : Quit(p, x)
    BY <1>4
  <2>2. at'[p] = x /\ todo'[p] = <<>>
    BY <2>1 DEF Quit, Set, TypeInv, TypeOK
  <2>3. ~Unblemished(p)' /\ Range(todo[p])' = {}
    BY <2>2 DEF Unblemished, Range
  <2>4. ASSUME x = "passed"
        PROVE  /\ \A check \in seen[p] : Fine(check)
               /\ \E script \in Scripts[p] : Checked(p) = Range(script) /\ "run_tests" \in Range(script)
    <3>1. ~flaws[p] /\ answer[p] = "good" /\ Len(todo[p]) = 1 /\ ~untested
      BY <1>1, <2>2, <2>4 DEF VerifierReceives, Quit, Set, TypeInv, TypeOK
    <3>2. Unblemished(p)
      BY <1>1, <1>3, <3>1 DEF Unblemished
    <3>3. Range(todo[p]) = {Tool(p)} /\ Tool(p) \in Checked(p)
      BY <1>3, <3>1, <3>2, RangeOfTodo DEF Passing, Tool
    <3>4. PICK script \in Scripts[p] : Following(p, script)
      BY <3>2 DEF Passing
    <3>5. Checked(p) = Range(script) /\ "run_tests" \in Range(script)
      BY <3>1, <3>3, <3>4 DEF Following
    <3>6. QED BY <3>2, <3>5 DEF Passing
  <2>5. QED BY <1>1, <1>2, <2>2, <2>3, <2>4 DEF Passing
<1>5. CASE \A x \in {"raised", "failed", "passed"} : ~Quit(p, x)
  <2>1. /\ at'[p] = "ready" /\ todo'[p] = Tail(todo[p])
        /\ flaws'[p] = (flaws[p] \/ answer[p] # "good") /\ ~untested /\ Len(todo[p]) # 1
    BY <1>1, <1>5 DEF VerifierReceives, Set, TypeInv, TypeOK
  <2>2. Range(todo[p]) = {Tool(p)} \cup Range(todo'[p])
    BY <1>3, <2>1, RangeOfTodo DEF Tool
  <2>3. Range(todo'[p]) \subseteq ExecTools \cup ScanTools
    BY <2>2 DEF Passing
  <2>4. ASSUME Unblemished(p)'
        PROVE  /\ \A check \in seen[p] : Fine(check)
               /\ \E script \in Scripts[p] : Following(p, script)'
    <3>1. ~flaws[p] /\ answer[p] = "good"
      BY <2>1, <2>4 DEF Unblemished
    <3>2. Unblemished(p)
      BY <1>1, <1>3, <3>1 DEF Unblemished
    <3>3. PICK script \in Scripts[p] : Following(p, script)
      BY <3>2 DEF Passing
    <3>4. Tool(p) \in Checked(p)
      BY <3>1, <3>2 DEF Passing
    <3>5. Checked(p)' \cup Range(todo'[p]) = Range(script)
      BY <1>2, <2>2, <3>3, <3>4 DEF Following
    <3>6. "run_linter" \in Range(todo'[p]) \/ "run_tests" \in Range(script)
      BY <2>1, <2>2, <3>3 DEF Following
    <3>7. Following(p, script)'
      BY <3>5, <3>6 DEF Following
    <3>8. QED BY <3>2, <3>7 DEF Passing
  <2>5. QED BY <1>1, <1>2, <2>1, <2>3, <2>4 DEF Passing
<1>6. QED BY <1>4, <1>5

\* Who was cancelled, and who has quit, does not pass any more.
LEMMA CancelledKeepsPassing ==
  ASSUME TypeInv, NEW p \in Verifiers, Passing(p), JobTimeout(p)
  PROVE  Passing(p)'
<1> p \in Clients
  BY DEF Clients
<1>1. at'[p] = "raised" /\ stage'[p] = "over" /\ UNCHANGED <<todo, answer, seen, flaws>>
  BY DEF JobTimeout, Cancelled, Leave, Set, TypeInv, TypeOK
<1>2. ~Unblemished(p)'
  BY <1>1 DEF Unblemished
<1>3. QED BY <1>1, <1>2 DEF Passing

LEMMA OwnStepKeepsPassing ==
  ASSUME ToolCallsAssumption, TypeInv, NEW p \in Verifiers, Passing(p),
         Step(p) \/ JobTimeout(p) \/ Created(p) \/ Ended(p)
  PROVE  Passing(p)'
<1> p \in Clients
  BY DEF Clients
<1>1. CASE Refused(p) \/ Launch(p) \/ Queue(p) \/ Ask(p)
  <2>a. todo[p] # <<>> /\ todo[p] \in Seq(Tools)
    BY <1>1 DEF Refused, Launch, Queue, Ask, Begin, TypeInv, TypeOK
  <2>b. Tool(p) \in ExecTools \cup ScanTools
    BY <2>a, RangeOfTodo DEF Tool, Passing
  <2>1. /\ at[p] = "ready" /\ at'[p] = "waiting" /\ UNCHANGED <<todo, seen, flaws>> /\ stage[p] = "idle"
    BY <1>1 DEF Refused, Launch, Queue, Ask, Begin, Set, TypeInv, TypeOK, Idle
  <2>2. answer'[p] = answer[p] \/ (answer'[p] = "error" /\ stage'[p] \in {"over", "answered"})
    BY <1>1 DEF Refused, Launch, Queue, Ask, Set, TypeInv, TypeOK
  <2>3. stage'[p] # "requesting"
    BY <1>1, <2>b DEF Refused, Launch, Queue, Ask, Set, TypeInv, TypeOK
  <2>4. QED BY <2>1, <2>2, <2>3, BeginKeepsPassing
<1>2. CASE Acquire(p) \/ Timeout(p) \/ Kill(p) \/ Created(p) \/ Ended(p)
  <2>1. UNCHANGED <<at, todo, seen, flaws, answer>>
    BY <1>2 DEF Acquire, Timeout, Kill, Created, Ended, client
  <2>2. /\ stage'[p] = stage[p] \/ stage[p] \notin {"over", "answered", "idle"}
        /\ stage'[p] # "requesting"
    BY <1>2 DEF Acquire, Timeout, Kill, Created, Ended, Set, TypeInv, TypeOK, Passing
  <2>3. QED BY <2>1, <2>2, BeginKeepsPassing
<1>3. CASE Finished(p) \/ Drained(p)
  <2>1. CASE \E overdue \in BOOLEAN : Conclude(p, overdue)
    <3>1. stage[p] \in InSandbox /\ UNCHANGED <<at, todo, flaws>>
      BY <1>3 DEF Finished, Drained, InSandbox
    <3>2. QED BY <2>1, <3>1, ConcludeKeepsPassing
  <2>2. CASE Finished(p) /\ NextLanguage(p)
    <3>1. UNCHANGED <<at, todo, seen, flaws, answer, stage>>
      BY <2>2 DEF Finished, NextLanguage
    <3>2. QED BY <3>1, BeginKeepsPassing DEF Passing
  <2>3. QED BY <1>3, <2>1, <2>2 DEF Finished, Drained
<1>4. CASE Requested(p)
  BY <1>4 DEF Requested, Passing
<1>5. CASE Audit(p)
  <2>1. stage[p] = "over" /\ stage'[p] = "answered" /\ UNCHANGED <<at, todo, seen, flaws>>
    BY <1>5 DEF Audit, Set, TypeInv, TypeOK, client
  <2>2. answer'[p] = answer[p] \/ answer'[p] = "error"
    BY <1>5 DEF Audit, Set, TypeInv, TypeOK
  <2>3. QED BY <2>1, <2>2, BeginKeepsPassing
<1>6. CASE Receive(p)
  BY <1>6, ReceiveKeepsPassing
<1>7. CASE OuterTimeout(p)
  BY <1>7 DEF OuterTimeout, ToolCallsAssumption
<1>8. CASE JobTimeout(p)
  BY <1>8, CancelledKeepsPassing
<1>9. QED BY <1>1, <1>2, <1>3, <1>4, <1>5, <1>6, <1>7, <1>8 DEF Step

LEMMA InitPassing == ChecksOnly /\ Init => Evident
<1> SUFFICES ASSUME ChecksOnly, Init, NEW p \in Verifiers PROVE Passing(p)
  BY InitTypes DEF Evident
<1> p \in Clients
  BY DEF Clients
<1>1. /\ at[p] = "ready" /\ stage[p] = "idle" /\ answer[p] = "none" /\ seen[p] = {}
      /\ todo[p] \in Scripts[p]
  BY DEF Init
<1>2. Checked(p) = {}
  BY <1>1 DEF Checked
<1>3. Unblemished(p) => Following(p, todo[p])
  BY <1>1, <1>2 DEF Unblemished, Following, ChecksOnly
<1>4. QED BY <1>1, <1>3 DEF Passing, ChecksOnly

LEMMA NextPassing == Evident /\ [Next]_vars => Evident'
<1> SUFFICES ASSUME Evident, [Next]_vars PROVE Evident'
  OBVIOUS
<1>1. TypeInv'
  BY NextTypes DEF Evident
<1>2. ASSUME NEW p \in Verifiers PROVE Passing(p)'
  <2> p \in Clients
    BY DEF Clients
  <2>1. CASE UNCHANGED <<at, todo, stage, answer, seen, flaws>>
    BY <2>1 DEF Evident, Passing, Unblemished, Following, Checked, Tool
  <2>2. ASSUME NEW q \in Clients, q # p, Step(q) \/ JobTimeout(q) \/ Created(q) \/ Ended(q)
        PROVE  Passing(p)'
    <3>1. /\ at'[p] = at[p] /\ todo'[p] = todo[p] /\ stage'[p] = stage[p]
          /\ answer'[p] = answer[p] /\ seen'[p] = seen[p] /\ flaws'[p] = flaws[p]
      BY <2>2, OthersLeftAlone DEF Evident
    <3>2. QED BY <3>1 DEF Evident, Passing, Unblemished, Following, Checked, Tool
  <2>3. CASE Step(p) \/ JobTimeout(p) \/ Created(p) \/ Ended(p)
    BY <2>3, OwnStepKeepsPassing, ToolCallsAssumption DEF Evident
  <2>4. CASE UNCHANGED vars
    BY <2>1, <2>4 DEF vars, client
  <2>5. QED BY <2>2, <2>3, <2>4 DEF Next
<1>3. QED BY <1>1, <1>2 DEF Evident

\* A verification that passes has run every tool of its script, the tests
\* among them, and each has ended well as far as its answer tells: an exec
\* tool with exit code 0, be it late; a scanner in time and without the issue
\* among the rows sent, unless gitleaks failed without a word
\* (PassedOnEvidence).
THEOREM PassesOnEvidence == ChecksOnly /\ Spec => []PassedOnEvidence
<1>1. ChecksOnly /\ Init => Evident
  BY InitPassing
<1>2. Evident /\ [Next]_vars => Evident'
  BY NextPassing
<1>3. Evident => PassedOnEvidence
  <2> SUFFICES ASSUME Evident, NEW p \in Verifiers, at[p] = "passed"
               PROVE  /\ \A check \in seen[p] : Fine(check)
                      /\ {check[1] : check \in seen[p]} \in {Range(script) : script \in Scripts[p]}
                      /\ "run_tests" \in {check[1] : check \in seen[p]}
    BY Zenon DEF PassedOnEvidence, Fine
  <2> p \in Clients
    BY DEF Clients
  <2>1. \A check \in seen[p] : Fine(check)
    BY DEF Evident, Passing
  <2>2. PICK script \in Scripts[p] : Checked(p) = Range(script) /\ "run_tests" \in Range(script)
    BY DEF Evident, Passing
  <2>3. QED BY <2>1, <2>2 DEF Checked
<1>4. QED BY <1>1, <1>2, <1>3, PTL DEF Spec

=============================================================================
