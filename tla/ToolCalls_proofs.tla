---------------------------- MODULE ToolCalls_proofs ----------------------------
(***************************************************************************)
(* Proofs about the tool calls for any clients, scripts, groups, reports   *)
(* and languages.                                                          *)
(***************************************************************************)
EXTENDS ToolCalls, SequenceTheorems, TLAPS

\* What the wrapper takes for granted of a client that is about to call:
\* its last call is over.
Idle == \A p \in Clients : at[p] = "ready" => stage[p] = "idle"

TypeInv == TypeOK /\ Idle

-----------------------------------------------------------------------------
(* Types.                                                                  *)

LEMMA ToolIsTool ==
  ASSUME TypeOK, NEW p \in Clients, todo[p] # <<>>
  PROVE  Tool(p) \in Tools
BY DEF TypeOK, Tool

LEMMA NoOutputIsOutput == NoOutput \in Outputs
BY DEF NoOutput, Printed, Outputs, Empty

LEMMA PrintedIsOutput ==
  ASSUME NEW ok \in BOOLEAN, NEW printed \in {"all", "part", "nothing"}
  PROVE  Printed(ok, printed) \in Outputs
BY DEF Printed, Outputs, Empty

LEMMA AnswerIsAnswer ==
  ASSUME NEW tool, NEW o, NEW overdue
  PROVE  AnswerOf(tool, o, overdue) \in Answers
BY DEF AnswerOf, Answers

LEMMA TruthIsTruth ==
  ASSUME NEW tool, NEW o, NEW overdue
  PROVE  Truth(tool, o, overdue) \in Truths
BY DEF Truth, Truths

LEMMA InitTypes == Init => TypeInv
<1> SUFFICES ASSUME Init PROVE TypeInv
  OBVIOUS
<1>1. todo \in [Clients -> Seq(Tools)]
  BY ToolCallsAssumption DEF Init
<1>2. out \in [Clients -> Outputs]
  BY NoOutputIsOutput DEF Init
<1>3. QED
  BY <1>1, <1>2 DEF Init, TypeInv, TypeOK, Idle, Answers, InSandbox

\* The first step of a call.
LEMMA BeginKeepsTypes ==
  ASSUME TypeInv, NEW p \in Clients,
         Refused(p) \/ Launch(p) \/ Queue(p) \/ Ask(p)
  PROVE  TypeInv'
<1>1. Begin(p) /\ todo[p] # <<>> /\ at' = [at EXCEPT ![p] = "waiting"]
  BY DEF Refused, Launch, Queue, Ask, Begin, Set
<1>2. UNCHANGED <<todo, workspaces, seen, flaws, out, round, late, cancelled, effects, audited>>
  BY <1>1 DEF Begin, rest
<1>3. \E x \in {"over", "answered", "running", "queued", "requesting"} : stage' = [stage EXCEPT ![p] = x]
  BY DEF Refused, Launch, Queue, Ask, Set
<1>4. /\ box' = box \/ box' = [box EXCEPT ![p] = "coming"]
      /\ answer' = answer \/ answer' = [answer EXCEPT ![p] = "error"]
      /\ lock' \in {lock, p} /\ copies' \in {copies, copies \cup {p}}
  BY DEF Refused, Launch, Queue, Ask, Set
<1>5. stage' \in [Clients -> {"idle", "queued", "requesting", "over", "answered"} \cup InSandbox]
  BY <1>3 DEF TypeInv, TypeOK, InSandbox
<1>6. \A q \in Clients : stage'[q] # "idle" => todo'[q] # <<>>
  BY <1>1, <1>2, <1>3 DEF TypeInv, TypeOK
<1>7. box' \in [Clients -> {"none", "coming", "up", "gone"}] /\ answer' \in [Clients -> Answers]
  BY <1>4 DEF TypeInv, TypeOK, Answers
<1>8. Idle'
  BY <1>1, <1>3 DEF TypeInv, TypeOK, Idle
<1>9. lock' \in Clients \cup {Nobody} /\ copies' \subseteq Clients
  BY <1>4 DEF TypeInv, TypeOK
<1>10. at' \in [Clients -> {"ready", "waiting", "done", "passed", "failed", "raised"}]
  BY <1>1 DEF TypeInv, TypeOK
<1>11. QED
  BY <1>2, <1>5, <1>6, <1>7, <1>8, <1>9, <1>10 DEF TypeInv, TypeOK

LEMMA EffectIsWrite ==
  ASSUME TypeOK, NEW p \in Clients, stage[p] # "idle"
  PROVE  Effect(p) \subseteq Clients \X Tools
<1>1. Tool(p) \in Tools
  BY ToolIsTool DEF TypeOK
<1>2. QED BY <1>1 DEF Effect

\* The ways out of a tool.
LEMMA LeaveKeepsTypes ==
  ASSUME TypeInv, NEW p \in Clients, Leave(p), stage[p] # "idle", UNCHANGED todo,
         at' = at \/ (\E x \in {"failed", "raised"} : at' = [at EXCEPT ![p] = x])
  PROVE  /\ at' \in [Clients -> {"ready", "waiting", "done", "passed", "failed", "raised"}]
         /\ todo' \in [Clients -> Seq(Tools)]
         /\ stage' \in [Clients -> {"idle", "queued", "requesting", "over", "answered"} \cup InSandbox]
         /\ \A q \in Clients : stage'[q] # "idle" => todo'[q] # <<>>
         /\ lock' \in Clients \cup {Nobody} /\ copies' \subseteq Clients
         /\ Idle'
<1>1. stage' = [stage EXCEPT ![p] = "over"]
  BY DEF Leave, Set
<1>2. at[p] # "ready"
  BY DEF TypeInv, Idle
<1>3. lock' \in Clients \cup {Nobody} /\ copies' \subseteq Clients
  BY DEF Leave, TypeInv, TypeOK
<1>4. Idle'
  BY <1>1, <1>2 DEF TypeInv, TypeOK, Idle
<1>5. QED
  BY <1>1, <1>3, <1>4 DEF TypeInv, TypeOK

LEMMA ConcludeKeepsTypes ==
  ASSUME TypeInv, NEW p \in Clients, NEW overdue \in BOOLEAN, Conclude(p, overdue),
         stage[p] # "idle",
         UNCHANGED <<at, todo, workspaces, flaws, cancelled, rest>>
  PROVE  TypeInv'
<1>1. Leave(p) /\ UNCHANGED <<box, round, late>>
  BY DEF Conclude
<1>2. Tool(p) \in Tools
  BY ToolIsTool DEF TypeInv, TypeOK
<1>3. answer' \in [Clients -> Answers]
  BY AnswerIsAnswer DEF Conclude, Set, TypeInv, TypeOK
<1>4. seen' \in [Clients -> SUBSET (Tools \X Truths)]
  BY <1>2, TruthIsTruth DEF Conclude, Set, TypeInv, TypeOK
<1>5. out' \in [Clients -> Outputs]
  BY NoOutputIsOutput DEF Conclude, Set, TypeInv, TypeOK
<1>6. /\ at' \in [Clients -> {"ready", "waiting", "done", "passed", "failed", "raised"}]
      /\ todo' \in [Clients -> Seq(Tools)]
      /\ stage' \in [Clients -> {"idle", "queued", "requesting", "over", "answered"} \cup InSandbox]
      /\ \A q \in Clients : stage'[q] # "idle" => todo'[q] # <<>>
      /\ lock' \in Clients \cup {Nobody} /\ copies' \subseteq Clients
      /\ Idle'
  BY <1>1, LeaveKeepsTypes
<1>7. QED
  BY <1>1, <1>3, <1>4, <1>5, <1>6 DEF TypeInv, TypeOK, rest

LEMMA NextLanguageKeepsTypes ==
  ASSUME TypeInv, NEW p \in Clients, NextLanguage(p),
         UNCHANGED <<at, todo, workspaces, flaws, cancelled, rest>>
  PROVE  TypeInv'
<1>1. round' \in [Clients -> Nat] /\ late' \in [Clients -> BOOLEAN]
  BY DEF NextLanguage, Set, TypeInv, TypeOK
<1>2. out' \in [Clients -> Outputs]
  BY NoOutputIsOutput DEF NextLanguage, Set, TypeInv, TypeOK
<1>3. box' \in [Clients -> {"none", "coming", "up", "gone"}]
  BY DEF NextLanguage, Set, TypeInv, TypeOK
<1>4. QED
  BY <1>1, <1>2, <1>3 DEF NextLanguage, TypeInv, TypeOK, Idle, rest

LEMMA SandboxKeepsTypes ==
  ASSUME TypeInv, NEW p \in Clients,
         Acquire(p) \/ Timeout(p) \/ Kill(p) \/ Created(p) \/ Ended(p)
  PROVE  TypeInv'
<1>1. CASE Acquire(p)
  BY <1>1 DEF Acquire, Set, TypeInv, TypeOK, Idle, client, rest, InSandbox
<1>2. CASE Timeout(p)
  BY <1>2 DEF Timeout, Set, TypeInv, TypeOK, Idle, client, sandbox, rest, InSandbox
<1>3. CASE Kill(p)
  <2>1. out' \in [Clients -> Outputs]
    <3>1. CASE box[p] = "up"
      <4>1. PICK printed \in IF Tool(p) \in ExecTools THEN {"nothing"} ELSE {"all", "part"} :
              out' = [out EXCEPT ![p] = Printed(FALSE, printed)]
        BY <1>3, <3>1 DEF Kill, Set
      <4>2. printed \in {"all", "part", "nothing"}
        BY <4>1
      <4>3. Printed(FALSE, printed) \in Outputs
        BY <4>2, PrintedIsOutput
      <4>4. QED BY <4>1, <4>3 DEF TypeInv, TypeOK
    <3>2. CASE box[p] # "up"
      BY <1>3, <3>2 DEF Kill, TypeInv, TypeOK
    <3>3. QED BY <3>1, <3>2
  <2>2. box' \in [Clients -> {"none", "coming", "up", "gone"}]
    <3>1. box' = box \/ box' = [box EXCEPT ![p] = "gone"]
      BY <1>3 DEF Kill, Set
    <3>2. QED BY <3>1 DEF TypeInv, TypeOK
  <2>3. stage' = [stage EXCEPT ![p] = "draining"] /\ stage[p] = "killing"
    BY <1>3 DEF Kill, Set
  <2>4. UNCHANGED <<client, round, late, cancelled, answer, lock, copies, rest>>
    BY <1>3 DEF Kill
  <2>5. QED
    BY <2>1, <2>2, <2>3, <2>4 DEF TypeInv, TypeOK, Idle, client, rest, InSandbox
<1>4. CASE Created(p)
  BY <1>4 DEF Created, Set, TypeInv, TypeOK, Idle, client, rest
<1>5. CASE Ended(p)
  <2>1. out' \in [Clients -> Outputs]
    <3>1. CASE stage[p] \notin InSandbox
      BY <1>5, <3>1 DEF Ended, TypeInv, TypeOK
    <3>2. CASE stage[p] \in InSandbox
      <4>1. PICK o \in {Printed(FALSE, "nothing"), Printed(FALSE, "part"), Printed(TRUE, "nothing")}
                   \cup IF More(p) THEN {Printed(TRUE, "all")}
                        ELSE [ok : {TRUE}, printed : {"all"}, report : Reports, issue : BOOLEAN] :
              out' = [out EXCEPT ![p] = o]
        BY <1>5, <3>2 DEF Ended, Set
      <4>2. o \in Outputs
        <5>1. CASE o \in [ok : {TRUE}, printed : {"all"}, report : Reports, issue : BOOLEAN]
          BY <5>1 DEF Outputs
        <5>2. CASE o \in {Printed(FALSE, "nothing"), Printed(FALSE, "part"), Printed(TRUE, "nothing"),
                          Printed(TRUE, "all")}
          BY <5>2, PrintedIsOutput
        <5>3. QED BY <4>1, <5>1, <5>2
      <4>3. QED BY <4>1, <4>2 DEF TypeInv, TypeOK
    <3>3. QED BY <3>1, <3>2
  <2>2. QED
    BY <1>5, <2>1 DEF Ended, Set, TypeInv, TypeOK, Idle, client, rest
<1>6. QED BY <1>1, <1>2, <1>3, <1>4, <1>5

LEMMA RequestedKeepsTypes ==
  ASSUME TypeInv, NEW p \in Clients, Requested(p)
  PROVE  TypeInv'
<1>1. stage[p] = "requesting" /\ stage' = [stage EXCEPT ![p] = "over"]
  BY DEF Requested, Set
<1>2. Effect(p) \subseteq Clients \X Tools
  BY <1>1, EffectIsWrite DEF TypeInv
<1>3. effects' \subseteq Clients \X Tools
  BY <1>2 DEF Requested, TypeInv, TypeOK
<1>4. answer' \in [Clients -> Answers]
  BY DEF Requested, Set, TypeInv, TypeOK, Answers
<1>5. UNCHANGED <<client, sandbox, late, cancelled, lock, copies, audited>>
  BY DEF Requested
<1>6. QED
  BY <1>1, <1>3, <1>4, <1>5 DEF TypeInv, TypeOK, Idle, client, sandbox

LEMMA AuditKeepsTypes ==
  ASSUME TypeInv, NEW p \in Clients, Audit(p)
  PROVE  TypeInv'
<1>1. stage[p] = "over" /\ stage' = [stage EXCEPT ![p] = "answered"]
  BY DEF Audit, Set
<1>2. Tool(p) \in Tools
  BY <1>1, ToolIsTool DEF TypeInv, TypeOK
<1>3. audited' \subseteq Clients \X Tools
  BY <1>2 DEF Audit, TypeInv, TypeOK
<1>4. answer' \in [Clients -> Answers]
  BY DEF Audit, Set, TypeInv, TypeOK, Answers
<1>5. UNCHANGED <<client, sandbox, late, cancelled, lock, copies, effects>>
  BY DEF Audit
<1>6. QED
  BY <1>1, <1>3, <1>4, <1>5 DEF TypeInv, TypeOK, Idle, client, sandbox

\* Whoever receives an answer quits, or goes on to the next tool.
LEMMA Receives ==
  ASSUME TypeInv, NEW p \in Clients, ScanReceives(p) \/ VerifierReceives(p) \/ WriterReceives(p),
         todo[p] # <<>>
  PROVE  /\ at' \in [Clients -> {"ready", "waiting", "done", "passed", "failed", "raised"}]
         /\ todo' \in [Clients -> Seq(Tools)]
         /\ \A q \in Clients \ {p} : at'[q] = at[q] /\ todo'[q] = todo[q]
         /\ flaws' \in [Clients -> BOOLEAN] /\ workspaces' \subseteq Clients /\ seen' = seen
<1>1. Tail(todo[p]) \in Seq(Tools) /\ <<>> \in Seq(Tools)
  BY DEF TypeInv, TypeOK
<1>2. CASE ScanReceives(p)
  BY <1>1, <1>2 DEF ScanReceives, Quit, Set, TypeInv, TypeOK
<1>3. CASE VerifierReceives(p)
  <2>1. \/ \E x \in {"raised", "failed", "passed"} : Quit(p, x) /\ UNCHANGED flaws
        \/ /\ at' = [at EXCEPT ![p] = "ready"] /\ todo' = [todo EXCEPT ![p] = Tail(todo[p])]
           /\ \E b \in BOOLEAN : flaws' = [flaws EXCEPT ![p] = b]
    BY <1>3 DEF VerifierReceives, Set
  <2>2. workspaces' \subseteq Clients /\ seen' = seen
    BY <1>3 DEF VerifierReceives, TypeInv, TypeOK
  <2>3. CASE \E x \in {"raised", "failed", "passed"} : Quit(p, x) /\ UNCHANGED flaws
    BY <1>1, <2>2, <2>3 DEF Quit, Set, TypeInv, TypeOK
  <2>4. CASE /\ at' = [at EXCEPT ![p] = "ready"] /\ todo' = [todo EXCEPT ![p] = Tail(todo[p])]
             /\ \E b \in BOOLEAN : flaws' = [flaws EXCEPT ![p] = b]
    BY <1>1, <2>2, <2>4 DEF TypeInv, TypeOK
  <2>5. QED BY <2>1, <2>3, <2>4
<1>4. CASE WriterReceives(p)
  <2>1. \/ \E x \in {"failed", "done"} : Quit(p, x)
        \/ /\ at' = [at EXCEPT ![p] = "ready"] /\ todo' = [todo EXCEPT ![p] = Tail(todo[p])]
    BY <1>4 DEF WriterReceives, Set
  <2>2. UNCHANGED <<workspaces, seen, flaws>>
    BY <1>4 DEF WriterReceives
  <2>3. CASE \E x \in {"failed", "done"} : Quit(p, x)
    BY <1>1, <2>2, <2>3 DEF Quit, Set, TypeInv, TypeOK
  <2>4. CASE /\ at' = [at EXCEPT ![p] = "ready"] /\ todo' = [todo EXCEPT ![p] = Tail(todo[p])]
    BY <1>1, <2>2, <2>4 DEF TypeInv, TypeOK
  <2>5. QED BY <2>1, <2>3, <2>4
<1>5. QED BY <1>2, <1>3, <1>4

LEMMA ReceiveKeepsTypes ==
  ASSUME TypeInv, NEW p \in Clients, Receive(p)
  PROVE  TypeInv'
<1>1. stage[p] = "answered" /\ stage' = [stage EXCEPT ![p] = "idle"]
  BY DEF Receive, Set
<1>2. todo[p] # <<>>
  BY <1>1 DEF TypeInv, TypeOK
<1>3. /\ at' \in [Clients -> {"ready", "waiting", "done", "passed", "failed", "raised"}]
      /\ todo' \in [Clients -> Seq(Tools)]
      /\ \A q \in Clients \ {p} : at'[q] = at[q] /\ todo'[q] = todo[q]
      /\ flaws' \in [Clients -> BOOLEAN] /\ workspaces' \subseteq Clients /\ seen' = seen
  BY <1>2, Receives DEF Receive
<1>4. /\ answer' \in [Clients -> Answers] /\ box' \in [Clients -> {"none", "coming", "up", "gone"}]
      /\ round' \in [Clients -> Nat] /\ late' \in [Clients -> BOOLEAN]
  BY DEF Receive, Set, TypeInv, TypeOK, Answers
<1>5. UNCHANGED <<out, cancelled, lock, copies, effects, audited>>
  BY DEF Receive, rest
<1>6. stage' \in [Clients -> {"idle", "queued", "requesting", "over", "answered"} \cup InSandbox]
  BY <1>1 DEF TypeInv, TypeOK
<1>7. \A q \in Clients : stage'[q] # "idle" => todo'[q] # <<>>
  BY <1>1, <1>3 DEF TypeInv, TypeOK
<1>8. Idle'
  BY <1>1, <1>3 DEF TypeInv, TypeOK, Idle
<1>9. QED
  BY <1>3, <1>4, <1>5, <1>6, <1>7, <1>8 DEF TypeInv, TypeOK

LEMMA CancelledKeepsTypes ==
  ASSUME TypeInv, NEW p \in Clients, Cancelled(p), stage[p] # "idle", UNCHANGED <<todo, seen, flaws>>,
         workspaces' \subseteq workspaces,
         \E x \in {"failed", "raised"} : at' = [at EXCEPT ![p] = x]
  PROVE  TypeInv'
<1>1. Leave(p) /\ cancelled' = cancelled \cup {p} /\ UNCHANGED <<box, out, round, late, answer, audited>>
  BY DEF Cancelled, sandbox
<1>2. /\ at' \in [Clients -> {"ready", "waiting", "done", "passed", "failed", "raised"}]
      /\ todo' \in [Clients -> Seq(Tools)]
      /\ stage' \in [Clients -> {"idle", "queued", "requesting", "over", "answered"} \cup InSandbox]
      /\ \A q \in Clients : stage'[q] # "idle" => todo'[q] # <<>>
      /\ lock' \in Clients \cup {Nobody} /\ copies' \subseteq Clients
      /\ Idle'
  BY <1>1, LeaveKeepsTypes
<1>3. Effect(p) \subseteq Clients \X Tools
  BY EffectIsWrite DEF TypeInv
<1>4. effects' \subseteq Clients \X Tools
  BY <1>3 DEF Cancelled, TypeInv, TypeOK
<1>5. QED
  BY <1>1, <1>2, <1>4 DEF TypeInv, TypeOK

LEMMA TimeoutKeepsTypes ==
  ASSUME TypeInv, NEW p \in Clients, OuterTimeout(p) \/ JobTimeout(p)
  PROVE  TypeInv'
<1>1. CASE OuterTimeout(p)
  <2>1. stage[p] # "idle" /\ at[p] = "waiting" /\ at' = [at EXCEPT ![p] = "failed"]
    BY <1>1 DEF OuterTimeout, Set
  <2>2. UNCHANGED <<todo, workspaces, seen, flaws>>
    BY <1>1 DEF OuterTimeout
  <2>3. CASE Cancelled(p)
    <3>1. UNCHANGED <<todo, seen, flaws>> /\ workspaces' \subseteq workspaces
      BY <2>2
    <3>2. \E x \in {"failed", "raised"} : at' = [at EXCEPT ![p] = x]
      BY <2>1
    <3>3. QED BY <2>1, <2>3, <3>1, <3>2, CancelledKeepsTypes
  <2>4. CASE UNCHANGED <<stage, sandbox, late, cancelled, answer, lock, copies, rest>>
    BY <2>1, <2>2, <2>4 DEF TypeInv, TypeOK, Idle, sandbox, rest
  <2>5. QED BY <1>1, <2>3, <2>4 DEF OuterTimeout
<1>2. CASE JobTimeout(p)
  <2>1. Cancelled(p) /\ stage[p] # "idle" /\ UNCHANGED <<todo, seen, flaws>>
    BY <1>2 DEF JobTimeout, InSandbox
  <2>2. workspaces' \subseteq workspaces /\ at' = [at EXCEPT ![p] = "raised"]
    BY <1>2 DEF JobTimeout, Set
  <2>3. \E x \in {"failed", "raised"} : at' = [at EXCEPT ![p] = x]
    BY <2>2
  <2>4. QED BY <2>1, <2>2, <2>3, CancelledKeepsTypes
<1>3. QED BY <1>1, <1>2

LEMMA NextTypes == TypeInv /\ [Next]_vars => TypeInv'
<1> SUFFICES ASSUME TypeInv, [Next]_vars PROVE TypeInv'
  OBVIOUS
<1>1. ASSUME NEW p \in Clients, Step(p) \/ JobTimeout(p) \/ Created(p) \/ Ended(p) PROVE TypeInv'
  <2>1. CASE Refused(p) \/ Launch(p) \/ Queue(p) \/ Ask(p)
    BY <2>1, BeginKeepsTypes
  <2>2. CASE Acquire(p) \/ Timeout(p) \/ Kill(p) \/ Created(p) \/ Ended(p)
    BY <2>2, SandboxKeepsTypes
  <2>3. CASE Finished(p)
    <3>1. NextLanguage(p) \/ Conclude(p, FALSE)
      BY <2>3 DEF Finished
    <3>2. stage[p] # "idle" /\ UNCHANGED <<at, todo, workspaces, flaws, cancelled, rest>>
      BY <2>3 DEF Finished
    <3>3. QED BY <3>1, <3>2, NextLanguageKeepsTypes, ConcludeKeepsTypes
  <2>4. CASE Drained(p)
    <3>1. /\ Conclude(p, TRUE) /\ stage[p] # "idle"
          /\ UNCHANGED <<at, todo, workspaces, flaws, cancelled, rest>>
      BY <2>4 DEF Drained
    <3>2. QED BY <3>1, ConcludeKeepsTypes
  <2>5. CASE Requested(p)
    BY <2>5, RequestedKeepsTypes
  <2>6. CASE Audit(p)
    BY <2>6, AuditKeepsTypes
  <2>7. CASE Receive(p)
    BY <2>7, ReceiveKeepsTypes
  <2>8. CASE OuterTimeout(p) \/ JobTimeout(p)
    BY <2>8, TimeoutKeepsTypes
  <2>9. QED BY <1>1, <2>1, <2>2, <2>3, <2>4, <2>5, <2>6, <2>7, <2>8 DEF Step
<1>2. CASE UNCHANGED vars
  BY <1>2 DEF vars, client, sandbox, rest, TypeInv, TypeOK, Idle
<1>3. QED BY <1>1, <1>2 DEF Next

\* The state of the gateway, the sandboxes and the clients stays within its
\* types (TypeOK), for any scripts.
THEOREM TypeCorrect == Spec => []TypeOK
<1>1. TypeInv => TypeOK
  BY DEF TypeInv
<1>2. QED BY <1>1, InitTypes, NextTypes, PTL DEF Spec

-----------------------------------------------------------------------------
(* What a call holds while it is in its sandbox, and only then.            *)

CopiesHeld == \A p \in copies : stage[p] \in InSandbox
LockHeld == lock # Nobody => stage[lock] \in InSandbox
ContainersHeld == \A p \in Clients \ cancelled : Live(p) => stage[p] \in InSandbox
TrivyHasLock == \A p \in Clients : stage[p] \in InSandbox /\ Tool(p) = "run_trivy" => lock = p

Held == CopiesHeld /\ LockHeld /\ ContainersHeld /\ TrivyHasLock

LEMMA HeldIsEnough ==
  ASSUME TypeInv, Held
  PROVE  NothingLeftBehind
BY DEF Held, CopiesHeld, LockHeld, ContainersHeld, TrivyHasLock, NothingLeftBehind

LEMMA InitHeld == Init => Held
BY DEF Init, Held, CopiesHeld, LockHeld, ContainersHeld, TrivyHasLock, Live, InSandbox

LEMMA BeginKeepsHeld ==
  ASSUME TypeInv, Held, NEW p \in Clients,
         Refused(p) \/ Launch(p) \/ Queue(p) \/ Ask(p)
  PROVE  Held'
<1>1. stage[p] = "idle" /\ UNCHANGED <<todo, cancelled>>
  BY DEF Refused, Launch, Queue, Ask, Begin, TypeInv, Idle
<1>2. \A q \in Clients : Tool(q)' = Tool(q)
  BY <1>1 DEF Tool
<1>3. p \notin copies /\ lock # p
  BY <1>1, ToolCallsAssumption DEF Held, CopiesHeld, LockHeld, InSandbox
<1>4. CASE Launch(p)
  <2>1. stage' = [stage EXCEPT ![p] = "running"] /\ box' = [box EXCEPT ![p] = "coming"]
    BY <1>4 DEF Launch, Set
  <2>2. lock' = IF Tool(p) = "run_trivy" THEN p ELSE lock
    BY <1>4 DEF Launch
  <2>3. copies' \subseteq copies \cup {p} /\ (Tool(p) = "run_trivy" => lock = Nobody)
    BY <1>4 DEF Launch
  <2>4. CopiesHeld'
    BY <2>1, <2>3 DEF Held, CopiesHeld, TypeInv, TypeOK, InSandbox
  <2>5. LockHeld'
    BY <2>1, <2>2 DEF Held, LockHeld, TypeInv, TypeOK, InSandbox
  <2>6. ContainersHeld'
    BY <1>1, <2>1 DEF Held, ContainersHeld, Live, TypeInv, TypeOK, InSandbox
  <2>7. TrivyHasLock'
    BY <1>2, <2>1, <2>2, <2>3, ToolCallsAssumption DEF Held, TrivyHasLock, TypeInv, TypeOK, InSandbox
  <2>8. QED BY <2>4, <2>5, <2>6, <2>7 DEF Held
<1>5. CASE Refused(p) \/ Queue(p) \/ Ask(p)
  <2>1. /\ UNCHANGED <<box, lock, copies>>
        /\ \E x \in {"over", "answered", "queued", "requesting"} : stage' = [stage EXCEPT ![p] = x]
    BY <1>5 DEF Refused, Queue, Ask, Set
  <2>2. CopiesHeld' /\ LockHeld'
    BY <1>3, <2>1 DEF Held, CopiesHeld, LockHeld, TypeInv, TypeOK
  <2>3. ContainersHeld'
    BY <1>1, <2>1 DEF Held, ContainersHeld, Live, TypeInv, TypeOK, InSandbox
  <2>4. TrivyHasLock'
    BY <1>2, <2>1 DEF Held, TrivyHasLock, TypeInv, TypeOK, InSandbox
  <2>5. QED BY <2>2, <2>3, <2>4 DEF Held
<1>6. QED BY <1>4, <1>5

\* A tool that is left has no container any more, or was cancelled.
LEMMA LeaveKeepsHeld ==
  ASSUME TypeInv, Held, NEW p \in Clients, Leave(p), UNCHANGED <<todo, box>>,
         \/ ~Live(p) /\ cancelled' = cancelled
         \/ cancelled' = cancelled \cup {p}
  PROVE  Held'
<1>1. stage' = [stage EXCEPT ![p] = "over"] /\ copies' = copies \ {p}
  BY DEF Leave, Set
<1>2. lock' = IF lock = p THEN Nobody ELSE lock
  BY DEF Leave
<1>3. \A q \in Clients : Tool(q)' = Tool(q)
  BY DEF Tool
<1>4. CopiesHeld'
  BY <1>1 DEF Held, CopiesHeld, TypeInv, TypeOK
<1>5. LockHeld'
  BY <1>1, <1>2 DEF Held, LockHeld, TypeInv, TypeOK
<1>6. ContainersHeld'
  BY <1>1 DEF Held, ContainersHeld, Live, TypeInv, TypeOK
<1>7. TrivyHasLock'
  BY <1>1, <1>2, <1>3 DEF Held, TrivyHasLock, TypeInv, TypeOK, InSandbox
<1>8. QED BY <1>4, <1>5, <1>6, <1>7 DEF Held

LEMMA SandboxKeepsHeld ==
  ASSUME TypeInv, Held, NEW p \in Clients,
         Acquire(p) \/ Timeout(p) \/ Kill(p) \/ Created(p) \/ Ended(p)
  PROVE  Held'
<1>1. UNCHANGED <<todo, cancelled, copies>> /\ \A q \in Clients : Tool(q)' = Tool(q)
  BY DEF Acquire, Timeout, Kill, Created, Ended, client, Tool
<1>2. CASE Acquire(p)
  <2>1. /\ stage' = [stage EXCEPT ![p] = "running"] /\ box' = [box EXCEPT ![p] = "coming"]
        /\ lock = Nobody /\ lock' = p
    BY <1>2 DEF Acquire, Set
  <2>2. QED
    BY <1>1, <2>1, ToolCallsAssumption
    DEF Held, CopiesHeld, LockHeld, ContainersHeld, TrivyHasLock, Live, TypeInv, TypeOK, InSandbox
<1>3. CASE Timeout(p) \/ Kill(p)
  <2>1. /\ \E x \in InSandbox : stage' = [stage EXCEPT ![p] = x]
        /\ stage[p] \in InSandbox /\ lock' = lock
    BY <1>3 DEF Timeout, Kill, Set, InSandbox
  <2>2. box' = box \/ box' = [box EXCEPT ![p] = "gone"]
    BY <1>3 DEF Timeout, Kill, Set, sandbox
  <2>3. CopiesHeld' /\ LockHeld'
    BY <1>1, <2>1 DEF Held, CopiesHeld, LockHeld, TypeInv, TypeOK
  <2>4. ContainersHeld'
    BY <1>1, <2>1, <2>2 DEF Held, ContainersHeld, Live, TypeInv, TypeOK
  <2>5. TrivyHasLock'
    BY <1>1, <2>1 DEF Held, TrivyHasLock, TypeInv, TypeOK
  <2>6. QED BY <2>3, <2>4, <2>5 DEF Held
<1>4. CASE Created(p) \/ Ended(p)
  <2>1. UNCHANGED <<stage, lock>> /\ Live(p) /\ \E x \in {"up", "gone"} : box' = [box EXCEPT ![p] = x]
    BY <1>4 DEF Created, Ended, Set, Live
  <2>2. CopiesHeld' /\ LockHeld' /\ TrivyHasLock'
    BY <1>1, <2>1 DEF Held, CopiesHeld, LockHeld, TrivyHasLock
  <2>3. ContainersHeld'
    BY <1>1, <2>1 DEF Held, ContainersHeld, Live, TypeInv, TypeOK
  <2>4. QED BY <2>2, <2>3 DEF Held
<1>5. QED BY <1>2, <1>3, <1>4

\* Steps outside the sandbox: the call goes from one place there to another.
LEMMA OutsideKeepsHeld ==
  ASSUME TypeInv, Held, NEW p \in Clients, stage[p] \notin InSandbox,
         \E x \in {"over", "answered", "idle"} : stage' = [stage EXCEPT ![p] = x],
         UNCHANGED <<cancelled, lock, copies>>,
         box' = box \/ box' = [box EXCEPT ![p] = "none"],
         \A q \in Clients \ {p} : todo'[q] = todo[q]
  PROVE  Held'
<1>1. \A q \in Clients \ {p} : Tool(q)' = Tool(q)
  BY DEF Tool
<1>2. CopiesHeld' /\ LockHeld'
  BY DEF Held, CopiesHeld, LockHeld, TypeInv, TypeOK
<1>3. ContainersHeld'
  BY DEF Held, ContainersHeld, Live, TypeInv, TypeOK
<1>4. TrivyHasLock'
  BY <1>1 DEF Held, TrivyHasLock, TypeInv, TypeOK, InSandbox
<1>5. QED BY <1>2, <1>3, <1>4 DEF Held

LEMMA NextHeld == TypeInv /\ Held /\ [Next]_vars => Held'
<1> SUFFICES ASSUME TypeInv, Held, [Next]_vars PROVE Held'
  OBVIOUS
<1>1. ASSUME NEW p \in Clients, Step(p) \/ JobTimeout(p) \/ Created(p) \/ Ended(p) PROVE Held'
  <2>1. CASE Refused(p) \/ Launch(p) \/ Queue(p) \/ Ask(p)
    BY <2>1, BeginKeepsHeld
  <2>2. CASE Acquire(p) \/ Timeout(p) \/ Kill(p) \/ Created(p) \/ Ended(p)
    BY <2>2, SandboxKeepsHeld
  <2>3. CASE Finished(p) \/ Drained(p)
    <3>1. CASE \E overdue \in BOOLEAN : Conclude(p, overdue)
      <4>1. Leave(p) /\ UNCHANGED box
        BY <3>1 DEF Conclude
      <4>2. ~Live(p) /\ UNCHANGED <<todo, cancelled>>
        BY <2>3 DEF Finished, Drained, Live
      <4>3. UNCHANGED <<todo, box>> /\ ~Live(p) /\ cancelled' = cancelled
        BY <4>1, <4>2
      <4>4. QED BY <4>1, <4>3, LeaveKeepsHeld
    <3>2. CASE Finished(p) /\ NextLanguage(p)
      <4>1. UNCHANGED <<stage, lock, copies, todo, cancelled>> /\ stage[p] \in InSandbox
        BY <3>2 DEF Finished, NextLanguage, InSandbox
      <4>2. box' = [box EXCEPT ![p] = "coming"]
        BY <3>2 DEF NextLanguage, Set
      <4>3. CopiesHeld' /\ LockHeld' /\ TrivyHasLock'
        BY <4>1 DEF Held, CopiesHeld, LockHeld, TrivyHasLock, Tool
      <4>4. ContainersHeld'
        BY <4>1, <4>2 DEF Held, ContainersHeld, Live, TypeInv, TypeOK
      <4>5. QED BY <4>3, <4>4 DEF Held
    <3>3. (\E overdue \in BOOLEAN : Conclude(p, overdue)) \/ (Finished(p) /\ NextLanguage(p))
      BY <2>3 DEF Finished, Drained
    <3>4. QED BY <3>1, <3>2, <3>3
  <2>4. CASE Requested(p) \/ Audit(p)
    <3>1. /\ stage[p] \notin InSandbox
          /\ \E x \in {"over", "answered", "idle"} : stage' = [stage EXCEPT ![p] = x]
          /\ UNCHANGED <<cancelled, lock, copies>>
          /\ box' = box /\ \A q \in Clients \ {p} : todo'[q] = todo[q]
      BY <2>4 DEF Requested, Audit, Set, InSandbox, client, sandbox
    <3>2. QED BY <3>1, OutsideKeepsHeld
  <2>5. CASE Receive(p)
    <3>1. /\ stage[p] \notin InSandbox
          /\ \E x \in {"over", "answered", "idle"} : stage' = [stage EXCEPT ![p] = x]
          /\ UNCHANGED <<cancelled, lock, copies>>
          /\ box' = [box EXCEPT ![p] = "none"]
      BY <2>5 DEF Receive, Set, InSandbox
    <3>2. todo[p] # <<>>
      BY <2>5 DEF Receive, TypeInv, TypeOK
    <3>3. \A q \in Clients \ {p} : at'[q] = at[q] /\ todo'[q] = todo[q]
      BY <2>5, <3>2, Receives DEF Receive
    <3>4. QED BY <3>1, <3>3, OutsideKeepsHeld
  <2>6. CASE OuterTimeout(p) \/ JobTimeout(p)
    <3>1. CASE Cancelled(p)
      <4>1. Leave(p) /\ UNCHANGED <<todo, box>> /\ cancelled' = cancelled \cup {p}
        BY <2>6, <3>1 DEF OuterTimeout, JobTimeout, Cancelled, sandbox
      <4>2. QED BY <4>1, LeaveKeepsHeld
    <3>2. CASE UNCHANGED <<stage, sandbox, late, cancelled, answer, lock, copies, rest>> /\ UNCHANGED todo
      BY <3>2 DEF Held, CopiesHeld, LockHeld, ContainersHeld, TrivyHasLock, Live, Tool, sandbox
    <3>3. QED BY <2>6, <3>1, <3>2 DEF OuterTimeout, JobTimeout
  <2>7. QED BY <1>1, <2>1, <2>2, <2>3, <2>4, <2>5, <2>6 DEF Step
<1>2. CASE UNCHANGED vars
  BY <1>2 DEF vars, client, sandbox, Held, CopiesHeld, LockHeld, ContainersHeld, TrivyHasLock, Live, Tool
<1>3. QED BY <1>1, <1>2 DEF Next

\* A call that is over has left no copy, no lock and, unless it was
\* cancelled, no container (NothingLeftBehind).
THEOREM CallsLeaveNothing == Spec => []NothingLeftBehind
<1>1. Init => TypeInv /\ Held
  BY InitTypes, InitHeld
<1>2. TypeInv /\ Held /\ [Next]_vars => (TypeInv /\ Held)'
  BY NextTypes, NextHeld
<1>3. TypeInv /\ Held => NothingLeftBehind
  BY HeldIsEnough
<1>4. QED BY <1>1, <1>2, <1>3, PTL DEF Spec

-----------------------------------------------------------------------------
(* The audit log.                                                          *)

\* A write that is not in the log yet is that of the call that is being
\* recorded.
Logged == \A e \in effects : e \in audited \/ (stage[e[1]] = "over" /\ e[2] = Tool(e[1]))

LEMMA LoggedIsEnough == TypeInv /\ Logged => WritesAudited
BY DEF Logged, WritesAudited

LEMMA NextLogged == TypeInv /\ Logged /\ [Next]_vars => Logged'
<1> SUFFICES ASSUME TypeInv, Logged, [Next]_vars PROVE Logged'
  OBVIOUS
<1>e. \A e \in effects : e[1] \in Clients
  BY DEF TypeInv, TypeOK
\* Steps that leave log, effects and recording calls alone.
<1>1. ASSUME NEW p \in Clients, stage[p] # "over", UNCHANGED <<effects, audited>>,
             stage' = stage \/ (\E x : stage' = [stage EXCEPT ![p] = x]),
             \A q \in Clients \ {p} : todo'[q] = todo[q]
      PROVE  Logged'
  <2>1. \A q \in Clients \ {p} : stage'[q] = stage[q] /\ Tool(q)' = Tool(q)
    BY <1>1 DEF Tool, TypeInv, TypeOK
  <2>2. QED BY <1>e, <1>1, <2>1 DEF Logged
\* A request that was carried out, or not.
<1>2. ASSUME NEW p \in Clients, stage[p] # "over", stage' = [stage EXCEPT ![p] = "over"],
             effects' \subseteq effects \cup Effect(p), UNCHANGED <<todo, audited>>
      PROVE  Logged'
  <2>1. \A q \in Clients \ {p} : stage'[q] = stage[q] /\ Tool(q)' = Tool(q)
    BY <1>2 DEF Tool, TypeInv, TypeOK
  <2>2. stage'[p] = "over" /\ Tool(p)' = Tool(p)
    BY <1>2 DEF Tool, TypeInv, TypeOK
  <2>3. ASSUME NEW e \in effects' PROVE e \in audited' \/ (stage'[e[1]] = "over" /\ e[2] = Tool(e[1])')
    <3>1. CASE e \in effects
      BY <1>e, <1>2, <2>1, <3>1 DEF Logged
    <3>2. CASE e \in Effect(p)
      <4>1. e = <<p, Tool(p)>>
        BY <3>2 DEF Effect
      <4>2. QED BY <2>2, <4>1
    <3>3. QED BY <1>2, <2>3, <3>1, <3>2
  <2>4. QED BY <2>3 DEF Logged
<1>3. ASSUME NEW p \in Clients, Step(p) \/ JobTimeout(p) \/ Created(p) \/ Ended(p) PROVE Logged'
  <2>1. CASE Refused(p) \/ Launch(p) \/ Queue(p) \/ Ask(p)
    <3>1. stage[p] # "over" /\ UNCHANGED <<effects, audited, todo>>
      BY <2>1 DEF Refused, Launch, Queue, Ask, Begin, TypeInv, Idle, rest
    <3>2. \E x : stage' = [stage EXCEPT ![p] = x]
      BY <2>1 DEF Refused, Launch, Queue, Ask, Set
    <3>3. QED BY <1>1, <3>1, <3>2
  <2>2. CASE Acquire(p) \/ Timeout(p) \/ Kill(p)
    <3>1. /\ stage[p] # "over" /\ UNCHANGED <<effects, audited, todo>>
          /\ \E x : stage' = [stage EXCEPT ![p] = x]
      BY <2>2 DEF Acquire, Timeout, Kill, Set, client, rest
    <3>2. QED BY <1>1, <3>1
  <2>3. CASE Created(p) \/ Ended(p)
    BY <2>3 DEF Created, Ended, client, rest, Logged, Tool
  <2>4. CASE Finished(p) \/ Drained(p)
    <3>1. stage[p] # "over" /\ UNCHANGED <<effects, audited, todo>>
      BY <2>4 DEF Finished, Drained, rest
    <3>2. stage' = stage \/ stage' = [stage EXCEPT ![p] = "over"]
      BY <2>4 DEF Finished, Drained, NextLanguage, Conclude, Leave, Set
    <3>3. QED BY <1>1, <3>1, <3>2
  <2>5. CASE Requested(p)
    <3>1. /\ stage[p] # "over" /\ stage' = [stage EXCEPT ![p] = "over"]
          /\ effects' \subseteq effects \cup Effect(p) /\ UNCHANGED <<todo, audited>>
      BY <2>5 DEF Requested, Set, client
    <3>2. QED BY <1>2, <3>1
  <2>6. CASE Audit(p)
    <3>1. /\ stage' = [stage EXCEPT ![p] = "answered"] /\ UNCHANGED <<todo, effects>>
          /\ audited' = audited \cup {<<p, Tool(p)>>}
      BY <2>6 DEF Audit, Set, client
    <3>2. \A q \in Clients \ {p} : stage'[q] = stage[q] /\ Tool(q)' = Tool(q)
      BY <3>1 DEF Tool, TypeInv, TypeOK
    <3>3. ASSUME NEW e \in effects, e[1] = p PROVE e \in audited'
      <4>1. e = <<e[1], e[2]>>
        BY DEF TypeInv, TypeOK
      <4>2. QED BY <3>1, <3>3, <4>1 DEF Logged
    <3>4. QED BY <1>e, <3>1, <3>2, <3>3 DEF Logged
  <2>7. CASE Receive(p)
    <3>1. /\ stage[p] # "over" /\ UNCHANGED <<effects, audited>>
          /\ \E x : stage' = [stage EXCEPT ![p] = x]
      BY <2>7 DEF Receive, Set, rest
    <3>2. todo[p] # <<>>
      BY <2>7 DEF Receive, TypeInv, TypeOK
    <3>3. \A q \in Clients \ {p} : at'[q] = at[q] /\ todo'[q] = todo[q]
      BY <2>7, <3>2, Receives DEF Receive
    <3>4. QED BY <1>1, <3>1, <3>3
  <2>8. CASE OuterTimeout(p) \/ JobTimeout(p)
    <3>1. CASE Cancelled(p)
      <4>1. stage[p] # "over" /\ UNCHANGED todo
        BY <2>8 DEF OuterTimeout, JobTimeout, InSandbox
      <4>2. /\ stage' = [stage EXCEPT ![p] = "over"]
            /\ effects' \subseteq effects \cup Effect(p) /\ UNCHANGED audited
        BY <3>1 DEF Cancelled, Leave, Set
      <4>3. QED BY <1>2, <4>1, <4>2
    <3>2. CASE UNCHANGED <<stage, sandbox, late, cancelled, answer, lock, copies, rest>> /\ UNCHANGED todo
      BY <3>2 DEF Logged, Tool, rest
    <3>3. QED BY <2>8, <3>1, <3>2 DEF OuterTimeout, JobTimeout
  <2>9. QED BY <1>3, <2>1, <2>2, <2>3, <2>4, <2>5, <2>6, <2>7, <2>8 DEF Step
<1>4. CASE UNCHANGED vars
  BY <1>4 DEF vars, client, rest, Logged, Tool
<1>5. QED BY <1>3, <1>4 DEF Next

\* A write that GitHub has carried out is in the audit log when its caller
\* goes on, whatever became of the answer (WritesAudited).
THEOREM EffectsAreLogged == Spec => []WritesAudited
<1>1. Init => TypeInv /\ Logged
  BY InitTypes DEF Init, Logged
<1>2. TypeInv /\ Logged /\ [Next]_vars => (TypeInv /\ Logged)'
  BY NextTypes, NextLogged
<1>3. TypeInv /\ Logged => WritesAudited
  BY LoggedIsEnough
<1>4. QED BY <1>1, <1>2, <1>3, PTL DEF Spec

=============================================================================
