------------------------------ MODULE FixSession ------------------------------
(***************************************************************************)
(* What the remediation of one scan promises, without nodes, channels,     *)
(* attempts or rows: a list of targets is taken, the targets are settled   *)
(* one after another, each once, and the tree that the next target starts  *)
(* from changes only when a target is settled by a clean fix in its file.  *)
(* An interrupted session starts over from the tree of the pull request.   *)
(***************************************************************************)
EXTENDS Integers, Sequences

CONSTANTS
  Findings,      \* what can be a target
  Files, FileOf, \* the file of every target
  Base,          \* the tree of the pull request: a content for every file
  Contents,      \* what a fix can make of a file
  Clean(_, _),   \* Clean(f, c): c is free of f and of issues of its own
  MaxTargets

VARIABLES phase, targets, outcomes, tree

svars == <<phase, targets, outcomes, tree>>

Init ==
  /\ phase = "waiting"
  /\ targets = <<>> /\ outcomes = <<>> /\ tree = Base

Begin ==
  /\ phase = "waiting"
  /\ phase' = "working"
  /\ targets' \in UNION {[1..n -> Findings] : n \in 0..MaxTargets}
  /\ outcomes' = <<>>
  /\ tree' = Base

Working == phase = "working" /\ Len(outcomes) < Len(targets)

Subject == targets[Len(outcomes) + 1]

Fix ==
  /\ Working
  /\ \E content \in Contents :
       /\ Clean(Subject, content)
       /\ tree' = [tree EXCEPT ![FileOf[Subject]] = content]
  /\ outcomes' = Append(outcomes, "verified")
  /\ UNCHANGED <<phase, targets>>

GiveUp ==
  /\ Working
  /\ \E outcome \in {"failed", "declined"} : outcomes' = Append(outcomes, outcome)
  /\ UNCHANGED <<phase, targets, tree>>

End ==
  /\ phase = "working"
  /\ Len(outcomes) = Len(targets)
  /\ phase' = "ended"
  /\ UNCHANGED <<targets, outcomes, tree>>

\* An interrupted session keeps nothing that the next one looks at.
Interrupt ==
  /\ phase' = "waiting"
  /\ targets' = <<>> /\ outcomes' = <<>> /\ tree' = Base

Next == Begin \/ Fix \/ GiveUp \/ End \/ Interrupt

Spec == Init /\ [][Next]_svars
=============================================================================
