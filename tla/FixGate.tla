------------------------------- MODULE FixGate -------------------------------
(***************************************************************************)
(* What the approval endpoint promises, without branches, commits, lost    *)
(* answers or rows: a pull request is opened only for the request of       *)
(* somebody with a name, at most one for each, and it holds all that the   *)
(* request was granted for: what could be approved when it arrived.        *)
(***************************************************************************)
EXTENDS Sequences

CONSTANTS
  Approvals,    \* requests of humans
  Named,        \* those that say who approves
  Offers,       \* the sets of fixes that can be approved together
  None,         \* no approval yet
  Tree(_)       \* the tree of a pull request with these fixes

VARIABLES
  grants,       \* what an approval was granted for
  spent,        \* the approvals that have their pull request
  opened        \* the trees of the pull requests

gvars == <<grants, spent, opened>>

Init ==
  /\ grants = [a \in Approvals |-> None]
  /\ spent = {}
  /\ opened = <<>>

Grant(a) ==
  /\ a \in Named /\ grants[a] = None
  /\ \E offer \in Offers : grants' = [grants EXCEPT ![a] = offer]
  /\ UNCHANGED <<spent, opened>>

Open(a) ==
  /\ grants[a] # None /\ a \notin spent
  /\ spent' = spent \cup {a}
  /\ opened' = Append(opened, Tree(grants[a]))
  /\ UNCHANGED grants

Next == \E a \in Approvals : Grant(a) \/ Open(a)

Spec == Init /\ [][Next]_gvars
=============================================================================
