-------------------------- MODULE FixApproval_proofs --------------------------
(***************************************************************************)
(* Proofs about the approval gate for any number of findings, approvals    *)
(* and rows.                                                               *)
(***************************************************************************)
EXTENDS FixApproval, SequenceTheorems, WellFoundedInduction, TLAPS

-----------------------------------------------------------------------------
(* Least and greatest rows and places.                                     *)

\* A set of numbers has a least element.
LEMMA LeastExists ==
  ASSUME NEW T \in SUBSET Nat, T # {}
  PROVE  \E x \in T : \A y \in T : x <= y
<1>1. PICK x \in T : \A y \in T : ~ (<<y, x>> \in OpToRel(<, Nat))
  BY NatLessThanWellFounded, WFMin
<1>2. ASSUME NEW y \in T PROVE x <= y
  <2>1. <<y, x>> \in Nat \X Nat
    OBVIOUS
  <2>2. ~ (y < x)
    BY <1>1, <2>1 DEF OpToRel
  <2>3. QED BY <2>2
<1>3. QED BY <1>2

\* A bounded set of numbers has a greatest element.
LEMMA GreatestExists ==
  ASSUME NEW n \in Nat, NEW T \in SUBSET (1..n), T # {}
  PROVE  \E x \in T : \A y \in T : y <= x
<1> DEFINE D == {n - t : t \in T}
<1>1. D \in SUBSET Nat /\ D # {}
  <2>1. \A t \in T : n - t \in Nat
    OBVIOUS
  <2>2. PICK t \in T : TRUE
    OBVIOUS
  <2>3. n - t \in D
    OBVIOUS
  <2>4. \A d \in D : d \in Nat
    BY <2>1
  <2>5. QED BY <2>3, <2>4
<1>2. PICK d \in D : \A e \in D : d <= e
  BY <1>1, LeastExists
<1>3. PICK x \in T : d = n - x
  OBVIOUS
<1>4. ASSUME NEW y \in T PROVE y <= x
  <2>1. n - y \in D
    OBVIOUS
  <2>2. d <= n - y
    BY <1>2, <2>1
  <2>3. QED BY <1>3, <2>2
<1>5. QED BY <1>4

\* Min and Max of the verified rows are verified rows.
LEMMA MinMaxAreIn ==
  ASSUME NEW n \in Nat, NEW T \in SUBSET (1..n), T # {}
  PROVE  Min(T) \in T /\ Max(T) \in T
<1>1. T \in SUBSET Nat
  OBVIOUS
<1>2. \E x \in T : \A y \in T : x <= y
  BY <1>1, LeastExists
<1>3. \E x \in T : \A y \in T : x >= y
  <2>1. PICK x \in T : \A y \in T : y <= x
    BY GreatestExists
  <2>2. \A y \in T : x >= y
    BY <2>1
  <2>3. QED BY <2>2
<1>4. QED BY <1>2, <1>3 DEF Min, Max

Places(offer) == \A f, g \in DOMAIN offer : offer[f].place = offer[g].place => f = g

\* What verified_remediations returns is an offer, its fixes at places of their
\* own.
LEMMA OfferedIsOffer ==
  ASSUME TypeOK
  PROVE  Offered \in Offers /\ Places(Offered)
<1>1. ASSUME NEW f \in Findings, VerifiedRows(f) # {}
      PROVE  /\ Min(VerifiedRows(f)) \in VerifiedRows(f) /\ Max(VerifiedRows(f)) \in VerifiedRows(f)
             /\ VerifiedRows(f) \subseteq 1..MaxRows
  <2>1. /\ VerifiedRows(f) \in SUBSET (1..Len(rows)) /\ Len(rows) \in Nat
        /\ Len(rows) <= MaxRows
    BY DEF TypeOK, VerifiedRows, RowsOf
  <2>2. 1..Len(rows) \subseteq 1..MaxRows
    BY <2>1, FixApprovalAssumption
  <2>3. Min(VerifiedRows(f)) \in VerifiedRows(f) /\ Max(VerifiedRows(f)) \in VerifiedRows(f)
    BY <1>1, <2>1, MinMaxAreIn
  <2>4. QED BY <2>1, <2>2, <2>3
<1> DEFINE fs == {f \in Findings : VerifiedRows(f) # {}}
<1>2. Offered \in [fs -> Fixes]
  BY <1>1 DEF Offered, Fixes
<1>3. fs \in SUBSET Findings
  OBVIOUS
<1>4. Offered \in Offers
  BY <1>2, <1>3, Zenon DEF Offers
<1>5. ASSUME NEW f \in DOMAIN Offered, NEW g \in DOMAIN Offered,
             Offered[f].place = Offered[g].place
      PROVE  f = g
  <2>1. /\ f \in Findings /\ VerifiedRows(f) # {} /\ Offered[f].place = Min(VerifiedRows(f))
        /\ g \in Findings /\ VerifiedRows(g) # {} /\ Offered[g].place = Min(VerifiedRows(g))
    BY DEF Offered
  <2>2. rows[Offered[f].place].fp = f /\ rows[Offered[g].place].fp = g
    BY <2>1, <1>1 DEF VerifiedRows, RowsOf
  <2>3. QED BY <1>5, <2>2
<1>6. QED BY <1>4, <1>5 DEF Places

\* The next fix to commit is one that is left, and no other that is left has an
\* earlier place.
LEMMA FirstLeftIsFirst ==
  ASSUME TypeOK, NEW a \in Approvals, left[a] # {}
  PROVE  /\ FirstLeft(a) \in left[a] /\ FirstLeft(a) \in Findings
         /\ picked[a][FirstLeft(a)] \in Fixes
         /\ \A g \in left[a] : picked[a][FirstLeft(a)].place <= picked[a][g].place
<1>1. \A f \in left[a] : f \in Findings /\ picked[a][f] \in Fixes
  <2>1. PICK fs \in SUBSET Findings : picked[a] \in [fs -> Fixes]
    BY DEF TypeOK, Offers
  <2>2. left[a] \subseteq fs
    BY <2>1 DEF TypeOK
  <2>3. QED BY <2>1, <2>2
<1> DEFINE T == {picked[a][f].place : f \in left[a]}
<1>2. T \in SUBSET Nat
  <2>1. \A f \in left[a] : picked[a][f].place \in Nat
    BY <1>1 DEF Fixes
  <2>2. QED BY <2>1
<1>3. T # {}
  OBVIOUS
<1>4. PICK x \in T : \A y \in T : x <= y
  BY <1>2, <1>3, LeastExists
<1>5. PICK f \in left[a] : x = picked[a][f].place
  OBVIOUS
<1>6. \A g \in left[a] : picked[a][f].place <= picked[a][g].place
  BY <1>4, <1>5
<1>7. /\ FirstLeft(a) \in left[a]
      /\ \A g \in left[a] : picked[a][FirstLeft(a)].place <= picked[a][g].place
  BY <1>6, Zenon DEF FirstLeft
<1>8. QED BY <1>1, <1>7

-----------------------------------------------------------------------------
(* Type correctness.                                                       *)

Nodes == {"idle", "viewing", "granting", "create", "commit", "open", "mark",
          "done", "refused", "failed"}

\* Replacing elements of a sequence by others of their type gives a sequence.
LEMMA ReplacedIsSeq ==
  ASSUME NEW S, NEW seq \in Seq(S), NEW repl, 
         DOMAIN repl = DOMAIN seq, repl = [i \in DOMAIN seq |-> repl[i]],
         \A i \in DOMAIN seq : repl[i] \in S
  PROVE  repl \in Seq(S) /\ Len(repl) = Len(seq)
<1>1. Len(seq) \in Nat /\ DOMAIN seq = 1..Len(seq)
  BY LenProperties
<1>2. repl \in [1..Len(seq) -> S]
  BY <1>1
<1>3. repl \in Seq(S)
  BY <1>1, <1>2, SeqDef
<1>4. DOMAIN repl = 1..Len(repl) /\ Len(repl) \in Nat
  BY <1>3, LenProperties
<1>5. Len(repl) = Len(seq)
  BY <1>1, <1>4
<1>6. QED BY <1>3, <1>5

\* Going somewhere moves one request, to the node or to its failure.
LEMMA GotoMoves ==
  ASSUME TypeOK, NEW a \in Approvals, NEW node \in Nodes, Goto(a, node)
  PROVE  /\ pc' \in [Approvals -> Nodes]
         /\ pc'[a] \in {node, "failed"}
         /\ \A b \in Approvals : b # a => pc'[b] = pc[b]
<1>1. PICK next \in {node} \cup (IF MayFail THEN {"failed"} ELSE {}) :
        pc' = [pc EXCEPT ![a] = next]
  BY Zenon DEF Goto
<1>2. next \in {node, "failed"} /\ next \in Nodes
  BY <1>1 DEF Nodes
<1>3. pc \in [Approvals -> Nodes]
  BY DEF TypeOK, Nodes
<1>4. QED BY <1>1, <1>2, <1>3

\* Every step keeps the type of every variable.
LEMMA StepKeepsTypes ==
  ASSUME TypeOK, [Next]_vars
  PROVE  TypeOK'
<1> USE FixApprovalAssumption
<1>1. CASE SaveRow
  <2>1. PICK f \in Findings, status \in {"verified", "failed_verification"} :
          rows' = Append(rows, [fp |-> f, status |-> status])
    BY <1>1 DEF SaveRow
  <2>2. Len(rows') = Len(rows) + 1 /\ Len(rows) < MaxRows /\ Len(rows) \in Nat
    BY <1>1, <2>1 DEF SaveRow, TypeOK
  <2>3. /\ rows' \in Seq([fp : Findings, status : {"verified", "failed_verification", "pr_opened"}])
        /\ Len(rows') <= MaxRows
    BY <2>1, <2>2 DEF TypeOK
  <2>4. QED BY <1>1, <2>3 DEF SaveRow, TypeOK, avars
<1>2. CASE EndScan
  BY <1>2 DEF EndScan, TypeOK, avars
<1>3. ASSUME NEW a \in Approvals, View(a) PROVE TypeOK'
  <2>1. AwaitingApproval \in SUBSET (1..MaxRows)
    <3>1. \A i \in DOMAIN rows : i \in 1..Len(rows)
      BY DEF TypeOK
    <3>2. Len(rows) \in Nat /\ Len(rows) <= MaxRows
      BY DEF TypeOK
    <3>3. QED BY <3>1, <3>2 DEF AwaitingApproval
  <2>2. shown' \in [Approvals -> SUBSET (1..MaxRows)]
    BY <1>3, <2>1 DEF View, TypeOK
  <2>3. QED BY <1>3, <2>2 DEF View, TypeOK
<1>4. ASSUME NEW a \in Approvals, Ask(a) PROVE TypeOK'
  <2>1. Offered \in Offers /\ DOMAIN Offered \subseteq Findings
    BY OfferedIsOffer DEF Offered
  <2>2. CASE Acceptable(a)
    <3>1. /\ picked' = [picked EXCEPT ![a] = Offered]
          /\ left' = [left EXCEPT ![a] = DOMAIN Offered]
          /\ pc' = [pc EXCEPT ![a] = "granting"]
      BY <1>4, <2>2, Zenon DEF Ask
    <3>2. picked' \in [Approvals -> Offers] /\ left' \in [Approvals -> SUBSET Findings]
      BY <2>1, <3>1 DEF TypeOK
    <3>3. \A b \in Approvals : left'[b] \subseteq DOMAIN picked'[b]
      BY <3>1 DEF TypeOK
    <3>4. \A b \in Approvals : pc'[b] \in {"granting", "create", "commit"} => left'[b] # {}
      BY <2>2, <3>1 DEF Acceptable, TypeOK
    <3>5. QED BY <1>4, <3>1, <3>2, <3>3, <3>4 DEF Ask, TypeOK
  <2>3. CASE ~Acceptable(a)
    BY <1>4, <2>3 DEF Ask, TypeOK
  <2>4. QED BY <2>2, <2>3
<1>5. ASSUME NEW a \in Approvals, Grant(a) PROVE TypeOK'
  <2>1. Goto(a, "create") /\ pc[a] = "granting"
    BY <1>5 DEF Grant
  <2>2. /\ pc' \in [Approvals -> Nodes] /\ pc'[a] \in {"create", "failed"}
        /\ \A b \in Approvals : b # a => pc'[b] = pc[b]
    BY <2>1, GotoMoves DEF Nodes
  <2>3. \A b \in Approvals : pc'[b] \in {"granting", "create", "commit"} => left[b] # {}
    BY <2>1, <2>2 DEF TypeOK
  <2>4. QED BY <1>5, <2>2, <2>3 DEF Grant, TypeOK, Nodes
<1>6. ASSUME NEW a \in Approvals, CreateBranch(a) PROVE TypeOK'
  <2>1. Goto(a, "commit") /\ pc[a] = "create"
    BY <1>6 DEF CreateBranch
  <2>2. /\ pc' \in [Approvals -> Nodes] /\ pc'[a] \in {"commit", "failed"}
        /\ \A b \in Approvals : b # a => pc'[b] = pc[b]
    BY <2>1, GotoMoves DEF Nodes
  <2>3. \A b \in Approvals : pc'[b] \in {"granting", "create", "commit"} => left[b] # {}
    BY <2>1, <2>2 DEF TypeOK
  <2>4. branch' \in [live : BOOLEAN, tree : Trees, fixes : SUBSET (1..MaxRows)]
    <3>1. Untouched \in Trees
      BY DEF Untouched, Trees
    <3>2. branch' = [live |-> TRUE, tree |-> Untouched, fixes |-> {}]
      BY <1>6, Zenon DEF CreateBranch
    <3>3. QED BY <3>1, <3>2
  <2>5. QED BY <1>6, <2>2, <2>3, <2>4 DEF CreateBranch, TypeOK, Nodes
<1>7. ASSUME NEW a \in Approvals, CommitFix(a) PROVE TypeOK'
  <2> DEFINE f == FirstLeft(a)
  <2>1. /\ pc[a] = "commit" /\ left[a] # {}
        /\ left' = [left EXCEPT ![a] = @ \ {f}]
        /\ Goto(a, IF left[a] = {f} THEN "open" ELSE "commit")
    BY <1>7 DEF CommitFix, TypeOK
  <2>2. f \in left[a] /\ f \in Findings /\ picked[a][f] \in Fixes
    BY <2>1, FirstLeftIsFirst
  <2>3. /\ pc' \in [Approvals -> Nodes]
        /\ pc'[a] \in {IF left[a] = {f} THEN "open" ELSE "commit", "failed"}
        /\ \A b \in Approvals : b # a => pc'[b] = pc[b]
    <3>1. (IF left[a] = {f} THEN "open" ELSE "commit") \in Nodes
      BY DEF Nodes
    <3>2. QED BY <2>1, <3>1, GotoMoves
  <2>4. \A b \in Approvals : pc'[b] \in {"granting", "create", "commit"} => left'[b] # {}
    <3>1. ASSUME NEW b \in Approvals, b # a, pc'[b] \in {"granting", "create", "commit"}
          PROVE  left'[b] # {}
      BY <2>1, <2>3, <3>1 DEF TypeOK
    <3>2. pc'[a] \in {"granting", "create", "commit"} => left'[a] # {}
      BY <2>1, <2>2, <2>3 DEF TypeOK
    <3>3. QED BY <3>1, <3>2
  <2>5. /\ left' \in [Approvals -> SUBSET Findings]
        /\ \A b \in Approvals : left'[b] \subseteq DOMAIN picked[b]
    BY <2>1 DEF TypeOK
  <2>6. branch' \in [live : BOOLEAN, tree : Trees, fixes : SUBSET (1..MaxRows)]
    <3>1. branch' = [branch EXCEPT !.tree[FileOf[f]] = picked[a][f].row,
                                   !.fixes = @ \cup {picked[a][f].row}]
      BY <1>7 DEF CommitFix
    <3>2. picked[a][f].row \in 0..MaxRows /\ picked[a][f].row \in 1..MaxRows
      BY <2>2 DEF Fixes
    <3>3. branch \in [live : BOOLEAN, tree : Trees, fixes : SUBSET (1..MaxRows)]
      BY DEF TypeOK
    <3>4. [branch.tree EXCEPT ![FileOf[f]] = picked[a][f].row] \in Trees
      BY <2>2, <3>2, <3>3 DEF Trees
    <3>5. branch' = [live |-> branch.live,
                     tree |-> [branch.tree EXCEPT ![FileOf[f]] = picked[a][f].row],
                     fixes |-> branch.fixes \cup {picked[a][f].row}]
      BY <3>1, <3>3
    <3>6. QED BY <3>2, <3>3, <3>4, <3>5
  <2>7. UNCHANGED <<scanning, rows, picked, granted, prs, shown>>
    BY <1>7 DEF CommitFix
  <2>8. QED BY <2>3, <2>4, <2>5, <2>6, <2>7 DEF TypeOK, Nodes
<1>8. ASSUME NEW a \in Approvals, OpenPr(a) PROVE TypeOK'
  <2>1. /\ Goto(a, "mark") /\ pc[a] = "open"
        /\ prs' = Append(prs, [by |-> a, state |-> "open", tree |-> branch.tree, fixes |-> branch.fixes])
    BY <1>8 DEF OpenPr
  <2>2. /\ pc' \in [Approvals -> Nodes] /\ pc'[a] \in {"mark", "failed"}
        /\ \A b \in Approvals : b # a => pc'[b] = pc[b]
    BY <2>1, GotoMoves DEF Nodes
  <2>3. \A b \in Approvals : pc'[b] \in {"granting", "create", "commit"} => left[b] # {}
    BY <2>1, <2>2 DEF TypeOK
  <2>4. prs' \in Seq([by : Approvals, state : {"open", "merged", "closed"}, tree : Trees,
                      fixes : SUBSET (1..MaxRows)])
    BY <2>1 DEF TypeOK
  <2>5. QED BY <1>8, <2>2, <2>3, <2>4 DEF OpenPr, TypeOK, Nodes
<1>9. ASSUME NEW a \in Approvals, Mark(a) PROVE TypeOK'
  <2>1. Goto(a, "done") /\ pc[a] = "mark"
    BY <1>9 DEF Mark
  <2>2. /\ pc' \in [Approvals -> Nodes] /\ pc'[a] \in {"done", "failed"}
        /\ \A b \in Approvals : b # a => pc'[b] = pc[b]
    BY <2>1, GotoMoves DEF Nodes
  <2>3. \A b \in Approvals : pc'[b] \in {"granting", "create", "commit"} => left[b] # {}
    BY <2>1, <2>2 DEF TypeOK
  <2>4. /\ rows' \in Seq([fp : Findings, status : {"verified", "failed_verification", "pr_opened"}])
        /\ Len(rows') <= MaxRows
    <3> DEFINE RowType == [fp : Findings, status : {"verified", "failed_verification", "pr_opened"}]
    <3>1. rows \in Seq(RowType) /\ \A i \in DOMAIN rows : rows[i] \in RowType
      <4>1. rows \in Seq(RowType)
        BY DEF TypeOK
      <4> HIDE DEF RowType
      <4>2. DOMAIN rows = 1..Len(rows)
        BY <4>1, LenProperties
      <4>3. \A i \in 1..Len(rows) : rows[i] \in RowType
        BY <4>1, ElementOfSeq
      <4>4. QED BY <4>1, <4>2, <4>3
    <3>2. /\ DOMAIN rows' = DOMAIN rows /\ rows' = [i \in DOMAIN rows |-> rows'[i]]
          /\ \A i \in DOMAIN rows : rows'[i] \in {rows[i], [rows[i] EXCEPT !.status = "pr_opened"]}
      BY <1>9 DEF Mark
    <3>3. \A i \in DOMAIN rows : rows'[i] \in RowType
      BY <3>1, <3>2
    <3>4. rows' \in Seq(RowType) /\ Len(rows') = Len(rows)
      BY <3>1, <3>2, <3>3, ReplacedIsSeq
    <3>5. QED BY <3>4 DEF TypeOK
  <2>5. QED BY <1>9, <2>2, <2>3, <2>4 DEF Mark, TypeOK, Nodes
<1>10. ASSUME NEW a \in Approvals, Fail(a) PROVE TypeOK'
  BY <1>10 DEF Fail, TypeOK
<1>11. ASSUME Merge \/ DeleteBranch PROVE TypeOK'
  <2> DEFINE PrType == [by : Approvals, state : {"open", "merged", "closed"}, tree : Trees,
                        fixes : SUBSET (1..MaxRows)]
  <2>1. prs \in Seq(PrType) /\ \A i \in DOMAIN prs : prs[i] \in PrType
    <3>1. prs \in Seq(PrType)
      BY DEF TypeOK
    <3>2. \A i \in DOMAIN prs : prs[i] \in PrType
      BY <3>1, LenProperties, ElementOfSeq, Zenon
    <3>3. QED BY <3>1, <3>2
  <2>2. /\ DOMAIN prs' = DOMAIN prs /\ prs' = [i \in DOMAIN prs |-> prs'[i]]
        /\ \A i \in DOMAIN prs :
             prs'[i] \in {prs[i], [prs[i] EXCEPT !.state = "merged"], [prs[i] EXCEPT !.state = "closed"]}
    <3>1. CASE Merge
      <4>1. PICK n \in DOMAIN prs : prs' = [prs EXCEPT ![n].state = "merged"]
        BY <3>1 DEF Merge
      <4>2. QED BY <2>1, <4>1
    <3>2. CASE DeleteBranch
      BY <3>2 DEF DeleteBranch
    <3>3. QED BY <1>11, <3>1, <3>2
  <2>3. \A i \in DOMAIN prs : prs'[i] \in PrType
    <3> SUFFICES ASSUME NEW i \in DOMAIN prs PROVE prs'[i] \in PrType
      OBVIOUS
    <3>1. /\ prs[i] \in PrType
          /\ [prs[i] EXCEPT !.state = "merged"] \in PrType
          /\ [prs[i] EXCEPT !.state = "closed"] \in PrType
      BY <2>1
    <3>2. prs'[i] \in {prs[i], [prs[i] EXCEPT !.state = "merged"], [prs[i] EXCEPT !.state = "closed"]}
      BY <2>2
    <3>3. QED BY <3>1, <3>2, Zenon
  <2>4. prs' \in Seq(PrType)
    BY <2>1, <2>2, <2>3, ReplacedIsSeq
  <2>5. branch' \in [live : BOOLEAN, tree : Trees, fixes : SUBSET (1..MaxRows)]
    BY <1>11 DEF Merge, DeleteBranch, TypeOK
  <2>6. UNCHANGED <<scanning, rows, pc, picked, left, granted, shown>>
    BY <1>11 DEF Merge, DeleteBranch, avars
  <2>7. QED BY <2>4, <2>5, <2>6 DEF TypeOK
<1>12. CASE UNCHANGED vars
  BY <1>12 DEF vars, avars, TypeOK
<1>13. QED
  BY <1>1, <1>2, <1>3, <1>4, <1>5, <1>6, <1>7, <1>8, <1>9, <1>10, <1>11, <1>12 DEF Next

\* Every variable has its type at the start.
LEMMA InitHasTypes == Init => TypeOK
<1> SUFFICES ASSUME Init PROVE TypeOK
  OBVIOUS
<1> USE FixApprovalAssumption
<1>1. NoFixes \in Offers
  <2>1. NoFixes \in [{} -> Fixes] /\ {} \in SUBSET Findings
    BY DEF NoFixes
  <2>2. QED BY <2>1, Zenon DEF Offers
<1>2. Untouched \in Trees
  BY DEF Untouched, Trees
<1>3. /\ picked \in [Approvals -> Offers] /\ left \in [Approvals -> SUBSET Findings]
      /\ \A a \in Approvals : left[a] \subseteq DOMAIN picked[a]
  BY <1>1 DEF Init
<1>4. branch \in [live : BOOLEAN, tree : Trees, fixes : SUBSET (1..MaxRows)]
  BY <1>2 DEF Init
<1>5. QED BY <1>3, <1>4 DEF Init, TypeOK

\* Every variable keeps its type, for any findings, approvals and rows.
THEOREM TypeCorrect == Spec => []TypeOK
<1>1. Init => TypeOK
  BY InitHasTypes
<1>2. TypeOK /\ [Next]_vars => TypeOK'
  BY StepKeepsTypes
<1>3. QED BY <1>1, <1>2, PTL DEF Spec

-----------------------------------------------------------------------------
(* The approvals: who has been granted what, and who has a pull request.   *)

AccountInv ==
  /\ \A a \in Approvals : Places(picked[a])
  /\ \A a \in Approvals : pc[a] \in {"idle", "viewing", "granting"} => a \notin granted
  /\ \A a \in Approvals : pc[a] \in {"granting", "create"} => left[a] = DOMAIN picked[a]
  /\ \A a \in Approvals : pc[a] = "granting" => a \in Named
  /\ \A a \in Approvals : pc[a] \in {"create", "commit", "open"} => a \in granted
  /\ \A a \in Approvals : a \in granted => DOMAIN picked[a] # {}
  /\ \A a \in Approvals : pc[a] = "open" => left[a] = {}
  /\ \A a \in Approvals : pc[a] \in {"idle", "viewing", "granting", "create", "commit", "open"} =>
       \A n \in DOMAIN prs : prs[n].by # a

\* A step of another request, of the worker or of GitHub leaves an approval's
\* account as it is.
LEMMA NextKeepsAccounts ==
  ASSUME TypeOK, AccountInv, [Next]_vars
  PROVE  AccountInv'
<1> DEFINE Mine(a) ==
      /\ Places(picked[a])
      /\ pc[a] \in {"idle", "viewing", "granting"} => a \notin granted
      /\ pc[a] \in {"granting", "create"} => left[a] = DOMAIN picked[a]
      /\ pc[a] = "granting" => a \in Named
      /\ pc[a] \in {"create", "commit", "open"} => a \in granted
      /\ a \in granted => DOMAIN picked[a] # {}
      /\ pc[a] = "open" => left[a] = {}
      /\ pc[a] \in {"idle", "viewing", "granting", "create", "commit", "open"} =>
           \A n \in DOMAIN prs : prs[n].by # a
<1>1. ASSUME NEW a \in Approvals, UNCHANGED <<pc[a], picked[a], left[a]>>,
             a \in granted' <=> a \in granted,
             \A n \in DOMAIN prs' : prs'[n].by = a => \E m \in DOMAIN prs : prs[m].by = a
      PROVE  Mine(a)'
  BY <1>1 DEF AccountInv, Places
<1>2. SUFFICES \A a \in Approvals : Mine(a)'
  BY DEF AccountInv
<1> HIDE DEF Mine
<1>3. CASE UNCHANGED <<avars, prs>>
  BY <1>1, <1>3 DEF avars
<1>4. ASSUME Merge \/ DeleteBranch PROVE \A a \in Approvals : Mine(a)'
  <2>1. UNCHANGED avars
    BY <1>4 DEF Merge, DeleteBranch
  <2>2. DOMAIN prs' = DOMAIN prs /\ \A n \in DOMAIN prs : prs'[n].by = prs[n].by
    <3>1. CASE Merge
      <4>1. PICK n \in DOMAIN prs : prs' = [prs EXCEPT ![n].state = "merged"]
        BY <3>1 DEF Merge
      <4>2. QED BY <4>1
    <3>2. CASE DeleteBranch
      BY <3>2 DEF DeleteBranch
    <3>3. QED BY <1>4, <3>1, <3>2
  <2>3. QED BY <1>1, <2>1, <2>2 DEF avars
<1>5. ASSUME NEW a \in Approvals, NEW b \in Approvals, 
             \/ View(a) \/ Ask(a) \/ Grant(a) \/ CreateBranch(a) \/ CommitFix(a) \/ OpenPr(a)
             \/ Mark(a) \/ Fail(a)
      PROVE  Mine(b)'
  <2>0. ASSUME b # a PROVE Mine(b)'
    <3>1. pc'[b] = pc[b]
      <4>1. CASE Grant(a)
        BY <2>0, <4>1, GotoMoves DEF Grant, Nodes
      <4>2. CASE CreateBranch(a)
        BY <2>0, <4>2, GotoMoves DEF CreateBranch, Nodes
      <4>3. CASE CommitFix(a)
        <5>1. \E node \in Nodes : Goto(a, node)
          BY <4>3 DEF CommitFix, Nodes
        <5>2. QED BY <2>0, <5>1, GotoMoves
      <4>4. CASE OpenPr(a)
        BY <2>0, <4>4, GotoMoves DEF OpenPr, Nodes
      <4>5. CASE Mark(a)
        BY <2>0, <4>5, GotoMoves DEF Mark, Nodes
      <4>6. CASE View(a) \/ Ask(a) \/ Fail(a)
        BY <2>0, <4>6 DEF View, Ask, Fail, TypeOK
      <4>7. QED BY <1>5, <4>1, <4>2, <4>3, <4>4, <4>5, <4>6
    <3>2. UNCHANGED <<picked[b], left[b]>>
      BY <1>5, <2>0 DEF View, Ask, Grant, CreateBranch, CommitFix, OpenPr, Mark, Fail, TypeOK
    <3>3. b \in granted' <=> b \in granted
      BY <1>5, <2>0 DEF View, Ask, Grant, CreateBranch, CommitFix, OpenPr, Mark, Fail
    <3>4. \A n \in DOMAIN prs' : prs'[n].by = b => \E m \in DOMAIN prs : prs[m].by = b
      <4>1. CASE OpenPr(a)
        <5>1. /\ prs \in Seq([by : Approvals, state : {"open", "merged", "closed"}, tree : Trees,
                              fixes : SUBSET (1..MaxRows)])
              /\ prs' = Append(prs, [by |-> a, state |-> "open", tree |-> branch.tree,
                                     fixes |-> branch.fixes])
          BY <4>1 DEF OpenPr, TypeOK
        <5>2. QED BY <2>0, <5>1
      <4>2. CASE ~OpenPr(a)
        BY <1>5, <4>2 DEF View, Ask, Grant, CreateBranch, CommitFix, Mark, Fail
      <4>3. QED BY <4>1, <4>2
    <3>5. QED BY <1>1, <3>1, <3>2, <3>3, <3>4
  <2>1. ASSUME View(a) PROVE Mine(a)'
    BY <2>1 DEF Mine, AccountInv, View, TypeOK, Places
  <2>2. ASSUME Ask(a) PROVE Mine(a)'
    <3>1. CASE Acceptable(a)
      <4>1. picked'[a] = Offered /\ left'[a] = DOMAIN Offered /\ pc'[a] = "granting"
        BY <2>2, <3>1 DEF Ask, TypeOK
      <4>2. Places(picked'[a])
        BY <4>1, OfferedIsOffer
      <4>3. a \in Named /\ pc[a] \in {"idle", "viewing"} /\ granted' = granted /\ prs' = prs
        BY <2>2, <3>1 DEF Ask, Acceptable
      <4>4. a \notin granted /\ \A n \in DOMAIN prs : prs[n].by # a
        BY <4>3 DEF AccountInv
      <4>5. QED BY <4>1, <4>2, <4>3, <4>4 DEF Mine, Places
    <3>2. CASE ~Acceptable(a)
      <4>1. /\ UNCHANGED <<picked, left, granted, prs>>
            /\ pc'[a] = "refused" /\ pc[a] \in {"idle", "viewing"}
        BY <2>2, <3>2 DEF Ask, TypeOK
      <4>2. QED BY <4>1 DEF Mine, AccountInv, Places
    <3>3. QED BY <3>1, <3>2
  <2>3. ASSUME Grant(a) PROVE Mine(a)'
    <3>1. pc'[a] \in {"create", "failed"} /\ pc[a] = "granting"
      BY <2>3, GotoMoves DEF Grant, Nodes
    <3>2. DOMAIN picked[a] # {}
      BY <3>1 DEF TypeOK, AccountInv
    <3>3. UNCHANGED <<picked, left, prs>> /\ granted' = granted \cup {a}
      BY <2>3 DEF Grant
    <3>4. QED BY <3>1, <3>2, <3>3 DEF Mine, AccountInv, Places
  <2>4. ASSUME CreateBranch(a) PROVE Mine(a)'
    <3>1. pc'[a] \in {"commit", "failed"} /\ pc[a] = "create"
      BY <2>4, GotoMoves DEF CreateBranch, Nodes
    <3>2. UNCHANGED <<picked, left, prs, granted>>
      BY <2>4 DEF CreateBranch
    <3>3. QED BY <3>1, <3>2 DEF Mine, AccountInv, Places
  <2>5. ASSUME CommitFix(a) PROVE Mine(a)'
    <3>1. /\ pc[a] = "commit" /\ left' = [left EXCEPT ![a] = @ \ {FirstLeft(a)}]
          /\ Goto(a, IF left[a] = {FirstLeft(a)} THEN "open" ELSE "commit")
          /\ UNCHANGED <<picked, granted, prs>>
      BY <2>5 DEF CommitFix
    <3>2. pc'[a] \in {IF left[a] = {FirstLeft(a)} THEN "open" ELSE "commit", "failed"}
      <4>1. (IF left[a] = {FirstLeft(a)} THEN "open" ELSE "commit") \in Nodes
        BY DEF Nodes
      <4>2. QED BY <3>1, <4>1, GotoMoves
    <3>3. pc'[a] = "open" => left'[a] = {}
      BY <3>1, <3>2 DEF TypeOK
    <3>4. pc'[a] \in {"open", "commit", "failed"}
      BY <3>2
    <3>5. QED BY <3>1, <3>3, <3>4 DEF Mine, AccountInv, Places
  <2>6. ASSUME OpenPr(a) PROVE Mine(a)'
    <3>1. pc'[a] \in {"mark", "failed"} /\ pc[a] = "open"
      BY <2>6, GotoMoves DEF OpenPr, Nodes
    <3>2. UNCHANGED <<picked, left, granted>>
      BY <2>6 DEF OpenPr
    <3>3. QED BY <3>1, <3>2 DEF Mine, AccountInv, Places
  <2>7. ASSUME Mark(a) PROVE Mine(a)'
    <3>1. pc'[a] \in {"done", "failed"}
      BY <2>7, GotoMoves DEF Mark, Nodes
    <3>2. UNCHANGED <<picked, left, granted, prs>>
      BY <2>7 DEF Mark
    <3>3. QED BY <3>1, <3>2 DEF Mine, AccountInv, Places
  <2>8. ASSUME Fail(a) PROVE Mine(a)'
    <3>1. pc'[a] = "failed" /\ UNCHANGED <<picked, left, granted, prs>>
      BY <2>8 DEF Fail, TypeOK
    <3>2. QED BY <3>1 DEF Mine, AccountInv, Places
  <2>9. QED BY <1>5, <2>0, <2>1, <2>2, <2>3, <2>4, <2>5, <2>6, <2>7, <2>8
<1>6. CASE SaveRow \/ EndScan \/ UNCHANGED vars
  BY <1>3, <1>6 DEF SaveRow, EndScan, vars, avars
<1>7. QED BY <1>4, <1>5, <1>6 DEF Next

-----------------------------------------------------------------------------
(* The branch: one approval at a time writes to it, from its creation to   *)
(* its pull request.                                                       *)

Committed(a) == DOMAIN picked[a] \ left[a]

\* What an approval that is writing finds on the branch: its own fixes up to the
\* next one.
OwnsBranch(a) ==
  /\ branch.live /\ ~HasOpenPr
  /\ branch.tree = TreeOf(picked[a], Committed(a))
  /\ branch.fixes = {picked[a][f].row : f \in Committed(a)}
  /\ \A f \in Committed(a), g \in left[a] : picked[a][f].place < picked[a][g].place

BranchInv ==
  /\ \A a, b \in Writing : a = b
  /\ \A a \in Writing : OwnsBranch(a)
  /\ HasOpenPr => branch.live

\* A tree with one more fix, committed last, is the tree with its file replaced.
LEMMA CommitExtendsTree ==
  ASSUME NEW offer, NEW C, NEW f, f \notin C,
         offer[f].place \in Nat,
         \A g \in C : offer[g].place \in Nat /\ offer[g].place < offer[f].place
  PROVE  TreeOf(offer, C \cup {f}) = [TreeOf(offer, C) EXCEPT ![FileOf[f]] = offer[f].row]
<1> DEFINE D == C \cup {f}
           Here(fs, file) == {g \in fs : FileOf[g] = file}
           At(fs, file) ==
             IF Here(fs, file) = {} THEN 0
             ELSE LET last == CHOOSE g \in Here(fs, file) :
                                \A h \in Here(fs, file) : offer[h].place <= offer[g].place
                  IN offer[last].row
<1>1. TreeOf(offer, C) = [file \in Files |-> At(C, file)]
  BY Zenon DEF TreeOf
<1>2. TreeOf(offer, D) = [file \in Files |-> At(D, file)]
  BY Zenon DEF TreeOf
<1>3. ASSUME NEW file \in Files, file # FileOf[f] PROVE At(D, file) = At(C, file)
  <2>1. Here(D, file) = Here(C, file)
    BY <1>3
  <2> HIDE DEF Here, D
  <2>2. QED BY <2>1
<1>4. At(D, FileOf[f]) = offer[f].row
  <2> DEFINE H == Here(D, FileOf[f])
  <2>1. f \in H
    OBVIOUS
  <2>2. \A h \in H : offer[h].place <= offer[f].place
    OBVIOUS
  <2>3. ASSUME NEW g \in H, \A h \in H : offer[h].place <= offer[g].place
        PROVE  g = f
    <3>1. offer[f].place <= offer[g].place
      BY <2>1, <2>3
    <3>2. CASE g \in C
      <4>1. offer[g].place \in Nat /\ offer[g].place < offer[f].place
        BY <3>2
      <4>2. QED BY <3>1, <4>1
    <3>3. QED BY <3>2
  <2> HIDE DEF H
  <2>4. (CHOOSE g \in H : \A h \in H : offer[h].place <= offer[g].place) = f
    BY <2>1, <2>2, <2>3, Zenon
  <2>5. H # {}
    BY <2>1
  <2>6. QED BY <2>4, <2>5, Zenon DEF H
<1> HIDE DEF At
<1>5. [file \in Files |-> At(D, file)] = [[file \in Files |-> At(C, file)] EXCEPT ![FileOf[f]] = offer[f].row]
  BY <1>3, <1>4
<1>6. QED BY <1>1, <1>2, <1>5

\* No step takes the branch from under an approval or lets a second one in.
LEMMA NextKeepsBranch ==
  ASSUME TypeOK, AccountInv, BranchInv, [Next]_vars
  PROVE  BranchInv'
<1>1. ASSUME UNCHANGED <<picked, left, branch, prs>>, Writing' \subseteq Writing
      PROVE  BranchInv'
  <2>1. \A a \in Writing : OwnsBranch(a) => OwnsBranch(a)'
    BY <1>1 DEF OwnsBranch, Committed, HasOpenPr
  <2>2. HasOpenPr' <=> HasOpenPr
    BY <1>1 DEF HasOpenPr
  <2>3. QED BY <1>1, <2>1, <2>2 DEF BranchInv
<1>2. CASE SaveRow \/ EndScan \/ UNCHANGED vars
  BY <1>1, <1>2 DEF SaveRow, EndScan, vars, avars, Writing
<1>3. ASSUME NEW a \in Approvals, View(a) \/ Fail(a) PROVE BranchInv'
  <2>1. Writing' \subseteq Writing
    BY <1>3 DEF View, Fail, Writing, TypeOK
  <2>2. QED BY <1>1, <1>3, <2>1 DEF View, Fail
<1>4. ASSUME NEW a \in Approvals, Ask(a) PROVE BranchInv'
  <2>1. /\ \A b \in Approvals : b # a => UNCHANGED <<pc[b], picked[b], left[b]>>
        /\ pc'[a] \in {"granting", "refused"} /\ UNCHANGED <<branch, prs>>
    BY <1>4 DEF Ask, TypeOK
  <2>2. \A b \in Writing' : b \in Writing /\ b # a
    BY <2>1 DEF Writing
  <2>3. \A b \in Writing' : OwnsBranch(b) => OwnsBranch(b)'
    <3> SUFFICES ASSUME NEW b \in Writing', OwnsBranch(b) PROVE OwnsBranch(b)'
      OBVIOUS
    <3>1. b \in Approvals /\ UNCHANGED <<picked[b], left[b], branch, prs>>
      BY <2>1, <2>2 DEF Writing
    <3>2. Committed(b)' = Committed(b)
      BY <3>1 DEF Committed
    <3>3. QED BY <3>1, <3>2 DEF OwnsBranch, HasOpenPr
  <2>4. HasOpenPr' <=> HasOpenPr
    BY <2>1 DEF HasOpenPr
  <2>5. QED BY <2>1, <2>2, <2>3, <2>4 DEF BranchInv
<1>5. ASSUME NEW a \in Approvals, Grant(a) \/ Mark(a) PROVE BranchInv'
  <2>1. /\ pc'[a] \in {"create", "done", "failed"}
        /\ \A b \in Approvals : b # a => pc'[b] = pc[b]
    BY <1>5, GotoMoves DEF Grant, Mark, Nodes
  <2>2. Writing' \subseteq Writing
    BY <2>1 DEF Writing
  <2>3. QED BY <1>1, <1>5, <2>2 DEF Grant, Mark
<1>6. ASSUME NEW a \in Approvals, CreateBranch(a) PROVE BranchInv'
  <2>1. /\ pc'[a] \in {"commit", "failed"} /\ pc[a] = "create"
        /\ \A b \in Approvals : b # a => pc'[b] = pc[b]
    BY <1>6, GotoMoves DEF CreateBranch, Nodes
  <2>2. Writing = {} /\ ~HasOpenPr
    BY <1>6 DEF CreateBranch, BranchInv, OwnsBranch
  <2>3. Writing' \subseteq {a}
    BY <2>1, <2>2 DEF Writing
  <2>4. /\ branch' = [live |-> TRUE, tree |-> Untouched, fixes |-> {}]
        /\ UNCHANGED <<picked, left, prs>>
    BY <1>6, Zenon DEF CreateBranch
  <2>5. Committed(a)' = {}
    BY <2>1, <2>4 DEF Committed, AccountInv
  <2>6. TreeOf(picked[a], {}) = Untouched
    BY DEF TreeOf, Untouched
  <2>7. OwnsBranch(a)'
    BY <2>2, <2>4, <2>5, <2>6 DEF OwnsBranch, HasOpenPr
  <2>8. QED BY <2>2, <2>3, <2>4, <2>7 DEF BranchInv, HasOpenPr
<1>7. ASSUME NEW a \in Approvals, CommitFix(a) PROVE BranchInv'
  <2> DEFINE f == FirstLeft(a)
  <2>1. /\ pc[a] = "commit" /\ left[a] # {}
        /\ left' = [left EXCEPT ![a] = @ \ {f}]
        /\ Goto(a, IF left[a] = {f} THEN "open" ELSE "commit")
        /\ branch' = [branch EXCEPT !.tree[FileOf[f]] = picked[a][f].row,
                                    !.fixes = @ \cup {picked[a][f].row}]
        /\ UNCHANGED <<picked, prs>>
    BY <1>7 DEF CommitFix, TypeOK
  <2>2. /\ f \in left[a] /\ f \in DOMAIN picked[a] /\ picked[a][f] \in Fixes
        /\ \A g \in left[a] : picked[a][f].place <= picked[a][g].place
    BY <2>1, FirstLeftIsFirst DEF TypeOK
  <2>3. \A b \in Approvals : b # a => pc'[b] = pc[b]
    <3>1. (IF left[a] = {f} THEN "open" ELSE "commit") \in Nodes
      BY DEF Nodes
    <3>2. QED BY <2>1, <3>1, GotoMoves
  <2>4. a \in Writing /\ Writing' \subseteq {a}
    BY <2>1, <2>3 DEF Writing, BranchInv
  <2>5. OwnsBranch(a)
    BY <2>4 DEF BranchInv
  <2>6. Committed(a)' = Committed(a) \cup {f} /\ f \notin Committed(a) /\ left'[a] = left[a] \ {f}
    BY <2>1, <2>2 DEF Committed, TypeOK
  <2>7. /\ \A g \in DOMAIN picked[a] : picked[a][g].place \in Nat
        /\ \A g \in left[a] \ {f} : picked[a][f].place < picked[a][g].place
    <3>1. PICK fs \in SUBSET Findings : picked[a] \in [fs -> Fixes]
      BY DEF TypeOK, Offers
    <3>2. \A g \in DOMAIN picked[a] : picked[a][g].place \in Nat
      BY <3>1 DEF Fixes
    <3>3. \A g \in left[a] \ {f} : picked[a][g].place # picked[a][f].place
      BY <2>2 DEF AccountInv, Places, TypeOK
    <3>4. left[a] \subseteq DOMAIN picked[a]
      BY DEF TypeOK
    <3>5. QED BY <2>2, <3>2, <3>3, <3>4
  <2>8. branch'.tree = TreeOf(picked[a], Committed(a) \cup {f})
    <3>1. \A g \in Committed(a) : picked[a][g].place \in Nat /\ picked[a][g].place < picked[a][f].place
      BY <2>2, <2>5, <2>7 DEF OwnsBranch, Committed
    <3>2. TreeOf(picked[a], Committed(a) \cup {f})
            = [TreeOf(picked[a], Committed(a)) EXCEPT ![FileOf[f]] = picked[a][f].row]
      BY <2>2, <2>6, <2>7, <3>1, CommitExtendsTree
    <3>3. branch'.tree = [branch.tree EXCEPT ![FileOf[f]] = picked[a][f].row]
      BY <2>1 DEF TypeOK
    <3>4. QED BY <2>5, <3>2, <3>3 DEF OwnsBranch
  <2>9. /\ branch'.live = branch.live
        /\ branch'.fixes = branch.fixes \cup {picked[a][f].row}
    BY <2>1 DEF TypeOK
  <2>10. \A g \in Committed(a)', h \in left'[a] : picked[a][g].place < picked[a][h].place
    BY <2>5, <2>6, <2>7 DEF OwnsBranch
  <2> HIDE DEF f
  <2>11. OwnsBranch(a)'
    <3>1. branch'.fixes = {picked[a][g].row : g \in Committed(a) \cup {f}}
      BY <2>5, <2>9 DEF OwnsBranch
    <3>2. QED BY <2>1, <2>5, <2>6, <2>8, <2>9, <2>10, <3>1 DEF OwnsBranch, HasOpenPr
  <2>12. HasOpenPr' <=> HasOpenPr
    BY <2>1 DEF HasOpenPr
  <2>13. QED BY <2>4, <2>5, <2>9, <2>11, <2>12 DEF BranchInv, OwnsBranch
<1>8. ASSUME NEW a \in Approvals, OpenPr(a) PROVE BranchInv'
  <2>1. /\ pc'[a] \in {"mark", "failed"} /\ pc[a] = "open"
        /\ \A b \in Approvals : b # a => pc'[b] = pc[b]
    BY <1>8, GotoMoves DEF OpenPr, Nodes
  <2>2. Writing' = {}
    BY <2>1 DEF Writing, BranchInv
  <2>3. branch.live /\ branch' = branch
    BY <1>8 DEF OpenPr
  <2>4. QED BY <2>2, <2>3 DEF BranchInv
<1>9. CASE Merge
  <2>1. PICK n \in DOMAIN prs : prs[n].state = "open" /\ prs' = [prs EXCEPT ![n].state = "merged"]
    BY <1>9 DEF Merge
  <2>2. HasOpenPr
    BY <2>1 DEF HasOpenPr
  <2>3. Writing = {} /\ branch.live
    BY <2>2 DEF BranchInv, OwnsBranch
  <2>4. Writing' = {} /\ branch' = branch
    BY <1>9, <2>3 DEF Merge, avars, Writing
  <2>5. QED BY <2>3, <2>4 DEF BranchInv
<1>10. CASE DeleteBranch
  <2>1. Writing' = {}
    BY <1>10 DEF DeleteBranch, Writing, avars
  <2>2. ~HasOpenPr'
    BY <1>10 DEF DeleteBranch, HasOpenPr
  <2>3. QED BY <2>1, <2>2 DEF BranchInv
<1>11. QED
  BY <1>2, <1>3, <1>4, <1>5, <1>6, <1>7, <1>8, <1>9, <1>10 DEF Next

\* The accounts and the branch stay in order.
LEMMA GateInvariant == Spec => [](TypeOK /\ AccountInv /\ BranchInv)
<1>1. Init => TypeOK /\ AccountInv /\ BranchInv
  <2>1. Init => AccountInv
    BY DEF Init, AccountInv, Places, NoFixes
  <2>2. Init => BranchInv
    BY DEF Init, BranchInv, Writing, HasOpenPr
  <2>3. Init => TypeOK
    BY InitHasTypes
  <2>4. QED BY <2>1, <2>2, <2>3
<1>2. TypeOK /\ AccountInv /\ BranchInv /\ [Next]_vars => (TypeOK /\ AccountInv /\ BranchInv)'
  BY StepKeepsTypes, NextKeepsAccounts, NextKeepsBranch
<1>3. QED BY <1>1, <1>2, PTL DEF Spec

-----------------------------------------------------------------------------
(* What this means for the pull requests.                                  *)

\* The pull request that an approval opens, and nothing else, is new.
LEMMA PrsGrow ==
  ASSUME TypeOK, NEW a \in Approvals, OpenPr(a)
  PROVE  /\ Len(prs) \in Nat /\ DOMAIN prs = 1..Len(prs) /\ DOMAIN prs' = 1..(Len(prs) + 1)
         /\ prs'[Len(prs) + 1] = [by |-> a, state |-> "open", tree |-> branch.tree, fixes |-> branch.fixes]
         /\ \A n \in DOMAIN prs : prs'[n] = prs[n]
<1>1. /\ prs \in Seq([by : Approvals, state : {"open", "merged", "closed"}, tree : Trees,
                      fixes : SUBSET (1..MaxRows)])
      /\ prs' = Append(prs, [by |-> a, state |-> "open", tree |-> branch.tree, fixes |-> branch.fixes])
  BY DEF OpenPr, TypeOK
<1>2. QED BY <1>1

\* Merging and deleting change only the states of pull requests.
LEMMA PrsStay ==
  ASSUME Merge \/ DeleteBranch
  PROVE  /\ DOMAIN prs' = DOMAIN prs
         /\ \A n \in DOMAIN prs :
              /\ prs'[n].by = prs[n].by /\ prs'[n].tree = prs[n].tree /\ prs'[n].fixes = prs[n].fixes
              /\ prs'[n].state = "open" => prs[n].state = "open"
<1>1. CASE Merge
  <2>1. PICK n \in DOMAIN prs : prs' = [prs EXCEPT ![n].state = "merged"]
    BY <1>1 DEF Merge
  <2>2. QED BY <2>1
<1>2. CASE DeleteBranch
  BY <1>2 DEF DeleteBranch
<1>3. QED BY <1>1, <1>2

\* An open pull request stays what it was when it was opened.
THEOREM OpenPrsFrozen == Spec => []OpenPrIsFrozen
<1>1. Init => OpenPrIsFrozen
  BY DEF Init, OpenPrIsFrozen
<1>2. TypeOK /\ AccountInv /\ BranchInv /\ OpenPrIsFrozen /\ [Next]_vars => OpenPrIsFrozen'
  <2> SUFFICES ASSUME TypeOK, AccountInv, BranchInv, OpenPrIsFrozen, [Next]_vars
               PROVE  OpenPrIsFrozen'
    OBVIOUS
  <2>1. CASE UNCHANGED <<branch, prs>>
    BY <2>1 DEF OpenPrIsFrozen
  <2>2. ASSUME NEW a \in Approvals, CreateBranch(a) \/ CommitFix(a) PROVE OpenPrIsFrozen'
    <3>1. ~HasOpenPr /\ prs' = prs
      BY <2>2 DEF CreateBranch, CommitFix, BranchInv, OwnsBranch, Writing
    <3>2. QED BY <3>1 DEF OpenPrIsFrozen, HasOpenPr
  <2>3. ASSUME NEW a \in Approvals, OpenPr(a) PROVE OpenPrIsFrozen'
    <3>1. branch.live /\ ~HasOpenPr /\ branch' = branch
      BY <2>3 DEF OpenPr
    <3>2. /\ Len(prs) \in Nat /\ DOMAIN prs = 1..Len(prs) /\ DOMAIN prs' = 1..(Len(prs) + 1)
          /\ prs'[Len(prs) + 1] = [by |-> a, state |-> "open", tree |-> branch.tree, fixes |-> branch.fixes]
          /\ \A n \in DOMAIN prs : prs'[n] = prs[n]
      BY <2>3, PrsGrow, Zenon
    <3>3. \A n \in DOMAIN prs : prs'[n].state # "open"
      BY <3>1, <3>2 DEF HasOpenPr
    <3>4. \A n \in DOMAIN prs' : n \in DOMAIN prs \/ n = Len(prs) + 1
      BY <3>2
    <3>5. QED BY <3>1, <3>2, <3>3, <3>4 DEF OpenPrIsFrozen
  <2>4. CASE Merge
    <3>1. branch' = branch
      BY <2>4 DEF Merge
    <3>2. QED BY <2>4, <3>1, PrsStay DEF OpenPrIsFrozen
  <2>5. CASE DeleteBranch
    <3>1. \A n \in DOMAIN prs' : prs'[n].state # "open"
      BY <2>5 DEF DeleteBranch
    <3>2. QED BY <3>1 DEF OpenPrIsFrozen
  <2>6. SaveRow \/ EndScan \/ UNCHANGED vars => UNCHANGED <<branch, prs>>
    BY DEF SaveRow, EndScan, vars
  <2>7. \A a \in Approvals : View(a) \/ Ask(a) \/ Grant(a) \/ Mark(a) \/ Fail(a) => UNCHANGED <<branch, prs>>
    BY DEF View, Ask, Grant, Mark, Fail
  <2>8. QED BY <2>1, <2>2, <2>3, <2>4, <2>5, <2>6, <2>7 DEF Next
<1>3. QED BY <1>1, <1>2, GateInvariant, PTL DEF Spec

\* Who is about to mark rows has a pull request with them.
MarkersHavePr ==
  \A a \in Approvals : pc[a] = "mark" =>
    \E n \in DOMAIN prs : {picked[a][f].row : f \in DOMAIN picked[a]} \subseteq prs[n].fixes

\* No row is marked pr_opened without a pull request that holds it.
THEOREM OpenedRowsInPrs == Spec => []OpenedRowsAreInPr
<1>1. Init => OpenedRowsAreInPr /\ MarkersHavePr
  BY DEF Init, OpenedRowsAreInPr, MarkersHavePr
<1>2. TypeOK /\ AccountInv /\ BranchInv /\ OpenedRowsAreInPr /\ MarkersHavePr /\ [Next]_vars
        => OpenedRowsAreInPr' /\ MarkersHavePr'
  <2> SUFFICES ASSUME TypeOK, AccountInv, BranchInv, OpenedRowsAreInPr, MarkersHavePr, [Next]_vars
               PROVE  OpenedRowsAreInPr' /\ MarkersHavePr'
    OBVIOUS
  <2>1. ASSUME UNCHANGED rows, DOMAIN prs \subseteq DOMAIN prs',
               \A n \in DOMAIN prs : prs'[n].fixes = prs[n].fixes
        PROVE  OpenedRowsAreInPr'
    BY <2>1 DEF OpenedRowsAreInPr
  <2>2. ASSUME DOMAIN prs \subseteq DOMAIN prs', \A n \in DOMAIN prs : prs'[n].fixes = prs[n].fixes,
               NEW a \in Approvals, pc'[a] = "mark", pc[a] = "mark", picked'[a] = picked[a]
        PROVE  \E n \in DOMAIN prs' : {picked'[a][f].row : f \in DOMAIN picked'[a]} \subseteq prs'[n].fixes
    BY <2>2 DEF MarkersHavePr
  <2>3. CASE SaveRow
    <3>1. PICK f \in Findings, status \in {"verified", "failed_verification"} :
            rows' = Append(rows, [fp |-> f, status |-> status])
      BY <2>3 DEF SaveRow
    <3>2. prs' = prs /\ UNCHANGED <<pc, picked>>
      BY <2>3 DEF SaveRow, avars
    <3>3. \A i \in DOMAIN rows' : rows'[i].status = "pr_opened" => i \in DOMAIN rows /\ rows[i] = rows'[i]
      BY <3>1 DEF TypeOK
    <3>4. QED BY <2>2, <3>2, <3>3 DEF OpenedRowsAreInPr, MarkersHavePr
  <2>4. CASE EndScan \/ UNCHANGED vars
    <3>1. UNCHANGED <<rows, pc, picked, prs>>
      BY <2>4 DEF EndScan, vars, avars
    <3>2. QED BY <2>1, <3>1 DEF MarkersHavePr
  <2>5. CASE Merge \/ DeleteBranch
    <3>1. UNCHANGED <<rows, pc, picked>>
      BY <2>5 DEF Merge, DeleteBranch, avars
    <3>2. QED BY <2>1, <2>2, <2>5, <3>1, PrsStay DEF MarkersHavePr
  <2>6. ASSUME NEW a \in Approvals, 
               View(a) \/ Ask(a) \/ Grant(a) \/ CreateBranch(a) \/ CommitFix(a) \/ Fail(a)
        PROVE  OpenedRowsAreInPr' /\ MarkersHavePr'
    <3>1. UNCHANGED <<rows, prs>>
      BY <2>6 DEF View, Ask, Grant, CreateBranch, CommitFix, Fail
    <3>2. \A b \in Approvals : pc'[b] = "mark" => pc[b] = "mark" /\ picked'[b] = picked[b]
      <4>1. CASE Grant(a)
        BY <4>1, GotoMoves DEF Grant, Nodes
      <4>2. CASE CreateBranch(a)
        BY <4>2, GotoMoves DEF CreateBranch, Nodes
      <4>3. CASE CommitFix(a)
        <5>1. \E node \in Nodes : Goto(a, node) /\ node # "mark"
          BY <4>3 DEF CommitFix, Nodes
        <5>2. picked' = picked
          BY <4>3 DEF CommitFix
        <5>3. QED BY <5>1, <5>2, GotoMoves
      <4>4. CASE View(a) \/ Ask(a) \/ Fail(a)
        BY <4>4 DEF View, Ask, Fail, TypeOK
      <4>5. QED BY <2>6, <4>1, <4>2, <4>3, <4>4
    <3>3. QED BY <2>1, <2>2, <3>1, <3>2 DEF MarkersHavePr
  <2>7. ASSUME NEW a \in Approvals, OpenPr(a) PROVE OpenedRowsAreInPr' /\ MarkersHavePr'
    <3>1. /\ pc[a] = "open" /\ UNCHANGED <<rows, picked>>
          /\ \A b \in Approvals : b # a => pc'[b] = pc[b]
      BY <2>7, GotoMoves DEF OpenPr, Nodes
    <3>2. branch.fixes = {picked[a][f].row : f \in DOMAIN picked[a]}
      <4>1. OwnsBranch(a) /\ left[a] = {}
        BY <3>1 DEF BranchInv, AccountInv, Writing
      <4>2. Committed(a) = DOMAIN picked[a]
        BY <4>1 DEF Committed
      <4>3. QED BY <4>1, <4>2 DEF OwnsBranch
    <3>0. /\ Len(prs) \in Nat /\ DOMAIN prs = 1..Len(prs) /\ DOMAIN prs' = 1..(Len(prs) + 1)
          /\ prs'[Len(prs) + 1] = [by |-> a, state |-> "open", tree |-> branch.tree, fixes |-> branch.fixes]
          /\ \A n \in DOMAIN prs : prs'[n] = prs[n]
      BY <2>7, PrsGrow, Zenon
    <3>3. Len(prs) + 1 \in DOMAIN prs' /\ prs'[Len(prs) + 1].fixes = branch.fixes
      BY <3>0
    <3>4. DOMAIN prs \subseteq DOMAIN prs' /\ \A n \in DOMAIN prs : prs'[n].fixes = prs[n].fixes
      BY <3>0
    <3>5. \A b \in Approvals : pc'[b] = "mark" =>
            \E n \in DOMAIN prs' : {picked'[b][f].row : f \in DOMAIN picked'[b]} \subseteq prs'[n].fixes
      BY <2>2, <3>1, <3>2, <3>3, <3>4
    <3>6. QED BY <2>1, <3>1, <3>4, <3>5 DEF MarkersHavePr
  <2>8. ASSUME NEW a \in Approvals, Mark(a) PROVE OpenedRowsAreInPr' /\ MarkersHavePr'
    <3>1. /\ pc[a] = "mark" /\ pc'[a] # "mark" /\ UNCHANGED <<picked, prs>>
          /\ \A b \in Approvals : b # a => pc'[b] = pc[b]
      BY <2>8, GotoMoves DEF Mark, Nodes
    <3> DEFINE ids == {picked[a][f].row : f \in DOMAIN picked[a]}
    <3>2. rows' = [i \in DOMAIN rows |->
                     IF i \in ids THEN [rows[i] EXCEPT !.status = "pr_opened"] ELSE rows[i]]
      BY <2>8 DEF Mark
    <3>3. PICK n \in DOMAIN prs : ids \subseteq prs[n].fixes
      BY <3>1 DEF MarkersHavePr
    <3> HIDE DEF ids
    <3>4. OpenedRowsAreInPr'
      BY <3>1, <3>2, <3>3 DEF OpenedRowsAreInPr
    <3>5. MarkersHavePr'
      BY <2>2, <3>1 DEF MarkersHavePr
    <3>6. QED BY <3>4, <3>5
  <2>9. QED BY <2>3, <2>4, <2>5, <2>6, <2>7, <2>8 DEF Next
<1>3. QED BY <1>1, <1>2, GateInvariant, PTL DEF Spec

\* Every behaviour is one of the gate: an approval by name, and for it at most
\* one pull request, with all of its fixes and no others.
THEOREM ApprovalImplementsGate == Spec => ImplementsFixGate
<1>1. Init => Gate!Init
  BY DEF Init, Gate!Init
<1>2. TypeOK /\ AccountInv /\ BranchInv /\ [Next]_vars => [Gate!Next]_(Gate!gvars)
  <2> SUFFICES ASSUME TypeOK, AccountInv, BranchInv, [Next]_vars
               PROVE  Gate!Next \/ UNCHANGED Gate!gvars
    OBVIOUS
  <2> DEFINE grants == [a \in Approvals |-> IF a \in granted THEN picked[a] ELSE NoFixes]
             spent == {prs[n].by : n \in DOMAIN prs}
             opened == [n \in DOMAIN prs |-> prs[n].tree]
  <2>1. CASE SaveRow \/ EndScan \/ UNCHANGED vars
    BY <2>1 DEF SaveRow, EndScan, vars, avars, Gate!gvars
  <2>2. CASE Merge \/ DeleteBranch
    <3>1. UNCHANGED <<granted, picked>>
      BY <2>2 DEF Merge, DeleteBranch, avars
    <3>2. UNCHANGED grants
      BY <3>1
    <3>3. UNCHANGED spent
      BY <2>2, PrsStay
    <3>4. UNCHANGED opened
      BY <2>2, PrsStay
    <3>5. QED BY <3>2, <3>3, <3>4 DEF Gate!gvars
  <2>3. ASSUME NEW a \in Approvals, View(a) \/ CreateBranch(a) \/ CommitFix(a) \/ Mark(a) \/ Fail(a)
        PROVE  UNCHANGED Gate!gvars
    <3>1. UNCHANGED <<granted, picked, prs>>
      BY <2>3 DEF View, CreateBranch, CommitFix, Mark, Fail
    <3>2. QED BY <3>1 DEF Gate!gvars
  <2>4. ASSUME NEW a \in Approvals, Ask(a) PROVE UNCHANGED Gate!gvars
    <3>1. UNCHANGED <<granted, prs>> /\ a \notin granted
      BY <2>4 DEF Ask, AccountInv
    <3>2. \A b \in Approvals : b # a => picked'[b] = picked[b]
      BY <2>4 DEF Ask, TypeOK
    <3>3. UNCHANGED grants
      BY <3>1, <3>2
    <3>4. QED BY <3>1, <3>3 DEF Gate!gvars
  <2>5. ASSUME NEW a \in Approvals, Grant(a) PROVE Gate!Next
    <3>1. a \in Named /\ a \notin granted /\ granted' = granted \cup {a} /\ UNCHANGED <<picked, prs>>
      BY <2>5 DEF Grant, AccountInv
    <3>2. grants[a] = NoFixes /\ picked[a] \in Offers
      BY <3>1 DEF TypeOK
    <3>3. grants' = [grants EXCEPT ![a] = picked[a]]
      BY <3>1
    <3>4. Gate!Grant(a)
      BY <3>1, <3>2, <3>3 DEF Gate!Grant
    <3>5. QED BY <3>4 DEF Gate!Next
  <2>6. ASSUME NEW a \in Approvals, OpenPr(a) PROVE Gate!Next
    <3>1. pc[a] = "open" /\ UNCHANGED <<granted, picked>> /\ left[a] = {} /\ a \in granted
      BY <2>6 DEF OpenPr, AccountInv
    <3>2. grants[a] = picked[a] /\ grants[a] # NoFixes /\ a \notin spent
      BY <3>1 DEF AccountInv, NoFixes
    <3>3. branch.tree = WholeTree(picked[a])
      <4>1. OwnsBranch(a)
        BY <3>1 DEF BranchInv, Writing
      <4>2. Committed(a) = DOMAIN picked[a]
        BY <3>1 DEF Committed
      <4>3. QED BY <4>1, <4>2 DEF OwnsBranch, WholeTree
    <3> DEFINE n == Len(prs)
    <3>4. /\ n \in Nat /\ DOMAIN prs = 1..n /\ DOMAIN prs' = 1..(n + 1)
          /\ prs'[n + 1].by = a /\ prs'[n + 1].tree = branch.tree
          /\ \A i \in 1..n : prs'[i] = prs[i]
      <4>1. /\ Len(prs) \in Nat /\ DOMAIN prs = 1..Len(prs) /\ DOMAIN prs' = 1..(Len(prs) + 1)
            /\ prs'[Len(prs) + 1] = [by |-> a, state |-> "open", tree |-> branch.tree, fixes |-> branch.fixes]
            /\ \A i \in DOMAIN prs : prs'[i] = prs[i]
        BY <2>6, PrsGrow, Zenon
      <4>2. QED BY <4>1
    <3> HIDE DEF n
    <3>5. spent' = spent \cup {a}
      BY <3>4
    <3>6. opened' = Append(opened, branch.tree)
      <4>1. opened \in [1..n -> Trees]
        <5>1. prs \in Seq([by : Approvals, state : {"open", "merged", "closed"}, tree : Trees,
                           fixes : SUBSET (1..MaxRows)])
          BY DEF TypeOK
        <5>2. \A i \in 1..n : prs[i].tree \in Trees
          <6> DEFINE Pr == [by : Approvals, state : {"open", "merged", "closed"}, tree : Trees,
                            fixes : SUBSET (1..MaxRows)]
          <6>1. \A p \in Pr : p.tree \in Trees
            OBVIOUS
          <6>2. prs \in Seq(Pr)
            BY <5>1
          <6> HIDE DEF Pr
          <6>3. DOMAIN prs = 1..Len(prs)
            BY <6>2, LenProperties
          <6>4. \A i \in 1..Len(prs) : prs[i] \in Pr
            BY <6>2, ElementOfSeq
          <6>5. QED BY <6>1, <6>3, <6>4, <3>4
        <5>3. QED BY <3>4, <5>2
      <4>2. opened \in Seq(Trees) /\ Len(opened) = n
        BY <3>4, <4>1, SeqDef
      <4>3. branch.tree \in Trees
        BY DEF TypeOK
      <4> DEFINE A == Append(opened, branch.tree)
      <4>4. /\ A \in Seq(Trees) /\ Len(A) = n + 1 /\ A[n + 1] = branch.tree
            /\ \A i \in 1..n : A[i] = opened[i]
        BY <4>2, <4>3, AppendProperties
      <4>5. /\ opened' \in [1..(n + 1) -> Trees] /\ opened'[n + 1] = branch.tree
            /\ \A i \in 1..n : opened'[i] = opened[i]
        <5>1. opened' = [i \in 1..(n + 1) |-> prs'[i].tree]
          BY <3>4
        <5>2. \A i \in 1..n : prs'[i].tree = opened[i]
          BY <3>4
        <5>3. \A i \in 1..(n + 1) : i \in 1..n \/ i = n + 1
          BY <3>4
        <5>4. QED BY <3>4, <4>1, <4>3, <5>1, <5>2, <5>3
      <4>6. opened' \in Seq(Trees) /\ Len(opened') = n + 1
        BY <3>4, <4>5, SeqDef
      <4>7. \A i \in 1..(n + 1) : A[i] = opened'[i]
        BY <3>4, <4>4, <4>5
      <4> HIDE DEF A, opened
      <4>8. QED BY <4>4, <4>6, <4>7, SeqEqual DEF A
    <3>7. UNCHANGED grants
      BY <3>1
    <3>8. Gate!Open(a)
      BY <3>2, <3>3, <3>5, <3>6, <3>7 DEF Gate!Open
    <3>9. QED BY <3>8 DEF Gate!Next
  <2>7. QED BY <2>1, <2>2, <2>3, <2>4, <2>5, <2>6 DEF Next
<1>3. QED BY <1>1, <1>2, GateInvariant, PTL DEF Spec, ImplementsFixGate, Gate!Spec
=============================================================================
