-------------------------- MODULE ScanPipeline_proofs --------------------------
(***************************************************************************)
(* Proofs about the scan, for whatever scanners and the LLM answer: that   *)
(* nothing is lost and that findings are merged for a reason, through both *)
(* correlations, that each gets a verdict, and that discoveries are new.   *)
(***************************************************************************)
EXTENDS ScanPipeline, SequenceTheorems, FiniteSetTheorems, TLAPS

-----------------------------------------------------------------------------
(* Sorting, by the number of elements that are before each.                *)

Before(S, before, i) == {j \in S : <<j, i>> \in before}

StrictOrder(S, before) ==
  /\ \A i \in S : <<i, i>> \notin before
  /\ \A i, j, k \in S : <<i, j>> \in before /\ <<j, k>> \in before => <<i, k>> \in before
  /\ \A i, j \in S : i = j \/ <<i, j>> \in before \/ <<j, i>> \in before

\* Of two elements in a strict order, more elements are before the later.
LEMMA RankGrows ==
  ASSUME NEW S, IsFiniteSet(S), NEW before, StrictOrder(S, before),
         NEW i \in S
  PROVE  /\ Cardinality(Before(S, before, i)) \in 0..(Cardinality(S) - 1)
         /\ \A j \in S : <<i, j>> \in before
              => Cardinality(Before(S, before, i)) < Cardinality(Before(S, before, j))
<1>1. ASSUME NEW j \in S
      PROVE  IsFiniteSet(Before(S, before, j)) /\ Cardinality(Before(S, before, j)) \in Nat
  <2>1. Before(S, before, j) \in SUBSET S
    BY DEF Before
  <2>2. IsFiniteSet(Before(S, before, j))
    BY <2>1, FS_Subset, Zenon
  <2>3. QED BY <2>2, FS_CardinalityType
<1>2. ASSUME NEW T, IsFiniteSet(T), Before(S, before, i) \subseteq T, i \in T
      PROVE  Cardinality(Before(S, before, i)) < Cardinality(T)
  <2>1. i \notin Before(S, before, i)
    BY DEF Before, StrictOrder
  <2>2. Cardinality(Before(S, before, i) \cup {i}) = Cardinality(Before(S, before, i)) + 1
    BY <1>1, <2>1, FS_AddElement
  <2>3. Before(S, before, i) \cup {i} \in SUBSET T
    BY <1>2
  <2>4. Cardinality(Before(S, before, i) \cup {i}) <= Cardinality(T)
    BY <1>2, <2>3, FS_Subset, Zenon
  <2>5. Cardinality(T) \in Nat
    BY <1>2, FS_CardinalityType
  <2>6. QED BY <1>1, <2>2, <2>4, <2>5
<1>3. Cardinality(Before(S, before, i)) < Cardinality(S)
  <2>1. Before(S, before, i) \subseteq S
    BY DEF Before
  <2>2. QED BY <1>2, <2>1
<1>4. ASSUME NEW j \in S, <<i, j>> \in before
      PROVE  Cardinality(Before(S, before, i)) < Cardinality(Before(S, before, j))
  <2>1. Before(S, before, i) \subseteq Before(S, before, j) /\ i \in Before(S, before, j)
    BY <1>4 DEF Before, StrictOrder
  <2>2. QED BY <1>1, <1>2, <2>1
<1>5. Cardinality(S) \in Nat
  BY FS_CardinalityType
<1>6. QED BY <1>1, <1>3, <1>4, <1>5

\* Enumerated lists each element of a set once, and in order.
LEMMA EnumeratedIs ==
  ASSUME NEW S, IsFiniteSet(S), NEW before, StrictOrder(S, before)
  PROVE  /\ Cardinality(S) \in Nat
         /\ Enumerated(S, before) \in [1..Cardinality(S) -> S]
         /\ \A i \in S : \E k \in 1..Cardinality(S) : Enumerated(S, before)[k] = i
         /\ \A k, l \in 1..Cardinality(S) : k < l
              => <<Enumerated(S, before)[k], Enumerated(S, before)[l]>> \in before
<1> DEFINE n == Cardinality(S)
           rank == [i \in S |-> Cardinality(Before(S, before, i))]
           e == Enumerated(S, before)
<1>1. n \in Nat
  BY FS_CardinalityType
<1>2. IsFiniteSet(0..(n - 1)) /\ Cardinality(0..(n - 1)) = n
  <2>1. 0 \in Int /\ n - 1 \in Int /\ (n - 1) - 0 + 1 = n
    BY <1>1
  <2>2. 0 > n - 1 => n = 0
    BY <1>1
  <2> HIDE DEF n
  <2>3. QED BY <2>1, <2>2, FS_Interval
<1>3. rank \in [S -> 0..(n - 1)]
  BY RankGrows
<1>4. \A i, j \in S : <<i, j>> \in before => rank[i] < rank[j]
  BY RankGrows
<1>5. \A i, j \in S : rank[i] = rank[j] => i = j
  <2> SUFFICES ASSUME NEW i \in S, NEW j \in S, rank[i] = rank[j]
               PROVE  i = j
    OBVIOUS
  <2>1. rank[i] \in Int /\ rank[j] \in Int
    BY <1>1, <1>3
  <2>2. <<i, j>> \notin before /\ <<j, i>> \notin before
    BY <1>4, <2>1
  <2>3. QED BY <2>2 DEF StrictOrder
<1>6. rank \in Injection(S, 0..(n - 1))
  BY <1>3, <1>5, Zenon DEF Injection, IsInjective
<1>7. rank \in Surjection(S, 0..(n - 1))
  BY <1>2, <1>6, FS_Injection
<1>8. ASSUME NEW k \in 1..n
      PROVE  e[k] \in S /\ rank[e[k]] = k - 1
  <2>1. k - 1 \in 0..(n - 1)
    BY <1>1
  <2>2. PICK i \in S : rank[i] = k - 1
    BY <1>7, <2>1, Zenon DEF Surjection
  <2>3. Cardinality({j \in S : <<j, i>> \in before}) = k - 1
    BY <2>2 DEF Before
  <2>4. e[k] = CHOOSE j \in S : Cardinality({l \in S : <<l, j>> \in before}) = k - 1
    BY Zenon DEF Enumerated
  <2>5. e[k] \in S /\ Cardinality({l \in S : <<l, e[k]>> \in before}) = k - 1
    BY <2>3, <2>4, Zenon
  <2>6. QED BY <2>5 DEF Before
<1>9. e \in [1..n -> S]
  BY <1>8, Zenon DEF Enumerated
<1>10. ASSUME NEW i \in S
       PROVE  \E k \in 1..n : e[k] = i
  <2>1. rank[i] \in 0..(n - 1)
    BY <1>3, Zenon
  <2>2. rank[i] + 1 \in 1..n /\ (rank[i] + 1) - 1 = rank[i]
    BY <1>1, <2>1
  <2>3. e[rank[i] + 1] \in S /\ rank[e[rank[i] + 1]] = rank[i]
    BY <1>8, <2>2
  <2>4. e[rank[i] + 1] = i
    BY <1>5, <2>3, Zenon
  <2>5. QED BY <2>2, <2>4, Zenon
<1>11. ASSUME NEW k \in 1..n, NEW l \in 1..n, k < l
       PROVE  <<e[k], e[l]>> \in before
  <2>1. e[k] \in S /\ rank[e[k]] = k - 1 /\ e[l] \in S /\ rank[e[l]] = l - 1
    BY <1>8
  <2>2. rank[e[k]] < rank[e[l]]
    BY <1>11, <2>1
  <2>3. e[k] # e[l] /\ ~(rank[e[l]] < rank[e[k]])
    BY <1>1, <1>11, <2>1, <2>2
  <2>4. QED BY <1>4, <2>1, <2>3, Zenon DEF StrictOrder
<1>12. QED BY <1>1, <1>9, <1>10, <1>11, Zenon

\* The numbers of a finite set in ascending order.
LEMMA InOrderIs ==
  ASSUME NEW ns, ns \subseteq Nat, IsFiniteSet(ns)
  PROVE  /\ Cardinality(ns) \in Nat
         /\ InOrder(ns) \in [1..Cardinality(ns) -> ns]
         /\ \A n \in ns : \E k \in 1..Cardinality(ns) : InOrder(ns)[k] = n
         /\ \A k, l \in 1..Cardinality(ns) : k < l => InOrder(ns)[k] < InOrder(ns)[l]
<1> DEFINE less == {p \in ns \X ns : p[1] < p[2]}
<1>1. \A i, j \in ns : <<i, j>> \in less <=> i < j
  OBVIOUS
<1>2. StrictOrder(ns, less)
  BY <1>1 DEF StrictOrder
<1>3. InOrder(ns) = Enumerated(ns, less)
  BY DEF InOrder
<1> HIDE DEF less
<1>4. /\ Cardinality(ns) \in Nat
      /\ InOrder(ns) \in [1..Cardinality(ns) -> ns]
      /\ \A n \in ns : \E k \in 1..Cardinality(ns) : InOrder(ns)[k] = n
      /\ \A k, l \in 1..Cardinality(ns) : k < l => <<InOrder(ns)[k], InOrder(ns)[l]>> \in less
  BY <1>2, <1>3, EnumeratedIs
<1>5. ASSUME NEW k \in 1..Cardinality(ns), NEW l \in 1..Cardinality(ns), k < l
      PROVE  InOrder(ns)[k] < InOrder(ns)[l]
  BY <1>1, <1>4, <1>5
<1>6. QED BY <1>4, <1>5, Zenon

LEMMA LeastAndGreatest ==
  ASSUME NEW ns, ns \subseteq Nat, IsFiniteSet(ns), ns # {}
  PROVE  /\ \E n \in ns : \A m \in ns : n <= m
         /\ MaxOf(ns) \in ns /\ \A m \in ns : m <= MaxOf(ns)
<1> DEFINE c == Cardinality(ns)
<1>1. /\ c \in Nat /\ InOrder(ns) \in [1..c -> ns]
      /\ \A n \in ns : \E k \in 1..c : InOrder(ns)[k] = n
      /\ \A k, l \in 1..c : k < l => InOrder(ns)[k] < InOrder(ns)[l]
  BY InOrderIs
<1> HIDE DEF c
<1>2. c >= 1
  <2>1. PICK n \in ns : TRUE
    OBVIOUS
  <2>2. PICK k \in 1..c : InOrder(ns)[k] = n
    BY <1>1, <2>1
  <2>3. QED BY <1>1, <2>2
<1>3. ASSUME NEW m \in ns
      PROVE  InOrder(ns)[1] <= m /\ m <= InOrder(ns)[c]
  <2>1. PICK k \in 1..c : InOrder(ns)[k] = m
    BY <1>1
  <2>2. 1 \in 1..c /\ c \in 1..c
    BY <1>1, <1>2
  <2>3. (k = 1 \/ 1 < k) /\ (k = c \/ k < c)
    BY <1>1, <2>1
  <2>4. InOrder(ns)[1] \in Nat /\ InOrder(ns)[c] \in Nat /\ m \in Nat
    BY <1>1, <2>2
  <2>5. QED BY <1>1, <2>1, <2>2, <2>3, <2>4
<1>4. InOrder(ns)[1] \in ns /\ InOrder(ns)[c] \in ns
  BY <1>1, <1>2
<1>5. \E n \in ns : \A m \in ns : m <= n
  BY <1>3, <1>4
<1>6. QED BY <1>3, <1>4, <1>5, Zenon DEF MaxOf

\* ElementsAt keeps what is at the given indices, and nothing else.
LEMMA ElementsAtIs ==
  ASSUME NEW T, NEW s \in Seq(T), NEW at \in SUBSET DOMAIN s
  PROVE  /\ IsFiniteSet(at) /\ Cardinality(at) \in Nat
         /\ ElementsAt(s, at) \in Seq(T) /\ Len(ElementsAt(s, at)) = Cardinality(at)
         /\ \A k \in DOMAIN ElementsAt(s, at) : \E i \in at : ElementsAt(s, at)[k] = s[i]
         /\ \A i \in at : \E k \in DOMAIN ElementsAt(s, at) : ElementsAt(s, at)[k] = s[i]
<1>1. DOMAIN s = 1..Len(s) /\ Len(s) \in Nat
  OBVIOUS
<1>2. IsFiniteSet(1..Len(s))
  BY <1>1, FS_Interval
<1>3. IsFiniteSet(at) /\ at \subseteq Nat
  BY <1>1, <1>2, FS_Subset
<1> DEFINE c == Cardinality(at)
           order == InOrder(at)
<1>4. /\ c \in Nat /\ order \in [1..c -> at]
      /\ \A n \in at : \E k \in 1..c : order[k] = n
  BY <1>3, InOrderIs
<1>5. ElementsAt(s, at) = [k \in DOMAIN order |-> s[order[k]]]
  BY DEF ElementsAt
<1> HIDE DEF c, order
<1>6. DOMAIN order = 1..c
  BY <1>4
<1>7. \A k \in 1..c : order[k] \in at /\ s[order[k]] \in T
  BY <1>1, <1>4
<1>8. ElementsAt(s, at) \in [1..c -> T] /\ \A k \in 1..c : ElementsAt(s, at)[k] = s[order[k]]
  BY <1>5, <1>6, <1>7
<1>9. ElementsAt(s, at) \in Seq(T) /\ Len(ElementsAt(s, at)) = c
  BY <1>4, <1>8
<1>10. DOMAIN ElementsAt(s, at) = 1..c
  BY <1>8
<1>11. \A i \in at : \E k \in DOMAIN ElementsAt(s, at) : ElementsAt(s, at)[k] = s[i]
  <2> SUFFICES ASSUME NEW i \in at PROVE \E k \in 1..c : ElementsAt(s, at)[k] = s[i]
    BY <1>10
  <2>1. PICK k \in 1..c : order[k] = i
    BY <1>4
  <2>2. QED BY <1>8, <2>1
<1>12. \A k \in DOMAIN ElementsAt(s, at) : \E i \in at : ElementsAt(s, at)[k] = s[i]
  BY <1>7, <1>8, <1>10
<1>13. QED BY <1>3, <1>4, <1>9, <1>11, <1>12, Zenon DEF c

\* A sort is a permutation, and what comes first is less than, or as far
\* ahead as, what comes later.
LEMMA StableSortIs ==
  ASSUME NEW T, NEW s \in Seq(T), NEW less, StrictOrder(DOMAIN s, Stably(s, less))
  PROVE  /\ StableSort(s, less) \in Seq(T) /\ Len(StableSort(s, less)) = Len(s)
         /\ \E order \in [DOMAIN s -> DOMAIN s] :
              /\ \A k \in DOMAIN s : StableSort(s, less)[k] = s[order[k]]
              /\ \A i \in DOMAIN s : \E k \in DOMAIN s : order[k] = i
              /\ \A k, l \in DOMAIN s : k < l => <<order[k], order[l]>> \in Stably(s, less)
              /\ \A k, l \in DOMAIN s : order[k] = order[l] => k = l
<1> DEFINE n == Len(s)
           before == Stably(s, less)
           order == Enumerated(DOMAIN s, before)
<1>1. DOMAIN s = 1..n /\ n \in Nat
  OBVIOUS
<1>2. IsFiniteSet(DOMAIN s) /\ Cardinality(DOMAIN s) = n
  BY <1>1, FS_Interval
<1>3. /\ order \in [1..n -> DOMAIN s]
      /\ \A i \in DOMAIN s : \E k \in 1..n : order[k] = i
      /\ \A k, l \in 1..n : k < l => <<order[k], order[l]>> \in before
  BY <1>2, EnumeratedIs
<1>4. StableSort(s, less) = [k \in DOMAIN order |-> s[order[k]]]
  BY DEF StableSort
<1>5. \A i \in DOMAIN s : <<i, i>> \notin before
  BY DEF StrictOrder
<1> HIDE DEF n, order, before
<1>6. StableSort(s, less) \in [1..n -> T]
  BY <1>1, <1>3, <1>4
<1>7. StableSort(s, less) \in Seq(T) /\ Len(StableSort(s, less)) = n
  BY <1>1, <1>6
<1>8. \A k, l \in 1..n : order[k] = order[l] => k = l
  <2> SUFFICES ASSUME NEW k \in 1..n, NEW l \in 1..n, order[k] = order[l], k # l
               PROVE  FALSE
    OBVIOUS
  <2>1. order[k] \in DOMAIN s
    BY <1>3
  <2>2. k < l \/ l < k
    OBVIOUS
  <2>3. <<order[k], order[k]>> \in before
    BY <1>3, <2>2
  <2>4. QED BY <1>5, <2>1, <2>3
<1>9. \A k \in 1..n : StableSort(s, less)[k] = s[order[k]]
  BY <1>3, <1>4
<1>10. order \in [DOMAIN s -> DOMAIN s]
  BY <1>1, <1>3
<1>11. /\ \A k \in DOMAIN s : StableSort(s, less)[k] = s[order[k]]
       /\ \A i \in DOMAIN s : \E k \in DOMAIN s : order[k] = i
       /\ \A k, l \in DOMAIN s : k < l => <<order[k], order[l]>> \in Stably(s, less)
       /\ \A k, l \in DOMAIN s : order[k] = order[l] => k = l
  <2>1. 1..n = DOMAIN s
    BY <1>1
  <2>2. QED BY <1>3, <1>8, <1>9, <2>1, Zenon DEF before
<1>12. QED BY <1>7, <1>10, <1>11, Zenon DEF n

\* A sort is well defined if less is asymmetric, and what is less than
\* another is less than, or has less than itself, any third.
LEMMA StableOrder ==
  ASSUME NEW s, DOMAIN s \subseteq Nat, NEW less,
         \A i, j \in DOMAIN s : <<i, j>> \in less => <<j, i>> \notin less,
         \A i, j, k \in DOMAIN s : <<i, k>> \in less => <<i, j>> \in less \/ <<j, k>> \in less
  PROVE  StrictOrder(DOMAIN s, Stably(s, less))
<1>1. \A i, j \in DOMAIN s : <<i, j>> \in Stably(s, less) <=>
        <<i, j>> \in less \/ (<<j, i>> \notin less /\ i < j)
  BY DEF Stably, Pairs
<1>2. \A i \in DOMAIN s : i \in Nat
  OBVIOUS
<1>3. \A i \in DOMAIN s : <<i, i>> \notin Stably(s, less)
  BY <1>1, <1>2
<1>4. ASSUME NEW i \in DOMAIN s, NEW j \in DOMAIN s, i # j
      PROVE  <<i, j>> \in Stably(s, less) \/ <<j, i>> \in Stably(s, less)
  <2>1. i < j \/ j < i
    BY <1>2, <1>4
  <2>2. QED BY <1>1, <2>1
<1>5. ASSUME NEW i \in DOMAIN s, NEW j \in DOMAIN s, NEW k \in DOMAIN s,
             <<i, j>> \in Stably(s, less), <<j, k>> \in Stably(s, less)
      PROVE  <<i, k>> \in Stably(s, less)
  <2>1. <<i, j>> \in less \/ (<<j, i>> \notin less /\ i < j)
    BY <1>1, <1>5
  <2>2. <<j, k>> \in less \/ (<<k, j>> \notin less /\ j < k)
    BY <1>1, <1>5
  <2>3. <<k, i>> \notin less
    BY <2>1, <2>2
  <2>4. <<i, k>> \in less \/ i < k
    BY <1>2, <2>1, <2>2
  <2>5. QED BY <1>1, <2>3, <2>4
<1>6. QED BY <1>3, <1>4, <1>5, Zenon DEF StrictOrder

\* The types of a finding's fields.
LEMMA FindingTypes ==
  ASSUME NEW f \in Finding
  PROVE  /\ f.severity \in Severities /\ f.severity \in Nat /\ f.end \in Nat
         /\ f.line \in Nat /\ f.file \in Nat /\ f.family \in Nat
         /\ f.scanner \in Detectors /\ RulesOf(f) \in SUBSET Rules
<1>1. f.rule \in Rules /\ f.merged \in SUBSET Rules
  BY DEF Finding
<1>2. QED BY <1>1 DEF Finding, Severities, RulesOf

\* The three orders of the correlator are strict, once equals stay in place.
LEMMA CorrelatorOrders ==
  ASSUME NEW s \in Seq(Finding)
  PROVE  /\ StrictOrder(DOMAIN s, Stably(s, Ranked(s)))
         /\ StrictOrder(DOMAIN s, Stably(s, ByPlace(s)))
         /\ StrictOrder(DOMAIN s, Stably(s, BySeverity(s)))
<1> DEFINE Numbers(f) ==
             /\ f.file \in Nat /\ f.line \in Nat /\ f.family \in Nat
             /\ f.severity \in Nat /\ Priority(f.scanner) \in Nat
           Outranks(f, g) ==
             \/ Priority(f.scanner) < Priority(g.scanner)
             \/ Priority(f.scanner) = Priority(g.scanner) /\ f.severity > g.severity
           Precedes(f, g) ==
             \/ f.file < g.file
             \/ f.file = g.file /\ f.family < g.family
             \/ f.file = g.file /\ f.family = g.family /\ f.line < g.line
           Exceeds(f, g) ==
             \/ f.severity > g.severity
             \/ f.severity = g.severity /\ f.file < g.file
             \/ f.severity = g.severity /\ f.file = g.file /\ f.line < g.line
<1>1. ASSUME NEW i \in DOMAIN s
      PROVE  Numbers(s[i])
  <2>1. s[i] \in Finding
    BY <1>1
  <2>2. s[i].file \in Nat /\ s[i].line \in Nat /\ s[i].family \in Nat /\ s[i].severity \in Nat
    BY <2>1, FindingTypes
  <2>3. Priority(s[i].scanner) \in Nat
    BY DEF Priority
  <2>4. QED BY <2>2, <2>3
<1>2. DOMAIN s \subseteq Nat
  OBVIOUS
<1>3. StrictOrder(DOMAIN s, Stably(s, Ranked(s)))
  <2>1. \A i, j \in DOMAIN s : <<i, j>> \in Ranked(s) <=> Outranks(s[i], s[j])
    BY DEF Ranked, Pairs
  <2>2. \A f, g : Numbers(f) /\ Numbers(g) /\ Outranks(f, g) => ~Outranks(g, f)
    OBVIOUS
  <2>3. \A f, g, h : Numbers(f) /\ Numbers(g) /\ Numbers(h) /\ Outranks(f, h)
          => Outranks(f, g) \/ Outranks(g, h)
    OBVIOUS
  <2> HIDE DEF Outranks, Numbers
  <2>4. QED BY <1>1, <1>2, <2>1, <2>2, <2>3, StableOrder
<1>4. StrictOrder(DOMAIN s, Stably(s, ByPlace(s)))
  <2>1. \A i, j \in DOMAIN s : <<i, j>> \in ByPlace(s) <=> Precedes(s[i], s[j])
    BY DEF ByPlace, Pairs
  <2>2. \A f, g : Numbers(f) /\ Numbers(g) /\ Precedes(f, g) => ~Precedes(g, f)
    OBVIOUS
  <2>3. ASSUME NEW f, NEW g, NEW h, Numbers(f), Numbers(g), Numbers(h), Precedes(f, h)
        PROVE  Precedes(f, g) \/ Precedes(g, h)
    <3>1. /\ f.file \in Nat /\ g.file \in Nat /\ h.file \in Nat
          /\ f.family \in Nat /\ g.family \in Nat /\ h.family \in Nat
          /\ f.line \in Nat /\ g.line \in Nat /\ h.line \in Nat
      BY <2>3
    <3>2. CASE f.file < g.file \/ g.file < h.file
      BY <3>2
    <3>3. CASE f.file = h.file /\ g.file = h.file
      <4>1. f.family < h.family \/ (f.family = h.family /\ f.line < h.line)
        BY <2>3, <3>1, <3>3
      <4>2. CASE f.family < g.family \/ g.family < h.family
        BY <3>3, <4>2
      <4>3. CASE f.family = g.family /\ g.family = h.family
        <5>1. f.line < g.line \/ g.line < h.line
          BY <3>1, <4>1, <4>3
        <5>2. QED BY <3>3, <4>3, <5>1
      <4>4. QED BY <3>1, <4>1, <4>2, <4>3
    <3>4. f.file < h.file \/ f.file = h.file
      BY <2>3
    <3>5. QED BY <3>1, <3>2, <3>3, <3>4
  <2> HIDE DEF Precedes, Numbers
  <2>4. QED BY <1>1, <1>2, <2>1, <2>2, <2>3, StableOrder
<1>5. StrictOrder(DOMAIN s, Stably(s, BySeverity(s)))
  <2>1. \A i, j \in DOMAIN s : <<i, j>> \in BySeverity(s) <=> Exceeds(s[i], s[j])
    BY DEF BySeverity, Pairs
  <2>2. \A f, g : Numbers(f) /\ Numbers(g) /\ Exceeds(f, g) => ~Exceeds(g, f)
    OBVIOUS
  <2>3. ASSUME NEW f, NEW g, NEW h, Numbers(f), Numbers(g), Numbers(h), Exceeds(f, h)
        PROVE  Exceeds(f, g) \/ Exceeds(g, h)
    <3>1. /\ f.severity \in Nat /\ g.severity \in Nat /\ h.severity \in Nat
          /\ f.file \in Nat /\ g.file \in Nat /\ h.file \in Nat
          /\ f.line \in Nat /\ g.line \in Nat /\ h.line \in Nat
      BY <2>3
    <3>2. CASE f.severity > g.severity \/ g.severity > h.severity
      BY <3>2
    <3>3. CASE f.severity = h.severity /\ g.severity = h.severity
      <4>1. f.file < h.file \/ (f.file = h.file /\ f.line < h.line)
        BY <2>3, <3>1, <3>3
      <4>2. CASE f.file < g.file \/ g.file < h.file
        BY <3>3, <4>2
      <4>3. CASE f.file = g.file /\ g.file = h.file
        <5>1. f.line < g.line \/ g.line < h.line
          BY <3>1, <4>1, <4>3
        <5>2. QED BY <3>3, <4>3, <5>1
      <4>4. QED BY <3>1, <4>1, <4>2, <4>3
    <3>4. f.severity > h.severity \/ f.severity = h.severity
      BY <2>3
    <3>5. QED BY <3>1, <3>2, <3>3, <3>4
  <2> HIDE DEF Exceeds, Numbers
  <2>4. QED BY <1>1, <1>2, <2>1, <2>2, <2>3, StableOrder
<1>6. QED BY <1>3, <1>4, <1>5

-----------------------------------------------------------------------------
(* Merging: what a merged finding keeps of those that it is made of.       *)

\* What of a finding identifies it, through every merge.
SameOrigin(f, g) ==
  /\ f.scanner = g.scanner /\ f.rule = g.rule /\ f.print = g.print /\ f.package = g.package
  /\ f.file = g.file /\ f.line = g.line /\ f.family = g.family

\* f speaks for g: the same file, no rule less, as severe and as long.
Absorbs(f, g) ==
  /\ f.file = g.file /\ RulesOf(g) \subseteq RulesOf(f)
  /\ f.severity >= g.severity /\ f.end >= g.end

LEMMA MaxOfValues ==
  ASSUME NEW n \in Nat \ {0}, NEW h \in [1..n -> Nat]
  PROVE  LET values == {h[i] : i \in 1..n}
         IN  MaxOf(values) \in values /\ \A m \in values : m <= MaxOf(values)
<1> DEFINE values == {h[i] : i \in 1..n}
<1>1. h \in Surjection(1..n, values)
  BY DEF Surjection
<1>2. IsFiniteSet(1..n)
  BY FS_Interval
<1>3. IsFiniteSet(values)
  BY <1>1, <1>2, FS_Surjection, Zenon
<1>4. h[1] \in values /\ values \subseteq Nat
  OBVIOUS
<1> HIDE DEF values
<1>5. values # {}
  BY <1>4
<1>6. MaxOf(values) \in values /\ \A m \in values : m <= MaxOf(values)
  BY <1>3, <1>4, <1>5, LeastAndGreatest
<1>7. QED BY <1>6 DEF values

\* Findings of one file and family are merged into one of them, of the most
\* trusted scanner, that speaks for all and names no rule but theirs.
LEMMA MergeIs ==
  ASSUME NEW g \in Seq(Finding), g # <<>>, NEW file, NEW family,
         \A i \in DOMAIN g : FindingOK(g[i]) /\ g[i].file = file /\ g[i].family = family
  PROVE  /\ FindingOK(Merge(g))
         /\ \A i \in DOMAIN g : Absorbs(Merge(g), g[i])
         /\ \E i \in DOMAIN g :
              /\ SameOrigin(Merge(g), g[i]) /\ Merge(g).verdict = g[i].verdict
              /\ \A j \in DOMAIN g : Priority(g[i].scanner) <= Priority(g[j].scanner)
         /\ \E i \in DOMAIN g : Merge(g).end = g[i].end
         /\ \A rule \in Merge(g).merged : \E i \in DOMAIN g : rule \in RulesOf(g[i])
<1> DEFINE n == Len(g)
           sorted == StableSort(g, Ranked(g))
           severities == {f.severity : f \in Range(g)}
           ends == {f.end : f \in Range(g)}
           rules == (UNION {RulesOf(f) : f \in Range(g)})
           scanners == {f.scanner : f \in Range(g)}
           labelled == {i \in DOMAIN sorted : sorted[i].family # NoFamily}
<1>1. DOMAIN g = 1..n /\ n \in Nat \ {0}
  OBVIOUS
<1>2. Range(g) = {g[i] : i \in 1..n}
  BY <1>1 DEF Range
<1>3. \A i \in 1..n : g[i] \in Finding /\ FindingOK(g[i]) /\ g[i].file = file /\ g[i].family = family
  BY <1>1
<1>4. PICK order \in [1..n -> 1..n] :
        /\ \A k \in 1..n : sorted[k] = g[order[k]]
        /\ \A i \in 1..n : \E k \in 1..n : order[k] = i
        /\ \A k, l \in 1..n : k < l => <<order[k], order[l]>> \in Stably(g, Ranked(g))
  <2>1. StrictOrder(DOMAIN g, Stably(g, Ranked(g)))
    BY CorrelatorOrders
  <2>2. \E order \in [DOMAIN g -> DOMAIN g] :
          /\ \A k \in DOMAIN g : sorted[k] = g[order[k]]
          /\ \A i \in DOMAIN g : \E k \in DOMAIN g : order[k] = i
          /\ \A k, l \in DOMAIN g : k < l => <<order[k], order[l]>> \in Stably(g, Ranked(g))
    BY <2>1, StableSortIs, Zenon
  <2>3. DOMAIN g = 1..n
    BY <1>1
  <2> HIDE DEF sorted, n
  <2>4. QED BY <2>2, <2>3
<1>5. sorted \in Seq(Finding) /\ DOMAIN sorted = 1..n
  BY <1>1, StableSortIs, CorrelatorOrders
<1> DEFINE p == order[1]
           primary == g[p]
<1>6. p \in 1..n /\ sorted[1] = primary /\ primary \in Finding
  BY <1>1, <1>3, <1>4
<1>7. ASSUME NEW j \in 1..n PROVE Priority(primary.scanner) <= Priority(g[j].scanner)
  <2>1. \A i \in 1..n : Priority(g[i].scanner) \in Nat
    BY DEF Priority
  <2>2. PICK k \in 1..n : order[k] = j
    BY <1>4
  <2>3. CASE k = 1
    BY <2>1, <2>2, <2>3, <1>6
  <2>4. CASE 1 < k
    <3>1. <<p, j>> \in Stably(g, Ranked(g))
      <4>1. 1 \in 1..n /\ 1 < k /\ p = order[1] /\ j = order[k]
        BY <1>1, <2>2, <2>4
      <4>2. <<order[1], order[k]>> \in Stably(g, Ranked(g))
        BY <1>4, <4>1, Zenon
      <4>3. QED BY <4>1, <4>2, Zenon
    <3>2. <<p, j>> \in Ranked(g) \/ <<j, p>> \notin Ranked(g)
      BY <3>1 DEF Stably
    <3>3. <<p, j>> \in Ranked(g) => Priority(primary.scanner) <= Priority(g[j].scanner)
      BY <1>6, <2>1 DEF Ranked
    <3>4. Priority(g[j].scanner) < Priority(primary.scanner) => <<j, p>> \in Ranked(g)
      BY <1>1, <1>6 DEF Ranked, Pairs
    <3>5. QED BY <1>6, <2>1, <3>2, <3>3, <3>4
  <2>5. QED BY <1>1, <2>2, <2>3, <2>4
<1>8. /\ MaxOf(severities) \in Severities
      /\ \A i \in 1..n : g[i].severity <= MaxOf(severities)
  <2> DEFINE h == [i \in 1..n |-> g[i].severity]
  <2>1. h \in [1..n -> Nat] /\ \A i \in 1..n : h[i] \in Severities /\ h[i] = g[i].severity
    BY <1>3, FindingTypes
  <2>2. severities = {h[i] : i \in 1..n}
    BY <1>2
  <2> HIDE DEF h
  <2>3. /\ MaxOf({h[i] : i \in 1..n}) \in {h[i] : i \in 1..n}
        /\ \A m \in {h[i] : i \in 1..n} : m <= MaxOf({h[i] : i \in 1..n})
    BY <1>1, <2>1, MaxOfValues, Zenon
  <2>4. MaxOf(severities) \in severities /\ \A m \in severities : m <= MaxOf(severities)
    BY <2>2, <2>3, Zenon
  <2> HIDE DEF severities
  <2>5. QED BY <2>1, <2>2, <2>4
<1>9. /\ MaxOf(ends) \in Nat /\ \A i \in 1..n : g[i].end <= MaxOf(ends)
      /\ \E i \in 1..n : MaxOf(ends) = g[i].end
  <2> DEFINE h == [i \in 1..n |-> g[i].end]
  <2>1. h \in [1..n -> Nat] /\ \A i \in 1..n : h[i] \in Nat /\ h[i] = g[i].end
    BY <1>3, FindingTypes
  <2>2. ends = {h[i] : i \in 1..n}
    BY <1>2
  <2> HIDE DEF h
  <2>3. /\ MaxOf({h[i] : i \in 1..n}) \in {h[i] : i \in 1..n}
        /\ \A m \in {h[i] : i \in 1..n} : m <= MaxOf({h[i] : i \in 1..n})
    BY <1>1, <2>1, MaxOfValues, Zenon
  <2>4. MaxOf(ends) \in ends /\ \A m \in ends : m <= MaxOf(ends)
    BY <2>2, <2>3, Zenon
  <2> HIDE DEF ends
  <2>5. QED BY <2>1, <2>2, <2>4
<1>10. primary.family = NoFamily => labelled = {}
  <2>1. \A i \in 1..n : sorted[i].family = family
    <3> HIDE DEF sorted, n
    <3>1. ASSUME NEW i \in 1..n PROVE sorted[i].family = family
      <4>1. order[i] \in 1..n /\ sorted[i] = g[order[i]]
        BY <1>4
      <4>2. QED BY <1>3, <4>1
    <3>2. QED BY <3>1
  <2>2. primary.family = family
    BY <1>3, <1>6
  <2>3. QED BY <1>5, <2>1, <2>2
<1>11. Merge(g) = [primary EXCEPT !.severity = MaxOf(severities),
                                  !.family = primary.family,
                                  !.end = MaxOf(ends),
                                  !.also = scanners \ {primary.scanner},
                                  !.merged = rules \ {primary.rule}]
  <2>1. Merge(g) =
          [sorted[1] EXCEPT !.severity = MaxOf(severities),
                            !.family = IF sorted[1].family = NoFamily /\ labelled # {}
                                       THEN ElementsAt(sorted, labelled)[1].family
                                       ELSE sorted[1].family,
                            !.end = MaxOf(ends),
                            !.also = scanners \ {sorted[1].scanner},
                            !.merged = rules \ {sorted[1].rule}]
    BY DEF Merge
  <2> HIDE DEF sorted, labelled, primary, severities, ends, rules, scanners
  <2>2. QED BY <1>6, <1>10, <2>1
<1>12. scanners \in SUBSET Detectors /\ rules \in SUBSET Rules
  <2>1. \A f \in Range(g) : f.scanner \in Detectors /\ RulesOf(f) \in SUBSET Rules
    BY <1>2, <1>3, FindingTypes
  <2>2. QED BY <2>1
<1> HIDE DEF severities, ends, rules, scanners, labelled, p, sorted, n, primary
<1> DEFINE m == Merge(g)
<1>13. /\ m \in Finding /\ m.severity = MaxOf(severities) /\ m.end = MaxOf(ends)
       /\ m.also = scanners \ {m.scanner} /\ m.merged = rules \ {m.rule}
       /\ m.scanner = primary.scanner /\ m.rule = primary.rule /\ m.print = primary.print
       /\ m.package = primary.package /\ m.file = primary.file /\ m.line = primary.line
       /\ m.family = primary.family /\ m.verdict = primary.verdict
  <2>1. m = [scanner |-> primary.scanner, rule |-> primary.rule, print |-> primary.print,
             package |-> primary.package, file |-> primary.file, line |-> primary.line,
             end |-> MaxOf(ends), severity |-> MaxOf(severities), family |-> primary.family,
             scope |-> primary.scope, also |-> scanners \ {primary.scanner},
             merged |-> rules \ {primary.rule}, verdict |-> primary.verdict]
    BY <1>6, <1>11 DEF Finding
  <2>2. m \in Finding
    <3>1. /\ primary.scanner \in Detectors /\ primary.rule \in Rules
          /\ primary.print \in Prints /\ primary.package \in Packages \cup {NoPackage}
          /\ primary.file \in Nat /\ primary.line \in Nat \ {0}
          /\ primary.family \in Nat /\ primary.scope \in {"new", "existing", "unknown"}
          /\ primary.verdict \in Verdicts
      BY <1>6 DEF Finding
    <3>2. /\ scanners \ {primary.scanner} \in SUBSET Detectors
          /\ rules \ {primary.rule} \in SUBSET Rules
      BY <1>12
    <3>3. QED BY <1>8, <1>9, <2>1, <3>1, <3>2 DEF Finding
  <2>3. QED BY <2>1, <2>2
<1> HIDE DEF m
<1>14. SameOrigin(m, primary)
  BY <1>13 DEF SameOrigin
<1>15. FindingOK(m)
  <2>1. m.end \in Nat /\ m.line \in Nat /\ primary.end \in Nat /\ primary.line = m.line
    BY <1>6, <1>13 DEF Finding
  <2>2. primary.end >= primary.line /\ primary.end <= m.end
    <3>1. FindingOK(primary) /\ primary.end <= MaxOf(ends)
      BY <1>3, <1>6, <1>9 DEF primary
    <3>2. QED BY <1>13, <3>1 DEF FindingOK
  <2>3. m.end >= m.line
    BY <2>1, <2>2
  <2>4. QED BY <1>13, <2>3 DEF FindingOK
<1>16. ASSUME NEW i \in 1..n PROVE Absorbs(m, g[i])
  <2>1. RulesOf(g[i]) \subseteq rules
    BY <1>2 DEF rules
  <2>2. rules \subseteq RulesOf(m)
    BY <1>13 DEF RulesOf
  <2>3. m.file = g[i].file
    BY <1>3, <1>6, <1>13 DEF primary
  <2>4. g[i].severity \in Nat /\ m.severity \in Nat /\ g[i].end \in Nat /\ m.end \in Nat
    BY <1>3, <1>13, FindingTypes
  <2>5. m.severity >= g[i].severity /\ m.end >= g[i].end
    BY <1>8, <1>9, <1>13, <2>4
  <2>6. QED BY <2>1, <2>2, <2>3, <2>5 DEF Absorbs
<1>17. ASSUME NEW rule \in m.merged PROVE \E i \in 1..n : rule \in RulesOf(g[i])
  BY <1>2, <1>13 DEF rules
<1>18. \E i \in 1..n : /\ SameOrigin(m, g[i]) /\ m.verdict = g[i].verdict
                      /\ \A j \in 1..n : Priority(g[i].scanner) <= Priority(g[j].scanner)
  BY <1>6, <1>7, <1>13, <1>14 DEF primary
<1>19. \E i \in 1..n : m.end = g[i].end
  BY <1>9, <1>13
<1>20. QED BY <1>1, <1>15, <1>16, <1>17, <1>18, <1>19 DEF m

-----------------------------------------------------------------------------
(* Soundness: every finding stems from one of a set of original findings,  *)
(* and all that is merged into it is justified by them.                    *)

\* Covered, for any set of original findings.
Cov(S, file, family, n) ==
  \E s, t \in S :
    /\ s.print = t.print /\ s.file = file /\ s.family = family
    /\ s.line <= n /\ n <= t.end + LineWindow

\* No line from the one finding to the other is out of reach.
Near(f, g, S) ==
  /\ f.file = g.file /\ f.family = g.family
  /\ \A n \in Between(f.line, g.line) : Cov(S, f.file, f.family, n)

\* OneIssue, in a form that is an equivalence of the findings that stem from S.
Link(f, g, S) == Near(f, g, S) /\ (f.print = g.print \/ f.family \notin {NoFamily, Secret})

Stems(f, S) == \E p \in S : SameOrigin(f, p)

Extends(f, S) == \A n \in f.line..(f.end + LineWindow) : Cov(S, f.file, f.family, n)

Justified(f, rule, S) ==
  \E r, p \in S :
    /\ r.rule = rule /\ r.print = p.print /\ Link(p, f, S)
    /\ p.print = f.print \/ {p.scanner, f.scanner} \subseteq CodeAnalyzers

Sound(f, S) ==
  /\ FindingOK(f) /\ Stems(f, S) /\ Extends(f, S)
  /\ \A rule \in f.merged : Justified(f, rule, S)

Coherent(S) ==
  /\ \A f, g \in S : f.print = g.print => f.file = g.file /\ f.family = g.family
  /\ \A f \in S : f.line \in Nat /\ f.end \in Nat /\ f.line <= f.end

AllSound(s, S) == \A i \in DOMAIN s : Sound(s[i], S)

OnePrint(g) == \A i, j \in DOMAIN g : g[i].print = g[j].print

OneWeakness(g, S) ==
  \A i, j \in DOMAIN g :
    /\ Link(g[i], g[j], S)
    /\ g[i].family \notin {NoFamily, Secret} /\ g[i].scanner \in CodeAnalyzers

\* A link depends on what a merge keeps only, and goes both ways.
LEMMA LinkOfOrigins ==
  ASSUME NEW S, NEW e, NEW f, NEW g, NEW h, SameOrigin(e, f), SameOrigin(g, h), Link(f, g, S)
  PROVE  Link(e, h, S)
<1>1. Between(e.line, h.line) = Between(f.line, g.line)
  BY DEF SameOrigin
<1>2. Near(e, h, S)
  BY <1>1 DEF SameOrigin, Link, Near
<1>3. QED BY <1>2 DEF SameOrigin, Link

LEMMA LinkBack ==
  ASSUME NEW S, NEW f, NEW g, f.line \in Nat, g.line \in Nat, Link(f, g, S)
  PROVE  Link(g, f, S)
<1>1. Between(f.line, g.line) = Between(g.line, f.line)
  BY DEF Between
<1>2. QED BY <1>1 DEF Link, Near

\* Findings with one fingerprint are linked: from the first line of one to
\* the last of the other all is covered.
LEMMA TwinsLink ==
  ASSUME NEW S, Coherent(S), NEW f, NEW g, Stems(f, S), Stems(g, S), f.print = g.print
  PROVE  Link(f, g, S) /\ f.line \in Nat
<1>1. PICK p \in S : SameOrigin(f, p)
  BY DEF Stems
<1>2. PICK q \in S : SameOrigin(g, q)
  BY DEF Stems
<1>3. /\ p.print = q.print /\ p.file = q.file /\ p.family = q.family
      /\ p.line \in Nat /\ p.end \in Nat /\ p.line <= p.end
      /\ q.line \in Nat /\ q.end \in Nat /\ q.line <= q.end
  BY <1>1, <1>2 DEF SameOrigin, Coherent
<1>4. ASSUME NEW n \in Between(p.line, q.line) PROVE Cov(S, p.file, p.family, n)
  <2>1. n \in Int
    BY <1>3 DEF Between
  <2>2. CASE p.line <= n /\ n <= q.end + LineWindow
    BY <1>3, <2>2 DEF Cov
  <2>3. CASE q.line <= n /\ n <= p.end + LineWindow
    BY <1>3, <2>3 DEF Cov
  <2>4. QED BY <1>3, <2>1, <2>2, <2>3 DEF Between, LineWindow
<1>5. Near(p, q, S)
  BY <1>3, <1>4 DEF Near
<1>6. Link(p, q, S)
  BY <1>3, <1>5 DEF Link
<1>7. SameOrigin(q, g)
  BY <1>2 DEF SameOrigin
<1>8. QED BY <1>1, <1>3, <1>6, <1>7, LinkOfOrigins DEF SameOrigin

LEMMA LinkOn ==
  ASSUME NEW S, Coherent(S), NEW f, NEW g, NEW h, Stems(f, S), Stems(g, S), Stems(h, S),
         Link(f, g, S), Link(g, h, S)
  PROVE  Link(f, h, S)
<1>1. f.line \in Nat /\ g.line \in Nat /\ h.line \in Nat
  BY TwinsLink
<1>2. f.file = g.file /\ g.file = h.file /\ f.family = g.family /\ g.family = h.family
  BY DEF Link, Near
<1>3. Between(f.line, h.line) \subseteq Between(f.line, g.line) \cup Between(g.line, h.line)
  BY <1>1 DEF Between
<1>4. \A n \in Between(f.line, h.line) : Cov(S, f.file, f.family, n)
  BY <1>2, <1>3 DEF Link, Near
<1>5. Near(f, h, S)
  BY <1>2, <1>4 DEF Near
<1>6. QED BY <1>2, <1>5 DEF Link

\* What is covered or linked stays so as more is found.
LEMMA LinkMore ==
  ASSUME NEW S, NEW T, S \subseteq T
  PROVE  /\ \A file, family, n : Cov(S, file, family, n) => Cov(T, file, family, n)
         /\ \A f, g : Link(f, g, S) => Link(f, g, T)
<1>1. \A file, family, n : Cov(S, file, family, n) => Cov(T, file, family, n)
  BY DEF Cov
<1>2. \A f, g : Near(f, g, S) => Near(f, g, T)
  BY <1>1 DEF Near
<1>3. QED BY <1>1, <1>2 DEF Link

\* Merging keeps soundness, for both of the correlator's reasons to merge.
LEMMA MergeIsSound ==
  ASSUME NEW S, Coherent(S), NEW g \in Seq(Finding), g # <<>>, AllSound(g, S),
         OnePrint(g) \/ OneWeakness(g, S)
  PROVE  /\ Sound(Merge(g), S)
         /\ \A i \in DOMAIN g : Absorbs(Merge(g), g[i]) /\ Link(g[i], Merge(g), S)
         /\ \E i \in DOMAIN g : SameOrigin(Merge(g), g[i]) /\ Merge(g).verdict = g[i].verdict
<1> DEFINE m == Merge(g)
<1>1. 1 \in DOMAIN g
  OBVIOUS
<1>2. ASSUME NEW i \in DOMAIN g
      PROVE  FindingOK(g[i]) /\ Stems(g[i], S) /\ Extends(g[i], S)
  BY DEF AllSound, Sound
<1>3. ASSUME NEW i \in DOMAIN g, NEW j \in DOMAIN g
      PROVE  Link(g[i], g[j], S) /\ g[i].file = g[j].file /\ g[i].family = g[j].family
  <2>1. Link(g[i], g[j], S)
    BY <1>2, TwinsLink DEF OnePrint, OneWeakness
  <2>2. QED BY <2>1 DEF Link, Near
<1>4. /\ FindingOK(m)
      /\ \A i \in DOMAIN g : Absorbs(m, g[i])
      /\ \E i \in DOMAIN g :
           /\ SameOrigin(m, g[i]) /\ m.verdict = g[i].verdict
           /\ \A j \in DOMAIN g : Priority(g[i].scanner) <= Priority(g[j].scanner)
      /\ \E i \in DOMAIN g : m.end = g[i].end
      /\ \A rule \in m.merged : \E i \in DOMAIN g : rule \in RulesOf(g[i])
  <2>1. \A i \in DOMAIN g :
          FindingOK(g[i]) /\ g[i].file = g[1].file /\ g[i].family = g[1].family
    BY <1>1, <1>2, <1>3
  <2>2. QED BY <2>1, MergeIs
<1> HIDE DEF m
<1>5. PICK a \in DOMAIN g :
        /\ SameOrigin(m, g[a]) /\ m.verdict = g[a].verdict
        /\ \A j \in DOMAIN g : Priority(g[a].scanner) <= Priority(g[j].scanner)
  BY <1>4
<1>6. Stems(m, S)
  BY <1>2, <1>5 DEF Stems, SameOrigin
<1>7. ASSUME NEW i \in DOMAIN g PROVE Link(g[i], m, S)
  <2>1. SameOrigin(g[a], m) /\ SameOrigin(g[i], g[i])
    BY <1>5 DEF SameOrigin
  <2>2. QED BY <1>3, <2>1, LinkOfOrigins
<1>8. Extends(m, S)
  <2>1. PICK e \in DOMAIN g : m.end = g[e].end
    BY <1>4
  <2>2. Link(g[e], m, S) /\ Extends(g[e], S)
    BY <1>2, <1>7
  <2>3. m.line \in Nat /\ g[e].line \in Nat /\ g[e].end \in Nat
    BY <1>2, <1>6, TwinsLink DEF FindingOK, Finding
  <2>4. ASSUME NEW n \in m.line..(m.end + LineWindow)
        PROVE  n \in Between(g[e].line, m.line) \cup (g[e].line..(g[e].end + LineWindow))
    BY <2>1, <2>3 DEF Between, LineWindow
  <2>5. ASSUME NEW n \in m.line..(m.end + LineWindow) PROVE Cov(S, m.file, m.family, n)
    BY <2>2, <2>4 DEF Link, Near, Extends
  <2>6. QED BY <2>5 DEF Extends
<1>9. ASSUME NEW rule \in m.merged
      PROVE  Justified(m, rule, S)
  <2>1. PICK j \in DOMAIN g : rule \in RulesOf(g[j])
    BY <1>4
  <2>2. PICK p \in S : SameOrigin(g[j], p)
    BY <1>2 DEF Stems
  <2>3. g[j].scanner \in CodeAnalyzers => m.scanner \in CodeAnalyzers
    <3>1. Priority(m.scanner) <= Priority(g[j].scanner)
      BY <1>5 DEF SameOrigin
    <3>2. QED BY <3>1 DEF Priority, CodeAnalyzers
  <2>4. /\ Link(p, m, S)
        /\ p.print = m.print \/ {p.scanner, m.scanner} \subseteq CodeAnalyzers
    <3>1. SameOrigin(p, g[j]) /\ SameOrigin(m, m)
      BY <2>2 DEF SameOrigin
    <3>2. Link(p, m, S)
      BY <1>7, <3>1, LinkOfOrigins
    <3>3. CASE OnePrint(g)
      BY <1>5, <2>2, <3>2, <3>3 DEF SameOrigin, OnePrint
    <3>4. CASE OneWeakness(g, S)
      <4>1. g[j].scanner \in CodeAnalyzers
        BY <3>4 DEF OneWeakness
      <4>2. QED BY <2>2, <2>3, <3>2, <4>1 DEF SameOrigin
    <3>5. QED BY <3>3, <3>4
  <2>5. CASE rule = g[j].rule
    <3>1. p.rule = rule
      BY <2>2, <2>5 DEF SameOrigin
    <3>2. QED BY <2>4, <3>1 DEF Justified
  <2>6. CASE rule \in g[j].merged
    <3>1. PICK r \in S, q \in S :
            /\ r.rule = rule /\ r.print = q.print /\ Link(q, g[j], S)
            /\ q.print = g[j].print \/ {q.scanner, g[j].scanner} \subseteq CodeAnalyzers
      BY <2>6, Zenon DEF AllSound, Sound, Justified
    <3>2. CASE q.print = g[j].print
      <4>1. r.print = p.print
        BY <2>2, <3>1, <3>2 DEF SameOrigin
      <4>2. QED BY <2>4, <3>1, <4>1 DEF Justified
    <3>3. CASE {q.scanner, g[j].scanner} \subseteq CodeAnalyzers
      <4>1. {q.scanner, m.scanner} \subseteq CodeAnalyzers
        BY <2>3, <3>3
      <4>2. Stems(q, S)
        BY DEF Stems, SameOrigin
      <4>3. Link(q, m, S)
        BY <1>2, <1>6, <1>7, <3>1, <4>2, LinkOn
      <4>4. QED BY <3>1, <4>1, <4>3 DEF Justified
    <3>4. QED BY <3>1, <3>2, <3>3
  <2>7. QED BY <2>1, <2>5, <2>6 DEF RulesOf
<1>10. Sound(m, S)
  BY <1>4, <1>6, <1>8, <1>9 DEF Sound
<1>11. QED BY <1>4, <1>5, <1>7, <1>10 DEF m

\* What the findings t have to do with the findings s that they are made
\* of: each stems from one of s, and each of s has one that speaks for it and
\* is of the same issue.
Passes(t, s, S) ==
  /\ t \in Seq(Finding)
  /\ \A k \in DOMAIN t : \E i \in DOMAIN s :
       SameOrigin(t[k], s[i]) /\ t[k].verdict = s[i].verdict
  /\ \A i \in DOMAIN s : \E k \in DOMAIN t : Absorbs(t[k], s[i]) /\ Link(s[i], t[k], S)

\* No two findings have one fingerprint.
PrintsApart(s) == \A k, l \in DOMAIN s : s[k].print = s[l].print => k = l

LEMMA PassesThrough ==
  ASSUME NEW S, Coherent(S), NEW s \in Seq(Finding), NEW t, NEW u,
         AllSound(s, S), AllSound(t, S), AllSound(u, S), Passes(t, s, S), Passes(u, t, S)
  PROVE  Passes(u, s, S)
<1>1. u \in Seq(Finding) /\ t \in Seq(Finding)
  BY DEF Passes
<1>2. ASSUME NEW k \in DOMAIN u
      PROVE  \E i \in DOMAIN s : SameOrigin(u[k], s[i]) /\ u[k].verdict = s[i].verdict
  <2>1. PICK j \in DOMAIN t : SameOrigin(u[k], t[j]) /\ u[k].verdict = t[j].verdict
    BY DEF Passes
  <2>2. PICK i \in DOMAIN s : SameOrigin(t[j], s[i]) /\ t[j].verdict = s[i].verdict
    BY DEF Passes
  <2>3. SameOrigin(u[k], s[i]) /\ u[k].verdict = s[i].verdict
    BY <2>1, <2>2 DEF SameOrigin
  <2>4. QED BY <2>3
<1>3. ASSUME NEW i \in DOMAIN s
      PROVE  \E k \in DOMAIN u : Absorbs(u[k], s[i]) /\ Link(s[i], u[k], S)
  <2>1. PICK j \in DOMAIN t : Absorbs(t[j], s[i]) /\ Link(s[i], t[j], S)
    BY DEF Passes
  <2>2. PICK k \in DOMAIN u : Absorbs(u[k], t[j]) /\ Link(t[j], u[k], S)
    BY DEF Passes
  <2>3. s[i] \in Finding /\ t[j] \in Finding /\ u[k] \in Finding
    BY <1>1
  <2>4. /\ s[i].severity \in Nat /\ t[j].severity \in Nat /\ u[k].severity \in Nat
        /\ s[i].end \in Nat /\ t[j].end \in Nat /\ u[k].end \in Nat
    BY <2>3, FindingTypes
  <2>5. Absorbs(u[k], s[i])
    BY <2>1, <2>2, <2>4 DEF Absorbs
  <2>6. Stems(s[i], S) /\ Stems(t[j], S) /\ Stems(u[k], S)
    BY DEF AllSound, Sound
  <2>7. Link(s[i], u[k], S)
    BY <2>1, <2>2, <2>6, LinkOn
  <2>8. QED BY <2>5, <2>7
<1>4. QED BY <1>1, <1>2, <1>3 DEF Passes

\* Sorting loses nothing, and changes nothing but the order.
LEMMA SortPasses ==
  ASSUME NEW s \in Seq(Finding), NEW less, StrictOrder(DOMAIN s, Stably(s, less)), NEW S,
         Coherent(S), AllSound(s, S)
  PROVE  /\ Passes(StableSort(s, less), s, S)
         /\ AllSound(StableSort(s, less), S)
         /\ PrintsApart(s) => PrintsApart(StableSort(s, less))
<1> DEFINE t == StableSort(s, less)
<1>1. t \in Seq(Finding) /\ DOMAIN t = DOMAIN s
  BY StableSortIs
<1>2. PICK order \in [DOMAIN s -> DOMAIN s] :
        /\ \A k \in DOMAIN s : t[k] = s[order[k]]
        /\ \A i \in DOMAIN s : \E k \in DOMAIN s : order[k] = i
        /\ \A k, l \in DOMAIN s : k < l => <<order[k], order[l]>> \in Stably(s, less)
        /\ \A k, l \in DOMAIN s : order[k] = order[l] => k = l
  BY StableSortIs, Zenon
<1> HIDE DEF t
<1>3. ASSUME NEW i \in DOMAIN s PROVE Absorbs(s[i], s[i]) /\ Link(s[i], s[i], S)
  <2>1. s[i] \in Finding
    OBVIOUS
  <2>2. Absorbs(s[i], s[i])
    BY <2>1, FindingTypes DEF Absorbs
  <2>3. Link(s[i], s[i], S)
    BY TwinsLink DEF AllSound, Sound
  <2>4. QED BY <2>2, <2>3
<1>4. ASSUME NEW k \in DOMAIN t
      PROVE  \E i \in DOMAIN s : SameOrigin(t[k], s[i]) /\ t[k].verdict = s[i].verdict
  <2>1. order[k] \in DOMAIN s /\ t[k] = s[order[k]]
    BY <1>1, <1>2
  <2>2. SameOrigin(t[k], s[order[k]]) /\ t[k].verdict = s[order[k]].verdict
    BY <2>1 DEF SameOrigin
  <2>3. QED BY <2>1, <2>2
<1>5. ASSUME NEW i \in DOMAIN s
      PROVE  \E k \in DOMAIN t : Absorbs(t[k], s[i]) /\ Link(s[i], t[k], S)
  <2>1. PICK k \in DOMAIN t : t[k] = s[i]
    BY <1>1, <1>2
  <2>2. QED BY <1>3, <2>1
<1>6. AllSound(t, S)
  BY <1>1, <1>2 DEF AllSound
<1>7. PrintsApart(s) => PrintsApart(t)
  <2> SUFFICES ASSUME PrintsApart(s), NEW k \in DOMAIN s, NEW l \in DOMAIN s,
                      t[k].print = t[l].print
               PROVE  k = l
    BY <1>1 DEF PrintsApart
  <2>1. order[k] \in DOMAIN s /\ order[l] \in DOMAIN s
    BY <1>2
  <2>2. s[order[k]].print = s[order[l]].print
    BY <1>2
  <2>3. order[k] = order[l]
    BY <2>1, <2>2 DEF PrintsApart
  <2>4. QED BY <1>2, <2>3
<1>8. QED BY <1>1, <1>4, <1>5, <1>6, <1>7 DEF Passes, t

\* A finding of the group of one fingerprint.
LEMMA OfPrintIs ==
  ASSUME NEW s \in Seq(Finding), NEW i \in DOMAIN s
  PROVE  LET g == OfPrint(s, i)
         IN  /\ g \in Seq(Finding) /\ g # <<>>
             /\ \A k \in DOMAIN g : \E j \in DOMAIN s : g[k] = s[j] /\ s[j].print = s[i].print
             /\ \A j \in DOMAIN s : s[j].print = s[i].print => \E k \in DOMAIN g : g[k] = s[j]
<1> DEFINE g == OfPrint(s, i)
           at == {j \in DOMAIN s : s[j].print = s[i].print}
<1>1. at \in SUBSET DOMAIN s /\ i \in at /\ g = ElementsAt(s, at)
  BY DEF OfPrint
<1>2. \A j \in DOMAIN s : j \in at <=> s[j].print = s[i].print
  OBVIOUS
<1> HIDE DEF g, at
<1>3. /\ g \in Seq(Finding)
      /\ \A k \in DOMAIN g : \E j \in at : g[k] = s[j]
      /\ \A j \in at : \E k \in DOMAIN g : g[k] = s[j]
  BY <1>1, ElementsAtIs
<1>4. g # <<>>
  BY <1>1, <1>3
<1>5. /\ \A k \in DOMAIN g : \E j \in DOMAIN s : g[k] = s[j] /\ s[j].print = s[i].print
      /\ \A j \in DOMAIN s : s[j].print = s[i].print => \E k \in DOMAIN g : g[k] = s[j]
  BY <1>1, <1>2, <1>3
<1>6. QED BY <1>3, <1>4, <1>5 DEF g

\* The first pass: nothing lost, merged for a reason, one for a fingerprint.
LEMMA FingerprintPass ==
  ASSUME NEW S, Coherent(S), NEW s \in Seq(Finding), AllSound(s, S)
  PROVE  /\ Passes(ByFingerprint(s), s, S) /\ AllSound(ByFingerprint(s), S)
         /\ PrintsApart(ByFingerprint(s))
<1> DEFINE ps == FirstSeen(s)
           n == Cardinality(ps)
           first == InOrder(ps)
           t == ByFingerprint(s)
<1>1. DOMAIN s = 1..Len(s) /\ Len(s) \in Nat
  OBVIOUS
<1>2. ps \subseteq DOMAIN s /\ IsFiniteSet(DOMAIN s)
  BY <1>1, FS_Interval DEF FirstSeen
<1>3. IsFiniteSet(ps) /\ ps \subseteq Nat
  BY <1>1, <1>2, FS_Subset
<1>4. /\ n \in Nat /\ first \in [1..n -> ps]
      /\ \A i \in ps : \E k \in 1..n : first[k] = i
      /\ \A k, l \in 1..n : k < l => first[k] < first[l]
  BY <1>3, InOrderIs
<1>5. t = [k \in DOMAIN first |-> Merge(OfPrint(s, first[k]))]
  BY DEF ByFingerprint
<1>6. \A i \in ps : \A j \in 1..(i - 1) : s[j].print # s[i].print
  BY DEF FirstSeen
<1> HIDE DEF ps, n, first, t
<1>7. DOMAIN t = 1..n /\ \A k \in 1..n : t[k] = Merge(OfPrint(s, first[k]))
  BY <1>4, <1>5
<1>8. ASSUME NEW k \in 1..n
      PROVE  /\ first[k] \in DOMAIN s /\ Sound(t[k], S)
             /\ t[k].print = s[first[k]].print
             /\ \A i \in DOMAIN s : s[i].print = s[first[k]].print
                  => Absorbs(t[k], s[i]) /\ Link(s[i], t[k], S)
             /\ \E i \in DOMAIN s : SameOrigin(t[k], s[i]) /\ t[k].verdict = s[i].verdict
  <2> DEFINE b == first[k]
             g == OfPrint(s, b)
  <2>1. b \in DOMAIN s
    BY <1>2, <1>4
  <2>2. /\ g \in Seq(Finding) /\ g # <<>>
        /\ \A l \in DOMAIN g : \E j \in DOMAIN s : g[l] = s[j] /\ s[j].print = s[b].print
        /\ \A j \in DOMAIN s : s[j].print = s[b].print => \E l \in DOMAIN g : g[l] = s[j]
    BY <2>1, OfPrintIs, Zenon
  <2>3. t[k] = Merge(g)
    BY <1>7
  <2> HIDE DEF g, b
  <2>4. AllSound(g, S)
    BY <2>2 DEF AllSound
  <2>5. OnePrint(g) /\ \A l \in DOMAIN g : g[l].print = s[b].print
    BY <2>2 DEF OnePrint
  <2>6. /\ Sound(Merge(g), S)
        /\ \A l \in DOMAIN g : Absorbs(Merge(g), g[l]) /\ Link(g[l], Merge(g), S)
        /\ \E l \in DOMAIN g : SameOrigin(Merge(g), g[l]) /\ Merge(g).verdict = g[l].verdict
    BY <2>2, <2>4, <2>5, MergeIsSound
  <2>7. t[k].print = s[b].print
    BY <2>3, <2>5, <2>6 DEF SameOrigin
  <2>8. \A i \in DOMAIN s : s[i].print = s[b].print
          => Absorbs(t[k], s[i]) /\ Link(s[i], t[k], S)
    BY <2>2, <2>3, <2>6, Zenon
  <2>9. \E i \in DOMAIN s : SameOrigin(t[k], s[i]) /\ t[k].verdict = s[i].verdict
    <3>1. PICK l \in DOMAIN g : SameOrigin(Merge(g), g[l]) /\ Merge(g).verdict = g[l].verdict
      BY <2>6
    <3>2. PICK i \in DOMAIN s : g[l] = s[i]
      BY <2>2
    <3>3. QED BY <2>3, <3>1, <3>2
  <2>10. QED BY <2>1, <2>3, <2>6, <2>7, <2>8, <2>9 DEF b
<1>9. \A k \in 1..n : t[k] \in Finding
  BY <1>8 DEF Sound, FindingOK
<1>10. t \in Seq(Finding)
  <2>1. t \in [1..n -> Finding]
    BY <1>5, <1>4, <1>7, <1>9
  <2>2. QED BY <1>4, <2>1
<1>11. ASSUME NEW i \in DOMAIN s
       PROVE  \E k \in 1..n : Absorbs(t[k], s[i]) /\ Link(s[i], t[k], S)
  <2> DEFINE same == {j \in DOMAIN s : s[j].print = s[i].print}
  <2>1. same \in SUBSET DOMAIN s /\ same \subseteq Nat /\ i \in same
    BY <1>1
  <2>2. IsFiniteSet(same)
    BY <1>2, <2>1, FS_Subset, Zenon
  <2>3. PICK b \in same : \A j \in same : b <= j
    BY <2>1, <2>2, LeastAndGreatest
  <2>4. b \in DOMAIN s /\ s[b].print = s[i].print
    BY <2>3
  <2>5. ASSUME NEW j \in 1..(b - 1) PROVE s[j].print # s[b].print
    BY <1>1, <2>3, <2>4
  <2>6. b \in ps
    BY <2>4, <2>5 DEF ps, FirstSeen
  <2>7. PICK k \in 1..n : first[k] = b
    BY <1>4, <2>6
  <2>8. QED BY <1>8, <2>4, <2>7
<1>12. PrintsApart(t)
  <2>1. ASSUME NEW k \in 1..n, NEW l \in 1..n, k < l, t[k].print = t[l].print
        PROVE  FALSE
    <3>1. s[first[k]].print = s[first[l]].print
      BY <1>8, <2>1
    <3>2. first[k] < first[l] /\ first[k] \in 1..Len(s) /\ first[l] \in ps /\ first[l] \in Nat
      BY <1>1, <1>2, <1>4, <2>1
    <3>3. first[k] \in 1..(first[l] - 1)
      BY <1>1, <3>2
    <3>4. QED BY <1>6, <3>1, <3>2, <3>3
  <2>2. \A k, l \in 1..n : k < l \/ l < k \/ k = l
    BY <1>4
  <2>3. QED BY <1>7, <2>1, <2>2 DEF PrintsApart
<1>13. AllSound(t, S)
  BY <1>7, <1>8 DEF AllSound
<1>14. Passes(t, s, S)
  BY <1>7, <1>8, <1>10, <1>11 DEF Passes
<1>15. QED BY <1>12, <1>13, <1>14 DEF t

Joined(s, b) == {j \in DOMAIN s : b <= j /\ (b + 1)..j \cap Starts(s) = {}}

\* Sorted by place, as far as the second pass relies on it.
Placed(s) ==
  \A i, j \in DOMAIN s :
    i < j /\ s[i].file = s[j].file /\ s[i].family = s[j].family => s[i].line <= s[j].line

LEMMA SortPlaces ==
  ASSUME NEW s \in Seq(Finding)
  PROVE  Placed(StableSort(s, ByPlace(s)))
<1> DEFINE t == StableSort(s, ByPlace(s))
<1>1. StrictOrder(DOMAIN s, Stably(s, ByPlace(s)))
  BY CorrelatorOrders
<1>2. t \in Seq(Finding) /\ DOMAIN t = DOMAIN s
  BY <1>1, StableSortIs
<1>3. PICK order \in [DOMAIN s -> DOMAIN s] :
        /\ \A k \in DOMAIN s : t[k] = s[order[k]]
        /\ \A i \in DOMAIN s : \E k \in DOMAIN s : order[k] = i
        /\ \A k, l \in DOMAIN s : k < l => <<order[k], order[l]>> \in Stably(s, ByPlace(s))
        /\ \A k, l \in DOMAIN s : order[k] = order[l] => k = l
  BY <1>1, StableSortIs, Zenon
<1> HIDE DEF t
<1> SUFFICES ASSUME NEW k \in DOMAIN s, NEW l \in DOMAIN s, k < l,
                    t[k].file = t[l].file, t[k].family = t[l].family
             PROVE  t[k].line <= t[l].line
  BY <1>2 DEF Placed, t
<1> DEFINE f == s[order[k]]
           g == s[order[l]]
<1>4. order[k] \in DOMAIN s /\ order[l] \in DOMAIN s /\ t[k] = f /\ t[l] = g
  BY <1>3
<1>5. f \in Finding /\ g \in Finding
  BY <1>4
<1>6. f.line \in Nat /\ g.line \in Nat /\ f.file \in Nat /\ f.family \in Nat
  BY <1>5, FindingTypes
<1>7. \/ <<order[k], order[l]>> \in ByPlace(s)
      \/ <<order[l], order[k]>> \notin ByPlace(s)
  BY <1>3 DEF Stably
<1>8. <<order[k], order[l]>> \in ByPlace(s) => f.line < g.line
  BY <1>4, <1>6 DEF ByPlace
<1>9. g.line < f.line => <<order[l], order[k]>> \in ByPlace(s)
  BY <1>4 DEF ByPlace, Pairs
<1>10. QED BY <1>4, <1>6, <1>7, <1>8, <1>9

\* What joins a group of the second pass is one weakness in one file, in
\* the eyes of code analyzers, and no line from one to another is out of reach.
LEMMA JoinedIs ==
  ASSUME NEW S, Coherent(S), NEW s \in Seq(Finding), AllSound(s, S), Placed(s),
         NEW b \in Starts(s)
  PROVE  /\ b \in DOMAIN s /\ b \in Joined(s, b)
         /\ \A i, j \in Joined(s, b) : i # j =>
              /\ Link(s[i], s[j], S)
              /\ s[i].family \notin {NoFamily, Secret} /\ s[i].scanner \in CodeAnalyzers
<1> DEFINE at == Joined(s, b)
           With(j) == /\ Link(s[b], s[j], S) /\ s[b].family \notin {NoFamily, Secret}
                      /\ s[j].scanner \in CodeAnalyzers /\ s[b].scanner \in CodeAnalyzers
           bad == {j \in at : j # b /\ ~With(j)}
<1>1. DOMAIN s = 1..Len(s) /\ Len(s) \in Nat
  OBVIOUS
<1>2. b \in DOMAIN s /\ b \in at
  <2>1. b \in DOMAIN s
    BY DEF Starts
  <2>2. (b + 1)..b = {}
    BY <1>1, <2>1
  <2>3. QED BY <1>1, <2>1, <2>2 DEF Joined
<1>3. ASSUME NEW i \in DOMAIN s
      PROVE  /\ Stems(s[i], S) /\ Extends(s[i], S) /\ Link(s[i], s[i], S)
             /\ s[i].line \in Nat /\ s[i].end \in Nat
  <2>1. Stems(s[i], S) /\ Extends(s[i], S) /\ s[i] \in Finding
    BY DEF AllSound, Sound
  <2>2. QED BY <2>1, TwinsLink, FindingTypes
<1>4. ASSUME NEW i \in DOMAIN s, i - 1 \in DOMAIN s, SameIssue(s[i - 1], s[i])
      PROVE  Link(s[i - 1], s[i], S)
  <2> DEFINE f == s[i - 1]
             g == s[i]
  <2>1. f.file = g.file /\ f.family = g.family /\ g.family \notin {NoFamily, Secret}
        /\ g.line - f.end <= LineWindow
    BY <1>4 DEF SameIssue
  <2>2. f.line <= g.line
    BY <1>1, <1>4, <2>1 DEF Placed
  <2>3. /\ f.line \in Nat /\ f.end \in Nat /\ g.line \in Nat
        /\ \A n \in f.line..(f.end + LineWindow) : Cov(S, f.file, f.family, n)
    BY <1>3, <1>4 DEF Extends
  <2> HIDE DEF f, g
  <2>4. Between(f.line, g.line) \subseteq f.line..(f.end + LineWindow)
    BY <2>1, <2>2, <2>3 DEF Between, LineWindow
  <2>5. QED BY <2>1, <2>3, <2>4 DEF Link, Near, f, g
<1>5. bad = {}
  <2> SUFFICES ASSUME bad # {} PROVE FALSE
    OBVIOUS
  <2>1. bad \in SUBSET DOMAIN s /\ bad \subseteq Nat
    BY <1>1 DEF Joined
  <2>2. IsFiniteSet(DOMAIN s)
    BY <1>1, FS_Interval
  <2>3. IsFiniteSet(bad)
    BY <2>1, <2>2, FS_Subset, Zenon
  <2>4. PICK j \in bad : \A i \in bad : j <= i
    <3> HIDE DEF bad
    <3>1. QED BY <2>1, <2>3, LeastAndGreatest
  <2> HIDE DEF With
  <2>5. /\ j \in DOMAIN s /\ j # b /\ b <= j /\ (b + 1)..j \cap Starts(s) = {} /\ ~With(j)
        /\ j \in Nat /\ b \in Nat
    BY <1>1, <1>2, <2>4 DEF Joined
  <2>6. j \in (b + 1)..j
    BY <2>5
  <2>7. j \notin Starts(s)
    BY <2>5, <2>6
  <2>8. SameIssue(s[j - 1], s[j])
    BY <2>5, <2>7 DEF Starts
  <2>9. j - 1 \in DOMAIN s /\ b <= j - 1 /\ (b + 1)..(j - 1) \subseteq (b + 1)..j
    BY <1>1, <1>2, <2>5
  <2>10. j - 1 \in at /\ j - 1 \notin bad
    BY <1>1, <2>4, <2>5, <2>9 DEF Joined
  <2>11. j - 1 = b \/ With(j - 1)
    BY <2>10
  <2>12. /\ s[j].family # NoFamily /\ s[j - 1].family = s[j].family
         /\ s[j].family # Secret
         /\ s[j].scanner \in CodeAnalyzers /\ s[j - 1].scanner \in CodeAnalyzers
    BY <2>8 DEF SameIssue
  <2>13. Link(s[b], s[j - 1], S) /\ s[b].scanner \in CodeAnalyzers
    BY <1>2, <1>3, <2>11, <2>12 DEF With
  <2>14. Link(s[b], s[j], S)
    BY <1>2, <1>3, <1>4, <2>5, <2>8, <2>9, <2>13, LinkOn
  <2>15. s[b].family = s[j].family
    BY <2>14 DEF Link, Near
  <2>16. With(j)
    BY <2>12, <2>13, <2>14, <2>15 DEF With
  <2>17. QED BY <2>5, <2>16
<1>6. ASSUME NEW i \in at, NEW j \in at, i # j
      PROVE  (With(i) /\ With(j)) \/ (i = b /\ With(j)) \/ (j = b /\ With(i))
  BY <1>5, <1>6
<1>7. at \subseteq DOMAIN s
  BY DEF Joined
<1>8. ASSUME NEW i \in at, NEW j \in at, i # j
      PROVE  /\ Link(s[i], s[j], S)
             /\ s[i].family \notin {NoFamily, Secret} /\ s[i].scanner \in CodeAnalyzers
  <2>1. /\ Link(s[b], s[i], S) /\ Link(s[b], s[j], S)
        /\ s[b].family \notin {NoFamily, Secret} /\ s[i].scanner \in CodeAnalyzers
    BY <1>2, <1>3, <1>6, <1>8
  <2>2. Link(s[i], s[b], S)
    BY <1>2, <1>3, <1>7, <2>1, LinkBack
  <2>3. Link(s[i], s[j], S)
    BY <1>2, <1>3, <1>7, <2>1, <2>2, LinkOn
  <2>4. QED BY <2>1, <2>2, <2>3 DEF Link, Near
<1>9. QED BY <1>2, <1>8

\* Each finding joins exactly one group.
LEMMA EachJoins ==
  ASSUME NEW s \in Seq(Finding), NEW i \in DOMAIN s
  PROVE  /\ \E b \in Starts(s) : i \in Joined(s, b)
         /\ \A a, b \in Starts(s) : i \in Joined(s, a) /\ i \in Joined(s, b) => a = b
<1> DEFINE earlier == {b \in Starts(s) : b <= i}
<1>1. DOMAIN s = 1..Len(s) /\ Len(s) \in Nat /\ Starts(s) \subseteq DOMAIN s
  BY DEF Starts
<1>2. earlier \in SUBSET DOMAIN s /\ earlier \subseteq Nat
  BY <1>1
<1>3. IsFiniteSet(DOMAIN s)
  BY <1>1, FS_Interval
<1>4. IsFiniteSet(earlier)
  BY <1>2, <1>3, FS_Subset, Zenon
<1>5. 1 \in earlier
  BY <1>1 DEF Starts
<1>6. PICK b \in earlier : \A a \in earlier : a <= b
  <2> HIDE DEF earlier
  <2>1. earlier # {}
    BY <1>5
  <2>2. QED BY <1>2, <1>4, <2>1, LeastAndGreatest
<1>7. b \in Starts(s) /\ b <= i
  BY <1>6
<1>8. (b + 1)..i \cap Starts(s) = {}
  BY <1>1, <1>6, <1>7
<1>9. i \in Joined(s, b)
  BY <1>7, <1>8 DEF Joined
<1>10. ASSUME NEW a \in Starts(s), NEW c \in Starts(s), i \in Joined(s, a), i \in Joined(s, c),
              a < c
       PROVE  FALSE
  <2>1. a \in Nat /\ c \in Nat /\ i \in Nat
    BY <1>1
  <2>2. c <= i /\ (a + 1)..i \cap Starts(s) = {}
    BY <1>10 DEF Joined
  <2>3. c \in (a + 1)..i
    BY <1>10, <2>1, <2>2
  <2>4. QED BY <2>2, <2>3
<1>11. \A a, c \in Starts(s) : a < c \/ c < a \/ a = c
  BY <1>1
<1>12. QED BY <1>7, <1>9, <1>10, <1>11

\* A group of the second pass becomes one finding.
LEMMA GroupIs ==
  ASSUME NEW S, Coherent(S), NEW s \in Seq(Finding), AllSound(s, S), Placed(s),
         NEW b \in Starts(s)
  PROVE  LET g == GroupFrom(s, Starts(s), b)
             f == IF Len(g) > 1 THEN Merge(g) ELSE g[1]
         IN  /\ Sound(f, S)
             /\ \A i \in Joined(s, b) : Absorbs(f, s[i]) /\ Link(s[i], f, S)
             /\ \E i \in Joined(s, b) : SameOrigin(f, s[i]) /\ f.verdict = s[i].verdict
<1> DEFINE g == GroupFrom(s, Starts(s), b)
           f == IF Len(g) > 1 THEN Merge(g) ELSE g[1]
           at == Joined(s, b)
<1>1. at \in SUBSET DOMAIN s /\ g = ElementsAt(s, at) /\ b \in at
  BY JoinedIs DEF GroupFrom, Joined
<1>2. \A i, j \in at : i # j =>
        /\ Link(s[i], s[j], S)
        /\ s[i].family \notin {NoFamily, Secret} /\ s[i].scanner \in CodeAnalyzers
  BY JoinedIs, Zenon
<1>3. \A i \in DOMAIN s : s[i] \in Finding /\ Sound(s[i], S) /\ Link(s[i], s[i], S)
  BY TwinsLink DEF AllSound, Sound
<1> HIDE DEF g, at
<1>4. /\ IsFiniteSet(at) /\ g \in Seq(Finding) /\ Len(g) = Cardinality(at)
      /\ \A k \in DOMAIN g : \E i \in at : g[k] = s[i]
      /\ \A i \in at : \E k \in DOMAIN g : g[k] = s[i]
  BY <1>1, ElementsAtIs
<1>5. g # <<>> /\ 1 \in DOMAIN g /\ Len(g) \in Nat /\ DOMAIN g = 1..Len(g)
  BY <1>1, <1>4
<1>6. AllSound(g, S)
  BY <1>1, <1>3, <1>4 DEF AllSound
<1>7. CASE Len(g) > 1
  <2>1. at # {b}
    <3> SUFFICES ASSUME at = {b} PROVE FALSE
      OBVIOUS
    <3>1. Cardinality(at) = 1
      BY FS_Singleton, Zenon
    <3>2. Len(g) = 1
      BY <1>4, <3>1
    <3>3. QED BY <1>7, <3>2
  <2>2. PICK c \in at : c # b
    BY <1>1, <2>1
  <2>3. \A i \in at : s[i].family \notin {NoFamily, Secret} /\ s[i].scanner \in CodeAnalyzers
    BY <1>1, <1>2, <2>2
  <2>4. OneWeakness(g, S)
    <3> SUFFICES ASSUME NEW k \in DOMAIN g, NEW l \in DOMAIN g
                 PROVE  /\ Link(g[k], g[l], S)
                        /\ g[k].family \notin {NoFamily, Secret} /\ g[k].scanner \in CodeAnalyzers
      BY DEF OneWeakness
    <3>1. PICK i \in at : g[k] = s[i]
      BY <1>4
    <3>2. PICK j \in at : g[l] = s[j]
      BY <1>4
    <3>3. Link(s[i], s[j], S)
      BY <1>1, <1>2, <1>3
    <3>4. QED BY <2>3, <3>1, <3>2, <3>3
  <2>5. /\ Sound(Merge(g), S)
        /\ \A k \in DOMAIN g : Absorbs(Merge(g), g[k]) /\ Link(g[k], Merge(g), S)
        /\ \E k \in DOMAIN g : SameOrigin(Merge(g), g[k]) /\ Merge(g).verdict = g[k].verdict
    BY <1>4, <1>5, <1>6, <2>4, MergeIsSound
  <2>6. f = Merge(g)
    BY <1>7
  <2> HIDE DEF f
  <2>7. \A i \in at : Absorbs(f, s[i]) /\ Link(s[i], f, S)
    BY <1>4, <2>5, <2>6
  <2>8. PICK k \in DOMAIN g : SameOrigin(Merge(g), g[k]) /\ Merge(g).verdict = g[k].verdict
    BY <2>5
  <2>9. PICK i \in at : g[k] = s[i]
    BY <1>4
  <2>10. \E j \in at : SameOrigin(f, s[j]) /\ f.verdict = s[j].verdict
    BY <2>6, <2>8, <2>9
  <2>11. QED BY <2>5, <2>6, <2>7, <2>10 DEF f, g, at
<1>8. CASE ~(Len(g) > 1)
  <2>1. f = g[1]
    BY <1>8
  <2> HIDE DEF f
  <2>2. PICK i \in at : g[1] = s[i]
    BY <1>4, <1>5
  <2>3. SameOrigin(f, s[i]) /\ f.verdict = s[i].verdict
    BY <2>1, <2>2 DEF SameOrigin
  <2>4. Sound(f, S)
    BY <1>5, <1>6, <2>1 DEF AllSound
  <2>5. ASSUME NEW j \in at PROVE Absorbs(f, s[j]) /\ Link(s[j], f, S)
    <3>1. PICK k \in DOMAIN g : g[k] = s[j]
      BY <1>4
    <3>2. k = 1
      BY <1>5, <1>8
    <3>3. s[j] = f /\ f \in Finding /\ Link(s[j], f, S)
      BY <1>1, <1>3, <2>1, <3>1, <3>2
    <3>4. QED BY <3>3, FindingTypes DEF Absorbs
  <2>6. QED BY <2>3, <2>4, <2>5 DEF f, g, at
<1>9. QED BY <1>7, <1>8

\* The second pass: nothing lost, merged for a reason, still one for a
\* fingerprint.
LEMMA ProximityPass ==
  ASSUME NEW S, Coherent(S), NEW s \in Seq(Finding), AllSound(s, S), PrintsApart(s),
         Placed(s)
  PROVE  /\ Passes(ByProximity(s), s, S) /\ AllSound(ByProximity(s), S)
         /\ PrintsApart(ByProximity(s))
<1> DEFINE starts == Starts(s)
           n == Cardinality(starts)
           first == InOrder(starts)
           t == ByProximity(s)
<1>1. DOMAIN s = 1..Len(s) /\ Len(s) \in Nat
  OBVIOUS
<1>2. starts \subseteq DOMAIN s /\ IsFiniteSet(DOMAIN s)
  BY <1>1, FS_Interval DEF Starts
<1>3. IsFiniteSet(starts) /\ starts \subseteq Nat
  BY <1>1, <1>2, FS_Subset
<1>4. /\ n \in Nat /\ first \in [1..n -> starts]
      /\ \A b \in starts : \E k \in 1..n : first[k] = b
      /\ \A k, l \in 1..n : k < l => first[k] < first[l]
  BY <1>3, InOrderIs
<1> DEFINE one(b) == LET g == GroupFrom(s, starts, b) IN IF Len(g) > 1 THEN Merge(g) ELSE g[1]
<1>5. t = [k \in DOMAIN first |-> one(first[k])]
  BY DEF ByProximity
<1>6. \A b \in starts :
        /\ Sound(one(b), S)
        /\ \A i \in Joined(s, b) : Absorbs(one(b), s[i]) /\ Link(s[i], one(b), S)
        /\ \E i \in Joined(s, b) : SameOrigin(one(b), s[i]) /\ one(b).verdict = s[i].verdict
  BY GroupIs, Zenon
<1> HIDE DEF n, first, t, one
<1>7. DOMAIN t = 1..n /\ \A k \in 1..n : t[k] = one(first[k]) /\ first[k] \in starts
  BY <1>4, <1>5
<1>8. ASSUME NEW k \in 1..n
      PROVE  /\ Sound(t[k], S)
             /\ \A i \in Joined(s, first[k]) : Absorbs(t[k], s[i]) /\ Link(s[i], t[k], S)
             /\ \E i \in Joined(s, first[k]) :
                  i \in DOMAIN s /\ SameOrigin(t[k], s[i]) /\ t[k].verdict = s[i].verdict
  BY <1>6, <1>7 DEF Joined
<1>9. t \in Seq(Finding)
  <2>1. \A k \in 1..n : t[k] \in Finding
    BY <1>8 DEF Sound, FindingOK
  <2>2. t \in [1..n -> Finding]
    BY <1>4, <1>5, <1>7, <2>1
  <2>3. QED BY <1>4, <2>2
<1>10. ASSUME NEW i \in DOMAIN s
       PROVE  \E k \in 1..n : Absorbs(t[k], s[i]) /\ Link(s[i], t[k], S)
  <2>1. PICK b \in starts : i \in Joined(s, b)
    BY EachJoins
  <2>2. PICK k \in 1..n : first[k] = b
    BY <1>4
  <2>3. QED BY <1>8, <2>1, <2>2
<1>11. PrintsApart(t)
  <2> SUFFICES ASSUME NEW k \in 1..n, NEW l \in 1..n, t[k].print = t[l].print
               PROVE  k = l
    BY <1>7 DEF PrintsApart
  <2>1. PICK i \in Joined(s, first[k]) : i \in DOMAIN s /\ SameOrigin(t[k], s[i])
    BY <1>8
  <2>2. PICK j \in Joined(s, first[l]) : j \in DOMAIN s /\ SameOrigin(t[l], s[j])
    BY <1>8
  <2>3. i = j
    BY <2>1, <2>2 DEF SameOrigin, PrintsApart
  <2>4. first[k] = first[l]
    BY <1>7, <2>1, <2>2, <2>3, EachJoins, Zenon
  <2>5. first[k] \in Nat /\ first[l] \in Nat
    BY <1>3, <1>7
  <2>6. ~(k < l) /\ ~(l < k)
    BY <1>4, <2>4, <2>5
  <2>7. QED BY <1>4, <2>6
<1>12. AllSound(t, S)
  BY <1>7, <1>8 DEF AllSound
<1>13. Passes(t, s, S)
  <2>1. ASSUME NEW k \in 1..n
        PROVE  \E i \in DOMAIN s : SameOrigin(t[k], s[i]) /\ t[k].verdict = s[i].verdict
    BY <1>8
  <2>2. QED BY <1>7, <1>9, <1>10, <2>1 DEF Passes
<1>14. QED BY <1>11, <1>12, <1>13 DEF t

\* The correlator as a whole, for any findings and however often it runs.
LEMMA CorrelatedIs ==
  ASSUME NEW S, Coherent(S), NEW s \in Seq(Finding), AllSound(s, S)
  PROVE  /\ Passes(Correlated(s), s, S) /\ AllSound(Correlated(s), S)
         /\ PrintsApart(Correlated(s))
<1> DEFINE merged == ByFingerprint(s)
           sorted == StableSort(merged, ByPlace(merged))
           result == ByProximity(sorted)
           last == StableSort(result, BySeverity(result))
<1>1. Correlated(s) = last
  BY DEF Correlated
<1>2. Passes(merged, s, S) /\ AllSound(merged, S) /\ PrintsApart(merged)
  BY FingerprintPass
<1> HIDE DEF merged
<1>3. merged \in Seq(Finding)
  BY <1>2 DEF Passes
<1>4. StrictOrder(DOMAIN merged, Stably(merged, ByPlace(merged)))
  BY <1>3, CorrelatorOrders
<1>5. /\ Passes(sorted, merged, S) /\ AllSound(sorted, S) /\ PrintsApart(sorted)
      /\ Placed(sorted)
  BY <1>2, <1>3, <1>4, SortPasses, SortPlaces
<1> HIDE DEF sorted
<1>6. sorted \in Seq(Finding)
  BY <1>5 DEF Passes
<1>7. Passes(result, sorted, S) /\ AllSound(result, S) /\ PrintsApart(result)
  BY <1>5, <1>6, ProximityPass
<1> HIDE DEF result
<1>8. result \in Seq(Finding)
  BY <1>7 DEF Passes
<1>9. StrictOrder(DOMAIN result, Stably(result, BySeverity(result)))
  BY <1>8, CorrelatorOrders
<1>10. Passes(last, result, S) /\ AllSound(last, S) /\ PrintsApart(last)
  BY <1>7, <1>8, <1>9, SortPasses
<1> HIDE DEF last
<1>11. Passes(sorted, s, S)
  BY <1>2, <1>5, PassesThrough
<1>12. Passes(result, s, S)
  BY <1>5, <1>7, <1>11, PassesThrough
<1>13. Passes(last, s, S)
  BY <1>7, <1>10, <1>12, PassesThrough
<1>14. QED BY <1>1, <1>10, <1>13

-----------------------------------------------------------------------------
(* The invariant of the scanners and the discovery.                        *)

Outputted(name) == [findings : Outputs[name] \cup {<<>>}, error : BOOLEAN, done : BOOLEAN]

ScanInv ==
  /\ pc \in Places /\ repo \in Repos /\ warned \in BOOLEAN
  /\ plan \in Seq(Range(Scanners)) /\ Range(plan) \subseteq Adapters
  /\ DOMAIN outs = Range(plan)
  /\ \A name \in DOMAIN outs : outs[name] \in Outputted(name)

LEMMA ScanInvInit == Init => ScanInv
<1> SUFFICES ASSUME Init PROVE ScanInv
  OBVIOUS
<1>1. plan = <<>> /\ outs = << >> /\ pc = "checkout" /\ repo \in Repos /\ warned = FALSE
  BY DEF Init
<1>2. Range(plan) = {} /\ DOMAIN outs = {}
  BY <1>1 DEF Range
<1>3. plan \in Seq(Range(Scanners))
  BY <1>1
<1>4. pc \in Places /\ warned \in BOOLEAN
  BY <1>1 DEF Places
<1>5. QED BY <1>1, <1>2, <1>3, <1>4 DEF ScanInv

LEMMA ScanInvStep == ScanInv /\ [Next]_vars => ScanInv'
<1> SUFFICES ASSUME ScanInv, [Next]_vars PROVE ScanInv'
  OBVIOUS
<1> USE DEF discovery, analysis, workspace
<1>1. ASSUME UNCHANGED <<plan, outs, repo>>, pc' \in Places, warned' \in BOOLEAN
      PROVE  ScanInv'
  BY <1>1 DEF ScanInv, Adapters, Outputted
<1>2. CASE Checkout \/ Gather \/ Correlate
  <2>1. UNCHANGED <<plan, outs, repo, warned>> /\ pc' \in Places
    BY <1>2, Zenon DEF Checkout, Gather, Correlate, Places
  <2>2. QED BY <1>1, <2>1 DEF ScanInv
<1>3. CASE Plan
  <2>1. PICK at \in SUBSET DOMAIN Scanners :
          plan' = ElementsAt(Scanners, at) /\ \A k \in at : Scanners[k] \in Adapters
    BY <1>3 DEF Plan
  <2>2. Scanners \in Seq(Range(Scanners))
    <3>1. DOMAIN Scanners = 1..5 /\ Scanners = [k \in 1..5 |-> Scanners[k]]
      BY DEF Scanners
    <3>2. Scanners \in [1..5 -> Range(Scanners)]
      BY <3>1 DEF Range
    <3>3. PICK n \in Nat : n = 5
      OBVIOUS
    <3>4. Scanners \in [1..n -> Range(Scanners)]
      BY <3>2, <3>3
    <3> HIDE DEF Scanners
    <3>5. QED BY <3>4
  <2>3. /\ plan' \in Seq(Range(Scanners))
        /\ \A k \in DOMAIN plan' : \E i \in at : plan'[k] = Scanners[i]
    BY <2>1, <2>2, ElementsAtIs
  <2>4. Range(plan') \subseteq Adapters /\ Range(plan') \subseteq Range(Scanners)
    BY <2>1, <2>3 DEF Range
  <2>5. outs' = [name \in Range(plan') |-> Running] /\ pc' = "scan" /\ UNCHANGED <<repo, warned>>
    BY <1>3 DEF Plan
  <2>6. \A name \in DOMAIN outs' : outs'[name] \in Outputted(name)
    BY <2>5 DEF Outputted, Running
  <2>7. QED BY <2>3, <2>4, <2>5, <2>6 DEF ScanInv, Places, Adapters, Outputted
<1>4. ASSUME NEW name \in DOMAIN outs, Scanned(name)
      PROVE  ScanInv'
  <2>1. PICK out \in Outputs[name] \cup {<<>>}, error \in BOOLEAN :
          outs' = [outs EXCEPT ![name] = [findings |-> out, error |-> error, done |-> TRUE]]
    BY <1>4 DEF Scanned
  <2>2. DOMAIN outs' = DOMAIN outs
    BY <2>1
  <2>3. \A n \in DOMAIN outs : outs'[n] \in Outputted(n)
    BY <2>1 DEF Outputted, ScanInv
  <2>4. QED BY <1>4, <2>2, <2>3 DEF ScanInv, Scanned, Adapters, Outputted
<1>5. ASSUME NEW name \in DOMAIN outs, RecordFails(name)
      PROVE  ScanInv'
  <2>1. outs' = [outs EXCEPT ![name].done = TRUE] /\ DOMAIN outs' = DOMAIN outs
    BY <1>5 DEF RecordFails
  <2>2. outs[name] \in Outputted(name)
    BY DEF ScanInv
  <2>3. outs'[name] \in Outputted(name)
    BY <2>1, <2>2 DEF Outputted
  <2>4. \A n \in DOMAIN outs : outs'[n] \in Outputted(n)
    BY <2>1, <2>3 DEF ScanInv
  <2>5. QED BY <1>5, <2>1, <2>4 DEF ScanInv, RecordFails, Adapters, Outputted, Places
<1>6. CASE StartAnalysis
  <2>1. UNCHANGED <<plan, outs, repo>> /\ pc' \in Places
    BY <1>6 DEF StartAnalysis, Places
  <2>2. warned' \in BOOLEAN
    BY <1>6, Zenon DEF StartAnalysis
  <2>3. QED BY <1>1, <2>1, <2>2
<1>7. CASE AskBatch
  <2>1. UNCHANGED <<plan, outs, repo, pc>>
    BY <1>7, Zenon DEF AskBatch
  <2>2. PICK failed \in BOOLEAN : warned' = (warned \/ failed)
    BY <1>7, Zenon DEF AskBatch
  <2>3. QED BY <1>1, <2>1, <2>2 DEF ScanInv
<1>8. CASE Analysed \/ StartDiscovery \/ Claimed \/ MergeDiscovered \/ Report
  <2>1. UNCHANGED <<plan, outs, repo, warned>>
    BY <1>8, Zenon DEF Analysed, StartDiscovery, Claimed, MergeDiscovered, Report
  <2>2. pc' \in Places
    BY <1>8 DEF Analysed, StartDiscovery, Claimed, MergeDiscovered, Report, Places
  <2>3. QED BY <1>1, <2>1, <2>2 DEF ScanInv
<1>9. CASE Review
  <2>1. UNCHANGED <<plan, outs, repo, pc>> /\ (warned' = TRUE \/ UNCHANGED warned)
    BY <1>9, Zenon DEF Review
  <2>2. QED BY <1>1, <2>1 DEF ScanInv
<1>10. CASE UNCHANGED vars
  BY <1>1, <1>10 DEF vars, ScanInv
<1>11. QED BY <1>2, <1>3, <1>4, <1>5, <1>6, <1>7, <1>8, <1>9, <1>10 DEF Next

\* What a scanner reports is a finding, into which nothing is merged yet.
LEMMA ReportedIs ==
  ASSUME ScanInv, NEW r \in Reported
  PROVE  r \in Originals /\ FindingOK(r) /\ r.merged = {}
<1>1. PICK name \in DOMAIN outs : r \in Range(outs[name].findings)
  BY DEF Reported
<1>2. PICK i \in DOMAIN outs[name].findings : r = outs[name].findings[i]
  BY <1>1 DEF Range
<1>3. name \in Range(Scanners)
  BY DEF ScanInv, Range
<1>4. outs[name].findings \in Outputs[name]
  <2>1. outs[name].findings \in Outputs[name] \cup {<<>>}
    BY DEF ScanInv, Outputted
  <2>2. QED BY <1>2, <2>1
<1>5. /\ r \in Finding /\ r.end >= r.line /\ r.also = {} /\ r.merged = {}
  BY <1>2, <1>3, <1>4, OutputsAssumption
<1>6. r \in Originals
  BY <1>1, <1>3, <1>4 DEF Originals
<1>7. QED BY <1>5, <1>6 DEF FindingOK

-----------------------------------------------------------------------------
(* The discovery.                                                          *)

\* Only a believed claim adds to what the discovery has found.
LEMMA StepOnFound ==
  ASSUME [Next]_vars
  PROVE  \/ UNCHANGED found
         \/ /\ pc = "reviewing" /\ UNCHANGED findings
            /\ \E claim \in Claims : ~Known(claim) /\ found' = Append(found, Discovered(claim))
<1> USE DEF discovery, analysis
<1>1. CASE Claimed
  BY <1>1, Zenon DEF Claimed, Believed
<1>2. CASE Checkout \/ Plan \/ Gather \/ Correlate
  BY <1>2, Zenon DEF Checkout, Plan, Gather, Correlate
<1>3. CASE StartAnalysis \/ AskBatch \/ Analysed
  BY <1>3, Zenon DEF StartAnalysis, AskBatch, Analysed
<1>4. CASE StartDiscovery \/ Review \/ MergeDiscovered \/ Report
  BY <1>4, Zenon DEF StartDiscovery, Review, MergeDiscovered, Report
<1>5. CASE \E name \in DOMAIN outs : Scanned(name) \/ RecordFails(name)
  BY <1>5, Zenon DEF Scanned, RecordFails
<1>6. CASE UNCHANGED vars
  BY <1>6, Zenon DEF vars
<1>7. QED
  BY <1>1, <1>2, <1>3, <1>4, <1>5, <1>6, Zenon DEF Next

Found == {Discovered(claim) : claim \in Claims}

\* Findings of the discovery come from claims, and so have lines.
FoundOK == found \in Seq(Found)

LEMMA FoundIs ==
  ASSUME NEW f \in Found
  PROVE  /\ f \in Originals /\ FindingOK(f) /\ f.also = {} /\ f.merged = {}
         /\ f.verdict # "none"
<1>1. PICK claim \in Claims : f = Discovered(claim)
  BY DEF Found
<1>2. f \in Originals
  BY <1>1 DEF Originals
<1>3. /\ claim.rule \in Rules /\ claim.print \in Prints
      /\ claim.file \in Nat /\ claim.line \in Nat \ {0} /\ claim.family \in Nat
      /\ claim.severity \in Severities
  BY ClaimsAssumption
<1>4. f \in Finding
  <2> DEFINE verdict == IF claim.confidence >= 75 THEN "true_positive" ELSE "needs_review"
  <2>1. verdict \in Verdicts
    BY DEF Verdicts
  <2>2. claim.line \in Nat
    BY <1>3
  <2>3. "llm-review" \in Detectors
    BY DEF Detectors
  <2>4. f = [scanner |-> "llm-review", rule |-> claim.rule, file |-> claim.file,
             line |-> claim.line, end |-> claim.line, severity |-> claim.severity,
             family |-> claim.family, print |-> claim.print, package |-> NoPackage,
             scope |-> "unknown", also |-> {}, merged |-> {}, verdict |-> verdict]
    BY <1>1 DEF Discovered
  <2> HIDE DEF verdict
  <2>5. QED BY <1>3, <2>1, <2>2, <2>3, <2>4 DEF Finding
<1>5. f.end >= f.line /\ f.also = {} /\ f.merged = {} /\ f.verdict # "none"
  BY <1>1, <1>3 DEF Discovered
<1>6. QED BY <1>2, <1>4, <1>5 DEF FindingOK

\* The discovery shows selected files only, in requests that are counted.
DiscoveryInv ==
  /\ FoundOK /\ reviews \in 0..MaxReviews
  /\ unread \in Seq(Selected) /\ shown \subseteq Selected
  /\ pc = "checkout" => unread = <<>> /\ shown = {}

LEMMA SelectedIs == ScanInv => Selected \subseteq Nat /\ IsFiniteSet(Selected)
<1> SUFFICES ASSUME ScanInv PROVE Selected \subseteq Nat /\ IsFiniteSet(Selected)
  OBVIOUS
<1>1. repo.sources \subseteq Nat /\ IsFiniteSet(repo.sources)
  BY SizesAssumption DEF ScanInv
<1>2. Selected \in SUBSET repo.sources
  BY DEF Selected
<1>3. IsFiniteSet(Selected)
  BY <1>1, <1>2, FS_Subset, Zenon
<1>4. QED BY <1>1, <1>2, <1>3

LEMMA DiscoveryInvStep == ScanInv /\ DiscoveryInv /\ [Next]_vars => DiscoveryInv'
<1> SUFFICES ASSUME ScanInv, DiscoveryInv, [Next]_vars PROVE DiscoveryInv'
  OBVIOUS
<1> USE DEF discovery, analysis, workspace
<1>1. MaxReviews \in Nat
  BY SizesAssumption
<1>2. FoundOK'
  <2>1. CASE UNCHANGED found
    BY <2>1 DEF FoundOK, DiscoveryInv
  <2>2. CASE \E claim \in Claims : ~Known(claim) /\ found' = Append(found, Discovered(claim))
    <3>1. PICK claim \in Claims : found' = Append(found, Discovered(claim))
      BY <2>2
    <3>2. Discovered(claim) \in Found
      BY DEF Found
    <3>3. QED BY <3>1, <3>2 DEF FoundOK, DiscoveryInv
  <2>3. QED BY <2>1, <2>2, StepOnFound
<1>3. ASSUME UNCHANGED <<repo, changed, unread, shown, reviews>>, pc' # "checkout" \/ UNCHANGED pc
      PROVE  DiscoveryInv'
  BY <1>2, <1>3 DEF DiscoveryInv, Selected, ChangedFiles
<1>4. CASE Checkout
  <2>1. UNCHANGED <<unread, shown, reviews>> /\ pc = "checkout" /\ pc' # "checkout"
    BY <1>4 DEF Checkout
  <2>2. unread' = <<>> /\ shown' = {}
    BY <2>1 DEF DiscoveryInv
  <2>3. unread' \in Seq(Selected)' /\ shown' \subseteq Selected'
    BY <2>2
  <2>4. QED BY <1>2, <2>1, <2>3 DEF DiscoveryInv
<1>5. CASE Plan \/ Gather \/ Correlate
  <2>1. UNCHANGED <<repo, changed, unread, shown, reviews>>
    BY <1>5, Zenon DEF Plan, Gather, Correlate
  <2>2. pc' # "checkout"
    BY <1>5 DEF Plan, Gather, Correlate
  <2>3. QED BY <1>3, <2>1, <2>2
<1>6. CASE StartAnalysis \/ AskBatch \/ Analysed
  <2>1. UNCHANGED <<repo, changed, unread, shown, reviews>>
    BY <1>6, Zenon DEF StartAnalysis, AskBatch, Analysed
  <2>2. pc' # "checkout"
    BY <1>6 DEF StartAnalysis, AskBatch, Analysed
  <2>3. QED BY <1>3, <2>1, <2>2
<1>7. CASE Claimed \/ MergeDiscovered \/ Report
  <2>1. UNCHANGED <<repo, changed, unread, shown, reviews>>
    BY <1>7, Zenon DEF Claimed, MergeDiscovered, Report
  <2>2. pc' # "checkout"
    BY <1>7 DEF Claimed, MergeDiscovered, Report
  <2>3. QED BY <1>3, <2>1, <2>2
<1>8. CASE StartDiscovery
  <2>1. UNCHANGED <<repo, changed, shown, reviews>> /\ pc' # "checkout"
    BY <1>8 DEF StartDiscovery
  <2>2. unread' = InOrder(Selected) \/ UNCHANGED unread
    BY <1>8 DEF StartDiscovery
  <2>3. InOrder(Selected) \in Seq(Selected)
    <3>1. /\ Cardinality(Selected) \in Nat
          /\ InOrder(Selected) \in [1..Cardinality(Selected) -> Selected]
      BY SelectedIs, InOrderIs
    <3>2. QED BY <3>1
  <2>4. Selected' = Selected
    BY <2>1 DEF Selected, ChangedFiles
  <2>5. QED BY <1>2, <2>1, <2>2, <2>3, <2>4 DEF DiscoveryInv
<1>9. CASE Review
  <2>1. /\ UNCHANGED <<repo, changed, pc>> /\ pc = "reviewing"
        /\ reviews < MaxReviews /\ reviews' = reviews + 1
    BY <1>9 DEF Review
  <2>2. PICK k \in 1..Len(unread) :
          \/ shown' = Range(SubSeq(unread, 1, k)) /\ unread' = SubSeq(unread, k + 1, Len(unread))
          \/ shown' = {} /\ unread' \in {SubSeq(unread, k + 1, Len(unread)), <<>>}
    BY <1>9 DEF Review
  <2>3. unread \in Seq(Selected) /\ Len(unread) \in Nat
    BY DEF DiscoveryInv
  <2>4. SubSeq(unread, 1, k) \in Seq(Selected) /\ SubSeq(unread, k + 1, Len(unread)) \in Seq(Selected)
    BY <2>3
  <2>5. Range(SubSeq(unread, 1, k)) \subseteq Selected
    BY <2>4 DEF Range
  <2>6. unread' \in Seq(Selected) /\ shown' \subseteq Selected
    <3>1. <<>> \in Seq(Selected)
      OBVIOUS
    <3>2. QED BY <2>2, <2>4, <2>5, <3>1
  <2>7. Selected' = Selected
    BY <2>1 DEF Selected, ChangedFiles
  <2>8. reviews' \in 0..MaxReviews
    BY <1>1, <2>1 DEF DiscoveryInv
  <2>9. QED BY <1>2, <2>1, <2>6, <2>7, <2>8 DEF DiscoveryInv
<1>10. CASE \E name \in DOMAIN outs : Scanned(name) \/ RecordFails(name)
  <2>1. UNCHANGED <<repo, changed, unread, shown, reviews>>
    BY <1>10, Zenon DEF Scanned, RecordFails
  <2>2. pc' # "checkout" \/ UNCHANGED pc
    BY <1>10 DEF Scanned, RecordFails
  <2>3. QED BY <1>3, <2>1, <2>2
<1>11. CASE UNCHANGED vars
  BY <1>3, <1>11 DEF vars
<1>12. QED BY <1>4, <1>5, <1>6, <1>7, <1>8, <1>9, <1>10, <1>11 DEF Next

-----------------------------------------------------------------------------
(* What is correlated: all that was reported, and nothing else.            *)

RawInv ==
  /\ raw \in Seq(Finding) /\ \A i \in DOMAIN raw : FindingOK(raw[i])
  /\ pc = "correlate" => /\ \A i \in DOMAIN raw : raw[i] \in Reported
                         /\ \A r \in Reported : \E i \in DOMAIN raw : raw[i] = r

LEMMA SlotsAre ==
  ASSUME ScanInv
  PROVE  IsFiniteSet(Slots) /\ StrictOrder(Slots, Earlier)
<1> DEFINE n == Len(plan)
           h == [k \in 1..n |-> Len(outs[plan[k]].findings)]
<1>1. n \in Nat /\ DOMAIN plan = 1..n
  BY DEF ScanInv
<1>2. ASSUME NEW k \in 1..n
      PROVE  outs[plan[k]].findings \in Seq(Finding)
  <2>1. plan[k] \in Range(Scanners) /\ plan[k] \in DOMAIN outs
    BY <1>1 DEF ScanInv, Range
  <2>2. outs[plan[k]].findings \in Outputs[plan[k]] \cup {<<>>}
    BY <2>1 DEF ScanInv, Outputted
  <2>3. <<>> \in Seq(Finding)
    OBVIOUS
  <2>4. QED BY <2>1, <2>2, <2>3, OutputsAssumption, Zenon
<1>3. \A k \in 1..n : /\ DOMAIN outs[plan[k]].findings = 1..h[k] /\ h[k] \in Nat
  BY <1>2
<1>4. h \in [1..n -> Nat]
  BY <1>2
<1>5. \A p \in Slots : p[1] \in 1..n /\ p[2] \in 1..h[p[1]] /\ p = <<p[1], p[2]>>
  BY <1>1, <1>3 DEF Slots
<1> HIDE DEF h, n
<1>6. IsFiniteSet(Slots)
  <2>1. CASE n = 0
    <3>1. Slots = {}
      BY <1>5, <2>1
    <3>2. QED BY <3>1, FS_EmptySet
  <2>2. CASE n # 0
    <3> DEFINE m == MaxOf({h[i] : i \in 1..n})
    <3>1. n \in Nat \ {0}
      BY <1>1, <2>2
    <3>2. m \in {h[i] : i \in 1..n} /\ \A l \in {h[i] : i \in 1..n} : l <= m
      BY <1>4, <3>1, MaxOfValues, Zenon
    <3> HIDE DEF m
    <3>3. m \in Nat /\ \A k \in 1..n : h[k] <= m
      BY <1>4, <3>2
    <3>4. Slots \in SUBSET ((1..n) \X (1..m))
      <4> SUFFICES ASSUME NEW p \in Slots PROVE p \in (1..n) \X (1..m)
        OBVIOUS
      <4>1. p[1] \in 1..n /\ p[2] \in 1..h[p[1]] /\ h[p[1]] \in Nat /\ h[p[1]] <= m
        BY <1>3, <1>5, <3>3
      <4>2. p[2] \in 1..m
        BY <3>3, <4>1
      <4>3. QED BY <1>5, <4>1, <4>2
    <3>5. IsFiniteSet(1..n) /\ IsFiniteSet(1..m)
      BY <1>1, <3>3, FS_Interval
    <3>6. IsFiniteSet((1..n) \X (1..m))
      BY <3>5, FS_Product, Zenon
    <3>7. QED BY <3>4, <3>6, FS_Subset, Zenon
  <2>3. QED BY <2>1, <2>2
<1>7. \A p \in Slots : p[1] \in Nat /\ p[2] \in Nat
  BY <1>1, <1>3, <1>5
<1> DEFINE Less(p, q) == p[1] < q[1] \/ (p[1] = q[1] /\ p[2] < q[2])
<1>8. ASSUME NEW p \in Slots, NEW q \in Slots PROVE <<p, q>> \in Earlier <=> Less(p, q)
  <2> DEFINE e == <<p, q>>
  <2>1. e[1] = p /\ e[2] = q /\ e \in Slots \X Slots
    OBVIOUS
  <2>2. e \in Earlier <=> e[1][1] < e[2][1] \/ (e[1][1] = e[2][1] /\ e[1][2] < e[2][2])
    <3> HIDE DEF e
    <3>1. QED BY <2>1 DEF Earlier
  <2> HIDE DEF e
  <2>3. e \in Earlier <=> Less(p, q)
    BY <2>1, <2>2
  <2>4. QED BY <2>3 DEF e
<1>9. StrictOrder(Slots, Earlier)
  <2>1. ASSUME NEW p \in Slots PROVE <<p, p>> \notin Earlier
    <3>1. ~Less(p, p)
      BY <1>7
    <3>2. QED BY <1>8, <3>1, Zenon
  <2>2. ASSUME NEW p \in Slots, NEW q \in Slots, NEW r \in Slots,
               <<p, q>> \in Earlier, <<q, r>> \in Earlier
        PROVE  <<p, r>> \in Earlier
    <3>1. /\ p[1] \in Nat /\ p[2] \in Nat /\ q[1] \in Nat /\ q[2] \in Nat
          /\ r[1] \in Nat /\ r[2] \in Nat
      BY <1>7
    <3>2. Less(p, q) /\ Less(q, r)
      BY <1>8, <2>2, Zenon
    <3>3. Less(p, r)
      BY <3>1, <3>2
    <3>4. QED BY <1>8, <3>3, Zenon
  <2>3. ASSUME NEW p \in Slots, NEW q \in Slots, p # q
        PROVE  <<p, q>> \in Earlier \/ <<q, p>> \in Earlier
    <3>1. p = <<p[1], p[2]>> /\ q = <<q[1], q[2]>>
      BY <1>5
    <3>2. p[1] # q[1] \/ p[2] # q[2]
      BY <2>3, <3>1
    <3>3. /\ p[1] \in Nat /\ p[2] \in Nat /\ q[1] \in Nat /\ q[2] \in Nat
      BY <1>7
    <3>4. Less(p, q) \/ Less(q, p)
      BY <3>2, <3>3
    <3>5. QED BY <1>8, <3>4, Zenon
  <2>4. QED BY <2>1, <2>2, <2>3, Zenon DEF StrictOrder
<1>10. QED BY <1>6, <1>9

\* What Gather collects.
LEMMA GatherIs ==
  ASSUME ScanInv, Gather
  PROVE  /\ raw' \in Seq(Finding) /\ \A i \in DOMAIN raw' : FindingOK(raw'[i])
         /\ \A i \in DOMAIN raw' : raw'[i] \in Reported
         /\ \A r \in Reported : \E i \in DOMAIN raw' : raw'[i] = r
<1> DEFINE n == Cardinality(Slots)
           order == Enumerated(Slots, Earlier)
           At(p) == outs[plan[p[1]]].findings[p[2]]
<1>1. /\ n \in Nat /\ order \in [1..n -> Slots]
      /\ \A p \in Slots : \E k \in 1..n : order[k] = p
  BY SlotsAre, EnumeratedIs
<1>2. raw' = [i \in DOMAIN order |-> At(order[i])]
  BY DEF Gather
<1>3. ASSUME NEW p \in Slots PROVE At(p) \in Reported
  <2>1. PICK k \in DOMAIN plan : p[1] = k /\ p[2] \in DOMAIN outs[plan[k]].findings
    BY DEF Slots
  <2>2. plan[k] \in DOMAIN outs
    BY DEF ScanInv, Range
  <2>3. At(p) \in Range(outs[plan[k]].findings)
    BY <2>1 DEF Range
  <2>4. QED BY <2>2, <2>3 DEF Reported
<1>4. ASSUME NEW r \in Reported PROVE \E p \in Slots : At(p) = r
  <2>1. PICK name \in DOMAIN outs : r \in Range(outs[name].findings)
    BY DEF Reported
  <2>2. PICK j \in DOMAIN outs[name].findings : outs[name].findings[j] = r
    BY <2>1 DEF Range
  <2>3. PICK k \in DOMAIN plan : plan[k] = name
    BY DEF ScanInv, Range
  <2>4. <<k, j>> \in Slots
    BY <2>2, <2>3 DEF Slots
  <2>5. At(<<k, j>>) = r
    BY <2>2, <2>3
  <2>6. QED BY <2>4, <2>5
<1> HIDE DEF n, order, At
<1>5. DOMAIN raw' = 1..n /\ \A i \in 1..n : raw'[i] = At(order[i]) /\ order[i] \in Slots
  BY <1>1, <1>2
<1>6. \A i \in 1..n : raw'[i] \in Reported
  BY <1>3, <1>5
<1>7. \A i \in 1..n : FindingOK(raw'[i]) /\ raw'[i] \in Finding
  BY <1>6, ReportedIs DEF FindingOK
<1>8. raw' \in Seq(Finding)
  <2>1. raw' \in [1..n -> Finding]
    BY <1>1, <1>2, <1>5, <1>7
  <2>2. QED BY <1>1, <2>1
<1>9. ASSUME NEW r \in Reported PROVE \E i \in 1..n : raw'[i] = r
  <2>1. PICK p \in Slots : At(p) = r
    BY <1>4
  <2>2. PICK i \in 1..n : order[i] = p
    BY <1>1
  <2>3. QED BY <1>5, <2>1, <2>2
<1>10. QED BY <1>5, <1>6, <1>7, <1>8, <1>9

LEMMA RawInvStep == ScanInv /\ RawInv /\ [Next]_vars => RawInv'
<1> SUFFICES ASSUME ScanInv, RawInv, [Next]_vars PROVE RawInv'
  OBVIOUS
<1> USE DEF discovery, analysis, workspace
<1>1. ASSUME UNCHANGED raw, pc' # "correlate" PROVE RawInv'
  BY <1>1 DEF RawInv
<1>2. CASE Gather
  <2>1. outs' = outs
    BY <1>2 DEF Gather
  <2>2. Reported' = Reported
    BY <2>1 DEF Reported
  <2>3. QED BY <1>2, <2>2, GatherIs DEF RawInv
<1>3. CASE Checkout \/ Plan \/ Correlate \/ StartAnalysis
  <2>1. UNCHANGED raw
    BY <1>3, Zenon DEF Checkout, Plan, Correlate, StartAnalysis
  <2>2. pc' # "correlate"
    BY <1>3 DEF Checkout, Plan, Correlate, StartAnalysis
  <2>3. QED BY <1>1, <2>1, <2>2
<1>4. CASE AskBatch \/ Analysed \/ StartDiscovery \/ Review
  <2>1. UNCHANGED raw
    BY <1>4, Zenon DEF AskBatch, Analysed, StartDiscovery, Review
  <2>2. pc' # "correlate"
    BY <1>4 DEF AskBatch, Analysed, StartDiscovery, Review
  <2>3. QED BY <1>1, <2>1, <2>2
<1>5. CASE Claimed \/ MergeDiscovered \/ Report
  <2>1. UNCHANGED raw
    BY <1>5, Zenon DEF Claimed, MergeDiscovered, Report
  <2>2. pc' # "correlate"
    BY <1>5 DEF Claimed, MergeDiscovered, Report
  <2>3. QED BY <1>1, <2>1, <2>2
<1>6. CASE \E name \in DOMAIN outs : Scanned(name) \/ RecordFails(name)
  <2>1. UNCHANGED raw
    BY <1>6, Zenon DEF Scanned, RecordFails
  <2>2. pc' # "correlate"
    BY <1>6 DEF Scanned, RecordFails
  <2>3. QED BY <1>1, <2>1, <2>2
<1>7. CASE UNCHANGED vars
  <2>1. UNCHANGED <<raw, pc, outs>>
    BY <1>7 DEF vars
  <2>2. Reported' = Reported
    BY <2>1 DEF Reported
  <2>3. QED BY <2>1, <2>2 DEF RawInv
<1>8. QED BY <1>2, <1>3, <1>4, <1>5, <1>6, <1>7 DEF Next

-----------------------------------------------------------------------------
(* The analysis: by id, each finding as it was but for its verdict.        *)

Given == Verdicts \ {"none"}

\* Each analysed finding is one of fs, with a verdict.
JudgedFrom(known, fs) ==
  \A id \in DOMAIN known :
    /\ IdOf(known[id]) = id /\ known[id].verdict \in Given
    /\ \E i \in DOMAIN fs : known[id] = Judge(fs[i], known[id].verdict)

LEMMA JudgeIs ==
  ASSUME NEW f \in Finding, NEW verdict \in Verdicts
  PROVE  LET g == Judge(f, verdict)
         IN  /\ g \in Finding /\ g.verdict = verdict /\ IdOf(g) = IdOf(f)
             /\ SameOrigin(g, f) /\ RulesOf(g) = RulesOf(f) /\ g.merged = f.merged
             /\ g.severity = f.severity /\ g.end = f.end
             /\ FindingOK(f) => FindingOK(g)
             /\ Judge(f, g.verdict) = g
<1> DEFINE g == Judge(f, verdict)
<1>1. /\ g = [f EXCEPT !.verdict = verdict]
      /\ g.scanner = f.scanner /\ g.rule = f.rule /\ g.print = f.print /\ g.package = f.package
      /\ g.file = f.file /\ g.line = f.line /\ g.family = f.family /\ g.merged = f.merged
      /\ g.severity = f.severity /\ g.end = f.end /\ g.also = f.also /\ g.verdict = verdict
  BY DEF Judge, Finding
<1>2. g \in Finding
  BY DEF Judge, Finding
<1>3. g = Judge(f, verdict)
  OBVIOUS
<1> HIDE DEF g
<1>4. IdOf(g) = IdOf(f) /\ SameOrigin(g, f) /\ RulesOf(g) = RulesOf(f)
  BY <1>1 DEF IdOf, SameOrigin, RulesOf
<1>5. FindingOK(f) => FindingOK(g)
  BY <1>1, <1>2 DEF FindingOK
<1>6. Judge(f, g.verdict) = g
  BY <1>1, <1>3
<1>7. QED BY <1>1, <1>2, <1>4, <1>5, <1>6 DEF g

LEMMA JudgeIsSound ==
  ASSUME NEW f \in Finding, NEW verdict \in Verdicts, NEW S, Sound(f, S)
  PROVE  Sound(Judge(f, verdict), S)
<1> DEFINE g == Judge(f, verdict)
<1>1. /\ SameOrigin(g, f) /\ g.merged = f.merged /\ g.end = f.end
      /\ FindingOK(f) => FindingOK(g)
  BY JudgeIs
<1> HIDE DEF g
<1>2. FindingOK(g)
  BY <1>1 DEF Sound
<1>3. Stems(g, S) /\ Extends(g, S)
  BY <1>1 DEF Sound, SameOrigin, Stems, Extends
<1>4. ASSUME NEW rule \in g.merged PROVE Justified(g, rule, S)
  <2>1. PICK r \in S, p \in S :
          /\ r.rule = rule /\ r.print = p.print /\ Link(p, f, S)
          /\ p.print = f.print \/ {p.scanner, f.scanner} \subseteq CodeAnalyzers
    BY <1>1, Zenon DEF Sound, Justified
  <2>2. SameOrigin(f, g) /\ SameOrigin(p, p)
    BY <1>1 DEF SameOrigin
  <2>3. Link(p, g, S)
    BY <2>1, <2>2, LinkOfOrigins
  <2>4. QED BY <2>1, <2>2, <2>3 DEF Justified, SameOrigin
<1>5. QED BY <1>2, <1>3, <1>4 DEF Sound, g

LEMMA IntoIs ==
  ASSUME NEW known, NEW s \in Seq(Finding)
  PROVE  /\ DOMAIN Into(known, s) = (DOMAIN known) \cup {IdOf(s[i]) : i \in DOMAIN s}
         /\ \A id \in DOMAIN Into(known, s) :
              \/ \E i \in DOMAIN s : IdOf(s[i]) = id /\ Into(known, s)[id] = s[i]
              \/ id \in DOMAIN known /\ Into(known, s)[id] = known[id]
<1> DEFINE ids == {IdOf(s[i]) : i \in DOMAIN s}
           of(id) == {i \in DOMAIN s : IdOf(s[i]) = id}
           j == Into(known, s)
<1>1. j = [id \in (DOMAIN known) \cup ids |-> IF id \in ids THEN s[MaxOf(of(id))] ELSE known[id]]
  BY DEF Into
<1>2. ASSUME NEW id \in ids
      PROVE  MaxOf(of(id)) \in DOMAIN s /\ IdOf(s[MaxOf(of(id))]) = id
  <2>1. of(id) \in SUBSET DOMAIN s /\ DOMAIN s = 1..Len(s) /\ Len(s) \in Nat
    OBVIOUS
  <2>2. of(id) # {}
    OBVIOUS
  <2> DEFINE places == of(id)
  <2>3. \A i \in places : i \in DOMAIN s /\ IdOf(s[i]) = id
    OBVIOUS
  <2>4. IsFiniteSet(DOMAIN s)
    BY <2>1, FS_Interval
  <2> HIDE DEF places
  <2>5. IsFiniteSet(places) /\ places \subseteq Nat /\ places # {}
    BY <2>1, <2>2, <2>4, FS_Subset DEF places
  <2>6. MaxOf(places) \in places
    BY <2>5, LeastAndGreatest
  <2>7. QED BY <2>3, <2>6 DEF places
<1> HIDE DEF of, j
<1>3. DOMAIN j = (DOMAIN known) \cup ids
  BY <1>1
<1>4. ASSUME NEW id \in DOMAIN j
      PROVE  \/ \E i \in DOMAIN s : IdOf(s[i]) = id /\ j[id] = s[i]
             \/ id \in DOMAIN known /\ j[id] = known[id]
  <2>1. CASE id \in ids
    <3>1. j[id] = s[MaxOf(of(id))]
      BY <1>1, <2>1
    <3>2. QED BY <1>2, <2>1, <3>1
  <2>2. CASE id \notin ids
    <3>1. id \in DOMAIN known /\ j[id] = known[id]
      BY <1>1, <1>3, <2>2
    <3>2. QED BY <3>1
  <2>3. QED BY <2>1, <2>2
<1>5. QED BY <1>3, <1>4 DEF j

LEMMA IntoJudged ==
  ASSUME NEW fs, NEW known, JudgedFrom(known, fs), NEW s \in Seq(Finding),
         \A i \in DOMAIN s : /\ s[i].verdict \in Given
                             /\ \E k \in DOMAIN fs : s[i] = Judge(fs[k], s[i].verdict)
  PROVE  JudgedFrom(Into(known, s), fs)
<1> DEFINE j == Into(known, s)
<1>1. \A id \in DOMAIN j :
        \/ \E i \in DOMAIN s : IdOf(s[i]) = id /\ j[id] = s[i]
        \/ id \in DOMAIN known /\ j[id] = known[id]
  BY IntoIs, Zenon
<1> HIDE DEF j
<1>2. ASSUME NEW id \in DOMAIN j
      PROVE  /\ IdOf(j[id]) = id /\ j[id].verdict \in Given
             /\ \E i \in DOMAIN fs : j[id] = Judge(fs[i], j[id].verdict)
  <2>1. CASE \E i \in DOMAIN s : IdOf(s[i]) = id /\ j[id] = s[i]
    BY <2>1
  <2>2. CASE id \in DOMAIN known /\ j[id] = known[id]
    BY <2>2, Zenon DEF JudgedFrom
  <2>3. QED BY <1>1, <2>1, <2>2
<1>3. QED BY <1>2, Zenon DEF JudgedFrom, j

\* The analysis in its course: whatever is analysed is as the correlator left
\* it, and whatever is not is still to be asked about.
AnalysisInv ==
  /\ pending \in Seq(Finding) /\ \A p \in DOMAIN pending : FindingOK(pending[p])
  /\ \A id \in DOMAIN judged : FindingOK(judged[id]) /\ IdOf(judged[id]) = id
  /\ pc = "asking" =>
       /\ \A p \in DOMAIN pending : \E i \in DOMAIN findings : pending[p] = findings[i]
       /\ JudgedFrom(judged, findings)
       /\ \A i \in DOMAIN findings : \/ IdOf(findings[i]) \in DOMAIN judged
                                     \/ \E p \in DOMAIN pending : pending[p] = findings[i]

FindingsOK == findings \in Seq(Finding) /\ \A i \in DOMAIN findings : FindingOK(findings[i])

LEMMA JudgedOK ==
  ASSUME NEW fs \in Seq(Finding), \A i \in DOMAIN fs : FindingOK(fs[i]),
         NEW known, JudgedFrom(known, fs), NEW id \in DOMAIN known
  PROVE  FindingOK(known[id]) /\ IdOf(known[id]) = id
<1>1. PICK i \in DOMAIN fs : known[id] = Judge(fs[i], known[id].verdict)
  BY DEF JudgedFrom
<1>2. known[id].verdict \in Verdicts /\ IdOf(known[id]) = id
  BY DEF JudgedFrom, Given
<1>3. fs[i] \in Finding
  OBVIOUS
<1>4. FindingOK(Judge(fs[i], known[id].verdict))
  BY <1>2, <1>3, JudgeIs
<1>5. QED BY <1>1, <1>2, <1>4

LEMMA StartAnalysisKeeps ==
  ASSUME FindingsOK, AnalysisInv, StartAnalysis
  PROVE  AnalysisInv'
<1> USE DEF analysis
<1>1. CASE ~Analyze
  BY <1>1 DEF StartAnalysis, AnalysisInv
<1>2. CASE Analyze
  <2> DEFINE unclear == {i \in DOMAIN findings : Deterministic(findings[i]) = {}}
             asked == {i \in unclear : Cardinality({j \in unclear : j < i}) < MaxLlm}
             rest == DOMAIN findings \ asked
  <2>1. PICK evidence \in [rest -> Verdicts] :
          /\ pending' = ElementsAt(findings, asked) /\ findings' = findings /\ pc' = "asking"
          /\ \A i \in rest : evidence[i] \in IF i \in unclear THEN {"needs_review"}
                                             ELSE Deterministic(findings[i])
          /\ judged' = Into(<< >>, ElementsAt(
               [i \in DOMAIN findings |-> IF i \in rest THEN Judge(findings[i], evidence[i])
                                          ELSE findings[i]], rest))
    BY <1>2, Zenon DEF StartAnalysis
  <2>2. asked \in SUBSET DOMAIN findings /\ rest \in SUBSET DOMAIN findings
        /\ \A i \in DOMAIN findings : i \in asked \/ i \in rest
    OBVIOUS
  <2>3. ASSUME NEW i \in rest PROVE evidence[i] \in Given
    <3>1. evidence[i] = "needs_review" \/ evidence[i] \in Deterministic(findings[i])
      BY <2>1
    <3>2. "none" \notin Deterministic(findings[i])
      BY DEF Deterministic
    <3>3. evidence[i] \in Verdicts
      BY <2>1
    <3>4. QED BY <3>1, <3>2, <3>3 DEF Given
  <2> HIDE DEF unclear, asked, rest
  <2> DEFINE s == [i \in DOMAIN findings |-> IF i \in rest THEN Judge(findings[i], evidence[i])
                                             ELSE findings[i]]
             t == ElementsAt(s, rest)
  <2>4. findings \in Seq(Finding) /\ \A i \in DOMAIN findings : findings[i] \in Finding
    BY DEF FindingsOK
  <2>5. \A i \in rest : Judge(findings[i], evidence[i]) \in Finding
    BY <2>2, <2>3, <2>4, JudgeIs DEF Given
  <2>6. s \in Seq(Finding) /\ DOMAIN s = DOMAIN findings
    <3>1. Len(findings) \in Nat /\ DOMAIN findings = 1..Len(findings)
      BY <2>4
    <3>2. s \in [1..Len(findings) -> Finding]
      BY <2>4, <2>5, <3>1
    <3>3. QED BY <3>1, <3>2
  <2>7. \A i \in rest : s[i] = Judge(findings[i], evidence[i])
    BY <2>2
  <2>8. judged' = Into(<< >>, t)
    BY <2>1
  <2> HIDE DEF s
  <2>9. /\ t \in Seq(Finding)
        /\ \A k \in DOMAIN t : \E i \in rest : t[k] = s[i]
        /\ \A i \in rest : \E k \in DOMAIN t : t[k] = s[i]
    BY <2>2, <2>6, ElementsAtIs
  <2> HIDE DEF t
  <2>10. ASSUME NEW k \in DOMAIN t
         PROVE  /\ t[k].verdict \in Given
                /\ \E i \in DOMAIN findings : t[k] = Judge(findings[i], t[k].verdict)
    <3>1. PICK i \in rest : t[k] = Judge(findings[i], evidence[i])
      BY <2>7, <2>9
    <3>2. evidence[i] \in Verdicts /\ evidence[i] \in Given /\ findings[i] \in Finding
      BY <2>2, <2>3, <2>4 DEF Given
    <3>3. t[k].verdict = evidence[i]
      BY <3>1, <3>2, JudgeIs
    <3>4. QED BY <2>2, <3>1, <3>2, <3>3
  <2>11. JudgedFrom(<< >>, findings)
    BY DEF JudgedFrom
  <2>12. JudgedFrom(judged', findings)
    BY <2>8, <2>9, <2>10, <2>11, IntoJudged
  <2>13. /\ pending' \in Seq(Finding)
         /\ \A p \in DOMAIN pending' : \E i \in asked : pending'[p] = findings[i]
         /\ \A i \in asked : \E p \in DOMAIN pending' : pending'[p] = findings[i]
    BY <2>1, <2>2, <2>4, ElementsAtIs
  <2>14. DOMAIN judged' = (DOMAIN << >>) \cup {IdOf(t[k]) : k \in DOMAIN t}
    BY <2>8, <2>9, IntoIs
  <2>15. ASSUME NEW i \in DOMAIN findings
         PROVE  \/ IdOf(findings[i]) \in DOMAIN judged'
                \/ \E p \in DOMAIN pending' : pending'[p] = findings[i]
    <3>1. CASE i \in asked
      BY <2>13, <3>1
    <3>2. CASE i \in rest
      <4>1. PICK k \in DOMAIN t : t[k] = Judge(findings[i], evidence[i])
        BY <2>7, <2>9, <3>2
      <4>2. evidence[i] \in Verdicts
        BY <2>3, <3>2 DEF Given
      <4>3. IdOf(t[k]) = IdOf(findings[i])
        BY <2>4, <4>1, <4>2, JudgeIs
      <4>4. QED BY <2>14, <4>3
    <3>3. QED BY <2>2, <3>1, <3>2
  <2>16. \A p \in DOMAIN pending' : FindingOK(pending'[p])
    BY <2>2, <2>13 DEF FindingsOK
  <2>17. \A id \in DOMAIN judged' : FindingOK(judged'[id]) /\ IdOf(judged'[id]) = id
    BY <2>4, <2>12, JudgedOK DEF FindingsOK
  <2>18. \A p \in DOMAIN pending' : \E i \in DOMAIN findings : pending'[p] = findings[i]
    BY <2>2, <2>13
  <2>19. findings' = findings
    BY <2>1
  <2>20. QED BY <2>12, <2>13, <2>15, <2>16, <2>17, <2>18, <2>19, Zenon DEF AnalysisInv
<1>3. QED BY <1>1, <1>2

LEMMA AskBatchKeeps ==
  ASSUME FindingsOK, AnalysisInv, AskBatch
  PROVE  AnalysisInv'
<1> DEFINE n == Len(pending)
<1>1. PICK k \in 1..MaxBatch, failed \in BOOLEAN :
        /\ k <= n
        /\ LET batch == SubSeq(pending, 1, k)
               ids == {IdOf(batch[i]) : i \in DOMAIN batch}
           IN \E some \in SUBSET ids : \E answers \in [some -> Items] :
                judged' = Into(judged, [i \in DOMAIN batch |->
                  Judge(batch[i], VerdictOf(answers, IdOf(batch[i]), failed))])
        /\ pending' = SubSeq(pending, k + 1, n)
  BY Zenon DEF AskBatch
<1>2. pc = "asking" /\ pc' = pc /\ findings' = findings
  BY DEF AskBatch
<1>3. n \in Nat /\ DOMAIN pending = 1..n /\ pending \in Seq(Finding)
  BY DEF AnalysisInv
<1>4. k \in Nat /\ k >= 1 /\ k <= n
  BY <1>1, SizesAssumption
<1> DEFINE batch == SubSeq(pending, 1, k)
           ids == {IdOf(batch[i]) : i \in DOMAIN batch}
<1>5. /\ batch \in Seq(Finding) /\ DOMAIN batch = 1..k
      /\ \A i \in 1..k : batch[i] = pending[i] /\ i \in 1..n
  BY <1>3, <1>4
<1>6. /\ pending' \in Seq(Finding) /\ DOMAIN pending' = 1..(n - k)
      /\ \A p \in 1..(n - k) : pending'[p] = pending[p + k] /\ p + k \in 1..n
  <2>1. n - (k + 1) + 1 = n - k /\ n - k \in Nat
    BY <1>3, <1>4
  <2>2. \A p \in 1..(n - k) : p + k \in 1..n /\ (k + 1) + p - 1 = p + k
    BY <1>3, <1>4
  <2>3. pending' = [p \in 1..(n - k) |-> pending[(k + 1) + p - 1]]
    BY <1>1, <2>1
  <2>4. \A p \in 1..(n - k) : pending'[p] = pending[p + k]
    BY <2>2, <2>3
  <2>5. \A p \in 1..(n - k) : pending'[p] \in Finding
    BY <1>3, <2>2, <2>4
  <2>6. pending' \in [1..(n - k) -> Finding]
    BY <2>3, <2>5
  <2>7. pending' \in Seq(Finding)
    <3>1. PICK m \in Nat : m = n - k
      BY <2>1
    <3>2. pending' \in [1..m -> Finding]
      BY <2>6, <3>1
    <3>3. QED BY <3>2
  <2>8. DOMAIN pending' = 1..(n - k)
    BY <2>3
  <2>9. QED BY <2>2, <2>4, <2>7, <2>8
<1>7. PICK some \in SUBSET ids : \E answers \in [some -> Items] :
        judged' = Into(judged, [i \in DOMAIN batch |->
                    Judge(batch[i], VerdictOf(answers, IdOf(batch[i]), failed))])
  BY <1>1
<1>8. PICK answers \in [some -> Items] :
        judged' = Into(judged, [i \in DOMAIN batch |->
                    Judge(batch[i], VerdictOf(answers, IdOf(batch[i]), failed))])
  BY <1>7
<1> DEFINE verdict(i) == VerdictOf(answers, IdOf(batch[i]), failed)
           s == [i \in DOMAIN batch |-> Judge(batch[i], verdict(i))]
<1> HIDE DEF batch
<1>9. ASSUME NEW i \in 1..k PROVE verdict(i) \in Given /\ verdict(i) \in Verdicts
  <2> DEFINE id == IdOf(batch[i])
  <2>1. id \in DOMAIN answers => answers[id] \in Items
    OBVIOUS
  <2> HIDE DEF id
  <2>2. VerdictOf(answers, id, failed) \in {"true_positive", "false_positive", "needs_review"}
    BY <2>1 DEF VerdictOf, Items
  <2>3. QED BY <2>2 DEF Given, Verdicts, id
<1> HIDE DEF verdict
<1>10. judged' = Into(judged, s)
  BY <1>8 DEF verdict
<1>11. DOMAIN s = 1..k /\ \A i \in 1..k : s[i] = Judge(pending[i], verdict(i))
  BY <1>5
<1>12. \A i \in 1..n : pending[i] \in Finding
  BY <1>3
<1>13. ASSUME NEW i \in 1..k
       PROVE  /\ s[i] \in Finding /\ s[i].verdict = verdict(i) /\ IdOf(s[i]) = IdOf(pending[i])
  <2>1. i \in 1..n
    BY <1>5
  <2>2. pending[i] \in Finding /\ verdict(i) \in Verdicts /\ s[i] = Judge(pending[i], verdict(i))
    BY <1>9, <1>11, <1>12, <2>1
  <2>3. QED BY <2>2, JudgeIs
<1>14. s \in Seq(Finding)
  <2>1. s \in [1..k -> Finding]
    BY <1>5, <1>13
  <2>2. QED BY <1>4, <2>1
<1> HIDE DEF s
<1>15. ASSUME NEW i \in DOMAIN s
       PROVE  /\ s[i].verdict \in Given
              /\ \E j \in DOMAIN findings : s[i] = Judge(findings[j], s[i].verdict)
  <2>1. PICK j \in DOMAIN findings : pending[i] = findings[j]
    BY <1>2, <1>3, <1>5, <1>11 DEF AnalysisInv
  <2>2. QED BY <1>9, <1>11, <1>13, <2>1
<1>16. JudgedFrom(judged, findings)
  BY <1>2 DEF AnalysisInv
<1>17. JudgedFrom(judged', findings)
  BY <1>10, <1>14, <1>15, <1>16, IntoJudged
<1>18. DOMAIN judged' = (DOMAIN judged) \cup {IdOf(s[i]) : i \in DOMAIN s}
  BY <1>10, <1>14, IntoIs
<1>19. ASSUME NEW i \in DOMAIN findings
       PROVE  \/ IdOf(findings[i]) \in DOMAIN judged'
              \/ \E p \in DOMAIN pending' : pending'[p] = findings[i]
  <2>1. CASE IdOf(findings[i]) \in DOMAIN judged
    BY <1>18, <2>1
  <2>2. CASE \E p \in DOMAIN pending : pending[p] = findings[i]
    <3>1. PICK p \in 1..n : pending[p] = findings[i]
      BY <1>3, <2>2
    <3>2. CASE p <= k
      <4>1. p \in 1..k
        BY <1>4, <3>2
      <4>2. IdOf(s[p]) = IdOf(findings[i])
        BY <1>13, <3>1, <4>1
      <4>3. QED BY <1>11, <1>18, <4>1, <4>2
    <3>3. CASE ~(p <= k)
      <4>1. p - k \in 1..(n - k) /\ (p - k) + k = p
        BY <1>3, <1>4, <3>3
      <4>2. pending'[p - k] = findings[i]
        BY <1>6, <3>1, <4>1
      <4>3. QED BY <1>6, <4>1, <4>2
    <3>4. QED BY <3>2, <3>3
  <2>3. QED BY <1>2, <2>1, <2>2 DEF AnalysisInv
<1>20. \A p \in DOMAIN pending' : FindingOK(pending'[p])
  BY <1>3, <1>6 DEF AnalysisInv
<1>21. \A id \in DOMAIN judged' : FindingOK(judged'[id]) /\ IdOf(judged'[id]) = id
  BY <1>17, JudgedOK DEF FindingsOK
<1>22. \A p \in DOMAIN pending' : \E i \in DOMAIN findings : pending'[p] = findings[i]
  <2>1. \A p \in 1..n : \E i \in DOMAIN findings : pending[p] = findings[i]
    BY <1>2, <1>3 DEF AnalysisInv
  <2>2. QED BY <1>6, <2>1
<1>23. QED BY <1>2, <1>6, <1>17, <1>19, <1>20, <1>21, <1>22, Zenon DEF AnalysisInv

\* No other step touches what the analysis has.
LEMMA AnalysisInvStep == FindingsOK /\ AnalysisInv /\ [Next]_vars => AnalysisInv'
<1> SUFFICES ASSUME FindingsOK, AnalysisInv, [Next]_vars PROVE AnalysisInv'
  OBVIOUS
<1> USE DEF analysis, discovery, workspace
<1>1. ASSUME UNCHANGED <<pending, judged>>, pc' # "asking" PROVE AnalysisInv'
  BY <1>1 DEF AnalysisInv
<1>2. CASE Checkout \/ Plan \/ Gather \/ Correlate
  <2>1. UNCHANGED <<pending, judged>>
    BY <1>2, Zenon DEF Checkout, Plan, Gather, Correlate
  <2>2. pc' # "asking"
    BY <1>2 DEF Checkout, Plan, Gather, Correlate
  <2>3. QED BY <1>1, <2>1, <2>2
<1>3. CASE Analysed \/ StartDiscovery \/ Review
  <2>1. UNCHANGED <<pending, judged>>
    BY <1>3, Zenon DEF Analysed, StartDiscovery, Review
  <2>2. pc' # "asking"
    BY <1>3 DEF Analysed, StartDiscovery, Review
  <2>3. QED BY <1>1, <2>1, <2>2
<1>4. CASE Claimed \/ MergeDiscovered \/ Report
  <2>1. UNCHANGED <<pending, judged>>
    BY <1>4, Zenon DEF Claimed, MergeDiscovered, Report
  <2>2. pc' # "asking"
    BY <1>4 DEF Claimed, MergeDiscovered, Report
  <2>3. QED BY <1>1, <2>1, <2>2
<1>5. CASE \E name \in DOMAIN outs : Scanned(name) \/ RecordFails(name)
  <2>1. UNCHANGED <<pending, judged>>
    BY <1>5, Zenon DEF Scanned, RecordFails
  <2>2. pc' # "asking"
    BY <1>5 DEF Scanned, RecordFails
  <2>3. QED BY <1>1, <2>1, <2>2
<1>6. CASE UNCHANGED vars
  BY <1>6 DEF vars, AnalysisInv
<1>7. QED
  BY <1>2, <1>3, <1>4, <1>5, <1>6, StartAnalysisKeeps, AskBatchKeeps DEF Next

-----------------------------------------------------------------------------
(* The findings, from the correlator to the report.                        *)

Keeps(s, S) == \A r \in S : \E i \in DOMAIN s : Absorbs(s[i], r) /\ Link(r, s[i], S)

Late == {"reviewing", "report", "done"}

\* All findings are sound.  None is lost, as the findings that the analysis
\* takes apart by their ids have fingerprints of their own.
FindingsInv ==
  /\ FindingsOK
  /\ Correlating => AllSound(findings, Sources)
  /\ Correlating /\ IdsApart => Keeps(findings, Sources)
  /\ pc \in {"analyze", "asking"} => PrintsApart(findings)
  /\ pc \notin Late => found = <<>>
  /\ EveryFindingJudged

LEMMA SourcesAre ==
  /\ pc \in {"report", "done"} => Sources = Reported \cup Range(found)
  /\ pc \notin {"report", "done"} => Sources = Reported
BY DEF Sources

LEMMA OriginalsCohere ==
  ASSUME NEW S \in SUBSET Originals
  PROVE  Coherent(S)
<1>1. ASSUME NEW f \in Originals PROVE f.line \in Nat /\ f.end \in Nat /\ f.line <= f.end
  <2>1. CASE \E claim \in Claims : f = Discovered(claim)
    <3>1. f \in Found
      BY <2>1 DEF Found
    <3>2. f \in Finding /\ f.end >= f.line
      BY <3>1, FoundIs DEF FindingOK
    <3>3. QED BY <3>2, FindingTypes
  <2>2. CASE \E name \in Range(Scanners) : \E out \in Outputs[name] : f \in Range(out)
    <3>1. PICK name \in Range(Scanners) : \E out \in Outputs[name] : f \in Range(out)
      BY <2>2
    <3>2. PICK out \in Outputs[name] : f \in Range(out)
      BY <3>1
    <3>3. PICK i \in DOMAIN out : f = out[i]
      BY <3>2 DEF Range
    <3>4. out \in Seq(Finding) /\ out[i].end >= out[i].line
      BY OutputsAssumption
    <3>5. f \in Finding /\ f.end >= f.line
      BY <3>3, <3>4
    <3>6. QED BY <3>5, FindingTypes
  <2>3. QED BY <2>1, <2>2 DEF Originals
<1>2. QED BY <1>1, PrintsAssumption DEF Coherent

\* An original is sound, and so is what has its place and nothing merged into it.
LEMMA OriginalIsSound ==
  ASSUME NEW S \in SUBSET Originals, NEW r \in S, NEW f, FindingOK(f), SameOrigin(f, r),
         f.merged = {}, f.end = r.end
  PROVE  Sound(f, S)
<1>1. Stems(f, S)
  BY DEF Stems
<1>2. ASSUME NEW n \in f.line..(f.end + LineWindow) PROVE Cov(S, f.file, f.family, n)
  <2>1. /\ f.line = r.line /\ f.file = r.file /\ f.family = r.family
        /\ r.line \in Nat /\ r.end \in Nat
    BY OriginalsCohere DEF SameOrigin, Coherent
  <2>2. r.line <= n /\ n <= r.end + LineWindow
    BY <2>1 DEF LineWindow
  <2>3. QED BY <2>1, <2>2 DEF Cov
<1>3. QED BY <1>1, <1>2 DEF Sound, Extends

LEMMA TaggedIs ==
  ASSUME NEW f \in Finding, FindingOK(f)
  PROVE  LET g == Tagged(f)
         IN  /\ FindingOK(g) /\ SameOrigin(g, f) /\ g.merged = f.merged
             /\ RulesOf(g) = RulesOf(f) /\ g.severity = f.severity /\ g.end = f.end
<1> DEFINE scope == IF Touches(f) THEN "new" ELSE "existing"
           g == Tagged(f)
<1>1. g = [f EXCEPT !.scope = scope]
  BY DEF Tagged
<1>2. scope \in {"new", "existing", "unknown"}
  OBVIOUS
<1> HIDE DEF scope, g
<1>3. /\ g.scanner = f.scanner /\ g.rule = f.rule /\ g.print = f.print /\ g.package = f.package
      /\ g.file = f.file /\ g.line = f.line /\ g.family = f.family /\ g.merged = f.merged
      /\ g.severity = f.severity /\ g.end = f.end /\ g.also = f.also
  BY <1>1 DEF Finding
<1>4. g \in Finding
  BY <1>1, <1>2 DEF Finding
<1>5. QED BY <1>3, <1>4 DEF FindingOK, SameOrigin, RulesOf, g

\* The first correlation: of all that was reported, tagged or not.
LEMMA CorrelateKeeps ==
  ASSUME ScanInv, RawInv, FindingsInv, Correlate
  PROVE  FindingsInv'
<1> DEFINE s == IF LinesKnown THEN [i \in DOMAIN raw |-> Tagged(raw[i])] ELSE raw
<1>1. /\ pc = "correlate" /\ pc' = "analyze" /\ findings' = Correlated(s)
      /\ outs' = outs /\ found' = found
  BY DEF Correlate, discovery
<1>2. /\ raw \in Seq(Finding) /\ \A i \in DOMAIN raw : FindingOK(raw[i]) /\ raw[i] \in Finding
      /\ \A i \in DOMAIN raw : raw[i] \in Reported
      /\ \A r \in Reported : \E i \in DOMAIN raw : raw[i] = r
  BY <1>1 DEF RawInv, FindingOK
<1>3. DOMAIN s = DOMAIN raw /\ \A i \in DOMAIN raw : s[i] = Tagged(raw[i]) \/ s[i] = raw[i]
  OBVIOUS
<1>4. ASSUME NEW i \in DOMAIN raw
      PROVE  /\ FindingOK(s[i]) /\ SameOrigin(s[i], raw[i]) /\ s[i].merged = raw[i].merged
             /\ RulesOf(s[i]) = RulesOf(raw[i]) /\ s[i].severity = raw[i].severity
             /\ s[i].end = raw[i].end
  <2>1. CASE s[i] = raw[i]
    BY <1>2, <2>1 DEF SameOrigin
  <2>2. CASE s[i] = Tagged(raw[i])
    BY <1>2, <2>2, TaggedIs
  <2>3. QED BY <1>3, <2>1, <2>2
<1>5. s \in Seq(Finding)
  <2>1. PICK n \in Nat : DOMAIN raw = 1..n
    BY <1>2
  <2>2. \A i \in 1..n : Tagged(raw[i]) \in Finding
    BY <1>2, <2>1, TaggedIs DEF FindingOK
  <2>3. [i \in DOMAIN raw |-> Tagged(raw[i])] \in Seq(Finding)
    <3>1. [i \in DOMAIN raw |-> Tagged(raw[i])] \in [1..n -> Finding]
      BY <2>1, <2>2
    <3>2. QED BY <3>1
  <2>4. QED BY <1>2, <2>3
<1> HIDE DEF s
<1>6. Reported \in SUBSET Originals
  BY ReportedIs
<1>7. AllSound(s, Reported)
  <2> SUFFICES ASSUME NEW i \in DOMAIN raw PROVE Sound(s[i], Reported)
    BY <1>3 DEF AllSound
  <2>1. raw[i].merged = {} /\ raw[i] \in Reported
    BY <1>2, ReportedIs
  <2>2. QED BY <1>4, <1>6, <2>1, OriginalIsSound
<1>8. Coherent(Reported)
  BY <1>6, OriginalsCohere
<1>9. /\ Passes(findings', s, Reported) /\ AllSound(findings', Reported) /\ PrintsApart(findings')
  BY <1>1, <1>5, <1>7, <1>8, CorrelatedIs
<1>10. Reported' = Reported /\ Sources' = Reported
  BY <1>1 DEF Reported, Sources
<1>11. Keeps(findings', Reported)
  <2> SUFFICES ASSUME NEW r \in Reported
               PROVE  \E k \in DOMAIN findings' :
                        Absorbs(findings'[k], r) /\ Link(r, findings'[k], Reported)
    BY DEF Keeps
  <2>1. PICK i \in DOMAIN raw : raw[i] = r
    BY <1>2
  <2>2. PICK k \in DOMAIN findings' :
          Absorbs(findings'[k], s[i]) /\ Link(s[i], findings'[k], Reported)
    BY <1>3, <1>9 DEF Passes
  <2>3. Absorbs(findings'[k], r)
    BY <1>4, <2>1, <2>2 DEF Absorbs, SameOrigin
  <2>4. SameOrigin(r, s[i]) /\ SameOrigin(findings'[k], findings'[k])
    BY <1>4, <2>1 DEF SameOrigin
  <2>5. Link(r, findings'[k], Reported)
    BY <2>2, <2>4, LinkOfOrigins
  <2>6. QED BY <2>3, <2>5
<1>12. FindingsOK'
  <2>1. findings' \in Seq(Finding)
    BY <1>9 DEF Passes
  <2>2. \A i \in DOMAIN findings' : FindingOK(findings'[i])
    BY <1>9 DEF AllSound, Sound
  <2>3. QED BY <2>1, <2>2 DEF FindingsOK
<1>13. found' = <<>>
  BY <1>1 DEF FindingsInv, Late
<1>14. EveryFindingJudged'
  BY <1>1 DEF EveryFindingJudged
<1>15. AllSound(findings', Sources') /\ Keeps(findings', Sources')
  BY <1>9, <1>10, <1>11
<1>16. (PrintsApart(findings))'
  BY <1>9 DEF PrintsApart
<1>17. (AllSound(findings, Sources))' /\ (Keeps(findings, Sources))'
  BY <1>15 
     DEF AllSound, Keeps, Sound, Stems, Extends, Justified, Link, Near, Cov
<1>18. QED BY <1>12, <1>13, <1>14, <1>16, <1>17 DEF FindingsInv

\* The analysis: every finding is judged, and none is given the analysis of
\* another one, as its id and so its fingerprint are its own.
LEMMA AnalysedKeeps ==
  ASSUME FindingsInv, AnalysisInv, Analysed
  PROVE  FindingsInv'
<1> DEFINE fs == findings
           of(i) == judged[IdOf(fs[i])]
<1>1. /\ pc = "asking" /\ pending = <<>> /\ pc' = "discover"
      /\ findings' = [i \in DOMAIN fs |-> of(i)]
      /\ outs' = outs /\ found' = found
  BY DEF Analysed, discovery
<1>2. /\ fs \in Seq(Finding) /\ \A i \in DOMAIN fs : FindingOK(fs[i]) /\ fs[i] \in Finding
      /\ AllSound(fs, Reported) /\ PrintsApart(fs)
      /\ IdsApart => Keeps(fs, Reported)
  BY <1>1, SourcesAre DEF FindingsInv, FindingsOK, Correlating
<1>3. \A i \in DOMAIN fs : IdOf(fs[i]) \in DOMAIN judged
  BY <1>1 DEF AnalysisInv
<1>4. JudgedFrom(judged, fs)
  BY <1>1 DEF AnalysisInv
<1>5. ASSUME NEW i \in DOMAIN fs
      PROVE  \E j \in DOMAIN fs, verdict \in Given :
               of(i) = Judge(fs[j], verdict) /\ IdOf(fs[j]) = IdOf(fs[i])
  <2>1. /\ of(i).verdict \in Given /\ IdOf(of(i)) = IdOf(fs[i])
        /\ \E j \in DOMAIN fs : of(i) = Judge(fs[j], of(i).verdict)
    BY <1>3, <1>4 DEF JudgedFrom
  <2>2. PICK j \in DOMAIN fs : of(i) = Judge(fs[j], of(i).verdict)
    BY <2>1
  <2>3. of(i).verdict \in Verdicts /\ fs[j] \in Finding
    BY <1>2, <2>1 DEF Given
  <2>4. IdOf(of(i)) = IdOf(fs[j])
    BY <2>2, <2>3, JudgeIs
  <2>5. QED BY <2>1, <2>2, <2>4
<1> HIDE DEF of
<1>6. DOMAIN findings' = DOMAIN fs /\ \A i \in DOMAIN fs : findings'[i] = of(i)
  BY <1>1
<1>7. ASSUME NEW i \in DOMAIN fs
      PROVE  /\ findings'[i] \in Finding /\ Sound(findings'[i], Reported)
             /\ findings'[i].verdict # "none"
  <2>1. PICK j \in DOMAIN fs, verdict \in Given : of(i) = Judge(fs[j], verdict)
    BY <1>5
  <2>2. fs[j] \in Finding /\ Sound(fs[j], Reported) /\ verdict \in Verdicts /\ verdict # "none"
    BY <1>2 DEF AllSound, Given
  <2>3. of(i) \in Finding /\ Sound(of(i), Reported) /\ of(i).verdict = verdict
    BY <2>1, <2>2, JudgeIs, JudgeIsSound
  <2>4. QED BY <1>6, <2>2, <2>3
<1>8. findings' \in Seq(Finding)
  <2>1. PICK n \in Nat : DOMAIN fs = 1..n
    BY <1>2
  <2>2. findings' \in [1..n -> Finding]
    BY <1>1, <1>6, <1>7, <2>1
  <2>3. QED BY <2>2
<1>9. AllSound(findings', Reported)
  BY <1>6, <1>7 DEF AllSound
<1>10. ASSUME IdsApart PROVE Keeps(findings', Reported)
  <2> SUFFICES ASSUME NEW r \in Reported
               PROVE  \E k \in DOMAIN findings' :
                        Absorbs(findings'[k], r) /\ Link(r, findings'[k], Reported)
    BY DEF Keeps
  <2>1. PICK i \in DOMAIN fs : Absorbs(fs[i], r) /\ Link(r, fs[i], Reported)
    BY <1>2, <1>10 DEF Keeps
  <2>2. PICK j \in DOMAIN fs, verdict \in Given :
          of(i) = Judge(fs[j], verdict) /\ IdOf(fs[j]) = IdOf(fs[i])
    BY <1>5
  <2>3. PICK p \in Reported : SameOrigin(fs[i], p)
    BY <1>2 DEF AllSound, Sound, Stems
  <2>4. PICK q \in Reported : SameOrigin(fs[j], q)
    BY <1>2 DEF AllSound, Sound, Stems
  <2>5. IdOf(p) = IdOf(fs[i]) /\ IdOf(q) = IdOf(fs[j])
    BY <2>3, <2>4 DEF IdOf, SameOrigin
  <2>6. p.print = q.print
    BY <1>10, <2>2, <2>5 DEF IdsApart
  <2>7. fs[i].print = fs[j].print
    BY <2>3, <2>4, <2>6 DEF SameOrigin
  <2>8. i = j
    BY <1>2, <2>7 DEF PrintsApart
  <2>9. fs[i] \in Finding /\ verdict \in Verdicts
    BY <1>2 DEF Given
  <2> DEFINE g == Judge(fs[i], verdict)
  <2>10. /\ SameOrigin(g, fs[i]) /\ RulesOf(g) = RulesOf(fs[i])
         /\ g.severity = fs[i].severity /\ g.end = fs[i].end
    BY <2>9, JudgeIs
  <2>11. findings'[i] = g
    BY <1>6, <2>2, <2>8
  <2> HIDE DEF g
  <2>12. Absorbs(findings'[i], r)
    BY <2>1, <2>10, <2>11 DEF Absorbs, SameOrigin
  <2>13. SameOrigin(r, r) /\ SameOrigin(fs[i], findings'[i])
    BY <2>10, <2>11 DEF SameOrigin
  <2>14. Link(r, findings'[i], Reported)
    BY <2>1, <2>13, LinkOfOrigins
  <2>15. QED BY <1>6, <2>12, <2>14
<1>11. Reported' = Reported /\ Sources' = Reported /\ IdsApart' = IdsApart
  BY <1>1 DEF Reported, Sources, IdsApart
<1>12. FindingsOK'
  BY <1>6, <1>7, <1>8 DEF FindingsOK, Sound
<1>13. found' = <<>>
  BY <1>1 DEF FindingsInv, Late
<1>14. EveryFindingJudged'
  BY <1>6, <1>7 DEF EveryFindingJudged, Range
<1>15. (AllSound(findings, Sources))' /\ (IdsApart' => (Keeps(findings, Sources))')
  BY <1>9, <1>10, <1>11 
     DEF AllSound, Keeps, Sound, Stems, Extends, Justified, Link, Near, Cov
<1>16. QED BY <1>1, <1>12, <1>13, <1>14, <1>15 DEF FindingsInv

LEMMA SoundMore ==
  ASSUME NEW f, NEW S, NEW T, S \subseteq T, Sound(f, S)
  PROVE  Sound(f, T)
<1>1. Stems(f, T) /\ Extends(f, T)
  BY LinkMore DEF Sound, Stems, Extends
<1>2. \A rule : Justified(f, rule, S) => Justified(f, rule, T)
  BY LinkMore DEF Justified
<1>3. QED BY <1>1, <1>2 DEF Sound

LEMMA ReportedApart == ASSUME UNCHANGED outs PROVE Reported' = Reported /\ IdsApart' = IdsApart
BY DEF Reported, IdsApart

\* The second correlation: of the findings and what the LLM has found.
LEMMA MergeDiscoveredKeeps ==
  ASSUME ScanInv, FoundOK, FindingsInv, MergeDiscovered
  PROVE  FindingsInv'
<1> DEFINE s == findings \o found
           S == Reported \cup Range(found)
<1>1. /\ pc = "reviewing" /\ pc' = "report" /\ findings' = Correlated(s)
      /\ outs' = outs /\ found' = found
  BY DEF MergeDiscovered, discovery
<1>2. /\ findings \in Seq(Finding) /\ AllSound(findings, Reported)
      /\ IdsApart => Keeps(findings, Reported)
      /\ \A i \in DOMAIN findings : Analyze => findings[i].verdict # "none"
  BY <1>1, SourcesAre DEF FindingsInv, FindingsOK, Correlating, EveryFindingJudged, Range
<1>3. found \in Seq(Found) /\ Range(found) \subseteq Found
  BY DEF FoundOK, Range
<1>4. found \in Seq(Finding)
  <2>1. \A f \in Found : f \in Finding
    BY FoundIs DEF FindingOK
  <2>2. \A i \in DOMAIN found : found[i] \in Finding
    BY <1>3, <2>1 DEF Range
  <2>3. PICK n \in Nat : DOMAIN found = 1..n /\ found \in [1..n -> Found]
    BY <1>3
  <2>4. found \in [1..n -> Finding]
    BY <2>2, <2>3
  <2>5. QED BY <2>4
<1>5. /\ s \in Seq(Finding)
      /\ \A i \in DOMAIN s : \/ \E j \in DOMAIN findings : s[i] = findings[j]
                             \/ \E j \in DOMAIN found : s[i] = found[j]
      /\ \A j \in DOMAIN findings : \E i \in DOMAIN s : s[i] = findings[j]
      /\ \A j \in DOMAIN found : \E i \in DOMAIN s : s[i] = found[j]
  <2>1. s \in Seq(Finding)
    BY <1>2, <1>4
  <2> DEFINE m == Len(findings)
             n == Len(found)
  <2>2. /\ m \in Nat /\ n \in Nat /\ DOMAIN findings = 1..m /\ DOMAIN found = 1..n
        /\ DOMAIN s = 1..(m + n)
        /\ \A i \in 1..(m + n) : s[i] = IF i <= m THEN findings[i] ELSE found[i - m]
    BY <1>2, <1>4
  <2> HIDE DEF s, m, n
  <2>3. \A i \in 1..(m + n) : (i <= m => i \in 1..m) /\ (~(i <= m) => i - m \in 1..n)
    BY <2>2
  <2>4. \A j \in 1..m : j \in 1..(m + n) /\ j <= m
    BY <2>2
  <2>5. \A j \in 1..n : j + m \in 1..(m + n) /\ ~(j + m <= m) /\ (j + m) - m = j
    BY <2>2
  <2>6. \A j \in 1..m : s[j] = findings[j]
    BY <2>2, <2>4
  <2>7. \A j \in 1..n : s[j + m] = found[j]
    BY <2>2, <2>5
  <2>8. QED BY <2>1, <2>2, <2>3, <2>4, <2>5, <2>6, <2>7
<1> HIDE DEF s
<1>6. S \in SUBSET Originals
  BY <1>3, FoundIs, ReportedIs
<1>7. ASSUME NEW j \in DOMAIN found PROVE Sound(found[j], S) /\ found[j].verdict # "none"
  <2>1. found[j] \in Found /\ found[j] \in S
    BY <1>3 DEF Range
  <2>2. FindingOK(found[j]) /\ found[j].merged = {} /\ found[j].verdict # "none"
    BY <2>1, FoundIs
  <2>3. SameOrigin(found[j], found[j])
    BY DEF SameOrigin
  <2>4. QED BY <1>6, <2>1, <2>2, <2>3, OriginalIsSound
<1>8. \A j \in DOMAIN findings : Sound(findings[j], S)
  <2>1. Reported \subseteq S
    OBVIOUS
  <2> HIDE DEF S
  <2>2. QED BY <1>2, <2>1, SoundMore DEF AllSound
<1>9. AllSound(s, S)
  BY <1>5, <1>7, <1>8 DEF AllSound
<1>10. Coherent(S)
  BY <1>6, OriginalsCohere
<1>11. Passes(findings', s, S) /\ AllSound(findings', S)
  BY <1>1, <1>5, <1>9, <1>10, CorrelatedIs
<1>12. Reported' = Reported /\ IdsApart' = IdsApart
  BY <1>1, ReportedApart
<1>13. Sources' = S
  BY <1>1, <1>12 DEF Sources
<1>14. FindingsOK'
  BY <1>11 DEF FindingsOK, Passes, AllSound, Sound
<1>15. ASSUME IdsApart PROVE Keeps(findings', S)
  <2> SUFFICES ASSUME NEW r \in S
               PROVE  \E k \in DOMAIN findings' :
                        Absorbs(findings'[k], r) /\ Link(r, findings'[k], S)
    BY DEF Keeps
  <2>1. PICK i \in DOMAIN s : Absorbs(s[i], r) /\ Link(r, s[i], S)
    <3>1. CASE r \in Reported
      <4>1. PICK j \in DOMAIN findings : Absorbs(findings[j], r) /\ Link(r, findings[j], Reported)
        BY <1>2, <1>15, <3>1 DEF Keeps
      <4>2. Reported \subseteq S
        OBVIOUS
      <4>3. Link(r, findings[j], S)
        BY <4>1, <4>2, LinkMore
      <4>4. QED BY <1>5, <4>1, <4>3
    <3>2. CASE r \in Range(found)
      <4>1. PICK j \in DOMAIN found : found[j] = r
        BY <3>2 DEF Range
      <4>2. PICK i \in DOMAIN s : s[i] = r
        BY <1>5, <4>1
      <4>3. r \in Finding
        BY <1>5, <4>2
      <4>4. Absorbs(r, r)
        BY <4>3, FindingTypes DEF Absorbs
      <4>5. Link(r, s[i], S)
        BY <1>9, <1>10, <4>2, TwinsLink DEF AllSound, Sound
      <4>6. QED BY <4>2, <4>4, <4>5
    <3>3. QED BY <3>1, <3>2
  <2>2. PICK k \in DOMAIN findings' :
          Absorbs(findings'[k], s[i]) /\ Link(s[i], findings'[k], S)
    BY <1>11, <2>1 DEF Passes
  <2>3. r \in Finding
    <3>1. r \in Reported \/ r \in Found
      BY <1>3
    <3>2. QED BY <3>1, ReportedIs, FoundIs DEF FindingOK
  <2>4. findings'[k] \in Finding /\ s[i] \in Finding
    BY <1>5, <1>11, <2>1, <2>2 DEF Passes
  <2>5. Absorbs(findings'[k], r)
    BY <2>1, <2>2, <2>3, <2>4, FindingTypes DEF Absorbs
  <2>6. Stems(r, S) /\ Stems(s[i], S) /\ Stems(findings'[k], S)
    BY <1>9, <1>11 DEF AllSound, Sound, Stems, SameOrigin
  <2>7. Link(r, findings'[k], S)
    BY <1>10, <2>1, <2>2, <2>6, LinkOn
  <2>8. QED BY <2>5, <2>7
<1>16. EveryFindingJudged'
  <2>1. ASSUME Analyze, NEW k \in DOMAIN findings' PROVE findings'[k].verdict # "none"
    <3>1. PICK i \in DOMAIN s : findings'[k].verdict = s[i].verdict
      BY <1>11 DEF Passes
    <3>2. s[i].verdict # "none"
      BY <1>2, <1>5, <1>7, <2>1
    <3>3. QED BY <3>1, <3>2
  <2>2. QED BY <2>1 DEF EveryFindingJudged, Range
<1> HIDE DEF S
<1>17. (AllSound(findings, Sources))' /\ (IdsApart' => (Keeps(findings, Sources))')
  BY <1>11, <1>12, <1>13, <1>15 
     DEF AllSound, Keeps, Sound, Stems, Extends, Justified, Link, Near, Cov
<1>18. QED BY <1>1, <1>14, <1>16, <1>17 DEF FindingsInv, Late

LEMMA FindingsInvInit == Init => FindingsInv
<1> SUFFICES ASSUME Init PROVE FindingsInv
  OBVIOUS
<1>1. pc = "checkout" /\ findings = <<>> /\ found = <<>>
  BY DEF Init
<1>2. FindingsOK
  BY <1>1 DEF FindingsOK
<1>3. QED BY <1>1, <1>2 DEF FindingsInv, Correlating, EveryFindingJudged

\* Steps that leave the findings and all that they are made of as they are.
LEMMA FindingsFrame ==
  ASSUME FindingsInv, UNCHANGED findings,
         \/ ~Correlating' /\ UNCHANGED found
         \/ /\ Correlating /\ UNCHANGED outs /\ Sources' = Sources
            /\ pc' = "analyze" => pc = "analyze"
            /\ pc' = "asking" => pc \in {"analyze", "asking"}
            /\ EveryFindingJudged',
         pc' \notin Late => UNCHANGED found /\ pc \notin Late
  PROVE  FindingsInv'
<1>1. FindingsOK'
  BY DEF FindingsInv, FindingsOK
<1>2. pc' \notin Late => found' = <<>>
  BY DEF FindingsInv
<1>3. CASE ~Correlating'
  BY <1>1, <1>2, <1>3 DEF FindingsInv, Correlating, EveryFindingJudged
<1>4. CASE /\ Correlating /\ UNCHANGED outs /\ Sources' = Sources
           /\ pc' = "analyze" => pc = "analyze"
           /\ pc' = "asking" => pc \in {"analyze", "asking"}
           /\ EveryFindingJudged'
  <2>1. AllSound(findings, Sources) /\ (IdsApart => Keeps(findings, Sources))
    BY <1>4 DEF FindingsInv
  <2>2. (AllSound(findings, Sources))'
    BY <1>4, <2>1 DEF AllSound, Sound, Stems, Extends, Justified, Link, Near, Cov
  <2>3. (IdsApart => Keeps(findings, Sources))'
    BY <1>4, <2>1, ReportedApart DEF Keeps, Link, Near, Cov
  <2>4. (pc \in {"analyze", "asking"} => PrintsApart(findings))'
    BY <1>4 DEF FindingsInv, PrintsApart
  <2>5. QED BY <1>1, <1>2, <1>4, <2>2, <2>3, <2>4 DEF FindingsInv
<1>5. QED BY <1>3, <1>4

LEMMA FindingsInvStep ==
  ScanInv /\ DiscoveryInv /\ RawInv /\ AnalysisInv /\ FindingsInv /\ [Next]_vars => FindingsInv'
<1> SUFFICES ASSUME ScanInv, DiscoveryInv, RawInv, AnalysisInv, FindingsInv, [Next]_vars
             PROVE  FindingsInv'
  OBVIOUS
<1> USE DEF analysis, discovery, workspace
<1>1. CASE Checkout \/ Plan \/ Gather
  <2>1. UNCHANGED <<findings, found>>
    BY <1>1, Zenon DEF Checkout, Plan, Gather
  <2>2. pc \notin Late /\ pc' \notin Late /\ ~Correlating'
    BY <1>1 DEF Checkout, Plan, Gather, Late, Correlating
  <2>3. QED BY <2>1, <2>2, FindingsFrame
<1>2. CASE \E name \in DOMAIN outs : Scanned(name) \/ RecordFails(name)
  <2>1. UNCHANGED <<findings, found>>
    BY <1>2, Zenon DEF Scanned, RecordFails
  <2>2. pc \notin Late /\ pc' \notin Late /\ ~Correlating'
    BY <1>2 DEF Scanned, RecordFails, Late, Correlating
  <2>3. QED BY <2>1, <2>2, FindingsFrame
<1>3. CASE StartAnalysis
  <2>1. UNCHANGED <<findings, found, outs>> /\ pc = "analyze"
    BY <1>3, Zenon DEF StartAnalysis
  <2>2. pc' = "asking" \/ (pc' = "discover" /\ ~Analyze)
    BY <1>3 DEF StartAnalysis
  <2>3. Reported' = Reported
    BY <2>1, ReportedApart
  <2>4. Sources' = Sources
    BY <2>1, <2>2, <2>3 DEF Sources
  <2>5. Correlating /\ pc \notin Late /\ pc' \notin Late /\ EveryFindingJudged'
    BY <2>1, <2>2 DEF Correlating, Late, EveryFindingJudged
  <2>6. QED BY <2>1, <2>2, <2>4, <2>5, FindingsFrame
<1>4. ASSUME UNCHANGED <<findings, found, outs>>, UNCHANGED pc
      PROVE  FindingsInv'
  <2>1. Reported' = Reported
    BY <1>4, ReportedApart
  <2>2. Sources' = Sources
    BY <1>4, <2>1 DEF Sources
  <2>3. EveryFindingJudged'
    BY <1>4 DEF FindingsInv, EveryFindingJudged
  <2>4. Correlating' = Correlating
    BY <1>4 DEF Correlating
  <2>5. pc' \notin Late => pc \notin Late
    BY <1>4
  <2>6. QED BY <1>4, <2>2, <2>3, <2>4, <2>5, FindingsFrame
<1>5. CASE AskBatch \/ Review
  <2>1. UNCHANGED <<findings, found, outs, pc>>
    BY <1>5, Zenon DEF AskBatch, Review
  <2>2. QED BY <1>4, <2>1
<1>6. CASE StartDiscovery
  <2>1. UNCHANGED <<findings, found, outs>> /\ pc = "discover"
    BY <1>6, Zenon DEF StartDiscovery
  <2>2. pc' \in {"reviewing", "report"}
    BY <1>6 DEF StartDiscovery
  <2>3. found = <<>>
    BY <2>1 DEF FindingsInv, Late
  <2>4. Range(found) = {}
    BY <2>3 DEF Range
  <2>5. Reported' = Reported
    BY <2>1, ReportedApart
  <2>6. Sources' = Sources
    BY <2>1, <2>4, <2>5 DEF Sources
  <2>7. EveryFindingJudged'
    BY <2>1 DEF FindingsInv, EveryFindingJudged
  <2>8. Correlating /\ pc' \in Late
    BY <2>1, <2>2 DEF Correlating, Late
  <2>9. QED BY <2>1, <2>2, <2>6, <2>7, <2>8, FindingsFrame
<1>7. CASE Claimed
  <2>1. UNCHANGED <<findings, outs>> /\ pc = "reviewing" /\ pc' = pc
    BY <1>7, Zenon DEF Claimed
  <2>2. Reported' = Reported
    BY <2>1, ReportedApart
  <2>3. Sources' = Sources
    BY <2>1, <2>2 DEF Sources
  <2>4. EveryFindingJudged'
    BY <2>1 DEF FindingsInv, EveryFindingJudged
  <2>5. Correlating /\ pc' \in Late
    BY <2>1 DEF Correlating, Late
  <2>6. QED BY <2>1, <2>3, <2>4, <2>5, FindingsFrame
<1>8. CASE Report
  <2>1. UNCHANGED <<findings, outs, found>> /\ pc = "report" /\ pc' = "done"
    BY <1>8, Zenon DEF Report
  <2>2. Reported' = Reported
    BY <2>1, ReportedApart
  <2>3. Sources' = Sources
    BY <2>1, <2>2 DEF Sources
  <2>4. EveryFindingJudged'
    BY <2>1 DEF FindingsInv, EveryFindingJudged
  <2>5. Correlating /\ pc' \in Late
    BY <2>1 DEF Correlating, Late
  <2>6. QED BY <2>1, <2>3, <2>4, <2>5, FindingsFrame
<1>9. CASE UNCHANGED vars
  BY <1>4, <1>9 DEF vars
<1>10. FoundOK
  BY DEF DiscoveryInv
<1>11. QED
  BY <1>1, <1>2, <1>3, <1>5, <1>6, <1>7, <1>8, <1>9, <1>10, CorrelateKeeps, AnalysedKeeps,
     MergeDiscoveredKeeps DEF Next

-----------------------------------------------------------------------------
(* What holds of every scan.                                               *)

PipelineInv == ScanInv /\ DiscoveryInv /\ RawInv /\ AnalysisInv /\ FindingsInv

THEOREM PipelineInvariant == Spec => []PipelineInv
<1>1. Init => PipelineInv
  <2> SUFFICES ASSUME Init PROVE PipelineInv
    OBVIOUS
  <2>1. DiscoveryInv
    <3>1. found = <<>> /\ unread = <<>> /\ shown = {} /\ reviews = 0
      BY DEF Init
    <3>2. QED BY <3>1, SizesAssumption DEF DiscoveryInv, FoundOK
  <2>2. RawInv
    <3>1. raw = <<>> /\ pc = "checkout"
      BY DEF Init
    <3>2. QED BY <3>1 DEF RawInv
  <2>3. AnalysisInv
    <3>1. pending = <<>> /\ DOMAIN judged = {} /\ pc = "checkout"
      BY DEF Init
    <3>2. QED BY <3>1 DEF AnalysisInv
  <2>4. QED BY <2>1, <2>2, <2>3, ScanInvInit, FindingsInvInit DEF PipelineInv
<1>2. PipelineInv /\ [Next]_vars => PipelineInv'
  <2> SUFFICES ASSUME PipelineInv, [Next]_vars PROVE PipelineInv'
    OBVIOUS
  <2>1. FindingsOK
    BY DEF PipelineInv, FindingsInv
  <2>2. QED
    BY <2>1, ScanInvStep, DiscoveryInvStep, RawInvStep, AnalysisInvStep, FindingsInvStep
       DEF PipelineInv
<1>3. QED BY <1>1, <1>2, PTL DEF Spec

\* The state of a scan is well typed throughout: scanners are planned that
\* there are adapters for, only selected files are shown to the LLM, the
\* requests are bounded, and every finding, in whatever hands, is one, with
\* what is merged into it apart from itself.
THEOREM ScanTypes == Spec => []TypeOK
<1>1. PipelineInv => TypeOK
  <2> SUFFICES ASSUME PipelineInv PROVE TypeOK
    OBVIOUS
  <2>1. \A f \in Range(raw) : FindingOK(f)
    BY DEF PipelineInv, RawInv, Range
  <2>2. \A f \in Range(findings) : FindingOK(f)
    BY DEF PipelineInv, FindingsInv, FindingsOK, Range
  <2>3. \A f \in Range(pending) : FindingOK(f)
    BY DEF PipelineInv, AnalysisInv, Range
  <2>4. \A f \in Range(found) : FindingOK(f)
    <3>1. Range(found) \subseteq Found
      BY DEF PipelineInv, DiscoveryInv, FoundOK, Range
    <3>2. QED BY <3>1, FoundIs
  <2>5. \A s \in {raw, findings, pending, found} : \A f \in Range(s) : FindingOK(f)
    BY <2>1, <2>2, <2>3, <2>4
  <2>6. \A id \in DOMAIN judged : FindingOK(judged[id]) /\ IdOf(judged[id]) = id
    BY DEF PipelineInv, AnalysisInv
  <2>7. QED BY <2>5, <2>6 DEF TypeOK, PipelineInv, ScanInv, DiscoveryInv
<1>2. QED BY <1>1, PipelineInvariant, PTL

\* A link is OneIssue, with the sources of the report.
LEMMA LinkedIsOneIssue ==
  ASSUME NEW r, NEW f, Link(r, f, Sources)
  PROVE  OneIssue(r, f)
<1>1. \A n \in Between(r.line, f.line) : Covered(r.file, r.family, n)
  BY DEF Link, Near, Cov, Covered
<1>2. QED BY <1>1 DEF Link, Near, OneIssue

\* The correlator merges for a reason only, in both of its runs and whatever
\* the scanners and the LLM report: a rule that a finding has taken in is
\* that of an original with the fingerprint of the finding, or of one that
\* code analyzers saw the same weakness with, with no line between the two
\* that findings of it do not reach; no secret takes in another.
THEOREM MergesAreJustified == Spec => []MergesJustified
<1>1. PipelineInv => MergesJustified
  <2> SUFFICES ASSUME PipelineInv, Correlating, NEW f \in Range(findings), NEW rule \in f.merged
               PROVE  \E r, p \in Sources :
                        /\ r.rule = rule /\ r.print = p.print /\ OneIssue(p, f)
                        /\ p.print = f.print \/ {p.scanner, f.scanner} \subseteq CodeAnalyzers
    BY DEF MergesJustified
  <2>1. Justified(f, rule, Sources)
    BY DEF PipelineInv, FindingsInv, AllSound, Sound, Range
  <2>2. QED BY <2>1, LinkedIsOneIssue DEF Justified
<1>2. QED BY <1>1, PipelineInvariant, PTL

\* Nothing that was reported is lost between the scanners and the report, as
\* long as no id stands for two fingerprints: it is in a finding of the same
\* issue that names its rule, is as severe and ends no earlier.
THEOREM NothingIsLost == Spec => []NothingLost
<1>1. PipelineInv => NothingLost
  <2> SUFFICES ASSUME PipelineInv, Correlating, IdsApart, NEW r \in Sources
               PROVE  \E f \in Range(findings) :
                        /\ OneIssue(r, f) /\ f.file = r.file /\ r.rule \in RulesOf(f)
                        /\ f.severity >= r.severity /\ f.end >= r.end
    BY DEF NothingLost
  <2>1. PICK i \in DOMAIN findings : Absorbs(findings[i], r) /\ Link(r, findings[i], Sources)
    BY DEF PipelineInv, FindingsInv, Keeps
  <2>2. findings[i] \in Range(findings) /\ r.rule \in RulesOf(r)
    BY DEF Range, RulesOf
  <2>3. OneIssue(r, findings[i])
    BY <2>1, LinkedIsOneIssue
  <2>4. QED BY <2>1, <2>2, <2>3 DEF Absorbs
<1>2. QED BY <1>1, PipelineInvariant, PTL

\* A review begins with nothing found, and leaves the findings as they are.
LEMMA StepOnReview ==
  ASSUME PipelineInv, [Next]_vars, pc' = "reviewing"
  PROVE  \/ pc = "reviewing" /\ UNCHANGED findings
         \/ found = <<>> /\ UNCHANGED found
<1> USE DEF discovery, analysis
<1>1. CASE StartDiscovery
  <2>1. pc = "discover" /\ UNCHANGED found
    BY <1>1 DEF StartDiscovery
  <2>2. QED BY <2>1 DEF PipelineInv, FindingsInv, Late
<1>2. CASE Review \/ Claimed
  BY <1>2, Zenon DEF Review, Claimed
<1>3. CASE UNCHANGED vars
  BY <1>3 DEF vars
<1>4. CASE Checkout \/ Plan \/ Gather \/ Correlate \/ StartAnalysis \/ AskBatch \/ Analysed
  BY <1>4 DEF Checkout, Plan, Gather, Correlate, StartAnalysis, AskBatch, Analysed
<1>5. CASE MergeDiscovered \/ Report \/ \E name \in DOMAIN outs : Scanned(name) \/ RecordFails(name)
  BY <1>5 DEF MergeDiscovered, Report, Scanned, RecordFails
<1>6. QED BY <1>1, <1>2, <1>3, <1>4, <1>5 DEF Next

\* What the discovery adds is news, in whatever requests and whatever the LLM
\* answers: it repeats no finding of the scanners, as long as it reviews, and
\* nothing that it has found before.
THEOREM DiscoveriesNew == Spec => []DiscoveriesAreNew
<1>1. Init => DiscoveriesAreNew
  BY DEF Init, DiscoveriesAreNew
<1>2. PipelineInv /\ DiscoveriesAreNew /\ [Next]_vars => DiscoveriesAreNew'
  <2> SUFFICES ASSUME PipelineInv, DiscoveriesAreNew, [Next]_vars PROVE DiscoveriesAreNew'
    OBVIOUS
  <2>1. CASE UNCHANGED found
    <3>1. ASSUME pc' = "reviewing", NEW d \in Range(found'), NEW f \in Range(findings')
          PROVE  ~Repeats(d, f)
      <4>1. CASE pc = "reviewing" /\ UNCHANGED findings
        BY <2>1, <3>1, <4>1 DEF DiscoveriesAreNew
      <4>2. CASE found = <<>> /\ UNCHANGED found
        BY <3>1, <4>2 DEF Range
      <4>3. QED BY <3>1, <4>1, <4>2, StepOnReview
    <3>2. QED BY <2>1, <3>1 DEF DiscoveriesAreNew
  <2>2. CASE /\ pc = "reviewing" /\ UNCHANGED findings
             /\ \E claim \in Claims : ~Known(claim) /\ found' = Append(found, Discovered(claim))
    <3>1. PICK claim \in Claims : ~Known(claim) /\ found' = Append(found, Discovered(claim))
      BY <2>2
    <3>2. PICK g \in Found : g = Discovered(claim)
      BY DEF Found
    <3>3. g.file = claim.file /\ g.line = claim.line /\ g.family = claim.family
      BY <3>2 DEF Discovered
    <3>4. found \in Seq(Found) /\ found' = Append(found, g)
      BY <3>1, <3>2 DEF PipelineInv, DiscoveryInv, FoundOK
    <3>5. PICK n \in Nat : /\ DOMAIN found = 1..(n - 1) /\ DOMAIN found' = 1..n
                           /\ \A i \in 1..(n - 1) : found'[i] = found[i] /\ found[i] \in Found
                           /\ found'[n] = g
      <4>1. Len(found) + 1 \in Nat
        BY <3>4
      <4>2. QED BY <3>4, <4>1
    <3>6. \A f \in Found : f.line \in Nat
      BY ClaimsAssumption DEF Found, Discovered
    <3>7. ASSUME NEW f \in Range(findings) \cup Range(found) PROVE ~Repeats(g, f)
      <4>1. f.line \in Nat
        <5>1. CASE f \in Range(findings)
          BY <5>1, FindingTypes DEF PipelineInv, FindingsInv, FindingsOK, FindingOK, Range
        <5>2. CASE f \in Range(found)
          BY <3>5, <3>6, <5>2 DEF Range
        <5>3. QED BY <3>7, <5>1, <5>2
      <4>2. \/ f.file # g.file \/ ~(Distance(f.line, g.line) <= 3)
            \/ g.family \notin {f.family, NoFamily}
        BY <3>1, <3>3 DEF Known
      <4>3. g.line \in Nat
        BY <3>6
      <4>4. g.line - f.line \in -3..3 => Distance(f.line, g.line) <= 3
        BY <4>1, <4>3 DEF Distance
      <4>5. QED BY <4>2, <4>4 DEF Repeats
    <3>8. \A i \in 1..n : i = n \/ i \in 1..(n - 1)
      OBVIOUS
    <3>9. \A i \in 1..(n - 1) : found[i] \in Range(found)
      BY <3>5 DEF Range
    <3>10. ASSUME NEW d \in Range(found'), NEW f \in Range(findings') PROVE ~Repeats(d, f)
      <4>1. PICK i \in 1..n : d = found'[i]
        BY <3>5 DEF Range
      <4>2. d = g \/ d \in Range(found)
        BY <3>5, <3>8, <3>9, <4>1
      <4>3. QED BY <2>2, <3>7, <4>2 DEF DiscoveriesAreNew
    <3>11. ASSUME NEW i \in 1..n, NEW j \in 1..n, i < j PROVE ~Repeats(found'[j], found'[i])
      <4>1. i \in 1..(n - 1)
        BY <3>11
      <4>2. CASE j = n
        BY <3>5, <3>7, <3>9, <4>1, <4>2
      <4>3. CASE j \in 1..(n - 1)
        BY <3>5, <3>11, <4>1, <4>3 DEF DiscoveriesAreNew
      <4>4. QED BY <3>8, <4>2, <4>3
    <3>12. QED BY <3>5, <3>10, <3>11 DEF DiscoveriesAreNew
  <2>3. QED BY <2>1, <2>2, StepOnFound
<1>3. QED BY <1>1, <1>2, PipelineInvariant, PTL DEF Spec

\* With analysis, no finding is reported without a verdict, of a tool, of
\* the LLM, or of the default that leaves it to a human.
THEOREM EveryFindingIsJudged == Spec => []EveryFindingJudged
<1>1. PipelineInv => EveryFindingJudged
  BY DEF PipelineInv, FindingsInv
<1>2. QED BY <1>1, PipelineInvariant, PTL

=============================================================================
