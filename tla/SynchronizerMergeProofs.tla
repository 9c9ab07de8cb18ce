---------------------- MODULE SynchronizerMergeProofs -----------------------
(***************************************************************************)
(* Proofs about what the push synchronizer merges: rebasing loses no edit, *)
(* and once everything is delivered the sites agree, for any number of     *)
(* clients and commits.                                                    *)
(*                                                                         *)
(* A revision knows the items that it or an ancestor has (Seen), and the   *)
(* ones of these it has no more (Gone).  Covers compares what two          *)
(* revisions know: a rebase gives a revision that covers the revision it   *)
(* replaces and the one it is put on, and knows nothing else (RebaseKnows),*)
(* if these have in common only what their ancestor knew (BasesKnown).     *)
(* MergeInv then is that somebody who is not left behind knows each edit,  *)
(* and that a push in transit will be answered.  ReachInv is that what is  *)
(* under way to a client leads to where the server is (Leads).             *)
(***************************************************************************)
EXTENDS SynchronizerProofs

-----------------------------------------------------------------------------
(* Revisions in order                                                      *)

(* Every set of numbers has a least one: the induction of these proofs, as *)
(* the least number that would go wrong.                                   *)
LEMMA LeastNumber ==
  ASSUME NEW S \in SUBSET Nat, S # {}
  PROVE  \E m \in S : \A n \in S : m <= n
<1> DEFINE Less == {p \in Nat \X Nat : p[1] < p[2]}
<1>1. OpToRel(<, Nat) = Less
  BY DEF OpToRel
<1>2. IsWellFoundedOn(Less, Nat)
  BY <1>1, NatLessThanWellFounded
<1>3. PICK m \in S : \A n \in S : <<n, m>> \notin Less
  <2> HIDE DEF Less
  <2> QED
    BY <1>2, WFMin
<1>4. \A n \in S : m <= n
  <2> SUFFICES ASSUME NEW n \in S
               PROVE  ~ (n < m)
    OBVIOUS
  <2>1. <<n, m>> \in Nat \X Nat /\ <<n, m>>[1] = n /\ <<n, m>>[2] = m
    OBVIOUS
  <2> QED
    BY <1>3, <2>1
<1> QED
  BY <1>4

\* s lists n elements of S, the least first.
Lists(s, n, S) == s \in [1..n -> S] /\ \A j, k \in 1..n : j < k => s[j] < s[k]

(* The numbers up to one can be listed.                                    *)
LEMMA ListExists ==
  ASSUME NEW N \in Nat, NEW S \in SUBSET (1..N)
  PROVE  \E s : Lists(s, Cardinality(S), S)
<1> DEFINE Upto(n) == S \cap (1..n)
           Bad == {n \in 0..N : ~ \E s : Lists(s, Cardinality(Upto(n)), Upto(n))}
<1>1. Bad = {}
  <2> SUFFICES ASSUME Bad # {}
               PROVE  FALSE
    OBVIOUS
  <2>1. PICK n \in Bad : \A k \in Bad : n <= k
    <3>1. Bad \in SUBSET Nat
      OBVIOUS
    <3> HIDE DEF Bad
    <3> QED
      BY <3>1, LeastNumber
  <2>2. n \in 0..N /\ ~ \E s : Lists(s, Cardinality(Upto(n)), Upto(n))
    OBVIOUS
  <2>3. n # 0
    <3>1. Upto(0) = {} /\ Cardinality({}) = 0 /\ 1..0 = {}
      BY FS_EmptySet
    <3>2. [k \in {} |-> k] \in [{} -> {}]
      OBVIOUS
    <3>3. Lists([k \in {} |-> k], 0, {})
      BY <3>1, <3>2 DEF Lists
    <3> HIDE DEF Upto
    <3> QED
      BY <2>2, <3>1, <3>3
  <2>4. n - 1 \in 0..N /\ n - 1 \notin Bad
    <3>1. n - 1 \in 0..N /\ ~ (n <= n - 1)
      BY <2>2, <2>3
    <3> HIDE DEF Bad
    <3> QED
      BY <2>1, <3>1
  <2> DEFINE D == Upto(n - 1)
             m == Cardinality(D)
  <2>5. PICK s : Lists(s, m, D)
    BY <2>4
  <2>6. CASE n \notin S
    <3>1. Upto(n) = D
      BY <2>2, <2>6
    <3> HIDE DEF D, Upto
    <3> QED
      BY <2>2, <2>5, <3>1
  <2>7. CASE n \in S
    <3>1. Upto(n) = D \cup {n} /\ n \notin D
      BY <2>2, <2>3, <2>7
    <3>2. IsFiniteSet(D) /\ \A x \in D : x < n /\ x \in Nat
      <4>1. IsFiniteSet(1..(n - 1)) /\ D \in SUBSET (1..(n - 1))
        BY <2>2, FS_Interval
      <4>2. IsFiniteSet(D)
        BY <4>1, FS_Subset
      <4>3. \A x \in 1..(n - 1) : x < n /\ x \in Nat
        BY <2>2
      <4> HIDE DEF D
      <4> QED
        BY <4>1, <4>2, <4>3
    <3> HIDE DEF D, Upto
    <3>3. m \in Nat /\ Cardinality(D \cup {n}) = m + 1
      BY <3>1, <3>2, FS_AddElement, FS_CardinalityType
    <3> DEFINE t == [k \in 1..(m + 1) |-> IF k = m + 1 THEN n ELSE s[k]]
    <3> HIDE DEF m
    <3>4. /\ \A k \in 1..(m + 1) : k = m + 1 \/ k \in 1..m
          /\ \A k \in 1..m : k \in 1..(m + 1) /\ k # m + 1
      BY <3>3
    <3>5. \A k \in 1..m : s[k] \in D /\ t[k] = s[k]
      BY <2>5, <3>4 DEF Lists
    <3>6. t \in [1..(m + 1) -> D \cup {n}]
      BY <3>4, <3>5
    <3>7. t[m + 1] = n
      <4>1. m + 1 \in 1..(m + 1)
        BY <3>3
      <4> QED
        BY <4>1
    <3> HIDE DEF t
    <3>8. ASSUME NEW j \in 1..(m + 1), NEW k \in 1..(m + 1), j < k
          PROVE  t[j] < t[k]
      <4>1. j \in 1..m
        BY <3>3, <3>8
      <4>2. CASE k \in 1..m
        BY <2>5, <3>5, <3>8, <4>1, <4>2 DEF Lists
      <4>3. CASE k = m + 1
        BY <3>2, <3>5, <3>7, <4>1, <4>3
      <4> QED
        BY <3>4, <4>2, <4>3
    <3>9. Lists(t, m + 1, D \cup {n})
      BY <3>6, <3>8 DEF Lists
    <3> QED
      BY <2>2, <3>1, <3>3, <3>9 DEF m
  <2> QED
    BY <2>6, <2>7
<1>2. Upto(N) = S /\ N \in 0..N
  <2>1. S \cap (1..N) = S
    OBVIOUS
  <2>2. N \in 0..N
    OBVIOUS
  <2> QED
    BY <2>1, <2>2
<1> HIDE DEF Upto
<1>3. \E s : Lists(s, Cardinality(Upto(N)), Upto(N))
  BY <1>1, <1>2
<1> QED
  BY <1>2, <1>3

(* InOrder lists the revisions it is given, and all of them.               *)
LEMMA InOrderLists ==
  ASSUME NEW N \in Nat, NEW S \in SUBSET (1..N)
  PROVE  /\ IsFiniteSet(S) /\ Cardinality(S) \in Nat
         /\ Lists(InOrder(S), Cardinality(S), S)
         /\ \A r \in S : \E k \in 1..Cardinality(S) : InOrder(S)[k] = r
<1> DEFINE n == Cardinality(S)
           s == InOrder(S)
<1>1. IsFiniteSet(1..N)
  BY FS_Interval
<1>2. IsFiniteSet(S) /\ n \in Nat
  BY <1>1, FS_Subset, FS_CardinalityType
<1>3. Lists(s, n, S)
  <2>1. PICK u : Lists(u, n, S)
    BY ListExists
  <2>2. u \in [1..n -> S] /\ \A j, k \in DOMAIN u : j < k => u[j] < u[k]
    BY <2>1 DEF Lists
  <2>3. s = CHOOSE v \in [1..n -> S] : \A j, k \in DOMAIN v : j < k => v[j] < v[k]
    BY DEF InOrder
  <2> HIDE DEF s, n
  <2>4. s \in [1..n -> S] /\ \A j, k \in DOMAIN s : j < k => s[j] < s[k]
    BY <2>2, <2>3
  <2> QED
    BY <2>4 DEF Lists
<1> HIDE DEF s, n
<1>4. \A j, k \in 1..n : s[j] = s[k] => j = k
  <2> SUFFICES ASSUME NEW j \in 1..n, NEW k \in 1..n, s[j] = s[k], j < k
               PROVE  FALSE
    BY <1>2
  <2>1. s[j] < s[k]
    BY <1>3 DEF Lists
  <2>2. s[j] \in S /\ \A x \in S : x \in Nat
    BY <1>3 DEF Lists
  <2>3. s[j] \in Nat
    BY <2>2, Zenon
  <2>4. \A x \in Nat : ~ (x < x)
    OBVIOUS
  <2>5. s[j] < s[j]
    BY <2>1, Zenon
  <2> QED
    BY <2>3, <2>4, <2>5, Zenon
<1>5. s \in Injection(1..n, S)
  BY <1>3, <1>4 DEF Injection, IsInjective, Lists
<1>6. Cardinality(1..n) = n
  BY <1>2, FS_Interval
<1>7. s \in Surjection(1..n, S)
  BY <1>2, <1>5, <1>6, FS_Injection DEF n
<1>8. \A r \in S : \E k \in 1..n : s[k] = r
  BY <1>7 DEF Surjection
<1> QED
  BY <1>2, <1>3, <1>8 DEF s, n

-----------------------------------------------------------------------------
(* Rebasing one revision after another                                     *)

\* f gives the items after the first k of the revisions revs were merged.
MergesInTurn(h, revs, dest, ancestor, n, f) ==
  f = [k \in 0..n |-> IF k = 0 THEN h[dest].items
                      ELSE Merge3(h[ComparedWith(ancestor, revs)[k]].items,
                                  h[revs[k]].items, f[k - 1])]

(* Each revision is merged into what the one before it left.               *)
LEMMA RebasedItemsAre ==
  ASSUME NEW h, NEW revs, NEW dest, NEW ancestor, Len(revs) \in Nat
  PROVE  LET items == RebasedItems(h, revs, dest, ancestor)
         IN  /\ items[0] = h[dest].items
             /\ \A k \in 1..Len(revs) :
                  items[k] = Merge3(h[ComparedWith(ancestor, revs)[k]].items,
                                    h[revs[k]].items, items[k - 1])
<1> DEFINE N == Len(revs)
           Is(f, n) == MergesInTurn(h, revs, dest, ancestor, n, f)
           M(k, x) == Merge3(h[ComparedWith(ancestor, revs)[k]].items, h[revs[k]].items, x)
           Bad == {n \in 0..N : ~ \E f : Is(f, n)}
<1>1. Bad = {}
  <2> SUFFICES ASSUME Bad # {}
               PROVE  FALSE
    OBVIOUS
  <2>1. PICK n \in Bad : \A k \in Bad : n <= k
    <3>1. Bad \in SUBSET Nat
      OBVIOUS
    <3> HIDE DEF Bad
    <3> QED
      BY <3>1, LeastNumber
  <2>2. n \in 0..N /\ ~ \E f : Is(f, n)
    OBVIOUS
  <2>3. n # 0
    <3> DEFINE f == [k \in 0..0 |-> h[dest].items]
    <3>1. Is(f, 0)
      <4>1. \A k \in 0..0 : k = 0
        OBVIOUS
      <4> QED
        BY <4>1 DEF MergesInTurn
    <3> QED
      BY <2>2, <3>1
  <2>4. n - 1 \in 0..N /\ n - 1 \notin Bad
    <3>1. n - 1 \in 0..N /\ ~ (n <= n - 1)
      BY <2>2, <2>3
    <3> HIDE DEF Bad
    <3> QED
      BY <2>1, <3>1
  <2>5. PICK f : Is(f, n - 1)
    BY <2>4
  <2> DEFINE g == [k \in 0..n |-> IF k = n THEN M(n, f[n - 1]) ELSE f[k]]
  <2>6. \A k \in 0..n : g[k] = IF k = 0 THEN h[dest].items ELSE M(k, g[k - 1])
    <3> TAKE k \in 0..n
    <3>1. f = [j \in 0..(n - 1) |-> IF j = 0 THEN h[dest].items ELSE M(j, f[j - 1])]
      BY <2>5 DEF MergesInTurn
    <3> HIDE DEF M
    <3>2. CASE k = n
      <4>1. n - 1 \in 0..n /\ n - 1 # n /\ k # 0
        BY <2>2, <2>3, <3>2
      <4>2. g[n - 1] = f[n - 1] /\ g[k] = M(n, f[n - 1])
        BY <3>2, <4>1
      <4> HIDE DEF g
      <4> QED
        BY <3>2, <4>1, <4>2
    <3>3. CASE k # n
      <4>1. k \in 0..(n - 1) /\ g[k] = f[k]
        BY <2>2, <3>3
      <4>2. f[k] = IF k = 0 THEN h[dest].items ELSE M(k, f[k - 1])
        BY <3>1, <4>1
      <4>3. k # 0 => g[k - 1] = f[k - 1]
        <5>1. k # 0 => k - 1 \in 0..n /\ k - 1 # n
          BY <2>2, <3>3
        <5> QED
          BY <5>1
      <4> HIDE DEF g
      <4> QED
        BY <4>1, <4>2, <4>3
    <3> QED
      BY <3>2, <3>3
  <2>7. Is(g, n)
    <3>1. g = [k \in 0..n |-> g[k]]
      OBVIOUS
    <3> HIDE DEF g
    <3> QED
      BY <2>6, <3>1 DEF MergesInTurn
  <2> QED
    BY <2>2, <2>7
<1>2. \E f : Is(f, N)
  <2>1. N \in 0..N
    OBVIOUS
  <2> HIDE DEF Is
  <2> QED
    BY <1>1, <2>1
<1>3. PICK items : items = RebasedItems(h, revs, dest, ancestor)
  OBVIOUS
<1>4. RebasedItems(h, revs, dest, ancestor) = CHOOSE f : Is(f, N)
  BY DEF RebasedItems, MergesInTurn
<1>5. Is(items, N)
  <2> HIDE DEF Is
  <2> QED
    BY <1>2, <1>3, <1>4
<1>6. items = [k \in 0..N |-> IF k = 0 THEN h[dest].items ELSE M(k, items[k - 1])]
  BY <1>5 DEF MergesInTurn
<1>7. 0 \in 0..N /\ \A k \in 1..N : k \in 0..N /\ k # 0
  OBVIOUS
<1>8. items[0] = h[dest].items /\ \A k \in 1..N : items[k] = M(k, items[k - 1])
  <2> HIDE DEF M
  <2> QED
    BY <1>6, <1>7
<1> QED
  BY <1>3, <1>8

\* from goes up the line of source, revision by revision, from ancestor.
Climbs(h, ancestor, source, n, from) ==
  /\ from[0] = ancestor /\ from[n] = source
  /\ \A k \in 0..n : from[k] \in Line(h, source)
  /\ \A k \in 1..n : Line(h, from[k]) = Line(h, from[k - 1]) \cup {from[k]}

\* The k-th revision written on top of dest.
TipAfter(h, dest, k) == IF k = 0 THEN dest ELSE Len(h) + k

\* g is h with the n revisions of from after the first merged on top of dest.
Rewrites(h, g, dest, n, from) ==
  /\ n \in Nat \ {0} /\ Len(g) = Len(h) + n
  /\ \A r \in 1..Len(h) : g[r] = h[r]
  /\ \A k \in 1..n : g[TipAfter(h, dest, k)].items =
       Merge3(h[from[k - 1]].items, h[from[k]].items, g[TipAfter(h, dest, k - 1)].items)

(* The revisions of a line that follow one of them, in order, go up it.    *)
LEMMA OrderClimbs ==
  ASSUME NEW h, GoodHistory(h), NEW source \in 1..Len(h), NEW ancestor \in Line(h, source),
         ancestor < source,
         NEW S, S = RevisionsFromTo(h, ancestor, source), NEW n, n = Cardinality(S),
         NEW from, from[0] = ancestor, \A k \in 1..n : from[k] = InOrder(S)[k]
  PROVE  n \in Nat \ {0} /\ Climbs(h, ancestor, source, n, from)
<1> DEFINE L == Line(h, source)
<1>1. /\ Len(h) \in Nat /\ L \subseteq 1..source /\ source \in L
      /\ \A a \in L : Line(h, a) = L \cap 1..a
  BY DEF GoodHistory
<1> DEFINE Numbers == \A a \in L : a \in Nat /\ a <= source /\ a >= 1
<1>n. Numbers
  BY <1>1
<1>2. \A r : r \in S <=> r \in L /\ r > ancestor
  BY DEF RevisionsFromTo
<1>3. S \in SUBSET (1..Len(h)) /\ source \in S
  BY <1>1, <1>2
<1>4. /\ n \in Nat /\ Lists(InOrder(S), n, S)
      /\ \A r \in S : \E k \in 1..n : InOrder(S)[k] = r
  <2>1. /\ Cardinality(S) \in Nat /\ Lists(InOrder(S), Cardinality(S), S)
        /\ \A r \in S : \E k \in 1..Cardinality(S) : InOrder(S)[k] = r
    <3>1. PICK N \in Nat : N = Len(h)
      BY <1>1
    <3>2. S \in SUBSET (1..N)
      BY <1>3, <3>1
    <3> QED
      BY <3>2, InOrderLists, Zenon
  <2> QED
    BY <2>1
<1>5. /\ \A k \in 1..n : from[k] \in S
      /\ \A j, k \in 1..n : j < k => from[j] < from[k]
      /\ \A r \in S : \E k \in 1..n : from[k] = r
  BY <1>4 DEF Lists
<1>6. PICK m \in 1..n : from[m] = source
  BY <1>3, <1>5
<1>7. n \in Nat \ {0}
  BY <1>4, <1>6
<1> HIDE DEF L
<1>8. n \in 1..n /\ from[n] \in L
  BY <1>2, <1>5, <1>7
<1>9. from[n] = source
  <2>1. CASE m = n
    BY <1>6, <2>1
  <2>2. CASE m # n
    <3>1. m < n /\ from[m] < from[n]
      BY <1>5, <1>7, <1>8, <2>2
    <3>2. from[n] \in Nat /\ from[n] <= source /\ source \in Nat
      BY <1>8, <1>n
    <3> QED
      BY <1>6, <3>1, <3>2
  <2> QED
    BY <2>1, <2>2
<1>10. ASSUME NEW k \in 0..n
       PROVE  from[k] \in L
  <2>1. k = 0 \/ k \in 1..n
    BY <1>7
  <2> QED
    BY <1>2, <1>5, <2>1 DEF L
<1>11. ASSUME NEW k \in 1..n
       PROVE  Line(h, from[k]) = Line(h, from[k - 1]) \cup {from[k]}
  <2>1. k \in 0..n /\ k - 1 \in 0..n /\ (k - 1 = 0 \/ k - 1 \in 1..n) /\ k - 1 < k
    BY <1>7
  <2>2. from[k] \in L /\ from[k - 1] \in L
    BY <1>10, <2>1
  <2>3. from[k - 1] < from[k]
    <3>1. CASE k - 1 = 0
      BY <1>2, <1>5, <3>1
    <3>2. CASE k - 1 \in 1..n
      BY <1>5, <2>1, <3>2
    <3> QED
      BY <2>1, <3>1, <3>2
  <2>4. ASSUME NEW y \in L, y < from[k]
        PROVE  y <= from[k - 1]
    <3>1. CASE y <= ancestor
      <4>1. CASE k - 1 = 0
        BY <3>1, <4>1
      <4>2. CASE k - 1 \in 1..n
        <5>1. from[k - 1] > ancestor /\ ancestor \in Nat /\ from[k - 1] \in Nat /\ y \in Nat
          BY <1>n, <1>2, <1>5, <2>2, <4>2 DEF L
        <5> QED
          BY <3>1, <5>1
      <4> QED
        BY <2>1, <4>1, <4>2
    <3>2. CASE ~ (y <= ancestor)
      <4>1. y \in S
        <5>1. ancestor \in Nat /\ y \in Nat
          BY <1>n DEF L
        <5> QED
          BY <1>2, <3>2, <5>1
      <4>2. PICK j \in 1..n : from[j] = y
        BY <1>5, <4>1
      <4>3. ~ (k <= j)
        <5> SUFFICES ASSUME k <= j PROVE FALSE
          OBVIOUS
        <5>n. from[k] \in Nat /\ from[j] \in Nat /\ from[k - 1] \in Nat
          BY <1>n, <2>2, <4>2
        <5>1. from[k] <= from[j]
          <6>1. CASE k = j
            BY <5>n, <6>1
          <6>2. CASE k # j
            <7>1. k < j
              BY <6>2
            <7>2. from[k] < from[j]
              BY <1>5, <7>1
            <7> QED
              BY <5>n, <7>2
          <6> QED
            BY <6>1, <6>2
        <5> QED
          BY <2>4, <4>2, <5>1, <5>n
      <4>4. j = k - 1 \/ j < k - 1
        BY <1>7, <4>3
      <4>5. CASE j = k - 1
        BY <1>n, <2>2, <4>2, <4>5
      <4>6. CASE j < k - 1
        <5>1. k - 1 \in 1..n
          BY <1>7, <4>6
        <5>2. from[j] < from[k - 1]
          BY <1>5, <4>6, <5>1
        <5>3. from[j] \in Nat /\ from[k - 1] \in Nat
          BY <1>n, <2>2, <4>2
        <5> QED
          BY <4>2, <5>2, <5>3
      <4> QED
        BY <4>4, <4>5, <4>6
    <3> QED
      BY <3>1, <3>2
  <2>5. Line(h, from[k]) = L \cap 1..from[k] /\ Line(h, from[k - 1]) = L \cap 1..from[k - 1]
    BY <1>1, <2>2
  <2>6. \A y : y \in L \cap 1..from[k] <=> y \in (L \cap 1..from[k - 1]) \cup {from[k]}
    <3> TAKE y
    <3>1. CASE y \in L
      <4>1. y \in Nat /\ y >= 1 /\ from[k] \in Nat /\ from[k - 1] \in Nat /\ from[k] >= 1
        BY <1>n, <2>2, <3>1
      <4> QED
        BY <2>2, <2>3, <2>4, <3>1, <4>1
    <3>2. CASE y \notin L
      BY <2>2, <3>2
    <3> QED
      BY <3>1, <3>2
  <2> QED
    BY <2>5, <2>6
<1> QED
  BY <1>7, <1>9, <1>10, <1>11 DEF Climbs, L

(* What rebasing writes.                                                   *)
LEMMA RebaseRewrites ==
  ASSUME NEW h, GoodHistory(h), NEW source \in 1..Len(h), NEW ancestor \in Line(h, source),
         ancestor < source, NEW dest \in 1..Len(h)
  PROVE  \E n, from : /\ Climbs(h, ancestor, source, n, from)
                      /\ Rewrites(h, Rebase(h, source, dest, ancestor), dest, n, from)
<1> DEFINE S == RevisionsFromTo(h, ancestor, source)
           n == Cardinality(S)
           s == InOrder(S)
           from == [k \in 0..n |-> IF k = 0 THEN ancestor ELSE s[k]]
           items == RebasedItems(h, s, dest, ancestor)
           t == [k \in 1..n |-> [line  |-> Line(h, dest) \cup (Len(h) + 1)..(Len(h) + k),
                                 items |-> items[k]]]
           g == h \o t
           T == {t[k] : k \in 1..n}
           X == {h[i] : i \in 1..Len(h)} \cup T
<1>1. /\ h \in Seq({h[i] : i \in 1..Len(h)}) /\ Len(h) \in Nat
      /\ S \in SUBSET (1..Len(h))
  BY RangeFinite DEF GoodHistory, IsSequence
<1>2. n \in Nat /\ Lists(s, n, S)
  <2> HIDE DEF S
  <2> QED
    BY <1>1, InOrderLists
<1>3. s \in Seq(S) /\ Len(s) = n /\ ancestor \in Nat
  <2> HIDE DEF s, n, S
  <2>1. s \in [1..n -> S]
    BY <1>2 DEF Lists
  <2>2. s \in Seq(S)
    BY <1>2, <2>1, SeqDef
  <2>3. Len(s) \in Nat /\ DOMAIN s = 1..Len(s)
    BY <2>2, LenProperties
  <2> QED
    BY <1>1, <1>2, <2>1, <2>2, <2>3 DEF GoodHistory
<1>4. n \in Nat \ {0} /\ Climbs(h, ancestor, source, n, from)
  <2>1. 0 \in 0..n /\ \A k \in 1..n : k \in 0..n /\ k # 0
    <3> HIDE DEF n
    <3> QED
      BY <1>2
  <2>2. from[0] = ancestor /\ \A k \in 1..n : from[k] = s[k]
    <3> HIDE DEF n, s
    <3> QED
      BY <2>1
  <2> HIDE DEF from
  <2> QED
    BY <2>2, OrderClimbs
<1>5. /\ items[0] = h[dest].items
      /\ \A k \in 1..n : items[k] = Merge3(h[ComparedWith(ancestor, s)[k]].items, h[s[k]].items,
                                          items[k - 1])
  <2> HIDE DEF n, s
  <2>1. /\ items[0] = h[dest].items
        /\ \A k \in 1..Len(s) :
             items[k] = Merge3(h[ComparedWith(ancestor, s)[k]].items, h[s[k]].items, items[k - 1])
    <3>1. Len(s) \in Nat
      BY <1>2, <1>3
    <3> QED
      BY <3>1, RebasedItemsAre
  <2> QED
    BY <1>3, <2>1
<1>6. \A k \in 1..n : ComparedWith(ancestor, s)[k] = from[k - 1] /\ s[k] = from[k]
  <2> HIDE DEF n, s, S
  <2> TAKE k \in 1..n
  <2>1. k - 1 \in 0..n /\ k \in 0..n /\ k # 0 /\ k \in 1..(1 + n)
    BY <1>2
  <2>2. from[k] = s[k] /\ from[k - 1] = IF k - 1 = 0 THEN ancestor ELSE s[k - 1]
    BY <2>1
  <2> DEFINE Y == S \cup {ancestor}
  <2>3. s \in Seq(Y) /\ <<ancestor>> \in Seq(Y) /\ Len(<<ancestor>>) = 1 /\ <<ancestor>>[1] = ancestor
    <3>1. s \in Seq(Y)
      BY <1>3, SeqMonotonic
    <3> QED
      BY <3>1
  <2> HIDE DEF Y, from
  <2>4. (<<ancestor>> \o s)[k] = IF k <= 1 THEN <<ancestor>>[k] ELSE s[k - 1]
    BY <1>2, <1>3, <2>1, <2>3, ConcatProperties
  <2>5. k <= 1 <=> k - 1 = 0
    BY <1>2
  <2>6. k <= 1 => k = 1
    BY <1>2
  <2>7. (<<ancestor>> \o s)[k] = from[k - 1]
    <3>1. CASE k <= 1
      BY <2>2, <2>3, <2>4, <2>5, <2>6, <3>1
    <3>2. CASE ~ (k <= 1)
      BY <2>2, <2>4, <2>5, <3>2
    <3> QED
      BY <3>1, <3>2
  <2> QED
    BY <2>2, <2>7 DEF ComparedWith
<1>7. /\ \A k \in 1..n : t[k].items = items[k]
      /\ DOMAIN t = 1..n /\ t = [k \in 1..n |-> t[k]]
  <2> HIDE DEF n, items
  <2> QED
    OBVIOUS
<1>8. t \in Seq(X) /\ Len(t) = n /\ h \in Seq(X)
  <2> HIDE DEF n, t
  <2>1. t \in [1..n -> X]
    BY <1>7
  <2>2. h \in Seq(X)
    BY <1>1, SeqMonotonic, Zenon
  <2> HIDE DEF X
  <2>3. t \in Seq(X)
    BY <1>2, <2>1, SeqDef
  <2>4. Len(t) \in Nat /\ DOMAIN t = 1..Len(t)
    BY <2>3, LenProperties
  <2> QED
    BY <1>2, <1>7, <2>2, <2>3, <2>4
<1>9. /\ Len(g) = Len(h) + n
      /\ \A i \in 1..(Len(h) + n) : g[i] = IF i <= Len(h) THEN h[i] ELSE t[i - Len(h)]
  <2> HIDE DEF X, n, t
  <2> QED
    BY <1>8, ConcatProperties
<1> HIDE DEF n, items, t, from, s, g
<1>10. \A r \in 1..Len(h) : g[r] = h[r]
  BY SMTT(30), <1>1, <1>2, <1>9
<1>11. ASSUME NEW k \in 0..n
       PROVE  g[TipAfter(h, dest, k)].items = items[k]
  <2>1. CASE k = 0
    BY <1>5, <1>10, <2>1 DEF TipAfter
  <2>2. CASE k # 0
    <3>1. /\ k \in 1..n /\ Len(h) + k \in 1..(Len(h) + n) /\ ~ (Len(h) + k <= Len(h))
          /\ (Len(h) + k) - Len(h) = k
      BY <1>1, <1>2, <2>2
    <3>2. g[Len(h) + k] = t[k]
      BY <1>9, <3>1
    <3> QED
      BY <1>7, <2>2, <3>1, <3>2 DEF TipAfter
  <2> QED
    BY <2>1, <2>2
<1>12. ASSUME NEW k \in 1..n
       PROVE  g[TipAfter(h, dest, k)].items =
                Merge3(h[from[k - 1]].items, h[from[k]].items, g[TipAfter(h, dest, k - 1)].items)
  <2>1. k \in 0..n /\ k - 1 \in 0..n
    BY <1>2
  <2> QED
    BY <1>5, <1>6, <1>11, <2>1
<1>13. Rewrites(h, g, dest, n, from)
  BY <1>4, <1>9, <1>10, <1>12 DEF Rewrites
<1>14. g = Rebase(h, source, dest, ancestor)
  BY DEF Rebase, g, t, items, s, n
<1> QED
  BY <1>4, <1>13, <1>14

-----------------------------------------------------------------------------
(* What a revision knows: the items its line has seen, and those of them   *)
(* that are gone.                                                          *)

Seen(h, r) == UNION {h[a].items : a \in Line(h, r)}
Gone(h, r) == Seen(h, r) \ h[r].items

\* Revision b has merged what a knows.
Covers(h, a, b) == Seen(h, a) \subseteq Seen(h, b) /\ Gone(h, a) \subseteq Gone(h, b)

\* Nothing comes back once it is gone.
Remembers(h) == \A r \in 1..Len(h) : \A a \in Line(h, r) : Covers(h, a, r)

\* Nothing written is rewritten.
Keeps(h, g) == \A r \in 1..Len(h) : g[r] = h[r]

(* Merging what two sides know of items: each item that one side has seen  *)
(* is seen, and each that is gone from one side is gone, if the common     *)
(* ancestor has seen all that both have.                                   *)
LEMMA MergeKnows ==
  ASSUME NEW A, NEW X, NEW SA, NEW SD, NEW GD,
         A \subseteq SA, GD \subseteq SD, (SA \ A) \cap X = {}, (SA \cup X) \cap SD \subseteq SA
  PROVE  LET D == (SA \cup SD) \ ((SA \ A) \cup GD)
             E == Merge3(A, X, D)
         IN  /\ (SA \cup SD) \cup E = (SA \cup X) \cup SD
             /\ ((SA \cup SD) \cup E) \ E = ((SA \cup X) \ X) \cup GD
<1> DEFINE D == (SA \cup SD) \ ((SA \ A) \cup GD)
           E == Merge3(A, X, D)
<1>1. \A x : x \in E <=> \/ x \in A /\ x \in X /\ x \in D
                         \/ x \in X /\ x \notin A
                         \/ x \in D /\ x \notin A
  BY DEF Merge3
<1>2. \A x : x \in D <=> (x \in SA \/ x \in SD) /\ ~ (x \in SA /\ x \notin A) /\ x \notin GD
  OBVIOUS
<1> HIDE DEF D, E
<1>3. ASSUME NEW x
      PROVE  /\ x \in (SA \cup SD) \cup E <=> x \in (SA \cup X) \cup SD
             /\ x \in ((SA \cup SD) \cup E) \ E <=> x \in ((SA \cup X) \ X) \cup GD
  <2>1. /\ x \in A => x \in SA
        /\ x \in GD => x \in SD
        /\ ~ (x \in SA /\ x \notin A /\ x \in X)
        /\ (x \in SA \/ x \in X) /\ x \in SD => x \in SA
    OBVIOUS
  <2>2. x \in E <=> \/ x \in A /\ x \in X /\ x \in D
                    \/ x \in X /\ x \notin A
                    \/ x \in D /\ x \notin A
    BY <1>1
  <2>3. x \in D <=> (x \in SA \/ x \in SD) /\ ~ (x \in SA /\ x \notin A) /\ x \notin GD
    BY <1>2
  <2> QED
    BY <2>1, <2>2, <2>3
<1> QED
  BY <1>3 DEF D, E

(* What a revision knows does not depend on what is written later.         *)
LEMMA KnowledgeKept ==
  ASSUME NEW h, NEW g, GoodHistory(h), Keeps(h, g), NEW r \in 1..Len(h)
  PROVE  Line(g, r) = Line(h, r) /\ Seen(g, r) = Seen(h, r) /\ Gone(g, r) = Gone(h, r)
<1>1. Line(h, r) \subseteq 1..Len(h)
  BY DEF GoodHistory
<1>2. Line(g, r) = Line(h, r) /\ g[r] = h[r]
  BY DEF Keeps, Line
<1>3. \A a \in Line(h, r) : g[a] = h[a]
  BY <1>1 DEF Keeps
<1>4. \A x : x \in Seen(g, r) <=> x \in Seen(h, r)
  BY <1>2, <1>3 DEF Seen
<1>5. Seen(g, r) = Seen(h, r)
  BY <1>4
<1> QED
  BY <1>2, <1>5 DEF Gone

(* The same of two revisions.                                              *)
LEMMA CoversKept ==
  ASSUME NEW h, NEW g, GoodHistory(h), Keeps(h, g), NEW a \in 1..Len(h), NEW b \in 1..Len(h)
  PROVE  Covers(g, a, b) <=> Covers(h, a, b)
<1>1. Seen(g, a) = Seen(h, a) /\ Gone(g, a) = Gone(h, a)
  BY KnowledgeKept
<1>2. Seen(g, b) = Seen(h, b) /\ Gone(g, b) = Gone(h, b)
  BY KnowledgeKept
<1> QED
  BY <1>1, <1>2 DEF Covers

(* A revision has seen its own items, and what is not gone it still has.   *)
LEMMA ItemsKnown ==
  ASSUME NEW h, GoodHistory(h), NEW r \in 1..Len(h)
  PROVE  /\ h[r].items \subseteq Seen(h, r)
         /\ h[r].items = Seen(h, r) \ Gone(h, r)
         /\ Gone(h, r) \subseteq Seen(h, r)
<1>1. r \in Line(h, r)
  BY DEF GoodHistory
<1>2. h[r].items \subseteq Seen(h, r)
  BY <1>1 DEF Seen
<1> QED
  BY <1>2 DEF Gone

(* A revision that is written on another has seen what that has, and more. *)
LEMMA SeenByNext ==
  ASSUME NEW h, NEW p, NEW r, Line(h, r) = Line(h, p) \cup {r}
  PROVE  Seen(h, r) = Seen(h, p) \cup h[r].items
<1>1. \A x : x \in Seen(h, r) <=> x \in Seen(h, p) \/ x \in h[r].items
  BY DEF Seen
<1> QED
  BY <1>1

(* Every revision that is rewritten knows what the one it stands for and   *)
(* the one the first was put on know.                                      *)
LEMMA RewritesKnow ==
  ASSUME NEW h, NEW g, GoodHistory(h), GoodHistory(g), Remembers(h),
         NEW source \in 1..Len(h), NEW dest \in 1..Len(h), NEW ancestor \in 1..Len(h),
         Grown(h, g, dest),
         NEW n, NEW from, Climbs(h, ancestor, source, n, from), Rewrites(h, g, dest, n, from),
         Covers(h, ancestor, dest), Seen(h, source) \cap Seen(h, dest) \subseteq Seen(h, ancestor),
         NEW k \in 0..n
  PROVE  /\ Seen(g, TipAfter(h, dest, k)) = Seen(h, from[k]) \cup Seen(h, dest)
         /\ Gone(g, TipAfter(h, dest, k)) = Gone(h, from[k]) \cup Gone(h, dest)
<1> DEFINE Tip(j) == TipAfter(h, dest, j)
           Knows(j) == /\ Seen(g, Tip(j)) = Seen(h, from[j]) \cup Seen(h, dest)
                       /\ Gone(g, Tip(j)) = Gone(h, from[j]) \cup Gone(h, dest)
           Bad == {j \in 0..n : ~ Knows(j)}
<1>1. /\ n \in Nat \ {0} /\ Len(g) = Len(h) + n /\ Keeps(h, g)
      /\ Len(h) \in Nat /\ Len(g) \in Nat
  BY DEF Rewrites, Keeps, GoodHistory
<1>2. \A j \in 0..n : from[j] \in 1..Len(h) /\ from[j] \in Line(h, source)
  <2>1. Line(h, source) \subseteq 1..Len(h)
    BY DEF GoodHistory
  <2> QED
    BY <2>1 DEF Climbs
<1>3. Seen(g, dest) = Seen(h, dest) /\ Gone(g, dest) = Gone(h, dest)
  BY <1>1, KnowledgeKept
<1>4. Knows(0)
  <2>1. from[0] = ancestor /\ Tip(0) = dest
    BY DEF Climbs, TipAfter
  <2> QED
    BY <1>3, <2>1 DEF Covers
<1>5. ASSUME NEW j \in 1..n, Knows(j - 1)
      PROVE  Knows(j)
  <2> DEFINE p == from[j - 1]
             r == from[j]
             t == Tip(j - 1)
             e == Tip(j)
  <2>1. /\ j \in 0..n /\ j - 1 \in 0..n /\ e = Len(h) + j /\ e \in (Len(h) + 1)..Len(g)
        /\ e \in 1..Len(g)
    BY <1>1 DEF TipAfter
  <2>2. t \in 1..Len(g) /\ Line(g, e) = Line(g, t) \cup {e}
    <3>1. Line(g, e) = Line(h, dest) \cup (Len(h) + 1)..e
      BY <2>1 DEF Grown
    <3>2. CASE j = 1
      <4>1. t = dest /\ (Len(h) + 1)..e = {e}
        BY <1>1, <2>1, <3>2 DEF TipAfter
      <4>2. Line(g, dest) = Line(h, dest) /\ dest \in 1..Len(g)
        BY <1>1, KnowledgeKept
      <4> QED
        BY <3>1, <4>1, <4>2
    <3>3. CASE j # 1
      <4>1. t = Len(h) + (j - 1) /\ t \in (Len(h) + 1)..Len(g) /\ t \in 1..Len(g) /\ e = t + 1
        BY <1>1, <2>1, <3>3 DEF TipAfter
      <4>2. Line(g, t) = Line(h, dest) \cup (Len(h) + 1)..t
        BY <4>1 DEF Grown
      <4>3. (Len(h) + 1)..e = ((Len(h) + 1)..t) \cup {e}
        BY <1>1, <4>1
      <4> QED
        BY <3>1, <4>1, <4>2, <4>3
    <3> QED
      BY <3>2, <3>3
  <2>3. Seen(g, e) = Seen(g, t) \cup g[e].items
    BY <2>2, SeenByNext
  <2>4. /\ p \in 1..Len(h) /\ r \in 1..Len(h) /\ p \in Line(h, r) /\ r \in Line(h, source)
        /\ Seen(h, r) = Seen(h, p) \cup h[r].items
    <3>1. p \in 1..Len(h) /\ r \in 1..Len(h) /\ r \in Line(h, source)
      BY <1>2, <2>1
    <3>2. Line(h, r) = Line(h, p) \cup {r}
      BY DEF Climbs
    <3>3. Seen(h, r) = Seen(h, p) \cup h[r].items
      BY <3>2, SeenByNext
    <3>4. p \in Line(h, p)
      BY <3>1 DEF GoodHistory
    <3> QED
      BY <3>1, <3>2, <3>3, <3>4
  <2>5. Covers(h, p, r) /\ Covers(h, r, source)
    BY <2>4 DEF Remembers
  <2>6. Seen(h, ancestor) \subseteq Seen(h, p)
    <3>1. ancestor \in Line(h, p)
      <4>1. ancestor \in Line(h, source) /\ p \in Line(h, source) /\ Line(h, p) = Line(h, source) \cap 1..p
        <5>1. from[0] = ancestor /\ 0 \in 0..n
          BY <1>1 DEF Climbs
        <5> QED
          BY <1>2, <2>1, <5>1 DEF GoodHistory
      <4> DEFINE Low == {i \in 0..n : ancestor \notin Line(h, from[i])}
      <4>2. Low = {}
        <5> SUFFICES ASSUME Low # {}
                     PROVE  FALSE
          OBVIOUS
        <5>1. PICK i \in Low : \A l \in Low : i <= l
          <6>1. Low \in SUBSET Nat
            OBVIOUS
          <6> HIDE DEF Low
          <6> QED
            BY <6>1, LeastNumber
        <5>2. i \in 0..n /\ ancestor \notin Line(h, from[i])
          OBVIOUS
        <5>3. i # 0
          <6>1. from[0] = ancestor /\ ancestor \in Line(h, ancestor)
            BY DEF Climbs, GoodHistory
          <6> QED
            BY <5>2, <6>1
        <5>4. i - 1 \in 0..n /\ i - 1 \notin Low
          <6>1. i - 1 \in 0..n /\ ~ (i <= i - 1)
            BY <1>1, <5>2, <5>3
          <6> HIDE DEF Low
          <6> QED
            BY <5>1, <6>1
        <5>5. ancestor \in Line(h, from[i - 1]) /\ i \in 1..n
          BY <5>2, <5>3, <5>4
        <5>6. Line(h, from[i]) = Line(h, from[i - 1]) \cup {from[i]}
          BY <5>5 DEF Climbs
        <5> QED
          BY <5>2, <5>5, <5>6
      <4> QED
        BY <2>1, <4>2
    <3> QED
      BY <2>4, <3>1 DEF Remembers, Covers
  <2>7. g[e].items = Merge3(h[p].items, h[r].items, g[t].items)
    BY DEF Rewrites
  <2>8. /\ h[p].items \subseteq Seen(h, p) /\ Gone(h, p) = Seen(h, p) \ h[p].items
        /\ Gone(h, r) = Seen(h, r) \ h[r].items
        /\ Gone(h, dest) \subseteq Seen(h, dest)
        /\ g[t].items = Seen(g, t) \ Gone(g, t)
    BY <2>2, <2>4, ItemsKnown DEF Gone
  <2> HIDE DEF p, r, t, e, Tip
  <2> DEFINE A == h[p].items
             X == h[r].items
             SA == Seen(h, p)
             SD == Seen(h, dest)
             GD == Gone(h, dest)
  <2>9. /\ A \subseteq SA /\ GD \subseteq SD /\ (SA \ A) \cap X = {}
        /\ (SA \cup X) \cap SD \subseteq SA
        /\ g[t].items = (SA \cup SD) \ ((SA \ A) \cup GD)
        /\ Seen(g, t) = SA \cup SD
    <3>1. (SA \ A) \cap X = {}
      BY <2>5, <2>8 DEF Covers
    <3>2. (SA \cup X) \cap SD \subseteq SA
      BY <2>4, <2>5, <2>6 DEF Covers
    <3>3. Seen(g, t) = SA \cup SD /\ Gone(g, t) = (SA \ A) \cup GD
      BY <1>5, <2>8 DEF p, t
    <3> QED
      BY <2>8, <3>1, <3>2, <3>3
  <2>10. /\ Seen(g, e) = (SA \cup X) \cup SD
         /\ Seen(g, e) \ g[e].items = ((SA \cup X) \ X) \cup GD
    <3> HIDE DEF A, X, SA, SD, GD
    <3>1. /\ (SA \cup SD) \cup Merge3(A, X, (SA \cup SD) \ ((SA \ A) \cup GD)) = (SA \cup X) \cup SD
          /\ ((SA \cup SD) \cup Merge3(A, X, (SA \cup SD) \ ((SA \ A) \cup GD)))
               \ Merge3(A, X, (SA \cup SD) \ ((SA \ A) \cup GD)) = ((SA \cup X) \ X) \cup GD
      BY <2>9, MergeKnows
    <3>2. g[e].items = Merge3(A, X, (SA \cup SD) \ ((SA \ A) \cup GD))
      BY <2>7, <2>9 DEF A, X
    <3> QED
      BY <2>3, <2>9, <3>1, <3>2
  <2>11. Seen(g, e) = Seen(h, r) \cup SD /\ Gone(g, e) = Gone(h, r) \cup GD
    BY <2>4, <2>8, <2>10 DEF Gone
  <2> QED
    BY <2>11 DEF e, r
<1> HIDE DEF Knows
<1>6. Bad = {}
  <2> SUFFICES ASSUME Bad # {}
               PROVE  FALSE
    OBVIOUS
  <2>1. PICK j \in Bad : \A i \in Bad : j <= i
    <3>1. Bad \in SUBSET Nat
      OBVIOUS
    <3> HIDE DEF Bad
    <3> QED
      BY <3>1, LeastNumber
  <2>2. j \in 0..n /\ ~ Knows(j)
    OBVIOUS
  <2>3. j \in 1..n
    BY <1>1, <1>4, <2>2
  <2>4. j - 1 \in 0..n /\ j - 1 \notin Bad
    <3>1. j - 1 \in 0..n /\ ~ (j <= j - 1)
      BY <1>1, <2>3
    <3> HIDE DEF Bad
    <3> QED
      BY <2>1, <3>1
  <2> QED
    BY <1>5, <2>2, <2>3, <2>4
<1> QED
  BY <1>6 DEF Knows

\* What g adds to h: revisions that know no more than seen and gone.
AddsNoMore(h, g, seen, gone) ==
  \A r \in (Len(h) + 1)..Len(g) : Seen(g, r) \subseteq seen /\ Gone(g, r) \subseteq gone

\* g is h with revisions written on top of dest, the last of which has seen
\* seen, of which gone is gone.
Adds(h, g, dest, seen, gone) ==
  /\ Grown(h, g, dest) /\ Keeps(h, g) /\ GoodHistory(g) /\ Len(g) > Len(h)
  /\ Remembers(g)
  /\ Seen(g, Len(g)) = seen /\ Gone(g, Len(g)) = gone
  /\ AddsNoMore(h, g, seen, gone)

(* Rebasing leaves a revision that knows what both sides know: no edit is  *)
(* lost, and nothing comes back (+rebaseRevision:ontoRevision:...).        *)
LEMMA RebaseKnows ==
  ASSUME NEW h, GoodHistory(h), Remembers(h),
         NEW source \in 1..Len(h), NEW dest \in 1..Len(h),
         NEW ancestor \in Line(h, source), ancestor < source,
         Covers(h, ancestor, dest), Seen(h, source) \cap Seen(h, dest) \subseteq Seen(h, ancestor),
         NEW g, g = Rebase(h, source, dest, ancestor)
  PROVE  Adds(h, g, dest, Seen(h, source) \cup Seen(h, dest),
              Gone(h, source) \cup Gone(h, dest))
<1>1. ancestor \in 1..Len(h) /\ ancestor \in Nat /\ Len(h) \in Nat
  BY LineOfAncestor DEF GoodHistory
<1>2. Grown(h, g, dest) /\ Len(g) > Len(h)
  BY <1>1, RebaseGrows
<1>3. GoodHistory(g)
  BY <1>2, GrownIsGood
<1>4. PICK n, from : Climbs(h, ancestor, source, n, from) /\ Rewrites(h, g, dest, n, from)
  BY RebaseRewrites
<1>5. n \in Nat \ {0} /\ Len(g) = Len(h) + n /\ Keeps(h, g)
  BY <1>4 DEF Rewrites, Keeps
<1> DEFINE Tip(k) == TipAfter(h, dest, k)
<1>6. ASSUME NEW k \in 0..n
      PROVE  /\ Seen(g, Tip(k)) = Seen(h, from[k]) \cup Seen(h, dest)
             /\ Gone(g, Tip(k)) = Gone(h, from[k]) \cup Gone(h, dest)
  BY <1>1, <1>2, <1>3, <1>4, RewritesKnow
<1>7. ASSUME NEW k \in 0..n
      PROVE  /\ from[k] \in 1..Len(h) /\ Covers(h, from[k], source)
             /\ \A j \in 0..k : Covers(h, from[j], from[k])
  <2>1. \A i \in 0..n : from[i] \in Line(h, source)
    BY <1>4 DEF Climbs
  <2>2. \A i \in 0..n : from[i] \in 1..Len(h)
    BY <2>1, LineOfAncestor
  <2> DEFINE Low == {i \in 0..n : ~ \A j \in 0..i : from[j] \in Line(h, from[i])}
  <2>3. Low = {}
    <3> SUFFICES ASSUME Low # {}
                 PROVE  FALSE
      OBVIOUS
    <3>1. PICK i \in Low : \A l \in Low : i <= l
      <4>1. Low \in SUBSET Nat
        BY <1>5
      <4> HIDE DEF Low
      <4> QED
        BY <4>1, LeastNumber
    <3>2. i \in 0..n /\ ~ \A j \in 0..i : from[j] \in Line(h, from[i])
      OBVIOUS
    <3>3. from[i] \in Line(h, from[i])
      BY <2>2, <3>2 DEF GoodHistory
    <3>4. i # 0
      <4>1. 0..0 = {0}
        OBVIOUS
      <4> QED
        BY <3>2, <3>3, <4>1
    <3>5. i - 1 \in 0..n /\ i - 1 \notin Low
      <4>1. i - 1 \in 0..n /\ ~ (i <= i - 1)
        BY <1>5, <3>2, <3>4
      <4> HIDE DEF Low
      <4> QED
        BY <3>1, <4>1
    <3>6. /\ \A j \in 0..(i - 1) : from[j] \in Line(h, from[i - 1])
          /\ i \in 1..n
      BY <1>5, <3>2, <3>4, <3>5
    <3>7. Line(h, from[i]) = Line(h, from[i - 1]) \cup {from[i]}
      BY <1>4, <3>6 DEF Climbs
    <3>8. \A j \in 0..i : j \in 0..(i - 1) \/ j = i
      BY <3>6
    <3> QED
      BY <3>2, <3>6, <3>7, <3>8
  <2>4. \A j \in 0..k : from[j] \in Line(h, from[k])
    BY <2>3
  <2> QED
    BY <2>1, <2>2, <2>4 DEF Remembers
<1> HIDE DEF Tip
<1>8. n \in 0..n /\ from[n] = source /\ Tip(n) = Len(g) /\ Tip(0) = dest /\ 0 \in 0..n
  BY <1>4, <1>5 DEF Climbs, Tip, TipAfter
<1>9. /\ Seen(g, Len(g)) = Seen(h, source) \cup Seen(h, dest)
      /\ Gone(g, Len(g)) = Gone(h, source) \cup Gone(h, dest)
  BY <1>6, <1>8
<1>10. ASSUME NEW r \in (Len(h) + 1)..Len(g)
       PROVE  \E k \in 1..n : r = Tip(k)
  <2>1. r - Len(h) \in 1..n /\ r = Len(h) + (r - Len(h)) /\ r - Len(h) # 0
    BY <1>1, <1>5
  <2> QED
    BY <2>1 DEF Tip, TipAfter
<1>11. AddsNoMore(h, g, Seen(h, source) \cup Seen(h, dest), Gone(h, source) \cup Gone(h, dest))
  <2> SUFFICES ASSUME NEW r \in (Len(h) + 1)..Len(g)
               PROVE  /\ Seen(g, r) \subseteq Seen(h, source) \cup Seen(h, dest)
                      /\ Gone(g, r) \subseteq Gone(h, source) \cup Gone(h, dest)
    BY DEF AddsNoMore
  <2>1. PICK k \in 1..n : r = Tip(k)
    BY <1>10
  <2>2. k \in 0..n
    OBVIOUS
  <2>3. Covers(h, from[k], source)
    BY <1>7, <2>2
  <2> QED
    BY <1>6, <2>1, <2>2, <2>3 DEF Covers
<1>12. ASSUME NEW r \in 1..Len(g), NEW a \in Line(g, r)
       PROVE  Covers(g, a, r)
  <2>1. CASE r \in 1..Len(h)
    <3>1. Line(g, r) = Line(h, r)
      BY <1>5, <2>1, KnowledgeKept
    <3>2. a \in 1..Len(h) /\ Covers(h, a, r)
      BY <2>1, <3>1, LineOfAncestor DEF Remembers
    <3> QED
      BY <1>5, <2>1, <3>2, CoversKept
  <2>2. CASE r \notin 1..Len(h)
    <3>1. r \in (Len(h) + 1)..Len(g)
      BY <1>1, <1>5, <2>2
    <3>2. PICK k \in 1..n : r = Tip(k)
      BY <1>10, <3>1
    <3>3. k \in 0..n /\ 0 \in 0..k
      OBVIOUS
    <3>4. Line(g, r) = Line(h, dest) \cup (Len(h) + 1)..r
      BY <1>2, <3>1 DEF Grown
    <3>5. CASE a \in Line(h, dest)
      <4>1. a \in 1..Len(h) /\ Covers(h, a, dest)
        BY <3>5, LineOfAncestor DEF Remembers
      <4>2. Seen(g, a) = Seen(h, a) /\ Gone(g, a) = Gone(h, a)
        BY <1>5, <4>1, KnowledgeKept
      <4>3. /\ Seen(g, r) = Seen(h, from[k]) \cup Seen(h, dest)
            /\ Gone(g, r) = Gone(h, from[k]) \cup Gone(h, dest)
        BY <1>6, <3>2, <3>3
      <4> QED
        BY <4>1, <4>2, <4>3 DEF Covers
    <3>6. CASE a \in (Len(h) + 1)..r
      <4>1. a \in (Len(h) + 1)..Len(g)
        BY <1>1, <1>5, <3>1, <3>6
      <4>2. PICK j \in 1..n : a = Tip(j)
        BY <1>10, <4>1
      <4>3. j \in 0..k /\ j \in 0..n
        <5>1. a = Len(h) + j /\ r = Len(h) + k
          BY <3>2, <4>2 DEF Tip, TipAfter
        <5> QED
          BY <1>1, <1>5, <3>6, <5>1
      <4>4. Covers(h, from[j], from[k])
        BY <1>7, <3>3, <4>3
      <4>5. /\ Seen(g, r) = Seen(h, from[k]) \cup Seen(h, dest)
            /\ Gone(g, r) = Gone(h, from[k]) \cup Gone(h, dest)
            /\ Seen(g, a) = Seen(h, from[j]) \cup Seen(h, dest)
            /\ Gone(g, a) = Gone(h, from[j]) \cup Gone(h, dest)
        BY <1>6, <3>2, <3>3, <4>2, <4>3
      <4> QED
        BY <4>4, <4>5 DEF Covers
    <3> QED
      BY <3>4, <3>5, <3>6
  <2> QED
    BY <2>1, <2>2
<1> QED
  BY <1>2, <1>3, <1>5, <1>9, <1>11, <1>12 DEF Remembers, Adds

(* A commit knows what its user saw, and its own change.                   *)
LEMMA CommitKnows ==
  ASSUME NEW h, GoodHistory(h), Remembers(h), NEW dest \in 1..Len(h), NEW items,
         items \cap Seen(h, dest) \subseteq h[dest].items,
         NEW g, g = Append(h, [line |-> Line(h, dest) \cup {Len(h) + 1}, items |-> items])
  PROVE  /\ Adds(h, g, dest, Seen(h, dest) \cup items, Seen(h, dest) \ items)
         /\ Len(g) = Len(h) + 1
<1> DEFINE r == Len(h) + 1
<1>1. Grown(h, g, dest) /\ Len(g) = r /\ Len(h) \in Nat
  BY AppendGrows DEF GoodHistory
<1>2. GoodHistory(g)
  BY <1>1, GrownIsGood
<1>3. Keeps(h, g) /\ g[r].items = items
  <2> DEFINE e == [line |-> Line(h, dest) \cup {r}, items |-> items]
             X == {h[i] : i \in 1..Len(h)} \cup {e}
  <2>1. h \in Seq(X) /\ e \in X /\ e.items = items
    <3>1. h \in Seq({h[i] : i \in 1..Len(h)})
      BY DEF GoodHistory, IsSequence
    <3>2. h \in Seq(X)
      BY <3>1, SeqMonotonic, Zenon
    <3> QED
      BY <3>2
  <2> HIDE DEF X, e
  <2>2. (\A i \in 1..Len(h) : g[i] = h[i]) /\ g[Len(h) + 1] = e
    <3>1. g = Append(h, e)
      BY DEF e
    <3> QED
      BY <2>1, <3>1, AppendProperties
  <2> QED
    BY <2>1, <2>2 DEF Keeps
<1>4. Line(g, r) = Line(g, dest) \cup {r} /\ Line(g, dest) = Line(h, dest)
  <2>1. r \in (Len(h) + 1)..Len(g) /\ (Len(h) + 1)..r = {r}
    BY <1>1
  <2>2. Line(g, dest) = Line(h, dest)
    BY <1>3, KnowledgeKept
  <2> QED
    BY <1>1, <2>1, <2>2 DEF Grown
<1> HIDE DEF r
<1>5. Seen(g, r) = Seen(h, dest) \cup items
  <2>1. Seen(g, r) = Seen(g, dest) \cup g[r].items
    BY <1>4, SeenByNext
  <2>2. Seen(g, dest) = Seen(h, dest)
    BY <1>3, KnowledgeKept
  <2> QED
    BY <1>3, <2>1, <2>2
<1>6. Gone(g, r) = Seen(h, dest) \ items
  BY <1>3, <1>5 DEF Gone
<1>7. ASSUME NEW q \in 1..Len(g), NEW a \in Line(g, q)
      PROVE  Covers(g, a, q)
  <2>1. CASE q \in 1..Len(h)
    <3>1. Line(g, q) = Line(h, q)
      BY <1>3, <2>1, KnowledgeKept
    <3>2. a \in 1..Len(h) /\ Covers(h, a, q)
      BY <2>1, <3>1, LineOfAncestor DEF Remembers
    <3> QED
      BY <1>3, <2>1, <3>2, CoversKept
  <2>2. CASE q = r
    <3>1. CASE a = r
      BY <2>2, <3>1 DEF Covers
    <3>2. CASE a \in Line(h, dest)
      <4>1. a \in 1..Len(h) /\ Covers(h, a, dest)
        BY <3>2, LineOfAncestor DEF Remembers
      <4>2. Seen(g, a) = Seen(h, a) /\ Gone(g, a) = Gone(h, a)
        BY <1>3, <4>1, KnowledgeKept
      <4>3. h[dest].items = Seen(h, dest) \ Gone(h, dest) /\ Gone(h, dest) \subseteq Seen(h, dest)
        BY ItemsKnown
      <4> QED
        BY <1>5, <1>6, <2>2, <4>1, <4>2, <4>3 DEF Covers
    <3> QED
      BY <1>4, <2>2, <3>1, <3>2
  <2> QED
    BY <1>1, <2>1, <2>2 DEF r
<1>8. /\ Seen(g, Len(g)) = Seen(h, dest) \cup items
      /\ Gone(g, Len(g)) = Seen(h, dest) \ items
  BY <1>1, <1>3, <1>5, <1>6, <1>7
<1>9. AddsNoMore(h, g, Seen(h, dest) \cup items, Seen(h, dest) \ items)
  <2>1. \A k \in (Len(h) + 1)..Len(g) : k = Len(g)
    BY <1>1
  <2> QED
    BY <1>8, <2>1 DEF AddsNoMore
<1>10. Len(g) > Len(h) /\ Len(g) = Len(h) + 1
  BY <1>1
<1> QED
  BY <1>1, <1>2, <1>3, <1>7, <1>8, <1>9, <1>10 DEF Remembers, Adds

-----------------------------------------------------------------------------
(* What the sites know                                                     *)

\* What client c and the server have in common: the push in transit once the
\* server has it, else what the client knows of the server.
BaseOf(S, last, transit) == IF transit \in S THEN transit ELSE last

Base(c) == BaseOf(held[Server], lastServer[c], inTransit[c])

\* The server, at s, has merged base, and has seen nothing else a client at
\* cur has.
BaseOK(h, s, cur, base) ==
  Covers(h, base, s) /\ Seen(h, cur) \cap Seen(h, s) \subseteq Seen(h, base)

\* Revisions know what users did, and nothing else.
RevisionsKnow ==
  /\ Remembers(history)
  /\ \A r \in 1..Len(history) :
       Seen(history, r) \subseteq inserted /\ Gone(history, r) \subseteq removed

BasesKnown ==
  \A c \in Client :
    current[c] # None => BaseOK(history, current[Server], current[c], Base(c))

\* What two clients have both seen went through the server.
ClientsApart ==
  \A c, d \in Client :
    c # d /\ current[c] # None /\ current[d] # None =>
      Seen(history, current[c]) \cap Seen(history, current[d])
        \subseteq Seen(history, current[Server])

Knower(s, x) == current[s] # None /\ x \in Seen(history, current[s])
Remover(s, x) == current[s] # None /\ x \in Gone(history, current[s])

\* Everything users did is known to a site.
NothingForgotten ==
  /\ \A x \in inserted : \E s \in Site : Knower(s, x)
  /\ \A x \in removed : \E s \in Site : Remover(s, x)

KnowledgeInv == RevisionsKnow /\ BasesKnown /\ ClientsApart /\ NothingForgotten

\* The revisions sites are at are written.
Located ==
  /\ GoodHistory(history) /\ current[Server] \in 1..Len(history)
  /\ current[Server] # None
  /\ \A c \in Client : current[c] # None =>
       /\ current[c] \in 1..Len(history)
       /\ Base(c) \in 1..Len(history)

(* A client's revision, and what it shares with the server, are written.   *)
LEMMA LocatedNow ==
  ASSUME SynchronizerInv
  PROVE  Located
<1>1. GoodHistory(history) /\ current[Server] \in 1..Len(history)
  BY ServerFacts
<1>2. current[Server] # None
  BY <1>1 DEF None
<1>3. ASSUME NEW c \in Client, current[c] # None
      PROVE  current[c] \in 1..Len(history) /\ Base(c) \in 1..Len(history)
  <2>1. /\ ClientOK(history, ServerLine, held[Server], held[c], current[c], lastServer[c],
                    inTransit[c])
        /\ held[c] \in SUBSET (1..Len(history)) /\ held[Server] \in SUBSET (1..Len(history))
    BY ClientFacts
  <2>2. current[c] \in held[c] /\ lastServer[c] \in held[c]
    BY <1>3, <2>1 DEF ClientOK
  <2> QED
    BY <2>1, <2>2 DEF Base, BaseOf
<1> QED
  BY <1>1, <1>2, <1>3 DEF Located

(* The same after a step.                                                  *)
LEMMA LocatedNext == SynchronizerInv' => Located'
  BY LocatedNow, PTL

\* A step that only writes revisions, which know what users did.
Writes ==
  /\ Keeps(history, history') /\ Remembers(history')
  /\ Len(history') >= Len(history)
  /\ inserted \subseteq inserted' /\ removed \subseteq removed'
  /\ AddsNoMore(history, history', inserted', removed')

(* After such a step revisions know what users did, and nothing else.      *)
LEMMA WritesKnow ==
  ASSUME GoodHistory(history), RevisionsKnow, Writes
  PROVE  RevisionsKnow'
<1>1. ASSUME NEW r \in 1..Len(history')
      PROVE  Seen(history', r) \subseteq inserted' /\ Gone(history', r) \subseteq removed'
  <2>1. CASE r \in 1..Len(history)
    <3>1. Seen(history', r) = Seen(history, r) /\ Gone(history', r) = Gone(history, r)
      BY <2>1, KnowledgeKept DEF Writes
    <3> QED
      BY <2>1, <3>1 DEF RevisionsKnow, Writes
  <2>2. CASE r \in (Len(history) + 1)..Len(history')
    BY <2>2 DEF Writes, AddsNoMore
  <2>3. Len(history) \in Nat /\ Len(history') \in Nat
    BY DEF GoodHistory, Writes
  <2> QED
    BY <2>1, <2>2, <2>3
<1> QED
  BY <1>1 DEF RevisionsKnow, Writes

(* What a written revision knows does not change.                          *)
LEMMA KnownBefore ==
  ASSUME GoodHistory(history), Writes, NEW r \in 1..Len(history)
  PROVE  /\ Seen(history', r) = Seen(history, r) /\ Gone(history', r) = Gone(history, r)
         /\ \A a \in 1..Len(history) : Covers(history', a, r) <=> Covers(history, a, r)
<1>1. Seen(history', r) = Seen(history, r) /\ Gone(history', r) = Gone(history, r)
  BY KnowledgeKept DEF Writes
<1>2. \A a \in 1..Len(history) : Covers(history', a, r) <=> Covers(history, a, r)
  BY CoversKept DEF Writes
<1> QED
  BY <1>1, <1>2

\* The sites still know what users did, and what they just did.
StillKnown ==
  /\ \A s \in Site : current[s] # None =>
       current'[s] # None /\ Covers(history', current[s], current'[s])
  /\ \A x \in inserted' \ inserted : \E s \in Site : Knower(s, x)'
  /\ \A x \in removed' \ removed : \E s \in Site : Remover(s, x)'

(* Sites that merge what they knew forget nothing.                         *)
LEMMA StillKnownNext ==
  ASSUME Located, Writes, NothingForgotten, StillKnown
  PROVE  NothingForgotten'
<1>1. ASSUME NEW s \in Site, current[s] # None
      PROVE  current[s] \in 1..Len(history)
  BY <1>1 DEF Located, Site
<1>2. ASSUME NEW s \in Site, current[s] # None
      PROVE  /\ Seen(history', current[s]) = Seen(history, current[s])
             /\ Gone(history', current[s]) = Gone(history, current[s])
  BY <1>1, <1>2, KnownBefore DEF Located
<1>3. ASSUME NEW x \in inserted'
      PROVE  \E s \in Site : Knower(s, x)'
  <2>1. CASE x \in inserted
    <3>1. PICK s \in Site : Knower(s, x)
      BY <2>1 DEF NothingForgotten
    <3> QED
      BY <1>2, <3>1 DEF Knower, StillKnown, Covers
  <2> QED
    BY <2>1 DEF StillKnown
<1>4. ASSUME NEW x \in removed'
      PROVE  \E s \in Site : Remover(s, x)'
  <2>1. CASE x \in removed
    <3>1. PICK s \in Site : Remover(s, x)
      BY <2>1 DEF NothingForgotten
    <3> QED
      BY <1>2, <3>1 DEF Remover, StillKnown, Covers
  <2> QED
    BY <2>1 DEF StillKnown
<1> QED
  BY <1>3, <1>4 DEF NothingForgotten

\* The server's branch moved on and learned nothing but the items of new.
ServerMoved(new) ==
  /\ \A d \in Client : current'[d] = current[d]
  /\ Covers(history', current[Server], current'[Server])
  /\ Seen(history', current'[Server]) \subseteq Seen(history', current[Server]) \cup new

\* What client d has in common with the server after that.
BaseAfter(d, new) ==
  \/ /\ Base(d)' = Base(d)
     /\ Seen(history, current[d]) \cap new \subseteq Seen(history, current[Server])
  \/ BaseOK(history', current'[Server], current[d], Base(d)')

(* A step of the server keeps what the sites know.                         *)
LEMMA ServerMovesKnowledge ==
  ASSUME Located, Writes, KnowledgeInv, StillKnown, NEW new, ServerMoved(new),
         \A d \in Client : current[d] # None => BaseAfter(d, new)
  PROVE  KnowledgeInv'
<1>1. RevisionsKnow' /\ NothingForgotten'
  BY WritesKnow, StillKnownNext DEF KnowledgeInv, Located
<1>2. ASSUME NEW d \in Client, current[d] # None
      PROVE  /\ Seen(history', current[d]) = Seen(history, current[d])
             /\ Seen(history', Base(d)) = Seen(history, Base(d))
             /\ Covers(history', Base(d), current[Server])
                  <=> Covers(history, Base(d), current[Server])
  BY <1>2, KnownBefore DEF Located
<1>3. Seen(history', current[Server]) = Seen(history, current[Server])
  BY KnownBefore DEF Located
<1>4. BasesKnown'
  <2> SUFFICES ASSUME NEW d \in Client, current[d] # None
               PROVE  BaseOK(history', current'[Server], current[d], Base(d)')
    BY DEF BasesKnown, ServerMoved
  <2>1. BaseAfter(d, new)
    OBVIOUS
  <2>2. CASE /\ Base(d)' = Base(d)
             /\ Seen(history, current[d]) \cap new \subseteq Seen(history, current[Server])
    <3>1. BaseOK(history, current[Server], current[d], Base(d))
      BY DEF KnowledgeInv, BasesKnown
    <3>2. Covers(history', Base(d), current'[Server])
      BY <1>2, <3>1 DEF BaseOK, ServerMoved, Covers
    <3>3. Seen(history', current[d]) \cap Seen(history', current'[Server])
            \subseteq Seen(history', Base(d))
      BY <1>2, <1>3, <2>2, <3>1 DEF BaseOK, ServerMoved
    <3> QED
      BY <2>2, <3>2, <3>3 DEF BaseOK
  <2> QED
    BY <2>1, <2>2 DEF BaseAfter
<1>5. ClientsApart'
  <2> SUFFICES ASSUME NEW c \in Client, NEW d \in Client, c # d, current[c] # None,
                      current[d] # None
               PROVE  Seen(history', current[c]) \cap Seen(history', current[d])
                        \subseteq Seen(history', current'[Server])
    BY DEF ClientsApart, ServerMoved
  <2>1. Seen(history, current[c]) \cap Seen(history, current[d])
          \subseteq Seen(history, current[Server])
    BY DEF KnowledgeInv, ClientsApart
  <2> QED
    BY <1>2, <1>3, <2>1 DEF ServerMoved, Covers
<1> QED
  BY <1>1, <1>4, <1>5 DEF KnowledgeInv

\* A client moved, and learned nothing but what the server has and items that
\* no site knew.
ClientMoved(c, new) ==
  /\ \A s \in Site \ {c} : current'[s] = current[s]
  /\ held'[Server] = held[Server]
  /\ \A d \in Client \ {c} : lastServer'[d] = lastServer[d] /\ inTransit'[d] = inTransit[d]
  /\ new \cap inserted = {}
  /\ Seen(history', current'[c])
       \subseteq (IF current[c] = None THEN {} ELSE Seen(history, current[c]))
                   \cup Seen(history, current[Server]) \cup new

(* A step of a client keeps what the sites know.                           *)
LEMMA ClientMovesKnowledge ==
  ASSUME Located, Writes, KnowledgeInv, StillKnown, NEW c \in Client, NEW new,
         ClientMoved(c, new), c # Server, Server \in Site, Client \subseteq Site,
         current'[c] # None => BaseOK(history', current[Server], current'[c], Base(c)')
  PROVE  KnowledgeInv'
<1>1. RevisionsKnow' /\ NothingForgotten'
  BY WritesKnow, StillKnownNext DEF KnowledgeInv, Located
<1>2. ASSUME NEW d \in Client, current[d] # None
      PROVE  /\ Seen(history', current[d]) = Seen(history, current[d])
             /\ Seen(history', Base(d)) = Seen(history, Base(d))
             /\ Seen(history, current[d]) \subseteq inserted
             /\ Covers(history', Base(d), current[Server])
                  <=> Covers(history, Base(d), current[Server])
  BY <1>2, KnownBefore DEF Located, KnowledgeInv, RevisionsKnow
<1>3. /\ Seen(history', current[Server]) = Seen(history, current[Server])
      /\ current'[Server] = current[Server]
  BY KnownBefore DEF Located, ClientMoved
<1>4. ASSUME NEW d \in Client \ {c}
      PROVE  Base(d)' = Base(d) /\ current'[d] = current[d]
  BY DEF ClientMoved, Base, BaseOf
<1>5. BasesKnown'
  <2> SUFFICES ASSUME NEW d \in Client, current'[d] # None
               PROVE  BaseOK(history', current[Server], current'[d], Base(d)')
    BY <1>3 DEF BasesKnown
  <2>1. CASE d # c
    <3>1. BaseOK(history, current[Server], current[d], Base(d))
      BY <1>4, <2>1 DEF KnowledgeInv, BasesKnown
    <3> QED
      BY <1>2, <1>3, <1>4, <2>1, <3>1 DEF BaseOK
  <2> QED
    BY <2>1
<1>6. ASSUME NEW d \in Client \ {c}, current'[d] # None, current'[c] # None
      PROVE  Seen(history', current'[c]) \cap Seen(history', current'[d])
               \subseteq Seen(history', current'[Server])
  <2>1. current[d] # None /\ current'[d] = current[d]
    BY <1>4, <1>6
  <2>2. /\ Seen(history', current[d]) = Seen(history, current[d])
        /\ Seen(history, current[d]) \subseteq inserted
    BY <1>2, <2>1
  <2>3. current[c] # None => Seen(history, current[c]) \cap Seen(history, current[d])
                               \subseteq Seen(history, current[Server])
    BY <2>1 DEF KnowledgeInv, ClientsApart
  <2> QED
    BY <1>3, <2>1, <2>2, <2>3 DEF ClientMoved
<1>7. ClientsApart'
  <2> SUFFICES ASSUME NEW a \in Client, NEW d \in Client, a # d, current'[a] # None,
                      current'[d] # None
               PROVE  Seen(history', current'[a]) \cap Seen(history', current'[d])
                        \subseteq Seen(history', current'[Server])
    BY DEF ClientsApart
  <2>1. CASE a # c /\ d # c
    <3>1. /\ current'[a] = current[a] /\ current'[d] = current[d]
          /\ current[a] # None /\ current[d] # None
      BY <1>4, <2>1
    <3>2. Seen(history, current[a]) \cap Seen(history, current[d])
            \subseteq Seen(history, current[Server])
      BY <3>1 DEF KnowledgeInv, ClientsApart
    <3> QED
      BY <1>2, <1>3, <3>1, <3>2
  <2>2. CASE a = c
    BY <1>6, <2>2
  <2>3. CASE d = c
    BY <1>6, <2>3
  <2> QED
    BY <2>1, <2>2, <2>3
<1> QED
  BY <1>1, <1>5, <1>7 DEF KnowledgeInv

-----------------------------------------------------------------------------
(* What the server's steps make known                                      *)

\* A push of client c that the server can take.
Pushed(c, m) ==
  /\ m \in Pushes(toServer[c], queue, c)
  /\ m.lastRevisionSentByServer = lastServer[c]

(* A push starts at what its client and the server have in common.         *)
LEMMA PushStarts ==
  ASSUME SynchronizerInv, KnowledgeInv, NEW c \in Client, NEW m, Pushed(c, m)
  PROVE  LET t == inTransit[c]
             a == lastServer[c]
             s == current[Server]
         IN  /\ t \in 1..Len(history) /\ t \notin held[Server] /\ Max(m.revisions) = t
             /\ m.revisions = RevisionsFromTo(history, a, t) /\ m.revisions \cap held[Server] = {}
             /\ a \in Line(history, t) /\ a < t /\ a \in ServerLine
             /\ CommonAncestor(history, t, s) = a
             /\ Covers(history, a, s)
             /\ current[c] # None /\ t \in Line(history, current[c])
             /\ Covers(history, t, current[c])
             /\ Base(c) = a
             /\ Seen(history, current[c]) \cap Seen(history, s) \subseteq Seen(history, a)
<1> DEFINE t == inTransit[c]
           a == lastServer[c]
           s == current[Server]
<1>1. /\ GoodHistory(history) /\ held[Server] \in SUBSET (1..Len(history))
      /\ ServerLine \subseteq held[Server]
      /\ ClientOK(history, ServerLine, held[Server], held[c], current[c], lastServer[c],
                  inTransit[c])
      /\ held[c] \in SUBSET (1..Len(history))
      /\ PushOK(history, ServerLine, held[Server], held[c], inTransit[c], m)
  BY ClientFacts DEF Pushed
<1>2. /\ t # None /\ m.revisions = RevisionsFromTo(history, a, t)
      /\ a \in ServerLine /\ a \in Line(history, t) /\ a < t
      /\ m.revisions \cap held[Server] = {}
  BY <1>1 DEF PushOK, Pushed
<1>3. /\ current[c] # None /\ t \in Line(history, current[c]) /\ t \in held[c]
      /\ current[c] \in held[c]
  BY <1>1, <1>2 DEF ClientOK
<1>4. t \in 1..Len(history) /\ current[c] \in 1..Len(history) /\ s \in 1..Len(history)
      /\ a \in 1..Len(history)
  BY <1>1, <1>2, <1>3, ServerFacts
<1>5. Max(m.revisions) = t
  <2>1. a \in Nat
    BY <1>4
  <2> QED
    BY <1>1, <1>2, <1>4, <2>1, TipOfRange
<1>6. t \in Line(history, t)
  BY <1>1, <1>4 DEF GoodHistory
<1>7. t \notin held[Server]
  BY <1>2, <1>6 DEF RevisionsFromTo
<1>8. CommonAncestor(history, t, s) = a
  <2> DEFINE C == Line(history, t) \cap Line(history, s)
  <2>1. C \in SUBSET Nat
    BY <1>1, <1>4 DEF GoodHistory
  <2>2. a \in C
    BY <1>2 DEF ServerLine
  <2>3. \A y \in C : a >= y
    <3> SUFFICES ASSUME NEW y \in C, ~ (a >= y)
                 PROVE  FALSE
      OBVIOUS
    <3>1. y > a
      BY <1>4, <2>1
    <3>2. y \in m.revisions
      BY <1>2, <3>1 DEF RevisionsFromTo
    <3>3. y \in held[Server]
      BY <1>1 DEF ServerLine
    <3> QED
      BY <1>2, <3>2, <3>3
  <2> HIDE DEF C
  <2>4. Max(C) = a
    BY <2>1, <2>2, <2>3, MaxIs
  <2> QED
    BY <2>4 DEF CommonAncestor, C
<1>9. Covers(history, a, s) /\ Covers(history, t, current[c])
  BY <1>2, <1>3, <1>4 DEF KnowledgeInv, RevisionsKnow, Remembers, ServerLine
<1>10. Base(c) = a
  BY <1>7 DEF Base, BaseOf
<1>11. Seen(history, current[c]) \cap Seen(history, s) \subseteq Seen(history, a)
  BY <1>3, <1>10 DEF KnowledgeInv, BasesKnown, BaseOK
<1> QED
  BY <1>2, <1>3, <1>4, <1>5, <1>7, <1>8, <1>9, <1>10, <1>11

\* g is history with revisions written, and tip t knows what a and b know.
KnowsBoth(g, t, a, b) ==
  /\ Grown(history, g, current[Server]) \/ g = history
  /\ Keeps(history, g) /\ Remembers(g) /\ Len(g) >= Len(history)
  /\ t \in 1..Len(g)
  /\ Seen(g, t) = Seen(history, a) \cup Seen(history, b)
  /\ Gone(g, t) = Gone(history, a) \cup Gone(history, b)
  /\ AddsNoMore(history, g, inserted, removed)

(* With a push fast-forwarded or rebased the server knows what it knew and *)
(* what was pushed.                                                        *)
LEMMA MergedKnows ==
  ASSUME SynchronizerInv, KnowledgeInv, NEW c \in Client, NEW m, Pushed(c, m)
  PROVE  LET g == MergedHistory(inTransit[c])
             rebased == (Len(history) + 1)..Len(g)
         IN  KnowsBoth(g, IF rebased = {} THEN inTransit[c] ELSE Len(g), inTransit[c],
                       current[Server])
<1> DEFINE t == inTransit[c]
           a == lastServer[c]
           s == current[Server]
           g == MergedHistory(t)
           rebased == (Len(history) + 1)..Len(g)
           cur == IF rebased = {} THEN t ELSE Len(g)
<1>1. /\ t \in 1..Len(history)
      /\ a \in Line(history, t) /\ a < t
      /\ CommonAncestor(history, t, s) = a
      /\ Covers(history, a, s)
      /\ Covers(history, t, current[c])
      /\ Seen(history, current[c]) \cap Seen(history, s) \subseteq Seen(history, a)
  BY PushStarts
<1>2. GoodHistory(history) /\ s \in 1..Len(history) /\ Len(history) \in Nat /\ s # None
  BY ServerFacts DEF None
<1>3. /\ Remembers(history)
      /\ Seen(history, t) \subseteq inserted /\ Gone(history, t) \subseteq removed
      /\ Seen(history, s) \subseteq inserted /\ Gone(history, s) \subseteq removed
  BY <1>1, <1>2 DEF KnowledgeInv, RevisionsKnow
<1>4. CASE IsEqualToOrParent(history, s, t)
  <2>1. g = history
    BY <1>4 DEF MergedHistory
  <2>2. rebased = {} /\ cur = t
    BY <1>2, <2>1
  <2>3. s \in Line(history, t)
    BY <1>4 DEF IsEqualToOrParent
  <2>4. Covers(history, s, t)
    BY <1>1, <1>3, <2>3 DEF Remembers
  <2>5. AddsNoMore(history, g, inserted, removed) /\ Keeps(history, g)
    BY <1>2, <2>1 DEF AddsNoMore, Keeps
  <2>6. /\ Seen(g, t) = Seen(history, t) \cup Seen(history, s)
        /\ Gone(g, t) = Gone(history, t) \cup Gone(history, s)
    BY <2>1, <2>4 DEF Covers
  <2>7. t \in 1..Len(g) /\ Len(g) >= Len(history)
    BY <1>1, <1>2, <2>1
  <2> HIDE DEF g, rebased, cur, s, t
  <2>8. KnowsBoth(g, cur, t, s)
    <3>1. KnowsBoth(g, t, t, s)
      BY <1>3, <2>1, <2>5, <2>6, <2>7 DEF KnowsBoth, s
    <3> QED
      BY <2>2, <3>1
  <2> QED
    BY <2>8 DEF cur, rebased, g, s, t
<1>5. CASE ~ IsEqualToOrParent(history, s, t)
  <2>1. g = Rebase(history, t, s, a)
    BY <1>1, <1>5 DEF MergedHistory
  <2>2. Seen(history, t) \cap Seen(history, s) \subseteq Seen(history, a)
    BY <1>1 DEF Covers
  <2> HIDE DEF g, s, t, a
  <2>3. Adds(history, g, s, Seen(history, t) \cup Seen(history, s),
             Gone(history, t) \cup Gone(history, s))
    <3>1. GoodHistory(history) /\ Remembers(history)
      BY <1>2, <1>3
    <3>2. t \in 1..Len(history) /\ s \in 1..Len(history) /\ a \in Line(history, t) /\ a < t
      BY <1>1, <1>2
    <3>3. Covers(history, a, s)
      BY <1>1
    <3> QED
      BY <2>1, <2>2, <3>1, <3>2, <3>3, RebaseKnows
  <2>4. Len(g) \in Nat /\ Len(g) \in 1..Len(g) /\ rebased # {}
    <3>1. Len(g) \in Nat
      BY <2>3 DEF Grown, Adds
    <3>2. Len(g) > Len(history)
      BY <2>3 DEF Adds
    <3>3. Len(g) \in rebased
      BY <1>2, <3>1, <3>2
    <3> QED
      BY <1>2, <3>1, <3>2, <3>3
  <2>5. cur = Len(g)
    BY <2>4
  <2>6. AddsNoMore(history, g, inserted, removed)
    BY <1>3, <2>3 DEF AddsNoMore, Adds
  <2>7. Len(g) >= Len(history)
    BY <1>2, <2>3, <2>4 DEF Adds
  <2> HIDE DEF rebased, cur
  <2>8. KnowsBoth(g, cur, t, s)
    BY <2>3, <2>4, <2>5, <2>6, <2>7 DEF KnowsBoth, s, Adds
  <2> QED
    BY <2>8 DEF cur, rebased, g, s, t
<1> QED
  BY <1>4, <1>5

(* A client's push that is not the one handled stays where it is.          *)
LEMMA OtherBases ==
  ASSUME SynchronizerInv, NEW c \in Client, NEW d \in Client, c # d,
         NEW T, NEW n, T \subseteq held[c] \cup (Len(history) + 1)..n
  PROVE  inTransit[d] \in held[Server] \cup T <=> inTransit[d] \in held[Server]
<1> SUFFICES ASSUME inTransit[d] \in T
             PROVE  inTransit[d] \in held[Server]
  OBVIOUS
<1>1. /\ ClientOK(history, ServerLine, held[Server], held[d], current[d], lastServer[d],
                  inTransit[d])
      /\ held[d] \in SUBSET (1..Len(history)) /\ held[c] \in SUBSET (1..Len(history))
      /\ Len(history) \in Nat
  BY ClientFacts
<1>2. inTransit[d] # None
  <2>1. 0 \notin 1..Len(history) /\ 0 \notin (Len(history) + 1)..n
    BY <1>1
  <2> QED
    BY <1>1, <2>1 DEF None
<1>3. inTransit[d] \in held[d]
  BY <1>1, <1>2 DEF ClientOK
<1>4. inTransit[d] \notin (Len(history) + 1)..n
  <2>1. \A x \in 1..Len(history) : x \notin (Len(history) + 1)..n
    BY <1>1
  <2> QED
    BY <1>1, <1>3, <2>1
<1>5. inTransit[d] \in held[c]
  BY <1>4
<1> QED
  BY <1>3, <1>5 DEF SynchronizerInv, StoresApart

(* A push handled is known to the server, and nothing else changes.        *)
LEMMA PushKnowledge ==
  ASSUME SynchronizerInv, KnowledgeInv, NEW c \in Client, NEW m, Pushed(c, m), NEW q,
         HandlePushedRevisions(c, m, q),
         UNCHANGED <<lastServer, inTransit, inserted, removed>>
  PROVE  KnowledgeInv' /\ Writes /\ Covers(history', inTransit[c], current'[Server])
<1> DEFINE t == inTransit[c]
           a == lastServer[c]
           s == current[Server]
           g == MergedHistory(t)
           rebased == (Len(history) + 1)..Len(g)
           cur == IF rebased = {} THEN t ELSE Len(g)
<1>1. /\ t \in 1..Len(history) /\ Max(m.revisions) = t
      /\ m.revisions \cap held[Server] = {}
      /\ m.revisions = RevisionsFromTo(history, a, t)
      /\ a \in Line(history, t) /\ a < t
      /\ current[c] # None /\ Covers(history, t, current[c])
      /\ Seen(history, current[c]) \cap Seen(history, s) \subseteq Seen(history, a)
  BY PushStarts
<1>2. Located /\ RevisionsKnow
  BY LocatedNow DEF KnowledgeInv
<1>3. /\ current \in [Site -> Nat] /\ held \in [Site -> SUBSET Nat] /\ c \in Site
      /\ Server \in Site /\ c # Server /\ Client \subseteq Site /\ Server \notin Client
  BY ClientFacts, SynchronizerAssumption DEF Types, Site
<1>4. /\ history' = g /\ current' = [current EXCEPT ![Server] = cur]
      /\ held' = [held EXCEPT ![Server] = held[Server] \cup m.revisions \cup rebased]
  BY <1>1 DEF HandlePushedRevisions
<1>5. KnowsBoth(g, cur, t, s)
  BY MergedKnows
<1> HIDE DEF g, cur, rebased
<1>6. Writes
  BY <1>4, <1>5 DEF Writes, KnowsBoth
<1>7. current'[Server] = cur /\ \A d \in Site \ {Server} : current'[d] = current[d]
  BY <1>3, <1>4
<1>8. held'[Server] = held[Server] \cup (m.revisions \cup rebased)
  BY <1>3, <1>4
<1>9. /\ Seen(history', t) = Seen(history, t) /\ Gone(history', t) = Gone(history, t)
      /\ Seen(history', s) = Seen(history, s) /\ Gone(history', s) = Gone(history, s)
      /\ Seen(history', current[c]) = Seen(history, current[c])
  BY <1>1, <1>2, <1>6, KnownBefore DEF Located
<1>10. Covers(history', t, cur) /\ Covers(history', s, cur)
  BY <1>4, <1>5, <1>9 DEF KnowsBoth, Covers
<1>11. ServerMoved(Seen(history, t))
  BY <1>3, <1>4, <1>5, <1>7, <1>9, <1>10 DEF ServerMoved, KnowsBoth
<1>12. StillKnown
  <2>1. ASSUME NEW d \in Site, current[d] # None
        PROVE  current'[d] # None /\ Covers(history', current[d], current'[d])
    <3>1. CASE d = Server
      <4>1. cur # None
        BY <1>5 DEF KnowsBoth, None
      <4> QED
        BY <1>7, <1>10, <3>1, <4>1
    <3>2. CASE d # Server
      BY <1>7, <2>1, <3>2 DEF Covers
    <3> QED
      BY <3>1, <3>2
  <2> QED
    BY <2>1 DEF StillKnown
<1>13. ASSUME NEW d \in Client, current[d] # None
       PROVE  BaseAfter(d, Seen(history, t))
  <2>1. CASE d = c
    <3>1. t \in m.revisions
      BY <1>1, <1>2 DEF RevisionsFromTo, Located, GoodHistory
    <3>2. Base(c)' = t
      BY <1>8, <3>1 DEF Base, BaseOf
    <3>3. Covers(history, a, t)
      BY <1>1, <1>2 DEF RevisionsKnow, Remembers
    <3>4. Seen(history', current[c]) \cap Seen(history', cur) \subseteq Seen(history', t)
      BY <1>1, <1>4, <1>5, <1>9, <3>3 DEF KnowsBoth, Covers
    <3> QED
      BY <1>7, <1>10, <2>1, <3>2, <3>4 DEF BaseAfter, BaseOK
  <2>2. CASE d # c
    <3>1. m.revisions \subseteq held[c]
      BY ClientFacts DEF PushOK, Pushed
    <3>2. inTransit[d] \in held[Server] \cup (m.revisions \cup rebased)
            <=> inTransit[d] \in held[Server]
      <4>1. m.revisions \cup rebased \subseteq held[c] \cup (Len(history) + 1)..Len(g)
        BY <3>1 DEF rebased
      <4> QED
        BY <2>2, <4>1, OtherBases
    <3>3. Base(d)' = Base(d)
      BY <1>8, <3>2 DEF Base, BaseOf
    <3>4. Seen(history, current[c]) \cap Seen(history, current[d]) \subseteq Seen(history, s)
      BY <1>1, <1>13, <2>2 DEF KnowledgeInv, ClientsApart
    <3> QED
      BY <1>1, <3>3, <3>4 DEF BaseAfter, Covers
  <2> QED
    BY <2>1, <2>2
<1>14. KnowledgeInv'
  BY <1>2, <1>6, <1>11, <1>12, <1>13, ServerMovesKnowledge
<1> QED
  BY <1>6, <1>7, <1>10, <1>14

\* A user's change to the items of dest: something new, or something gone.
UserEdits(dest, items) ==
  \/ /\ items = history[dest].items \cup {edits + 1}
     /\ inserted' = inserted \cup {edits + 1} /\ removed' = removed
  \/ /\ inserted' = inserted
     /\ \E x \in history[dest].items :
          items = history[dest].items \ {x} /\ removed' = removed \cup {x}

\* The last revision was written on top of dest for such a change.
EditKnown(dest) ==
  /\ Writes /\ Len(history') = Len(history) + 1
  /\ Covers(history', dest, Len(history) + 1)
  /\ Seen(history', Len(history) + 1) \subseteq Seen(history, dest) \cup (inserted' \ inserted)
  /\ inserted' \ inserted \subseteq Seen(history', Len(history) + 1)
  /\ removed' \ removed \subseteq Gone(history', Len(history) + 1)

(* What a user's commit makes known.                                       *)
LEMMA EditKnows ==
  ASSUME Located, RevisionsKnow, edits \in Nat, inserted \subseteq 1..edits,
         NEW dest \in 1..Len(history), NEW items, UserEdits(dest, items),
         history' = Append(history, [line |-> Line(history, dest) \cup {Len(history) + 1},
                                     items |-> items])
  PROVE  EditKnown(dest)
<1>0. PICK g : g = history'
  OBVIOUS
<1> DEFINE h == history
<1>1. GoodHistory(h) /\ Remembers(h)
  BY DEF Located, RevisionsKnow
<1>2. /\ h[dest].items \subseteq Seen(h, dest)
      /\ h[dest].items = Seen(h, dest) \ Gone(h, dest)
      /\ Seen(h, dest) \subseteq inserted /\ Gone(h, dest) \subseteq removed
  BY <1>1, ItemsKnown DEF RevisionsKnow
<1>3. edits + 1 \notin inserted
  <2>1. edits + 1 \notin 1..edits
    OBVIOUS
  <2> QED
    BY <2>1
<1>4. items \cap Seen(h, dest) \subseteq h[dest].items
  BY <1>2, <1>3 DEF UserEdits
<1>5. Adds(h, g, dest, Seen(h, dest) \cup items, Seen(h, dest) \ items) /\ Len(g) = Len(h) + 1
  BY <1>0, <1>1, <1>4, CommitKnows
<1> DEFINE A == h[dest].items
           SD == Seen(h, dest)
           GD == Gone(h, dest)
<1>6. /\ SD \cup items \subseteq SD \cup (inserted' \ inserted)
      /\ SD \cup items \subseteq inserted'
      /\ SD \ items \subseteq removed'
      /\ GD \subseteq SD \ items
      /\ inserted' \ inserted \subseteq SD \cup items
      /\ removed' \ removed \subseteq SD \ items
      /\ inserted \subseteq inserted' /\ removed \subseteq removed'
  <2>1. /\ A = SD \ GD /\ SD \subseteq inserted /\ GD \subseteq removed
        /\ GD \subseteq SD
    BY <1>2 DEF Gone
  <2>2. \/ /\ items = A \cup {edits + 1}
           /\ inserted' = inserted \cup {edits + 1} /\ removed' = removed
        \/ /\ inserted' = inserted
           /\ \E x \in A : items = A \ {x} /\ removed' = removed \cup {x}
    BY DEF UserEdits
  <2> HIDE DEF A, SD, GD
  <2>3. PICK new : new = edits + 1
    OBVIOUS
  <2>4. CASE items = A \cup {new} /\ inserted' = inserted \cup {new} /\ removed' = removed
    BY <1>3, <2>1, <2>3, <2>4
  <2>5. ASSUME NEW x \in A, inserted' = inserted, items = A \ {x}, removed' = removed \cup {x}
        PROVE  /\ SD \cup items \subseteq SD \cup (inserted' \ inserted)
               /\ SD \cup items \subseteq inserted'
               /\ SD \ items \subseteq removed'
               /\ GD \subseteq SD \ items
               /\ inserted' \ inserted \subseteq SD \cup items
               /\ removed' \ removed \subseteq SD \ items
               /\ inserted \subseteq inserted' /\ removed \subseteq removed'
    BY <2>1, <2>5
  <2> QED
    BY <2>2, <2>3, <2>4, <2>5
<1> HIDE DEF h
<1>7. /\ Seen(g, Len(g)) = Seen(h, dest) \cup items /\ Gone(g, Len(g)) = Seen(h, dest) \ items
      /\ Keeps(h, g) /\ Remembers(g) /\ AddsNoMore(h, g, Seen(h, dest) \cup items,
                                                  Seen(h, dest) \ items)
  BY <1>5 DEF Adds
<1>8. Len(g) >= Len(h)
  BY <1>1, <1>5 DEF GoodHistory
<1>9. Writes
  BY <1>0, <1>6, <1>7, <1>8 DEF Writes, AddsNoMore, h
<1>10. Seen(g, dest) = Seen(h, dest) /\ Gone(g, dest) = Gone(h, dest) /\ h = history
  BY <1>1, <1>7, KnowledgeKept DEF h
<1>11. Covers(g, dest, Len(g))
  <2>1. Gone(h, dest) \subseteq Seen(h, dest) \ items
    BY <1>6
  <2> QED
    BY <1>7, <1>10, <2>1 DEF Covers
<1> HIDE DEF SD, GD, A
<1>12. Len(g) = Len(history) + 1
  BY <1>5 DEF h
<1>13. Seen(g, Len(g)) = SD \cup items /\ Gone(g, Len(g)) = SD \ items
  BY <1>7 DEF SD
<1> QED
  BY <1>0, <1>6, <1>9, <1>10, <1>11, <1>12, <1>13 DEF EditKnown, SD, h

\* The commit of a user of site s.
UserCommits(s, items) ==
  WriteRevision(s, items) /\ UserEdits(current[s], items) /\ DidCommit(s)

(* What a commit leaves a site with.                                       *)
LEMMA CommitMoves ==
  ASSUME SynchronizerInv, KnowledgeInv, edits \in Nat, inserted \subseteq 1..edits,
         NEW s \in Site, NEW items, UserCommits(s, items)
  PROVE  LET new == inserted' \ inserted
         IN  /\ Writes /\ StillKnown
             /\ current'[s] = Len(history) + 1 /\ current[s] # None
             /\ \A d \in Site \ {s} : current'[d] = current[d] /\ held'[d] = held[d]
             /\ held'[s] = held[s] \cup {Len(history) + 1}
             /\ Covers(history', current[s], current'[s])
             /\ Seen(history', current'[s]) \subseteq Seen(history, current[s]) \cup new
             /\ new \cap inserted = {}
<1> DEFINE r == Len(history) + 1
           dest == current[s]
<1>1. Located /\ RevisionsKnow /\ Len(history) \in Nat
  BY LocatedNow DEF KnowledgeInv, Located, GoodHistory
<1>2. dest \in 1..Len(history) /\ dest # None
  BY <1>1 DEF Located, UserCommits, WriteRevision, Site
<1>3. current \in [Site -> Nat] /\ held \in [Site -> SUBSET Nat]
  BY DEF SynchronizerInv, Types
<1>4. /\ history' = Append(history, [line |-> Line(history, dest) \cup {Len(history) + 1},
                                     items |-> items])
      /\ current' = [current EXCEPT ![s] = r]
      /\ held' = [held EXCEPT ![s] = @ \cup {r}]
  BY DEF UserCommits, WriteRevision
<1>5. /\ current'[s] = r /\ held'[s] = held[s] \cup {r}
      /\ \A d \in Site \ {s} : current'[d] = current[d] /\ held'[d] = held[d]
  BY <1>3, <1>4
<1>6. UserEdits(dest, items)
  BY DEF UserCommits
<1>7. EditKnown(dest)
  BY <1>1, <1>2, <1>4, <1>6, EditKnows
<1>8. /\ Writes
      /\ Covers(history', dest, r)
      /\ Seen(history', r) \subseteq Seen(history, dest) \cup (inserted' \ inserted)
      /\ inserted' \ inserted \subseteq Seen(history', r)
      /\ removed' \ removed \subseteq Gone(history', r)
  BY <1>7 DEF EditKnown
<1>9. r # None
  BY <1>1 DEF None
<1>10. StillKnown
  <2>1. ASSUME NEW d \in Site, current[d] # None
        PROVE  current'[d] # None /\ Covers(history', current[d], current'[d])
    <3>1. CASE d = s
      BY <1>5, <1>8, <1>9, <3>1
    <3>2. CASE d # s
      BY <1>5, <2>1, <3>2 DEF Covers
    <3> QED
      BY <3>1, <3>2
  <2>2. ASSUME NEW x \in inserted' \ inserted
        PROVE  Knower(s, x)'
    <3>1. x \in Seen(history', current'[s])
      BY <1>5, <1>8, <1>9
    <3> QED
      BY <1>5, <1>9, <3>1 DEF Knower
  <2>3. ASSUME NEW x \in removed' \ removed
        PROVE  Remover(s, x)'
    <3>1. x \in Gone(history', current'[s])
      BY <1>5, <1>8, <1>9
    <3> QED
      BY <1>5, <1>9, <3>1 DEF Remover
  <2> QED
    BY <2>1, <2>2, <2>3 DEF StillKnown
<1>11. (inserted' \ inserted) \cap inserted = {}
  OBVIOUS
<1> HIDE DEF r
<1> QED
  BY <1>2, <1>5, <1>8, <1>9, <1>10, <1>11 DEF r

(* What the server's user commits is known to the server.                  *)
LEMMA ServerCommitKnowledge ==
  ASSUME SynchronizerInv, KnowledgeInv, edits \in Nat, inserted \subseteq 1..edits,
         NEW items, UserCommits(Server, items)
  PROVE  KnowledgeInv' /\ Writes
<1> DEFINE new == inserted' \ inserted
<1>1. /\ Server \in Site /\ Client \subseteq Site /\ Server \notin Client
  BY SynchronizerAssumption DEF Site
<1>2. /\ Writes /\ StillKnown
      /\ \A d \in Site \ {Server} : current'[d] = current[d] /\ held'[d] = held[d]
      /\ held'[Server] = held[Server] \cup {Len(history) + 1}
      /\ Covers(history', current[Server], current'[Server])
      /\ Seen(history', current'[Server]) \subseteq Seen(history, current[Server]) \cup new
      /\ new \cap inserted = {}
  BY <1>1, CommitMoves
<1>3. Located
  BY LocatedNow
<1>4. Seen(history', current[Server]) = Seen(history, current[Server])
  BY <1>2, <1>3, KnownBefore DEF Located
<1>5. ServerMoved(new)
  BY <1>1, <1>2, <1>4 DEF ServerMoved
<1>6. ASSUME NEW d \in Client, current[d] # None
      PROVE  BaseAfter(d, new)
  <2>1. /\ ClientOK(history, ServerLine, held[Server], held[d], current[d], lastServer[d],
                    inTransit[d])
        /\ held[d] \in SUBSET (1..Len(history)) /\ Len(history) \in Nat
    BY ClientFacts
  <2>2. inTransit[d] = None \/ inTransit[d] \in 1..Len(history)
    BY <2>1 DEF ClientOK
  <2>3. inTransit[d] # Len(history) + 1
    BY <2>1, <2>2 DEF None
  <2>4. inTransit' = inTransit /\ lastServer' = lastServer
    BY <1>1 DEF UserCommits, DidCommit, clientVars
  <2>5. Base(d)' = Base(d)
    BY <1>2, <2>3, <2>4 DEF Base, BaseOf
  <2>6. Seen(history, current[d]) \subseteq inserted
    BY <1>3, <1>6 DEF Located, KnowledgeInv, RevisionsKnow
  <2> QED
    BY <1>2, <2>5, <2>6 DEF BaseAfter
<1> HIDE DEF new
<1> QED
  BY <1>2, <1>3, <1>5, <1>6, ServerMovesKnowledge

\* What SendPush leaves in transit.
NowInTransit(cur, last, transit) == IF HasToPush(cur, last, transit) THEN cur ELSE transit

(* A client that pushes has its branch in transit.                         *)
LEMMA SendPushMarks ==
  ASSUME NEW c \in Client, NEW h, NEW cur, NEW last, NEW transit, SendPush(c, h, cur, last, transit),
         failed' = {}, inTransit \in [Client -> Nat]
  PROVE  /\ inTransit'[c] = NowInTransit(cur, last, transit)
         /\ \A d \in Client \ {c} : inTransit'[d] = inTransit[d]
<1>1. ~ Raise(c)
  BY DEF Raise
<1> QED
  BY <1>1 DEF SendPush, NowInTransit

(* What a client's user commits is known to the client alone.              *)
LEMMA ClientCommitKnowledge ==
  ASSUME SynchronizerInv, SynchronizerInv', KnowledgeInv, edits \in Nat,
         inserted \subseteq 1..edits, NEW c \in Client, NEW items, UserCommits(c, items)
  PROVE  KnowledgeInv' /\ Writes
<1> DEFINE new == inserted' \ inserted
           r == Len(history) + 1
<1>1. /\ Server \in Site /\ Client \subseteq Site /\ Server \notin Client /\ c # Server /\ c \in Site
  BY SynchronizerAssumption DEF Site
<1>2. /\ Writes /\ StillKnown
      /\ current'[c] = r /\ current[c] # None
      /\ \A d \in Site \ {c} : current'[d] = current[d] /\ held'[d] = held[d]
      /\ Covers(history', current[c], current'[c])
      /\ Seen(history', current'[c]) \subseteq Seen(history, current[c]) \cup new
      /\ new \cap inserted = {}
  BY <1>1, CommitMoves
<1>3. Located
  BY LocatedNow
<1>4. /\ lastServer' = lastServer /\ inTransit'[c] = NowInTransit(r, lastServer[c], inTransit[c])
      /\ \A d \in Client \ {c} : inTransit'[d] = inTransit[d]
  <2>1. /\ lastServer' = lastServer
        /\ SendPush(c, history', current'[c], lastServer[c], inTransit[c])
    BY <1>1 DEF UserCommits, DidCommit
  <2>2. failed' = {} /\ inTransit \in [Client -> Nat]
    BY DEF SynchronizerInv, Types
  <2> QED
    BY <1>2, <2>1, <2>2, SendPushMarks
<1>5. ClientMoved(c, new)
  BY <1>1, <1>2, <1>4 DEF ClientMoved
<1>6. BaseOK(history', current[Server], current'[c], Base(c)')
  <2>1. held[Server] \in SUBSET (1..Len(history)) /\ Len(history) \in Nat
    BY ClientFacts
  <2>2. r \notin held[Server] /\ None \notin held[Server]
    BY <2>1 DEF None
  <2>3. Base(c)' = Base(c)
    BY <1>1, <1>2, <1>4, <2>2 DEF Base, BaseOf, NowInTransit, HasToPush
  <2>4. BaseOK(history, current[Server], current[c], Base(c))
    BY <1>2 DEF KnowledgeInv, BasesKnown
  <2>5. /\ current[Server] \in 1..Len(history) /\ Base(c) \in 1..Len(history)
        /\ GoodHistory(history)
    BY <1>2, <1>3 DEF Located
  <2>6. /\ Seen(history', current[Server]) = Seen(history, current[Server])
        /\ Seen(history', Base(c)) = Seen(history, Base(c))
        /\ Covers(history', Base(c), current[Server])
             <=> Covers(history, Base(c), current[Server])
    BY <1>2, <2>5, KnownBefore
  <2>7. Seen(history, current[Server]) \subseteq inserted
    BY <2>5 DEF KnowledgeInv, RevisionsKnow
  <2> HIDE DEF new
  <2> QED
    BY <1>2, <2>3, <2>4, <2>6, <2>7 DEF BaseOK
<1> HIDE DEF new
<1> QED
  BY <1>1, <1>2, <1>3, <1>5, <1>6, ClientMovesKnowledge

-----------------------------------------------------------------------------
(* What the clients' handlers make known                                   *)

(* A site that moves on forgets nothing.                                   *)
LEMMA OneMoves ==
  ASSUME UNCHANGED <<inserted, removed>>, NEW c \in Site,
         \A s \in Site \ {c} : current'[s] = current[s],
         current'[c] # None,
         current[c] # None => Covers(history', current[c], current'[c])
  PROVE  StillKnown
<1>1. ASSUME NEW s \in Site, current[s] # None
      PROVE  current'[s] # None /\ Covers(history', current[s], current'[s])
  <2>1. CASE s = c
    BY <1>1, <2>1
  <2>2. CASE s # c
    BY <1>1, <2>2 DEF Covers
  <2> QED
    BY <2>1, <2>2
<1> QED
  BY <1>1 DEF StillKnown

(* Writing nothing is a way to write.                                      *)
LEMMA WritesNothing ==
  ASSUME GoodHistory(history), RevisionsKnow, UNCHANGED <<history, inserted, removed>>
  PROVE  Writes
<1>1. Len(history) \in Nat
  BY DEF GoodHistory
<1>2. (Len(history) + 1)..Len(history) = {} /\ Len(history) >= Len(history)
  BY <1>1
<1> QED
  BY <1>2 DEF Writes, Keeps, RevisionsKnow, AddsNoMore

(* A step that moves no branch and writes nothing keeps what sites know.   *)
LEMMA NothingMovesKnowledge ==
  ASSUME GoodHistory(history), KnowledgeInv,
         UNCHANGED <<history, current, held, lastServer, inTransit, inserted, removed>>
  PROVE  KnowledgeInv' /\ Writes
<1>1. KnowledgeInv'
  BY DEF KnowledgeInv, RevisionsKnow, BasesKnown, ClientsApart, NothingForgotten, Knower,
         Remover, Base, BaseOf
<1>2. Writes
  BY WritesNothing DEF KnowledgeInv
<1> QED
  BY <1>1, <1>2

\* A client takes a message, and users do nothing meanwhile.
ClientActs ==
  SynchronizerInv /\ KnowledgeInv /\ UNCHANGED <<inserted, removed>>

(* A client that is set up knows what the server knew.                     *)
LEMMA SetupKnowledge ==
  ASSUME ClientActs, NEW c \in Client, NEW m, m.class = "setup",
         AnswerOK(history, ServerLine, held[Server], m), HandleSetup(c, m)
  PROVE  KnowledgeInv' /\ Writes
<1>1. CASE current[c] # None
  <2>1. GoodHistory(history)
    BY ClientFacts DEF ClientActs
  <2> QED
    BY <1>1, <2>1, NothingMovesKnowledge DEF HandleSetup, clientVars, ClientActs
<1>2. CASE current[c] = None
  <2>1. /\ GoodHistory(history) /\ held[Server] \in SUBSET (1..Len(history))
        /\ \A t \in ServerLine : t \in 1..Len(history)
        /\ ClientOK(history, ServerLine, held[Server], held[c], current[c], lastServer[c],
                    inTransit[c])
        /\ Types
    BY ClientFacts DEF ClientActs
  <2>2. PICK t \in ServerLine : m.revisions = {t}
    BY DEF AnswerOK
  <2>3. t \in 1..Len(history) /\ Max({t}) = t
    <3>1. t \in 1..Len(history)
      BY <2>1
    <3> QED
      BY <3>1, MaxIs
  <2>4. /\ current' = [current EXCEPT ![c] = t] /\ held' = [held EXCEPT ![c] = {t}]
        /\ lastServer' = [lastServer EXCEPT ![c] = t]
        /\ UNCHANGED <<history, inTransit>>
    BY <1>2, <2>2, <2>3 DEF HandleSetup
  <2>5. /\ Server \in Site /\ Client \subseteq Site /\ Server \notin Client /\ c # Server
        /\ c \in Site
    BY SynchronizerAssumption DEF Site
  <2>6. /\ current'[c] = t /\ t # None /\ lastServer'[c] = t
        /\ \A s \in Site \ {c} : current'[s] = current[s] /\ held'[s] = held[s]
        /\ \A d \in Client \ {c} : lastServer'[d] = lastServer[d]
    BY <2>1, <2>3, <2>4, <2>5 DEF Types, None
  <2>7. Located /\ RevisionsKnow /\ KnowledgeInv /\ UNCHANGED <<inserted, removed>>
    BY LocatedNow DEF ClientActs, KnowledgeInv
  <2>8. Covers(history, t, current[Server])
    BY <2>1, <2>7 DEF Located, RevisionsKnow, Remembers, ServerLine
  <2>9. Base(c)' = t
    <3>1. inTransit[c] = None
      BY <1>2, <2>1 DEF ClientOK
    <3>2. None \notin held[Server]
      BY <2>1 DEF None
    <3> QED
      BY <2>4, <2>5, <2>6, <3>1, <3>2 DEF Base, BaseOf
  <2>10. Writes /\ StillKnown
    BY <1>2, <2>1, <2>4, <2>5, <2>6, <2>7, WritesNothing, OneMoves
  <2>11. ClientMoved(c, {})
    BY <1>2, <2>4, <2>5, <2>6, <2>8 DEF ClientMoved, Covers
  <2>12. BaseOK(history', current[Server], current'[c], Base(c)')
    BY <2>4, <2>6, <2>8, <2>9 DEF BaseOK
  <2> QED
    BY <2>5, <2>7, <2>10, <2>11, <2>12, ClientMovesKnowledge
<1> QED
  BY <1>1, <1>2

\* The server's revisions up to t are next for client c.
NextFor(c, t) ==
  /\ t \in ServerLine /\ lastServer[c] # None
  /\ lastServer[c] \in Line(history, t) /\ lastServer[c] < t /\ t # current[c]
  /\ inTransit[c] # None => inTransit[c] \in held[Server] /\ inTransit[c] <= t
  /\ Covers(history, Base(c), t)

\* With history h the branch cur of client c knows what it knew and t knows.
AppliedKnows(c, t, cur) ==
  /\ Writes /\ cur # None /\ (cur # t => cur \notin held[Server])
  /\ Covers(history', current[c], cur)
  /\ Seen(history', cur) \subseteq Seen(history, current[c]) \cup Seen(history, t)

(* What a client knows with the server's revisions up to t.                *)
LEMMA ApplyKnows ==
  ASSUME ClientActs, SynchronizerInv', NEW c \in Client, NEW t, NextFor(c, t), NEW used,
         ApplyRevisions(c, used, t)
  PROVE  /\ AppliedKnows(c, t, current'[c])
         /\ lastServer'[c] = t /\ inTransit'[c] = NowInTransit(current'[c], t, None)
         /\ \A s \in Site \ {c} : current'[s] = current[s] /\ held'[s] = held[s]
         /\ \A d \in Client \ {c} : lastServer'[d] = lastServer[d] /\ inTransit'[d] = inTransit[d]
<1> DEFINE sent == inTransit[c]
           ahead == IsEqualToOrParent(history, t, current[c])
           rebases == ~ahead /\ sent # None /\ current[c] # sent
           h == IF rebases THEN Rebase(history, current[c], t, sent) ELSE history
           cur == IF rebases THEN Len(h) ELSE IF ahead THEN current[c] ELSE t
<1>1. /\ Types /\ GoodHistory(history) /\ Len(history) \in Nat
      /\ held[Server] \in SUBSET (1..Len(history)) /\ t \in 1..Len(history)
      /\ ClientOK(history, ServerLine, held[Server], held[c], current[c], lastServer[c],
                  inTransit[c])
      /\ held[c] \in SUBSET (1..Len(history)) /\ c \in Site
  BY ClientFacts DEF ClientActs, NextFor
<1>2. Located /\ RevisionsKnow /\ UNCHANGED <<inserted, removed>> /\ Remembers(history)
  BY LocatedNow DEF ClientActs, KnowledgeInv, RevisionsKnow
<1>3. current[c] # None /\ current[c] \in 1..Len(history) /\ current[c] \in Line(history, current[c])
  <2>1. current[c] # None
    <3>1. sent # None => current[c] # None
      BY <1>1 DEF ClientOK
    <3>2. sent = None => current[c] = lastServer[c]
      BY <1>1 DEF ClientOK
    <3> QED
      BY <3>1, <3>2 DEF NextFor
  <2> QED
    BY <1>1, <1>2, <2>1 DEF Located, GoodHistory
<1>4. /\ history' = h /\ current' = [current EXCEPT ![c] = cur]
      /\ lastServer' = [lastServer EXCEPT ![c] = t]
      /\ \A s \in Site \ {c} : held'[s] = held[s]
      /\ SendPush(c, h, cur, t, None)
  <2>1. /\ history' = h /\ current' = [current EXCEPT ![c] = cur]
        /\ lastServer' = [lastServer EXCEPT ![c] = t]
        /\ held' = [held EXCEPT ![c] = @ \cup used \cup (Len(history) + 1)..Len(h)]
        /\ SendPush(c, h, cur, t, None)
    BY DEF ApplyRevisions
  <2> HIDE DEF h, cur
  <2> QED
    BY <1>1, <2>1 DEF Types
<1>5. /\ current'[c] = cur /\ lastServer'[c] = t
      /\ \A s \in Site \ {c} : current'[s] = current[s]
      /\ \A d \in Client \ {c} : lastServer'[d] = lastServer[d]
  <2> HIDE DEF h, cur
  <2> QED
    BY <1>1, <1>4 DEF Types
<1>6. /\ inTransit'[c] = NowInTransit(cur, t, None)
      /\ \A d \in Client \ {c} : inTransit'[d] = inTransit[d]
  <2>1. failed' = {} /\ inTransit \in [Client -> Nat]
    BY <1>1 DEF SynchronizerInv, Types
  <2> HIDE DEF h, cur
  <2> QED
    BY <1>4, <2>1, SendPushMarks
<1>7. /\ Covers(history, Base(c), t)
      /\ sent # None => sent \in held[Server] /\ sent <= t /\ Base(c) = sent
      /\ t # current[c] /\ lastServer[c] \in Line(history, t)
  BY DEF NextFor, Base, BaseOf
<1>8. sent \in Nat /\ sent # None => sent \in Line(history, current[c])
                                     /\ RevisionsFromTo(history, sent, current[c]) \cap held[Server] = {}
  BY <1>1 DEF ClientOK
<1>9. CASE ahead
  <2>1. h = history /\ cur = current[c]
    BY <1>9
  <2>2. t \in Line(history, current[c])
    BY <1>9 DEF IsEqualToOrParent
  <2>3. t < current[c]
    BY <1>1, <1>3, <1>7, <2>2, LineOfAncestor
  <2>4. current[c] \notin held[Server]
    <3>1. sent # None
      <4>1. sent = None => current[c] = lastServer[c]
        BY <1>1 DEF ClientOK
      <4>2. lastServer[c] \in 1..t
        BY <1>1, <1>7 DEF GoodHistory
      <4> QED
        BY <1>1, <1>3, <2>3, <4>1, <4>2
    <3>2. sent \in Nat /\ sent <= t
      BY <1>1, <1>7, <3>1 DEF Types
    <3>3. current[c] > sent
      BY <1>1, <1>3, <2>3, <3>2
    <3>4. current[c] \in RevisionsFromTo(history, sent, current[c])
      BY <1>3, <3>3 DEF RevisionsFromTo
    <3> QED
      BY <1>1, <3>1, <3>4 DEF ClientOK
  <2>5. history' = history
    BY <1>4, <2>1
  <2>6. Writes
    BY <1>1, <1>2, <2>5, WritesNothing
  <2>7. AppliedKnows(c, t, current[c])
    BY <1>3, <2>4, <2>5, <2>6 DEF AppliedKnows, Covers
  <2> QED
    BY <1>4, <1>5, <1>6, <2>1, <2>7
<1>10. CASE ~ ahead /\ ~ rebases
  <2>1. h = history /\ cur = t
    BY <1>10
  <2>2. history' = history
    BY <1>4, <2>1
  <2>3. Writes
    BY <1>1, <1>2, <2>2, WritesNothing
  <2>4. Covers(history, current[c], t)
    <3>1. CASE sent = None
      <4>1. current[c] = lastServer[c]
        BY <1>1, <3>1 DEF ClientOK
      <4> QED
        BY <1>1, <1>2, <1>7, <4>1 DEF Remembers
    <3>2. CASE sent # None
      <4>1. current[c] = sent
        BY <1>10, <3>2
      <4> QED
        BY <1>7, <3>2, <4>1
    <3> QED
      BY <3>1, <3>2
  <2>5. t # None
    BY <1>1 DEF None
  <2>6. AppliedKnows(c, t, t)
    BY <2>2, <2>3, <2>4, <2>5 DEF AppliedKnows
  <2> QED
    BY <1>4, <1>5, <1>6, <2>1, <2>6
<1>11. CASE rebases
  <2>1. /\ sent # None /\ current[c] # sent /\ h = Rebase(history, current[c], t, sent)
        /\ cur = Len(h)
    BY <1>11
  <2>2. sent \in Line(history, current[c])
    BY <1>1, <2>1 DEF ClientOK
  <2>3. sent < current[c]
    BY <1>1, <1>3, <2>1, <2>2, LineOfAncestor
  <2>4. Covers(history, sent, t)
    BY <1>7, <2>1
  <2>5. BaseOK(history, current[Server], current[c], sent)
    BY <1>3, <1>7, <2>1 DEF ClientActs, KnowledgeInv, BasesKnown
  <2>6. Seen(history, t) \subseteq Seen(history, current[Server])
    BY <1>2 DEF NextFor, ServerLine, Remembers, Covers, Located
  <2>7. Seen(history, current[c]) \cap Seen(history, t) \subseteq Seen(history, sent)
    BY <2>5, <2>6 DEF BaseOK
  <2>8. PICK g : g = history'
    OBVIOUS
  <2>9. g = Rebase(history, current[c], t, sent) /\ cur = Len(g)
    BY <1>4, <2>1, <2>8
  <2> HIDE DEF h, cur, sent, rebases, ahead
  <2>10. Adds(history, g, t, Seen(history, current[c]) \cup Seen(history, t),
              Gone(history, current[c]) \cup Gone(history, t))
    BY <1>1, <1>2, <1>3, <2>2, <2>3, <2>4, <2>7, <2>9, RebaseKnows
  <2>11. /\ Seen(history, current[c]) \subseteq inserted /\ Gone(history, current[c]) \subseteq removed
         /\ Seen(history, t) \subseteq inserted /\ Gone(history, t) \subseteq removed
    BY <1>1, <1>2, <1>3 DEF RevisionsKnow
  <2>12. Len(g) > Len(history) /\ Len(g) \in Nat
    BY <2>10 DEF Adds, Grown
  <2>13. Len(g) >= Len(history) /\ Len(g) # None /\ Len(g) \notin held[Server]
    BY <1>1, <2>12 DEF None
  <2>14. Writes
    BY <1>2, <2>8, <2>10, <2>11, <2>13 DEF Writes, Adds, AddsNoMore
  <2>15. /\ Seen(g, current[c]) = Seen(history, current[c])
         /\ Gone(g, current[c]) = Gone(history, current[c])
    BY <1>1, <1>3, <2>8, <2>14, KnownBefore
  <2>16. AppliedKnows(c, t, cur)
    BY <2>8, <2>9, <2>10, <2>13, <2>14, <2>15 DEF AppliedKnows, Adds, Covers
  <2> QED
    BY <1>4, <1>5, <1>6, <2>16
<1> QED
  BY <1>9, <1>10, <1>11

(* A client that takes the server's revisions knows what both knew.        *)
LEMMA ApplyKnowledge ==
  ASSUME ClientActs, SynchronizerInv', NEW c \in Client, NEW t, NextFor(c, t), NEW used,
         ApplyRevisions(c, used, t)
  PROVE  KnowledgeInv' /\ Writes
<1> DEFINE cur == current'[c]
<1>1. /\ AppliedKnows(c, t, cur)
      /\ lastServer'[c] = t /\ inTransit'[c] = NowInTransit(cur, t, None)
      /\ \A s \in Site \ {c} : current'[s] = current[s] /\ held'[s] = held[s]
      /\ \A d \in Client \ {c} : lastServer'[d] = lastServer[d] /\ inTransit'[d] = inTransit[d]
  BY ApplyKnows
<1>2. /\ Server \in Site /\ Client \subseteq Site /\ Server \notin Client /\ c # Server
      /\ c \in Site
  BY SynchronizerAssumption DEF Site
<1>3. /\ GoodHistory(history) /\ held[Server] \in SUBSET (1..Len(history))
      /\ t \in 1..Len(history)
  BY ClientFacts DEF ClientActs, NextFor
<1>4. /\ Located /\ RevisionsKnow /\ KnowledgeInv /\ UNCHANGED <<inserted, removed>>
      /\ current[Server] \in 1..Len(history)
  BY LocatedNow DEF ClientActs, KnowledgeInv, Located
<1>5. Covers(history, t, current[Server])
  BY <1>4 DEF NextFor, RevisionsKnow, Remembers, ServerLine
<1>6. current[c] # None
  <2>1. ClientOK(history, ServerLine, held[Server], held[c], current[c], lastServer[c],
                  inTransit[c])
    BY ClientFacts DEF ClientActs
  <2>2. inTransit[c] = None => current[c] = lastServer[c]
    BY <2>1 DEF ClientOK
  <2>3. inTransit[c] # None => current[c] # None
    BY <2>1 DEF ClientOK
  <2> QED
    BY <2>2, <2>3 DEF NextFor
<1>7. /\ Writes /\ cur # None /\ Covers(history', current[c], cur)
      /\ Seen(history', cur) \subseteq Seen(history, current[c]) \cup Seen(history, t)
  BY <1>1 DEF AppliedKnows
<1>8. StillKnown
  BY <1>1, <1>2, <1>4, <1>7, OneMoves
<1>9. ClientMoved(c, {})
  BY <1>1, <1>2, <1>5, <1>6, <1>7 DEF ClientMoved, Covers
<1>10. Base(c)' = t
  <2>1. None \notin held[Server]
    BY <1>3 DEF None
  <2> QED
    BY <1>1, <1>2, <2>1 DEF Base, BaseOf, NowInTransit, HasToPush, AppliedKnows
<1>11. /\ Seen(history', t) = Seen(history, t)
       /\ Seen(history', current[Server]) = Seen(history, current[Server])
       /\ Covers(history', t, current[Server])
  BY <1>3, <1>4, <1>5, <1>7, KnownBefore
<1>12. Seen(history, current[c]) \cap Seen(history, current[Server]) \subseteq Seen(history, t)
  <2>1. BaseOK(history, current[Server], current[c], Base(c))
    BY <1>4, <1>6 DEF KnowledgeInv, BasesKnown
  <2>2. Covers(history, Base(c), t)
    BY DEF NextFor
  <2> QED
    BY <2>1, <2>2 DEF BaseOK, Covers
<1>13. BaseOK(history', current[Server], cur, t)
  BY <1>7, <1>11, <1>12 DEF BaseOK
<1> QED
  BY <1>2, <1>4, <1>7, <1>8, <1>9, <1>10, <1>13, ClientMovesKnowledge

(* What follows a revision on a line begins with a child of it.            *)
LEMMA FollowerExists ==
  ASSUME NEW h, GoodHistory(h), NEW tip \in 1..Len(h), NEW last \in Line(h, tip), last < tip
  PROVE  \E r \in RevisionsFromTo(h, last, tip) : Parent(h, r) = last
<1> DEFINE S == RevisionsFromTo(h, last, tip)
<1>1. /\ Len(h) \in Nat /\ tip \in Line(h, tip) /\ Line(h, tip) \in SUBSET (1..tip)
      /\ \A a \in Line(h, tip) : /\ a \in 1..tip /\ a \in Line(h, a)
                                 /\ Line(h, a) = Line(h, tip) \cap 1..a
  BY DEF GoodHistory
<1>2. S \in SUBSET Nat /\ tip \in S
  BY <1>1 DEF RevisionsFromTo
<1>3. PICK r \in S : \A n \in S : r <= n
  <2> HIDE DEF S
  <2> QED
    BY <1>2, LeastNumber
<1> DEFINE above == Line(h, r) \ {r}
<1>4. r \in Line(h, tip) /\ r > last /\ r \in Nat /\ last \in Nat
  BY <1>1, <1>3 DEF RevisionsFromTo
<1>5. last \in above /\ above \in SUBSET Nat
  BY <1>1, <1>4
<1>6. \A y \in above : last >= y
  <2> SUFFICES ASSUME NEW y \in above, y > last
               PROVE  FALSE
    BY <1>4, <1>5
  <2>1. y \in Line(h, tip) /\ y < r /\ y \in Nat
    BY <1>1, <1>4
  <2>2. y \in S
    BY <2>1 DEF RevisionsFromTo
  <2> QED
    BY <1>3, <1>4, <2>1, <2>2
<1> HIDE DEF above
<1>7. Max(above) = last
  BY <1>5, <1>6, MaxIs
<1>8. Parent(h, r) = last
  BY <1>5, <1>7 DEF Parent, above
<1> QED
  BY <1>3, <1>8

\* revs are what follows the last revision client c knows of the server.
Extends(c, revs) ==
  \E t \in ServerLine : lastServer[c] < t /\ revs = RevisionsFromTo(history, lastServer[c], t)

\* A message to client c that is not about its branch, or that it waits for.
Heeded(c, m) ==
  /\ m.class # "setup" /\ AnswerOK(history, ServerLine, held[Server], m)
  /\ m.class = "response" => Covers(history, m.answers, Max(m.revisions))
  /\ inTransit[c] # None => m.class = "response" /\ m.answers = inTransit[c]

\* The client learns that the server is where the client is.
Settles(c, t) ==
  /\ t = current[c] /\ t \in ServerLine
  /\ lastServer' = [lastServer EXCEPT ![c] = t]
  /\ inTransit' = [inTransit EXCEPT ![c] = None]
  /\ UNCHANGED <<history, current, held, toServer, failed>>

\* The client ignores the message.
Ignores(c, revs) ==
  /\ UNCHANGED <<history, current, held, clientVars, failed>>
  /\ lastServer[c] # None => ~ Extends(c, revs)

\* The client takes the revisions.
Takes(c, t) ==
  NextFor(c, t) /\ ApplyRevisions(c, RevisionsFromTo(history, lastServer[c], t), t)

(* What a client does with revisions of the server.                        *)
LEMMA HandleRevisionsCases ==
  ASSUME ClientActs, NEW c \in Client, NEW m, Heeded(c, m), HandleRevisions(c, m.revisions)
  PROVE  LET t == Max(m.revisions)
         IN  /\ Pushes(toServer[c], queue, c) = {}
             /\ Settles(c, t) \/ Ignores(c, m.revisions) \/ Takes(c, t)
<1>1. /\ Types /\ GoodHistory(history) /\ Len(history) \in Nat \ {0}
      /\ ServerLine \subseteq held[Server]
      /\ ClientOK(history, ServerLine, held[Server], held[c], current[c], lastServer[c],
                  inTransit[c])
      /\ \A p \in Pushes(toServer[c], queue, c) :
           PushOK(history, ServerLine, held[Server], held[c], inTransit[c], p)
      /\ OnePush(toServer[c], queue, c)
  BY ClientFacts DEF ClientActs
<1>2. PICK t \in ServerLine : \E f \in Line(history, t) :
        /\ f < t /\ m.revisions = RevisionsFromTo(history, f, t)
        /\ m.class = "response" => m.answers \in held[Server] /\ m.answers <= t
  BY DEF AnswerOK, Heeded
<1>3. PICK f \in Line(history, t) :
        /\ f < t /\ m.revisions = RevisionsFromTo(history, f, t)
        /\ m.class = "response" => m.answers \in held[Server] /\ m.answers <= t
  BY <1>2
<1>4. t \in 1..Len(history) /\ f \in Nat
  <2>1. t \in 1..Len(history)
    BY ClientFacts DEF ClientActs
  <2> QED
    BY <1>1, <2>1, LineOfAncestor
<1>5. Max(m.revisions) = t
  BY <1>1, <1>3, <1>4, TipOfRange
<1>6. inTransit[c] # None => inTransit[c] \in held[Server] /\ inTransit[c] <= t
  BY <1>3 DEF Heeded
<1>7. Pushes(toServer[c], queue, c) = {}
  <2> SUFFICES ASSUME NEW p \in Pushes(toServer[c], queue, c)
               PROVE  FALSE
    OBVIOUS
  <2>1. PushOK(history, ServerLine, held[Server], held[c], inTransit[c], p)
    BY <1>1
  <2>2. inTransit[c] \in 1..Len(history)
    BY <1>1, <2>1 DEF PushOK, ClientOK, StoreOK
  <2>3. inTransit[c] \in p.revisions
    BY <1>1, <2>1, <2>2 DEF PushOK, RevisionsFromTo, GoodHistory
  <2> QED
    BY <1>6, <2>1, <2>3 DEF PushOK
<1> DEFINE next == {r \in m.revisions : Follows(c, r)}
<1>8. CASE t = current[c]
  <2>1. Settles(c, t)
    BY <1>5, <1>8 DEF HandleRevisions, Settles
  <2> QED
    BY <1>5, <1>7, <2>1
<1>9. CASE t # current[c] /\ next = {}
  <2>1. UNCHANGED <<history, current, held, clientVars, failed>>
    BY <1>5, <1>9 DEF HandleRevisions
  <2>2. ASSUME lastServer[c] # None, Extends(c, m.revisions)
        PROVE  FALSE
    <3>1. PICK u \in ServerLine : /\ lastServer[c] < u
                                  /\ m.revisions = RevisionsFromTo(history, lastServer[c], u)
      BY <2>2 DEF Extends
    <3>2. lastServer[c] \in ServerLine /\ lastServer[c] \in Nat
      BY <1>1, <2>2 DEF ClientOK
    <3>3. u \in 1..Len(history) /\ Line(history, u) = ServerLine \cap 1..u
      BY ServerFacts, LineOfAncestor DEF ServerLine, ClientActs
    <3>4. lastServer[c] \in 1..Len(history)
      BY <3>2, ServerFacts DEF ClientActs
    <3>5. lastServer[c] \in Line(history, u)
      BY <3>1, <3>2, <3>3, <3>4
    <3>6. PICK r \in m.revisions : Parent(history, r) = lastServer[c]
      BY <1>1, <3>1, <3>3, <3>5, FollowerExists
    <3>7. r \in next
      BY <2>2, <3>6 DEF Follows
    <3> QED
      BY <1>9, <3>7
  <2>3. Ignores(c, m.revisions)
    BY <2>1, <2>2 DEF Ignores
  <2> QED
    BY <1>7, <2>3
<1>10. CASE t # current[c] /\ next # {}
  <2>1. ApplyRevisions(c, {r \in m.revisions : r >= Max(next)}, t)
    BY <1>5, <1>10 DEF HandleRevisions
  <2>2. /\ lastServer[c] \in Nat \ {None}
        /\ next = {r \in RevisionsFromTo(history, f, t) : Parent(history, r) = lastServer[c]}
    BY <1>1, <1>3, <1>10 DEF Follows, Types
  <2> HIDE DEF next
  <2>3. /\ lastServer[c] \in Line(history, t) /\ lastServer[c] < t
        /\ {r \in RevisionsFromTo(history, f, t) : r >= Max(next)}
             = RevisionsFromTo(history, lastServer[c], t)
    <3>1. /\ next # {}
          /\ \A r : r \in next <=> /\ r \in RevisionsFromTo(history, f, t)
                                   /\ Parent(history, r) = lastServer[c]
      BY <1>10, <2>2
    <3>2. /\ lastServer[c] \in Line(history, t) /\ lastServer[c] < t
          /\ \A r : (r \in RevisionsFromTo(history, f, t) /\ r >= Max(next))
                    <=> r \in RevisionsFromTo(history, lastServer[c], t)
      <4>1. /\ GoodHistory(history) /\ t \in 1..Len(history) /\ f \in Nat
            /\ lastServer[c] \in Nat \ {None}
        BY <1>1, <1>4, <2>2
      <4> QED
        BY <3>1, <4>1, FollowersOfLast, Zenon
    <3> QED
      BY <3>2
  <2>4. ApplyRevisions(c, RevisionsFromTo(history, lastServer[c], t), t)
    BY <1>3, <2>1, <2>3
  <2>5. Covers(history, Base(c), t)
    <3>1. CASE inTransit[c] = None
      <4>1. None \notin held[Server]
        BY ServerFacts DEF ClientActs, None
      <4>2. Base(c) = lastServer[c]
        BY <3>1, <4>1 DEF Base, BaseOf
      <4> QED
        BY <1>4, <2>3, <4>2 DEF ClientActs, KnowledgeInv, RevisionsKnow, Remembers
    <3>2. CASE inTransit[c] # None
      BY <1>5, <1>6, <3>2 DEF Base, BaseOf, Heeded
    <3> QED
      BY <3>1, <3>2
  <2>6. Takes(c, t)
    BY <1>6, <1>10, <2>2, <2>3, <2>4, <2>5 DEF Takes, NextFor
  <2> QED
    BY <1>5, <1>7, <2>6
<1> QED
  BY <1>8, <1>9, <1>10

(* A client that learns that the server is where it is.                    *)
LEMMA SettleKnowledge ==
  ASSUME ClientActs, NEW c \in Client, NEW t, Settles(c, t)
  PROVE  KnowledgeInv' /\ Writes
<1>1. /\ Server \in Site /\ Client \subseteq Site /\ Server \notin Client /\ c # Server
      /\ c \in Site
  BY SynchronizerAssumption DEF Site
<1>2. /\ GoodHistory(history) /\ held[Server] \in SUBSET (1..Len(history))
      /\ t \in 1..Len(history) /\ Types
  BY ClientFacts DEF ClientActs, Settles
<1>3. /\ Located /\ RevisionsKnow /\ KnowledgeInv /\ UNCHANGED <<inserted, removed>>
  BY LocatedNow DEF ClientActs, KnowledgeInv
<1>4. /\ lastServer'[c] = t /\ inTransit'[c] = None /\ UNCHANGED <<history, current, held>>
      /\ \A d \in Client \ {c} : lastServer'[d] = lastServer[d] /\ inTransit'[d] = inTransit[d]
  BY <1>2 DEF Settles, Types
<1>5. t = current[c] /\ t # None
  BY <1>2 DEF Settles, None
<1>6. Writes /\ StillKnown
  BY <1>1, <1>2, <1>3, <1>4, <1>5, WritesNothing, OneMoves DEF Covers
<1>7. ClientMoved(c, {})
  BY <1>1, <1>4, <1>5 DEF ClientMoved
<1>8. Base(c)' = t
  <2>1. None \notin held[Server]
    BY <1>2 DEF None
  <2> QED
    BY <1>4, <2>1 DEF Base, BaseOf
<1>9. Covers(history, t, current[Server])
  BY <1>3 DEF Settles, RevisionsKnow, Remembers, ServerLine, Located
<1>10. BaseOK(history', current[Server], current'[c], Base(c)')
  BY <1>4, <1>5, <1>8, <1>9 DEF BaseOK
<1> QED
  BY <1>1, <1>3, <1>6, <1>7, <1>10, ClientMovesKnowledge

(* A client that handles revisions of the server keeps what sites know.    *)
LEMMA HandleRevisionsKnowledge ==
  ASSUME ClientActs, SynchronizerInv', NEW c \in Client, NEW m, Heeded(c, m),
         HandleRevisions(c, m.revisions)
  PROVE  KnowledgeInv' /\ Writes
<1>1. PICK t : t = Max(m.revisions)
  OBVIOUS
<1>2. Settles(c, t) \/ Ignores(c, m.revisions) \/ Takes(c, t)
  BY <1>1, HandleRevisionsCases
<1>3. CASE Settles(c, t)
  BY <1>3, SettleKnowledge
<1>4. CASE Ignores(c, m.revisions)
  <2>1. GoodHistory(history)
    BY ClientFacts DEF ClientActs
  <2> QED
    BY <1>4, <2>1, NothingMovesKnowledge DEF Ignores, ClientActs, clientVars
<1>5. CASE Takes(c, t)
  BY <1>5, ApplyKnowledge DEF Takes
<1> QED
  BY <1>2, <1>3, <1>4, <1>5

-----------------------------------------------------------------------------
(* What is sent                                                            *)

(* A queue that messages to clients are added to has them all.             *)
LEMMA QueueKeeps ==
  ASSUME NEW q \in Seq(QueueRecord), NEW out \in Seq(QueueRecord), NEW c, NEW tc
  PROVE  /\ Answers(tc, q, c) \subseteq Answers(tc, q \o out, c)
         /\ \A j \in Leaving(out, c) : out[j].message \in Answers(tc, q \o out, c)
<1> DEFINE p == q \o out
<1>1. /\ p \in Seq(QueueRecord) /\ Len(p) = Len(q) + Len(out)
      /\ \A i \in 1..Len(q) + Len(out) : p[i] = IF i <= Len(q) THEN q[i] ELSE out[i - Len(q)]
      /\ Len(q) \in Nat /\ Len(out) \in Nat
  BY ConcatProperties, LenProperties
<1> HIDE DEF p
<1>2. \A i \in 1..Len(q) : i \in 1..Len(p) /\ p[i] = q[i]
  BY <1>1
<1>3. \A j \in 1..Len(out) : Len(q) + j \in 1..Len(p) /\ p[Len(q) + j] = out[j]
  <2> TAKE j \in 1..Len(out)
  <2>1. Len(q) + j \in 1..(Len(q) + Len(out)) /\ ~ (Len(q) + j <= Len(q)) /\ (Len(q) + j) - Len(q) = j
    BY <1>1
  <2> QED
    BY <1>1, <2>1
<1>4. \A i \in Leaving(q, c) : i \in Leaving(p, c) /\ p[i] = q[i]
  BY <1>2 DEF Leaving
<1>5. \A j \in Leaving(out, c) : Len(q) + j \in Leaving(p, c) /\ p[Len(q) + j] = out[j]
  BY <1>3 DEF Leaving
<1> QED
  BY <1>4, <1>5 DEF Answers, p

\* Every message of msgs is on its way, after what was.
AllSent(msgs, q) ==
  /\ \A c \in Client :
       /\ Answers(toClient[c], q, c) \subseteq Answers(toClient'[c], queue', c)
       /\ c \in DOMAIN msgs => msgs[c] \in Answers(toClient'[c], queue', c)
  /\ ~ paused =>
       /\ queue' = q
       /\ \A c \in Client :
            toClient'[c] = IF c \in DOMAIN msgs THEN Append(toClient[c], msgs[c])
                                                ELSE toClient[c]

(* Nothing is dropped on the way to the transport.                         *)
LEMMA SendToClientsSendsAll ==
  ASSUME NEW msgs, DOMAIN msgs \in SUBSET Client, IsFiniteSet(DOMAIN msgs),
         \A c \in DOMAIN msgs : msgs[c] \in ClientRecord,
         NEW q \in Seq(QueueRecord), toClient \in [Client -> Seq(ClientRecord)],
         SendToClients(msgs, q)
  PROVE  AllSent(msgs, q)
<1> DEFINE receivers == SetToSeq(DOMAIN msgs)
           n == Cardinality(DOMAIN msgs)
           out == [i \in DOMAIN receivers |-> Outgoing(receivers[i], msgs[receivers[i]])]
<1>1. /\ receivers \in [1..n -> DOMAIN msgs] /\ n \in Nat
      /\ \A c \in DOMAIN msgs : \E i \in 1..n : receivers[i] = c
  <2>1. n \in Nat /\ ExistsBijection(1..n, DOMAIN msgs)
    BY FS_CardinalityType
  <2>2. PICK f \in [1..n -> DOMAIN msgs] : IsInjective(f)
    <3>1. PICK f \in Bijection(1..n, DOMAIN msgs) : TRUE
      BY <2>1 DEF ExistsBijection
    <3> HIDE DEF n
    <3>2. f \in [1..n -> DOMAIN msgs] /\ \A a, b \in 1..n : f[a] = f[b] => a = b
      BY <3>1 DEF Bijection, Injection, IsInjective
    <3>3. IsInjective(f)
      BY <3>2 DEF IsInjective
    <3> QED
      BY <3>2, <3>3
  <2>3. receivers \in [1..n -> DOMAIN msgs] /\ IsInjective(receivers)
    BY <2>2 DEF SetToSeq
  <2> HIDE DEF receivers
  <2>4. receivers \in Injection(1..n, DOMAIN msgs)
    BY <2>3 DEF Injection, IsInjective
  <2>5. Cardinality(1..n) = n /\ IsFiniteSet(1..n)
    BY <2>1, FS_Interval
  <2>6. receivers \in Surjection(1..n, DOMAIN msgs)
    BY <2>4, <2>5, FS_Injection
  <2> QED
    BY <2>1, <2>3, <2>6 DEF Surjection
<1>2. /\ queue' = IF paused THEN q \o out ELSE q
      /\ toClient' = [c \in Client |-> IF ~paused /\ c \in DOMAIN msgs
                                       THEN Append(toClient[c], msgs[c])
                                       ELSE toClient[c]]
  BY DEF SendToClients
<1>3. CASE paused
  <2> HIDE DEF receivers, n
  <2>1. \A i \in 1..n : out[i] = Outgoing(receivers[i], msgs[receivers[i]])
    BY <1>1
  <2>2. out = [i \in 1..n |-> out[i]]
    BY <1>1
  <2> HIDE DEF out
  <2>3. ASSUME NEW i \in 1..n
        PROVE  /\ out[i] \in QueueRecord
               /\ out[i].type = "outgoing" /\ out[i].client = receivers[i]
               /\ out[i].message = msgs[receivers[i]]
    <3>1. receivers[i] \in Client /\ msgs[receivers[i]] \in ClientRecord
      BY <1>1
    <3>2. PICK r, m : r = receivers[i] /\ m = msgs[receivers[i]]
      OBVIOUS
    <3>3. out[i] = [type |-> "outgoing", client |-> r, message |-> m]
      BY <2>1, <3>2 DEF Outgoing
    <3> QED
      BY <3>1, <3>2, <3>3 DEF QueueRecord
  <2>4. out \in [1..n -> QueueRecord]
    BY <2>2, <2>3
  <2>5. out \in Seq(QueueRecord) /\ Len(out) = n
    BY <1>1, <2>4, SeqDef, LenProperties
  <2>6. queue' = q \o out /\ \A c \in Client : toClient'[c] = toClient[c]
    BY <1>2, <1>3
  <2>7. ASSUME NEW c \in Client
        PROVE  /\ Answers(toClient[c], q, c) \subseteq Answers(toClient'[c], queue', c)
               /\ c \in DOMAIN msgs => msgs[c] \in Answers(toClient'[c], queue', c)
    <3>1. /\ Answers(toClient[c], q, c) \subseteq Answers(toClient[c], q \o out, c)
          /\ \A j \in Leaving(out, c) : out[j].message \in Answers(toClient[c], q \o out, c)
      BY <2>5, QueueKeeps
    <3>2. c \in DOMAIN msgs => \E i \in Leaving(out, c) : out[i].message = msgs[c]
      <4> SUFFICES ASSUME c \in DOMAIN msgs
                   PROVE  \E i \in Leaving(out, c) : out[i].message = msgs[c]
        OBVIOUS
      <4>1. PICK i \in 1..n : receivers[i] = c
        BY <1>1
      <4>2. out[i].type = "outgoing" /\ out[i].client = c /\ out[i].message = msgs[c]
        BY <2>3, <4>1
      <4>3. i \in 1..Len(out)
        BY <2>5
      <4> QED
        BY <4>2, <4>3 DEF Leaving
    <3> QED
      BY <2>6, <3>1, <3>2
  <2> QED
    BY <1>3, <2>7 DEF AllSent
<1>4. CASE ~ paused
  <2>1. queue' = q /\ \A c \in Client :
          toClient'[c] = IF c \in DOMAIN msgs THEN Append(toClient[c], msgs[c])
                                              ELSE toClient[c]
    BY <1>2, <1>4
  <2>2. ASSUME NEW c \in Client
        PROVE  /\ Answers(toClient[c], q, c) \subseteq Answers(toClient'[c], queue', c)
               /\ c \in DOMAIN msgs => msgs[c] \in Answers(toClient'[c], queue', c)
    <3>1. CASE c \in DOMAIN msgs
      <4>1. /\ toClient'[c] = Append(toClient[c], msgs[c])
            /\ toClient[c] \in Seq(ClientRecord) /\ msgs[c] \in ClientRecord
        BY <2>1, <3>1
      <4>2. /\ Len(toClient'[c]) = Len(toClient[c]) + 1 /\ Len(toClient[c]) \in Nat
            /\ \A i \in 1..Len(toClient[c]) : toClient'[c][i] = toClient[c][i]
            /\ toClient'[c][Len(toClient[c]) + 1] = msgs[c]
        BY <4>1, AppendProperties, LenProperties
      <4>3. /\ \A i \in 1..Len(toClient[c]) : i \in 1..Len(toClient'[c])
            /\ Len(toClient[c]) + 1 \in 1..Len(toClient'[c])
        BY <4>2
      <4>4. /\ ElementsOf(toClient[c]) \subseteq ElementsOf(toClient'[c])
            /\ msgs[c] \in ElementsOf(toClient'[c])
        BY <4>2, <4>3 DEF ElementsOf
      <4> QED
        BY <2>1, <4>4 DEF Answers
    <3>2. CASE c \notin DOMAIN msgs
      BY <2>1, <3>2
    <3> QED
      BY <3>1, <3>2
  <2> QED
    BY <2>1, <2>2 DEF AllSent
<1> QED
  BY <1>3, <1>4

\* What client c is sent when the branch moved to cur.
Told(h, cur, sent, asked, c) ==
  IF asked.client = c THEN ResponseMessage(RevisionsFromTo(h, sent[c], cur), asked.revision)
                      ELSE PushMessage(RevisionsFromTo(h, sent[c], cur))

Lacks(sent, cur, c) == c \in DOMAIN sent /\ sent[c] # cur

\* The clients that lack cur are sent it, and nothing else is.
AllTold(h, cur, sent, asked, q) ==
  /\ lastSent' = [c \in DOMAIN sent |-> cur]
  /\ \A c \in Client :
       /\ \A ts : Pushes(ts, queue', c) = Pushes(ts, q, c)
       /\ Answers(toClient[c], q, c) \subseteq Answers(toClient'[c], queue', c)
       /\ \A m \in Answers(toClient'[c], queue', c) :
            \/ m \in Answers(toClient[c], q, c)
            \/ Lacks(sent, cur, c) /\ m = Told(h, cur, sent, asked, c)
       /\ Lacks(sent, cur, c) =>
            Told(h, cur, sent, asked, c) \in Answers(toClient'[c], queue', c)
  /\ ~ paused =>
       /\ queue' = q
       /\ \A c \in Client :
            toClient'[c] = IF Lacks(sent, cur, c)
                           THEN Append(toClient[c], Told(h, cur, sent, asked, c))
                           ELSE toClient[c]

(* Every client of the server is sent what it lacks of the branch.         *)
LEMMA NotifyClientsTells ==
  ASSUME NEW h, NEW cur \in 1..Len(h), GoodHistory(h),
         NEW sent, DOMAIN sent \in SUBSET Client, IsFiniteSet(DOMAIN sent),
         NEW asked, asked = Nobody \/ asked.revision \in Nat,
         NEW q \in Seq(QueueRecord), toClient \in [Client -> Seq(ClientRecord)],
         NotifyClients(h, cur, sent, asked, q), failed' = {}
  PROVE  AllTold(h, cur, sent, asked, q)
<1> DEFINE behind == {c \in DOMAIN sent : sent[c] # cur}
           revs(c) == RevisionsFromTo(h, sent[c], cur)
           msgs == [c \in behind |-> IF asked.client = c
                                     THEN ResponseMessage(revs(c), asked.revision)
                                     ELSE PushMessage(revs(c))]
<1>1. Line(h, cur) \in SUBSET Nat
  BY DEF GoodHistory
<1>2. SendToClients(msgs, q) /\ lastSent' = [c \in DOMAIN sent |-> cur]
  <2>1. ~ Raise(Server)
    BY DEF Raise
  <2> QED
    BY <2>1, Zenon DEF NotifyClients
<1>3. /\ behind \in SUBSET Client /\ IsFiniteSet(behind) /\ DOMAIN msgs = behind
      /\ \A c : c \in behind <=> Lacks(sent, cur, c)
  BY FS_Subset DEF Lacks
<1>4. ASSUME NEW c \in behind
      PROVE  msgs[c] \in ClientRecord /\ msgs[c] = Told(h, cur, sent, asked, c)
  <2> DEFINE R == revs(c)
  <2>1. R \in SUBSET Nat /\ R = RevisionsFromTo(h, sent[c], cur)
    BY <1>1 DEF RevisionsFromTo
  <2>2. CASE asked.client = c
    <3>1. asked # Nobody
      <4>1. c \in Client
        BY <1>3
      <4> QED
        BY <2>2, <4>1, SynchronizerAssumption DEF Nobody
    <3>2. msgs[c] = ResponseMessage(R, asked.revision)
      BY <2>2
    <3> HIDE DEF R, msgs
    <3>3. msgs[c] \in ClientRecord
      BY <2>1, <3>1, <3>2 DEF ClientRecord, ResponseMessage
    <3> QED
      BY <2>1, <2>2, <3>2, <3>3 DEF Told
  <2>3. CASE asked.client # c
    <3>1. msgs[c] = PushMessage(R)
      BY <2>3
    <3> HIDE DEF R, msgs
    <3>2. msgs[c] \in ClientRecord
      BY <2>1, <3>1 DEF ClientRecord, PushMessage, None
    <3> QED
      BY <2>1, <2>3, <3>1, <3>2 DEF Told
  <2> QED
    BY <2>2, <2>3
<1> HIDE DEF msgs, behind
<1>5. DOMAIN msgs \in SUBSET Client /\ IsFiniteSet(DOMAIN msgs)
      /\ \A c \in DOMAIN msgs : msgs[c] \in ClientRecord
  BY <1>3, <1>4
<1>6. /\ \A c \in Client : \A ts :
           /\ Pushes(ts, queue', c) = Pushes(ts, q, c)
           /\ OnePush(ts, q, c) => OnePush(ts, queue', c)
      /\ \A c \in Client : \A m \in Answers(toClient'[c], queue', c) :
           m \in Answers(toClient[c], q, c) \/ (c \in DOMAIN msgs /\ m = msgs[c])
  BY <1>2, <1>5, SendToClientsSends
<1>7. AllSent(msgs, q)
  BY <1>2, <1>5, SendToClientsSendsAll
<1>8. \A c \in Client : /\ c \in DOMAIN msgs <=> Lacks(sent, cur, c)
                        /\ c \in DOMAIN msgs => msgs[c] = Told(h, cur, sent, asked, c)
  BY <1>3, <1>4
<1>9. ASSUME NEW c \in Client
      PROVE  /\ \A ts : Pushes(ts, queue', c) = Pushes(ts, q, c)
             /\ Answers(toClient[c], q, c) \subseteq Answers(toClient'[c], queue', c)
             /\ \A m \in Answers(toClient'[c], queue', c) :
                  \/ m \in Answers(toClient[c], q, c)
                  \/ Lacks(sent, cur, c) /\ m = Told(h, cur, sent, asked, c)
             /\ Lacks(sent, cur, c) =>
                  Told(h, cur, sent, asked, c) \in Answers(toClient'[c], queue', c)
  BY <1>6, <1>7, <1>8 DEF AllSent
<1>10. ~ paused =>
         /\ queue' = q
         /\ \A c \in Client :
              toClient'[c] = IF Lacks(sent, cur, c)
                             THEN Append(toClient[c], Told(h, cur, sent, asked, c))
                             ELSE toClient[c]
  BY <1>7, <1>8 DEF AllSent
<1> QED
  BY <1>2, <1>9, <1>10 DEF AllTold

-----------------------------------------------------------------------------
(* What is under way                                                       *)

PushesTo(c) == Pushes(toServer[c], queue, c)
AnswersTo(c) == Answers(toClient[c], queue, c)

\* An answer covers the push it answers.
AnswerKnows(h, m) == m.class = "response" => Covers(h, m.answers, Max(m.revisions))

AnswersKnow == \A c \in Client : \A m \in AnswersTo(c) : AnswerKnows(history, m)

\* A push starts at what its client knows of the server.
PushesFromLast ==
  \A c \in Client : \A p \in PushesTo(c) : p.lastRevisionSentByServer = lastServer[c]

\* The answer client c waits for, that it can take.
Awaited(c, m) ==
  m.class = "response" /\ m.answers = inTransit[c] /\ Extends(c, m.revisions)

\* The push of client c will be answered.
Due(c) == PushesTo(c) # {} \/ \E m \in AnswersTo(c) : Awaited(c, m)

AnswersDue == losses = 0 => \A c \in Client : inTransit[c] # None => Due(c)

MessageInv == AnswersKnow /\ PushesFromLast /\ AnswersDue

\* The server's branch keeps what it had, and revisions are only written.
GoesOn ==
  SynchronizerInv /\ Writes /\ \A t \in ServerLine : t \in Line(history', current'[Server])

(* An answer goes on covering the push, and following what it followed.    *)
LEMMA AnswerStays ==
  ASSUME GoesOn, NEW c \in Client, NEW m \in AnswersTo(c)
  PROVE  /\ AnswerKnows(history, m) => AnswerKnows(history', m)
         /\ inTransit'[c] = inTransit[c] /\ lastServer'[c] = lastServer[c] /\ Awaited(c, m)
              => Awaited(c, m)'
<1>1. /\ GoodHistory(history) /\ ServerLine \in SUBSET (1..Len(history))
      /\ held[Server] \in SUBSET (1..Len(history))
      /\ AnswerOK(history, ServerLine, held[Server], m)
  BY ServerFacts DEF GoesOn, SynchronizerInv, MessagesOK, AnswersTo
<1>2. ASSUME m.class = "response"
      PROVE  AnswerKnows(history, m) => AnswerKnows(history', m)
  <2>1. PICK t \in ServerLine : \E f \in Line(history, t) :
          /\ f < t /\ m.revisions = RevisionsFromTo(history, f, t)
          /\ m.answers \in held[Server]
    BY <1>1, <1>2 DEF AnswerOK
  <2>2. PICK f \in Line(history, t) : f < t /\ m.revisions = RevisionsFromTo(history, f, t)
    BY <2>1
  <2>3. t \in 1..Len(history) /\ m.answers \in 1..Len(history) /\ f \in Nat
    <3>1. t \in 1..Len(history) /\ m.answers \in 1..Len(history)
      BY <1>1, <2>1
    <3> QED
      BY <1>1, <3>1, LineOfAncestor
  <2>4. Max(m.revisions) = t
    BY <1>1, <2>2, <2>3, TipOfRange
  <2>5. Covers(history', m.answers, t) <=> Covers(history, m.answers, t)
    BY <1>1, <2>3, KnownBefore DEF GoesOn
  <2> QED
    BY <2>4, <2>5 DEF AnswerKnows
<1>3. ASSUME inTransit'[c] = inTransit[c], lastServer'[c] = lastServer[c], Awaited(c, m)
      PROVE  Awaited(c, m)'
  <2>1. PICK t \in ServerLine : /\ lastServer[c] < t
                                /\ m.revisions = RevisionsFromTo(history, lastServer[c], t)
    BY <1>3 DEF Awaited, Extends
  <2>2. Line(history', t) = Line(history, t)
    BY <1>1, KnowledgeKept DEF GoesOn, Writes
  <2>3. m.revisions = RevisionsFromTo(history', lastServer[c], t)
    BY <2>1, <2>2 DEF RevisionsFromTo
  <2>4. t \in Line(history', current'[Server])
    BY DEF GoesOn
  <2>5. Extends(c, m.revisions)'
    BY <1>3, <2>1, <2>3, <2>4 DEF Extends, ServerLine
  <2> QED
    BY <1>3, <2>5 DEF Awaited
<1> QED
  BY <1>2, <1>3 DEF AnswerKnows

\* What is under way to and from client c after a step.
AnswersAfter(c) ==
  \A m \in AnswersTo(c)' : m \in AnswersTo(c) \/ AnswerKnows(history', m)

PushesAfter(c) ==
  \A p \in PushesTo(c)' : \/ p \in PushesTo(c) /\ lastServer'[c] = lastServer[c]
                          \/ p.lastRevisionSentByServer = lastServer'[c]

\* A push in transit is still under way, or its answer is.
DueAfter(c) ==
  inTransit'[c] # None =>
    \/ Due(c)'
    \/ /\ inTransit'[c] = inTransit[c] /\ lastServer'[c] = lastServer[c]
       /\ PushesTo(c) # {} => Due(c)'
       /\ \A m \in AnswersTo(c) : m \in AnswersTo(c)' \/ ~ Awaited(c, m)

(* Messages stay right if each of them does.                               *)
LEMMA MessagesKept ==
  ASSUME GoesOn, MessageInv, losses \in Nat,
         \A c \in Client : AnswersAfter(c) /\ PushesAfter(c),
         \/ losses' = losses /\ \A c \in Client : DueAfter(c)
         \/ losses' = losses + 1
  PROVE  MessageInv'
<1>1. AnswersKnow'
  <2>1. ASSUME NEW c \in Client, NEW m \in AnswersTo(c)'
        PROVE  AnswerKnows(history', m)
    <3>1. m \in AnswersTo(c) \/ AnswerKnows(history', m)
      BY DEF AnswersAfter
    <3>2. m \in AnswersTo(c) => AnswerKnows(history, m)
      BY DEF MessageInv, AnswersKnow
    <3> QED
      BY <3>1, <3>2, AnswerStays
  <2> QED
    BY <2>1 DEF AnswersKnow
<1>2. PushesFromLast'
  <2>1. ASSUME NEW c \in Client, NEW p \in PushesTo(c)'
        PROVE  p.lastRevisionSentByServer = lastServer'[c]
    BY <2>1 DEF MessageInv, PushesFromLast, PushesAfter
  <2> QED
    BY <2>1 DEF PushesFromLast
<1>3. AnswersDue'
  <2> SUFFICES ASSUME losses' = 0, NEW c \in Client, inTransit'[c] # None
               PROVE  Due(c)'
    BY DEF AnswersDue
  <2>1. losses = 0 /\ DueAfter(c)
    OBVIOUS
  <2> SUFFICES ASSUME inTransit'[c] = inTransit[c], lastServer'[c] = lastServer[c],
                      PushesTo(c) # {} => Due(c)',
                      \A m \in AnswersTo(c) : m \in AnswersTo(c)' \/ ~ Awaited(c, m)
               PROVE  Due(c)'
    BY <2>1 DEF DueAfter
  <2>2. Due(c)
    BY <2>1 DEF MessageInv, AnswersDue
  <2>3. ASSUME NEW m \in AnswersTo(c), Awaited(c, m)
        PROVE  Due(c)'
    <3>1. m \in AnswersTo(c)'
      BY <2>3
    <3>2. Awaited(c, m)'
      BY <2>3, AnswerStays
    <3> QED
      BY <3>1, <3>2 DEF Due
  <2> QED
    BY <2>2, <2>3 DEF Due
<1> QED
  BY <1>1, <1>2, <1>3 DEF MessageInv

(* After a step the branch of the server has what it had.                  *)
LEMMA StepGoesOn ==
  ASSUME SynchronizerInv, Preserved, Writes
  PROVE  GoesOn
<1>1. GoodHistory(history) /\ current[Server] \in 1..Len(history)
  BY ServerFacts
<1>2. GoodHistory(history') /\ current'[Server] \in 1..Len(history')
  BY LocatedNext DEF Preserved, Located
<1>3. Line(history', current[Server]) \subseteq Line(history', current'[Server])
  BY <1>2, LineOfAncestor DEF Preserved
<1>4. Line(history', current[Server]) = Line(history, current[Server])
  BY <1>1, KnowledgeKept DEF Writes
<1> QED
  BY <1>3, <1>4 DEF GoesOn, ServerLine

(* A push that arrives while the server is paused is not dropped.          *)
LEMMA QueueTakesPush ==
  ASSUME NEW q \in Seq(QueueRecord), NEW c \in Client, NEW m \in PushRecord, NEW d \in Client,
         NEW p, p = Append(q, Incoming(c, m)), NEW tc, NEW ts
  PROVE  /\ Answers(tc, q, d) \subseteq Answers(tc, p, d)
         /\ Pushes(ts, q, d) \subseteq Pushes(ts, p, d)
         /\ Pushes(ts, p, c) # {}
<1> DEFINE e == Incoming(c, m)
           n == Len(q) + 1
<1>1. e \in QueueRecord /\ e.type = "incoming" /\ e.client = c /\ e.message = m
  BY DEF Incoming, QueueRecord
<1>2. p = Append(q, e)
  OBVIOUS
<1> HIDE DEF e
<1>3. /\ p \in Seq(QueueRecord) /\ Len(p) = n
      /\ \A i \in 1..Len(q) : p[i] = q[i]
      /\ p[n] = e /\ Len(q) \in Nat
  BY <1>2, <1>1, AppendProperties, LenProperties
<1>4. \A i : i \in 1..Len(p) <=> (i \in 1..Len(q) \/ i = n)
  BY <1>3
<1>5. \A i \in Leaving(q, d) : i \in Leaving(p, d) /\ p[i] = q[i]
  BY <1>3, <1>4 DEF Leaving
<1>6. \A i \in Waiting(q, d) : i \in Waiting(p, d) /\ p[i] = q[i]
  BY <1>3, <1>4 DEF Waiting
<1>7. n \in Waiting(p, c)
  BY <1>1, <1>3, <1>4 DEF Waiting
<1> QED
  BY ZenonT(30), <1>5, <1>6, <1>7 DEF Answers, Pushes

(* What stays in the queue when its first message is taken out.            *)
LEMMA QueueTailKeeps ==
  ASSUME NEW q \in Seq(QueueRecord), q # << >>, NEW d \in Client, NEW ts, NEW tc
  PROVE  /\ ~ (Head(q).type = "incoming" /\ Head(q).client = d)
              => Pushes(ts, q, d) \subseteq Pushes(ts, Tail(q), d)
         /\ \A m \in Answers(tc, q, d) :
              \/ m \in Answers(tc, Tail(q), d)
              \/ Head(q).type = "outgoing" /\ Head(q).client = d /\ m = Head(q).message
<1> DEFINE p == Tail(q)
<1>1. /\ p \in Seq(QueueRecord) /\ Len(p) = Len(q) - 1
      /\ \A i \in 1..Len(p) : p[i] = q[i + 1]
      /\ Len(q) \in Nat \ {0} /\ Head(q) = q[1]
  BY HeadTailProperties, EmptySeq, LenProperties
<1> HIDE DEF p
<1>2. \A i \in 1..Len(q) : \/ i = 1
                           \/ i - 1 \in 1..Len(p) /\ p[i - 1] = q[i]
  <2> TAKE i \in 1..Len(q)
  <2>1. CASE i # 1
    <3>1. i - 1 \in 1..Len(p) /\ (i - 1) + 1 = i
      BY <1>1, <2>1
    <3> QED
      BY <1>1, <3>1
  <2> QED
    BY <2>1
<1>3. \A i \in Waiting(q, d) : \/ i = 1 /\ Head(q).type = "incoming" /\ Head(q).client = d
                               \/ i - 1 \in Waiting(p, d) /\ p[i - 1] = q[i]
  BY <1>1, <1>2 DEF Waiting
<1>4. \A i \in Leaving(q, d) :
        \/ i = 1 /\ Head(q).type = "outgoing" /\ Head(q).client = d /\ q[i] = Head(q)
        \/ i - 1 \in Leaving(p, d) /\ p[i - 1] = q[i]
  BY <1>1, <1>2 DEF Leaving
<1>5. ASSUME ~ (Head(q).type = "incoming" /\ Head(q).client = d)
      PROVE  Pushes(ts, q, d) \subseteq Pushes(ts, p, d)
  BY <1>3, <1>5 DEF Pushes
<1>6. \A m \in Answers(tc, q, d) :
        \/ m \in Answers(tc, p, d)
        \/ Head(q).type = "outgoing" /\ Head(q).client = d /\ m = Head(q).message
  BY <1>4 DEF Answers
<1> QED
  BY <1>5, <1>6 DEF p

-----------------------------------------------------------------------------
(* The invariant                                                           *)

\* What users did, counted.
Counted ==
  /\ edits \in Nat /\ losses \in Nat /\ paused \in BOOLEAN
  /\ inserted \subseteq 1..edits /\ removed \subseteq inserted

MergeInv == Counted /\ KnowledgeInv /\ MessageInv

\* A step about to be shown to keep the invariant.
Steps == SynchronizerInv /\ Preserved /\ MergeInv

\* No user did anything, and nothing was lost.
NoEvents == UNCHANGED <<edits, inserted, removed, losses>> /\ paused' \in BOOLEAN

(* What the parts of a step come to.                                       *)
LEMMA StepMerges ==
  ASSUME Steps, Counted', losses' = losses, KnowledgeInv', Writes,
         \A c \in Client : AnswersAfter(c) /\ PushesAfter(c) /\ DueAfter(c)
  PROVE  MergeInv'
<1>1. GoesOn
  BY StepGoesOn DEF Steps
<1>2. MessageInv'
  BY <1>1, MessagesKept DEF Steps, MergeInv, Counted
<1> QED
  BY <1>2 DEF MergeInv

(* A step that no user takes counts nothing.                               *)
LEMMA NothingCounted ==
  ASSUME Steps, NoEvents
  PROVE  Counted' /\ losses' = losses
  BY DEF Steps, MergeInv, Counted, NoEvents

\* The push of client c is answered with what the client lacks of the
\* branch, and the other clients of the server are told.
PushTold(c, q) ==
  LET t == inTransit[c]
      a == lastServer[c]
      cur == current'[Server]
  IN  /\ KnowledgeInv' /\ Writes /\ Covers(history', t, cur)
      /\ t \in 1..Len(history) /\ t \notin held[Server]
      /\ a \in ServerLine /\ a \in Nat /\ a < cur
      /\ GoodHistory(history') /\ cur \in 1..Len(history')
      /\ \E sent : /\ DOMAIN sent = DOMAIN lastSent \cup {c} /\ sent[c] = a
                   /\ \A d \in DOMAIN lastSent \ {c} : sent[d] = lastSent[d]
                   /\ AllTold(history', cur, sent, [client |-> c, revision |-> t], q)

(* A push that was handled is answered, and everybody is told.             *)
LEMMA PushIsTold ==
  ASSUME Steps, NoEvents, NEW c \in Client, NEW m, Pushed(c, m), NEW q \in Seq(QueueRecord),
         HandlePushedRevisions(c, m, q), UNCHANGED <<lastServer, inTransit>>
  PROVE  PushTold(c, q)
<1> DEFINE t == inTransit[c]
           a == lastServer[c]
           g == MergedHistory(t)
           rebased == (Len(history) + 1)..Len(g)
           cur == IF rebased = {} THEN t ELSE Len(g)
           sent == SentAfterPush(c, m)
           asked == [client |-> c, revision |-> t]
<1>1. SynchronizerInv /\ SynchronizerInv' /\ KnowledgeInv /\ UNCHANGED <<inserted, removed>>
  BY DEF Steps, Preserved, MergeInv, NoEvents
<1>2. /\ t \in 1..Len(history) /\ Max(m.revisions) = t
      /\ m.revisions \cap held[Server] = {} /\ a < t /\ a \in ServerLine
  BY <1>1, PushStarts
<1>3. KnowledgeInv' /\ Writes /\ Covers(history', t, current'[Server])
  BY <1>1, PushKnowledge
<1>4. KnowsBoth(g, cur, t, current[Server])
  BY <1>1, MergedKnows
<1>5. /\ history' = g /\ current' = [current EXCEPT ![Server] = cur]
      /\ NotifyClients(g, cur, sent, asked, q)
  <2> HIDE DEF g, sent
  <2> QED
    BY <1>2, Zenon DEF HandlePushedRevisions, g, sent
<1> HIDE DEF g, cur, rebased
<1>6. current'[Server] = cur
  BY <1>1, <1>5, ClientFacts DEF Types
<1>7. /\ DOMAIN sent \in SUBSET Client /\ IsFiniteSet(DOMAIN sent)
      /\ c \in DOMAIN sent /\ sent[c] = a
  <2>1. DOMAIN lastSent \in SUBSET Client /\ IsFiniteSet(DOMAIN lastSent)
    BY <1>1 DEF SynchronizerInv, Types
  <2>2. DOMAIN sent = DOMAIN lastSent \cup {c} /\ sent[c] = m.lastRevisionSentByServer
    BY DEF SentAfterPush, SentTo
  <2>3. IsFiniteSet(DOMAIN lastSent \cup {c})
    BY <2>1, FS_AddElement
  <2> HIDE DEF sent
  <2> QED
    BY <2>1, <2>2, <2>3 DEF Pushed
<1>8. GoodHistory(g) /\ cur \in 1..Len(g) /\ Len(g) >= Len(history) /\ Len(history) \in Nat
      /\ GoodHistory(history)
  BY <1>1, <1>4, <1>5, ServerFacts, LocatedNext DEF KnowsBoth, Located
<1>9. a < cur /\ a \in Nat /\ cur \in Nat
  <2>1. a \in 1..Len(history)
    BY <1>1, <1>2, ServerFacts
  <2>2. cur = t \/ cur = Len(g)
    BY DEF cur
  <2> QED
    BY <1>2, <1>8, <2>1, <2>2
<1>10. AllTold(g, cur, sent, asked, q)
  <2>1. failed' = {} /\ toClient \in [Client -> Seq(ClientRecord)]
    BY <1>1 DEF SynchronizerInv, Types
  <2>2. asked.revision \in Nat
    BY <1>2
  <2> HIDE DEF sent, asked
  <2> QED
    BY <1>5, <1>7, <1>8, <2>1, <2>2, NotifyClientsTells
<1>11. /\ DOMAIN sent = DOMAIN lastSent \cup {c} /\ sent[c] = a
       /\ \A d \in DOMAIN lastSent \ {c} : sent[d] = lastSent[d]
  BY <1>7 DEF SentAfterPush, SentTo
<1>12. t \notin held[Server]
  BY <1>1, PushStarts
<1> HIDE DEF sent
<1> QED
  BY <1>2, <1>3, <1>5, <1>6, <1>8, <1>9, <1>10, <1>11, <1>12 DEF PushTold

(* What is under way once a push was handled.                              *)
LEMMA HandlePushedMerges ==
  ASSUME Steps, NoEvents, NEW c \in Client, NEW m, Pushed(c, m), NEW q \in Seq(QueueRecord),
         HandlePushedRevisions(c, m, q), UNCHANGED <<lastServer, inTransit>>,
         \A d \in Client :
           /\ Pushes(toServer'[d], q, d) \subseteq PushesTo(d)
           /\ d # c => PushesTo(d) \subseteq Pushes(toServer'[d], q, d)
           /\ Answers(toClient[d], q, d) = AnswersTo(d)
  PROVE  MergeInv'
<1> DEFINE t == inTransit[c]
           a == lastServer[c]
           g == history'
           cur == current'[Server]
           asked == [client |-> c, revision |-> t]
<1>1. PushTold(c, q)
  BY PushIsTold
<1>2. PICK sent : /\ c \in DOMAIN sent /\ sent[c] = a
                  /\ AllTold(g, cur, sent, asked, q)
  BY <1>1 DEF PushTold
<1>3. KnowledgeInv' /\ Writes /\ Covers(history', t, cur)
  BY <1>1 DEF PushTold
<1>4. GoodHistory(g) /\ cur \in 1..Len(g)
  BY <1>1 DEF PushTold
<1>5. a < cur /\ a \in Nat /\ cur \in Nat
  BY <1>1, <1>4 DEF PushTold
<1>6. AllTold(g, cur, sent, asked, q) /\ lastServer' = lastServer
  BY <1>2
<1> HIDE DEF g, cur
<1>7. Lacks(sent, cur, c) /\ Told(g, cur, sent, asked, c) =
          ResponseMessage(RevisionsFromTo(g, a, cur), t)
  <2>1. asked.client = c /\ asked.revision = t
    OBVIOUS
  <2> HIDE DEF asked
  <2> QED
    BY <1>2, <1>5, <2>1 DEF Lacks, Told
<1>8. ASSUME NEW d \in Client
       PROVE  AnswersAfter(d) /\ PushesAfter(d) /\ DueAfter(d)
  <2>1. /\ \A ts : Pushes(ts, queue', d) = Pushes(ts, q, d)
        /\ AnswersTo(d) \subseteq AnswersTo(d)'
        /\ \A n \in AnswersTo(d)' :
             n \in AnswersTo(d) \/ n = Told(g, cur, sent, asked, d)
        /\ Lacks(sent, cur, d) => Told(g, cur, sent, asked, d) \in AnswersTo(d)'
    BY <1>6 DEF AllTold, AnswersTo
  <2>2. PushesTo(d)' \subseteq PushesTo(d) /\ (d # c => PushesTo(d)' = PushesTo(d))
    BY <2>1 DEF PushesTo
  <2>3. AnswerKnows(history', Told(g, cur, sent, asked, d))
    <3>1. CASE d = c
      <4>1. PICK n : n = ResponseMessage(RevisionsFromTo(g, a, cur), t)
        OBVIOUS
      <4>2. n.revisions = RevisionsFromTo(g, a, cur) /\ n.answers = t
        BY <4>1 DEF ResponseMessage
      <4>3. Max(n.revisions) = cur
        BY <1>4, <1>5, <4>2, TipOfRange
      <4>4. AnswerKnows(history', n)
        BY <1>3, <4>2, <4>3 DEF AnswerKnows, g, cur
      <4> QED
        BY <1>7, <3>1, <4>1, <4>4
    <3>2. CASE d # c
      <4>1. Told(g, cur, sent, asked, d).class = "push"
        BY <3>2 DEF Told, PushMessage
      <4> HIDE DEF asked
      <4> QED
        BY <4>1 DEF AnswerKnows
    <3> QED
      BY <3>1, <3>2
  <2> HIDE DEF asked
  <2>4. AnswersAfter(d)
    BY <2>1, <2>3 DEF AnswersAfter
  <2>5. PushesAfter(d)
    BY <2>2 DEF PushesAfter
  <2>6. DueAfter(d)
    <3>1. CASE d = c
      <4>1. PICK n : n = ResponseMessage(RevisionsFromTo(g, a, cur), t)
        OBVIOUS
      <4>2. n.class = "response" /\ n.revisions = RevisionsFromTo(g, a, cur) /\ n.answers = t
        BY <4>1 DEF ResponseMessage
      <4>3. cur \in Line(g, cur)
        BY <1>4 DEF GoodHistory
      <4>4. Extends(c, n.revisions)'
        BY <1>5, <1>6, <4>2, <4>3 DEF Extends, ServerLine, g, cur
      <4>5. Awaited(c, n)'
        BY <4>2, <4>4 DEF Awaited
      <4>6. n \in AnswersTo(c)'
        BY <1>7, <2>1, <3>1, <4>1
      <4> QED
        BY <3>1, <4>5, <4>6 DEF DueAfter, Due
    <3>2. CASE d # c
      BY <2>1, <2>2, <3>2 DEF DueAfter, Due
    <3> QED
      BY <3>1, <3>2
  <2> QED
    BY <2>4, <2>5, <2>6
<1> QED
  BY <1>3, <1>8, NothingCounted, StepMerges

-----------------------------------------------------------------------------
(* The server's actions                                                    *)

(* A client that joins is sent a setup, which answers nothing.             *)
LEMMA AddClientIDMerges ==
  ASSUME Steps, NEW c \in Client, AddClientID(c)
  PROVE  MergeInv'
<1>1. /\ UNCHANGED <<history, current, held, lastServer, inTransit, inserted, removed, toServer>>
      /\ NoEvents
      /\ SendToClients([d \in {c} |-> SetupMessage(current[Server])], queue)
  BY DEF AddClientID, clientVars, userVars, boundVars, NoEvents, Steps, MergeInv, Counted
<1>2. GoodHistory(history) /\ KnowledgeInv /\ current[Server] \in Nat
  BY ClientFacts, ServerFacts DEF Steps, MergeInv
<1>3. KnowledgeInv' /\ Writes
  BY <1>1, <1>2, NothingMovesKnowledge
<1> DEFINE msgs == [d \in {c} |-> SetupMessage(current[Server])]
<1>4. /\ DOMAIN msgs = {c} /\ IsFiniteSet({c})
      /\ msgs[c] = [class |-> "setup", revisions |-> {current[Server]}, answers |-> None]
  BY FS_Singleton DEF SetupMessage
<1>5. msgs[c] \in ClientRecord /\ msgs[c].class = "setup"
  <2> HIDE DEF msgs
  <2> QED
    BY <1>2, <1>4 DEF ClientRecord, None
<1>6. toClient \in [Client -> Seq(ClientRecord)] /\ queue \in Seq(QueueRecord)
  BY DEF Steps, SynchronizerInv, Types
<1>7. SendToClients(msgs, queue)
  BY <1>1
<1> HIDE DEF msgs
<1>8. /\ \A d \in Client : \A ts :
           /\ Pushes(ts, queue', d) = Pushes(ts, queue, d)
           /\ OnePush(ts, queue, d) => OnePush(ts, queue', d)
      /\ \A d \in Client : \A m \in Answers(toClient'[d], queue', d) :
           m \in Answers(toClient[d], queue, d) \/ (d \in DOMAIN msgs /\ m = msgs[d])
  BY <1>4, <1>5, <1>6, <1>7, SendToClientsSends
<1>9. AllSent(msgs, queue)
  BY <1>4, <1>5, <1>6, <1>7, SendToClientsSendsAll
<1>10. ASSUME NEW d \in Client
       PROVE  AnswersAfter(d) /\ PushesAfter(d) /\ DueAfter(d)
  <2>1. \A m \in AnswersTo(d)' : m \in AnswersTo(d) \/ m = msgs[c]
    BY <1>4, <1>8 DEF AnswersTo
  <2>2. AnswerKnows(history', msgs[c])
    BY <1>5 DEF AnswerKnows
  <2>3. PushesTo(d)' = PushesTo(d)
    BY <1>1, <1>8 DEF PushesTo
  <2>4. AnswersTo(d) \subseteq AnswersTo(d)'
    BY <1>9 DEF AllSent, AnswersTo
  <2> QED
    BY <1>1, <2>1, <2>2, <2>3, <2>4 DEF AnswersAfter, PushesAfter, DueAfter, Due
<1> QED
  BY <1>1, <1>3, <1>10, NothingCounted, StepMerges

(* A step that moves no message keeps what is under way.                   *)
LEMMA NothingMovesMerges ==
  ASSUME Steps, NoEvents,
         UNCHANGED <<history, current, held, lastServer, inTransit, toServer, toClient, queue>>
  PROVE  MergeInv'
<1>1. KnowledgeInv' /\ Writes
  BY ClientFacts, NothingMovesKnowledge, ServerFacts DEF Steps, MergeInv, NoEvents
<1>2. ASSUME NEW d \in Client
      PROVE  AnswersAfter(d) /\ PushesAfter(d) /\ DueAfter(d)
  BY DEF AnswersAfter, PushesAfter, DueAfter, Due, AnswersTo, PushesTo
<1> QED
  BY <1>1, <1>2, NothingCounted, StepMerges

\* What the queue has for client d when a push arrives, against before.
Arrives(ts, rest, q, p, d) ==
  /\ Pushes(rest, p, d) \subseteq Pushes(ts, q, d)
  /\ \A tc : Answers(tc, p, d) \subseteq Answers(tc, q, d)

(* A push that arrives while the server is paused is the one it was.       *)
LEMMA PushArrives ==
  ASSUME NEW q \in Seq(QueueRecord), NEW c \in Client, NEW m \in PushRecord, NEW d \in Client,
         NEW p, p = Append(q, Incoming(c, m)), NEW ts, NEW rest, OnePush(ts, q, d),
         IF d = c THEN ts = <<m>> /\ rest = << >> ELSE rest = ts
  PROVE  Arrives(ts, rest, q, p, d)
<1>1. \A tc : Answers(tc, p, d) \subseteq Answers(tc, q, d)
  BY QueueIncoming
<1>2. Pushes(rest, p, d) \subseteq Pushes(ts, q, d)
  BY QueueIncoming
<1> QED
  BY <1>1, <1>2 DEF Arrives

(* The server handles a push, or queues it while it is paused.             *)
LEMMA ServerReceivesMerges ==
  ASSUME Steps, NEW c \in Client, ServerReceives(c)
  PROVE  MergeInv'
<1> DEFINE m == Head(toServer[c])
<1>1. /\ UNCHANGED <<lastServer, inTransit>> /\ NoEvents
      /\ toServer[c] # << >> /\ toServer' = [toServer EXCEPT ![c] = Tail(@)]
      /\ \/ /\ paused /\ queue' = Append(queue, Incoming(c, m))
            /\ UNCHANGED <<history, current, held, toClient>>
         \/ ~ paused /\ HandlePushedRevisions(c, m, queue)
  BY DEF ServerReceives, userVars, boundVars, NoEvents, Steps, MergeInv, Counted
<1>2. SynchronizerInv /\ KnowledgeInv /\ queue \in Seq(QueueRecord)
  BY DEF Steps, MergeInv, SynchronizerInv, Types
<1>3. /\ m \in PushRecord /\ m \in PushesTo(c)
      /\ \A d \in Client \ {c} : toServer'[d] = toServer[d]
      /\ \A d \in Client : Pushes(toServer'[d], queue, d) \subseteq PushesTo(d)
  BY <1>1, <1>2, TakeFromClient DEF PushesTo
<1> HIDE DEF m
<1>4. CASE ~ paused /\ HandlePushedRevisions(c, m, queue)
  <2>1. Pushed(c, m)
    BY <1>3 DEF Pushed, PushesTo, Steps, MergeInv, MessageInv, PushesFromLast
  <2>2. \A d \in Client :
           /\ Pushes(toServer'[d], queue, d) \subseteq PushesTo(d)
           /\ d # c => PushesTo(d) \subseteq Pushes(toServer'[d], queue, d)
           /\ Answers(toClient[d], queue, d) = AnswersTo(d)
    BY <1>3 DEF PushesTo, AnswersTo
  <2> QED
    BY <1>1, <1>2, <1>4, <2>1, <2>2, HandlePushedMerges
<1>5. CASE paused /\ queue' = Append(queue, Incoming(c, m))
           /\ UNCHANGED <<history, current, held, toClient>>
  <2>1. KnowledgeInv' /\ Writes
    BY <1>1, <1>2, <1>5, NothingMovesKnowledge, ServerFacts DEF NoEvents
  <2>2. ASSUME NEW d \in Client
        PROVE  AnswersAfter(d) /\ PushesAfter(d) /\ DueAfter(d)
    <3>1. /\ toServer[c] = <<m>> /\ toServer'[c] = << >>
          /\ OnePush(toServer[d], queue, d)
      <4>1. /\ toServer[c] = <<Head(toServer[c])>> /\ toServer'[c] = << >>
        BY <1>1, <1>2, TakeFromClient
      <4>2. OnePush(toServer[d], queue, d)
        BY <1>2, ClientFacts
      <4> QED
        BY <4>1, <4>2 DEF m
    <3>0. PICK p : p = queue'
      OBVIOUS
    <3>2. Arrives(toServer[d], toServer'[d], queue, p, d)
      <4>1. p = Append(queue, Incoming(c, m)) /\ m \in PushRecord
        BY <1>3, <1>5, <3>0
      <4>2. IF d = c THEN toServer[d] = <<m>> /\ toServer'[d] = << >>
                     ELSE toServer'[d] = toServer[d]
        BY <1>3, <3>1
      <4> QED
        BY <1>2, <3>1, <4>1, <4>2, PushArrives
    <3>3. /\ Answers(toClient[d], queue, d) \subseteq Answers(toClient[d], p, d)
          /\ Pushes(toServer'[d], queue, d) \subseteq Pushes(toServer'[d], p, d)
          /\ Pushes(toServer'[d], p, c) # {}
      BY <1>2, <1>3, <1>5, <3>0, QueueTakesPush
    <3>4. AnswersTo(d)' = AnswersTo(d)
      <4>1. AnswersTo(d)' = Answers(toClient[d], p, d)
        BY <1>5, <3>0 DEF AnswersTo
      <4>2. Answers(toClient[d], p, d) \subseteq Answers(toClient[d], queue, d)
        BY <3>2 DEF Arrives
      <4> QED
        BY <3>3, <4>1, <4>2 DEF AnswersTo
    <3>5. PushesTo(d)' \subseteq PushesTo(d)
      BY <3>0, <3>2 DEF PushesTo, Arrives
    <3>6. PushesTo(d) # {} => PushesTo(d)' # {}
      BY <1>3, <3>0, <3>3 DEF PushesTo
    <3> QED
      BY <1>1, <3>4, <3>5, <3>6 DEF AnswersAfter, PushesAfter, DueAfter, Due
  <2> QED
    BY <1>1, <2>1, <2>2, NothingCounted, StepMerges
<1> QED
  BY <1>1, <1>4, <1>5

(* A server that is not paused any more takes a message from its queue.    *)
LEMMA ProcessQueuedMessageMerges ==
  ASSUME Steps, ProcessQueuedMessage
  PROVE  MergeInv'
<1> DEFINE e == Head(queue)
           q == Tail(queue)
<1>1. /\ UNCHANGED <<lastServer, inTransit, toServer>> /\ NoEvents /\ queue # << >>
      /\ \/ /\ e.type = "outgoing" /\ queue' = q
            /\ toClient' = [toClient EXCEPT ![e.client] = Append(@, e.message)]
            /\ UNCHANGED <<history, current, held>>
         \/ e.type = "incoming" /\ HandlePushedRevisions(e.client, e.message, q)
  BY DEF ProcessQueuedMessage, Draining, userVars, boundVars, clientVars, NoEvents, Steps, MergeInv,
         Counted
<1>2. /\ SynchronizerInv /\ KnowledgeInv /\ queue \in Seq(QueueRecord)
      /\ toClient \in [Client -> Seq(ClientRecord)]
      /\ \A d \in Client : OnePush(toServer[d], queue, d)
  BY DEF Steps, MergeInv, SynchronizerInv, Types, MessagesOK
<1>3. e \in QueueRecord /\ q \in Seq(QueueRecord)
  BY <1>1, <1>2, HeadTailProperties, EmptySeq
<1>4. e.client \in Client
  BY <1>3 DEF QueueRecord
<1>5. "incoming" # "outgoing"
  OBVIOUS
<1>6. ASSUME NEW d \in Client
      PROVE  /\ Pushes(toServer[d], q, d) \subseteq PushesTo(d)
             /\ Answers(toClient[d], q, d) \subseteq AnswersTo(d)
             /\ e.type = "incoming" /\ e.client = d =>
                  Pushes(toServer[d], q, d) = {} /\ e.message \in PushesTo(d)
             /\ e.type = "outgoing" /\ e.client = d => e.message \in AnswersTo(d)
  <2>1. OnePush(toServer[d], queue, d)
    BY <1>2
  <2> QED
    BY <1>1, <1>2, <2>1, QueueTail DEF PushesTo, AnswersTo
<1>7. ASSUME NEW d \in Client
      PROVE  /\ ~ (e.type = "incoming" /\ e.client = d)
                  => PushesTo(d) \subseteq Pushes(toServer[d], q, d)
             /\ \A m \in AnswersTo(d) :
                  \/ m \in Answers(toClient[d], q, d)
                  \/ e.type = "outgoing" /\ e.client = d /\ m = e.message
  BY <1>1, <1>2, QueueTailKeeps DEF PushesTo, AnswersTo
<1> HIDE DEF e, q
<1>8. CASE e.type = "incoming" /\ HandlePushedRevisions(e.client, e.message, q)
  <2>1. Pushed(e.client, e.message)
    <3>1. e.message \in PushesTo(e.client)
      BY <1>4, <1>6, <1>8
    <3> QED
      BY <1>4, <3>1 DEF Pushed, PushesTo, Steps, MergeInv, MessageInv, PushesFromLast
  <2>2. ASSUME NEW d \in Client
        PROVE  /\ Pushes(toServer'[d], q, d) \subseteq PushesTo(d)
               /\ d # e.client => PushesTo(d) \subseteq Pushes(toServer'[d], q, d)
               /\ Answers(toClient[d], q, d) = AnswersTo(d)
    <3>1. toServer'[d] = toServer[d]
      BY <1>1
    <3>2. Answers(toClient[d], q, d) = AnswersTo(d)
      BY <1>5, <1>6, <1>7, <1>8
    <3> QED
      BY <1>6, <1>7, <3>1, <3>2
  <2> QED
    BY <1>1, <1>3, <1>4, <1>8, <2>1, <2>2, HandlePushedMerges
<1>9. CASE /\ e.type = "outgoing" /\ queue' = q
           /\ toClient' = [toClient EXCEPT ![e.client] = Append(@, e.message)]
           /\ UNCHANGED <<history, current, held>>
  <2>1. KnowledgeInv' /\ Writes
    BY <1>1, <1>2, <1>9, NothingMovesKnowledge, ServerFacts DEF NoEvents
  <2>2. e.message \in ClientRecord
    BY <1>3, <1>5, <1>9 DEF QueueRecord
  <2>3. /\ \A d \in Client \ {e.client} : toClient'[d] = toClient[d]
        /\ toClient'[e.client] = Append(toClient[e.client], e.message)
    BY <1>2, <1>4, <1>9
  <2>4. ElementsOf(toClient'[e.client]) = ElementsOf(toClient[e.client]) \cup {e.message}
    <3>1. toClient[e.client] \in Seq(ClientRecord)
      BY <1>2, <1>4
    <3>2. /\ Len(toClient'[e.client]) = Len(toClient[e.client]) + 1
          /\ Len(toClient[e.client]) \in Nat
          /\ \A i \in 1..Len(toClient[e.client]) : toClient'[e.client][i] = toClient[e.client][i]
          /\ toClient'[e.client][Len(toClient[e.client]) + 1] = e.message
      BY <2>2, <2>3, <3>1, AppendProperties, LenProperties
    <3>3. \A i : i \in 1..Len(toClient'[e.client])
                   <=> i \in 1..Len(toClient[e.client]) \/ i = Len(toClient[e.client]) + 1
      BY <3>2
    <3> QED
      BY <3>2, <3>3 DEF ElementsOf
  <2>5. ASSUME NEW d \in Client
        PROVE  AnswersAfter(d) /\ PushesAfter(d) /\ DueAfter(d)
    <3>1. AnswersTo(d)' = AnswersTo(d)
      <4>1. CASE d = e.client
        <5>1. AnswersTo(d)' = Answers(toClient[d], q, d) \cup {e.message}
          BY <1>9, <2>4, <4>1 DEF AnswersTo, Answers
        <5> QED
          BY <1>6, <1>7, <1>9, <4>1, <5>1
      <4>2. CASE d # e.client
        <5>1. AnswersTo(d)' = Answers(toClient[d], q, d)
          BY <1>9, <2>3, <4>2 DEF AnswersTo
        <5> QED
          BY <1>6, <1>7, <4>2, <5>1
      <4> QED
        BY <4>1, <4>2
    <3>2. PushesTo(d)' = PushesTo(d)
      <4>1. PushesTo(d)' = Pushes(toServer[d], q, d)
        BY <1>1, <1>9 DEF PushesTo
      <4> QED
        BY <1>5, <1>6, <1>7, <1>9, <4>1
    <3> QED
      BY <1>1, <3>1, <3>2 DEF AnswersAfter, PushesAfter, DueAfter, Due
  <2> QED
    BY <1>1, <2>1, <2>5, NothingCounted, StepMerges
<1> QED
  BY <1>1, <1>8, <1>9

(* A client that is removed still has what it had under way.               *)
LEMMA RemoveClientIDMerges ==
  ASSUME Steps, NEW c \in Client, RemoveClientID(c)
  PROVE  MergeInv'
<1>1. UNCHANGED <<history, current, held, lastServer, inTransit, toServer, toClient, queue>>
  BY DEF RemoveClientID, clientVars
<1>2. NoEvents
  BY DEF RemoveClientID, userVars, NoEvents, Steps, MergeInv, Counted
<1> QED
  BY <1>1, <1>2, NothingMovesMerges

(* A message that is lost only takes away what is under way.               *)
LEMMA LoseMerges ==
  ASSUME Steps, NEW c \in Client, Lose(c)
  PROVE  MergeInv'
<1>1. /\ UNCHANGED <<history, current, held, lastServer, inTransit, queue, paused, edits,
                     inserted, removed>>
      /\ losses' = losses + 1
  BY DEF Lose, userVars
<1>2. SynchronizerInv /\ KnowledgeInv /\ Counted /\ MessageInv /\ Preserved
  BY DEF Steps, MergeInv
<1>3. KnowledgeInv' /\ Writes
  BY <1>1, <1>2, NothingMovesKnowledge, ServerFacts
<1>4. ASSUME NEW d \in Client
      PROVE  PushesTo(d)' \subseteq PushesTo(d) /\ AnswersTo(d)' \subseteq AnswersTo(d)
  <2>1. CASE /\ toServer[c] # << >>
             /\ toServer' = [toServer EXCEPT ![c] = Tail(@)]
             /\ toClient' = toClient
    <3>1. Pushes(toServer'[d], queue, d) \subseteq Pushes(toServer[d], queue, d)
      BY <1>2, <2>1, TakeFromClient
    <3> QED
      BY <1>1, <2>1, <3>1 DEF PushesTo, AnswersTo
  <2>2. CASE /\ toClient[c] # << >>
             /\ toClient' = [toClient EXCEPT ![c] = Tail(@)]
             /\ toServer' = toServer
    <3>1. toClient \in [Client -> Seq(ClientRecord)]
      BY <1>2 DEF SynchronizerInv, Types
    <3>2. ElementsOf(Tail(toClient[c])) \subseteq ElementsOf(toClient[c])
      BY <2>2, <3>1, TailOfMessages
    <3>3. toClient'[d] = IF d = c THEN Tail(toClient[c]) ELSE toClient[d]
      BY <2>2, <3>1
    <3> QED
      BY <1>1, <2>2, <3>2, <3>3 DEF PushesTo, AnswersTo, Answers
  <2> QED
    BY <2>1, <2>2 DEF Lose
<1>5. \A d \in Client : AnswersAfter(d) /\ PushesAfter(d)
  BY <1>1, <1>4 DEF AnswersAfter, PushesAfter
<1>6. MessageInv'
  <2>1. GoesOn
    BY <1>2, <1>3, StepGoesOn
  <2> QED
    BY <1>1, <1>2, <1>5, <2>1, MessagesKept DEF Counted
<1>7. Counted'
  BY <1>1, <1>2 DEF Counted
<1> QED
  BY <1>3, <1>6, <1>7 DEF MergeInv

(* The elements of a sequence one is appended to.                          *)
LEMMA AppendedElements ==
  ASSUME NEW X, NEW s \in Seq(X), NEW e \in X
  PROVE  ElementsOf(Append(s, e)) = ElementsOf(s) \cup {e}
<1>1. /\ Len(Append(s, e)) = Len(s) + 1 /\ Len(s) \in Nat
      /\ \A i \in 1..Len(s) : Append(s, e)[i] = s[i]
      /\ Append(s, e)[Len(s) + 1] = e
  BY AppendProperties, LenProperties
<1>2. \A i : i \in 1..Len(Append(s, e)) <=> i \in 1..Len(s) \/ i = Len(s) + 1
  BY <1>1
<1> QED
  BY <1>1, <1>2 DEF ElementsOf

(* The elements of a sequence are its first and the others.                *)
LEMMA HeadTailElements ==
  ASSUME NEW X, NEW s \in Seq(X), s # << >>
  PROVE  ElementsOf(s) = ElementsOf(Tail(s)) \cup {Head(s)}
<1>1. /\ Head(s) \in ElementsOf(s) /\ ElementsOf(Tail(s)) \subseteq ElementsOf(s)
  BY TailOfMessages
<1>2. /\ Head(s) = s[1] /\ Len(Tail(s)) = Len(s) - 1 /\ Len(s) \in Nat \ {0}
      /\ \A i \in 1..Len(Tail(s)) : Tail(s)[i] = s[i + 1]
  BY HeadTailProperties, EmptySeq, LenProperties
<1>3. ASSUME NEW i \in 1..Len(s)
      PROVE  s[i] \in ElementsOf(Tail(s)) \cup {Head(s)}
  <2>1. CASE i = 1
    BY <1>2, <2>1
  <2>2. CASE i # 1
    <3>1. i - 1 \in 1..Len(Tail(s)) /\ (i - 1) + 1 = i
      BY <1>2, <2>2
    <3>2. Tail(s)[i - 1] = s[i]
      BY <1>2, <3>1
    <3> QED
      BY <3>1, <3>2 DEF ElementsOf
  <2> QED
    BY <2>1, <2>2
<1>4. ElementsOf(s) \subseteq ElementsOf(Tail(s)) \cup {Head(s)}
  BY <1>3 DEF ElementsOf
<1> QED
  BY <1>1, <1>4

-----------------------------------------------------------------------------
(* The clients' actions                                                    *)

\* What a client that has the branch at cur, and knows the server to be at
\* last, has under way after -sendPushToServer.
PushQueued(c, cur, last, transit) ==
  LET old == Pushes(toServer[c], queue, c)
      now == Pushes(toServer'[c], queue, c)
  IN  /\ old \subseteq now
      /\ \A p \in now : p \in old \/ p.lastRevisionSentByServer = last
      /\ HasToPush(cur, last, transit) => now # {}
      /\ \A d \in Client \ {c} : toServer'[d] = toServer[d]

(* A push that is not sent changes nothing; one that is starts at last.    *)
LEMMA SendPushQueues ==
  ASSUME NEW c \in Client, NEW h, NEW cur, NEW last \in Nat, Line(h, cur) \in SUBSET Nat,
         NEW transit, SendPush(c, h, cur, last, transit), failed' = {},
         toServer \in [Client -> Seq(PushRecord)]
  PROVE  PushQueued(c, cur, last, transit)
<1>1. ~ Raise(c)
  BY DEF Raise
<1>2. CASE ~ HasToPush(cur, last, transit)
  <2>1. toServer' = toServer
    BY <1>2 DEF SendPush
  <2> QED
    BY <1>2, <2>1 DEF PushQueued
<1>3. CASE HasToPush(cur, last, transit)
  <2>1. PICK revs : revs = RevisionsFromTo(h, last, cur)
    OBVIOUS
  <2>2. PICK m : m = ClientMessage(revs, last)
    OBVIOUS
  <2>3. toServer' = [toServer EXCEPT ![c] = Append(@, m)]
    BY <1>1, <1>3, <2>1, <2>2 DEF SendPush
  <2>4. revs \in SUBSET Nat
    BY <2>1 DEF RevisionsFromTo
  <2>5. m \in PushRecord /\ m.lastRevisionSentByServer = last
    BY <2>2, <2>4 DEF PushRecord, ClientMessage
  <2>6. /\ toServer'[c] = Append(toServer[c], m) /\ toServer[c] \in Seq(PushRecord)
        /\ \A d \in Client \ {c} : toServer'[d] = toServer[d]
    BY <2>3
  <2>7. ElementsOf(toServer'[c]) = ElementsOf(toServer[c]) \cup {m}
    BY <2>5, <2>6, AppendedElements
  <2> QED
    BY <2>5, <2>6, <2>7 DEF PushQueued, Pushes
<1> QED
  BY <1>2, <1>3

\* What a client has after it took revisions of the server.
AppliedMarks(c, t) ==
  /\ inTransit'[c] = NowInTransit(current'[c], t, None) /\ lastServer'[c] = t
  /\ PushQueued(c, current'[c], t, None)
  /\ \A d \in Client \ {c} : lastServer'[d] = lastServer[d]
  /\ \A d \in Client \ {c} : inTransit'[d] = inTransit[d]

(* A client that took revisions of the server pushes what it has on top.   *)
LEMMA ApplyMarks ==
  ASSUME ClientActs, SynchronizerInv', NEW c \in Client, NEW t, NextFor(c, t), NEW used,
         ApplyRevisions(c, used, t)
  PROVE  AppliedMarks(c, t)
<1>1. /\ lastServer'[c] = t /\ inTransit'[c] = NowInTransit(current'[c], t, None)
      /\ \A d \in Client \ {c} : lastServer'[d] = lastServer[d] /\ inTransit'[d] = inTransit[d]
      /\ current'[c] # None
  BY ApplyKnows DEF AppliedKnows
<1>2. Types /\ failed' = {} /\ t \in Nat /\ c \in Site
  BY ClientFacts DEF ClientActs, NextFor, SynchronizerInv
<1>3. current'[c] \in 1..Len(history') /\ GoodHistory(history')
  BY <1>1, <1>2, LocatedNext DEF Located
<1>4. Line(history', current'[c]) \in SUBSET Nat
  BY <1>3 DEF GoodHistory
<1>5. SendPush(c, history', current'[c], t, None)
  BY <1>2 DEF ApplyRevisions, Types
<1>6. PushQueued(c, current'[c], t, None)
  BY <1>2, <1>4, <1>5, SendPushQueues DEF Types
<1> QED
  BY <1>1, <1>6 DEF AppliedMarks

(* A client takes a message: what is under way, and what it waits for.     *)
LEMMA ClientReceivesMerges ==
  ASSUME Steps, NEW c \in Client, ClientReceives(c)
  PROVE  MergeInv'
<1> DEFINE m == Head(toClient[c])
<1>1. /\ toClient[c] # << >> /\ toClient' = [toClient EXCEPT ![c] = Tail(@)]
      /\ \/ m.class = "setup" /\ HandleSetup(c, m)
         \/ m.class = "push" /\ HandlePush(c, m)
         \/ m.class = "response" /\ HandleResponse(c, m)
      /\ queue' = queue /\ NoEvents
  BY DEF ClientReceives, NoEvents, userVars, boundVars, Steps, MergeInv, Counted
<1>2. /\ SynchronizerInv /\ SynchronizerInv' /\ KnowledgeInv /\ MessageInv
      /\ Types /\ failed' = {} /\ ClientActs
  BY <1>1 DEF Steps, MergeInv, Preserved, SynchronizerInv, ClientActs, NoEvents
<1>3. /\ toClient[c] \in Seq(ClientRecord) /\ toClient' \in [Client -> Seq(ClientRecord)]
      /\ toClient'[c] = Tail(toClient[c])
      /\ \A d \in Client \ {c} : toClient'[d] = toClient[d]
  BY <1>1, <1>2 DEF Types, SynchronizerInv
<1>4. m \in AnswersTo(c)
  <2>1. m \in ElementsOf(toClient[c])
    BY <1>1, <1>3, TailOfMessages
  <2> QED
    BY <2>1 DEF AnswersTo, Answers
<1>5. /\ AnswersTo(c)' \subseteq AnswersTo(c)
      /\ \A n \in AnswersTo(c) : n \in AnswersTo(c)' \/ n = m
      /\ \A d \in Client \ {c} : AnswersTo(d)' = AnswersTo(d)
  <2>1. ElementsOf(toClient[c]) = ElementsOf(Tail(toClient[c])) \cup {m}
    BY <1>1, <1>3, HeadTailElements
  <2> QED
    BY <1>1, <1>3, <2>1 DEF AnswersTo, Answers
<1>6. AnswerOK(history, ServerLine, held[Server], m) /\ AnswerKnows(history, m)
  BY <1>2, <1>4 DEF MessagesOK, AnswersTo, SynchronizerInv, MessageInv, AnswersKnow
<1>7. ClientOK(history, ServerLine, held[Server], held[c], current[c], lastServer[c],
               inTransit[c])
  BY <1>2, ClientFacts
<1>8. "setup" # "push" /\ "setup" # "response" /\ "push" # "response"
  OBVIOUS
<1> HIDE DEF m
<1> DEFINE Result == /\ KnowledgeInv' /\ Writes
                     /\ PushesAfter(c) /\ DueAfter(c)
                     /\ \A d \in Client \ {c} : toServer'[d] = toServer[d]
                     /\ \A d \in Client \ {c} : lastServer'[d] = lastServer[d]
                     /\ \A d \in Client \ {c} : inTransit'[d] = inTransit[d]
<1>9. ASSUME UNCHANGED <<history, current, held, clientVars>>,
             inTransit[c] # None => ~ Awaited(c, m)
      PROVE  Result
  <2>1. UNCHANGED <<history, current, held, lastServer, inTransit, toServer>>
    BY <1>9 DEF clientVars
  <2>2. KnowledgeInv' /\ Writes
    BY <1>1, <1>2, <2>1, NothingMovesKnowledge, ServerFacts DEF NoEvents
  <2>3. PushesTo(c)' = PushesTo(c)
    BY <1>1, <2>1 DEF PushesTo
  <2>4. PushesAfter(c)
    BY <2>1, <2>3 DEF PushesAfter
  <2>5. DueAfter(c)
    BY <1>5, <1>9, <2>1, <2>3 DEF DueAfter, Due
  <2> QED
    BY <2>1, <2>2, <2>4, <2>5
<1>10. ASSUME PushesTo(c) = {}, inTransit'[c] = None, UNCHANGED toServer
       PROVE  PushesAfter(c) /\ DueAfter(c)
  <2>1. PushesTo(c)' = {}
    BY <1>1, <1>10 DEF PushesTo
  <2> QED
    BY <1>10, <2>1 DEF PushesAfter, DueAfter
<1>11. ASSUME m.class = "setup", HandleSetup(c, m)
       PROVE  Result
  <2>1. CASE current[c] # None
    BY <1>8, <1>9, <1>11, <2>1 DEF HandleSetup, Awaited
  <2>2. CASE current[c] = None
    <3>1. inTransit[c] = None
      BY <1>7, <2>2 DEF ClientOK
    <3>2. PushesTo(c) = {}
      BY <1>2, <3>1, ClientFacts DEF PushOK, PushesTo
    <3>3. /\ UNCHANGED <<inTransit, toServer>>
          /\ lastServer' = [lastServer EXCEPT ![c] = Max(m.revisions)]
      BY <1>11, <2>2 DEF HandleSetup
    <3>4. \A d \in Client \ {c} : lastServer'[d] = lastServer[d]
      BY <1>2, <3>3 DEF Types
    <3>5. KnowledgeInv' /\ Writes
      BY <1>2, <1>6, <1>11, SetupKnowledge
    <3>6. PushesAfter(c) /\ DueAfter(c)
      BY <1>10, <3>1, <3>2, <3>3
    <3> QED
      BY <3>3, <3>4, <3>5, <3>6
  <2> QED
    BY <2>1, <2>2
<1>12. ASSUME Heeded(c, m), HandleRevisions(c, m.revisions)
       PROVE  Result
  <2>1. PICK t : t = Max(m.revisions)
    OBVIOUS
  <2>2. PushesTo(c) = {} /\ (Settles(c, t) \/ Ignores(c, m.revisions) \/ Takes(c, t))
    BY <1>2, <1>12, <2>1, HandleRevisionsCases DEF PushesTo
  <2>3. KnowledgeInv' /\ Writes
    BY <1>2, <1>12, HandleRevisionsKnowledge
  <2>4. CASE Settles(c, t)
    <3>1. /\ lastServer' = [lastServer EXCEPT ![c] = t]
          /\ inTransit' = [inTransit EXCEPT ![c] = None]
          /\ UNCHANGED toServer
      BY <2>4 DEF Settles
    <3>2. /\ inTransit'[c] = None
          /\ \A d \in Client \ {c} : lastServer'[d] = lastServer[d] /\ inTransit'[d] = inTransit[d]
      BY <1>2, <3>1 DEF Types
    <3> QED
      BY <1>10, <2>2, <2>3, <3>1, <3>2
  <2>5. CASE Ignores(c, m.revisions)
    <3>1. inTransit[c] # None => lastServer[c] # None
      BY <1>7 DEF ClientOK
    <3>2. inTransit[c] # None => ~ Awaited(c, m)
      BY <2>5, <3>1 DEF Ignores, Awaited
    <3> QED
      BY <1>9, <2>5, <3>2 DEF Ignores
  <2>6. CASE Takes(c, t)
    <3>1. AppliedMarks(c, t)
      BY <1>2, <2>6, ApplyMarks DEF Takes
    <3>2. /\ inTransit'[c] = NowInTransit(current'[c], t, None) /\ lastServer'[c] = t
          /\ PushQueued(c, current'[c], t, None)
          /\ \A d \in Client \ {c} : lastServer'[d] = lastServer[d]
          /\ \A d \in Client \ {c} : inTransit'[d] = inTransit[d]
      BY <3>1 DEF AppliedMarks
    <3>3. PushesTo(c)' = Pushes(toServer'[c], queue, c)
      BY <1>1 DEF PushesTo
    <3>4. PushesAfter(c)
      BY <2>2, <3>2, <3>3 DEF PushesAfter, PushQueued, PushesTo
    <3>5. DueAfter(c)
      BY <3>2, <3>3 DEF DueAfter, Due, PushQueued, NowInTransit
    <3> QED
      BY <2>3, <3>2, <3>4, <3>5 DEF PushQueued
  <2> QED
    BY <2>2, <2>4, <2>5, <2>6
<1>13. ASSUME m.class = "push", HandlePush(c, m)
       PROVE  Result
  <2>1. CASE inTransit[c] # None
    BY <1>8, <1>9, <1>13, <2>1 DEF HandlePush, Awaited
  <2>2. CASE inTransit[c] = None
    BY <1>6, <1>8, <1>12, <1>13, <2>2 DEF HandlePush, Heeded
  <2> QED
    BY <2>1, <2>2
<1>14. ASSUME m.class = "response", HandleResponse(c, m)
       PROVE  Result
  <2>1. CASE m.answers # inTransit[c]
    BY <1>9, <1>14, <2>1 DEF HandleResponse, Awaited
  <2>2. CASE m.answers = inTransit[c]
    BY <1>6, <1>8, <1>12, <1>14, <2>2 DEF HandleResponse, Heeded, AnswerKnows
  <2> QED
    BY <2>1, <2>2
<1>15. Result
  BY <1>1, <1>11, <1>13, <1>14
<1>16. ASSUME NEW d \in Client
       PROVE  AnswersAfter(d) /\ PushesAfter(d) /\ DueAfter(d)
  <2>1. CASE d = c
    <3>1. AnswersAfter(c)
      BY <1>5 DEF AnswersAfter
    <3> QED
      BY <1>15, <2>1, <3>1
  <2>2. CASE d # c
    <3>1. AnswersTo(d)' = AnswersTo(d) /\ lastServer'[d] = lastServer[d] /\ inTransit'[d] = inTransit[d]
      BY <1>5, <1>15, <2>2
    <3>2. PushesTo(d)' = PushesTo(d)
      BY <1>1, <1>15, <2>2 DEF PushesTo
    <3> QED
      BY <3>1, <3>2 DEF AnswersAfter, PushesAfter, DueAfter, Due
  <2> QED
    BY <2>1, <2>2
<1> HIDE DEF Result
<1>17. KnowledgeInv' /\ Writes
  BY <1>15 DEF Result
<1> QED
  BY <1>1, <1>16, <1>17, NothingCounted, StepMerges

-----------------------------------------------------------------------------
(* The users' commits                                                      *)

\* A user does something, and nothing is lost.
OneEdit == edits' = edits + 1 /\ losses' = losses /\ paused' = paused

(* What users did stays counted.                                           *)
LEMMA EditCounts ==
  ASSUME Steps, NEW s \in Site, NEW items, UserCommits(s, items)
  PROVE  Counted' /\ OneEdit
<1>1. /\ edits \in Nat /\ losses \in Nat /\ paused \in BOOLEAN
      /\ inserted \subseteq 1..edits /\ removed \subseteq inserted
  BY DEF Steps, MergeInv, Counted
<1>2. edits' = edits + 1 /\ losses' = losses /\ paused' = paused
  BY DEF UserCommits, WriteRevision, DidCommit, boundVars
<1>3. GoodHistory(history) /\ current[s] \in 1..Len(history)
  <2>1. Located
    BY LocatedNow DEF Steps
  <2> QED
    BY <2>1 DEF Located, UserCommits, WriteRevision, Site
<1>4. history[current[s]].items \subseteq inserted
  BY <1>3, ItemsKnown DEF Steps, MergeInv, KnowledgeInv, RevisionsKnow
<1>5. inserted' \subseteq 1..edits' /\ removed' \subseteq inserted'
  <2>1. UserEdits(current[s], items)
    BY DEF UserCommits
  <2>2. edits + 1 \in 1..(edits + 1) /\ 1..edits \subseteq 1..(edits + 1)
    BY <1>1
  <2> QED
    BY <1>1, <1>2, <1>4, <2>1, <2>2 DEF UserEdits
<1>6. edits' \in Nat /\ losses' \in Nat /\ paused' \in BOOLEAN
  BY <1>1, <1>2
<1> QED
  BY <1>2, <1>5, <1>6 DEF Counted, OneEdit

(* What the parts of a commit come to.                                     *)
LEMMA CommitMerges ==
  ASSUME Steps, NEW s \in Site, NEW items, UserCommits(s, items), KnowledgeInv', Writes,
         \A c \in Client : AnswersAfter(c) /\ PushesAfter(c) /\ DueAfter(c)
  PROVE  MergeInv'
<1>1. Counted' /\ OneEdit
  BY EditCounts
<1>2. GoesOn
  BY StepGoesOn DEF Steps
<1>3. MessageInv'
  BY <1>1, <1>2, MessagesKept DEF Steps, MergeInv, Counted, OneEdit
<1> QED
  BY <1>1, <1>3 DEF MergeInv

(* A commit of the server's user is pushed to its clients.                 *)
LEMMA ServerCommitMerges ==
  ASSUME Steps, NEW items, UserCommits(Server, items)
  PROVE  MergeInv'
<1>1. /\ SynchronizerInv /\ SynchronizerInv' /\ KnowledgeInv
      /\ edits \in Nat /\ inserted \subseteq 1..edits /\ Server \in Site
  BY DEF Steps, MergeInv, Preserved, Counted, Site
<1>2. KnowledgeInv' /\ Writes
  BY <1>1, ServerCommitKnowledge
<1>3. /\ NotifyClients(history', current'[Server], lastSent, responding, queue)
      /\ UNCHANGED <<lastServer, inTransit, toServer>>
  BY DEF UserCommits, DidCommit, clientVars
<1>4. AllTold(history', current'[Server], lastSent, Nobody, queue)
  <2>1. /\ DOMAIN lastSent \in SUBSET Client /\ IsFiniteSet(DOMAIN lastSent)
        /\ queue \in Seq(QueueRecord) /\ toClient \in [Client -> Seq(ClientRecord)]
        /\ responding = Nobody /\ failed' = {}
    BY <1>1 DEF SynchronizerInv, Types, ServerOK
  <2>2. GoodHistory(history') /\ current'[Server] \in 1..Len(history')
    BY <1>1, LocatedNext DEF Located
  <2> QED
    BY <1>3, <2>1, <2>2, NotifyClientsTells
<1>5. ASSUME NEW c \in Client
      PROVE  AnswersAfter(c) /\ PushesAfter(c) /\ DueAfter(c)
  <2>1. PICK m : m = Told(history', current'[Server], lastSent, Nobody, c)
    OBVIOUS
  <2>2. /\ \A ts : Pushes(ts, queue', c) = Pushes(ts, queue, c)
        /\ AnswersTo(c) \subseteq AnswersTo(c)'
        /\ \A n \in AnswersTo(c)' : n \in AnswersTo(c) \/ n = m
    BY <1>4, <2>1 DEF AllTold, AnswersTo
  <2>3. m.class = "push"
    <3>1. Nobody.client # c
      BY SynchronizerAssumption DEF Nobody
    <3> QED
      BY <2>1, <3>1 DEF Told, PushMessage
  <2>4. AnswerKnows(history', m)
    BY <2>3 DEF AnswerKnows
  <2>5. PushesTo(c)' = PushesTo(c)
    BY <1>3, <2>2 DEF PushesTo
  <2> QED
    BY <1>3, <2>2, <2>4, <2>5 DEF AnswersAfter, PushesAfter, DueAfter, Due
<1> QED
  BY <1>1, <1>2, <1>5, CommitMerges

(* A commit of a client's user is pushed, or waits for an answer.          *)
LEMMA ClientCommitMerges ==
  ASSUME Steps, NEW c \in Client, NEW items, UserCommits(c, items)
  PROVE  MergeInv'
<1>1. /\ SynchronizerInv /\ SynchronizerInv' /\ KnowledgeInv /\ Types
      /\ edits \in Nat /\ inserted \subseteq 1..edits /\ c \in Site /\ c # Server
  BY ClientFacts DEF Steps, MergeInv, Preserved, Counted
<1>2. KnowledgeInv' /\ Writes
  BY <1>1, ClientCommitKnowledge
<1>3. /\ SendPush(c, history', current'[c], lastServer[c], inTransit[c])
      /\ UNCHANGED <<lastServer, toClient, queue>>
  BY <1>1 DEF UserCommits, DidCommit, serverVars
<1>4. failed' = {} /\ lastServer[c] \in Nat
      /\ inTransit \in [Client -> Nat] /\ toServer \in [Client -> Seq(PushRecord)]
  BY <1>1 DEF SynchronizerInv, Types
<1>5. Line(history', current'[c]) \in SUBSET Nat
  <2>1. current'[c] = Len(history) + 1 /\ GoodHistory(history)
    BY <1>1, ServerFacts DEF UserCommits, WriteRevision, Types
  <2>2. current'[c] # None
    BY <2>1 DEF GoodHistory, None
  <2>3. Located'
    BY <1>1, LocatedNext
  <2> QED
    BY <2>2, <2>3 DEF Located, GoodHistory
<1>6. PushQueued(c, current'[c], lastServer[c], inTransit[c])
  BY <1>3, <1>4, <1>5, SendPushQueues
<1>7. /\ inTransit'[c] = NowInTransit(current'[c], lastServer[c], inTransit[c])
      /\ \A d \in Client \ {c} : inTransit'[d] = inTransit[d]
  BY <1>3, <1>4, SendPushMarks
<1>8. ASSUME NEW d \in Client
      PROVE  AnswersAfter(d) /\ PushesAfter(d) /\ DueAfter(d)
  <2>1. AnswersTo(d)' = AnswersTo(d)
    BY <1>3 DEF AnswersTo
  <2>2. CASE d = c
    <3>1. PushesTo(c)' = Pushes(toServer'[c], queue, c)
      BY <1>3 DEF PushesTo
    <3>2. PushesAfter(c)
      BY <1>3, <1>6, <3>1 DEF PushesAfter, PushQueued, PushesTo
    <3>3. DueAfter(c)
      <4>1. CASE HasToPush(current'[c], lastServer[c], inTransit[c])
        BY <1>6, <3>1, <4>1 DEF DueAfter, Due, PushQueued
      <4>2. CASE ~ HasToPush(current'[c], lastServer[c], inTransit[c])
        <5>1. inTransit'[c] = inTransit[c] /\ lastServer'[c] = lastServer[c]
          BY <1>3, <1>7, <4>2 DEF NowInTransit
        <5>2. PushesTo(c) \subseteq PushesTo(c)'
          BY <1>6, <3>1 DEF PushQueued, PushesTo
        <5> QED
          BY <2>1, <2>2, <5>1, <5>2 DEF DueAfter, Due
      <4> QED
        BY <4>1, <4>2
    <3> QED
      BY <2>1, <2>2, <3>2, <3>3 DEF AnswersAfter
  <2>3. CASE d # c
    <3>1. PushesTo(d)' = PushesTo(d) /\ lastServer'[d] = lastServer[d] /\ inTransit'[d] = inTransit[d]
      BY <1>3, <1>6, <1>7, <2>3 DEF PushesTo, PushQueued
    <3> QED
      BY <2>1, <3>1 DEF AnswersAfter, PushesAfter, DueAfter, Due
  <2> QED
    BY <2>2, <2>3
<1> QED
  BY <1>1, <1>2, <1>8, CommitMerges

(* A user who adds an item, or removes one, commits.                       *)
LEMMA EditsCommit ==
  ASSUME NEW s \in Site, InsertItem(s) \/ RemoveItem(s)
  PROVE  \E items : UserCommits(s, items)
<1>1. CASE InsertItem(s)
  <2>1. PICK items : items = history[current[s]].items \cup {edits + 1}
    OBVIOUS
  <2>2. WriteRevision(s, items) /\ DidCommit(s) /\ UserEdits(current[s], items)
    BY <1>1, <2>1 DEF InsertItem, UserEdits
  <2> QED
    BY <2>2 DEF UserCommits
<1>2. CASE RemoveItem(s)
  <2>1. PICK x \in history[current[s]].items :
          /\ WriteRevision(s, history[current[s]].items \ {x})
          /\ removed' = removed \cup {x}
    BY <1>2 DEF RemoveItem
  <2>2. PICK items : items = history[current[s]].items \ {x}
    OBVIOUS
  <2>3. WriteRevision(s, items) /\ DidCommit(s) /\ UserEdits(current[s], items)
    BY <1>2, <2>1, <2>2 DEF RemoveItem, UserEdits
  <2> QED
    BY <2>3 DEF UserCommits
<1> QED
  BY <1>1, <1>2

-----------------------------------------------------------------------------
(* The results                                                             *)

(* At first nobody knows anything, and nothing is under way.               *)
LEMMA InitMerges == Init => MergeInv
<1> SUFFICES ASSUME Init PROVE MergeInv
  OBVIOUS
<1>1. /\ history = <<[line |-> {1}, items |-> {}]>>
      /\ current = [s \in Site |-> IF s = Server THEN 1 ELSE None]
      /\ inTransit = [c \in Client |-> None]
      /\ toServer = [c \in Client |-> << >>] /\ toClient = [c \in Client |-> << >>]
      /\ queue = << >>
      /\ edits = 0 /\ losses = 0 /\ inserted = {} /\ removed = {}
  BY DEF Init
<1>2. Counted
  <2>1. paused \in BOOLEAN
    BY Zenon DEF Init
  <2> QED
    BY <1>1, <2>1 DEF Counted
<1>3. KnowledgeInv
  <2>1. Len(history) = 1 /\ 1..1 = {1} /\ Line(history, 1) = {1} /\ history[1].items = {}
    BY <1>1 DEF Line
  <2>2. Seen(history, 1) = {} /\ Gone(history, 1) = {}
    BY <2>1 DEF Seen, Gone
  <2>3. \A c \in Client : current[c] = None
    BY <1>1, SynchronizerAssumption DEF Site
  <2>4. RevisionsKnow
    BY <2>1, <2>2 DEF RevisionsKnow, Remembers, Covers
  <2>5. BasesKnown /\ ClientsApart
    BY <2>3 DEF BasesKnown, ClientsApart
  <2>6. NothingForgotten
    BY <1>1 DEF NothingForgotten
  <2> QED
    BY <2>4, <2>5, <2>6 DEF KnowledgeInv
<1>4. MessageInv
  <2>1. Len(<< >>) = 0 /\ 1..0 = {}
    OBVIOUS
  <2>2. \A c \in Client : Waiting(queue, c) = {} /\ Leaving(queue, c) = {}
    BY <1>1, <2>1 DEF Waiting, Leaving
  <2>3. ElementsOf(<< >>) = {}
    BY <2>1 DEF ElementsOf
  <2>4. \A c \in Client : PushesTo(c) = {} /\ AnswersTo(c) = {}
    BY <1>1, <2>2, <2>3 DEF PushesTo, AnswersTo, Pushes, Answers
  <2> QED
    BY <1>1, <2>4 DEF MessageInv, AnswersKnow, PushesFromLast, AnswersDue
<1> QED
  BY <1>2, <1>3, <1>4 DEF MergeInv

(* Every action keeps what sites know, and what is under way.              *)
LEMMA NextMerges ==
  ASSUME SynchronizerInv, MergeInv, [Next]_vars
  PROVE  MergeInv'
<1>1. Steps
  BY NextInv DEF Steps
<1>2. ASSUME NEW c \in Client,
             AddClientID(c) \/ RemoveClientID(c) \/ ServerReceives(c)
               \/ ClientReceives(c) \/ Lose(c)
      PROVE  MergeInv'
  BY <1>1, <1>2, AddClientIDMerges, RemoveClientIDMerges, ServerReceivesMerges,
     ClientReceivesMerges, LoseMerges
<1>3. CASE Pause \/ Unpause \/ UNCHANGED vars
  <2>1. UNCHANGED <<history, current, held, lastServer, inTransit, toServer, toClient, queue>>
    BY <1>3 DEF Pause, Unpause, vars, clientVars, serverVars
  <2>2. NoEvents
    BY <1>1, <1>3 DEF Pause, Unpause, vars, userVars, boundVars, NoEvents, Steps, MergeInv, Counted
  <2> QED
    BY <1>1, <2>1, <2>2, NothingMovesMerges
<1>4. CASE ProcessQueuedMessage
  BY <1>1, <1>4, ProcessQueuedMessageMerges
<1>5. ASSUME NEW s \in Site, InsertItem(s) \/ RemoveItem(s)
      PROVE  MergeInv'
  <2>1. PICK items : UserCommits(s, items)
    BY <1>5, EditsCommit
  <2>2. s = Server \/ s \in Client
    BY DEF Site
  <2> QED
    BY <1>1, <2>1, <2>2, ServerCommitMerges, ClientCommitMerges
<1> QED
  BY <1>2, <1>3, <1>4, <1>5 DEF Next

(* What sites know stays true: a rebase brings nothing back and drops      *)
(* nothing, sites only share what went through the server, and as long as  *)
(* nothing is lost every push in transit is still to be answered (-merge   *)
(* of COSynchronizerUtils, -handleRevisions:from...,                       *)
(* -handlePushedRevisions:from...).                                        *)
THEOREM SynchronizerMerges == Spec => []MergeInv
<1>1. SynchronizerInv /\ MergeInv /\ [Next]_vars => MergeInv'
  BY NextMerges
<1> QED
  BY <1>1, InitMerges, SynchronizerCorrect, PTL DEF Spec

(* Revisions, sites and messages have the shapes the code gives them, and  *)
(* no answer is owed once a handler is over.                               *)
THEOREM SynchronizerTypes == Spec => []TypeOK
<1>1. SynchronizerInv /\ MergeInv => TypeOK
  <2> SUFFICES ASSUME SynchronizerInv, MergeInv PROVE TypeOK
    OBVIOUS
  <2>1. /\ Types /\ ServerOK /\ GoodHistory(history) /\ Located /\ Counted
        /\ held[Server] \in SUBSET Revision /\ ServerLine \in SUBSET Revision /\ failed = {}
    BY ServerFacts, LocatedNow DEF MergeInv, Revision, SynchronizerInv
  <2>2. ASSUME NEW r \in Revision
        PROVE  /\ history[r].line \subseteq 1..r
               /\ {1, r} \subseteq history[r].line
               /\ history[r].items \subseteq inserted
    <3>1. /\ Line(history, r) \subseteq 1..r
          /\ 1 \in Line(history, r) /\ r \in Line(history, r)
      BY <2>1 DEF GoodHistory, Revision
    <3>2. history[r].items \subseteq inserted
      BY <2>1, ItemsKnown DEF Revision, MergeInv, KnowledgeInv, RevisionsKnow
    <3> QED
      BY <3>1, <3>2 DEF Line
  <2>3. ASSUME NEW c \in Client
        PROVE  /\ current[c] \in Revision \cup {None} /\ held[c] \in SUBSET Revision
               /\ lastServer[c] \in Revision \cup {None}
               /\ inTransit[c] \in Revision \cup {None}
    <3>1. /\ ClientOK(history, ServerLine, held[Server], held[c], current[c], lastServer[c],
                      inTransit[c])
          /\ held[c] \in SUBSET Revision
      BY ClientFacts DEF Revision
    <3> QED
      BY <3>1 DEF ClientOK
  <2>4. current \in [Site -> Revision \cup {None}] /\ held \in [Site -> SUBSET Revision]
    <3>1. current[Server] \in Revision
      BY <2>1 DEF Located, Revision
    <3> QED
      BY <2>1, <2>3, <3>1 DEF Types, Site
  <2>5. {lastServer, inTransit} \subseteq [Client -> Revision \cup {None}]
    <3>1. lastServer \in [Client -> Nat] /\ inTransit \in [Client -> Nat]
      BY <2>1 DEF Types
    <3>2. lastServer \in [Client -> Revision \cup {None}]
      BY <2>3, <3>1
    <3>3. inTransit \in [Client -> Revision \cup {None}]
      BY <2>3, <3>1
    <3> QED
      BY <3>2, <3>3
  <2>6. DOMAIN lastSent \subseteq Client /\ \A c \in DOMAIN lastSent : lastSent[c] \in Revision
    BY <2>1 DEF Types, ServerOK
  <2> QED
    BY <2>1, <2>2, <2>4, <2>5, <2>6 DEF TypeOK, ServerOK, Counted
<1> QED
  BY <1>1, SynchronizerCorrect, SynchronizerMerges, PTL

(* Once everything is handled no client waits for an answer.               *)
LEMMA NothingDue ==
  ASSUME Quiescent, AnswersDue, losses = 0, NEW c \in Client
  PROVE  inTransit[c] = None
<1>1. Len(<< >>) = 0 /\ 1..0 = {}
  OBVIOUS
<1>2. Waiting(queue, c) = {} /\ Leaving(queue, c) = {}
  BY <1>1 DEF Waiting, Leaving, Quiescent
<1>3. ElementsOf(<< >>) = {}
  BY <1>1 DEF ElementsOf
<1>4. PushesTo(c) = {} /\ AnswersTo(c) = {}
  BY <1>2, <1>3 DEF PushesTo, AnswersTo, Pushes, Answers, Quiescent
<1>5. ~ Due(c)
  BY <1>4 DEF Due
<1> QED
  BY <1>5 DEF AnswersDue

(* When every message is handled and none was lost, the server's branch    *)
(* has what users inserted less what they removed: no rebase loses an edit *)
(* or brings back what somebody removed, whoever commits when.             *)
THEOREM EditsAlwaysMerge == Spec => []EditsMerged
<1>1. SynchronizerInv /\ MergeInv => EditsMerged
  <2> SUFFICES ASSUME SynchronizerInv, MergeInv, Quiescent, losses = 0
               PROVE  history[current[Server]].items = inserted \ removed
    BY DEF EditsMerged
  <2> DEFINE r == current[Server]
  <2>1. GoodHistory(history) /\ r \in 1..Len(history) /\ RevisionsKnow /\ NothingForgotten
    BY ServerFacts DEF MergeInv, KnowledgeInv
  <2>2. ASSUME NEW s \in Site, current[s] # None
        PROVE  Covers(history, current[s], r)
    <3>1. CASE s = Server
      BY <3>1 DEF Covers
    <3>2. CASE s \in Client
      <4>1. inTransit[s] = None
        BY <3>2, NothingDue DEF MergeInv, MessageInv
      <4>2. ClientOK(history, ServerLine, held[Server], held[s], current[s], lastServer[s],
                     inTransit[s])
        BY <3>2, ClientFacts
      <4>3. current[s] \in Line(history, r)
        BY <2>2, <4>1, <4>2 DEF ClientOK, ServerLine
      <4> QED
        BY <2>1, <4>3 DEF RevisionsKnow, Remembers
    <3> QED
      BY <3>1, <3>2 DEF Site
  <2>3. Seen(history, r) = inserted
    <3>1. Seen(history, r) \subseteq inserted
      BY <2>1 DEF RevisionsKnow
    <3>2. \A x \in inserted : x \in Seen(history, r)
      BY <2>1, <2>2 DEF NothingForgotten, Knower, Covers
    <3> QED
      BY <3>1, <3>2
  <2>4. Gone(history, r) = removed
    <3>1. Gone(history, r) \subseteq removed
      BY <2>1 DEF RevisionsKnow
    <3>2. \A x \in removed : x \in Gone(history, r)
      BY <2>1, <2>2 DEF NothingForgotten, Remover, Covers
    <3> QED
      BY <3>1, <3>2
  <2>5. history[r].items = Seen(history, r) \ Gone(history, r)
    BY <2>1, ItemsKnown
  <2> QED
    BY <2>3, <2>4, <2>5
<1> QED
  BY <1>1, SynchronizerCorrect, SynchronizerMerges, PTL

-----------------------------------------------------------------------------
(* What is under way to a client, in its order                             *)

\* The messages of s from the i-th on are pushes that lead from one revision
\* of the branch to another.
Leads(h, s, i, from, to) ==
  \E f \in [i..(Len(s) + 1) -> Nat] :
    /\ f[i] = from /\ f[Len(s) + 1] = to
    /\ \A k \in i..Len(s) :
         /\ s[k].class = "push" /\ f[k] < f[k + 1] /\ f[k + 1] \in Line(h, to)
         /\ s[k].revisions = RevisionsFromTo(h, f[k], f[k + 1])

(* No message leads nowhere.                                               *)
LEMMA LeadsNowhere ==
  ASSUME NEW X, NEW s \in Seq(X), NEW h, NEW from \in Nat
  PROVE  Leads(h, s, Len(s) + 1, from, from)
<1> DEFINE n == Len(s) + 1
           f == [k \in n..n |-> from]
<1>1. Len(s) \in Nat /\ n..n = {n} /\ n..Len(s) = {}
  BY LenProperties
<1>2. f \in [n..n -> Nat] /\ f[n] = from
  BY <1>1
<1> QED
  BY <1>1, <1>2 DEF Leads

(* Messages still lead where they did when revisions are written.          *)
LEMMA LeadsStill ==
  ASSUME NEW h, NEW g, GoodHistory(h), Keeps(h, g), NEW s, NEW i, NEW from,
         NEW to \in 1..Len(h), Leads(h, s, i, from, to)
  PROVE  Leads(g, s, i, from, to)
<1>1. PICK f \in [i..(Len(s) + 1) -> Nat] :
        /\ f[i] = from /\ f[Len(s) + 1] = to
        /\ \A k \in i..Len(s) :
             /\ s[k].class = "push" /\ f[k] < f[k + 1] /\ f[k + 1] \in Line(h, to)
             /\ s[k].revisions = RevisionsFromTo(h, f[k], f[k + 1])
  BY DEF Leads
<1>2. \A r \in 1..Len(h) : Line(g, r) = Line(h, r)
  BY KnowledgeKept
<1>3. ASSUME NEW k \in i..Len(s)
      PROVE  /\ f[k + 1] \in Line(g, to)
             /\ s[k].revisions = RevisionsFromTo(g, f[k], f[k + 1])
  <2>1. f[k + 1] \in 1..Len(h)
    BY <1>1, LineOfAncestor
  <2> QED
    BY <1>1, <1>2, <2>1 DEF RevisionsFromTo
<1> QED
  BY <1>1, <1>3 DEF Leads

(* With the push of what follows, messages lead further.                   *)
LEMMA LeadsFurther ==
  ASSUME NEW h, GoodHistory(h), NEW X, NEW s \in Seq(X), NEW m \in X,
         NEW i \in 1..(Len(s) + 1),
         NEW from, NEW to, Leads(h, s, i, from, to),
         NEW new \in 1..Len(h), to \in Line(h, new), to < new,
         m.class = "push", m.revisions = RevisionsFromTo(h, to, new)
  PROVE  Leads(h, Append(s, m), i, from, new)
<1> DEFINE n == Len(s) + 1
           z == Append(s, m)
<1>1. PICK f \in [i..n -> Nat] :
        /\ f[i] = from /\ f[n] = to
        /\ \A k \in i..Len(s) :
             /\ s[k].class = "push" /\ f[k] < f[k + 1] /\ f[k + 1] \in Line(h, to)
             /\ s[k].revisions = RevisionsFromTo(h, f[k], f[k + 1])
  BY DEF Leads
<1>2. /\ Len(z) = n /\ Len(s) \in Nat /\ n \in Nat
      /\ \A k \in 1..Len(s) : z[k] = s[k]
      /\ z[n] = m
  BY AppendProperties, LenProperties
<1>3. new \in Nat /\ new \in Line(h, new) /\ Line(h, to) \subseteq Line(h, new)
  <2>1. new \in Nat /\ new \in Line(h, new)
    BY DEF GoodHistory
  <2> QED
    BY <2>1, LineOfAncestor
<1> HIDE DEF z
<1> DEFINE g == [k \in i..(n + 1) |-> IF k = n + 1 THEN new ELSE f[k]]
<1>4. \A k \in i..(n + 1) : k = n + 1 \/ k \in i..n
  BY <1>2
<1>5. g \in [i..(n + 1) -> Nat]
  BY <1>3, <1>4
<1>6. /\ g[n + 1] = new
      /\ \A k \in i..n : g[k] = f[k]
  <2>1. n + 1 \in i..(n + 1) /\ \A k \in i..n : k \in i..(n + 1) /\ k # n + 1
    BY <1>2
  <2> QED
    BY <2>1
<1> HIDE DEF g
<1>7. i \in i..n /\ n \in i..n
  BY <1>2
<1>8. ASSUME NEW k \in i..n
      PROVE  /\ z[k].class = "push" /\ g[k] < g[k + 1] /\ g[k + 1] \in Line(h, new)
             /\ z[k].revisions = RevisionsFromTo(h, g[k], g[k + 1])
  <2>1. CASE k = n
    BY <1>1, <1>2, <1>3, <1>6, <1>7, <2>1
  <2>2. CASE k # n
    <3>1. k \in i..Len(s) /\ k + 1 \in i..n
      BY <1>2, <2>2
    <3>2. k \in 1..Len(s)
      BY <1>2, <3>1
    <3>3. z[k] = s[k]
      BY <1>2, <3>2
    <3> QED
      BY <1>1, <1>3, <1>6, <3>1, <3>3
  <2> QED
    BY <2>1, <2>2
<1>9. g[i] = from
  BY <1>1, <1>6, <1>7
<1> QED
  BY <1>2, <1>5, <1>6, <1>8, <1>9 DEF Leads, z

(* The messages after the first lead on from where it leads.               *)
LEMMA LeadsAfter ==
  ASSUME NEW X, NEW s \in Seq(X), s # << >>, NEW h, NEW i \in 2..(Len(s) + 1),
         NEW from, NEW to, Leads(h, s, i, from, to)
  PROVE  Leads(h, Tail(s), i - 1, from, to)
<1> DEFINE z == Tail(s)
           n == Len(s)
<1>1. PICK f \in [i..(n + 1) -> Nat] :
        /\ f[i] = from /\ f[n + 1] = to
        /\ \A k \in i..n :
             /\ s[k].class = "push" /\ f[k] < f[k + 1] /\ f[k + 1] \in Line(h, to)
             /\ s[k].revisions = RevisionsFromTo(h, f[k], f[k + 1])
  BY DEF Leads
<1>2. /\ Len(z) = n - 1 /\ n \in Nat \ {0} /\ i \in Nat
      /\ \A k \in 1..Len(z) : z[k] = s[k + 1]
  BY HeadTailProperties, EmptySeq, LenProperties
<1> HIDE DEF z
<1> DEFINE g == [k \in (i - 1)..n |-> f[k + 1]]
<1>3. \A k \in (i - 1)..n : k + 1 \in i..(n + 1)
  BY <1>2
<1>4. g \in [(i - 1)..n -> Nat]
  BY <1>3
<1>5. \A k \in (i - 1)..n : g[k] = f[k + 1]
  OBVIOUS
<1> HIDE DEF g
<1>6. g[i - 1] = from /\ g[n] = to
  <2>1. i - 1 \in (i - 1)..n /\ n \in (i - 1)..n /\ (i - 1) + 1 = i
    BY <1>2
  <2> QED
    BY <1>1, <1>5, <2>1
<1>7. ASSUME NEW k \in (i - 1)..(n - 1)
      PROVE  /\ z[k].class = "push" /\ g[k] < g[k + 1] /\ g[k + 1] \in Line(h, to)
             /\ z[k].revisions = RevisionsFromTo(h, g[k], g[k + 1])
  <2>1. k + 1 \in i..n /\ k \in (i - 1)..n /\ k + 1 \in (i - 1)..n /\ k \in 1..(n - 1)
    BY <1>2
  <2>2. z[k] = s[k + 1] /\ g[k] = f[k + 1] /\ g[k + 1] = f[(k + 1) + 1]
    BY <1>2, <1>5, <2>1
  <2> QED
    BY <1>1, <2>1, <2>2
<1>8. Len(z) + 1 = n /\ Len(z) = n - 1
  BY <1>2
<1> QED
  BY <1>4, <1>6, <1>7, <1>8 DEF Leads, z

(* The first message leads somewhere, and the others on from there.        *)
LEMMA LeadsFirst ==
  ASSUME NEW X, NEW s \in Seq(X), s # << >>, NEW h, NEW from, NEW to, Leads(h, s, 1, from, to)
  PROVE  \E u \in Line(h, to) :
           /\ Head(s).class = "push" /\ from < u
           /\ Head(s).revisions = RevisionsFromTo(h, from, u)
           /\ Leads(h, Tail(s), 1, u, to)
<1> DEFINE n == Len(s)
<1>1. PICK f \in [1..(n + 1) -> Nat] :
        /\ f[1] = from /\ f[n + 1] = to
        /\ \A k \in 1..n :
             /\ s[k].class = "push" /\ f[k] < f[k + 1] /\ f[k + 1] \in Line(h, to)
             /\ s[k].revisions = RevisionsFromTo(h, f[k], f[k + 1])
  BY DEF Leads
<1>2. n \in Nat \ {0} /\ Head(s) = s[1]
  BY HeadTailProperties, EmptySeq, LenProperties
<1>3. 1 \in 1..n /\ 1 + 1 = 2 /\ 2 \in 2..(n + 1) /\ 2 - 1 = 1
  BY <1>2
<1>4. /\ s[1].class = "push" /\ f[1] < f[2] /\ f[2] \in Line(h, to)
      /\ s[1].revisions = RevisionsFromTo(h, f[1], f[2])
  BY <1>1, <1>3
<1>5. Leads(h, s, 2, f[2], to)
  <2> DEFINE g == [k \in 2..(n + 1) |-> f[k]]
  <2>1. \A k \in 2..(n + 1) : k \in 1..(n + 1)
    OBVIOUS
  <2>2. g \in [2..(n + 1) -> Nat] /\ \A k \in 2..(n + 1) : g[k] = f[k]
    BY <2>1
  <2> HIDE DEF g
  <2>3. n + 1 \in 2..(n + 1)
    BY <1>2
  <2>4. \A k \in 2..n : k \in 1..n /\ k \in 2..(n + 1) /\ k + 1 \in 2..(n + 1)
    BY <1>2
  <2>5. \A k \in 2..n :
          /\ s[k].class = "push" /\ g[k] < g[k + 1] /\ g[k + 1] \in Line(h, to)
          /\ s[k].revisions = RevisionsFromTo(h, g[k], g[k + 1])
    BY <1>1, <2>2, <2>4
  <2>6. g[2] = f[2] /\ g[n + 1] = to
    BY <1>1, <1>3, <2>2, <2>3
  <2> QED
    BY <2>2, <2>5, <2>6 DEF Leads
<1>6. Leads(h, Tail(s), 1, f[2], to)
  BY <1>3, <1>5, LeadsAfter
<1> QED
  BY <1>1, <1>2, <1>4, <1>6

-----------------------------------------------------------------------------
(* Clients on the way to the server's revision                             *)

\* A client to be set up, with what follows.
SettingUp(c) ==
  /\ current[c] = None /\ toClient[c] # << >> /\ Head(toClient[c]).class = "setup"
  /\ \E u \in ServerLine :
       /\ Head(toClient[c]).revisions = {u}
       /\ Leads(history, toClient[c], 2, u, current[Server])

\* A client with nothing of its own, that is pushed what it lacks.
Following(c) ==
  /\ current[c] # None /\ inTransit[c] = None
  /\ Leads(history, toClient[c], 1, lastServer[c], current[Server])

\* Message m answers the push of revision r.
Replies(r, m) == m.class = "response" /\ m.answers = r

\* A client with a push in transit, that is answered, and pushed the rest.
Answered(c) ==
  /\ current[c] # None /\ inTransit[c] # None
  /\ \E i \in 1..Len(toClient[c]) : \E u \in ServerLine :
       /\ Replies(inTransit[c], toClient[c][i])
       /\ \A j \in 1..(i - 1) : ~ Replies(inTransit[c], toClient[c][j])
       /\ lastServer[c] < u
       /\ toClient[c][i].revisions = RevisionsFromTo(history, lastServer[c], u)
       /\ Leads(history, toClient[c], i + 1, u, current[Server])

\* Client c gets to where the server is, unless a push of its own is to be
\* answered first.
Reaches(c) == toServer[c] # << >> \/ SettingUp(c) \/ Following(c) \/ Answered(c)

\* What the server is left with while it is never paused.
NeverPaused == pauses = 0 => ~ paused /\ queue = << >>

AllSentTip == \A c \in DOMAIN lastSent : lastSent[c] = current[Server]

ReachInv ==
  /\ pauses \in Nat /\ NeverPaused /\ AllSentTip
  /\ losses = 0 /\ pauses = 0 => \A c \in DOMAIN lastSent : Reaches(c)

\* z is the messages s and what is sent when the branch moves to new.
SentOn(g, old, new, s, z) ==
  z = IF new = old THEN s ELSE Append(s, PushMessage(RevisionsFromTo(g, old, new)))

SentNext(c) == SentOn(history', current[Server], current'[Server], toClient[c], toClient'[c])

\* The tips of the server's branch before and after a step.
TipsMove(h, g, old, new) ==
  /\ GoodHistory(h) /\ GoodHistory(g) /\ Keeps(h, g) /\ Len(h) <= Len(g)
  /\ old \in 1..Len(h) /\ new \in 1..Len(g) /\ old \in Line(g, new)

(* The server's branch goes on in the history there is.                    *)
LEMMA TipsAfter ==
  ASSUME SynchronizerInv, Preserved, Writes
  PROVE  /\ TipsMove(history, history', current[Server], current'[Server])
         /\ \A u \in ServerLine : u \in Line(history', current'[Server])
                                  /\ Line(history', u) = Line(history, u)
<1>1. GoodHistory(history) /\ current[Server] \in 1..Len(history)
      /\ ServerLine \in SUBSET (1..Len(history))
  BY ServerFacts
<1>2. GoodHistory(history') /\ current'[Server] \in 1..Len(history')
  BY LocatedNext DEF Preserved, Located
<1>3. Keeps(history, history') /\ Len(history') >= Len(history)
      /\ Len(history') \in Nat /\ Len(history) \in Nat
  BY <1>1, <1>2 DEF Writes, GoodHistory
<1>4. current[Server] \in Line(history', current'[Server])
  BY DEF Preserved
<1>5. TipsMove(history, history', current[Server], current'[Server])
  BY <1>1, <1>2, <1>3, <1>4 DEF TipsMove
<1>6. ASSUME NEW u \in ServerLine
      PROVE  u \in Line(history', current'[Server]) /\ Line(history', u) = Line(history, u)
  <2>1. GoesOn
    BY StepGoesOn
  <2>2. Line(history', u) = Line(history, u)
    BY <1>1, <1>3, KnowledgeKept
  <2> QED
    BY <2>1, <2>2 DEF GoesOn
<1> QED
  BY <1>5, <1>6

(* What leads to the server's tip still does with what is pushed next.     *)
LEMMA LeadsNext ==
  ASSUME NEW h, NEW g, NEW old, NEW new, TipsMove(h, g, old, new),
         NEW s \in Seq(ClientRecord), NEW z, SentOn(g, old, new, s, z),
         NEW i \in 1..(Len(s) + 1), NEW from, Leads(h, s, i, from, old)
  PROVE  Leads(g, z, i, from, new)
<1>1. /\ GoodHistory(h) /\ GoodHistory(g) /\ Keeps(h, g) /\ Len(h) <= Len(g)
      /\ old \in 1..Len(h) /\ new \in 1..Len(g) /\ old \in Line(g, new)
      /\ old \in Nat /\ new \in Nat
  BY DEF TipsMove
<1>2. Leads(g, s, i, from, old)
  BY <1>1, LeadsStill
<1>3. CASE new = old
  BY <1>2, <1>3 DEF SentOn
<1>4. CASE new # old
  <2>1. old < new /\ Line(g, new) \in SUBSET Nat
    BY <1>1, <1>4 DEF GoodHistory
  <2>2. PICK m : m = PushMessage(RevisionsFromTo(g, old, new))
    OBVIOUS
  <2>3. PICK R : R = RevisionsFromTo(g, old, new)
    OBVIOUS
  <2>4. R \in SUBSET Nat
    BY <2>1, <2>3 DEF RevisionsFromTo
  <2>5. m = [class |-> "push", revisions |-> R, answers |-> 0]
    BY <2>2, <2>3 DEF PushMessage, None
  <2>6. m.class = "push" /\ m.revisions = R /\ m \in ClientRecord
    BY <2>4, <2>5 DEF ClientRecord
  <2> QED
    BY <1>1, <1>2, <1>4, <2>1, <2>2, <2>3, <2>6, LeadsFurther DEF SentOn
<1> QED
  BY <1>3, <1>4

\* The messages z are s and maybe others.
Continues(s, z) ==
  /\ \A k \in 1..Len(s) : z[k] = s[k]
  /\ Len(z) >= Len(s) /\ Len(z) \in Nat
  /\ s # << >> => z # << >> /\ Head(z) = Head(s)

(* A message that is sent comes after what was under way.                  *)
LEMMA SentKeeps ==
  ASSUME NEW h, NEW g, NEW old, NEW new, TipsMove(h, g, old, new),
         NEW s \in Seq(ClientRecord), NEW z, SentOn(g, old, new, s, z)
  PROVE  Continues(s, z)
<1>1. PICK R : R = RevisionsFromTo(g, old, new)
  OBVIOUS
<1>2. R \in SUBSET Nat
  BY <1>1 DEF RevisionsFromTo, TipsMove, GoodHistory
<1>3. PICK m : m = PushMessage(R)
  OBVIOUS
<1>4. m = [class |-> "push", revisions |-> R, answers |-> 0]
  BY <1>3 DEF PushMessage, None
<1>5. m \in ClientRecord
  BY <1>2, <1>4 DEF ClientRecord
<1>6. Len(s) \in Nat
  BY LenProperties
<1>7. CASE new = old
  BY <1>6, <1>7 DEF SentOn, Continues
<1>8. CASE new # old
  <2>1. z = Append(s, m)
    BY <1>1, <1>3, <1>8 DEF SentOn
  <2>2. /\ z \in Seq(ClientRecord) /\ Len(z) = Len(s) + 1
        /\ \A k \in 1..Len(s) : z[k] = s[k]
    BY <1>5, <2>1, AppendProperties
  <2>3. s # << >> => 1 \in 1..Len(s) /\ Head(s) = s[1]
    BY <1>6, EmptySeq, HeadTailProperties
  <2>4. z # << >> /\ Head(z) = z[1]
    BY <1>6, <2>2, EmptySeq, HeadTailProperties
  <2> QED
    BY <1>6, <2>2, <2>3, <2>4 DEF Continues
<1> QED
  BY <1>7, <1>8

(* A client that does nothing still gets to where the server is.           *)
LEMMA StillReaches ==
  ASSUME SynchronizerInv, Preserved, Writes, NEW c \in Client, Reaches(c), SentNext(c),
         current'[c] = None <=> current[c] = None,
         lastServer'[c] = lastServer[c], inTransit'[c] = inTransit[c],
         toServer[c] # << >> => toServer'[c] # << >>
  PROVE  Reaches(c)'
<1> DEFINE s == toClient[c]
           z == toClient'[c]
           old == current[Server]
           new == current'[Server]
<1>1. TipsMove(history, history', old, new)
  BY TipsAfter
<1>2. \A u \in ServerLine : u \in ServerLine' /\ Line(history', u) = Line(history, u)
  BY TipsAfter DEF ServerLine
<1>3. s \in Seq(ClientRecord) /\ Len(s) \in Nat
  BY LenProperties DEF SynchronizerInv, Types
<1>4. SentOn(history', old, new, s, z)
  BY DEF SentNext
<1> HIDE DEF s, z, old, new
<1>5. Continues(s, z)
  BY <1>1, <1>3, <1>4, SentKeeps
<1>6. CASE toServer[c] # << >>
  BY <1>6 DEF Reaches
<1>7. CASE SettingUp(c)
  <2>1. PICK u \in ServerLine :
          Head(s).revisions = {u} /\ Leads(history, s, 2, u, old)
    BY <1>7 DEF SettingUp, s, old
  <2>2. s # << >> /\ Head(s).class = "setup" /\ current[c] = None
    BY <1>7 DEF SettingUp, s
  <2>3. 2 \in 1..(Len(s) + 1)
    <3>1. Len(s) # 0
      BY <1>3, <2>2, EmptySeq
    <3> QED
      BY <1>3, <3>1
  <2>4. Leads(history', z, 2, u, new)
    BY <1>1, <1>3, <1>4, <2>1, <2>3, LeadsNext
  <2>5. u \in ServerLine'
    BY <1>2
  <2>6. SettingUp(c)'
    BY <1>5, <2>1, <2>2, <2>4, <2>5 DEF SettingUp, Continues, z, new
  <2> QED
    BY <2>6 DEF Reaches
<1>8. CASE Following(c)
  <2>1. Leads(history, s, 1, lastServer[c], old) /\ current[c] # None /\ inTransit[c] = None
    BY <1>8 DEF Following, s, old
  <2>2. 1 \in 1..(Len(s) + 1)
    BY <1>3
  <2>3. Leads(history', z, 1, lastServer[c], new)
    BY <1>1, <1>3, <1>4, <2>1, <2>2, LeadsNext
  <2>4. Following(c)'
    BY <2>1, <2>3 DEF Following, z, new
  <2> QED
    BY <2>4 DEF Reaches
<1>9. CASE Answered(c)
  <2>1. current[c] # None /\ inTransit[c] # None
    BY <1>9 DEF Answered
  <2>2. PICK i \in 1..Len(s) : \E u \in ServerLine :
          /\ Replies(inTransit[c], s[i])
          /\ \A j \in 1..(i - 1) : ~ Replies(inTransit[c], s[j])
          /\ lastServer[c] < u
          /\ s[i].revisions = RevisionsFromTo(history, lastServer[c], u)
          /\ Leads(history, s, i + 1, u, old)
    BY <1>9 DEF Answered, s, old
  <2>3. PICK u \in ServerLine :
          /\ Replies(inTransit[c], s[i])
          /\ \A j \in 1..(i - 1) : ~ Replies(inTransit[c], s[j])
          /\ lastServer[c] < u
          /\ s[i].revisions = RevisionsFromTo(history, lastServer[c], u)
          /\ Leads(history, s, i + 1, u, old)
    BY <2>2
  <2>4. i + 1 \in 1..(Len(s) + 1) /\ i \in 1..Len(z)
        /\ \A j \in 1..(i - 1) : j \in 1..Len(s)
    BY <1>3, <1>5 DEF Continues
  <2>5. Leads(history', z, i + 1, u, new)
    BY <1>1, <1>3, <1>4, <2>3, <2>4, LeadsNext
  <2>6. z[i] = s[i] /\ \A j \in 1..(i - 1) : z[j] = s[j]
    BY <1>5, <2>4 DEF Continues
  <2>7. u \in ServerLine' /\ z[i].revisions = RevisionsFromTo(history', lastServer'[c], u)
    BY <1>2, <2>3, <2>6 DEF RevisionsFromTo
  <2>8. /\ Replies(inTransit'[c], z[i])
        /\ \A j \in 1..(i - 1) : ~ Replies(inTransit'[c], z[j])
    BY <2>3, <2>6
  <2>9. Answered(c)'
    BY <2>1, <2>3, <2>4, <2>5, <2>7, <2>8 DEF Answered, z, new
  <2> QED
    BY <2>9 DEF Reaches
<1> QED
  BY <1>6, <1>7, <1>8, <1>9 DEF Reaches

-----------------------------------------------------------------------------
(* The actions bring clients to the server's revision                      *)

(* The parts of a step that pauses nothing and loses nothing.              *)
LEMMA ReachStep ==
  ASSUME ReachInv, UNCHANGED <<pauses, losses, paused>>, AllSentTip',
         pauses = 0 => queue' = << >>,
         losses = 0 /\ pauses = 0 => \A c \in DOMAIN lastSent' : Reaches(c)'
  PROVE  ReachInv'
BY DEF ReachInv, NeverPaused

(* A client that joins will be set up.                                     *)
LEMMA AddClientIDReaches ==
  ASSUME Steps, ReachInv, NEW c \in Client, AddClientID(c)
  PROVE  ReachInv'
<1> DEFINE m == SetupMessage(current[Server])
           msgs == [d \in {c} |-> m]
<1>1. /\ UNCHANGED <<history, current, lastServer, inTransit, toServer, inserted, removed,
                     pauses, losses, paused>>
      /\ lastSent' = SentTo(c, current[Server], lastSent)
      /\ SendToClients(msgs, queue)
      /\ current[c] = None /\ toClient[c] = << >>
  BY DEF AddClientID, clientVars, userVars, boundVars
<1>2. /\ SynchronizerInv /\ Preserved /\ toClient \in [Client -> Seq(ClientRecord)]
      /\ queue \in Seq(QueueRecord) /\ current[Server] \in Nat /\ current[Server] \in ServerLine
      /\ GoodHistory(history) /\ RevisionsKnow /\ DOMAIN lastSent \in SUBSET Client
  BY ServerFacts DEF Steps, SynchronizerInv, Types, MergeInv, KnowledgeInv
<1>3. Writes
  BY <1>1, <1>2, WritesNothing
<1>4. AllSent(msgs, queue)
  <2>1. m = [class |-> "setup", revisions |-> {current[Server]}, answers |-> 0]
    BY DEF SetupMessage, None
  <2>2. m \in ClientRecord
    <3> HIDE DEF m
    <3> QED
      BY <1>2, <2>1 DEF ClientRecord
  <2>3. DOMAIN msgs = {c} /\ IsFiniteSet({c}) /\ msgs[c] = m
    BY FS_Singleton
  <2> HIDE DEF msgs, m
  <2> QED
    BY <1>1, <1>2, <2>2, <2>3, SendToClientsSendsAll
<1>5. DOMAIN lastSent' = DOMAIN lastSent \cup {c} /\ AllSentTip'
  BY <1>1 DEF SentTo, AllSentTip, ReachInv
<1>6. pauses = 0 => queue' = << >> /\ ~ paused
  BY <1>4 DEF AllSent, ReachInv, NeverPaused
<1>7. ASSUME losses = 0, pauses = 0, NEW d \in DOMAIN lastSent'
      PROVE  Reaches(d)'
  <2>1. toClient'[d] = IF d = c THEN Append(toClient[c], m) ELSE toClient[d]
    BY <1>2, <1>4, <1>5, <1>6, <1>7 DEF AllSent
  <2>2. CASE d = c
    <3>1. PICK z : z = toClient'[c]
      OBVIOUS
    <3>2. z = <<m>> /\ Head(z) = m /\ Len(z) = 1 /\ z # << >>
      <4>1. z = Append(<< >>, m)
        BY <1>1, <2>1, <2>2, <3>1
      <4> HIDE DEF m
      <4> QED
        BY <4>1
    <3>3. m.class = "setup" /\ m.revisions = {current[Server]}
      BY DEF SetupMessage
    <3>4. z \in Seq({m})
      BY <3>2
    <3> HIDE DEF m
    <3>5. Leads(history, z, 2, current[Server], current[Server])
      <4>1. Leads(history, z, Len(z) + 1, current[Server], current[Server])
        BY <1>2, <3>4, LeadsNowhere
      <4> QED
        BY <3>2, <4>1
    <3>6. SettingUp(c)'
      BY <1>1, <1>2, <3>1, <3>2, <3>3, <3>5 DEF SettingUp, ServerLine
    <3> QED
      BY <2>2, <3>6 DEF Reaches
  <2>3. CASE d # c
    <3>1. d \in DOMAIN lastSent /\ d \in Client
      BY <1>2, <1>5, <2>3
    <3>2. Reaches(d)
      BY <1>7, <3>1 DEF ReachInv
    <3>3. SentNext(d)
      BY <1>1, <2>1, <2>3 DEF SentNext, SentOn
    <3> QED
      BY <1>1, <1>2, <1>3, <3>1, <3>2, <3>3, StillReaches
  <2> QED
    BY <2>2, <2>3
<1> HIDE DEF msgs, m
<1> QED
  BY <1>1, <1>5, <1>6, <1>7, ReachStep

(* A step that only lets time pass, or clients go.                         *)
LEMMA NothingMovesReaches ==
  ASSUME SynchronizerInv, ReachInv,
         UNCHANGED <<history, current, lastServer, inTransit, toServer, toClient, queue,
                     pauses, losses, paused>>,
         DOMAIN lastSent' \subseteq DOMAIN lastSent,
         \A c \in DOMAIN lastSent' : lastSent'[c] = lastSent[c]
  PROVE  ReachInv'
<1>1. AllSentTip'
  BY DEF ReachInv, AllSentTip
<1>2. ASSUME losses = 0, pauses = 0, NEW c \in DOMAIN lastSent'
      PROVE  Reaches(c)'
  <2>1. Reaches(c)
    BY <1>2 DEF ReachInv
  <2> QED
    BY <2>1 DEF Reaches, SettingUp, Following, Answered, ServerLine
<1>3. pauses = 0 => queue' = << >>
  BY DEF ReachInv, NeverPaused
<1> QED
  BY <1>1, <1>2, <1>3, ReachStep

(* Everybody has been sent the revision the server is at after a push.     *)
LEMMA HandlePushedTips ==
  ASSUME NEW c \in Client, NEW m, NEW q, HandlePushedRevisions(c, m, q), failed' = {},
         current \in [Site -> Nat]
  PROVE  AllSentTip' /\ \A d \in Client : current'[d] = current[d]
<1>1. ~ Raise(Server)
  BY DEF Raise
<1>2. PICK cur : /\ current' = [current EXCEPT ![Server] = cur]
                 /\ \E h, sent, asked : NotifyClients(h, cur, sent, asked, q)
  BY <1>1 DEF HandlePushedRevisions
<1>3. Server \in Site /\ Client \subseteq Site /\ Server \notin Client
  BY SynchronizerAssumption DEF Site
<1>4. current'[Server] = cur /\ \A d \in Client : current'[d] = current[d]
  BY <1>2, <1>3
<1>5. PICK sent : lastSent' = [d \in DOMAIN sent |-> cur]
  BY <1>1, <1>2 DEF NotifyClients
<1> QED
  BY <1>4, <1>5 DEF AllSentTip

(* A push that is handled at once is answered in turn.                     *)
LEMMA HandlePushedReaches ==
  ASSUME Steps, NoEvents, ReachInv, NEW c \in Client, NEW m, Pushed(c, m), ~ paused,
         HandlePushedRevisions(c, m, queue), UNCHANGED <<lastServer, inTransit, pauses, paused>>,
         \A d \in Client \ {c} : toServer'[d] = toServer[d]
  PROVE  ReachInv'
<1> DEFINE t == inTransit[c]
           a == lastServer[c]
           cur == current'[Server]
           s == toClient[c]
           z == toClient'[c]
<1>1. /\ SynchronizerInv /\ SynchronizerInv' /\ KnowledgeInv /\ Preserved
      /\ queue \in Seq(QueueRecord) /\ failed' = {} /\ current \in [Site -> Nat]
      /\ toClient \in [Client -> Seq(ClientRecord)] /\ DOMAIN lastSent \in SUBSET Client
  BY DEF Steps, Preserved, MergeInv, SynchronizerInv, Types
<1>2. PushTold(c, queue)
  BY <1>1, PushIsTold
<1>3. PICK sent : /\ DOMAIN sent = DOMAIN lastSent \cup {c} /\ sent[c] = a
                  /\ \A d \in DOMAIN lastSent \ {c} : sent[d] = lastSent[d]
                  /\ AllTold(history', cur, sent, [client |-> c, revision |-> t], queue)
  BY <1>2 DEF PushTold
<1>4. /\ Writes /\ t \notin held[Server] /\ a < cur
      /\ GoodHistory(history') /\ cur \in 1..Len(history')
  BY <1>2 DEF PushTold
<1>5. AllSentTip' /\ \A d \in Client : current'[d] = current[d]
  BY <1>1, HandlePushedTips
<1>6. /\ lastSent' = [d \in DOMAIN sent |-> cur] /\ queue' = queue
      /\ \A d \in Client :
           toClient'[d] =
             IF Lacks(sent, cur, d)
             THEN Append(toClient[d],
                         Told(history', cur, sent, [client |-> c, revision |-> t], d))
             ELSE toClient[d]
  BY <1>3 DEF AllTold
<1>7. pauses = 0 => queue' = << >>
  BY <1>6 DEF ReachInv, NeverPaused
<1>8. Reaches(c)'
  <2>1. PICK m1 : m1 = ResponseMessage(RevisionsFromTo(history', a, cur), t)
    OBVIOUS
  <2>2. PICK R : R = RevisionsFromTo(history', a, cur)
    OBVIOUS
  <2>3. R \in SUBSET Nat /\ t \in Nat
    BY <1>1, <1>4, <2>2 DEF RevisionsFromTo, GoodHistory, SynchronizerInv, Types
  <2>4. /\ m1.class = "response" /\ m1.answers = t /\ m1.revisions = R
        /\ m1 \in ClientRecord
    BY <2>1, <2>2, <2>3 DEF ResponseMessage, ClientRecord
  <2>5. z = Append(s, m1)
    <3>1. Lacks(sent, cur, c)
      BY <1>3, <1>4 DEF Lacks
    <3>2. Told(history', cur, sent, [client |-> c, revision |-> t], c) = m1
      BY <1>3, <2>1 DEF Told
    <3> QED
      BY <1>6, <3>1, <3>2
  <2>6. s \in Seq(ClientRecord)
    BY <1>1
  <2>7. /\ z \in Seq(ClientRecord) /\ Len(z) = Len(s) + 1 /\ Len(s) \in Nat
        /\ \A k \in 1..Len(s) : z[k] = s[k]
        /\ z[Len(s) + 1] = m1
    <3> HIDE DEF s, z
    <3> QED
      BY <2>4, <2>5, <2>6, AppendProperties, LenProperties
  <2>8. ASSUME NEW j \in 1..Len(s)
        PROVE  ~ Replies(t, z[j])
    <3>1. s[j] \in AnswersTo(c)
      BY DEF AnswersTo, Answers, ElementsOf
    <3>2. AnswerOK(history, ServerLine, held[Server], s[j])
      BY <1>1, <3>1 DEF SynchronizerInv, MessagesOK, AnswersTo
    <3>3. s[j].class = "response" => s[j].answers \in held[Server]
      BY <3>2 DEF AnswerOK
    <3>4. z[j] = s[j]
      BY <2>7
    <3> HIDE DEF s, z
    <3> QED
      BY <1>4, <3>3, <3>4 DEF Replies
  <2>9. current'[c] # None /\ inTransit'[c] # None
    <3>1. current[c] # None /\ t \in 1..Len(history)
      BY <1>1, PushStarts
    <3>2. t # None
      BY <3>1 DEF None
    <3> QED
      BY <1>5, <3>1, <3>2
  <2>10. cur \in Line(history', cur) /\ cur \in Nat
    BY <1>4 DEF GoodHistory
  <2>11. Leads(history', z, Len(z) + 1, cur, cur)
    <3> HIDE DEF z, cur
    <3> QED
      BY <2>7, <2>10, LeadsNowhere
  <2>12. /\ Len(z) \in 1..Len(z) /\ z[Len(z)] = m1
         /\ \A j \in 1..(Len(z) - 1) : ~ Replies(t, z[j])
    <3> HIDE DEF s, z
    <3>1. Len(z) \in 1..Len(z) /\ Len(z) - 1 = Len(s)
      BY <2>7
    <3> QED
      BY <2>7, <2>8, <3>1
  <2>13. Answered(c)'
    <3>1. Replies(t, z[Len(z)]) /\ z[Len(z)].revisions = RevisionsFromTo(history', a, cur)
      BY <2>2, <2>4, <2>12 DEF Replies
    <3>2. cur \in ServerLine'
      BY <2>10 DEF ServerLine
    <3> QED
      BY <1>4, <2>9, <2>11, <2>12, <3>1, <3>2 DEF Answered
  <2> QED
    BY <2>13 DEF Reaches
<1>9. ASSUME losses = 0, pauses = 0, NEW d \in DOMAIN lastSent'
      PROVE  Reaches(d)'
  <2>1. CASE d = c
    BY <1>8, <2>1
  <2>2. CASE d # c
    <3>1. d \in DOMAIN lastSent /\ d \in Client
      BY <1>1, <1>3, <1>6, <2>2
    <3>2. Reaches(d)
      BY <1>9, <3>1 DEF ReachInv
    <3>3. SentNext(d)
      <4>1. sent[d] = current[Server] /\ d \in DOMAIN sent
        BY <1>3, <2>2, <3>1 DEF ReachInv, AllSentTip
      <4>2. Told(history', cur, sent, [client |-> c, revision |-> t], d)
              = PushMessage(RevisionsFromTo(history', current[Server], cur))
        BY <2>2, <4>1 DEF Told
      <4> QED
        BY <1>6, <3>1, <4>1, <4>2 DEF SentNext, SentOn, Lacks
    <3> QED
      BY <1>1, <1>4, <1>5, <2>2, <3>1, <3>2, <3>3, StillReaches
  <2> QED
    BY <2>1, <2>2
<1>10. UNCHANGED <<pauses, losses, paused>>
  BY DEF NoEvents
<1> QED
  BY <1>5, <1>7, <1>9, <1>10, ReachStep

(* A push that arrives while the server is paused waits, and one that      *)
(* arrives otherwise is answered.                                          *)
LEMMA ServerReceivesReaches ==
  ASSUME Steps, ReachInv, NEW c \in Client, ServerReceives(c)
  PROVE  ReachInv'
<1> DEFINE m == Head(toServer[c])
<1>1. /\ UNCHANGED <<lastServer, inTransit, pauses, paused, losses>> /\ NoEvents
      /\ toServer[c] # << >> /\ toServer' = [toServer EXCEPT ![c] = Tail(@)]
      /\ \/ paused /\ UNCHANGED <<lastSent, current>>
         \/ ~ paused /\ HandlePushedRevisions(c, m, queue)
  BY DEF ServerReceives, userVars, boundVars, NoEvents, Steps, MergeInv, Counted
<1>2. CASE paused /\ UNCHANGED <<lastSent, current>>
  <2>1. AllSentTip' /\ pauses # 0
    BY <1>2 DEF ReachInv, NeverPaused, AllSentTip
  <2> QED
    BY <1>1, <2>1, ReachStep
<1>3. CASE ~ paused /\ HandlePushedRevisions(c, m, queue)
  <2>1. SynchronizerInv
    BY DEF Steps
  <2>2. m \in PushesTo(c) /\ \A d \in Client \ {c} : toServer'[d] = toServer[d]
    BY <1>1, <2>1, TakeFromClient DEF PushesTo
  <2> HIDE DEF m
  <2>3. Pushed(c, m)
    BY <2>2 DEF Pushed, PushesTo, Steps, MergeInv, MessageInv, PushesFromLast
  <2> QED
    BY <1>1, <1>3, <2>2, <2>3, HandlePushedReaches
<1> QED
  BY <1>1, <1>2, <1>3

(* A server that was never paused has no queue to process.                 *)
LEMMA ProcessQueuedMessageReaches ==
  ASSUME Steps, ReachInv, ProcessQueuedMessage
  PROVE  ReachInv'
<1>1. UNCHANGED <<pauses, losses, paused>> /\ pauses # 0
  BY DEF ProcessQueuedMessage, boundVars, Draining, ReachInv, NeverPaused
<1>2. AllSentTip'
  <2> DEFINE e == Head(queue)
  <2>1. \/ UNCHANGED <<current, lastSent>>
        \/ HandlePushedRevisions(e.client, e.message, Tail(queue))
    BY DEF ProcessQueuedMessage
  <2>2. e.client \in Client
    <3>1. queue \in Seq(QueueRecord) /\ queue # << >>
      BY DEF ProcessQueuedMessage, Draining, Steps, SynchronizerInv, Types
    <3>2. e \in QueueRecord
      BY <3>1, HeadTailProperties, EmptySeq
    <3> QED
      BY <3>2 DEF QueueRecord
  <2> HIDE DEF e
  <2>3. failed' = {} /\ current \in [Site -> Nat]
    BY DEF Steps, Preserved, SynchronizerInv, Types
  <2>4. CASE UNCHANGED <<current, lastSent>>
    BY <2>4 DEF AllSentTip, ReachInv
  <2> QED
    BY <2>1, <2>2, <2>3, <2>4, HandlePushedTips
<1> QED
  BY <1>1, <1>2, ReachStep

\* What client c does not do when client d takes a message.
OthersStay(c) ==
  /\ current'[Server] = current[Server]
  /\ \A d \in Client \ {c} :
       /\ current'[d] = current[d] /\ lastServer'[d] = lastServer[d]
       /\ inTransit'[d] = inTransit[d] /\ toServer'[d] = toServer[d]

\* Client c ignores m, which it does not need.
Ignored(c, m) ==
  /\ UNCHANGED <<history, current, lastServer, inTransit, toServer>>
  /\ current[c] = None => m.class # "setup"
  /\ current[c] # None /\ Extends(c, m.revisions) =>
       ~ (m.class = "push" /\ inTransit[c] = None) /\ ~ Replies(inTransit[c], m)

\* Client c is brought to the last revision of m, and pushes its own.
BroughtTo(c, m) ==
  /\ lastServer'[c] = Max(m.revisions) /\ current'[c] # None
  /\ PushesTo(c) = {}
  /\ inTransit'[c] = None \/ PushesTo(c)' # {}
  /\ inTransit[c] # None => Replies(inTransit[c], m)

(* A client takes what it can use, and ignores nothing that it needs.      *)
LEMMA ClientDoes ==
  ASSUME Steps, NEW c \in Client, ClientReceives(c), NEW m, m = Head(toClient[c])
  PROVE  Writes /\ OthersStay(c) /\ (Ignored(c, m) \/ BroughtTo(c, m))
<1>1. /\ toClient[c] # << >>
      /\ \/ m.class = "setup" /\ HandleSetup(c, m)
         \/ m.class = "push" /\ HandlePush(c, m)
         \/ m.class = "response" /\ HandleResponse(c, m)
      /\ queue' = queue /\ UNCHANGED <<inserted, removed>>
  BY DEF ClientReceives, userVars
<1>2. /\ SynchronizerInv /\ SynchronizerInv' /\ KnowledgeInv /\ Types /\ failed' = {} /\ ClientActs
  BY <1>1 DEF Steps, MergeInv, Preserved, SynchronizerInv, ClientActs
<1>3. m \in AnswersTo(c)
  <2>1. toClient[c] \in Seq(ClientRecord)
    BY <1>2 DEF Types
  <2>2. m \in ElementsOf(toClient[c])
    BY <1>1, <2>1, TailOfMessages
  <2> QED
    BY <2>2 DEF AnswersTo, Answers
<1>4. AnswerOK(history, ServerLine, held[Server], m) /\ AnswerKnows(history, m)
  BY <1>2, <1>3 DEF MessagesOK, AnswersTo, SynchronizerInv, Steps, MergeInv, MessageInv, AnswersKnow
<1>5. /\ ClientOK(history, ServerLine, held[Server], held[c], current[c], lastServer[c],
                  inTransit[c])
      /\ c \in Site /\ c # Server /\ Client \subseteq Site /\ Server \in Site
  BY <1>2, ClientFacts DEF Site
<1>6. "setup" # "push" /\ "setup" # "response" /\ "push" # "response"
  OBVIOUS
<1> DEFINE Result == Writes /\ OthersStay(c) /\ (Ignored(c, m) \/ BroughtTo(c, m))
<1>7. ASSUME UNCHANGED <<history, current, held, clientVars>>,
             current[c] = None => m.class # "setup",
             current[c] # None /\ Extends(c, m.revisions) =>
               ~ (m.class = "push" /\ inTransit[c] = None) /\ ~ Replies(inTransit[c], m)
      PROVE  Result
  <2>1. UNCHANGED <<history, current, held, lastServer, inTransit, toServer>>
    BY <1>7 DEF clientVars
  <2>2. Writes
    BY <1>1, <1>2, <2>1, NothingMovesKnowledge, ServerFacts
  <2>3. Ignored(c, m)
    BY <1>7, <2>1 DEF Ignored
  <2>4. OthersStay(c)
    BY <2>1 DEF OthersStay
  <2> QED
    BY <2>2, <2>3, <2>4
<1>8. ASSUME m.class = "setup", HandleSetup(c, m)
      PROVE  Result
  <2>1. CASE current[c] # None
    BY <1>6, <1>7, <1>8, <2>1 DEF HandleSetup, Replies
  <2>2. CASE current[c] = None
    <3>1. inTransit[c] = None
      BY <1>5, <2>2 DEF ClientOK
    <3>2. PushesTo(c) = {}
      BY <1>2, <3>1, ClientFacts DEF PushOK, PushesTo
    <3>3. /\ UNCHANGED <<inTransit, toServer>>
          /\ current' = [current EXCEPT ![c] = Max(m.revisions)]
          /\ lastServer' = [lastServer EXCEPT ![c] = Max(m.revisions)]
      BY <1>8, <2>2 DEF HandleSetup
    <3>4. current'[c] = Max(m.revisions) /\ lastServer'[c] = Max(m.revisions)
          /\ OthersStay(c)
      BY <1>2, <1>5, <3>3 DEF Types, OthersStay
    <3>5. Writes
      BY <1>2, <1>4, <1>8, SetupKnowledge
    <3>6. current'[c] # None
      <4>1. PICK t \in ServerLine : m.revisions = {t}
        BY <1>4, <1>8 DEF AnswerOK
      <4>2. t \in Nat /\ t # None /\ Max({t}) = t
        <5>1. t \in 1..Len(history)
          BY <1>2, <4>1, ClientFacts
        <5> QED
          BY <5>1, MaxIs DEF None
      <4> QED
        BY <3>4, <4>1, <4>2
    <3>7. BroughtTo(c, m)
      BY <3>1, <3>2, <3>3, <3>4, <3>6 DEF BroughtTo
    <3> QED
      BY <3>4, <3>5, <3>7
  <2> QED
    BY <2>1, <2>2
<1>9. ASSUME Heeded(c, m), HandleRevisions(c, m.revisions)
      PROVE  Result
  <2>1. PICK t : t = Max(m.revisions)
    OBVIOUS
  <2>2. PushesTo(c) = {} /\ (Settles(c, t) \/ Ignores(c, m.revisions) \/ Takes(c, t))
    BY <1>2, <1>9, <2>1, HandleRevisionsCases DEF PushesTo
  <2>3. Writes
    BY <1>2, <1>9, HandleRevisionsKnowledge
  <2>4. inTransit[c] # None => Replies(inTransit[c], m)
    BY <1>9 DEF Heeded, Replies
  <2>5. CASE Settles(c, t)
    <3>1. /\ lastServer' = [lastServer EXCEPT ![c] = t] /\ t = current[c] /\ t \in ServerLine
          /\ inTransit' = [inTransit EXCEPT ![c] = None]
          /\ UNCHANGED <<toServer, current>>
      BY <2>5 DEF Settles
    <3>2. inTransit'[c] = None /\ lastServer'[c] = t /\ OthersStay(c)
      BY <1>2, <3>1 DEF Types, OthersStay
    <3>3. current'[c] # None
      <4>1. t \in 1..Len(history)
        BY <1>2, <3>1, ClientFacts
      <4> QED
        BY <3>1, <4>1 DEF None
    <3>4. BroughtTo(c, m)
      BY <2>1, <2>2, <2>4, <3>2, <3>3 DEF BroughtTo
    <3> QED
      BY <2>3, <3>2, <3>4
  <2>6. CASE Ignores(c, m.revisions)
    <3>1. current[c] # None => lastServer[c] # None
      BY <1>5 DEF ClientOK
    <3> QED
      BY <1>7, <1>9, <2>6, <3>1 DEF Ignores, Heeded
  <2>7. CASE Takes(c, t)
    <3>1. AppliedMarks(c, t)
      BY <1>2, <2>7, ApplyMarks DEF Takes
    <3>2. /\ inTransit'[c] = NowInTransit(current'[c], t, None) /\ lastServer'[c] = t
          /\ PushQueued(c, current'[c], t, None)
          /\ \A d \in Client \ {c} : lastServer'[d] = lastServer[d]
          /\ \A d \in Client \ {c} : inTransit'[d] = inTransit[d]
      BY <3>1 DEF AppliedMarks
    <3>3. /\ current'[c] # None
          /\ \A s \in Site \ {c} : current'[s] = current[s]
      BY <1>2, <2>7, ApplyKnows DEF Takes, AppliedKnows
    <3>4. PushesTo(c)' = Pushes(toServer'[c], queue, c)
      BY <1>1 DEF PushesTo
    <3>5. inTransit'[c] = None \/ PushesTo(c)' # {}
      BY <3>2, <3>4 DEF PushQueued, NowInTransit
    <3>6. BroughtTo(c, m)
      BY <2>1, <2>2, <2>4, <3>2, <3>3, <3>5 DEF BroughtTo
    <3>7. OthersStay(c)
      BY <1>5, <3>2, <3>3 DEF OthersStay, PushQueued
    <3> QED
      BY <2>3, <3>6, <3>7
  <2> QED
    BY <2>2, <2>5, <2>6, <2>7
<1>10. ASSUME m.class = "push", HandlePush(c, m)
       PROVE  Result
  <2>1. CASE inTransit[c] # None
    BY <1>6, <1>7, <1>10, <2>1 DEF HandlePush, Replies
  <2>2. CASE inTransit[c] = None
    BY <1>4, <1>6, <1>9, <1>10, <2>2 DEF HandlePush, Heeded
  <2> QED
    BY <2>1, <2>2
<1>11. ASSUME m.class = "response", HandleResponse(c, m)
       PROVE  Result
  <2>1. CASE m.answers # inTransit[c]
    BY <1>6, <1>7, <1>11, <2>1 DEF HandleResponse, Replies
  <2>2. CASE m.answers = inTransit[c]
    BY <1>4, <1>6, <1>9, <1>11, <2>2 DEF HandleResponse, Heeded, AnswerKnows
  <2> QED
    BY <2>1, <2>2
<1> QED
  BY <1>1, <1>8, <1>10, <1>11

(* Without a queue a push under way is on its way to the server.           *)
LEMMA PushOnItsWay ==
  ASSUME NEW ts, NEW q, NEW c, q = << >>, Pushes(ts, q, c) # {}
  PROVE  ts # << >>
<1>1. Len(<< >>) = 0 /\ 1..0 = {}
  OBVIOUS
<1>2. Waiting(q, c) = {} /\ ElementsOf(<< >>) = {}
  BY <1>1 DEF Waiting, ElementsOf
<1> QED
  BY <1>2 DEF Pushes

\* What client c is sent after m leads from revision u to where the server is.
BroughtOn(c, m, u) ==
  /\ u \in ServerLine /\ Max(m.revisions) = u
  /\ Leads(history, Tail(toClient[c]), 1, u, current[Server])

(* A client that takes a message gets where the message leads.             *)
LEMMA BroughtReaches ==
  ASSUME SynchronizerInv, NEW c \in Client, NEW m, m = Head(toClient[c]), toClient[c] # << >>,
         Reaches(c), BroughtTo(c, m)
  PROVE  \E u : BroughtOn(c, m, u)
<1> DEFINE s == toClient[c]
           old == current[Server]
           last == lastServer[c]
<1>1. /\ s \in Seq(ClientRecord) /\ Len(s) \in Nat \ {0} /\ Head(s) = s[1]
      /\ GoodHistory(history) /\ last \in Nat /\ s # << >>
      /\ \A t \in ServerLine : t \in 1..Len(history)
  <2>1. s \in Seq(ClientRecord) /\ last \in Nat
    BY DEF SynchronizerInv, Types
  <2>2. Len(s) \in Nat \ {0} /\ Head(s) = s[1]
    BY <2>1, HeadTailProperties, EmptySeq, LenProperties
  <2> QED
    BY <2>1, <2>2, ClientFacts
<1>2. toServer[c] = << >>
  <2>1. toServer[c] \in Seq(PushRecord) /\ Pushes(toServer[c], queue, c) = {}
    BY DEF SynchronizerInv, Types, BroughtTo, PushesTo
  <2> QED
    BY <2>1, NoPushes
<1> HIDE DEF s, old, last
<1>3. CASE SettingUp(c)
  <2>1. PICK u \in ServerLine : Head(s).revisions = {u} /\ Leads(history, s, 2, u, old)
    BY <1>3 DEF SettingUp, s, old
  <2>2. Max({u}) = u
    BY <1>1, MaxIs
  <2>3. 2 \in 2..(Len(s) + 1) /\ 2 - 1 = 1
    BY <1>1
  <2>4. Leads(history, Tail(s), 1, u, old)
    BY <1>1, <2>1, <2>3, LeadsAfter
  <2>5. BroughtOn(c, m, u)
    BY <2>1, <2>2, <2>4 DEF BroughtOn, s, old
  <2> QED
    BY <2>5
<1>4. CASE Following(c)
  <2>1. Leads(history, s, 1, last, old)
    BY <1>4 DEF Following, s, old, last
  <2>2. PICK u \in Line(history, old) :
          /\ Head(s).class = "push" /\ last < u
          /\ Head(s).revisions = RevisionsFromTo(history, last, u)
          /\ Leads(history, Tail(s), 1, u, old)
    BY <1>1, <2>1, LeadsFirst
  <2>3. u \in ServerLine
    BY <2>2 DEF ServerLine, old
  <2>4. Max(RevisionsFromTo(history, last, u)) = u
    BY <1>1, <2>2, <2>3, TipOfRange
  <2>5. BroughtOn(c, m, u)
    BY <2>2, <2>3, <2>4 DEF BroughtOn, s, old
  <2> QED
    BY <2>5
<1>5. CASE Answered(c)
  <2>1. inTransit[c] # None
    BY <1>5 DEF Answered
  <2>2. PICK i \in 1..Len(s) : \E u \in ServerLine :
          /\ \A j \in 1..(i - 1) : ~ Replies(inTransit[c], s[j])
          /\ last < u /\ s[i].revisions = RevisionsFromTo(history, last, u)
          /\ Leads(history, s, i + 1, u, old)
    BY <1>5 DEF Answered, s, old, last
  <2>3. PICK u \in ServerLine :
          /\ \A j \in 1..(i - 1) : ~ Replies(inTransit[c], s[j])
          /\ last < u /\ s[i].revisions = RevisionsFromTo(history, last, u)
          /\ Leads(history, s, i + 1, u, old)
    BY <2>2
  <2>4. Replies(inTransit[c], s[1])
    BY <1>1, <2>1 DEF BroughtTo, s
  <2>5. i = 1
    <3>1. ~ (1 \in 1..(i - 1))
      BY <2>3, <2>4
    <3> QED
      BY <1>1, <3>1
  <2>6. 2 \in 2..(Len(s) + 1) /\ 2 - 1 = 1 /\ 1 + 1 = 2
    BY <1>1
  <2>7. Leads(history, Tail(s), 1, u, old)
    BY <1>1, <2>3, <2>5, <2>6, LeadsAfter
  <2>8. Max(RevisionsFromTo(history, last, u)) = u
    BY <1>1, <2>3, TipOfRange
  <2>9. BroughtOn(c, m, u)
    BY <1>1, <2>3, <2>5, <2>7, <2>8 DEF BroughtOn, s, old
  <2> QED
    BY <2>9
<1> QED
  BY <1>2, <1>3, <1>4, <1>5 DEF Reaches

(* A client that ignores a message still gets to where the server is.      *)
LEMMA IgnoredReaches ==
  ASSUME SynchronizerInv, NEW c \in Client, NEW m, m = Head(toClient[c]), toClient[c] # << >>,
         Reaches(c), Ignored(c, m), toClient'[c] = Tail(toClient[c])
  PROVE  Reaches(c)'
<1> DEFINE s == toClient[c]
           z == toClient'[c]
           old == current[Server]
           last == lastServer[c]
<1>1. /\ s \in Seq(ClientRecord) /\ Len(s) \in Nat \ {0} /\ Head(s) = s[1] /\ s # << >>
      /\ z = Tail(s) /\ Len(z) = Len(s) - 1
      /\ \A k \in 1..Len(z) : z[k] = s[k + 1]
  <2>1. s \in Seq(ClientRecord)
    BY DEF SynchronizerInv, Types
  <2> QED
    BY <2>1, HeadTailProperties, EmptySeq, LenProperties
<1>2. UNCHANGED <<history, current, lastServer, inTransit, toServer>> /\ ServerLine' = ServerLine
  BY DEF Ignored, ServerLine
<1> HIDE DEF s, z, old, last
<1>3. CASE toServer[c] # << >>
  BY <1>2, <1>3 DEF Reaches
<1>4. CASE SettingUp(c)
  BY <1>4 DEF SettingUp, Ignored
<1>5. CASE Following(c)
  <2>1. Leads(history, s, 1, last, old) /\ current[c] # None /\ inTransit[c] = None
    BY <1>5 DEF Following, s, old, last
  <2>2. PICK u \in Line(history, old) :
          /\ Head(s).class = "push" /\ last < u
          /\ Head(s).revisions = RevisionsFromTo(history, last, u)
    BY <1>1, <2>1, LeadsFirst
  <2>3. Extends(c, m.revisions)
    BY <2>2 DEF Extends, ServerLine, s, old, last
  <2> QED
    BY <2>1, <2>2, <2>3 DEF Ignored, s
<1>6. CASE Answered(c)
  <2>1. inTransit[c] # None /\ current[c] # None
    BY <1>6 DEF Answered
  <2>2. PICK i \in 1..Len(s) : \E u \in ServerLine :
          /\ Replies(inTransit[c], s[i])
          /\ \A j \in 1..(i - 1) : ~ Replies(inTransit[c], s[j])
          /\ last < u /\ s[i].revisions = RevisionsFromTo(history, last, u)
          /\ Leads(history, s, i + 1, u, old)
    BY <1>6 DEF Answered, s, old, last
  <2>3. PICK u \in ServerLine :
          /\ Replies(inTransit[c], s[i])
          /\ \A j \in 1..(i - 1) : ~ Replies(inTransit[c], s[j])
          /\ last < u /\ s[i].revisions = RevisionsFromTo(history, last, u)
          /\ Leads(history, s, i + 1, u, old)
    BY <2>2
  <2>4. i # 1
    <3>1. ASSUME i = 1
          PROVE  FALSE
      <4>1. Extends(c, m.revisions)
        BY <1>1, <2>3, <3>1 DEF Extends, s, last
      <4> QED
        BY <1>1, <2>1, <2>3, <3>1, <4>1 DEF Ignored, s
    <3> QED
      BY <3>1
  <2>5. /\ i - 1 \in 1..Len(z) /\ (i - 1) + 1 = i
        /\ i + 1 \in 2..(Len(s) + 1) /\ (i + 1) - 1 = i
        /\ \A j \in 1..((i - 1) - 1) : j \in 1..Len(z) /\ j + 1 \in 1..(i - 1)
    BY <1>1, <2>4
  <2>6. Leads(history, z, i, u, old)
    BY <1>1, <2>3, <2>5, LeadsAfter
  <2>7. z[i - 1] = s[i] /\ \A j \in 1..((i - 1) - 1) : ~ Replies(inTransit[c], z[j])
    BY <1>1, <2>3, <2>5
  <2>8. Answered(c)'
    BY <1>2, <2>1, <2>3, <2>5, <2>6, <2>7 DEF Answered, z, old, last
  <2> QED
    BY <2>8 DEF Reaches
<1> QED
  BY <1>3, <1>4, <1>5, <1>6 DEF Reaches

(* A message that is delivered brings its client on.                       *)
LEMMA ClientReceivesReaches ==
  ASSUME Steps, ReachInv, NEW c \in Client, ClientReceives(c)
  PROVE  ReachInv'
<1>1. PICK m : m = Head(toClient[c])
  OBVIOUS
<1>2. Writes /\ OthersStay(c) /\ (Ignored(c, m) \/ BroughtTo(c, m))
  BY <1>1, ClientDoes
<1>3. /\ SynchronizerInv /\ Preserved /\ toClient \in [Client -> Seq(ClientRecord)]
      /\ GoodHistory(history) /\ current[Server] \in 1..Len(history)
      /\ DOMAIN lastSent \in SUBSET Client
  BY ServerFacts DEF Steps, SynchronizerInv, Types
<1>4. /\ UNCHANGED <<lastSent, queue, pauses, losses, paused>> /\ toClient[c] # << >>
      /\ toClient' = [toClient EXCEPT ![c] = Tail(@)]
      /\ current'[Server] = current[Server]
  BY <1>2 DEF ClientReceives, boundVars, OthersStay
<1>5. toClient'[c] = Tail(toClient[c]) /\ \A d \in Client \ {c} : toClient'[d] = toClient[d]
  BY <1>3, <1>4
<1>6. AllSentTip'
  BY <1>4 DEF ReachInv, AllSentTip
<1>7. pauses = 0 => queue' = << >>
  BY <1>4 DEF ReachInv, NeverPaused
<1>8. ASSUME losses = 0, pauses = 0, NEW d \in DOMAIN lastSent'
      PROVE  Reaches(d)'
  <2>1. Reaches(d) /\ d \in Client
    BY <1>3, <1>4, <1>8 DEF ReachInv
  <2>2. CASE d # c
    <3>1. SentNext(d)
      BY <1>4, <1>5, <2>1, <2>2 DEF SentNext, SentOn
    <3>2. /\ current'[d] = current[d] /\ lastServer'[d] = lastServer[d]
          /\ inTransit'[d] = inTransit[d] /\ toServer'[d] = toServer[d]
      BY <1>2, <2>1, <2>2 DEF OthersStay
    <3> QED
      BY <1>2, <1>3, <2>1, <3>1, <3>2, StillReaches
  <2>3. CASE d = c /\ Ignored(c, m)
    BY <1>1, <1>3, <1>4, <1>5, <2>1, <2>3, IgnoredReaches
  <2>4. CASE d = c /\ BroughtTo(c, m)
    <3>1. PICK u : BroughtOn(c, m, u)
      BY <1>1, <1>3, <1>4, <2>1, <2>4, BroughtReaches
    <3>2. CASE inTransit'[c] = None
      <4>1. Leads(history', Tail(toClient[c]), 1, u, current[Server])
        BY <1>2, <1>3, <3>1, LeadsStill DEF BroughtOn, Writes
      <4>2. Following(c)'
        BY <1>4, <1>5, <2>4, <3>1, <3>2, <4>1 DEF Following, BroughtTo, BroughtOn
      <4> QED
        BY <2>4, <4>2 DEF Reaches
    <3>3. CASE PushesTo(c)' # {}
      <4>1. toServer'[c] # << >>
        BY <1>7, <1>8, <3>3, PushOnItsWay DEF PushesTo
      <4> QED
        BY <2>4, <4>1 DEF Reaches
    <3> QED
      BY <2>4, <3>2, <3>3 DEF BroughtTo
  <2> QED
    BY <1>2, <2>2, <2>3, <2>4
<1> QED
  BY <1>4, <1>6, <1>7, <1>8, ReachStep

(* A client that is removed is not brought to the server's revision any    *)
(* more, and the others are.                                               *)
LEMMA RemoveClientIDReaches ==
  ASSUME Steps, ReachInv, NEW c \in Client, RemoveClientID(c)
  PROVE  ReachInv'
<1>1. UNCHANGED <<history, current, lastServer, inTransit, toServer, toClient, queue, pauses,
                  losses, paused>>
  BY DEF RemoveClientID, clientVars
<1>2. lastSent' = [d \in DOMAIN lastSent \ {c} |-> lastSent[d]]
  BY DEF RemoveClientID
<1>3. /\ DOMAIN lastSent' \subseteq DOMAIN lastSent
      /\ \A d \in DOMAIN lastSent' : lastSent'[d] = lastSent[d]
  BY <1>2
<1> QED
  BY <1>1, <1>3, NothingMovesReaches DEF Steps

(* A server that was paused is not claimed to bring its clients anywhere.  *)
LEMMA PauseReaches ==
  ASSUME ReachInv, Pause \/ Unpause
  PROVE  ReachInv'
<1>1. UNCHANGED <<current, lastSent>>
  BY DEF Pause, Unpause, serverVars
<1>2. AllSentTip'
  BY <1>1 DEF ReachInv, AllSentTip
<1>3. pauses' \in Nat /\ pauses' # 0
  <2>1. pauses \in Nat
    BY DEF ReachInv
  <2>2. CASE Pause
    BY <2>1, <2>2 DEF Pause
  <2>3. CASE Unpause
    BY <2>1, <2>3 DEF Unpause, boundVars, ReachInv, NeverPaused
  <2> QED
    BY <2>2, <2>3
<1> QED
  BY <1>2, <1>3 DEF ReachInv, NeverPaused

(* Neither is one when a message was lost.                                 *)
LEMMA LoseReaches ==
  ASSUME Steps, ReachInv, NEW c \in Client, Lose(c)
  PROVE  ReachInv'
<1>1. UNCHANGED <<current, lastSent, paused, queue, pauses>> /\ losses' = losses + 1
  BY DEF Lose
<1>2. AllSentTip'
  BY <1>1 DEF ReachInv, AllSentTip
<1>3. losses' # 0
  <2>1. losses \in Nat
    BY DEF Steps, MergeInv, Counted
  <2> QED
    BY <1>1, <2>1
<1> QED
  BY <1>1, <1>2, <1>3 DEF ReachInv, NeverPaused

(* A commit of the server's user is pushed to its clients.                 *)
LEMMA ServerCommitReaches ==
  ASSUME Steps, ReachInv, NEW items, UserCommits(Server, items)
  PROVE  ReachInv'
<1> DEFINE cur == current'[Server]
<1>1. /\ SynchronizerInv /\ SynchronizerInv' /\ KnowledgeInv /\ Preserved
      /\ edits \in Nat /\ inserted \subseteq 1..edits /\ Server \in Site
      /\ current \in [Site -> Nat]
  BY DEF Steps, MergeInv, Preserved, Counted, Site, SynchronizerInv, Types
<1>2. Writes
  BY <1>1, ServerCommitKnowledge
<1>3. /\ NotifyClients(history', cur, lastSent, responding, queue)
      /\ UNCHANGED <<lastServer, inTransit, toServer, pauses, losses, paused>>
      /\ \A d \in Client : current'[d] = current[d]
  <2>1. /\ NotifyClients(history', cur, lastSent, responding, queue)
        /\ UNCHANGED <<lastServer, inTransit, toServer, pauses, losses, paused>>
    BY DEF UserCommits, DidCommit, clientVars, boundVars
  <2>2. PICK r : current' = [current EXCEPT ![Server] = r]
    BY DEF UserCommits, WriteRevision
  <2>3. \A d \in Client : d \in Site /\ d # Server
    BY SynchronizerAssumption DEF Site
  <2> QED
    BY <1>1, <2>1, <2>2, <2>3
<1>4. /\ AllTold(history', cur, lastSent, Nobody, queue) /\ DOMAIN lastSent \in SUBSET Client
      /\ cur \in 1..Len(history')
  <2>1. /\ DOMAIN lastSent \in SUBSET Client /\ IsFiniteSet(DOMAIN lastSent)
        /\ queue \in Seq(QueueRecord) /\ toClient \in [Client -> Seq(ClientRecord)]
        /\ responding = Nobody /\ failed' = {}
    BY <1>1 DEF SynchronizerInv, Types, ServerOK
  <2>2. GoodHistory(history') /\ cur \in 1..Len(history')
    BY <1>1, LocatedNext DEF Located
  <2> QED
    BY <1>3, <2>1, <2>2, NotifyClientsTells
<1>5. lastSent' = [c \in DOMAIN lastSent |-> cur]
  BY <1>4 DEF AllTold
<1>6. AllSentTip'
  BY <1>5 DEF AllSentTip
<1>7. pauses = 0 => queue' = queue /\ queue = << >> /\ ~ paused
  BY <1>4 DEF AllTold, ReachInv, NeverPaused
<1>8. ASSUME losses = 0, pauses = 0, NEW d \in DOMAIN lastSent'
      PROVE  Reaches(d)'
  <2>1. Reaches(d) /\ d \in Client /\ d \in DOMAIN lastSent /\ lastSent[d] = current[Server]
    BY <1>4, <1>5, <1>8 DEF ReachInv, AllSentTip
  <2>2. toClient'[d] = IF Lacks(lastSent, cur, d)
                       THEN Append(toClient[d], Told(history', cur, lastSent, Nobody, d))
                       ELSE toClient[d]
    BY <1>4, <1>7, <1>8, <2>1 DEF AllTold
  <2>3. Told(history', cur, lastSent, Nobody, d)
          = PushMessage(RevisionsFromTo(history', current[Server], cur))
    BY <2>1, SynchronizerAssumption DEF Told, Nobody
  <2>4. SentNext(d)
    BY <2>1, <2>2, <2>3 DEF SentNext, SentOn, Lacks
  <2> QED
    BY <1>1, <1>2, <1>3, <2>1, <2>4, StillReaches
<1> QED
  BY <1>3, <1>6, <1>7, <1>8, ReachStep

(* A commit of a client's user is pushed, or waits for an answer.          *)
LEMMA ClientCommitReaches ==
  ASSUME Steps, ReachInv, NEW c \in Client, NEW items, UserCommits(c, items)
  PROVE  ReachInv'
<1>1. /\ SynchronizerInv /\ SynchronizerInv' /\ KnowledgeInv /\ Types /\ Preserved
      /\ edits \in Nat /\ inserted \subseteq 1..edits /\ c \in Site /\ c # Server
      /\ GoodHistory(history) /\ Len(history) \in Nat /\ DOMAIN lastSent \in SUBSET Client
  BY ClientFacts DEF Steps, MergeInv, Preserved, Counted, Types
<1>2. Writes
  BY <1>1, ClientCommitKnowledge
<1>3. /\ SendPush(c, history', current'[c], lastServer[c], inTransit[c])
      /\ UNCHANGED <<lastServer, lastSent, toClient, queue, pauses, losses, paused>>
  BY <1>1 DEF UserCommits, DidCommit, serverVars, boundVars
<1>4. /\ current[c] # None /\ current'[c] # None
      /\ \A d \in Client \ {c} : current'[d] = current[d]
      /\ current'[Server] = current[Server]
  <2>1. current' = [current EXCEPT ![c] = Len(history) + 1] /\ current[c] # None
    BY DEF UserCommits, WriteRevision
  <2>2. Client \subseteq Site /\ Server \in Site /\ Len(history) + 1 # None
    BY <1>1 DEF Site, None
  <2> QED
    BY <1>1, <2>1, <2>2 DEF Types
<1>5. Line(history', current'[c]) \in SUBSET Nat
  BY <1>1, <1>4, LocatedNext DEF Located, GoodHistory
<1>6. PushQueued(c, current'[c], lastServer[c], inTransit[c])
  BY <1>1, <1>3, <1>5, SendPushQueues DEF SynchronizerInv, Types
<1>7. /\ inTransit'[c] = NowInTransit(current'[c], lastServer[c], inTransit[c])
      /\ \A d \in Client \ {c} : inTransit'[d] = inTransit[d]
  BY <1>1, <1>3, SendPushMarks DEF SynchronizerInv, Types
<1>8. AllSentTip' /\ (pauses = 0 => queue' = << >>)
  BY <1>3, <1>4 DEF ReachInv, AllSentTip, NeverPaused
<1>9. ASSUME losses = 0, pauses = 0, NEW d \in DOMAIN lastSent'
      PROVE  Reaches(d)'
  <2>1. Reaches(d) /\ d \in Client
    BY <1>1, <1>3, <1>9 DEF ReachInv
  <2>2. SentNext(d)
    BY <1>3, <1>4 DEF SentNext, SentOn
  <2>3. CASE d # c
    <3>1. /\ current'[d] = current[d] /\ lastServer'[d] = lastServer[d]
          /\ inTransit'[d] = inTransit[d] /\ toServer'[d] = toServer[d]
      BY <1>3, <1>4, <1>6, <1>7, <2>1, <2>3 DEF PushQueued
    <3> QED
      BY <1>1, <1>2, <2>1, <2>2, <3>1, StillReaches
  <2>4. CASE d = c /\ HasToPush(current'[c], lastServer[c], inTransit[c])
    <3>1. Pushes(toServer'[c], queue, c) # {}
      BY <1>6, <2>4 DEF PushQueued
    <3>2. toServer'[c] # << >>
      BY <1>3, <1>8, <1>9, <3>1, PushOnItsWay
    <3> QED
      BY <2>4, <3>2 DEF Reaches
  <2>5. CASE d = c /\ ~ HasToPush(current'[c], lastServer[c], inTransit[c])
    <3>1. inTransit'[c] = inTransit[c] /\ toServer' = toServer /\ lastServer' = lastServer
      BY <1>3, <1>7, <2>5 DEF NowInTransit, SendPush
    <3> QED
      BY <1>1, <1>2, <1>4, <2>1, <2>2, <2>5, <3>1, StillReaches
  <2> QED
    BY <2>3, <2>4, <2>5
<1> QED
  BY <1>3, <1>8, <1>9, ReachStep

(* At first the server has no clients.                                     *)
LEMMA InitReaches == Init => ReachInv
<1> SUFFICES ASSUME Init PROVE ReachInv
  OBVIOUS
<1>1. DOMAIN lastSent = {}
  <2>1. lastSent = << >>
    BY DEF Init
  <2> QED
    BY <2>1
<1>2. pauses = 0 /\ queue = << >>
  BY DEF Init
<1>3. ~ paused
  BY Zenon DEF Init
<1>4. AllSentTip
  BY <1>1 DEF AllSentTip
<1> QED
  BY <1>1, <1>2, <1>3, <1>4 DEF ReachInv, NeverPaused

(* Every action keeps the server's clients on their way.                   *)
LEMMA NextReaches ==
  ASSUME SynchronizerInv, MergeInv, ReachInv, [Next]_vars
  PROVE  ReachInv'
<1>1. Steps
  BY NextInv DEF Steps
<1>2. ASSUME NEW c \in Client,
             AddClientID(c) \/ RemoveClientID(c) \/ ServerReceives(c)
               \/ ClientReceives(c) \/ Lose(c)
      PROVE  ReachInv'
  BY <1>1, <1>2, AddClientIDReaches, RemoveClientIDReaches, ServerReceivesReaches,
     ClientReceivesReaches, LoseReaches
<1>3. CASE UNCHANGED vars
  BY <1>3, NothingMovesReaches DEF vars
<1>4. CASE Pause \/ Unpause
  BY <1>4, PauseReaches
<1>5. CASE ProcessQueuedMessage
  BY <1>1, <1>5, ProcessQueuedMessageReaches
<1>6. ASSUME NEW s \in Site, InsertItem(s) \/ RemoveItem(s)
      PROVE  ReachInv'
  <2>1. PICK items : UserCommits(s, items)
    BY <1>6, EditsCommit
  <2>2. s = Server \/ s \in Client
    BY DEF Site
  <2> QED
    BY <1>1, <2>1, <2>2, ServerCommitReaches, ClientCommitReaches
<1> QED
  BY <1>2, <1>3, <1>4, <1>5, <1>6 DEF Next

(* As long as nothing is lost and the server is never paused, every client *)
(* of the server has a push to be answered, or under way to it is what     *)
(* leads from its revision to the server's.                                *)
THEOREM SynchronizerReaches == Spec => []ReachInv
<1>1. SynchronizerInv /\ MergeInv /\ ReachInv /\ [Next]_vars => ReachInv'
  BY NextReaches
<1> QED
  BY <1>1, InitReaches, SynchronizerCorrect, SynchronizerMerges, PTL DEF Spec

(* When every message is handled and none was lost, every client of a      *)
(* server that was never paused has its branch at the server's revision    *)
(* (COSynchronizerClient.h:38).                                            *)
THEOREM ClientsAlwaysConverge == Spec => []ClientsConvergeUnpaused
<1>1. SynchronizerInv /\ ReachInv => ClientsConvergeUnpaused
  <2> SUFFICES ASSUME SynchronizerInv, ReachInv, pauses = 0, Quiescent, losses = 0,
                      NEW c \in DOMAIN lastSent
               PROVE  current[c] = current[Server]
    BY DEF ClientsConvergeUnpaused, ClientsConverge
  <2>1. c \in Client
    BY DEF SynchronizerInv, Types
  <2>2. toServer[c] = << >> /\ toClient[c] = << >> /\ Reaches(c)
    BY <2>1 DEF Quiescent, ReachInv
  <2>3. ~ SettingUp(c)
    BY <2>2 DEF SettingUp
  <2>4. Len(<< >>) = 0 /\ 1..0 = {} /\ 0 + 1 = 1
    OBVIOUS
  <2>5. ~ Answered(c)
    BY <2>2, <2>4 DEF Answered
  <2>6. Following(c)
    BY <2>2, <2>3, <2>5 DEF Reaches
  <2>7. inTransit[c] = None /\ Leads(history, << >>, 1, lastServer[c], current[Server])
    BY <2>2, <2>6 DEF Following
  <2>8. lastServer[c] = current[Server]
    BY <2>4, <2>7 DEF Leads
  <2> QED
    BY <2>1, <2>7, <2>8, ClientFacts DEF ClientOK
<1> QED
  BY <1>1, SynchronizerCorrect, SynchronizerReaches, PTL

=============================================================================
