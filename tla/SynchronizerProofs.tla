------------------------- MODULE SynchronizerProofs -------------------------
(***************************************************************************)
(* Proofs about the push synchronizer, for any number of clients, commits, *)
(* pauses, lost messages and removed clients.                              *)
(***************************************************************************)
EXTENDS Synchronizer, TLAPS, FiniteSetTheorems, SequenceTheorems,
        WellFoundedInduction

-----------------------------------------------------------------------------
(* Greatest elements                                                       *)

(* The greatest element of a set is the one that is not below another.     *)
LEMMA MaxIs ==
  ASSUME NEW S \in SUBSET Nat, NEW x \in S, \A y \in S : x >= y
  PROVE  Max(S) = x
<1>1. \A z \in S : (\A y \in S : z >= y) => z = x
  OBVIOUS
<1> QED
  BY <1>1 DEF Max

(* A set of numbers up to n that has an element has a greatest one.        *)
LEMMA MaxExists ==
  ASSUME NEW n \in Nat, NEW S \in SUBSET (0..n), S # {}
  PROVE  Max(S) \in S /\ \A y \in S : Max(S) >= y
<1> DEFINE Less == {p \in Nat \X Nat : p[1] < p[2]}
           T == {n - x : x \in S}
<1>1. OpToRel(<, Nat) = Less
  BY DEF OpToRel
<1>2. IsWellFoundedOn(Less, Nat)
  BY <1>1, NatLessThanWellFounded
<1>3. T \in SUBSET Nat /\ T # {}
  <2>1. \A x \in S : n - x \in Nat
    OBVIOUS
  <2> QED
    BY <2>1
<1>4. PICK m \in T : \A k \in T : <<k, m>> \notin Less
  <2> HIDE DEF Less, T
  <2> QED
    BY <1>2, <1>3, WFMin
<1>5. PICK x \in S : m = n - x
  OBVIOUS
<1>6. \A y \in S : x >= y
  <2> SUFFICES ASSUME NEW y \in S, y > x
               PROVE  FALSE
    OBVIOUS
  <2>1. n - y \in T /\ n - y \in Nat /\ m \in Nat /\ n - y < m
    BY <1>5
  <2>2. <<n - y, m>> \in Less
    BY <2>1
  <2> QED
    BY <1>4, <2>1, <2>2
<1>7. Max(S) = x
  <2>1. S \in SUBSET Nat
    OBVIOUS
  <2> QED
    BY <1>6, <2>1, MaxIs
<1> QED
  BY <1>6, <1>7

-----------------------------------------------------------------------------
(* Histories                                                               *)

IsSequence(h) == h \in Seq({h[i] : i \in 1..Len(h)})

(* Every line starts at the first revision, and the line of an ancestor is *)
(* the part of the line up to it.                                          *)
GoodHistory(h) ==
  /\ IsSequence(h)
  /\ Len(h) \in Nat \ {0}
  /\ \A r \in 1..Len(h) :
       /\ Line(h, r) \subseteq 1..r
       /\ 1 \in Line(h, r) /\ r \in Line(h, r)
       /\ \A a \in Line(h, r) : Line(h, a) = Line(h, r) \cap 1..a

(* g is h with revisions written in turn on top of dest.                   *)
Grown(h, g, dest) ==
  /\ IsSequence(g)
  /\ Len(g) \in Nat /\ Len(g) >= Len(h)
  /\ \A r \in 1..Len(h) : Line(g, r) = Line(h, r)
  /\ \A r \in (Len(h) + 1)..Len(g) :
       Line(g, r) = Line(h, dest) \cup (Len(h) + 1)..r

(* A history stays one when revisions are written.                         *)
LEMMA GrownIsGood ==
  ASSUME NEW h, NEW g, NEW dest, GoodHistory(h), dest \in 1..Len(h), Grown(h, g, dest)
  PROVE  GoodHistory(g)
<1> USE DEF GoodHistory, Grown
<1>1. ASSUME NEW r \in 1..Len(g)
      PROVE  /\ Line(g, r) \subseteq 1..r
             /\ 1 \in Line(g, r) /\ r \in Line(g, r)
             /\ \A a \in Line(g, r) : Line(g, a) = Line(g, r) \cap 1..a
  <2>1. CASE r \in 1..Len(h)
    <3>1. Line(h, r) \subseteq 1..Len(h)
      BY <2>1
    <3> QED
      BY <2>1, <3>1
  <2>2. CASE r \in (Len(h) + 1)..Len(g)
    <3>1. Line(h, dest) \subseteq 1..dest /\ dest \in 1..Len(h) /\ 1 \in Line(h, dest)
      OBVIOUS
    <3>2. Line(g, r) = Line(h, dest) \cup (Len(h) + 1)..r
      BY <2>2
    <3>3. ASSUME NEW a \in Line(h, dest)
          PROVE  Line(g, a) = Line(g, r) \cap 1..a
      <4>1. a \in 1..Len(h) /\ Line(g, a) = Line(h, dest) \cap 1..a
        BY <3>1
      <4> QED
        BY <3>1, <3>2, <4>1, <2>2
    <3>4. ASSUME NEW a \in (Len(h) + 1)..r
          PROVE  Line(g, a) = Line(g, r) \cap 1..a
      <4>1. Line(g, a) = Line(h, dest) \cup (Len(h) + 1)..a
        BY <2>2
      <4> QED
        BY <3>1, <3>2, <4>1, <2>2
    <3> QED
      BY <2>2, <3>1, <3>2, <3>3, <3>4
  <2> QED
    BY <2>1, <2>2
<1> QED
  BY <1>1

(* Committing writes one revision.                                         *)
LEMMA AppendGrows ==
  ASSUME NEW h, NEW dest, NEW x, GoodHistory(h), dest \in 1..Len(h)
  PROVE  LET r == Len(h) + 1
             g == Append(h, [line |-> Line(h, dest) \cup {r}, items |-> x])
         IN  Grown(h, g, dest) /\ Len(g) = Len(h) + 1
<1> DEFINE r == Len(h) + 1
           e == [line |-> Line(h, dest) \cup {r}, items |-> x]
           g == Append(h, e)
           X == {h[i] : i \in 1..Len(h)} \cup {e}
<1>1. h \in Seq({h[i] : i \in 1..Len(h)}) /\ Len(h) \in Nat
  BY DEF GoodHistory, IsSequence
<1>2. h \in Seq(X) /\ e \in X
  BY <1>1, SeqMonotonic, Zenon
<1>3. /\ g \in Seq(X) /\ Len(g) = Len(h) + 1
      /\ \A i \in 1..Len(h) : g[i] = h[i]
      /\ g[Len(h) + 1] = e
  <2> HIDE DEF X, e
  <2> QED
    BY <1>1, <1>2, AppendProperties
<1>4. \A i \in 1..Len(g) : g[i] \in {g[j] : j \in 1..Len(g)}
  OBVIOUS
<1>5. IsSequence(g)
  <2> HIDE DEF X, g
  <2>1. Len(g) \in Nat /\ g \in [1..Len(g) -> X]
    BY <1>3, LenProperties
  <2>2. g \in [1..Len(g) -> {g[j] : j \in 1..Len(g)}]
    BY <2>1, <1>4
  <2> QED
    BY <2>1, <2>2, SeqDef DEF IsSequence
<1>6. e.line = Line(h, dest) \cup {r}
  OBVIOUS
<1> QED
  <2> HIDE DEF g, e
  <2>1. \A i \in 1..Len(h) : Line(g, i) = Line(h, i)
    BY <1>3 DEF Line
  <2>2. Line(g, r) = Line(h, dest) \cup {r}
    BY <1>3, <1>6 DEF Line
  <2>3. Grown(h, g, dest) /\ Len(g) = Len(h) + 1
    BY <1>1, <1>3, <1>5, <2>1, <2>2 DEF Grown
  <2> QED
    BY <2>3 DEF g, e

(* The revisions of a line after one of them are finitely many.            *)
LEMMA RangeFinite ==
  ASSUME NEW h, NEW start, NEW end, GoodHistory(h), end \in 1..Len(h)
  PROVE  /\ RevisionsFromTo(h, start, end) \in SUBSET (1..Len(h))
         /\ IsFiniteSet(RevisionsFromTo(h, start, end))
         /\ Cardinality(RevisionsFromTo(h, start, end)) \in Nat
<1>1. Len(h) \in Nat /\ Line(h, end) \subseteq 1..end
  BY DEF GoodHistory
<1>2. RevisionsFromTo(h, start, end) \in SUBSET (1..Len(h))
  BY <1>1 DEF RevisionsFromTo
<1>3. IsFiniteSet(1..Len(h))
  BY <1>1, FS_Interval
<1> QED
  BY <1>2, <1>3, FS_Subset, FS_CardinalityType

(* Rebasing writes a revision for each it rebases.                         *)
LEMMA RebaseGrows ==
  ASSUME NEW h, NEW source, NEW dest, NEW ancestor, GoodHistory(h),
         source \in 1..Len(h), dest \in 1..Len(h), ancestor \in Nat
  PROVE  LET g == Rebase(h, source, dest, ancestor)
         IN  /\ Grown(h, g, dest)
             /\ source > ancestor => Len(g) > Len(h)
<1> DEFINE S == RevisionsFromTo(h, ancestor, source)
           n == Cardinality(S)
           items == RebasedItems(h, InOrder(S), dest, ancestor)
           t == [k \in 1..n |-> [line  |-> Line(h, dest) \cup (Len(h) + 1)..(Len(h) + k),
                                 items |-> items[k]]]
           g == h \o t
           T == {t[k] : k \in 1..n}
           X == {h[i] : i \in 1..Len(h)} \cup T
<1>1. h \in Seq({h[i] : i \in 1..Len(h)}) /\ Len(h) \in Nat
  BY DEF GoodHistory, IsSequence
<1>2. n \in Nat /\ IsFiniteSet(S)
  BY RangeFinite
<1>3. h \in Seq(X)
  BY <1>1, SeqMonotonic, Zenon
<1>4. /\ \A k \in 1..n : t[k].line = Line(h, dest) \cup (Len(h) + 1)..(Len(h) + k)
      /\ DOMAIN t = 1..n /\ t = [k \in 1..n |-> t[k]]
  <2> HIDE DEF n, items
  <2> QED
    OBVIOUS
<1>5. t \in Seq(X) /\ Len(t) = n
  <2> HIDE DEF n, t
  <2>1. t \in [1..n -> X]
    BY <1>4
  <2> HIDE DEF X
  <2>2. t \in Seq(X)
    BY <1>2, <2>1, SeqDef
  <2>3. Len(t) \in Nat /\ DOMAIN t = 1..Len(t)
    BY <2>2, LenProperties
  <2> QED
    BY <1>2, <1>4, <2>2, <2>3
<1>6. /\ g \in Seq(X) /\ Len(g) = Len(h) + n
      /\ \A i \in 1..(Len(h) + n) : g[i] = IF i <= Len(h) THEN h[i] ELSE t[i - Len(h)]
  <2> HIDE DEF X, n, t
  <2> QED
    BY <1>3, <1>5, ConcatProperties
<1>7. IsSequence(g)
  <2> HIDE DEF X, g
  <2>1. Len(g) \in Nat /\ g \in [1..Len(g) -> X]
    BY <1>6, LenProperties
  <2>2. g \in [1..Len(g) -> {g[j] : j \in 1..Len(g)}]
    BY <2>1
  <2> QED
    BY <2>1, <2>2, SeqDef DEF IsSequence
<1>8. source > ancestor => n > 0
  <2> SUFFICES ASSUME source > ancestor
               PROVE  n # 0
    BY <1>2
  <2>1. source \in S
    BY DEF RevisionsFromTo, GoodHistory
  <2> HIDE DEF S
  <2> QED
    BY <1>2, <2>1, FS_EmptySet
<1>9. Grown(h, g, dest) /\ Len(g) = Len(h) + n
  <2> HIDE DEF g, t, n, X, T, S, items
  <2>1. \A i \in 1..Len(h) : Line(g, i) = Line(h, i)
    BY SMTT(30), <1>1, <1>2, <1>6 DEF Line
  <2>2. ASSUME NEW r \in (Len(h) + 1)..(Len(h) + n)
        PROVE  Line(g, r) = Line(h, dest) \cup (Len(h) + 1)..r
    <3>1. r - Len(h) \in 1..n /\ Len(h) + (r - Len(h)) = r /\ ~ (r <= Len(h))
      BY <1>1, <1>2
    <3>2. g[r] = t[r - Len(h)]
      BY SMTT(30), <1>1, <1>2, <1>6, <3>1
    <3>3. t[r - Len(h)].line = Line(h, dest) \cup (Len(h) + 1)..r
      BY <1>4, <3>1
    <3> QED
      BY <3>2, <3>3 DEF Line
  <2> QED
    BY SMTT(30), <1>1, <1>2, <1>6, <1>7, <2>1, <2>2 DEF Grown
<1>10. g = Rebase(h, source, dest, ancestor)
  BY DEF Rebase
<1> QED
  <2> HIDE DEF g, n, t, items, S, T, X
  <2> QED
    BY <1>1, <1>2, <1>8, <1>9, <1>10

-----------------------------------------------------------------------------
(* Stores                                                                  *)

(* A store that is not empty has a first revision, and with a revision the *)
(* ones of its line from the first on.                                     *)
Rooted(h, S) ==
  \E b \in S : \A r \in S : b \in Line(h, r) /\ RevisionsFromTo(h, b, r) \subseteq S

StoreOK(h, S) == S \in SUBSET (1..Len(h)) /\ (S = {} \/ Rooted(h, S))

(* Revisions written anywhere leave a store as it is.                      *)
LEMMA StoreOKGrown ==
  ASSUME NEW h, NEW g, NEW dest, Grown(h, g, dest), GoodHistory(h), NEW S, StoreOK(h, S)
  PROVE  StoreOK(g, S)
<1>1. S \in SUBSET (1..Len(g))
  BY DEF StoreOK, Grown, GoodHistory
<1>2. \A r \in S : Line(g, r) = Line(h, r)
  BY DEF StoreOK, Grown
<1>3. ASSUME Rooted(h, S)
      PROVE  Rooted(g, S)
  <2>1. PICK b \in S : \A r \in S : b \in Line(h, r) /\ RevisionsFromTo(h, b, r) \subseteq S
    BY <1>3 DEF Rooted
  <2>2. \A r \in S : b \in Line(g, r) /\ RevisionsFromTo(g, b, r) \subseteq S
    BY <1>2, <2>1 DEF RevisionsFromTo
  <2> QED
    BY <2>2 DEF Rooted
<1> QED
  BY <1>1, <1>3 DEF StoreOK

(* A store takes the revisions a site writes on top of one it holds.       *)
LEMMA StoreTakesNew ==
  ASSUME NEW h, NEW g, NEW S, NEW dest \in S, Grown(h, g, dest), GoodHistory(h),
         StoreOK(h, S)
  PROVE  StoreOK(g, S \cup (Len(h) + 1)..Len(g))
<1> DEFINE N == (Len(h) + 1)..Len(g)
<1>1. StoreOK(g, S) /\ dest \in 1..Len(h) /\ GoodHistory(g)
  BY StoreOKGrown, GrownIsGood DEF StoreOK
<1>2. PICK b \in S : \A r \in S : b \in Line(g, r) /\ RevisionsFromTo(g, b, r) \subseteq S
  BY <1>1 DEF StoreOK, Rooted
<1>3. Len(h) \in Nat /\ Len(g) \in Nat /\ S \in SUBSET (1..Len(h))
  BY DEF GoodHistory, Grown, StoreOK
<1>4. ASSUME NEW r \in N
      PROVE  b \in Line(g, r) /\ RevisionsFromTo(g, b, r) \subseteq S \cup N
  <2>1. Line(g, r) = Line(g, dest) \cup (Len(h) + 1)..r
    BY <1>1 DEF Grown
  <2>2. b \in Line(g, dest) /\ RevisionsFromTo(g, b, dest) \subseteq S
    BY <1>2
  <2>3. (Len(h) + 1)..r \subseteq N
    BY <1>3
  <2> HIDE DEF N
  <2> QED
    BY <2>1, <2>2, <2>3 DEF RevisionsFromTo
<1>5. S \cup N \in SUBSET (1..Len(g))
  <2>1. Len(g) >= Len(h)
    BY DEF Grown
  <2>2. \A r \in S : r \in 1..Len(g)
    BY <1>3, <2>1
  <2>3. \A r \in N : r \in 1..Len(g)
    BY <1>3
  <2> QED
    BY <2>2, <2>3
<1> HIDE DEF N
<1>6. Rooted(g, S \cup N)
  BY <1>2, <1>4 DEF Rooted
<1> QED
  BY <1>5, <1>6 DEF StoreOK, N

(* A store takes the revisions that follow one it holds.                   *)
LEMMA StoreTakesRange ==
  ASSUME NEW h, NEW S, NEW start \in S, NEW tip \in 1..Len(h), start \in Line(h, tip),
         GoodHistory(h), StoreOK(h, S)
  PROVE  StoreOK(h, S \cup RevisionsFromTo(h, start, tip))
<1> DEFINE N == RevisionsFromTo(h, start, tip)
<1>1. N \in SUBSET (1..Len(h)) /\ S \in SUBSET (1..Len(h)) /\ Len(h) \in Nat
  BY RangeFinite DEF StoreOK, GoodHistory
<1>2. PICK b \in S : \A r \in S : b \in Line(h, r) /\ RevisionsFromTo(h, b, r) \subseteq S
  BY DEF StoreOK, Rooted
<1>3. ASSUME NEW r \in N
      PROVE  b \in Line(h, r) /\ RevisionsFromTo(h, b, r) \subseteq S \cup N
  <2>1. r \in Line(h, tip) /\ r > start
    BY DEF RevisionsFromTo
  <2>2. /\ Line(h, r) = Line(h, tip) \cap 1..r
        /\ Line(h, start) = Line(h, tip) \cap 1..start
        /\ Line(h, start) \in SUBSET (1..Len(h)) /\ Line(h, r) \in SUBSET (1..Len(h))
    BY <1>1, <2>1 DEF GoodHistory
  <2>3. b \in Line(h, start) /\ RevisionsFromTo(h, b, start) \subseteq S
    BY <1>2
  <2>4. Line(h, start) \subseteq Line(h, r)
    BY <1>1, <2>1, <2>2
  <2>5. ASSUME NEW x \in Line(h, r), x > b
        PROVE  x \in S \cup N
    <3>1. CASE x > start
      BY <2>2, <3>1 DEF RevisionsFromTo
    <3>2. CASE x <= start
      <4>1. x \in Line(h, start)
        BY <1>1, <2>2, <3>2
      <4> QED
        BY <2>3, <2>5, <4>1 DEF RevisionsFromTo
    <3> QED
      BY <1>1, <2>2, <3>1, <3>2
  <2> HIDE DEF N
  <2> QED
    BY <2>3, <2>4, <2>5 DEF RevisionsFromTo
<1> HIDE DEF N
<1>4. Rooted(h, S \cup N)
  <2>1. \A r \in S : RevisionsFromTo(h, b, r) \subseteq S \cup N
    BY <1>2
  <2> QED
    BY <1>2, <1>3, <2>1 DEF Rooted
<1> QED
  BY <1>1, <1>4 DEF StoreOK, N

(* In such a store only the first revision lacks its parent.               *)
LEMMA ParentsInStore ==
  ASSUME NEW h, NEW S, GoodHistory(h), StoreOK(h, S), NEW r \in S
  PROVE  Parent(h, r) \in S \/ r = Min(S)
<1>1. PICK b \in S : \A x \in S : b \in Line(h, x) /\ RevisionsFromTo(h, b, x) \subseteq S
  BY DEF StoreOK, Rooted
<1>2. Len(h) \in Nat /\ S \in SUBSET (1..Len(h))
  BY DEF GoodHistory, StoreOK
<1>3. \A x \in S : Line(h, x) \subseteq 1..x
  BY <1>2 DEF GoodHistory
<1>4. CASE r = b
  <2>1. \A x \in S : b <= x
    BY <1>1, <1>2, <1>3
  <2>2. \A z \in S : (\A y \in S : z <= y) => z = b
    BY <1>2, <2>1
  <2>3. Min(S) = b
    BY <2>1, <2>2 DEF Min
  <2> QED
    BY <1>4, <2>3
<1>5. CASE r # b
  <2> DEFINE above == Line(h, r) \ {r}
  <2>1. b \in above /\ r \in Nat /\ above \in SUBSET (0..r)
    BY <1>1, <1>2, <1>3, <1>5
  <2> HIDE DEF above
  <2>2. Max(above) \in above /\ \A y \in above : Max(above) >= y
    BY <2>1, MaxExists
  <2>3. Parent(h, r) = Max(above)
    BY <2>1 DEF Parent, above
  <2>4. Max(above) \in Line(h, r) /\ Max(above) >= b /\ b \in Nat /\ Max(above) \in Nat
    BY <2>1, <2>2 DEF above
  <2> QED
    BY <1>1, <2>3, <2>4 DEF RevisionsFromTo
<1> QED
  BY <1>4, <1>5

(* What follows a revision of a line on that line.                         *)
LEMMA TipOfRange ==
  ASSUME NEW h, GoodHistory(h), NEW tip \in 1..Len(h), NEW start \in Nat, start < tip
  PROVE  Max(RevisionsFromTo(h, start, tip)) = tip
<1> DEFINE S == RevisionsFromTo(h, start, tip)
<1>1. Line(h, tip) \subseteq 1..tip /\ tip \in Line(h, tip) /\ Len(h) \in Nat
  BY DEF GoodHistory
<1>2. S \in SUBSET Nat /\ tip \in S /\ \A y \in S : tip >= y
  BY <1>1 DEF RevisionsFromTo
<1> HIDE DEF S
<1>3. Max(S) = tip
  BY <1>2, MaxIs
<1> QED
  BY <1>3 DEF S

(* The first of the revisions received that follow the last one known is   *)
(* unique, and with what comes after it makes up what follows that one.    *)
LEMMA FollowersOfLast ==
  ASSUME NEW h, GoodHistory(h), NEW tip \in 1..Len(h), NEW start \in Nat,
         NEW last \in Nat \ {None},
         NEW next, next # {},
         \A r : r \in next <=> r \in RevisionsFromTo(h, start, tip) /\ Parent(h, r) = last
  PROVE  /\ last \in Line(h, tip) /\ last < tip
         /\ \A r : (r \in RevisionsFromTo(h, start, tip) /\ r >= Max(next))
                   <=> r \in RevisionsFromTo(h, last, tip)
<1>1. PICK n \in next : TRUE
  OBVIOUS
<1>2. /\ Len(h) \in Nat /\ tip \in Line(h, tip) /\ Line(h, tip) \in SUBSET (1..tip)
      /\ \A a \in Line(h, tip) : /\ a \in 1..tip /\ a \in Line(h, a)
                                 /\ Line(h, a) = Line(h, tip) \cap 1..a
  BY DEF GoodHistory
<1>3. ASSUME NEW m \in next
      PROVE  /\ m \in Line(h, tip) /\ m > start /\ last \in Line(h, tip) /\ last < m
             /\ \A y \in Line(h, tip) : y < m => y <= last
  <2> DEFINE above == Line(h, m) \ {m}
  <2>1. m \in Line(h, tip) /\ m > start /\ Parent(h, m) = last
    BY <1>3 DEF RevisionsFromTo
  <2>2. above # {} /\ Max(above) = last
    BY <2>1 DEF Parent
  <2>3. m \in Nat /\ above \in SUBSET (0..m) /\ above = {y \in Line(h, tip) : y < m}
    BY <1>2, <2>1
  <2> HIDE DEF above
  <2>4. last \in above /\ \A y \in above : last >= y
    BY <2>2, <2>3, MaxExists
  <2> QED
    BY <1>2, <2>1, <2>3, <2>4
<1>4. \A m \in next : m = n
  BY <1>1, <1>2, <1>3
<1>5. Max(next) = n
  BY <1>2, <1>3, <1>4, MaxIs
<1>6. \A r \in Line(h, tip) : r >= n <=> r > last
  BY <1>1, <1>2, <1>3
<1>7. \A r : (r \in RevisionsFromTo(h, start, tip) /\ r >= Max(next))
            <=> r \in RevisionsFromTo(h, last, tip)
  <2>1. n \in Line(h, tip) /\ n > start
    BY <1>1, <1>3
  <2>2. \A r \in Line(h, tip) : (r > start /\ r >= n) <=> r > last
    BY <1>2, <1>6, <2>1
  <2> QED
    BY <1>5, <2>2 DEF RevisionsFromTo
<1> QED
  BY <1>1, <1>2, <1>3, <1>7

-----------------------------------------------------------------------------
(* Messages under way                                                      *)

PushRecord == [revisions : SUBSET Nat, lastRevisionSentByServer : Nat]
ClientRecord ==
  [class : {"setup", "push", "response"}, revisions : SUBSET Nat, answers : Nat]
QueueRecord ==
  [type : {"incoming"}, client : Client, message : PushRecord]
    \cup [type : {"outgoing"}, client : Client, message : ClientRecord]

ElementsOf(s) == {s[i] : i \in 1..Len(s)}

\* Where pushes of c wait in the queue of a paused server, and messages to c.
Waiting(q, c) == {i \in 1..Len(q) : q[i].type = "incoming" /\ q[i].client = c}
Leaving(q, c) == {i \in 1..Len(q) : q[i].type = "outgoing" /\ q[i].client = c}

Pushes(ts, q, c) == ElementsOf(ts) \cup {q[i].message : i \in Waiting(q, c)}
Answers(tc, q, c) == ElementsOf(tc) \cup {q[i].message : i \in Leaving(q, c)}

\* At most one push of c is under way.
OnePush(ts, q, c) ==
  /\ \A i, j \in Waiting(q, c) : i = j
  /\ ts # << >> => Len(ts) = 1 /\ Waiting(q, c) = {}

(* A queue that messages to clients are added to.                          *)
LEMMA QueueOutgoing ==
  ASSUME NEW q \in Seq(QueueRecord), NEW out \in Seq(QueueRecord),
         \A i \in 1..Len(out) : out[i].type = "outgoing",
         NEW c \in Client, NEW ts
  PROVE  /\ q \o out \in Seq(QueueRecord)
         /\ Pushes(ts, q \o out, c) = Pushes(ts, q, c)
         /\ OnePush(ts, q, c) => OnePush(ts, q \o out, c)
         /\ \A i \in Leaving(q \o out, c) :
              \/ i \in Leaving(q, c) /\ (q \o out)[i] = q[i]
              \/ \E j \in Leaving(out, c) : (q \o out)[i] = out[j]
<1> DEFINE p == q \o out
<1>1. /\ p \in Seq(QueueRecord) /\ Len(p) = Len(q) + Len(out)
      /\ \A i \in 1..Len(q) + Len(out) : p[i] = IF i <= Len(q) THEN q[i] ELSE out[i - Len(q)]
      /\ Len(q) \in Nat /\ Len(out) \in Nat
  BY ConcatProperties, LenProperties
<1> HIDE DEF p
<1>2. \A i \in 1..Len(p) : \/ i \in 1..Len(q) /\ p[i] = q[i]
                           \/ i - Len(q) \in 1..Len(out) /\ p[i] = out[i - Len(q)]
  BY <1>1
<1>3. \A i \in 1..Len(q) : i \in 1..Len(p) /\ p[i] = q[i]
  BY <1>1
<1>4. "incoming" # "outgoing"
  OBVIOUS
<1>5. Waiting(p, c) = Waiting(q, c) /\ \A i \in Waiting(q, c) : p[i] = q[i]
  BY <1>2, <1>3, <1>4 DEF Waiting
<1>6. Pushes(ts, p, c) = Pushes(ts, q, c)
  BY <1>5 DEF Pushes
<1>7. OnePush(ts, q, c) => OnePush(ts, p, c)
  BY <1>5 DEF OnePush
<1>8. \A i \in Leaving(p, c) : \/ i \in Leaving(q, c) /\ p[i] = q[i]
                               \/ \E j \in Leaving(out, c) : p[i] = out[j]
  BY <1>2 DEF Leaving
<1> QED
  BY <1>1, <1>6, <1>7, <1>8 DEF p

(* A push that arrives while the server is paused waits in the queue.      *)
LEMMA QueueIncoming ==
  ASSUME NEW q \in Seq(QueueRecord), NEW c \in Client, NEW m \in PushRecord, NEW d \in Client,
         NEW p, p = Append(q, Incoming(c, m)),
         NEW ts, NEW rest, OnePush(ts, q, d),
         d = c => ts = <<m>> /\ rest = << >>, d # c => rest = ts
  PROVE  /\ p \in Seq(QueueRecord)
         /\ Pushes(rest, p, d) \subseteq Pushes(ts, q, d)
         /\ OnePush(rest, p, d)
         /\ \A tc : Answers(tc, p, d) \subseteq Answers(tc, q, d)
<1> DEFINE e == Incoming(c, m)
           n == Len(q) + 1
<1>1. e \in QueueRecord /\ e.type = "incoming" /\ e.client = c /\ e.message = m
  BY DEF Incoming, QueueRecord
<1>2. p = Append(q, e)
  OBVIOUS
<1> HIDE DEF e
<1>3. /\ p \in Seq(QueueRecord) /\ Len(p) = n
      /\ \A i \in 1..Len(q) : p[i] = q[i]
      /\ p[n] = e /\ Len(q) \in Nat
  BY <1>2, <1>1, AppendProperties, LenProperties
<1>4. \A i : i \in 1..Len(p) <=> (i \in 1..Len(q) \/ i = n)
  BY <1>3
<1>5. Leaving(p, d) = Leaving(q, d) /\ \A i \in Leaving(q, d) : p[i] = q[i]
  BY <1>1, <1>3, <1>4 DEF Leaving
<1>6. \A tc : Answers(tc, p, d) = Answers(tc, q, d)
  BY <1>5 DEF Answers
<1>7. CASE d # c
  <2>1. Waiting(p, d) = Waiting(q, d) /\ \A i \in Waiting(q, d) : p[i] = q[i]
    BY <1>1, <1>3, <1>4, <1>7 DEF Waiting
  <2>2. Pushes(ts, p, d) = Pushes(ts, q, d) /\ OnePush(ts, p, d)
    BY <2>1 DEF Pushes, OnePush
  <2> QED
    BY <1>3, <1>6, <1>7, <2>2
<1>8. CASE d = c
  <2>1. ts = <<m>> /\ Len(ts) = 1 /\ Waiting(q, d) = {}
    <3>1. Len(<<m>>) = 1 /\ Len(<< >>) = 0
      OBVIOUS
    <3>2. <<m>> # << >>
      BY <3>1
    <3> QED
      BY <1>8, <3>1, <3>2 DEF OnePush
  <2>2. Waiting(p, d) = {n}
    BY <1>1, <1>3, <1>4, <1>8, <2>1 DEF Waiting
  <2>3. ElementsOf(ts) = {m} /\ ElementsOf(<< >>) = {}
    <3>1. ts[1] = m /\ 1..1 = {1} /\ Len(<< >>) = 0 /\ 1..0 = {}
      BY <2>1
    <3> QED
      BY <2>1, <3>1 DEF ElementsOf
  <2>4. Pushes(<< >>, p, d) = Pushes(ts, q, d)
    BY <1>1, <1>3, <2>1, <2>2, <2>3 DEF Pushes
  <2>5. OnePush(<< >>, p, d)
    BY <2>2 DEF OnePush
  <2> QED
    BY <1>3, <1>6, <1>8, <2>4, <2>5
<1> QED
  BY <1>7, <1>8

(* The first message of the queue is taken out.                            *)
LEMMA QueueTail ==
  ASSUME NEW q \in Seq(QueueRecord), q # << >>, NEW d \in Client, NEW ts, NEW tc,
         OnePush(ts, q, d)
  PROVE  /\ Head(q) \in QueueRecord
         /\ Tail(q) \in Seq(QueueRecord)
         /\ Pushes(ts, Tail(q), d) \subseteq Pushes(ts, q, d)
         /\ OnePush(ts, Tail(q), d)
         /\ Answers(tc, Tail(q), d) \subseteq Answers(tc, q, d)
         /\ Head(q).type = "incoming" /\ Head(q).client = d =>
              ts = << >> /\ Pushes(ts, Tail(q), d) = {} /\ Head(q).message \in Pushes(ts, q, d)
         /\ Head(q).type = "outgoing" /\ Head(q).client = d =>
              Head(q).message \in Answers(tc, q, d)
<1> DEFINE p == Tail(q)
<1>1. /\ Head(q) \in QueueRecord /\ p \in Seq(QueueRecord) /\ Len(p) = Len(q) - 1
      /\ \A i \in 1..Len(p) : p[i] = q[i + 1]
      /\ Len(q) \in Nat \ {0} /\ Head(q) = q[1]
  BY HeadTailProperties, EmptySeq, LenProperties
<1> HIDE DEF p
<1>2. \A i \in 1..Len(p) : i + 1 \in 1..Len(q) /\ p[i] = q[i + 1]
  BY <1>1
<1>3. \A i \in Waiting(p, d) : i + 1 \in Waiting(q, d) /\ p[i] = q[i + 1] /\ i \in Nat \ {0}
  BY <1>1, <1>2 DEF Waiting
<1>4. \A i \in Leaving(p, d) : i + 1 \in Leaving(q, d) /\ p[i] = q[i + 1]
  BY <1>2 DEF Leaving
<1>5. /\ Pushes(ts, p, d) \subseteq Pushes(ts, q, d)
      /\ Answers(tc, p, d) \subseteq Answers(tc, q, d)
  BY <1>3, <1>4 DEF Pushes, Answers
<1>6. OnePush(ts, p, d)
  <2>1. \A i, j \in Waiting(p, d) : i = j
    <3> TAKE i, j \in Waiting(p, d)
    <3>1. i + 1 = j + 1 /\ i \in Nat /\ j \in Nat
      BY <1>3 DEF OnePush
    <3> QED
      BY <3>1
  <2> QED
    BY <1>3, <2>1 DEF OnePush
<1>7. 1 \in 1..Len(q)
  BY <1>1
<1>8. ASSUME Head(q).type = "incoming", Head(q).client = d
      PROVE  /\ ts = << >> /\ Pushes(ts, p, d) = {}
             /\ Head(q).message \in Pushes(ts, q, d)
  <2>1. 1 \in Waiting(q, d)
    BY <1>1, <1>7, <1>8 DEF Waiting
  <2>2. ts = << >> /\ Len(ts) = 0 /\ ElementsOf(ts) = {}
    <3>1. ts = << >>
      BY <2>1 DEF OnePush
    <3>2. 1..0 = {} /\ Len(<< >>) = 0
      OBVIOUS
    <3> QED
      BY <3>1, <3>2 DEF ElementsOf
  <2>3. Waiting(p, d) = {}
    <3> SUFFICES ASSUME NEW i \in Waiting(p, d)
                 PROVE  FALSE
      OBVIOUS
    <3>1. i + 1 = 1 /\ i \in Nat \ {0}
      BY <1>3, <2>1 DEF OnePush
    <3> QED
      BY <3>1
  <2> QED
    BY <1>1, <2>1, <2>2, <2>3 DEF Pushes
<1>9. ASSUME Head(q).type = "outgoing", Head(q).client = d
      PROVE  Head(q).message \in Answers(tc, q, d)
  <2>1. 1 \in Leaving(q, d)
    BY <1>1, <1>7, <1>9 DEF Leaving
  <2> QED
    BY <1>1, <2>1 DEF Answers
<1> QED
  BY <1>1, <1>5, <1>6, <1>8, <1>9 DEF p

-----------------------------------------------------------------------------
(* The inductive invariant.  L is the line of the server's branch, S the   *)
(* server's store, H a client's.                                           *)

\* A client and what it knows of the server: the revisions it has written
\* since the push in transit are not on the server.
ClientOK(h, L, S, H, cur, last, transit) ==
  /\ StoreOK(h, H)
  /\ cur \in Nat /\ last \in Nat /\ transit \in Nat
  /\ cur # None => cur \in H /\ last # None
  /\ last # None => last \in H /\ last \in L
  /\ transit = None => cur = last
  /\ transit # None => /\ cur # None /\ transit \in Line(h, cur) /\ transit \in H
                       /\ RevisionsFromTo(h, transit, cur) \cap S = {}

\* A push under way from a client: nothing of it is on the server.
PushOK(h, L, S, H, transit, m) ==
  /\ transit # None
  /\ m.revisions = RevisionsFromTo(h, m.lastRevisionSentByServer, transit)
  /\ m.lastRevisionSentByServer \in L
  /\ m.lastRevisionSentByServer \in Line(h, transit)
  /\ m.lastRevisionSentByServer < transit
  /\ m.revisions \subseteq H
  /\ m.revisions \cap S = {}

\* A message under way to a client: what follows a revision up to one that
\* the server's branch has; the push it answers was handled.
AnswerOK(h, L, S, m) ==
  \E t \in L :
    /\ m.class = "setup" => m.revisions = {t}
    /\ m.class # "setup" =>
         \E f \in Line(h, t) : f < t /\ m.revisions = RevisionsFromTo(h, f, t)
    /\ m.class = "response" => m.answers \in S /\ m.answers <= t

Types ==
  /\ current \in [Site -> Nat] /\ held \in [Site -> SUBSET Nat]
  /\ lastServer \in [Client -> Nat] /\ inTransit \in [Client -> Nat]
  /\ toServer \in [Client -> Seq(PushRecord)]
  /\ toClient \in [Client -> Seq(ClientRecord)]
  /\ queue \in Seq(QueueRecord)
  /\ DOMAIN lastSent \in SUBSET Client /\ IsFiniteSet(DOMAIN lastSent)

ServerLine == Line(history, current[Server])

ServerOK ==
  /\ GoodHistory(history)
  /\ StoreOK(history, held[Server]) /\ 1 \in held[Server]
  /\ current[Server] \in held[Server]
  /\ \A c \in DOMAIN lastSent : lastSent[c] \in ServerLine
  /\ responding = Nobody

ClientsOK ==
  \A c \in Client :
    ClientOK(history, ServerLine, held[Server], held[c], current[c], lastServer[c],
             inTransit[c])

StoresApart == \A c, d \in Client : c # d => held[c] \cap held[d] \subseteq held[Server]

MessagesOK ==
  \A c \in Client :
    /\ \A m \in Pushes(toServer[c], queue, c) :
         PushOK(history, ServerLine, held[Server], held[c], inTransit[c], m)
    /\ \A m \in Answers(toClient[c], queue, c) :
         AnswerOK(history, ServerLine, held[Server], m)
    /\ OnePush(toServer[c], queue, c)

SynchronizerInv ==
  Types /\ ServerOK /\ ClientsOK /\ StoresApart /\ MessagesOK /\ failed = {}

-----------------------------------------------------------------------------
(* What one site does leaves the others as they are                        *)

(* A revision is on the lines of those it is an ancestor of.               *)
LEMMA LineOfAncestor ==
  ASSUME NEW h, GoodHistory(h), NEW b \in 1..Len(h), NEW a \in Line(h, b)
  PROVE  /\ a \in 1..Len(h) /\ a <= b /\ a \in Line(h, a)
         /\ Line(h, a) \subseteq Line(h, b)
         /\ Line(h, a) = Line(h, b) \cap 1..a
BY DEF GoodHistory

(* The server's store has the lines of its revisions.                      *)
LEMMA ServerHoldsLines ==
  ASSUME NEW h, NEW S, GoodHistory(h), StoreOK(h, S), 1 \in S, NEW r \in S
  PROVE  Line(h, r) \subseteq S
<1>1. PICK b \in S : \A x \in S : b \in Line(h, x) /\ RevisionsFromTo(h, b, x) \subseteq S
  BY DEF StoreOK, Rooted
<1>2. Len(h) \in Nat /\ S \in SUBSET (1..Len(h))
  BY DEF GoodHistory, StoreOK
<1>3. Line(h, 1) \subseteq 1..1 /\ Line(h, r) \subseteq 1..r
  BY <1>2 DEF GoodHistory
<1>4. b = 1
  BY <1>1, <1>3
<1> QED
  BY <1>1, <1>2, <1>3, <1>4 DEF RevisionsFromTo

(* What lies between two revisions of a store is in it.                    *)
LEMMA RangeHeld ==
  ASSUME NEW h, NEW H, GoodHistory(h), StoreOK(h, H), NEW a \in H, NEW t \in H,
         a \in Line(h, t)
  PROVE  RevisionsFromTo(h, a, t) \subseteq H
<1>1. PICK b \in H : \A x \in H : b \in Line(h, x) /\ RevisionsFromTo(h, b, x) \subseteq H
  BY DEF StoreOK, Rooted
<1>2. Len(h) \in Nat /\ H \in SUBSET (1..Len(h))
  BY DEF GoodHistory, StoreOK
<1>3. b <= a /\ Line(h, t) \subseteq 1..t
  BY <1>1, <1>2, LineOfAncestor DEF GoodHistory
<1> QED
  BY <1>1, <1>2, <1>3 DEF RevisionsFromTo

(* A client stays as it is while others write revisions and the server     *)
(* receives some that are not the client's, or part of its push.           *)
LEMMA ClientOKKept ==
  ASSUME NEW h, NEW g, NEW dest, GoodHistory(h), dest \in 1..Len(h), Grown(h, g, dest),
         NEW L, NEW K, L \subseteq K,
         NEW S, NEW T, NEW H, NEW cur, NEW last, NEW transit,
         \A r \in H \cap T : r \in S \/ r <= transit,
         ClientOK(h, L, S, H, cur, last, transit)
  PROVE  ClientOK(g, K, T, H, cur, last, transit)
<1>1. StoreOK(g, H)
  BY StoreOKGrown DEF ClientOK
<1>2. cur # None => cur \in 1..Len(h) /\ Line(g, cur) = Line(h, cur)
  BY DEF ClientOK, StoreOK, Grown
<1>3. ASSUME transit # None
      PROVE  RevisionsFromTo(g, transit, cur) \cap T = {}
  <2>1. /\ cur \in H /\ transit \in H /\ transit \in Line(h, cur) /\ StoreOK(h, H)
        /\ RevisionsFromTo(h, transit, cur) \cap S = {}
        /\ Line(g, cur) = Line(h, cur)
    BY <1>2, <1>3 DEF ClientOK
  <2>2. RevisionsFromTo(h, transit, cur) \subseteq H
    BY <2>1, RangeHeld
  <2>3. RevisionsFromTo(g, transit, cur) = RevisionsFromTo(h, transit, cur)
    BY <2>1 DEF RevisionsFromTo
  <2>4. transit \in Nat /\ RevisionsFromTo(h, transit, cur) \in SUBSET Nat
    BY <2>1, RangeFinite DEF ClientOK, StoreOK
  <2>5. \A r \in RevisionsFromTo(h, transit, cur) : r > transit
    BY DEF RevisionsFromTo
  <2> QED
    BY <2>1, <2>2, <2>3, <2>4, <2>5
<1>4. transit # None => cur # None /\ transit \in Line(g, cur) /\ transit \in H
  BY <1>2 DEF ClientOK
<1> QED
  BY <1>1, <1>3, <1>4 DEF ClientOK

(* So do the messages under way.                                           *)
LEMMA PushOKKept ==
  ASSUME NEW h, NEW g, NEW dest, Grown(h, g, dest),
         NEW L, NEW K, L \subseteq K,
         NEW S, NEW T, NEW H, NEW I, H \cap T \subseteq S, H \subseteq I,
         NEW transit \in 1..Len(h), NEW m, PushOK(h, L, S, H, transit, m)
  PROVE  PushOK(g, K, T, I, transit, m)
<1>1. Line(g, transit) = Line(h, transit)
  BY DEF Grown
<1> QED
  BY <1>1 DEF PushOK, RevisionsFromTo

(* A message to a client stays as it should when the server goes on.       *)
LEMMA AnswerOKKept ==
  ASSUME NEW h, NEW g, NEW dest, Grown(h, g, dest),
         NEW L \in SUBSET (1..Len(h)), NEW K, L \subseteq K, NEW S, NEW T, S \subseteq T,
         NEW m, AnswerOK(h, L, S, m)
  PROVE  AnswerOK(g, K, T, m)
<1>1. PICK t \in L :
        /\ m.class = "setup" => m.revisions = {t}
        /\ m.class # "setup" =>
             \E f \in Line(h, t) : f < t /\ m.revisions = RevisionsFromTo(h, f, t)
        /\ m.class = "response" => m.answers \in S /\ m.answers <= t
  BY DEF AnswerOK
<1>2. Line(g, t) = Line(h, t) /\ t \in K
  BY DEF Grown
<1>3. m.class # "setup" =>
        \E f \in Line(g, t) : f < t /\ m.revisions = RevisionsFromTo(g, f, t)
  BY <1>1, <1>2 DEF RevisionsFromTo
<1> QED
  BY <1>1, <1>2, <1>3 DEF AnswerOK

-----------------------------------------------------------------------------
(* Sending                                                                 *)

(* The receivers in some order.                                            *)
LEMMA SetToSeqIs ==
  ASSUME NEW S, IsFiniteSet(S)
  PROVE  SetToSeq(S) \in [1..Cardinality(S) -> S] /\ Cardinality(S) \in Nat
<1>1. Cardinality(S) \in Nat /\ ExistsBijection(1..Cardinality(S), S)
  BY FS_CardinalityType
<1>2. PICK f \in [1..Cardinality(S) -> S] : IsInjective(f)
  <2>1. PICK f \in Bijection(1..Cardinality(S), S) : TRUE
    BY <1>1 DEF ExistsBijection
  <2>2. f \in [1..Cardinality(S) -> S] /\ \A a, b \in 1..Cardinality(S) : f[a] = f[b] => a = b
    BY <2>1 DEF Bijection, Injection, IsInjective
  <2>3. IsInjective(f)
    BY <2>2 DEF IsInjective
  <2> QED
    BY <2>2, <2>3
<1> QED
  BY <1>1, <1>2 DEF SetToSeq

(* What was sent is on the way, queued or handed to the transport; nothing *)
(* else changes for the server's clients.                                  *)
LEMMA SendToClientsSends ==
  ASSUME NEW msgs, DOMAIN msgs \in SUBSET Client, IsFiniteSet(DOMAIN msgs),
         \A c \in DOMAIN msgs : msgs[c] \in ClientRecord,
         NEW q \in Seq(QueueRecord), toClient \in [Client -> Seq(ClientRecord)],
         SendToClients(msgs, q)
  PROVE  /\ queue' \in Seq(QueueRecord) /\ toClient' \in [Client -> Seq(ClientRecord)]
         /\ \A c \in Client : \A ts :
              /\ Pushes(ts, queue', c) = Pushes(ts, q, c)
              /\ OnePush(ts, q, c) => OnePush(ts, queue', c)
         /\ \A c \in Client : \A m \in Answers(toClient'[c], queue', c) :
              m \in Answers(toClient[c], q, c) \/ (c \in DOMAIN msgs /\ m = msgs[c])
<1> DEFINE receivers == SetToSeq(DOMAIN msgs)
           n == Cardinality(DOMAIN msgs)
           out == [i \in DOMAIN receivers |-> Outgoing(receivers[i], msgs[receivers[i]])]
<1>1. receivers \in [1..n -> DOMAIN msgs] /\ n \in Nat
  BY SetToSeqIs
<1>2. /\ queue' = IF paused THEN q \o out ELSE q
      /\ toClient' = [c \in Client |-> IF ~paused /\ c \in DOMAIN msgs
                                       THEN Append(toClient[c], msgs[c])
                                       ELSE toClient[c]]
  BY DEF SendToClients
<1>3. /\ out \in Seq(QueueRecord) /\ Len(out) = n
      /\ \A i \in 1..Len(out) : /\ out[i].type = "outgoing"
                                /\ out[i].client \in DOMAIN msgs
                                /\ out[i].message = msgs[out[i].client]
  <2> HIDE DEF receivers, n
  <2>1. \A i \in 1..n : /\ receivers[i] \in DOMAIN msgs
                        /\ msgs[receivers[i]] \in ClientRecord
                        /\ out[i] = [type |-> "outgoing", client |-> receivers[i],
                                     message |-> msgs[receivers[i]]]
    BY <1>1 DEF Outgoing
  <2>2. out = [i \in 1..n |-> out[i]]
    BY <1>1
  <2> HIDE DEF out
  <2>3. out \in [1..n -> QueueRecord]
    <3>1. ASSUME NEW i \in 1..n
          PROVE  out[i] \in QueueRecord
      <4> DEFINE r == receivers[i]
                 m == msgs[r]
      <4>1. r \in Client /\ m \in ClientRecord
            /\ out[i] = [type |-> "outgoing", client |-> r, message |-> m]
        BY <2>1
      <4> HIDE DEF r, m
      <4> QED
        BY <4>1 DEF QueueRecord
    <3> QED
      BY <2>2, <3>1
  <2>4. \A i \in 1..n : /\ out[i].type = "outgoing"
                        /\ out[i].client \in DOMAIN msgs
                        /\ out[i].message = msgs[out[i].client]
    <3> TAKE i \in 1..n
    <3> DEFINE r == receivers[i]
               m == msgs[r]
    <3>1. r \in DOMAIN msgs /\ out[i] = [type |-> "outgoing", client |-> r, message |-> m]
      BY <2>1
    <3> HIDE DEF r, m
    <3>2. out[i].type = "outgoing" /\ out[i].client = r /\ out[i].message = m
      BY <3>1
    <3> QED
      BY <3>1, <3>2 DEF m
  <2>5. out \in Seq(QueueRecord)
    BY <1>1, <2>3, SeqDef
  <2>6. Len(out) = n
    BY <1>1, <2>3, <2>5, LenProperties
  <2> QED
    BY <2>4, <2>5, <2>6
<1> HIDE DEF receivers, n, out
<1>4. CASE paused
  <2>1. queue' = q \o out /\ toClient' = [c \in Client |-> toClient[c]]
    BY <1>2, <1>4
  <2>2. ASSUME NEW c \in Client, NEW m \in Answers(toClient[c], q \o out, c)
        PROVE  m \in Answers(toClient[c], q, c) \/ (c \in DOMAIN msgs /\ m = msgs[c])
    <3>1. CASE m \in ElementsOf(toClient[c])
      BY <3>1 DEF Answers
    <3>2. CASE m \notin ElementsOf(toClient[c])
      <4>1. PICK i \in Leaving(q \o out, c) : m = (q \o out)[i].message
        BY <3>2 DEF Answers
      <4>2. \/ i \in Leaving(q, c) /\ (q \o out)[i] = q[i]
            \/ \E j \in Leaving(out, c) : (q \o out)[i] = out[j]
        BY <1>3, QueueOutgoing
      <4> QED
        BY <1>3, <4>1, <4>2 DEF Answers, Leaving
    <3> QED
      BY <3>1, <3>2
  <2>3. q \o out \in Seq(QueueRecord)
    BY <1>3, ConcatProperties
  <2>4. \A c \in Client : \A ts :
          /\ Pushes(ts, q \o out, c) = Pushes(ts, q, c)
          /\ OnePush(ts, q, c) => OnePush(ts, q \o out, c)
    <3>1. out \in Seq(QueueRecord) /\ \A i \in 1..Len(out) : out[i].type = "outgoing"
      BY <1>3
    <3> SUFFICES ASSUME NEW c \in Client, NEW ts
                 PROVE  /\ Pushes(ts, q \o out, c) = Pushes(ts, q, c)
                        /\ OnePush(ts, q, c) => OnePush(ts, q \o out, c)
      OBVIOUS
    <3>2. Pushes(ts, q \o out, c) = Pushes(ts, q, c)
      BY <3>1, QueueOutgoing
    <3>3. OnePush(ts, q, c) => OnePush(ts, q \o out, c)
      BY <3>1, QueueOutgoing
    <3> QED
      BY <3>2, <3>3
  <2>5. \A c \in Client : toClient'[c] = toClient[c]
    BY <2>1
  <2>6. toClient' \in [Client -> Seq(ClientRecord)]
    BY <2>1
  <2> QED
    BY <2>1, <2>2, <2>3, <2>4, <2>5, <2>6
<1>5. CASE ~paused
  <2>1. queue' = q /\ \A c \in Client :
          toClient'[c] = IF c \in DOMAIN msgs THEN Append(toClient[c], msgs[c])
                                              ELSE toClient[c]
    BY <1>2, <1>5
  <2>2. ASSUME NEW c \in Client, c \in DOMAIN msgs
        PROVE  /\ toClient'[c] \in Seq(ClientRecord)
               /\ ElementsOf(toClient'[c]) \subseteq ElementsOf(toClient[c]) \cup {msgs[c]}
    <3>1. /\ toClient'[c] = Append(toClient[c], msgs[c])
          /\ toClient[c] \in Seq(ClientRecord) /\ msgs[c] \in ClientRecord
      BY <2>1, <2>2
    <3>2. /\ toClient'[c] \in Seq(ClientRecord)
          /\ Len(toClient'[c]) = Len(toClient[c]) + 1 /\ Len(toClient[c]) \in Nat
          /\ \A i \in 1..Len(toClient[c]) : toClient'[c][i] = toClient[c][i]
          /\ toClient'[c][Len(toClient[c]) + 1] = msgs[c]
      BY <3>1, AppendProperties, LenProperties
    <3>3. \A i \in 1..Len(toClient'[c]) : i \in 1..Len(toClient[c]) \/ i = Len(toClient[c]) + 1
      BY <3>2
    <3> QED
      BY <3>2, <3>3 DEF ElementsOf
  <2>3. \A c \in Client : toClient'[c] \in Seq(ClientRecord)
    BY <2>1, <2>2
  <2>4. toClient' \in [Client -> Seq(ClientRecord)]
    BY <1>2, <2>3
  <2>5. ASSUME NEW c \in Client, NEW m \in Answers(toClient'[c], q, c)
        PROVE  m \in Answers(toClient[c], q, c) \/ (c \in DOMAIN msgs /\ m = msgs[c])
    <3>1. CASE c \in DOMAIN msgs
      BY <2>2, <2>5, <3>1 DEF Answers
    <3>2. CASE c \notin DOMAIN msgs
      BY <2>1, <2>5, <3>2
    <3> QED
      BY <3>1, <3>2
  <2> QED
    BY <2>1, <2>4, <2>5
<1> QED
  BY <1>4, <1>5

(* The server's clients are sent what they lack of its branch.             *)
LEMMA NotifyClientsNotifies ==
  ASSUME NEW h, NEW cur \in 1..Len(h), GoodHistory(h), NEW S,
         NEW sent, DOMAIN sent \in SUBSET Client, IsFiniteSet(DOMAIN sent),
         \A c \in DOMAIN sent : sent[c] \in Line(h, cur),
         NEW asked,
         \/ asked = Nobody
         \/ /\ asked.client \in DOMAIN sent /\ sent[asked.client] # cur
            /\ asked.revision \in Nat /\ asked.revision \in S /\ asked.revision <= cur,
         NEW q \in Seq(QueueRecord), toClient \in [Client -> Seq(ClientRecord)],
         NotifyClients(h, cur, sent, asked, q)
  PROVE  /\ queue' \in Seq(QueueRecord) /\ toClient' \in [Client -> Seq(ClientRecord)]
         /\ \A c \in Client : \A ts :
              /\ Pushes(ts, queue', c) = Pushes(ts, q, c)
              /\ OnePush(ts, q, c) => OnePush(ts, queue', c)
         /\ \A c \in Client : \A m \in Answers(toClient'[c], queue', c) :
              m \in Answers(toClient[c], q, c) \/ AnswerOK(h, Line(h, cur), S, m)
         /\ DOMAIN lastSent' = DOMAIN sent
         /\ \A c \in DOMAIN lastSent' : lastSent'[c] = cur
         /\ responding' = Nobody
         /\ failed' = failed
<1> DEFINE behind == {c \in DOMAIN sent : sent[c] # cur}
           revs(c) == RevisionsFromTo(h, sent[c], cur)
           msgs == [c \in behind |-> IF asked.client = c
                                     THEN ResponseMessage(revs(c), asked.revision)
                                     ELSE PushMessage(revs(c))]
<1>1. cur # None /\ Len(h) \in Nat /\ Line(h, cur) \in SUBSET (1..cur) /\ cur \in Line(h, cur)
  BY DEF None, GoodHistory
<1>2. /\ SendToClients(msgs, q)
      /\ lastSent' = [c \in DOMAIN sent |-> cur]
      /\ responding' = StillAsked(asked, behind)
      /\ failed' = failed
  <2>1. \A c \in behind : IsEqualToOrParent(h, sent[c], cur)
    BY <1>1 DEF IsEqualToOrParent
  <2> QED
    BY <2>1, Zenon DEF NotifyClients
<1>3. behind \in SUBSET Client /\ IsFiniteSet(behind) /\ DOMAIN msgs = behind
  BY FS_Subset
<1>4. ASSUME NEW c \in behind
      PROVE  msgs[c] \in ClientRecord /\ AnswerOK(h, Line(h, cur), S, msgs[c])
  <2>1. /\ sent[c] \in Line(h, cur) /\ sent[c] # cur /\ c \in Client /\ c \in DOMAIN sent
        /\ revs(c) = RevisionsFromTo(h, sent[c], cur)
    OBVIOUS
  <2> DEFINE R == revs(c)
  <2>2. sent[c] < cur /\ R \in SUBSET Nat
    BY <1>1, <2>1 DEF RevisionsFromTo
  <2>3. R = RevisionsFromTo(h, sent[c], cur)
    OBVIOUS
  <2>4. CASE asked.client = c
    <3>1. asked # Nobody
      BY <2>1, <2>4, SynchronizerAssumption DEF Nobody
    <3>2. asked.revision \in Nat /\ asked.revision \in S /\ asked.revision <= cur
      BY <3>1
    <3>3. msgs[c] = [class |-> "response", revisions |-> R, answers |-> asked.revision]
      BY <2>4 DEF ResponseMessage
    <3> HIDE DEF R, msgs
    <3>4. msgs[c] \in ClientRecord
      BY <2>2, <3>2, <3>3 DEF ClientRecord
    <3>5. msgs[c].class = "response" /\ msgs[c].revisions = R /\ msgs[c].answers = asked.revision
      BY <3>3
    <3>6. "response" # "setup"
      OBVIOUS
    <3>7. AnswerOK(h, Line(h, cur), S, msgs[c])
      BY <1>1, <2>1, <2>2, <2>3, <3>2, <3>5, <3>6 DEF AnswerOK
    <3> QED
      BY <3>4, <3>7
  <2>5. CASE asked.client # c
    <3>1. msgs[c] = [class |-> "push", revisions |-> R, answers |-> None]
      BY <2>5 DEF PushMessage
    <3> HIDE DEF R, msgs
    <3>2. msgs[c] \in ClientRecord
      BY <2>2, <3>1 DEF ClientRecord, None
    <3>3. msgs[c].class = "push" /\ msgs[c].revisions = R
      BY <3>1
    <3>4. "push" # "setup" /\ "push" # "response"
      OBVIOUS
    <3>5. AnswerOK(h, Line(h, cur), S, msgs[c])
      BY <1>1, <2>1, <2>2, <2>3, <3>3, <3>4 DEF AnswerOK
    <3> QED
      BY <3>2, <3>5
  <2> QED
    BY <2>4, <2>5
<1>5. responding' = Nobody
  <2>1. asked = Nobody \/ asked.client \in behind
    OBVIOUS
  <2> QED
    BY <1>2, <2>1 DEF StillAsked
<1>6. DOMAIN lastSent' = DOMAIN sent /\ \A c \in DOMAIN lastSent' : lastSent'[c] = cur
  BY <1>2
<1> HIDE DEF msgs, behind
<1>7. /\ queue' \in Seq(QueueRecord) /\ toClient' \in [Client -> Seq(ClientRecord)]
      /\ \A c \in Client : \A ts :
           /\ Pushes(ts, queue', c) = Pushes(ts, q, c)
           /\ OnePush(ts, q, c) => OnePush(ts, queue', c)
      /\ \A c \in Client : \A m \in Answers(toClient'[c], queue', c) :
           m \in Answers(toClient[c], q, c) \/ (c \in DOMAIN msgs /\ m = msgs[c])
  <2>1. DOMAIN msgs \in SUBSET Client /\ IsFiniteSet(DOMAIN msgs)
        /\ \A c \in DOMAIN msgs : msgs[c] \in ClientRecord
    BY <1>3, <1>4
  <2> QED
    BY <1>2, <2>1, SendToClientsSends
<1>8. \A c \in Client : \A m \in Answers(toClient'[c], queue', c) :
        m \in Answers(toClient[c], q, c) \/ AnswerOK(h, Line(h, cur), S, m)
  BY <1>3, <1>4, <1>7
<1> QED
  BY <1>2, <1>5, <1>6, <1>7, <1>8

-----------------------------------------------------------------------------
(* The server's handlers                                                   *)

(* The server's branch after a push from c whose tip is t.                 *)
LEMMA MergedHistoryIs ==
  ASSUME ServerOK, NEW t \in 1..Len(history), t \notin held[Server]
  PROVE  LET merged == MergedHistory(t)
             rebased == (Len(history) + 1)..Len(merged)
             cur == IF rebased = {} THEN t ELSE Len(merged)
         IN  /\ Grown(history, merged, current[Server])
             /\ cur \in 1..Len(merged) /\ t <= cur
             /\ cur = t \/ cur \in rebased
             /\ ServerLine \subseteq Line(merged, cur)
<1> DEFINE s == current[Server]
           merged == MergedHistory(t)
           n == Len(history)
           m == Len(merged)
           cur == IF (n + 1)..m = {} THEN t ELSE m
<1>1. /\ GoodHistory(history) /\ n \in Nat /\ s \in 1..n /\ s # None /\ t # None
      /\ s \in held[Server] /\ StoreOK(history, held[Server]) /\ 1 \in held[Server]
  BY DEF ServerOK, GoodHistory, StoreOK, None
<1>2. ServerLine \subseteq held[Server] /\ ServerLine = Line(history, s)
  BY <1>1, ServerHoldsLines DEF ServerLine
<1>3. CASE s \in Line(history, t)
  <2>1. merged = history
    BY <1>1, <1>3 DEF MergedHistory, IsEqualToOrParent
  <2>2. (n + 1)..m = {} /\ cur = t /\ m = n
    BY <1>1, <2>1
  <2>3. Grown(history, merged, s)
    BY <1>1, <2>1, <2>2 DEF Grown, GoodHistory
  <2>4. ServerLine \subseteq Line(merged, cur)
    BY <1>1, <1>2, <1>3, <2>1, <2>2, LineOfAncestor
  <2> QED
    BY <2>1, <2>2, <2>3, <2>4
<1>4. CASE s \notin Line(history, t)
  <2> DEFINE both == Line(history, t) \cap Line(history, s)
             a == Max(both)
  <2>1. both # {} /\ both \in SUBSET (0..n)
    BY <1>1 DEF GoodHistory
  <2>2. a \in both
    <3> HIDE DEF both
    <3> QED
      BY <1>1, <2>1, MaxExists
  <2>3. a \in Nat /\ a < t
    <3>1. t \notin Line(history, s)
      BY <1>2
    <3> HIDE DEF a
    <3> QED
      BY <1>1, <2>2, <3>1, LineOfAncestor
  <2>4. merged = Rebase(history, t, s, a)
    BY <1>1, <1>4 DEF MergedHistory, IsEqualToOrParent, CommonAncestor
  <2> HIDE DEF merged, a
  <2>5. Grown(history, merged, s) /\ m > n
    BY <1>1, <2>3, <2>4, RebaseGrows
  <2>6. m \in Nat /\ m \in (n + 1)..m /\ cur = m
    BY <1>1, <2>5 DEF Grown
  <2>7. ServerLine \subseteq Line(merged, cur)
    BY <1>1, <1>2, <2>5, <2>6 DEF Grown
  <2> QED
    BY <1>1, <2>5, <2>6, <2>7 DEF merged
<1> QED
  BY <1>3, <1>4

(* What the server was sent joins its store, with what it rebases.         *)
LEMMA ServerStoreTakesPush ==
  ASSUME ServerOK, NEW t \in 1..Len(history), NEW start \in ServerLine,
         start \in Line(history, t), NEW g, Grown(history, g, current[Server])
  PROVE  StoreOK(g, (held[Server] \cup RevisionsFromTo(history, start, t))
                      \cup (Len(history) + 1)..Len(g))
<1> DEFINE S == held[Server] \cup RevisionsFromTo(history, start, t)
<1>1. /\ GoodHistory(history) /\ StoreOK(history, held[Server])
      /\ current[Server] \in held[Server] /\ start \in held[Server]
  BY ServerHoldsLines DEF ServerOK, ServerLine
<1>2. StoreOK(history, S) /\ current[Server] \in S
  BY <1>1, StoreTakesRange
<1> HIDE DEF S
<1>3. StoreOK(g, S \cup (Len(history) + 1)..Len(g))
  BY <1>1, <1>2, StoreTakesNew
<1> QED
  BY <1>3 DEF S

(* A step of the server that moves its branch on and sends its clients the *)
(* outcome keeps the invariant if its store takes nothing of a client but  *)
(* what was pushed.                                                        *)
LEMMA ServerStepInv ==
  ASSUME SynchronizerInv, Grown(history, history', current[Server]),
         NEW cur \in 1..Len(history'), current' = [current EXCEPT ![Server] = cur],
         ServerLine \subseteq Line(history', cur),
         NEW T, held' = [held EXCEPT ![Server] = T], StoreOK(history', T), cur \in T,
         held[Server] \subseteq T,
         \A d \in Client : \A r \in held[d] \cap T : r \in held[Server] \/ r <= inTransit[d],
         NEW sent, DOMAIN sent \in SUBSET Client, IsFiniteSet(DOMAIN sent),
         \A d \in DOMAIN sent : sent[d] \in Line(history', cur),
         NEW asked,
         \/ asked = Nobody
         \/ /\ asked.client \in DOMAIN sent /\ sent[asked.client] # cur
            /\ asked.revision \in Nat /\ asked.revision \in T /\ asked.revision <= cur,
         NEW q \in Seq(QueueRecord), NotifyClients(history', cur, sent, asked, q),
         lastServer' = lastServer, inTransit' = inTransit,
         toServer' \in [Client -> Seq(PushRecord)],
         \A d \in Client :
           /\ Pushes(toServer'[d], q, d) \subseteq Pushes(toServer[d], queue, d)
           /\ Pushes(toServer'[d], q, d) # {} => held[d] \cap T \subseteq held[Server]
           /\ OnePush(toServer'[d], q, d)
           /\ Answers(toClient[d], q, d) \subseteq Answers(toClient[d], queue, d)
  PROVE  /\ SynchronizerInv'
         /\ current[Server] \in Line(history', current'[Server])
<1> DEFINE S == held[Server]
           L == Line(history', cur)
<1>1. Types /\ ServerOK /\ ClientsOK /\ StoresApart /\ MessagesOK /\ failed = {}
  BY DEF SynchronizerInv
<1>2. /\ GoodHistory(history) /\ StoreOK(history, S) /\ 1 \in S
      /\ current[Server] \in S /\ current[Server] \in 1..Len(history) /\ Len(history) \in Nat
  BY <1>1 DEF ServerOK, StoreOK, GoodHistory
<1>3. GoodHistory(history')
  BY <1>2, GrownIsGood
<1>4. ServerLine \in SUBSET (1..Len(history)) /\ current[Server] \in ServerLine
  <2>1. \A a \in ServerLine : a \in 1..Len(history)
    BY <1>2, LineOfAncestor DEF ServerLine
  <2> QED
    BY <1>2, <2>1 DEF ServerLine, GoodHistory
<1>5. /\ current'[Server] = cur /\ held'[Server] = T
      /\ \A d \in Client : current'[d] = current[d] /\ held'[d] = held[d]
      /\ current' \in [Site -> Nat] /\ held' \in [Site -> SUBSET Nat]
  <2>1. cur \in Nat /\ T \in SUBSET Nat
    BY <1>3 DEF StoreOK, GoodHistory
  <2>2. Server \in Site /\ \A d \in Client : d \in Site /\ d # Server
    BY SynchronizerAssumption DEF Site
  <2> QED
    BY <1>1, <2>1, <2>2 DEF Types
<1>6. /\ queue' \in Seq(QueueRecord) /\ toClient' \in [Client -> Seq(ClientRecord)]
      /\ \A d \in Client : \A ts : /\ Pushes(ts, queue', d) = Pushes(ts, q, d)
                                   /\ OnePush(ts, q, d) => OnePush(ts, queue', d)
      /\ \A d \in Client : \A a \in Answers(toClient'[d], queue', d) :
           a \in Answers(toClient[d], q, d) \/ AnswerOK(history', L, T, a)
      /\ DOMAIN lastSent' = DOMAIN sent
      /\ \A d \in DOMAIN lastSent' : lastSent'[d] = cur
      /\ responding' = Nobody
      /\ failed' = failed
  <2>1. toClient \in [Client -> Seq(ClientRecord)]
    BY <1>1 DEF Types
  <2> QED
    BY <1>3, <2>1, NotifyClientsNotifies
<1>7. ServerLine' = L
  BY <1>5 DEF ServerLine
<1> HIDE DEF S, L
<1>8. Types'
  BY <1>1, <1>5, <1>6 DEF Types
<1>9. ServerOK'
  <2>1. cur \in L
    BY <1>3 DEF GoodHistory, L
  <2> QED
    BY <1>2, <1>3, <1>5, <1>6, <1>7, <2>1 DEF ServerOK, S
<1>10. ClientsOK'
  <2> SUFFICES ASSUME NEW d \in Client
               PROVE  ClientOK(history', L, T, held[d], current[d], lastServer[d], inTransit[d])
    BY <1>5, <1>7 DEF ClientsOK
  <2>1. ClientOK(history, ServerLine, S, held[d], current[d], lastServer[d], inTransit[d])
    BY <1>1 DEF ClientsOK, S
  <2> QED
    BY <1>2, <2>1, ClientOKKept DEF S, L
<1>11. StoresApart'
  BY <1>1, <1>5 DEF StoresApart
<1>12. MessagesOK'
  <2> SUFFICES ASSUME NEW d \in Client
               PROVE  /\ \A p \in Pushes(toServer'[d], queue', d) :
                           PushOK(history', L, T, held[d], inTransit[d], p)
                      /\ \A a \in Answers(toClient'[d], queue', d) :
                           AnswerOK(history', L, T, a)
                      /\ OnePush(toServer'[d], queue', d)
    BY <1>5, <1>7 DEF MessagesOK
  <2>1. ASSUME NEW p \in Pushes(toServer'[d], queue', d)
        PROVE  PushOK(history', L, T, held[d], inTransit[d], p)
    <3>1. p \in Pushes(toServer'[d], q, d)
      BY <1>6, <2>1
    <3>2. p \in Pushes(toServer[d], queue, d) /\ held[d] \cap T \subseteq S
      BY <3>1 DEF S
    <3>3. /\ PushOK(history, ServerLine, S, held[d], inTransit[d], p)
          /\ ClientOK(history, ServerLine, S, held[d], current[d], lastServer[d], inTransit[d])
      BY <1>1, <3>2 DEF MessagesOK, ClientsOK, S
    <3>4. inTransit[d] \in 1..Len(history)
      BY <3>3 DEF PushOK, ClientOK, StoreOK
    <3> QED
      BY <3>2, <3>3, <3>4, PushOKKept DEF L
  <2>2. ASSUME NEW a \in Answers(toClient'[d], queue', d)
        PROVE  AnswerOK(history', L, T, a)
    <3>1. CASE a \in Answers(toClient[d], q, d)
      <4>1. a \in Answers(toClient[d], queue, d)
        BY <3>1
      <4>2. AnswerOK(history, ServerLine, S, a)
        BY <1>1, <4>1 DEF MessagesOK, S
      <4> QED
        BY <1>4, <4>2, AnswerOKKept DEF L, S
    <3>2. CASE a \notin Answers(toClient[d], q, d)
      BY <1>6, <2>2, <3>2
    <3> QED
      BY <3>1, <3>2
  <2>3. OnePush(toServer'[d], queue', d)
    BY <1>6
  <2> QED
    BY <2>1, <2>2, <2>3
<1>13. failed' = {} /\ current[Server] \in Line(history', current'[Server])
  BY <1>1, <1>4, <1>5, <1>6
<1> QED
  BY <1>8, <1>9, <1>10, <1>11, <1>12, <1>13 DEF SynchronizerInv

(* A push handled takes its place in the server's branch, and the server's *)
(* clients are sent the outcome.                                           *)
LEMMA HandlePushedRevisionsInv ==
  ASSUME SynchronizerInv, NEW c \in Client,
         NEW m, m \in Pushes(toServer[c], queue, c),
         NEW q \in Seq(QueueRecord), HandlePushedRevisions(c, m, q),
         toServer' \in [Client -> Seq(PushRecord)],
         \A d \in Client : /\ Pushes(toServer'[d], q, d) \subseteq Pushes(toServer[d], queue, d)
                           /\ OnePush(toServer'[d], q, d)
                           /\ Answers(toClient[d], q, d) \subseteq Answers(toClient[d], queue, d),
         Pushes(toServer'[c], q, c) = {},
         lastServer' = lastServer, inTransit' = inTransit
  PROVE  /\ SynchronizerInv'
         /\ current[Server] \in Line(history', current'[Server])
<1> DEFINE t == inTransit[c]
           l == m.lastRevisionSentByServer
           S == held[Server]
           g == MergedHistory(t)
           N == (Len(history) + 1)..Len(g)
           cur == IF N = {} THEN t ELSE Len(g)
           T == (S \cup m.revisions) \cup N
<1>1. Types /\ ServerOK /\ ClientsOK /\ StoresApart /\ MessagesOK /\ failed = {}
  BY DEF SynchronizerInv
<1>2. /\ GoodHistory(history) /\ StoreOK(history, S) /\ 1 \in S
      /\ current[Server] \in S /\ current[Server] \in 1..Len(history) /\ Len(history) \in Nat
      /\ \A d \in DOMAIN lastSent : lastSent[d] \in ServerLine
  BY <1>1 DEF ServerOK, StoreOK, GoodHistory
<1>3. /\ PushOK(history, ServerLine, S, held[c], t, m)
      /\ ClientOK(history, ServerLine, S, held[c], current[c], lastServer[c], t)
  BY <1>1 DEF MessagesOK, ClientsOK
<1>4. /\ t \in 1..Len(history) /\ l \in ServerLine /\ l \in Line(history, t) /\ l < t
      /\ m.revisions = RevisionsFromTo(history, l, t)
      /\ m.revisions \subseteq held[c] /\ m.revisions \cap S = {}
  BY <1>3 DEF PushOK, ClientOK, StoreOK
<1>5. ServerLine \subseteq S /\ ServerLine \in SUBSET (1..Len(history)) /\ l \in S /\ l \in Nat
      /\ ServerLine = Line(history, current[Server])
  <2>1. ServerLine \subseteq S /\ S \in SUBSET (1..Len(history))
    BY <1>2, ServerHoldsLines DEF ServerLine, StoreOK
  <2> QED
    BY <1>2, <1>4, <2>1 DEF ServerLine
<1>6. /\ Max(m.revisions) = t /\ t \in m.revisions /\ t \notin S
      /\ m.revisions \in SUBSET (1..t)
  <2>1. Max(m.revisions) = t
    BY <1>2, <1>4, <1>5, TipOfRange
  <2>2. t \in m.revisions /\ m.revisions \in SUBSET (1..t)
    BY <1>2, <1>4, LineOfAncestor DEF RevisionsFromTo, GoodHistory
  <2> QED
    BY <1>4, <2>1, <2>2
<1>7. /\ Grown(history, g, current[Server]) /\ cur \in 1..Len(g) /\ t <= cur
      /\ cur = t \/ cur \in N
      /\ ServerLine \subseteq Line(g, cur)
  BY <1>1, <1>4, <1>6, MergedHistoryIs
<1>8. GoodHistory(g) /\ StoreOK(g, T)
  <2>1. GoodHistory(g)
    BY <1>2, <1>7, GrownIsGood
  <2> QED
    BY <1>1, <1>4, <1>7, <2>1, ServerStoreTakesPush
<1>9. /\ history' = g
      /\ current' = [current EXCEPT ![Server] = cur]
      /\ held' = [held EXCEPT ![Server] = T]
      /\ NotifyClients(g, cur, SentAfterPush(c, m), [client |-> c, revision |-> t], q)
  BY <1>4, <1>6, Zenon DEF HandlePushedRevisions
<1>10. /\ cur \in T /\ cur \notin S /\ S \subseteq T /\ t \in T /\ 1 \in T
       /\ t \in Nat /\ cur # None /\ l # cur
  <2>1. S \in SUBSET (1..Len(history))
    BY <1>2 DEF StoreOK
  <2> HIDE DEF g, cur
  <2> QED
    BY <1>2, <1>4, <1>5, <1>6, <1>7, <2>1 DEF None
<1> HIDE DEF g, cur, N, T
<1> DEFINE sent == SentAfterPush(c, m)
<1>11. /\ DOMAIN sent \in SUBSET Client /\ IsFiniteSet(DOMAIN sent)
       /\ \A d \in DOMAIN sent : sent[d] \in Line(g, cur)
       /\ c \in DOMAIN sent /\ sent[c] = l
  <2>1. DOMAIN sent = DOMAIN lastSent \cup {c}
        /\ \A d \in DOMAIN sent : sent[d] = IF d = c THEN l ELSE lastSent[d]
    BY DEF SentAfterPush, SentTo
  <2>2. DOMAIN lastSent \in SUBSET Client /\ IsFiniteSet(DOMAIN lastSent)
    BY <1>1 DEF Types
  <2>3. IsFiniteSet(DOMAIN lastSent \cup {c})
    BY <2>2, FS_AddElement
  <2> HIDE DEF sent
  <2> QED
    BY <1>2, <1>4, <1>7, <2>1, <2>2, <2>3
<1>12. ASSUME NEW d \in Client
       PROVE  \A r \in held[d] \cap T : r \in S \/ (d = c /\ r <= inTransit[d])
  <2>1. held[d] \in SUBSET (1..Len(history))
    BY <1>1 DEF ClientsOK, ClientOK, StoreOK
  <2>2. held[d] \cap N = {}
    BY <1>2, <2>1 DEF N
  <2>3. d # c => held[c] \cap held[d] \subseteq S
    BY <1>1 DEF StoresApart
  <2>4. \A r \in m.revisions : r \in held[c] /\ r <= inTransit[c]
    <3>1. t = inTransit[c]
      OBVIOUS
    <3> HIDE DEF t
    <3> QED
      BY <1>4, <1>6, <1>10, <3>1
  <2> HIDE DEF S
  <2> QED
    BY <2>2, <2>3, <2>4 DEF T
<1>13. \A d \in Client :
         /\ \A r \in held[d] \cap T : r \in S \/ r <= inTransit[d]
         /\ Pushes(toServer'[d], q, d) # {} => held[d] \cap T \subseteq S
  BY <1>12
<1> DEFINE asked == [client |-> c, revision |-> t]
<1>14. /\ asked.client \in DOMAIN sent /\ sent[asked.client] # cur
       /\ asked.revision \in Nat /\ asked.revision \in T /\ asked.revision <= cur
  <2>1. asked.client = c /\ asked.revision = t
    OBVIOUS
  <2> HIDE DEF asked, sent, t
  <2> QED
    BY <1>7, <1>10, <1>11, <2>1
<1>15. /\ Grown(history, history', current[Server]) /\ cur \in 1..Len(history')
       /\ ServerLine \subseteq Line(history', cur) /\ StoreOK(history', T)
       /\ \A d \in DOMAIN sent : sent[d] \in Line(history', cur)
       /\ NotifyClients(history', cur, sent, asked, q)
       /\ current' = [current EXCEPT ![Server] = cur] /\ held' = [held EXCEPT ![Server] = T]
  BY <1>7, <1>8, <1>9, <1>11
<1> HIDE DEF sent, asked
<1> QED
  BY <1>10, <1>11, <1>13, <1>14, <1>15, ServerStepInv

-----------------------------------------------------------------------------
(* The clients' handlers                                                   *)

(* No push is under way when there is none in a client's messages.         *)
LEMMA NoPushes ==
  ASSUME NEW ts \in Seq(PushRecord), NEW q, NEW c, Pushes(ts, q, c) = {}
  PROVE  ts = << >> /\ Waiting(q, c) = {}
<1>1. Waiting(q, c) = {}
  BY DEF Pushes
<1>2. ElementsOf(ts) = {}
  BY DEF Pushes
<1>3. Len(ts) \in Nat /\ ~ (1 \in 1..Len(ts))
  BY <1>2, LenProperties DEF ElementsOf
<1>4. Len(ts) = 0
  BY <1>3
<1> QED
  BY <1>1, <1>4, EmptySeq

(* A client pushes what the server lacks, unless a push is in transit.     *)
LEMMA SendPushSends ==
  ASSUME NEW c \in Client, NEW g, GoodHistory(g), NEW K, NEW S, NEW H, StoreOK(g, H),
         NEW cur \in H, NEW last \in H, last \in K,
         NEW transit \in Nat,
         transit = None => /\ last \in Line(g, cur)
                           /\ RevisionsFromTo(g, last, cur) \cap S = {}
                           /\ Pushes(toServer[c], queue, c) = {},
         transit # None => /\ transit \in Line(g, cur) /\ transit \in H
                           /\ RevisionsFromTo(g, transit, cur) \cap S = {}
                           /\ \A p \in Pushes(toServer[c], queue, c) :
                                PushOK(g, K, S, H, transit, p),
         OnePush(toServer[c], queue, c),
         toServer \in [Client -> Seq(PushRecord)], inTransit \in [Client -> Nat],
         SendPush(c, g, cur, last, transit)
  PROVE  /\ ClientOK(g, K, S, H, cur, last, inTransit'[c])
         /\ \A p \in Pushes(toServer'[c], queue, c) :
              PushOK(g, K, S, H, inTransit'[c], p)
         /\ OnePush(toServer'[c], queue, c)
         /\ toServer' \in [Client -> Seq(PushRecord)] /\ inTransit' \in [Client -> Nat]
         /\ \A d \in Client \ {c} : toServer'[d] = toServer[d] /\ inTransit'[d] = inTransit[d]
         /\ failed' = failed
<1>1. /\ Len(g) \in Nat /\ cur \in 1..Len(g) /\ last \in 1..Len(g)
      /\ transit = None => last <= cur
      /\ cur # None /\ last # None /\ cur \in Line(g, cur)
      /\ Line(g, cur) \in SUBSET (1..cur)
  BY LineOfAncestor DEF GoodHistory, StoreOK, None
<1>2. CASE ~ HasToPush(cur, last, transit)
  <2>1. /\ inTransit' = [inTransit EXCEPT ![c] = transit]
        /\ toServer' = toServer /\ failed' = failed
    BY <1>2 DEF SendPush
  <2>2. transit = None => cur = last
    BY <1>2 DEF HasToPush
  <2>3. ClientOK(g, K, S, H, cur, last, transit)
    BY <1>1, <2>2 DEF ClientOK
  <2> QED
    BY <2>1, <2>3
<1>3. CASE HasToPush(cur, last, transit)
  <2> DEFINE revs == RevisionsFromTo(g, last, cur)
             p == ClientMessage(revs, last)
  <2>1. transit = None /\ cur # last /\ last < cur
    BY <1>1, <1>3 DEF HasToPush
  <2>2. /\ inTransit' = [inTransit EXCEPT ![c] = cur]
        /\ toServer' = [toServer EXCEPT ![c] = Append(@, p)]
        /\ failed' = failed
    BY <1>1, <1>3, <2>1 DEF SendPush, IsEqualToOrParent
  <2>3. /\ revs \in SUBSET Nat /\ revs \subseteq H /\ revs \cap S = {}
        /\ RevisionsFromTo(g, cur, cur) = {}
    BY <1>1, <2>1, RangeHeld DEF RevisionsFromTo
  <2>4. p = [revisions |-> revs, lastRevisionSentByServer |-> last]
    BY DEF ClientMessage
  <2>5. p \in PushRecord /\ PushOK(g, K, S, H, cur, p)
    <3> HIDE DEF p
    <3>1. p.revisions = revs /\ p.lastRevisionSentByServer = last
      BY <2>4
    <3>2. p \in PushRecord
      <4> HIDE DEF revs
      <4> QED
        BY <1>1, <2>3, <2>4 DEF PushRecord
    <3> QED
      BY <1>1, <2>1, <2>3, <3>1, <3>2 DEF PushOK
  <2> HIDE DEF p, revs
  <2>6. toServer[c] = << >> /\ Waiting(queue, c) = {}
    BY <2>1, NoPushes
  <2>7. toServer'[c] = <<p>> /\ toServer' \in [Client -> Seq(PushRecord)]
        /\ \A d \in Client \ {c} : toServer'[d] = toServer[d]
    <3>1. Append(<< >>, p) = <<p>>
      OBVIOUS
    <3>2. <<p>> \in Seq(PushRecord)
      BY <2>5
    <3> QED
      BY <2>2, <2>6, <3>1, <3>2
  <2>8. ElementsOf(<<p>>) = {p} /\ Len(<<p>>) = 1
    <3>1. Len(<<p>>) = 1 /\ <<p>>[1] = p /\ 1..1 = {1}
      OBVIOUS
    <3> QED
      BY <3>1 DEF ElementsOf
  <2>9. Pushes(toServer'[c], queue, c) = {p} /\ OnePush(toServer'[c], queue, c)
    BY <2>6, <2>7, <2>8 DEF Pushes, OnePush
  <2>10. /\ inTransit'[c] = cur /\ inTransit' \in [Client -> Nat]
         /\ \A d \in Client \ {c} : inTransit'[d] = inTransit[d]
    BY <1>1, <2>2
  <2>11. ClientOK(g, K, S, H, cur, last, cur)
    BY <1>1, <2>3 DEF ClientOK
  <2> QED
    BY <2>2, <2>5, <2>7, <2>9, <2>10, <2>11
<1> QED
  BY <1>2, <1>3

(* A step of one client keeps the invariant if the client stays as it      *)
(* should and takes nothing another client alone has.                      *)
LEMMA ClientStepInv ==
  ASSUME SynchronizerInv, NEW c \in Client, NEW dest \in 1..Len(history),
         Grown(history, history', dest),
         NEW cur \in Nat, current' = [current EXCEPT ![c] = cur],
         NEW H \in SUBSET Nat, held' = [held EXCEPT ![c] = H],
         NEW last \in Nat, lastServer' = [lastServer EXCEPT ![c] = last],
         inTransit' \in [Client -> Nat],
         toServer' \in [Client -> Seq(PushRecord)], toClient' \in [Client -> Seq(ClientRecord)],
         ClientOK(history', ServerLine, held[Server], H, cur, last, inTransit'[c]),
         \A r \in H : r \in held[c] \/ r \in held[Server] \/ r > Len(history),
         \A p \in Pushes(toServer'[c], queue, c) :
           PushOK(history', ServerLine, held[Server], H, inTransit'[c], p),
         OnePush(toServer'[c], queue, c),
         \A d \in Client \ {c} : toServer'[d] = toServer[d] /\ inTransit'[d] = inTransit[d],
         \A d \in Client : Answers(toClient'[d], queue, d) \subseteq Answers(toClient[d], queue, d),
         queue' = queue, lastSent' = lastSent, responding' = responding, failed' = failed
  PROVE  /\ SynchronizerInv'
         /\ current[Server] \in Line(history', current'[Server])
<1> DEFINE S == held[Server]
<1>1. Types /\ ServerOK /\ ClientsOK /\ StoresApart /\ MessagesOK /\ failed = {}
  BY DEF SynchronizerInv
<1>2. /\ Server \in Site /\ Server # c
      /\ \A d \in Client : d \in Site /\ d # Server
  BY SynchronizerAssumption DEF Site
<1>3. /\ current'[Server] = current[Server] /\ held'[Server] = S
      /\ current'[c] = cur /\ held'[c] = H /\ lastServer'[c] = last
      /\ \A d \in Client \ {c} : /\ current'[d] = current[d] /\ held'[d] = held[d]
                                 /\ lastServer'[d] = lastServer[d]
  BY <1>1, <1>2 DEF Types
<1>4. Types'
  BY <1>1 DEF Types
<1>5. /\ GoodHistory(history) /\ GoodHistory(history') /\ StoreOK(history', S)
      /\ current[Server] \in 1..Len(history) /\ Len(history) \in Nat
      /\ S \in SUBSET (1..Len(history))
  BY <1>1, GrownIsGood, StoreOKGrown DEF ServerOK, StoreOK, GoodHistory
<1>6. ServerLine' = ServerLine /\ ServerLine \in SUBSET (1..Len(history))
      /\ current[Server] \in ServerLine
  <2>1. Line(history', current[Server]) = Line(history, current[Server])
    BY <1>5 DEF Grown
  <2>2. ServerLine' = Line(history', current[Server])
    BY <1>3 DEF ServerLine
  <2>3. \A a \in ServerLine : a \in 1..Len(history)
    BY <1>5, LineOfAncestor DEF ServerLine
  <2> QED
    BY <1>5, <2>1, <2>2, <2>3 DEF ServerLine, GoodHistory
<1>7. ServerOK'
  BY <1>1, <1>3, <1>5, <1>6 DEF ServerOK
<1>8. ASSUME NEW d \in Client \ {c}
      PROVE  /\ held[d] \in SUBSET (1..Len(history)) /\ held[c] \cap held[d] \subseteq S
             /\ ClientOK(history, ServerLine, S, held[d], current[d], lastServer[d], inTransit[d])
  BY <1>1 DEF ClientsOK, ClientOK, StoreOK, StoresApart
<1>9. ClientsOK'
  <2> SUFFICES ASSUME NEW d \in Client
               PROVE  ClientOK(history', ServerLine, S, held'[d], current'[d],
                               lastServer'[d], inTransit'[d])
    BY <1>3, <1>6 DEF ClientsOK
  <2>1. CASE d = c
    BY <1>3, <2>1
  <2>2. CASE d # c
    <3>1. ClientOK(history', ServerLine, S, held[d], current[d], lastServer[d], inTransit[d])
      BY <1>5, <1>8, <2>2, ClientOKKept
    <3> QED
      BY <1>3, <2>2, <3>1
  <2> QED
    BY <2>1, <2>2
<1>10. StoresApart'
  <2> SUFFICES ASSUME NEW d \in Client \ {c}
               PROVE  H \cap held[d] \subseteq S
    BY <1>1, <1>3 DEF StoresApart
  <2>1. \A r \in held[d] : ~ (r > Len(history))
    BY <1>5, <1>8
  <2> QED
    BY <1>8, <2>1
<1>11. MessagesOK'
  <2> SUFFICES ASSUME NEW d \in Client
               PROVE  /\ \A p \in Pushes(toServer'[d], queue, d) :
                           PushOK(history', ServerLine, S, held'[d], inTransit'[d], p)
                      /\ \A a \in Answers(toClient'[d], queue, d) :
                           AnswerOK(history', ServerLine, S, a)
                      /\ OnePush(toServer'[d], queue, d)
    BY <1>3, <1>6 DEF MessagesOK
  <2>1. /\ \A p \in Pushes(toServer[d], queue, d) :
             PushOK(history, ServerLine, S, held[d], inTransit[d], p)
        /\ \A a \in Answers(toClient[d], queue, d) : AnswerOK(history, ServerLine, S, a)
        /\ OnePush(toServer[d], queue, d)
    BY <1>1 DEF MessagesOK
  <2>2. \A a \in Answers(toClient'[d], queue, d) : AnswerOK(history', ServerLine, S, a)
    <3> TAKE a \in Answers(toClient'[d], queue, d)
    <3>1. AnswerOK(history, ServerLine, S, a)
      BY <2>1
    <3> QED
      BY <1>6, <3>1, AnswerOKKept
  <2>3. CASE d = c
    BY <1>3, <2>2, <2>3
  <2>4. CASE d # c
    <3>1. ASSUME NEW p \in Pushes(toServer[d], queue, d)
          PROVE  PushOK(history', ServerLine, S, held[d], inTransit[d], p)
      <4>1. PushOK(history, ServerLine, S, held[d], inTransit[d], p)
        BY <2>1
      <4>2. inTransit[d] \in 1..Len(history)
        BY <1>8, <2>4, <4>1 DEF PushOK, ClientOK
      <4> HIDE DEF S
      <4> QED
        BY <4>1, <4>2, PushOKKept
    <3> QED
      BY <1>3, <2>1, <2>2, <2>4, <3>1
  <2> QED
    BY <2>3, <2>4
<1>12. failed' = {} /\ current[Server] \in Line(history', current'[Server])
  BY <1>1, <1>3, <1>6 DEF ServerLine
<1> QED
  BY <1>4, <1>7, <1>9, <1>10, <1>11, <1>12 DEF SynchronizerInv

\* A message to a client was taken, and the server did nothing.
Delivered ==
  /\ toClient' \in [Client -> Seq(ClientRecord)]
  /\ \A d \in Client : Answers(toClient'[d], queue, d) \subseteq Answers(toClient[d], queue, d)
  /\ queue' = queue /\ lastSent' = lastSent /\ responding' = responding

(* A history is itself with nothing written.                               *)
LEMMA GrownByNothing ==
  ASSUME NEW h, GoodHistory(h), NEW dest
  PROVE  Grown(h, h, dest)
BY DEF GoodHistory, Grown

(* The parts of the invariant that say what a client may rely on.          *)
LEMMA ClientFacts ==
  ASSUME SynchronizerInv, NEW c \in Client
  PROVE  /\ Types /\ GoodHistory(history) /\ Len(history) \in Nat \ {0}
         /\ held[Server] \in SUBSET (1..Len(history)) /\ 1 \in 1..Len(history)
         /\ ServerLine \subseteq held[Server]
         /\ \A t \in ServerLine : /\ t \in 1..Len(history)
                                  /\ Line(history, t) \subseteq ServerLine
         /\ ClientOK(history, ServerLine, held[Server], held[c], current[c], lastServer[c],
                     inTransit[c])
         /\ held[c] \in SUBSET (1..Len(history))
         /\ \A p \in Pushes(toServer[c], queue, c) :
              PushOK(history, ServerLine, held[Server], held[c], inTransit[c], p)
         /\ OnePush(toServer[c], queue, c)
         /\ c \in Site /\ Server \in Site /\ c # Server /\ failed = {}
<1>1. Types /\ ServerOK /\ ClientsOK /\ MessagesOK /\ failed = {}
  BY DEF SynchronizerInv
<1>2. /\ GoodHistory(history) /\ Len(history) \in Nat \ {0} /\ StoreOK(history, held[Server])
      /\ held[Server] \in SUBSET (1..Len(history)) /\ 1 \in held[Server]
      /\ current[Server] \in held[Server]
  BY <1>1 DEF ServerOK, StoreOK, GoodHistory
<1>3. ServerLine \subseteq held[Server]
  BY <1>2, ServerHoldsLines DEF ServerLine
<1>4. \A t \in ServerLine : t \in 1..Len(history) /\ Line(history, t) \subseteq ServerLine
  BY <1>2, LineOfAncestor DEF ServerLine
<1>5. /\ ClientOK(history, ServerLine, held[Server], held[c], current[c], lastServer[c],
                  inTransit[c])
      /\ held[c] \in SUBSET (1..Len(history))
  BY <1>1 DEF ClientsOK, ClientOK, StoreOK
<1>6. c \in Site /\ Server \in Site /\ c # Server
  BY SynchronizerAssumption DEF Site
<1>7. /\ \A p \in Pushes(toServer[c], queue, c) :
           PushOK(history, ServerLine, held[Server], held[c], inTransit[c], p)
      /\ OnePush(toServer[c], queue, c)
  BY <1>1 DEF MessagesOK
<1> QED
  BY <1>1, <1>2, <1>3, <1>4, <1>5, <1>6, <1>7

(* A client that only settles what it knows of the server.                 *)
LEMMA ClientSettlesInv ==
  ASSUME SynchronizerInv, NEW c \in Client, Delivered,
         UNCHANGED <<history, current, held, toServer, failed>>,
         NEW last \in Nat, lastServer' = [lastServer EXCEPT ![c] = last],
         inTransit' \in [Client -> Nat],
         \A d \in Client \ {c} : inTransit'[d] = inTransit[d],
         ClientOK(history, ServerLine, held[Server], held[c], current[c], last, inTransit'[c]),
         \A p \in Pushes(toServer[c], queue, c) : inTransit'[c] = inTransit[c]
  PROVE  /\ SynchronizerInv'
         /\ current[Server] \in Line(history', current'[Server])
<1>1. /\ Types /\ GoodHistory(history) /\ 1 \in 1..Len(history)
      /\ \A p \in Pushes(toServer[c], queue, c) :
           PushOK(history, ServerLine, held[Server], held[c], inTransit[c], p)
      /\ OnePush(toServer[c], queue, c) /\ c \in Site
  BY ClientFacts
<1>2. Grown(history, history', 1)
  BY <1>1, GrownByNothing
<1>3. /\ current' = [current EXCEPT ![c] = current[c]] /\ current[c] \in Nat
      /\ held' = [held EXCEPT ![c] = held[c]] /\ held[c] \in SUBSET Nat
      /\ toServer' \in [Client -> Seq(PushRecord)] /\ toServer' = toServer
  BY <1>1 DEF Types
<1>4. \A p \in Pushes(toServer'[c], queue, c) :
        PushOK(history', ServerLine, held[Server], held[c], inTransit'[c], p)
  BY <1>1, <1>3
<1> QED
  BY <1>1, <1>2, <1>3, <1>4, ClientStepInv DEF Delivered

(* A client that is set up takes the server's revision.                    *)
LEMMA HandleSetupInv ==
  ASSUME SynchronizerInv, NEW c \in Client, Delivered, NEW m, m.class = "setup",
         AnswerOK(history, ServerLine, held[Server], m), HandleSetup(c, m)
  PROVE  /\ SynchronizerInv'
         /\ current[Server] \in Line(history', current'[Server])
<1>1. PICK t \in ServerLine : m.revisions = {t}
  BY DEF AnswerOK
<1>2. /\ Types /\ GoodHistory(history) /\ Len(history) \in Nat \ {0}
      /\ t \in 1..Len(history) /\ t \in held[Server]
      /\ ClientOK(history, ServerLine, held[Server], held[c], current[c], lastServer[c],
                  inTransit[c])
      /\ \A p \in Pushes(toServer[c], queue, c) :
           PushOK(history, ServerLine, held[Server], held[c], inTransit[c], p)
      /\ OnePush(toServer[c], queue, c) /\ c \in Site
  BY ClientFacts
<1>3. Max(m.revisions) = t
  BY <1>1, <1>2, MaxIs
<1>4. CASE current[c] # None
  <2>1. UNCHANGED <<history, current, held, clientVars, failed>>
    BY <1>4 DEF HandleSetup
  <2>2. /\ lastServer' = [lastServer EXCEPT ![c] = lastServer[c]] /\ lastServer[c] \in Nat
        /\ inTransit' \in [Client -> Nat] /\ inTransit' = inTransit /\ toServer' = toServer
    BY <1>2, <2>1 DEF Types, clientVars
  <2> QED
    BY <1>2, <2>1, <2>2, ClientSettlesInv
<1>5. CASE current[c] = None
  <2>1. /\ current' = [current EXCEPT ![c] = t]
        /\ held' = [held EXCEPT ![c] = {t}]
        /\ lastServer' = [lastServer EXCEPT ![c] = t]
        /\ UNCHANGED <<history, inTransit, toServer, failed>>
    BY <1>3, <1>5 DEF HandleSetup
  <2>2. inTransit[c] = None /\ Pushes(toServer[c], queue, c) = {}
    BY <1>2, <1>5 DEF ClientOK, PushOK
  <2>3. StoreOK(history, {t})
    <3>1. t \in Line(history, t) /\ RevisionsFromTo(history, t, t) = {}
      BY <1>2 DEF GoodHistory, RevisionsFromTo
    <3> QED
      BY <1>2, <3>1 DEF StoreOK, Rooted
  <2>4. ClientOK(history, ServerLine, held[Server], {t}, t, t, None)
    BY <1>1, <1>2, <2>3 DEF ClientOK, None
  <2>5. Grown(history, history', t)
    BY <1>2, <2>1, GrownByNothing
  <2>6. /\ toServer' \in [Client -> Seq(PushRecord)] /\ inTransit' \in [Client -> Nat]
        /\ inTransit' = inTransit /\ toServer' = toServer /\ history' = history
    BY <1>2, <2>1 DEF Types
  <2>7. t \in Nat /\ {t} \in SUBSET Nat
    BY <1>2
  <2>8. /\ ClientOK(history', ServerLine, held[Server], {t}, t, t, inTransit'[c])
        /\ \A p \in Pushes(toServer'[c], queue, c) :
             PushOK(history', ServerLine, held[Server], {t}, inTransit'[c], p)
        /\ OnePush(toServer'[c], queue, c)
        /\ \A d \in Client \ {c} : toServer'[d] = toServer[d] /\ inTransit'[d] = inTransit[d]
        /\ \A r \in {t} : r \in held[c] \/ r \in held[Server] \/ r > Len(history)
    BY <1>2, <2>2, <2>4, <2>6
  <2>9. failed' = failed
    BY <2>1
  <2> QED
    BY <1>2, <2>1, <2>5, <2>6, <2>7, <2>8, <2>9, ClientStepInv DEF Delivered
<1> QED
  BY <1>4, <1>5

(* The server's revisions from the client's last up to t are in its store, *)
(* and the client's own commits are after them.                            *)
LEMMA ApplyRevisionsInv ==
  ASSUME SynchronizerInv, NEW c \in Client, Delivered,
         NEW t \in ServerLine, lastServer[c] # None,
         lastServer[c] \in Line(history, t), lastServer[c] < t, t # current[c],
         inTransit[c] # None => inTransit[c] <= t,
         Pushes(toServer[c], queue, c) = {},
         ApplyRevisions(c, RevisionsFromTo(history, lastServer[c], t), t)
  PROVE  /\ SynchronizerInv'
         /\ current[Server] \in Line(history', current'[Server])
<1> DEFINE S == held[Server]
           last == lastServer[c]
           sent == inTransit[c]
           old == current[c]
           used == RevisionsFromTo(history, last, t)
           ahead == IsEqualToOrParent(history, t, old)
           rebases == ~ahead /\ sent # None /\ old # sent
           h == IF rebases THEN Rebase(history, old, t, sent) ELSE history
           cur == IF rebases THEN Len(h) ELSE IF ahead THEN old ELSE t
           N == (Len(history) + 1)..Len(h)
           H == (held[c] \cup used) \cup N
<1>1. /\ Types /\ GoodHistory(history) /\ Len(history) \in Nat \ {0}
      /\ S \in SUBSET (1..Len(history)) /\ ServerLine \subseteq S
      /\ t \in 1..Len(history) /\ Line(history, t) \subseteq ServerLine
      /\ ClientOK(history, ServerLine, S, held[c], old, last, sent)
      /\ held[c] \in SUBSET (1..Len(history))
      /\ OnePush(toServer[c], queue, c) /\ c \in Site
  BY ClientFacts
<1>2. /\ history' = h
      /\ current' = [current EXCEPT ![c] = cur]
      /\ held' = [held EXCEPT ![c] = @ \cup used \cup N]
      /\ lastServer' = [lastServer EXCEPT ![c] = t]
      /\ SendPush(c, h, cur, t, None)
  BY Zenon DEF ApplyRevisions
<1>3. /\ last \in held[c] /\ last \in Nat \ {0} /\ StoreOK(history, held[c])
      /\ old \in Nat /\ sent \in Nat
      /\ old # None => old \in held[c] /\ old \in 1..Len(history)
      /\ sent = None => old = last
      /\ sent # None => /\ old # None /\ sent \in Line(history, old) /\ sent \in held[c]
                        /\ RevisionsFromTo(history, sent, old) \cap S = {}
  BY <1>1 DEF ClientOK, StoreOK, None
<1>4. /\ StoreOK(history, held[c] \cup used)
      /\ t \in used /\ used \subseteq S /\ used \in SUBSET (1..Len(history))
  <2>1. StoreOK(history, held[c] \cup used)
    BY <1>1, <1>3, StoreTakesRange
  <2>2. t \in used /\ used \subseteq S
    BY <1>1 DEF RevisionsFromTo, GoodHistory
  <2> QED
    BY <1>1, <2>1, <2>2
<1>5. ahead => sent # None /\ old # None /\ t \in Line(history, old) /\ t < old
  <2>1. ASSUME ahead
        PROVE  old # None /\ t \in Line(history, old) /\ t < old
    BY <1>1, <1>3, <2>1, LineOfAncestor DEF IsEqualToOrParent
  <2>2. ASSUME ahead, sent = None
        PROVE  FALSE
    <3>1. old = last
      BY <1>3, <2>2
    <3> QED
      BY <1>1, <1>3, <2>1, <2>2, <3>1
  <2> QED
    BY <2>1, <2>2
<1> HIDE DEF used, ahead
<1>6. rebases => /\ Grown(history, h, t) /\ Len(h) > Len(history) /\ Len(h) \in Nat
                 /\ cur = Len(h)
  <2> SUFFICES ASSUME rebases
               PROVE  /\ Grown(history, h, t) /\ Len(h) > Len(history) /\ Len(h) \in Nat
    OBVIOUS
  <2>1. h = Rebase(history, old, t, sent)
    OBVIOUS
  <2>2. old \in 1..Len(history) /\ old > sent /\ sent \in Nat
    BY <1>1, <1>3, LineOfAncestor
  <2> HIDE DEF h
  <2>3. Grown(history, h, t) /\ Len(h) > Len(history)
    BY <1>1, <2>1, <2>2, RebaseGrows
  <2> QED
    BY <2>3 DEF Grown
<1>7. ~ rebases => h = history /\ N = {} /\ cur = IF ahead THEN old ELSE t
  <2> SUFFICES ASSUME ~ rebases
               PROVE  N = {}
    OBVIOUS
  <2>1. h = history
    OBVIOUS
  <2> HIDE DEF h
  <2> QED
    BY <1>1, <2>1
<1>8. Grown(history, h, t)
  <2>1. CASE rebases
    BY <1>6, <2>1
  <2>2. CASE ~ rebases
    <3>1. h = history
      BY <1>7, <2>2
    <3> HIDE DEF h
    <3> QED
      BY <1>1, <3>1, GrownByNothing
  <2> QED
    BY <2>1, <2>2
<1> HIDE DEF h, cur, rebases, N
<1>9. GoodHistory(h) /\ StoreOK(h, H) /\ H \in SUBSET Nat /\ Len(h) \in Nat
  <2>1. GoodHistory(h)
    BY <1>1, <1>8, GrownIsGood
  <2>2. StoreOK(h, H)
    <3> DEFINE U == held[c] \cup used
    <3>1. StoreOK(history, U) /\ t \in U
      BY <1>4
    <3> HIDE DEF U
    <3>2. StoreOK(h, U \cup N)
      BY <1>1, <1>8, <3>1, StoreTakesNew DEF N
    <3> QED
      BY <3>2 DEF U
  <2> QED
    BY <2>1, <2>2 DEF StoreOK, GoodHistory
<1>10. /\ cur \in H /\ t \in H /\ t \in Line(h, cur)
       /\ RevisionsFromTo(h, t, cur) \cap S = {}
  <2>1. CASE rebases
    <3>1. Line(h, cur) = Line(history, t) \cup (Len(history) + 1)..cur /\ cur \in N
      BY <1>1, <1>6, <1>8, <2>1 DEF Grown, N
    <3>2. t \in Line(history, t) /\ \A r \in Line(history, t) : r \in 1..t
      BY <1>1 DEF GoodHistory
    <3>3. \A r \in RevisionsFromTo(h, t, cur) : r \in (Len(history) + 1)..cur
      BY <1>1, <3>1, <3>2 DEF RevisionsFromTo
    <3>4. \A r \in RevisionsFromTo(h, t, cur) : r \notin S
      BY <1>1, <1>6, <2>1, <3>3
    <3> QED
      BY <1>4, <3>1, <3>2, <3>4
  <2>2. CASE ~ rebases /\ ahead
    <3>1. /\ h = history /\ cur = old /\ old \in held[c] /\ sent # None
          /\ t \in Line(history, old) /\ old \in 1..Len(history)
      BY <1>3, <1>5, <1>7, <2>2
    <3>2. \A r \in RevisionsFromTo(history, t, old) : r \in RevisionsFromTo(history, sent, old)
      <4>1. \A r \in Line(history, old) : r \in Nat
        BY <1>1, <3>1 DEF GoodHistory
      <4> QED
        BY <1>1, <1>3, <3>1, <4>1 DEF RevisionsFromTo
    <3> QED
      BY <1>3, <1>4, <3>1, <3>2
  <2>3. CASE ~ rebases /\ ~ ahead
    <3>1. h = history /\ cur = t
      BY <1>7, <2>3
    <3>2. t \in Line(history, t) /\ RevisionsFromTo(history, t, t) = {}
      BY <1>1 DEF GoodHistory, RevisionsFromTo
    <3> QED
      BY <1>4, <3>1, <3>2
  <2> QED
    BY <2>1, <2>2, <2>3
<1> HIDE DEF H
<1>11. /\ ClientOK(h, ServerLine, S, H, cur, t, inTransit'[c])
       /\ \A p \in Pushes(toServer'[c], queue, c) :
            PushOK(h, ServerLine, S, H, inTransit'[c], p)
       /\ OnePush(toServer'[c], queue, c)
       /\ toServer' \in [Client -> Seq(PushRecord)] /\ inTransit' \in [Client -> Nat]
       /\ \A d \in Client \ {c} : toServer'[d] = toServer[d] /\ inTransit'[d] = inTransit[d]
       /\ failed' = failed
  <2>1. toServer \in [Client -> Seq(PushRecord)] /\ inTransit \in [Client -> Nat]
    BY <1>1 DEF Types
  <2>2. None \in Nat
    BY DEF None
  <2> HIDE DEF S
  <2> QED
    BY <1>1, <1>2, <1>9, <1>10, <2>1, <2>2, SendPushSends
<1>12. /\ held' = [held EXCEPT ![c] = H] /\ H \in SUBSET Nat /\ cur \in Nat /\ t \in Nat
       /\ \A r \in H : r \in held[c] \/ r \in S \/ r > Len(history)
  <2>1. held' = [held EXCEPT ![c] = H]
    BY <1>2 DEF H
  <2>2. \A r \in N : r > Len(history)
    BY <1>1, <1>9 DEF N
  <2> QED
    BY <1>1, <1>4, <1>9, <1>10, <2>1, <2>2 DEF H
<1> QED
  BY <1>1, <1>2, <1>8, <1>11, <1>12, ClientStepInv DEF Delivered

(* A push or an answer from the server is applied, or ignored if something *)
(* before it is missing.                                                   *)
LEMMA HandleRevisionsInv ==
  ASSUME SynchronizerInv, NEW c \in Client, Delivered, NEW m, m.class # "setup",
         AnswerOK(history, ServerLine, held[Server], m),
         inTransit[c] # None => m.class = "response" /\ m.answers = inTransit[c],
         HandleRevisions(c, m.revisions)
  PROVE  /\ SynchronizerInv'
         /\ current[Server] \in Line(history', current'[Server])
<1>1. /\ Types /\ GoodHistory(history) /\ Len(history) \in Nat \ {0}
      /\ ServerLine \subseteq held[Server]
      /\ ClientOK(history, ServerLine, held[Server], held[c], current[c], lastServer[c],
                  inTransit[c])
      /\ \A p \in Pushes(toServer[c], queue, c) :
           PushOK(history, ServerLine, held[Server], held[c], inTransit[c], p)
      /\ OnePush(toServer[c], queue, c)
  BY ClientFacts
<1>2. PICK t \in ServerLine : \E f \in Line(history, t) :
        /\ f < t /\ m.revisions = RevisionsFromTo(history, f, t)
        /\ m.class = "response" => m.answers \in held[Server] /\ m.answers <= t
  BY DEF AnswerOK
<1>3. PICK f \in Line(history, t) :
        /\ f < t /\ m.revisions = RevisionsFromTo(history, f, t)
        /\ m.class = "response" => m.answers \in held[Server] /\ m.answers <= t
  BY <1>2
<1>4. t \in 1..Len(history) /\ f \in Nat
  <2>1. t \in 1..Len(history)
    BY ClientFacts
  <2> QED
    BY <1>1, <2>1, LineOfAncestor
<1>5. Max(m.revisions) = t
  BY <1>1, <1>3, <1>4, TipOfRange
<1>6. inTransit[c] # None => inTransit[c] \in held[Server] /\ inTransit[c] <= t
  BY <1>3
<1>7. Pushes(toServer[c], queue, c) = {}
  <2> SUFFICES ASSUME NEW p \in Pushes(toServer[c], queue, c)
               PROVE  FALSE
    OBVIOUS
  <2>1. PushOK(history, ServerLine, held[Server], held[c], inTransit[c], p)
    BY <1>1
  <2>2. inTransit[c] \in 1..Len(history)
    BY <1>1, <2>1 DEF PushOK, ClientOK, StoreOK
  <2>3. inTransit[c] \in p.revisions
    BY <1>1, <2>1, <2>2 DEF PushOK, RevisionsFromTo, GoodHistory
  <2> QED
    BY <1>6, <2>1, <2>3 DEF PushOK
<1> DEFINE next == {r \in m.revisions : Follows(c, r)}
<1>8. CASE t = current[c]
  <2>1. /\ lastServer' = [lastServer EXCEPT ![c] = t]
        /\ inTransit' = [inTransit EXCEPT ![c] = None]
        /\ UNCHANGED <<history, current, held, toServer, failed>>
    BY <1>5, <1>8 DEF HandleRevisions
  <2>2. inTransit' \in [Client -> Nat] /\ inTransit'[c] = None
        /\ \A d \in Client \ {c} : inTransit'[d] = inTransit[d]
    BY <1>1, <2>1 DEF Types, None
  <2>3. ClientOK(history, ServerLine, held[Server], held[c], current[c], t, None)
    BY <1>1, <1>3, <1>4, <1>8 DEF ClientOK, None
  <2>4. t \in Nat
    BY <1>1, <1>4
  <2> QED
    BY <1>7, <2>1, <2>2, <2>3, <2>4, ClientSettlesInv
<1>9. CASE t # current[c] /\ next = {}
  <2>1. UNCHANGED <<history, current, held, clientVars, failed>>
    BY <1>5, <1>9 DEF HandleRevisions
  <2>2. /\ lastServer' = [lastServer EXCEPT ![c] = lastServer[c]] /\ lastServer[c] \in Nat
        /\ inTransit' \in [Client -> Nat] /\ inTransit' = inTransit /\ toServer' = toServer
    BY <1>1, <2>1 DEF Types, clientVars
  <2> QED
    BY <1>1, <2>1, <2>2, ClientSettlesInv
<1>10. CASE t # current[c] /\ next # {}
  <2>1. ApplyRevisions(c, {r \in m.revisions : r >= Max(next)}, t)
    BY <1>5, <1>10 DEF HandleRevisions
  <2>2. /\ lastServer[c] \in Nat \ {None}
        /\ next = {r \in RevisionsFromTo(history, f, t) : Parent(history, r) = lastServer[c]}
    BY <1>1, <1>3, <1>10 DEF Follows, Types
  <2> HIDE DEF next
  <2>3. /\ lastServer[c] \in Line(history, t) /\ lastServer[c] < t
        /\ {r \in RevisionsFromTo(history, f, t) : r >= Max(next)}
             = RevisionsFromTo(history, lastServer[c], t)
    <3>1. /\ next # {}
          /\ \A r : r \in next <=> /\ r \in RevisionsFromTo(history, f, t)
                                   /\ Parent(history, r) = lastServer[c]
      BY <1>10, <2>2
    <3>2. /\ lastServer[c] \in Line(history, t) /\ lastServer[c] < t
          /\ \A r : (r \in RevisionsFromTo(history, f, t) /\ r >= Max(next))
                    <=> r \in RevisionsFromTo(history, lastServer[c], t)
      <4>1. /\ GoodHistory(history) /\ t \in 1..Len(history) /\ f \in Nat
            /\ lastServer[c] \in Nat \ {None}
        BY <1>1, <1>4, <2>2
      <4> QED
        BY <3>1, <4>1, FollowersOfLast, Zenon
    <3> QED
      BY <3>2
  <2>4. ApplyRevisions(c, RevisionsFromTo(history, lastServer[c], t), t)
    BY <1>3, <2>1, <2>3
  <2> QED
    BY <1>6, <1>7, <1>10, <2>2, <2>3, <2>4, ApplyRevisionsInv
<1> QED
  BY <1>8, <1>9, <1>10

-----------------------------------------------------------------------------
(* The actions                                                             *)

\* What every step does.
Preserved == SynchronizerInv' /\ current[Server] \in Line(history', current'[Server])

(* The server as its handlers find it.                                     *)
LEMMA ServerFacts ==
  ASSUME SynchronizerInv
  PROVE  /\ Types /\ ServerOK /\ GoodHistory(history) /\ Len(history) \in Nat \ {0}
         /\ StoreOK(history, held[Server]) /\ held[Server] \in SUBSET (1..Len(history))
         /\ current[Server] \in held[Server] /\ current[Server] \in 1..Len(history)
         /\ current[Server] \in ServerLine /\ ServerLine \subseteq held[Server]
         /\ ServerLine \in SUBSET (1..Len(history))
<1>1. Types /\ ServerOK
  BY DEF SynchronizerInv
<1>2. /\ GoodHistory(history) /\ Len(history) \in Nat \ {0}
      /\ StoreOK(history, held[Server]) /\ held[Server] \in SUBSET (1..Len(history))
      /\ current[Server] \in held[Server] /\ 1 \in held[Server]
  BY <1>1 DEF ServerOK, StoreOK, GoodHistory
<1>3. ServerLine \subseteq held[Server]
  BY <1>2, ServerHoldsLines DEF ServerLine
<1>4. current[Server] \in ServerLine
  BY <1>2 DEF ServerLine, GoodHistory
<1> QED
  BY <1>1, <1>2, <1>3, <1>4

(* Steps that touch no store keep the invariant if the messages under way  *)
(* are right and the server's clients are on its branch.                   *)
LEMMA MessagesStepInv ==
  ASSUME SynchronizerInv,
         UNCHANGED <<history, current, held, lastServer, inTransit, responding, failed>>,
         toServer' \in [Client -> Seq(PushRecord)], toClient' \in [Client -> Seq(ClientRecord)],
         queue' \in Seq(QueueRecord),
         DOMAIN lastSent' \in SUBSET Client, IsFiniteSet(DOMAIN lastSent'),
         \A c \in DOMAIN lastSent' : lastSent'[c] \in ServerLine,
         \A c \in Client :
           /\ Pushes(toServer'[c], queue', c) \subseteq Pushes(toServer[c], queue, c)
           /\ \A a \in Answers(toClient'[c], queue', c) :
                \/ a \in Answers(toClient[c], queue, c)
                \/ AnswerOK(history, ServerLine, held[Server], a)
           /\ OnePush(toServer'[c], queue', c)
  PROVE  Preserved
<1>1. Types /\ ServerOK /\ ClientsOK /\ StoresApart /\ MessagesOK /\ failed = {}
  BY DEF SynchronizerInv
<1>2. ServerLine' = ServerLine
  BY DEF ServerLine
<1>3. Types'
  BY <1>1 DEF Types
<1>4. ServerOK'
  BY <1>1, <1>2 DEF ServerOK
<1>5. ClientsOK' /\ StoresApart'
  BY <1>1, <1>2 DEF ClientsOK, StoresApart
<1>6. MessagesOK'
  BY <1>1, <1>2 DEF MessagesOK
<1>7. current[Server] \in Line(history', current'[Server])
  BY ServerFacts DEF ServerLine
<1> QED
  BY <1>1, <1>3, <1>4, <1>5, <1>6, <1>7 DEF SynchronizerInv, Preserved

(* What is left of a site's messages after the first.                      *)
LEMMA TailOfMessages ==
  ASSUME NEW X, NEW s \in Seq(X), s # << >>
  PROVE  /\ Head(s) \in X /\ Head(s) \in ElementsOf(s)
         /\ Tail(s) \in Seq(X) /\ ElementsOf(Tail(s)) \subseteq ElementsOf(s)
         /\ Len(Tail(s)) = Len(s) - 1 /\ Len(s) \in Nat \ {0}
<1>1. /\ Head(s) \in X /\ Head(s) = s[1] /\ Tail(s) \in Seq(X) /\ Len(Tail(s)) = Len(s) - 1
      /\ \A i \in 1..Len(Tail(s)) : Tail(s)[i] = s[i + 1]
      /\ Len(s) \in Nat \ {0}
  BY HeadTailProperties, EmptySeq, LenProperties
<1>2. 1 \in 1..Len(s) /\ \A i \in 1..Len(Tail(s)) : i + 1 \in 1..Len(s)
  BY <1>1
<1> QED
  BY <1>1, <1>2 DEF ElementsOf

(* A message of a client to the server is taken out.                       *)
LEMMA TakeFromClient ==
  ASSUME SynchronizerInv, NEW c \in Client, toServer[c] # << >>,
         toServer' = [toServer EXCEPT ![c] = Tail(@)]
  PROVE  /\ toServer' \in [Client -> Seq(PushRecord)]
         /\ Head(toServer[c]) \in PushRecord /\ toServer[c] = <<Head(toServer[c])>>
         /\ Head(toServer[c]) \in Pushes(toServer[c], queue, c)
         /\ toServer'[c] = << >> /\ Pushes(toServer'[c], queue, c) = {}
         /\ \A d \in Client \ {c} : toServer'[d] = toServer[d]
         /\ \A d \in Client :
              /\ Pushes(toServer'[d], queue, d) \subseteq Pushes(toServer[d], queue, d)
              /\ OnePush(toServer'[d], queue, d)
<1> DEFINE s == toServer[c]
<1>1. Types /\ MessagesOK
  BY DEF SynchronizerInv
<1>2. s \in Seq(PushRecord)
  BY <1>1 DEF Types
<1>3. /\ Head(s) \in PushRecord /\ Head(s) \in ElementsOf(s) /\ Tail(s) \in Seq(PushRecord)
      /\ Len(Tail(s)) = Len(s) - 1 /\ Len(s) \in Nat \ {0}
  BY <1>2, TailOfMessages
<1>4. /\ toServer'[c] = Tail(s) /\ toServer' \in [Client -> Seq(PushRecord)]
      /\ \A d \in Client \ {c} : toServer'[d] = toServer[d]
  BY <1>1, <1>3 DEF Types
<1>5. Len(s) = 1 /\ Waiting(queue, c) = {}
  BY <1>1 DEF MessagesOK, OnePush
<1>6. Tail(s) = << >> /\ s = <<Head(s)>>
  <2>1. Len(Tail(s)) = 0
    BY <1>3, <1>5
  <2>2. Tail(s) = << >>
    BY <1>3, <2>1, EmptySeq
  <2>3. s = <<Head(s)>>
    <3> HIDE DEF s
    <3> QED
      BY <1>2, <1>5
  <2> QED
    BY <2>2, <2>3
<1>7. ElementsOf(<< >>) = {}
  <2>1. Len(<< >>) = 0 /\ 1..0 = {}
    OBVIOUS
  <2> QED
    BY <2>1 DEF ElementsOf
<1>8. Pushes(toServer'[c], queue, c) = {} /\ OnePush(toServer'[c], queue, c)
  BY <1>4, <1>5, <1>6, <1>7 DEF Pushes, OnePush
<1>9. \A d \in Client : OnePush(toServer[d], queue, d)
  BY <1>1 DEF MessagesOK
<1> QED
  BY <1>3, <1>4, <1>6, <1>8, <1>9 DEF Pushes

(* A client that joins is sent the revision the branch is at.              *)
LEMMA AddClientIDInv ==
  ASSUME SynchronizerInv, NEW c \in Client, AddClientID(c)
  PROVE  Preserved
<1> DEFINE msgs == [d \in {c} |-> SetupMessage(current[Server])]
<1>1. /\ lastSent' = SentTo(c, current[Server], lastSent)
      /\ SendToClients(msgs, queue)
      /\ UNCHANGED <<history, current, held, clientVars, responding, failed>>
  BY DEF AddClientID
<1>2. /\ Types /\ current[Server] \in ServerLine /\ current[Server] \in Nat
      /\ \A d \in DOMAIN lastSent : lastSent[d] \in ServerLine
  BY ServerFacts DEF ServerOK
<1>3. /\ DOMAIN lastSent' \in SUBSET Client /\ IsFiniteSet(DOMAIN lastSent')
      /\ \A d \in DOMAIN lastSent' : lastSent'[d] \in ServerLine
  <2>1. /\ DOMAIN lastSent' = DOMAIN lastSent \cup {c}
        /\ \A d \in DOMAIN lastSent' :
             lastSent'[d] = IF d = c THEN current[Server] ELSE lastSent[d]
    BY <1>1 DEF SentTo
  <2>2. DOMAIN lastSent \in SUBSET Client /\ IsFiniteSet(DOMAIN lastSent)
    BY <1>2 DEF Types
  <2>3. IsFiniteSet(DOMAIN lastSent \cup {c})
    BY <2>2, FS_AddElement
  <2> QED
    BY <1>2, <2>1, <2>2, <2>3
<1>4. /\ DOMAIN msgs = {c} /\ IsFiniteSet({c})
      /\ msgs[c] \in ClientRecord /\ AnswerOK(history, ServerLine, held[Server], msgs[c])
  <2> DEFINE r == current[Server]
  <2>1. msgs[c] = [class |-> "setup", revisions |-> {r}, answers |-> None]
    BY DEF SetupMessage
  <2>2. DOMAIN msgs = {c} /\ IsFiniteSet({c})
    BY FS_Singleton
  <2> HIDE DEF msgs
  <2>3. msgs[c] \in ClientRecord
    BY <1>2, <2>1 DEF ClientRecord, None
  <2>4. msgs[c].class = "setup" /\ msgs[c].revisions = {r} /\ "setup" # "response"
    BY <2>1
  <2>5. AnswerOK(history, ServerLine, held[Server], msgs[c])
    BY <1>2, <2>4 DEF AnswerOK
  <2> QED
    BY <2>2, <2>3, <2>5
<1> HIDE DEF msgs
<1>5. queue \in Seq(QueueRecord) /\ toClient \in [Client -> Seq(ClientRecord)]
      /\ toServer \in [Client -> Seq(PushRecord)]
  BY <1>2 DEF Types
<1>6. /\ queue' \in Seq(QueueRecord) /\ toClient' \in [Client -> Seq(ClientRecord)]
      /\ \A d \in Client : \A ts :
           /\ Pushes(ts, queue', d) = Pushes(ts, queue, d)
           /\ OnePush(ts, queue, d) => OnePush(ts, queue', d)
      /\ \A d \in Client : \A m \in Answers(toClient'[d], queue', d) :
           m \in Answers(toClient[d], queue, d) \/ (d \in DOMAIN msgs /\ m = msgs[d])
  <2>1. DOMAIN msgs \in SUBSET Client /\ IsFiniteSet(DOMAIN msgs)
        /\ \A d \in DOMAIN msgs : msgs[d] \in ClientRecord
    BY <1>4
  <2> QED
    BY <1>1, <1>5, <2>1, SendToClientsSends
<1>7. UNCHANGED <<history, current, held, lastServer, inTransit, responding, failed>>
      /\ toServer' = toServer
  BY <1>1 DEF clientVars
<1>8. \A d \in Client : OnePush(toServer[d], queue, d)
  BY DEF SynchronizerInv, MessagesOK
<1>9. \A d \in Client :
        /\ Pushes(toServer'[d], queue', d) \subseteq Pushes(toServer[d], queue, d)
        /\ \A a \in Answers(toClient'[d], queue', d) :
             \/ a \in Answers(toClient[d], queue, d)
             \/ AnswerOK(history, ServerLine, held[Server], a)
        /\ OnePush(toServer'[d], queue', d)
  BY <1>4, <1>6, <1>7, <1>8
<1> QED
  BY <1>3, <1>5, <1>6, <1>7, <1>9, MessagesStepInv

(* A client that leaves is forgotten; what was under way stays right.      *)
LEMMA RemoveClientIDInv ==
  ASSUME SynchronizerInv, NEW c \in Client, RemoveClientID(c)
  PROVE  Preserved
<1>1. /\ lastSent' = [d \in DOMAIN lastSent \ {c} |-> lastSent[d]]
      /\ UNCHANGED <<history, current, held, clientVars, responding, toClient, queue, failed>>
  BY DEF RemoveClientID
<1>2. /\ Types /\ \A d \in DOMAIN lastSent : lastSent[d] \in ServerLine
      /\ \A d \in Client : OnePush(toServer[d], queue, d)
  BY DEF SynchronizerInv, ServerOK, MessagesOK
<1>3. /\ DOMAIN lastSent' \in SUBSET Client /\ IsFiniteSet(DOMAIN lastSent')
      /\ \A d \in DOMAIN lastSent' : lastSent'[d] \in ServerLine
  <2>1. IsFiniteSet(DOMAIN lastSent \ {c})
    BY <1>2, FS_RemoveElement DEF Types
  <2> QED
    BY <1>1, <1>2, <2>1 DEF Types
<1>4. UNCHANGED <<history, current, held, lastServer, inTransit, responding, failed>>
      /\ toServer' = toServer /\ toClient' = toClient /\ queue' = queue
  BY <1>1 DEF clientVars
<1>5. /\ toServer' \in [Client -> Seq(PushRecord)] /\ toClient' \in [Client -> Seq(ClientRecord)]
      /\ queue' \in Seq(QueueRecord)
  BY <1>2, <1>4 DEF Types
<1> QED
  BY <1>2, <1>3, <1>4, <1>5, MessagesStepInv

(* The server handles a push, or queues it while it is paused.             *)
LEMMA ServerReceivesInv ==
  ASSUME SynchronizerInv, NEW c \in Client, ServerReceives(c)
  PROVE  Preserved
<1> DEFINE m == Head(toServer[c])
<1>1. /\ toServer[c] # << >> /\ toServer' = [toServer EXCEPT ![c] = Tail(@)]
      /\ lastServer' = lastServer /\ inTransit' = inTransit
  BY DEF ServerReceives
<1>2. /\ toServer' \in [Client -> Seq(PushRecord)]
      /\ m \in PushRecord /\ toServer[c] = <<m>>
      /\ m \in Pushes(toServer[c], queue, c)
      /\ toServer'[c] = << >> /\ Pushes(toServer'[c], queue, c) = {}
      /\ \A d \in Client \ {c} : toServer'[d] = toServer[d]
      /\ \A d \in Client :
           /\ Pushes(toServer'[d], queue, d) \subseteq Pushes(toServer[d], queue, d)
           /\ OnePush(toServer'[d], queue, d)
  BY <1>1, TakeFromClient
<1>3. /\ Types /\ \A d \in DOMAIN lastSent : lastSent[d] \in ServerLine
      /\ \A d \in Client : OnePush(toServer[d], queue, d)
  BY DEF SynchronizerInv, ServerOK, MessagesOK
<1>4. CASE paused
  <2>1. /\ queue' = Append(queue, Incoming(c, m))
        /\ UNCHANGED <<history, current, held, lastSent, responding, toClient, failed>>
    BY <1>4 DEF ServerReceives
  <2> HIDE DEF m
  <2>2. ASSUME NEW d \in Client
        PROVE  /\ queue' \in Seq(QueueRecord)
               /\ Pushes(toServer'[d], queue', d) \subseteq Pushes(toServer[d], queue, d)
               /\ Answers(toClient[d], queue', d) \subseteq Answers(toClient[d], queue, d)
               /\ OnePush(toServer'[d], queue', d)
    <3> DEFINE rest == IF d = c THEN << >> ELSE toServer[d]
               p == Append(queue, Incoming(c, m))
    <3>1. rest = toServer'[d]
      BY <1>2
    <3>2. queue \in Seq(QueueRecord) /\ (d = c => toServer[d] = <<m>>)
          /\ OnePush(toServer[d], queue, d)
      BY <1>2, <1>3 DEF Types
    <3>3. /\ p \in Seq(QueueRecord)
          /\ Pushes(rest, p, d) \subseteq Pushes(toServer[d], queue, d)
          /\ OnePush(rest, p, d)
          /\ Answers(toClient[d], p, d) \subseteq Answers(toClient[d], queue, d)
      <4>1. /\ d = c => toServer[d] = <<m>> /\ rest = << >>
            /\ d # c => rest = toServer[d]
            /\ queue \in Seq(QueueRecord) /\ OnePush(toServer[d], queue, d)
        BY <3>2
      <4>2. p = Append(queue, Incoming(c, m)) /\ m \in PushRecord
        BY <1>2
      <4> HIDE DEF rest, p
      <4>3. p \in Seq(QueueRecord)
        BY <4>1, <4>2, QueueIncoming
      <4>4. Pushes(rest, p, d) \subseteq Pushes(toServer[d], queue, d)
        BY <4>1, <4>2, QueueIncoming
      <4>5. OnePush(rest, p, d)
        BY <4>1, <4>2, QueueIncoming
      <4>6. Answers(toClient[d], p, d) \subseteq Answers(toClient[d], queue, d)
        BY <4>1, <4>2, QueueIncoming
      <4> QED
        BY <4>3, <4>4, <4>5, <4>6
    <3> QED
      BY <2>1, <3>1, <3>3
  <2>3. queue' \in Seq(QueueRecord) /\ toClient' \in [Client -> Seq(ClientRecord)]
        /\ lastSent' = lastSent /\ toClient' = toClient
    BY <1>3, <2>1, <2>2 DEF Types
  <2>4. /\ DOMAIN lastSent' \in SUBSET Client /\ IsFiniteSet(DOMAIN lastSent')
        /\ \A d \in DOMAIN lastSent' : lastSent'[d] \in ServerLine
    BY <1>3, <2>3 DEF Types
  <2> QED
    BY <1>1, <1>2, <2>1, <2>2, <2>3, <2>4, MessagesStepInv
<1>5. CASE ~ paused
  <2>1. HandlePushedRevisions(c, m, queue)
    BY <1>5 DEF ServerReceives
  <2>2. queue \in Seq(QueueRecord)
    BY <1>3 DEF Types
  <2> HIDE DEF m
  <2> QED
    BY <1>1, <1>2, <2>1, <2>2, HandlePushedRevisionsInv DEF Preserved
<1> QED
  BY <1>4, <1>5

(* A server that is not paused any more takes a message from its queue.    *)
LEMMA ProcessQueuedMessageInv ==
  ASSUME SynchronizerInv, ProcessQueuedMessage
  PROVE  Preserved
<1> DEFINE m == Head(queue)
           q == Tail(queue)
<1>1. /\ queue # << >> /\ UNCHANGED clientVars
      /\ \/ /\ m.type = "outgoing"
            /\ toClient' = [toClient EXCEPT ![m.client] = Append(@, m.message)]
            /\ queue' = q
            /\ UNCHANGED <<history, current, held, lastSent, responding, failed>>
         \/ /\ m.type = "incoming"
            /\ HandlePushedRevisions(m.client, m.message, q)
  BY DEF ProcessQueuedMessage, Draining
<1>2. /\ Types /\ \A d \in DOMAIN lastSent : lastSent[d] \in ServerLine
      /\ \A d \in Client : OnePush(toServer[d], queue, d)
      /\ queue \in Seq(QueueRecord)
  BY DEF SynchronizerInv, ServerOK, MessagesOK, Types
<1>3. m \in QueueRecord /\ q \in Seq(QueueRecord)
  BY <1>1, <1>2, TailOfMessages
<1>4. ASSUME NEW d \in Client
      PROVE  /\ Pushes(toServer[d], q, d) \subseteq Pushes(toServer[d], queue, d)
             /\ OnePush(toServer[d], q, d)
             /\ Answers(toClient[d], q, d) \subseteq Answers(toClient[d], queue, d)
             /\ m.type = "incoming" /\ m.client = d =>
                  Pushes(toServer[d], q, d) = {} /\ m.message \in Pushes(toServer[d], queue, d)
             /\ m.type = "outgoing" /\ m.client = d =>
                  m.message \in Answers(toClient[d], queue, d)
  BY <1>1, <1>2, QueueTail
<1>5. /\ toServer' = toServer /\ toServer \in [Client -> Seq(PushRecord)]
      /\ lastServer' = lastServer /\ inTransit' = inTransit
  BY <1>1, <1>2 DEF clientVars, Types
<1> HIDE DEF m, q
<1>6. CASE m.type = "incoming"
  <2>1. "incoming" # "outgoing"
    OBVIOUS
  <2>2. HandlePushedRevisions(m.client, m.message, q)
    BY <1>1, <1>6, <2>1
  <2>3. m.client \in Client
    BY <1>3 DEF QueueRecord
  <2>4. m.message \in Pushes(toServer[m.client], queue, m.client)
        /\ Pushes(toServer[m.client], q, m.client) = {}
    BY <1>4, <1>6, <2>3
  <2> QED
    BY <1>3, <1>4, <1>5, <2>2, <2>3, <2>4, HandlePushedRevisionsInv DEF Preserved
<1>7. CASE m.type = "outgoing"
  <2> DEFINE c == m.client
             a == m.message
  <2>1. "incoming" # "outgoing"
    OBVIOUS
  <2>2. /\ toClient' = [toClient EXCEPT ![c] = Append(@, a)]
        /\ queue' = q
        /\ UNCHANGED <<history, current, held, lastSent, responding, failed>>
    BY <1>1, <1>7, <2>1
  <2>3. c \in Client /\ a \in ClientRecord
    BY <1>3, <1>7, <2>1 DEF QueueRecord
  <2>4. a \in Answers(toClient[c], queue, c)
    BY <1>4, <1>7, <2>3
  <2> HIDE DEF c, a
  <2>5. toClient \in [Client -> Seq(ClientRecord)]
    BY <1>2 DEF Types
  <2>6. /\ toClient'[c] \in Seq(ClientRecord)
        /\ ElementsOf(toClient'[c]) \subseteq ElementsOf(toClient[c]) \cup {a}
    <3>1. toClient'[c] = Append(toClient[c], a) /\ toClient[c] \in Seq(ClientRecord)
      BY <2>2, <2>3, <2>5
    <3>2. /\ toClient'[c] \in Seq(ClientRecord)
          /\ Len(toClient'[c]) = Len(toClient[c]) + 1 /\ Len(toClient[c]) \in Nat
          /\ \A i \in 1..Len(toClient[c]) : toClient'[c][i] = toClient[c][i]
          /\ toClient'[c][Len(toClient[c]) + 1] = a
      BY <2>3, <3>1, AppendProperties, LenProperties
    <3>3. \A i \in 1..Len(toClient'[c]) : i \in 1..Len(toClient[c]) \/ i = Len(toClient[c]) + 1
      BY <3>2
    <3> QED
      BY <3>2, <3>3 DEF ElementsOf
  <2>7. toClient' \in [Client -> Seq(ClientRecord)]
        /\ \A d \in Client \ {c} : toClient'[d] = toClient[d]
    BY <2>2, <2>3, <2>5, <2>6
  <2>8. ASSUME NEW d \in Client
        PROVE  Answers(toClient'[d], queue', d) \subseteq Answers(toClient[d], queue, d)
    <3>1. CASE d = c
      <4>1. Answers(toClient'[c], q, c) \subseteq Answers(toClient[c], q, c) \cup {a}
        BY <2>6 DEF Answers
      <4> QED
        BY <1>4, <2>2, <2>4, <3>1, <4>1
    <3>2. CASE d # c
      BY <1>4, <2>2, <2>7, <3>2
    <3> QED
      BY <3>1, <3>2
  <2>9. /\ DOMAIN lastSent' \in SUBSET Client /\ IsFiniteSet(DOMAIN lastSent')
        /\ \A d \in DOMAIN lastSent' : lastSent'[d] \in ServerLine
    BY <1>2, <2>2 DEF Types
  <2> QED
    BY <1>3, <1>4, <1>5, <2>2, <2>7, <2>8, <2>9, MessagesStepInv
<1> QED
  BY <1>1, <1>6, <1>7

(* A client handles what the server sent it.                               *)
LEMMA ClientReceivesInv ==
  ASSUME SynchronizerInv, NEW c \in Client, ClientReceives(c)
  PROVE  Preserved
<1> DEFINE m == Head(toClient[c])
<1>1. /\ toClient[c] # << >> /\ toClient' = [toClient EXCEPT ![c] = Tail(@)]
      /\ \/ m.class = "setup" /\ HandleSetup(c, m)
         \/ m.class = "push" /\ HandlePush(c, m)
         \/ m.class = "response" /\ HandleResponse(c, m)
      /\ UNCHANGED <<lastSent, responding, queue>>
  BY DEF ClientReceives
<1>2. Types /\ MessagesOK
  BY DEF SynchronizerInv
<1>3. /\ toClient[c] \in Seq(ClientRecord) /\ Tail(toClient[c]) \in Seq(ClientRecord)
      /\ m \in ElementsOf(toClient[c])
      /\ ElementsOf(Tail(toClient[c])) \subseteq ElementsOf(toClient[c])
  BY <1>1, <1>2, TailOfMessages DEF Types
<1>4. /\ toClient' \in [Client -> Seq(ClientRecord)] /\ toClient'[c] = Tail(toClient[c])
      /\ \A d \in Client \ {c} : toClient'[d] = toClient[d]
  BY <1>1, <1>2, <1>3 DEF Types
<1>5. Delivered
  <2>1. \A d \in Client : Answers(toClient'[d], queue, d) \subseteq Answers(toClient[d], queue, d)
    <3> TAKE d \in Client
    <3> QED
      BY <1>3, <1>4 DEF Answers
  <2> QED
    BY <1>1, <1>4, <2>1 DEF Delivered
<1>6. AnswerOK(history, ServerLine, held[Server], m)
  BY <1>2, <1>3 DEF MessagesOK, Answers
<1>7. "setup" # "push" /\ "setup" # "response" /\ "push" # "response"
  OBVIOUS
<1> HIDE DEF m
<1>8. CASE m.class = "setup" /\ HandleSetup(c, m)
  BY <1>5, <1>6, <1>8, HandleSetupInv DEF Preserved
<1>9. ASSUME m.class # "setup",
             UNCHANGED <<history, current, held, clientVars, failed>>
      PROVE  Preserved
  <2>1. /\ Types /\ ClientOK(history, ServerLine, held[Server], held[c], current[c],
                             lastServer[c], inTransit[c])
    BY ClientFacts
  <2>2. /\ lastServer' = [lastServer EXCEPT ![c] = lastServer[c]] /\ lastServer[c] \in Nat
        /\ inTransit' \in [Client -> Nat] /\ inTransit' = inTransit
        /\ UNCHANGED <<history, current, held, toServer, failed>>
    BY <1>9, <2>1 DEF Types, clientVars
  <2>3. Preserved
    BY <1>5, <2>1, <2>2, ClientSettlesInv DEF Preserved
  <2> QED
    BY <2>3
<1>10. CASE m.class = "push" /\ HandlePush(c, m)
  <2>1. CASE inTransit[c] # None
    BY <1>7, <1>9, <1>10, <2>1 DEF HandlePush
  <2>2. CASE inTransit[c] = None
    <3>1. HandleRevisions(c, m.revisions)
      BY <1>10, <2>2 DEF HandlePush
    <3> QED
      BY <1>5, <1>6, <1>7, <1>10, <2>2, <3>1, HandleRevisionsInv DEF Preserved
  <2> QED
    BY <2>1, <2>2
<1>11. CASE m.class = "response" /\ HandleResponse(c, m)
  <2>1. CASE m.answers # inTransit[c]
    BY <1>7, <1>9, <1>11, <2>1 DEF HandleResponse
  <2>2. CASE m.answers = inTransit[c]
    <3>1. HandleRevisions(c, m.revisions)
      BY <1>11, <2>2 DEF HandleResponse
    <3> QED
      BY <1>5, <1>6, <1>7, <1>11, <2>2, <3>1, HandleRevisionsInv DEF Preserved
  <2> QED
    BY <2>1, <2>2
<1> QED
  BY <1>1, <1>8, <1>10, <1>11

(* A lost message changes nothing but what is under way.                   *)
LEMMA LoseInv ==
  ASSUME SynchronizerInv, NEW c \in Client, Lose(c)
  PROVE  Preserved
<1>1. /\ Types /\ MessagesOK /\ \A d \in DOMAIN lastSent : lastSent[d] \in ServerLine
  BY DEF SynchronizerInv, ServerOK
<1>2. /\ UNCHANGED <<history, current, held, lastServer, inTransit, responding, failed>>
      /\ queue' = queue /\ lastSent' = lastSent
  BY DEF Lose
<1>3. /\ queue' \in Seq(QueueRecord)
      /\ DOMAIN lastSent' \in SUBSET Client /\ IsFiniteSet(DOMAIN lastSent')
      /\ \A d \in DOMAIN lastSent' : lastSent'[d] \in ServerLine
  BY <1>1, <1>2 DEF Types
<1>4. CASE /\ toServer[c] # << >>
           /\ toServer' = [toServer EXCEPT ![c] = Tail(@)]
           /\ toClient' = toClient
  <2>1. /\ toServer' \in [Client -> Seq(PushRecord)]
        /\ \A d \in Client :
             /\ Pushes(toServer'[d], queue, d) \subseteq Pushes(toServer[d], queue, d)
             /\ OnePush(toServer'[d], queue, d)
    BY <1>4, TakeFromClient
  <2>2. toClient' \in [Client -> Seq(ClientRecord)]
    BY <1>1, <1>4 DEF Types
  <2> QED
    BY <1>2, <1>3, <1>4, <2>1, <2>2, MessagesStepInv
<1>5. CASE /\ toClient[c] # << >>
           /\ toClient' = [toClient EXCEPT ![c] = Tail(@)]
           /\ toServer' = toServer
  <2>1. /\ Tail(toClient[c]) \in Seq(ClientRecord)
        /\ ElementsOf(Tail(toClient[c])) \subseteq ElementsOf(toClient[c])
    BY <1>1, <1>5, TailOfMessages DEF Types
  <2>2. /\ toClient' \in [Client -> Seq(ClientRecord)] /\ toClient'[c] = Tail(toClient[c])
        /\ \A d \in Client \ {c} : toClient'[d] = toClient[d]
    BY <1>1, <1>5, <2>1 DEF Types
  <2>3. \A d \in Client : Answers(toClient'[d], queue', d) \subseteq Answers(toClient[d], queue, d)
    <3> TAKE d \in Client
    <3> QED
      BY <1>2, <2>1, <2>2 DEF Answers
  <2>4. toServer' \in [Client -> Seq(PushRecord)]
    BY <1>1, <1>5 DEF Types
  <2>5. \A d \in Client : OnePush(toServer'[d], queue', d)
    BY <1>1, <1>2, <1>5 DEF MessagesOK
  <2> QED
    BY <1>2, <1>3, <1>5, <2>2, <2>3, <2>4, <2>5, MessagesStepInv
<1> QED
  BY <1>4, <1>5 DEF Lose

(* A commit of the server's user is sent to every client.                  *)
LEMMA ServerCommitInv ==
  ASSUME SynchronizerInv, NEW items, WriteRevision(Server, items), DidCommit(Server)
  PROVE  Preserved
<1> DEFINE r == Len(history) + 1
           T == held[Server] \cup {r}
<1>1. /\ history' = Append(history, [line |-> Line(history, current[Server]) \cup {r},
                                     items |-> items])
      /\ current' = [current EXCEPT ![Server] = r]
      /\ held' = [held EXCEPT ![Server] = T]
  BY DEF WriteRevision
<1>2. /\ NotifyClients(history', current'[Server], lastSent, responding, queue)
      /\ UNCHANGED clientVars
  BY DEF DidCommit
<1>3. /\ Types /\ ServerOK /\ GoodHistory(history) /\ Len(history) \in Nat \ {0}
      /\ StoreOK(history, held[Server]) /\ current[Server] \in held[Server]
      /\ current[Server] \in 1..Len(history)
  BY ServerFacts
<1>4. Grown(history, history', current[Server]) /\ Len(history') = r
  BY <1>1, <1>3, AppendGrows
<1>5. StoreOK(history', T)
  <2>1. (Len(history) + 1)..Len(history') = {r}
    BY <1>3, <1>4
  <2>2. StoreOK(history', held[Server] \cup (Len(history) + 1)..Len(history'))
    BY <1>3, <1>4, StoreTakesNew
  <2> QED
    BY <2>1, <2>2
<1>6. r \in 1..Len(history') /\ ServerLine \subseteq Line(history', r)
  BY <1>3, <1>4 DEF Grown, ServerLine
<1>7. /\ current'[Server] = r
      /\ \A d \in DOMAIN lastSent : lastSent[d] \in Line(history', r)
      /\ DOMAIN lastSent \in SUBSET Client /\ IsFiniteSet(DOMAIN lastSent)
      /\ responding = Nobody /\ queue \in Seq(QueueRecord)
      /\ lastServer' = lastServer /\ inTransit' = inTransit
      /\ toServer' = toServer /\ toServer' \in [Client -> Seq(PushRecord)]
  <2>1. Server \in Site
    BY DEF Site
  <2> QED
    BY <1>1, <1>2, <1>3, <1>6, <2>1 DEF Types, ServerOK, clientVars
<1>8. ASSUME NEW d \in Client
      PROVE  held[d] \cap T \subseteq held[Server] /\ OnePush(toServer[d], queue, d)
  <2>1. held[d] \in SUBSET (1..Len(history)) /\ OnePush(toServer[d], queue, d)
    BY ClientFacts
  <2>2. r \notin held[d]
    BY <1>3, <2>1
  <2> QED
    BY <2>1, <2>2
<1>9. NotifyClients(history', r, lastSent, responding, queue)
  BY <1>2, <1>7
<1>10. /\ r \in T /\ held[Server] \subseteq T
       /\ \A d \in Client : \A x \in held[d] \cap T : x \in held[Server] \/ x <= inTransit[d]
       /\ \A d \in Client :
            /\ Pushes(toServer'[d], queue, d) \subseteq Pushes(toServer[d], queue, d)
            /\ Pushes(toServer'[d], queue, d) # {} => held[d] \cap T \subseteq held[Server]
            /\ OnePush(toServer'[d], queue, d)
            /\ Answers(toClient[d], queue, d) \subseteq Answers(toClient[d], queue, d)
  BY <1>7, <1>8
<1> HIDE DEF r, T
<1>11. /\ SynchronizerInv'
       /\ current[Server] \in Line(history', current'[Server])
  <2>1. /\ current' = [current EXCEPT ![Server] = r]
        /\ held' = [held EXCEPT ![Server] = T]
    BY <1>1
  <2> QED
    BY <1>4, <1>5, <1>6, <1>7, <1>9, <1>10, <2>1, ServerStepInv
<1> QED
  BY <1>11 DEF Preserved

(* A commit of a client's user is pushed, unless a push is in transit.     *)
LEMMA ClientCommitInv ==
  ASSUME SynchronizerInv, NEW c \in Client, NEW items, WriteRevision(c, items), DidCommit(c)
  PROVE  Preserved
<1> DEFINE r == Len(history) + 1
           old == current[c]
           last == lastServer[c]
           sent == inTransit[c]
           S == held[Server]
           H == held[c] \cup {r}
<1>1. /\ history' = Append(history, [line |-> Line(history, old) \cup {r}, items |-> items])
      /\ current' = [current EXCEPT ![c] = r]
      /\ held' = [held EXCEPT ![c] = H]
      /\ old # None
  BY DEF WriteRevision
<1>2. /\ SendPush(c, history', current'[c], last, sent)
      /\ UNCHANGED <<lastServer, serverVars>>
  <2>1. c # Server
    BY ClientFacts
  <2> QED
    BY <2>1 DEF DidCommit
<1>3. /\ Types /\ GoodHistory(history) /\ Len(history) \in Nat \ {0}
      /\ S \in SUBSET (1..Len(history)) /\ held[c] \in SUBSET (1..Len(history))
      /\ ClientOK(history, ServerLine, S, held[c], old, last, sent)
      /\ \A p \in Pushes(toServer[c], queue, c) :
           PushOK(history, ServerLine, S, held[c], sent, p)
      /\ OnePush(toServer[c], queue, c) /\ c \in Site
  BY ClientFacts
<1>4. /\ StoreOK(history, held[c]) /\ old \in held[c] /\ old \in 1..Len(history)
      /\ last \in held[c] /\ last \in ServerLine /\ last \in Nat /\ sent \in Nat
      /\ sent = None => old = last
      /\ sent # None => /\ sent \in Line(history, old) /\ sent \in held[c]
                        /\ RevisionsFromTo(history, sent, old) \cap S = {}
  BY <1>1, <1>3 DEF ClientOK, StoreOK
<1>5. Grown(history, history', old) /\ Len(history') = r
  BY <1>1, <1>3, <1>4, AppendGrows
<1>6. GoodHistory(history') /\ Line(history', r) = Line(history, old) \cup {r}
  <2>1. r \in (Len(history) + 1)..Len(history') /\ (Len(history) + 1)..r = {r}
    BY <1>3, <1>5
  <2> QED
    BY <1>3, <1>4, <1>5, <2>1, GrownIsGood DEF Grown
<1>7. StoreOK(history', H)
  <2>1. (Len(history) + 1)..Len(history') = {r}
    BY <1>3, <1>5
  <2>2. StoreOK(history', held[c] \cup (Len(history) + 1)..Len(history'))
    BY <1>3, <1>4, <1>5, StoreTakesNew
  <2> QED
    BY <2>1, <2>2
<1>8. current'[c] = r /\ r \in Nat /\ H \in SUBSET Nat /\ r \notin S
  BY <1>1, <1>3 DEF Types
<1>9. ASSUME sent = None
      PROVE  /\ last \in Line(history', r)
             /\ RevisionsFromTo(history', last, r) \cap S = {}
             /\ Pushes(toServer[c], queue, c) = {}
  <2>1. old = last /\ last \in Line(history, old)
    BY <1>3, <1>4, <1>9 DEF GoodHistory
  <2>2. \A x \in RevisionsFromTo(history', last, r) : x = r
    <3>1. \A x \in Line(history, old) : x \in 1..old
      BY <1>3, <1>4 DEF GoodHistory
    <3> QED
      BY <1>4, <1>6, <2>1, <3>1 DEF RevisionsFromTo
  <2>3. Pushes(toServer[c], queue, c) = {}
    BY <1>3, <1>9 DEF PushOK
  <2> QED
    BY <1>6, <1>8, <2>1, <2>2, <2>3
<1>10. ASSUME sent # None
       PROVE  /\ sent \in Line(history', r) /\ sent \in H
              /\ RevisionsFromTo(history', sent, r) \cap S = {}
              /\ \A p \in Pushes(toServer[c], queue, c) :
                   PushOK(history', ServerLine, S, H, sent, p)
  <2>1. RevisionsFromTo(history', sent, r) \subseteq RevisionsFromTo(history, sent, old) \cup {r}
    BY <1>6 DEF RevisionsFromTo
  <2>2. ASSUME NEW p \in Pushes(toServer[c], queue, c)
        PROVE  PushOK(history', ServerLine, S, H, sent, p)
    <3>1. PushOK(history, ServerLine, S, held[c], sent, p)
      BY <1>3
    <3>2. sent \in 1..Len(history) /\ held[c] \subseteq H /\ held[c] \cap S \subseteq S
      BY <1>3, <1>4, <1>10
    <3> HIDE DEF sent, H, S
    <3> QED
      BY <1>5, <3>1, <3>2, PushOKKept
  <2> QED
    BY <1>4, <1>6, <1>8, <1>10, <2>1, <2>2
<1>11. r \in H /\ last \in H /\ last \in ServerLine
  BY <1>4
<1>12. SendPush(c, history', r, last, sent)
  BY <1>2, <1>8
<1> HIDE DEF H, r, last, sent, S
<1>13. /\ ClientOK(history', ServerLine, S, H, r, last, inTransit'[c])
       /\ \A p \in Pushes(toServer'[c], queue, c) :
            PushOK(history', ServerLine, S, H, inTransit'[c], p)
       /\ OnePush(toServer'[c], queue, c)
       /\ toServer' \in [Client -> Seq(PushRecord)] /\ inTransit' \in [Client -> Nat]
       /\ \A d \in Client \ {c} : toServer'[d] = toServer[d] /\ inTransit'[d] = inTransit[d]
       /\ failed' = failed
  <2>1. toServer \in [Client -> Seq(PushRecord)] /\ inTransit \in [Client -> Nat]
    BY <1>3 DEF Types
  <2> QED
    BY <1>3, <1>4, <1>6, <1>7, <1>9, <1>10, <1>11, <1>12, <2>1, SendPushSends
<1>14. lastServer' = [lastServer EXCEPT ![c] = last]
  BY <1>2, <1>3 DEF Types, last
<1>15. \A x \in H : x \in held[c] \/ x \in S \/ x > Len(history)
  BY <1>3 DEF H, r
<1>16. /\ queue' = queue /\ lastSent' = lastSent /\ responding' = responding
       /\ toClient' = toClient /\ toClient' \in [Client -> Seq(ClientRecord)]
  BY <1>2, <1>3 DEF serverVars, Types
<1>17. current' = [current EXCEPT ![c] = r] /\ held' = [held EXCEPT ![c] = H]
  BY <1>1
<1> QED
  BY <1>4, <1>5, <1>8, <1>13, <1>14, <1>15, <1>16, <1>17, ClientStepInv DEF Preserved, S

(* At first the server alone has the branch.                               *)
LEMMA InitInv == Init => SynchronizerInv
<1> SUFFICES ASSUME Init PROVE SynchronizerInv
  OBVIOUS
<1> DEFINE first == [line |-> {1}, items |-> {}]
<1>1. /\ history = <<first>>
      /\ current = [s \in Site |-> IF s = Server THEN 1 ELSE None]
      /\ held = [s \in Site |-> IF s = Server THEN {1} ELSE {}]
      /\ lastSent = << >> /\ lastServer = [c \in Client |-> None]
      /\ inTransit = [c \in Client |-> None]
      /\ toServer = [c \in Client |-> << >>] /\ toClient = [c \in Client |-> << >>]
      /\ queue = << >> /\ responding = Nobody /\ failed = {}
  BY DEF Init
<1>2. Len(history) = 1 /\ 1..1 = {1} /\ history[1].line = {1}
  BY <1>1
<1>3. Len(<< >>) = 0 /\ 1..0 = {} /\ DOMAIN << >> = {}
  OBVIOUS
<1>4. /\ Server \in Site /\ Server \notin Client
      /\ \A c \in Client : c \in Site /\ c # Server
  BY SynchronizerAssumption DEF Site
<1>5. GoodHistory(history)
  <2>1. IsSequence(history)
    <3> HIDE DEF first
    <3>1. history[1] = first /\ <<first>> \in Seq({first})
      BY <1>1
    <3>2. {history[i] : i \in 1..Len(history)} = {first}
      BY <1>2, <3>1
    <3> QED
      BY <1>1, <3>1, <3>2 DEF IsSequence
  <2>2. \A r \in 1..Len(history) : Line(history, r) = {1} /\ r = 1
    BY <1>2 DEF Line
  <2> HIDE DEF first
  <2>3. \A r \in 1..Len(history) :
          /\ Line(history, r) \subseteq 1..r
          /\ 1 \in Line(history, r) /\ r \in Line(history, r)
          /\ \A a \in Line(history, r) : Line(history, a) = Line(history, r) \cap 1..a
    BY <1>2, <2>2
  <2> QED
    BY <1>2, <2>1, <2>3 DEF GoodHistory
<1>6. /\ current[Server] = 1 /\ held[Server] = {1}
      /\ \A c \in Client : /\ current[c] = 0 /\ held[c] = {}
                           /\ lastServer[c] = 0 /\ inTransit[c] = 0
                           /\ toServer[c] = << >> /\ toClient[c] = << >>
  BY <1>1, <1>4 DEF None
<1>7. Types
  <2>1. /\ current \in [Site -> Nat] /\ held \in [Site -> SUBSET Nat]
        /\ lastServer \in [Client -> Nat] /\ inTransit \in [Client -> Nat]
    BY <1>1 DEF None
  <2>2. /\ toServer \in [Client -> Seq(PushRecord)]
        /\ toClient \in [Client -> Seq(ClientRecord)] /\ queue \in Seq(QueueRecord)
    BY <1>1
  <2>3. DOMAIN lastSent \in SUBSET Client /\ IsFiniteSet(DOMAIN lastSent)
    BY <1>1, <1>3, FS_EmptySet
  <2> QED
    BY <2>1, <2>2, <2>3 DEF Types
<1>8. StoreOK(history, {1})
  BY <1>2 DEF StoreOK, Rooted, RevisionsFromTo, Line
<1>9. ServerOK
  BY <1>1, <1>3, <1>5, <1>6, <1>8 DEF ServerOK
<1>10. ClientsOK /\ StoresApart
  BY <1>6 DEF ClientsOK, ClientOK, StoreOK, StoresApart, None
<1>11. MessagesOK
  <2>1. \A c \in Client : Waiting(queue, c) = {} /\ Leaving(queue, c) = {}
    BY <1>1, <1>3 DEF Waiting, Leaving
  <2>2. ElementsOf(<< >>) = {}
    BY <1>3 DEF ElementsOf
  <2> QED
    BY <1>6, <2>1, <2>2 DEF MessagesOK, Pushes, Answers, OnePush
<1> QED
  BY <1>1, <1>7, <1>9, <1>10, <1>11 DEF SynchronizerInv

(* A step that sends and writes nothing.                                   *)
LEMMA NothingSentInv ==
  ASSUME SynchronizerInv,
         UNCHANGED <<history, current, held, clientVars, serverVars, failed>>
  PROVE  Preserved
<1>1. /\ Types /\ ServerOK /\ MessagesOK
  BY DEF SynchronizerInv
<1>2. /\ UNCHANGED <<history, current, held, lastServer, inTransit, responding, failed>>
      /\ toServer' = toServer /\ toClient' = toClient /\ queue' = queue
      /\ lastSent' = lastSent
  BY DEF clientVars, serverVars
<1>3. /\ toServer' \in [Client -> Seq(PushRecord)] /\ toClient' \in [Client -> Seq(ClientRecord)]
      /\ queue' \in Seq(QueueRecord)
      /\ DOMAIN lastSent' \in SUBSET Client /\ IsFiniteSet(DOMAIN lastSent')
      /\ \A c \in DOMAIN lastSent' : lastSent'[c] \in ServerLine
  BY <1>1, <1>2 DEF Types, ServerOK
<1>4. \A c \in Client :
        /\ Pushes(toServer'[c], queue', c) \subseteq Pushes(toServer[c], queue, c)
        /\ \A a \in Answers(toClient'[c], queue', c) :
             \/ a \in Answers(toClient[c], queue, c)
             \/ AnswerOK(history, ServerLine, held[Server], a)
        /\ OnePush(toServer'[c], queue', c)
  BY <1>1, <1>2 DEF MessagesOK
<1> QED
  BY <1>2, <1>3, <1>4, MessagesStepInv

(* Every action keeps the invariant, and the server's branch goes on.      *)
LEMMA NextInv ==
  ASSUME SynchronizerInv, [Next]_vars
  PROVE  Preserved
<1>1. ASSUME NEW c \in Client, AddClientID(c) PROVE Preserved
  BY <1>1, AddClientIDInv
<1>2. ASSUME NEW c \in Client, RemoveClientID(c) PROVE Preserved
  BY <1>2, RemoveClientIDInv
<1>3. ASSUME NEW c \in Client, ServerReceives(c) PROVE Preserved
  BY <1>3, ServerReceivesInv
<1>4. ASSUME NEW c \in Client, ClientReceives(c) PROVE Preserved
  BY <1>4, ClientReceivesInv
<1>5. ASSUME NEW c \in Client, Lose(c) PROVE Preserved
  BY <1>5, LoseInv
<1>6. CASE Pause
  BY <1>6, NothingSentInv DEF Pause
<1>7. CASE Unpause
  BY <1>7, NothingSentInv DEF Unpause
<1>8. CASE ProcessQueuedMessage
  BY <1>8, ProcessQueuedMessageInv
<1>9. ASSUME NEW s \in Site, NEW items, WriteRevision(s, items), DidCommit(s)
      PROVE  Preserved
  <2>1. CASE s = Server
    BY <1>9, <2>1, ServerCommitInv
  <2>2. CASE s \in Client
    BY <1>9, <2>2, ClientCommitInv
  <2> QED
    BY <2>1, <2>2 DEF Site
<1>10. ASSUME NEW s \in Site, InsertItem(s) PROVE Preserved
  <2>1. /\ WriteRevision(s, history[current[s]].items \cup {edits + 1})
        /\ DidCommit(s)
    BY <1>10 DEF InsertItem
  <2> QED
    BY <1>9, <2>1
<1>11. ASSUME NEW s \in Site, RemoveItem(s) PROVE Preserved
  <2>1. PICK x : WriteRevision(s, history[current[s]].items \ {x})
    BY <1>11 DEF RemoveItem
  <2>2. DidCommit(s)
    BY <1>11 DEF RemoveItem
  <2> QED
    BY <1>9, <2>1, <2>2
<1>12. CASE UNCHANGED vars
  BY <1>12, NothingSentInv DEF vars, clientVars, serverVars
<1> QED
  BY <1>1, <1>2, <1>3, <1>4, <1>5, <1>6, <1>7, <1>8, <1>10, <1>11, <1>12 DEF Next

-----------------------------------------------------------------------------
(* The results                                                             *)

(* The inductive invariant holds: the stores stay closed below their first *)
(* revision, the server's clients are on the line of its branch, and what  *)
(* is under way, or queued by a paused server, is what its receiver can    *)
(* take (-sendPushToServer, -sendPushToClient:, -handleRevisions:from...). *)
THEOREM SynchronizerCorrect == Spec => []SynchronizerInv
<1>1. SynchronizerInv /\ [Next]_vars => SynchronizerInv'
  BY NextInv DEF Preserved
<1> QED
  BY <1>1, InitInv, PTL DEF Spec

(* No message makes a handler raise: a client always pushes from one of    *)
(* its own ancestors, the server's clients never leave its branch, and no  *)
(* revision is written twice to a store (the assertions of                 *)
(* -sendPushToServer and -sendPushToClient:, the UNIQUE uuid of a store),  *)
(* whatever is lost, removed or queued.                                    *)
THEOREM HandlersNeverRaise == Spec => []NoHandlerRaises
<1>1. SynchronizerInv => NoHandlerRaises
  BY DEF SynchronizerInv, NoHandlerRaises
<1> QED
  BY <1>1, SynchronizerCorrect, PTL

(* Every revision of a store has its parent in the same store, but for the *)
(* one a client was set up with: what is received, rebased or rejected     *)
(* never leaves a delta that cannot be read back.                          *)
THEOREM ParentsAlwaysHeld == Spec => []ParentsHeld
<1>1. SynchronizerInv => ParentsHeld
  <2> SUFFICES ASSUME SynchronizerInv, NEW s \in Site, NEW r \in held[s]
               PROVE  Parent(history, r) \in held[s] \/ r = Min(held[s])
    BY DEF ParentsHeld
  <2>1. GoodHistory(history) /\ StoreOK(history, held[Server])
    BY ServerFacts
  <2>2. s \in Client => StoreOK(history, held[s])
    BY ClientFacts DEF ClientOK
  <2>3. StoreOK(history, held[s])
    BY <2>1, <2>2 DEF Site
  <2> QED
    BY <2>1, <2>3, ParentsInStore
<1> QED
  BY <1>1, SynchronizerCorrect, PTL

(* What a client takes for the server's state is on the line of the        *)
(* server's branch, and so is a client with no push in transit.            *)
THEOREM ClientsAlwaysFollow == Spec => []ClientsFollowServer
<1>1. SynchronizerInv => ClientsFollowServer
  <2> SUFFICES ASSUME SynchronizerInv, NEW c \in Client
               PROVE  /\ lastServer[c] # None => lastServer[c] \in ServerLine
                      /\ lastServer[c] # None /\ inTransit[c] = None /\ c \notin failed =>
                           current[c] = lastServer[c]
    BY DEF ClientsFollowServer, ServerLine
  <2> QED
    BY ClientFacts DEF ClientOK
<1> QED
  BY <1>1, SynchronizerCorrect, PTL

(* The server only ever appends to its branch: pushes that diverge are     *)
(* rebased on top of it, so no client has to leave a revision behind.      *)
THEOREM ServerKeepsItsLine == Spec => ServerNeverReverts
<1>1. SynchronizerInv /\ [Next]_vars =>
        [current[Server] \in Line(history', current'[Server])]_vars
  BY NextInv DEF Preserved
<1> QED
  BY <1>1, SynchronizerCorrect, PTL DEF Spec, ServerNeverReverts

=============================================================================
