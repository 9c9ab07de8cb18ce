------------------------- MODULE ItemGraphDiffProofs -------------------------
(***************************************************************************)
(* Proofs about ArrayDiff and ItemGraphDiff, for arrays of any length and  *)
(* graphs with any number of attributes.                                   *)
(***************************************************************************)
EXTENDS ItemGraphDiff, TLAPS, FiniteSetTheorems, SequenceTheorems, WellFoundedInduction

-----------------------------------------------------------------------------
(* Numbers *)

(* Every set of numbers has a least one, which is how these proofs do      *)
(* induction: by the least number that would be a counterexample.          *)
LEMMA LeastNumber ==
  ASSUME NEW S \in SUBSET Nat, S # {}
  PROVE  \E m \in S : \A n \in S : m <= n
<1> DEFINE Below == {p \in Nat \X Nat : p[1] < p[2]}
<1>1. IsWellFoundedOn(Below, Nat)
  <2>1. OpToRel(<, Nat) = Below
    BY DEF OpToRel
  <2> QED
    BY <2>1, NatLessThanWellFounded
<1>2. PICK m \in S : \A n \in S : <<n, m>> \notin Below
  <2> HIDE DEF Below
  <2> QED
    BY <1>1, WFMin
<1>3. ASSUME NEW n \in S
      PROVE  m <= n
  <2>1. <<n, m>> \in Nat \X Nat /\ <<n, m>>[1] = n /\ <<n, m>>[2] = m
    OBVIOUS
  <2> QED
    BY <1>2, <2>1
<1> QED
  BY <1>3

(* Of integers that are bounded from above there is a greatest.            *)
LEMMA GreatestInteger ==
  ASSUME NEW S \in SUBSET Int, S # {}, NEW N \in Int, \A x \in S : x <= N
  PROVE  Max(S) \in S /\ \A x \in S : x <= Max(S)
<1> DEFINE T == {N - x : x \in S}
<1>1. T \in SUBSET Nat /\ T # {}
  <2>1. \A x \in S : N - x \in Nat
    OBVIOUS
  <2> QED
    BY <2>1
<1>2. PICK m \in T : \A n \in T : m <= n
  BY <1>1, LeastNumber
<1>3. PICK x \in S : m = N - x
  OBVIOUS
<1>4. \A y \in S : x >= y
  <2> TAKE y \in S
  <2>1. N - y \in T
    OBVIOUS
  <2> QED
    BY <1>2, <1>3, <2>1
<1>5. Max(S) \in S /\ \A y \in S : Max(S) >= y
  BY <1>4 DEF Max
<1> QED
  BY <1>5

(* And of integers that are bounded from below a least.                    *)
LEMMA LeastInteger ==
  ASSUME NEW S \in SUBSET Int, S # {}, NEW N \in Int, \A x \in S : N <= x
  PROVE  Min(S) \in S /\ \A x \in S : Min(S) <= x
<1> DEFINE T == {x - N : x \in S}
<1>1. T \in SUBSET Nat /\ T # {}
  <2>1. \A x \in S : x - N \in Nat
    OBVIOUS
  <2> QED
    BY <2>1
<1>2. PICK m \in T : \A n \in T : m <= n
  BY <1>1, LeastNumber
<1>3. PICK x \in S : m = x - N
  OBVIOUS
<1>4. \A y \in S : x =< y
  <2> TAKE y \in S
  <2>1. y - N \in T
    OBVIOUS
  <2> QED
    BY <1>2, <1>3, <2>1
<1>5. Min(S) \in S /\ \A y \in S : Min(S) =< y
  BY <1>4 DEF Min
<1> QED
  BY <1>5

(* Of two.                                                                 *)
LEMMA GreaterOfTwo ==
  ASSUME NEW x \in Int, NEW y \in Int
  PROVE  Max({x, y}) \in {x, y} /\ x <= Max({x, y}) /\ y <= Max({x, y})
<1>1. \E N \in Int : x <= N /\ y <= N
  OBVIOUS
<1> QED
  BY <1>1, GreatestInteger

(* Of two, the smaller.                                                    *)
LEMMA SmallerOfTwo ==
  ASSUME NEW x \in Int, NEW y \in Int
  PROVE  Min({x, y}) \in {x, y} /\ Min({x, y}) <= x /\ Min({x, y}) <= y
<1>1. \E N \in Int : N <= x /\ N <= y
  OBVIOUS
<1> QED
  BY <1>1, LeastInteger

-----------------------------------------------------------------------------
(* The middle snake *)

IsBox(box) ==
  /\ box.lowerA \in Int /\ box.upperA \in Int /\ box.lowerA <= box.upperA
  /\ box.lowerB \in Int /\ box.upperB \in Int /\ box.lowerB <= box.upperB

(* How far both arrays agree after a position, within the box.             *)
LEMMA CommonAfterFacts ==
  ASSUME NEW a, NEW b, NEW box, IsBox(box), NEW x \in Int, NEW y \in Int,
         NEW n, n = CommonAfter(a, b, box, x, y)
  PROVE  /\ n \in Nat
         /\ n > 0 => x + n <= box.upperA /\ y + n <= box.upperB
         /\ \A j \in 0 .. n - 1 : Equal(a, b, x + j, y + j)
         /\ x + n < box.upperA /\ y + n < box.upperB => ~ Equal(a, b, x + n, y + n)
<1> DEFINE Fits(i) == /\ i = 0 \/ y + i <= box.upperB
                      /\ \A j \in 0 .. i - 1 : Equal(a, b, x + j, y + j)
           S == {i \in 0 .. box.upperA - x : Fits(i)} \cup {0}
<1>1. n = Max(S)
  BY DEF CommonAfter
<1>2. S \in SUBSET Int /\ S # {} /\ \E N \in Int : \A i \in S : i <= N
  <2>1. box.upperA - x \in Int
    BY DEF IsBox
  <2>2. PICK N \in Int : 0 <= N /\ box.upperA - x <= N
    BY <2>1
  <2>3. \A i \in S : i \in Int /\ i <= N
    <3> HIDE DEF Fits
    <3> QED
      BY <2>1, <2>2
  <2>4. 0 \in S
    OBVIOUS
  <2> HIDE DEF S
  <2> QED
    BY <2>2, <2>3, <2>4
<1>3. n \in S /\ \A i \in S : i <= n
  <2> HIDE DEF S
  <2> QED
    BY <1>1, <1>2, GreatestInteger
<1>4. Fits(n) /\ n \in Nat /\ (n > 0 => n \in 0 .. box.upperA - x)
  <2>1. Fits(0)
    OBVIOUS
  <2> HIDE DEF Fits
  <2> QED
    BY <1>3, <2>1
<1>5. ASSUME x + n < box.upperA, y + n < box.upperB, Equal(a, b, x + n, y + n)
      PROVE  FALSE
  <2>1. Fits(n + 1)
    BY <1>4, <1>5 DEF IsBox
  <2>2. n + 1 \in 0 .. box.upperA - x
    BY <1>4, <1>5 DEF IsBox
  <2>3. n + 1 \in S
    <3> HIDE DEF Fits
    <3> QED
      BY <2>1, <2>2
  <2> HIDE DEF S, Fits
  <2> QED
    BY <1>3, <1>4, <2>3
<1> QED
  BY <1>4, <1>5 DEF IsBox

(* And before one.                                                         *)
LEMMA CommonBeforeFacts ==
  ASSUME NEW a, NEW b, NEW box, IsBox(box), NEW x \in Int, NEW y \in Int,
         NEW n, n = CommonBefore(a, b, box, x, y)
  PROVE  /\ n \in Nat
         /\ n > 0 => x - n >= box.lowerA /\ y - n >= box.lowerB
         /\ \A j \in 1 .. n : Equal(a, b, x - j, y - j)
         /\ x - n > box.lowerA /\ y - n > box.lowerB => ~ Equal(a, b, x - (n + 1), y - (n + 1))
<1> DEFINE Fits(i) == /\ i = 0 \/ y - i >= box.lowerB
                      /\ \A j \in 1 .. i : Equal(a, b, x - j, y - j)
           S == {i \in 0 .. x - box.lowerA : Fits(i)} \cup {0}
<1>1. n = Max(S)
  BY DEF CommonBefore
<1>2. S \in SUBSET Int /\ S # {} /\ \E N \in Int : \A i \in S : i <= N
  <2>1. x - box.lowerA \in Int
    BY DEF IsBox
  <2>2. PICK N \in Int : 0 <= N /\ x - box.lowerA <= N
    BY <2>1
  <2>3. \A i \in S : i \in Int /\ i <= N
    <3> HIDE DEF Fits
    <3> QED
      BY <2>1, <2>2
  <2>4. 0 \in S
    OBVIOUS
  <2> HIDE DEF S
  <2> QED
    BY <2>2, <2>3, <2>4
<1>3. n \in S /\ \A i \in S : i <= n
  <2> HIDE DEF S
  <2> QED
    BY <1>1, <1>2, GreatestInteger
<1>4. Fits(n) /\ n \in Nat /\ (n > 0 => n \in 0 .. x - box.lowerA)
  <2>1. Fits(0)
    OBVIOUS
  <2> HIDE DEF Fits
  <2> QED
    BY <1>3, <2>1
<1>5. ASSUME x - n > box.lowerA, y - n > box.lowerB, Equal(a, b, x - (n + 1), y - (n + 1))
      PROVE  FALSE
  <2>1. Fits(n + 1)
    <3>1. \A j \in 1 .. n + 1 : j = n + 1 \/ j \in 1 .. n
      BY <1>4
    <3>2. y - (n + 1) >= box.lowerB
      BY <1>4, <1>5 DEF IsBox
    <3> QED
      BY <1>4, <1>5, <3>1, <3>2
  <2>2. n + 1 \in 0 .. x - box.lowerA
    BY <1>4, <1>5 DEF IsBox
  <2>3. n + 1 \in S
    <3> HIDE DEF Fits
    <3> QED
      BY <2>1, <2>2
  <2> HIDE DEF S, Fits
  <2> QED
    BY <1>3, <1>4, <2>3
<1> QED
  BY <1>4, <1>5 DEF IsBox

(* The diagonals of a round, and of the one before it.                     *)
LEMMA DiagonalFacts ==
  ASSUME NEW m \in Int, NEW D \in Nat
  PROVE  /\ m - D \in Diagonals(m, D) /\ m + D \in Diagonals(m, D)
         /\ \A k \in Diagonals(m, D) :
              /\ k \in Int /\ m - D <= k /\ k <= m + D
              /\ k # m + D => /\ D > 0 /\ k + 2 <= m + D
                              /\ k + 2 \in Diagonals(m, D) /\ k + 1 \in Diagonals(m, D - 1)
              /\ k # m - D => /\ D > 0 /\ m - D <= k - 2
                              /\ k - 2 \in Diagonals(m, D) /\ k - 1 \in Diagonals(m, D - 1)
<1>1. ASSUME NEW j \in 0 .. D
      PROVE  m - D + 2 * j \in Diagonals(m, D)
  BY DEF Diagonals
<1>2. m - D \in Diagonals(m, D) /\ m + D \in Diagonals(m, D)
  <2>1. m - D + 2 * 0 = m - D /\ m - D + 2 * D = m + D
    OBVIOUS
  <2>2. 0 \in 0 .. D /\ D \in 0 .. D
    OBVIOUS
  <2>3. m - D + 2 * 0 \in Diagonals(m, D) /\ m - D + 2 * D \in Diagonals(m, D)
    BY <1>1, <2>2
  <2> QED
    BY <2>1, <2>3
<1>3. ASSUME NEW k \in Diagonals(m, D)
      PROVE  /\ k \in Int /\ m - D <= k /\ k <= m + D
             /\ k # m + D => /\ D > 0 /\ k + 2 <= m + D
                             /\ k + 2 \in Diagonals(m, D) /\ k + 1 \in Diagonals(m, D - 1)
             /\ k # m - D => /\ D > 0 /\ m - D <= k - 2
                             /\ k - 2 \in Diagonals(m, D) /\ k - 1 \in Diagonals(m, D - 1)
  <2>1. PICK j \in 0 .. D : k = m - D + 2 * j
    BY DEF Diagonals
  <2>2. k \in Int /\ m - D <= k /\ k <= m + D
    BY <2>1
  <2>3. ASSUME k # m + D
        PROVE  /\ D > 0 /\ k + 2 <= m + D
               /\ k + 2 \in Diagonals(m, D) /\ k + 1 \in Diagonals(m, D - 1)
    <3>1. j + 1 \in 0 .. D /\ j \in 0 .. D - 1 /\ D > 0
      BY <2>1, <2>3
    <3>2. k + 2 = m - D + 2 * (j + 1) /\ k + 1 = m - (D - 1) + 2 * j /\ k + 2 <= m + D
      BY <2>1, <2>3
    <3>3. m - (D - 1) + 2 * j \in Diagonals(m, D - 1)
      BY <3>1 DEF Diagonals
    <3> QED
      BY <1>1, <3>1, <3>2, <3>3
  <2>4. ASSUME k # m - D
        PROVE  /\ D > 0 /\ m - D <= k - 2
               /\ k - 2 \in Diagonals(m, D) /\ k - 1 \in Diagonals(m, D - 1)
    <3>1. j - 1 \in 0 .. D /\ j - 1 \in 0 .. D - 1 /\ D > 0
      BY <2>1, <2>4
    <3>2. k - 2 = m - D + 2 * (j - 1) /\ k - 1 = m - (D - 1) + 2 * (j - 1) /\ m - D <= k - 2
      BY <2>1, <2>4
    <3>3. m - (D - 1) + 2 * (j - 1) \in Diagonals(m, D - 1)
      BY <3>1 DEF Diagonals
    <3> QED
      BY <1>1, <3>1, <3>2, <3>3
  <2> QED
    BY <2>2, <2>3, <2>4
<1> QED
  BY <1>2, <1>3

(* A round of the forward search, from the second on: on each diagonal a   *)
(* step from the further of its neighbours, and n steps along it.          *)
ForwardStep(a, b, box, D, d, f) ==
  \A k \in Diagonals(DownK(box), D) :
    \E s \in Int, n \in Nat :
      /\ f[k] = s + n
      /\ n > 0 => /\ f[k] <= box.upperA /\ f[k] - k <= box.upperB
                  /\ Equal(a, b, f[k] - 1, f[k] - k - 1)
      /\ k # DownK(box) + D => d[k + 1] <= s
      /\ k # DownK(box) - D => d[k - 1] + 1 <= s
      /\ \/ k # DownK(box) + D /\ s = d[k + 1]
         \/ k # DownK(box) - D /\ s = d[k - 1] + 1

(* Where it is after a round: on or behind the lower bounds of the box,    *)
(* ever further, and beyond an upper bound only where it came there along  *)
(* that bound.                                                             *)
ForwardReach(box, D, f) ==
  \A k \in Diagonals(DownK(box), D) :
    /\ f[k] \in Int
    /\ box.lowerA <= f[k] /\ f[k] <= box.upperA + D
    /\ box.lowerB <= f[k] - k /\ f[k] - k <= box.upperB + D
    /\ box.lowerA + box.lowerB + D <= f[k] + (f[k] - k)
    /\ f[k] - k > box.upperB => k # DownK(box) + D /\ f[k + 2] >= f[k] + 1
    /\ f[k] > box.upperA => k # DownK(box) - D /\ f[k - 2] >= f[k] - 1

(* ExtendForward makes such a round.                                       *)
LEMMA ExtendForwardSteps ==
  ASSUME NEW a, NEW b, NEW box, IsBox(box), NEW D \in Nat, D > 0, NEW d,
         \A k \in Diagonals(DownK(box), D - 1) : d[k] \in Int,
         NEW f, f = ExtendForward(a, b, box, d, DownK(box), D)
  PROVE  ForwardStep(a, b, box, D, d, f)
<1> DEFINE m == DownK(box)
           start(k) ==
             CASE k = m - D -> d[k + 1]
               [] k = m + D /\ D > 0 -> d[k - 1] + 1
               [] OTHER -> Max({d[k + 1], d[k - 1] + 1})
           step(k) == start(k) + CommonAfter(a, b, box, start(k), start(k) - k)
<1>1. m \in Int
  BY DEF IsBox, DownK
<1>2. f = [k \in Diagonals(m, D) |-> step(k)]
  BY DEF ExtendForward
<1>3. \A k \in Diagonals(m, D) : f[k] = step(k)
  <2> HIDE DEF step
  <2> QED
    BY <1>2
<1> SUFFICES ASSUME NEW k \in Diagonals(m, D)
             PROVE  \E s \in Int, n \in Nat :
                      /\ f[k] = s + n
                      /\ n > 0 => /\ f[k] <= box.upperA /\ f[k] - k <= box.upperB
                                  /\ Equal(a, b, f[k] - 1, f[k] - k - 1)
                      /\ k # m + D => d[k + 1] <= s
                      /\ k # m - D => d[k - 1] + 1 <= s
                      /\ \/ k # m + D /\ s = d[k + 1]
                         \/ k # m - D /\ s = d[k - 1] + 1
  BY DEF ForwardStep
<1>4. PICK s : s = start(k)
  OBVIOUS
<1>5. PICK n : n = CommonAfter(a, b, box, s, s - k)
  OBVIOUS
<1>6. f[k] = s + n
  BY <1>3, <1>4, <1>5
<1>7. k \in Int /\ m - D <= k /\ k <= m + D
  BY <1>1, DiagonalFacts
<1>8. k # m + D => d[k + 1] \in Int
  BY <1>1, DiagonalFacts
<1>9. k # m - D => d[k - 1] \in Int
  BY <1>1, DiagonalFacts
<1>10. /\ s \in Int
       /\ k # m + D => d[k + 1] <= s
       /\ k # m - D => d[k - 1] + 1 <= s
       /\ \/ k # m + D /\ s = d[k + 1]
          \/ k # m - D /\ s = d[k - 1] + 1
  <2>1. CASE k = m - D
    <3>1. k # m + D
      BY <1>1, <2>1
    <3>2. s = d[k + 1]
      BY <1>4, <2>1, <3>1
    <3> QED
      BY <1>8, <2>1, <3>1, <3>2
  <2>2. CASE k = m + D
    <3>1. k # m - D
      BY <1>1, <2>2
    <3>2. s = d[k - 1] + 1
      BY <1>4, <2>2, <3>1
    <3> QED
      BY <1>9, <2>2, <3>1, <3>2
  <2>3. CASE k # m - D /\ k # m + D
    <3>1. s = Max({d[k + 1], d[k - 1] + 1})
      BY <1>4, <2>3
    <3>2. d[k + 1] \in Int /\ d[k - 1] + 1 \in Int
      BY <1>8, <1>9, <2>3
    <3>3. s \in {d[k + 1], d[k - 1] + 1} /\ d[k + 1] <= s /\ d[k - 1] + 1 <= s
      BY <3>1, <3>2, GreaterOfTwo
    <3> QED
      BY <2>3, <3>2, <3>3
  <2> QED
    BY <2>1, <2>2, <2>3
<1>11. /\ n \in Nat
       /\ n > 0 => s + n <= box.upperA /\ (s - k) + n <= box.upperB
       /\ \A j \in 0 .. n - 1 : Equal(a, b, s + j, (s - k) + j)
  BY <1>5, <1>7, <1>10, CommonAfterFacts
<1>12. n > 0 => /\ f[k] <= box.upperA /\ f[k] - k <= box.upperB
                /\ Equal(a, b, f[k] - 1, f[k] - k - 1)
  <2> HAVE n > 0
  <2>1. n - 1 \in 0 .. n - 1
    BY <1>11
  <2>2. Equal(a, b, s + (n - 1), (s - k) + (n - 1))
    BY <1>11, <2>1
  <2>3. s + (n - 1) = f[k] - 1 /\ (s - k) + (n - 1) = f[k] - k - 1
    BY <1>6, <1>7, <1>10, <1>11
  <2>4. f[k] <= box.upperA /\ f[k] - k <= box.upperB
    BY <1>6, <1>7, <1>10, <1>11 DEF IsBox
  <2> QED
    BY <2>2, <2>3, <2>4
<1> HIDE DEF m
<1> QED
  BY <1>6, <1>10, <1>11, <1>12

(* Each round goes on from where the one before it was.                    *)
LEMMA ForwardGoesOn ==
  ASSUME NEW a, NEW b, NEW box, IsBox(box), NEW D \in Nat, D > 0, NEW d, NEW f,
         ForwardReach(box, D - 1, d), ForwardStep(a, b, box, D, d, f)
  PROVE  ForwardReach(box, D, f)
<1> DEFINE m == DownK(box)
<1>1. m \in Int /\ D - 1 \in Nat
  BY DEF IsBox, DownK
<1>2. \A k \in Diagonals(m, D - 1) :
        /\ d[k] \in Int
        /\ box.lowerA <= d[k] /\ d[k] <= box.upperA + (D - 1)
        /\ box.lowerB <= d[k] - k /\ d[k] - k <= box.upperB + (D - 1)
        /\ box.lowerA + box.lowerB + (D - 1) <= d[k] + (d[k] - k)
        /\ d[k] - k > box.upperB => k # m + (D - 1) /\ d[k + 2] >= d[k] + 1
        /\ d[k] > box.upperA => k # m - (D - 1) /\ d[k - 2] >= d[k] - 1
  BY DEF ForwardReach
<1>3. \A k \in Diagonals(m, D) :
        \E s \in Int, n \in Nat :
          /\ f[k] = s + n
          /\ n > 0 => f[k] <= box.upperA /\ f[k] - k <= box.upperB
          /\ k # m + D => d[k + 1] <= s
          /\ k # m - D => d[k - 1] + 1 <= s
          /\ \/ k # m + D /\ s = d[k + 1]
             \/ k # m - D /\ s = d[k - 1] + 1
  BY DEF ForwardStep
<1>4. \A k \in Diagonals(m, D) :
        /\ k \in Int /\ m - D <= k /\ k <= m + D
        /\ k # m + D => k + 2 <= m + D /\ k + 2 \in Diagonals(m, D)
                        /\ k + 1 \in Diagonals(m, D - 1)
        /\ k # m - D => m - D <= k - 2 /\ k - 2 \in Diagonals(m, D)
                        /\ k - 1 \in Diagonals(m, D - 1)
  BY <1>1, DiagonalFacts
<1>5. box.lowerA \in Int /\ box.upperA \in Int /\ box.lowerB \in Int /\ box.upperB \in Int
  BY DEF IsBox
<1> HIDE DEF m
<1>6. ASSUME NEW k \in Diagonals(m, D)
      PROVE  /\ f[k] \in Int
             /\ box.lowerA <= f[k] /\ f[k] <= box.upperA + D
             /\ box.lowerB <= f[k] - k /\ f[k] - k <= box.upperB + D
             /\ box.lowerA + box.lowerB + D <= f[k] + (f[k] - k)
             /\ f[k] - k > box.upperB => k # m + D /\ f[k + 2] >= f[k] + 1
             /\ f[k] > box.upperA => k # m - D /\ f[k - 2] >= f[k] - 1
  <2>1. PICK s \in Int, n \in Nat :
          /\ f[k] = s + n
          /\ n > 0 => f[k] <= box.upperA /\ f[k] - k <= box.upperB
          /\ k # m + D => d[k + 1] <= s
          /\ k # m - D => d[k - 1] + 1 <= s
          /\ \/ k # m + D /\ s = d[k + 1]
             \/ k # m - D /\ s = d[k - 1] + 1
    BY <1>3
  <2>2. k \in Int /\ f[k] \in Int
    BY <1>4, <2>1
  <2>3. k # m + D =>
          /\ d[k + 1] \in Int
          /\ box.lowerA <= d[k + 1] /\ d[k + 1] <= box.upperA + (D - 1)
          /\ box.lowerB <= d[k + 1] - (k + 1) /\ d[k + 1] - (k + 1) <= box.upperB + (D - 1)
          /\ box.lowerA + box.lowerB + (D - 1) <= d[k + 1] + (d[k + 1] - (k + 1))
    BY <1>2, <1>4
  <2>4. k # m - D =>
          /\ d[k - 1] \in Int
          /\ box.lowerA <= d[k - 1] /\ d[k - 1] <= box.upperA + (D - 1)
          /\ box.lowerB <= d[k - 1] - (k - 1) /\ d[k - 1] - (k - 1) <= box.upperB + (D - 1)
          /\ box.lowerA + box.lowerB + (D - 1) <= d[k - 1] + (d[k - 1] - (k - 1))
    BY <1>2, <1>4
  <2>5. /\ box.lowerA <= f[k] /\ f[k] <= box.upperA + D
        /\ box.lowerB <= f[k] - k /\ f[k] - k <= box.upperB + D
        /\ box.lowerA + box.lowerB + D <= f[k] + (f[k] - k)
    BY <1>5, <2>1, <2>2, <2>3, <2>4
  <2>6. ASSUME f[k] - k > box.upperB
        PROVE  k # m + D /\ f[k + 2] >= f[k] + 1
    <3>1. n = 0 /\ f[k] = s
      BY <1>5, <2>1, <2>2, <2>6
    <3>2. k # m + D /\ f[k] <= d[k + 1]
      <4>1. CASE k # m + D /\ s = d[k + 1]
        BY <3>1, <4>1, <2>3
      <4>2. CASE k # m - D /\ s = d[k - 1] + 1
        <5>1. d[k - 1] - (k - 1) > box.upperB
          BY <1>5, <2>2, <2>4, <2>6, <3>1, <4>2
        <5>2. k - 1 # m + (D - 1) /\ d[(k - 1) + 2] >= d[k - 1] + 1
          BY <1>2, <1>4, <4>2, <5>1
        <5>3. (k - 1) + 2 = k + 1 /\ k # m + D
          BY <1>1, <2>2, <5>2
        <5> QED
          BY <3>1, <4>2, <5>2, <5>3
      <4> QED
        BY <2>1, <4>1, <4>2
    <3>3. k + 2 \in Diagonals(m, D) /\ k + 2 # m - D /\ k + 2 \in Int
      BY <1>1, <1>4, <3>2
    <3>4. PICK s2 \in Int, n2 \in Nat : f[k + 2] = s2 + n2 /\ d[(k + 2) - 1] + 1 <= s2
      BY <1>3, <3>3
    <3>5. (k + 2) - 1 = k + 1
      BY <2>2
    <3> QED
      BY <2>2, <2>3, <3>2, <3>4, <3>5
  <2>7. ASSUME f[k] > box.upperA
        PROVE  k # m - D /\ f[k - 2] >= f[k] - 1
    <3>1. n = 0 /\ f[k] = s
      BY <1>5, <2>1, <2>2, <2>7
    <3>2. k # m - D /\ f[k] - 1 <= d[k - 1]
      <4>1. CASE k # m + D /\ s = d[k + 1]
        <5>1. d[k + 1] > box.upperA
          BY <2>7, <3>1, <4>1
        <5>2. k + 1 # m - (D - 1) /\ d[(k + 1) - 2] >= d[k + 1] - 1
          BY <1>2, <1>4, <4>1, <5>1
        <5>3. (k + 1) - 2 = k - 1 /\ k # m - D
          BY <1>1, <2>2, <5>2
        <5> QED
          BY <3>1, <4>1, <5>2, <5>3
      <4>2. CASE k # m - D /\ s = d[k - 1] + 1
        BY <2>4, <3>1, <4>2
      <4> QED
        BY <2>1, <4>1, <4>2
    <3>3. k - 2 \in Diagonals(m, D) /\ k - 2 # m + D /\ k - 2 \in Int
      BY <1>1, <1>4, <3>2
    <3>4. PICK s2 \in Int, n2 \in Nat : f[k - 2] = s2 + n2 /\ d[(k - 2) + 1] <= s2
      BY <1>3, <3>3
    <3>5. (k - 2) + 1 = k - 1
      BY <2>2
    <3> QED
      BY <2>2, <2>4, <3>2, <3>4, <3>5
  <2> QED
    BY <2>2, <2>5, <2>6, <2>7
<1> QED
  BY <1>6 DEF ForwardReach, m

(* Where the reverse search is after a round: on or before the upper       *)
(* bounds of the box, and ever further from them.                          *)
ReverseReach(box, D, f) ==
  \A k \in Diagonals(UpK(box), D) :
    /\ f[k] \in Int /\ f[k] <= box.upperA /\ f[k] - k <= box.upperB
    /\ f[k] + (f[k] - k) <= box.upperA + box.upperB - D

(* Its rounds go on from each other too.                                   *)
LEMMA ReverseGoesOn ==
  ASSUME NEW a, NEW b, NEW box, IsBox(box), NEW D \in Nat, D > 0, NEW d,
         ReverseReach(box, D - 1, d),
         NEW f, f = ExtendReverse(a, b, box, d, UpK(box), D)
  PROVE  ReverseReach(box, D, f)
<1> DEFINE m == UpK(box)
           start(k) ==
             CASE k = m + D -> d[k - 1]
               [] k = m - D /\ D > 0 -> d[k + 1] - 1
               [] OTHER -> Min({d[k - 1], d[k + 1] - 1})
           step(k) == start(k) - CommonBefore(a, b, box, start(k), start(k) - k)
<1>1. m \in Int /\ D - 1 \in Nat
  BY DEF IsBox, UpK
<1>2. \A k \in Diagonals(m, D) : f[k] = step(k)
  <2>1. f = [k \in Diagonals(m, D) |-> step(k)]
    BY DEF ExtendReverse
  <2> HIDE DEF step
  <2> QED
    BY <2>1
<1>3. ASSUME NEW k \in Diagonals(m, D)
      PROVE  /\ f[k] \in Int /\ f[k] <= box.upperA /\ f[k] - k <= box.upperB
             /\ f[k] + (f[k] - k) <= box.upperA + box.upperB - D
  <2>1. k \in Int /\ m - D <= k /\ k <= m + D
    BY <1>1, DiagonalFacts
  <2>2. k # m + D => /\ d[k + 1] \in Int /\ d[k + 1] <= box.upperA
                     /\ d[k + 1] - (k + 1) <= box.upperB
                     /\ d[k + 1] + (d[k + 1] - (k + 1)) <= box.upperA + box.upperB - (D - 1)
    BY <1>1, DiagonalFacts DEF ReverseReach
  <2>3. k # m - D => /\ d[k - 1] \in Int /\ d[k - 1] <= box.upperA
                     /\ d[k - 1] - (k - 1) <= box.upperB
                     /\ d[k - 1] + (d[k - 1] - (k - 1)) <= box.upperA + box.upperB - (D - 1)
    BY <1>1, DiagonalFacts DEF ReverseReach
  <2>4. PICK s : s = start(k)
    OBVIOUS
  <2>5. /\ s \in Int
        /\ k # m + D => s <= d[k + 1] - 1
        /\ k # m - D => s <= d[k - 1]
        /\ \/ k # m + D /\ s = d[k + 1] - 1
           \/ k # m - D /\ s = d[k - 1]
    <3>1. CASE k = m + D
      <4>1. k # m - D
        BY <1>1, <3>1
      <4>2. s = d[k - 1]
        BY <2>4, <3>1, <4>1
      <4> QED
        BY <2>3, <3>1, <4>1, <4>2
    <3>2. CASE k = m - D
      <4>1. k # m + D
        BY <1>1, <3>2
      <4>2. s = d[k + 1] - 1
        BY <2>4, <3>2, <4>1
      <4> QED
        BY <2>2, <3>2, <4>1, <4>2
    <3>3. CASE k # m - D /\ k # m + D
      <4>1. s = Min({d[k - 1], d[k + 1] - 1})
        BY <2>4, <3>3
      <4>2. d[k - 1] \in Int /\ d[k + 1] - 1 \in Int
        BY <2>2, <2>3, <3>3
      <4>3. s \in {d[k - 1], d[k + 1] - 1} /\ s <= d[k - 1] /\ s <= d[k + 1] - 1
        BY <4>1, <4>2, SmallerOfTwo
      <4> QED
        BY <3>3, <4>2, <4>3
    <3> QED
      BY <3>1, <3>2, <3>3
  <2>6. PICK n : n = CommonBefore(a, b, box, s, s - k)
    OBVIOUS
  <2>7. n \in Nat
    BY <2>1, <2>5, <2>6, CommonBeforeFacts
  <2>8. f[k] = s - n
    BY <1>2, <2>4, <2>6
  <2> HIDE DEF m
  <2> QED
    BY <1>1, <2>1, <2>2, <2>3, <2>5, <2>7, <2>8 DEF IsBox
<1> HIDE DEF m, step
<1> QED
  BY <1>3 DEF ReverseReach, m

(* The first rounds go along one diagonal.                                 *)
LEMMA FirstRounds ==
  ASSUME NEW a, NEW b, NEW box, IsBox(box),
         NEW f, f = ExtendForward(a, b, box, [k \in {DownK(box) + 1} |-> box.lowerA], DownK(box), 0),
         NEW g, g = ExtendReverse(a, b, box, [k \in {UpK(box) - 1} |-> box.upperA], UpK(box), 0)
  PROVE  /\ ForwardReach(box, 0, f) /\ ReverseReach(box, 0, g)
         /\ f[DownK(box)] = box.lowerA + CommonAfter(a, b, box, box.lowerA, box.lowerB)
         /\ g[UpK(box)] = box.upperA - CommonBefore(a, b, box, box.upperA, box.upperB)
<1> DEFINE m == DownK(box)
           r == UpK(box)
<1>1. m \in Int /\ r \in Int /\ box.lowerA - m = box.lowerB /\ box.upperA - r = box.upperB
  BY DEF IsBox, DownK, UpK
<1>2. Diagonals(m, 0) = {m} /\ Diagonals(r, 0) = {r}
  <2>1. ASSUME NEW x \in Int
        PROVE  Diagonals(x, 0) = {x}
    BY DEF Diagonals
  <2> QED
    BY <1>1, <2>1
<1>3. f[m] = box.lowerA + CommonAfter(a, b, box, box.lowerA, box.lowerB)
  <2> DEFINE d == [k \in {m + 1} |-> box.lowerA]
             start(k) ==
               CASE k = m - 0 -> d[k + 1]
                 [] k = m + 0 /\ 0 > 0 -> d[k - 1] + 1
                 [] OTHER -> Max({d[k + 1], d[k - 1] + 1})
             step(k) == start(k) + CommonAfter(a, b, box, start(k), start(k) - k)
  <2>1. f = [k \in Diagonals(m, 0) |-> step(k)]
    BY DEF ExtendForward
  <2>2. start(m) = box.lowerA
    <3>1. start(m) = d[m + 1]
      <4> HIDE DEF d
      <4> QED
        BY <1>1
    <3> QED
      BY <3>1
  <2>3. f[m] = step(m)
    <3> HIDE DEF step
    <3> QED
      BY <1>2, <2>1
  <2>4. step(m) = box.lowerA + CommonAfter(a, b, box, box.lowerA, box.lowerA - m)
    <3> HIDE DEF start, m
    <3> QED
      BY <2>2
  <2> QED
    BY <1>1, <2>3, <2>4
<1>4. g[r] = box.upperA - CommonBefore(a, b, box, box.upperA, box.upperB)
  <2> DEFINE d == [k \in {r - 1} |-> box.upperA]
             start(k) ==
               CASE k = r + 0 -> d[k - 1]
                 [] k = r - 0 /\ 0 > 0 -> d[k + 1] - 1
                 [] OTHER -> Min({d[k - 1], d[k + 1] - 1})
             step(k) == start(k) - CommonBefore(a, b, box, start(k), start(k) - k)
  <2>1. g = [k \in Diagonals(r, 0) |-> step(k)]
    BY DEF ExtendReverse
  <2>2. start(r) = box.upperA
    <3>1. start(r) = d[r - 1]
      <4> HIDE DEF d
      <4> QED
        BY <1>1
    <3> QED
      BY <3>1
  <2>3. g[r] = step(r)
    <3> HIDE DEF step
    <3> QED
      BY <1>2, <2>1
  <2>4. step(r) = box.upperA - CommonBefore(a, b, box, box.upperA, box.upperA - r)
    <3> HIDE DEF start, r
    <3> QED
      BY <2>2
  <2> QED
    BY <1>1, <2>3, <2>4
<1>5. PICK n : n = CommonAfter(a, b, box, box.lowerA, box.lowerB)
  OBVIOUS
<1>6. PICK l : l = CommonBefore(a, b, box, box.upperA, box.upperB)
  OBVIOUS
<1>7. n \in Nat /\ (n > 0 => box.lowerA + n <= box.upperA /\ box.lowerB + n <= box.upperB)
  BY <1>5, CommonAfterFacts DEF IsBox
<1>8. l \in Nat
  BY <1>6, CommonBeforeFacts DEF IsBox
<1> HIDE DEF m, r
<1>9. f[m] = box.lowerA + n /\ g[r] = box.upperA - l
  BY <1>3, <1>4, <1>5, <1>6
<1>10. ForwardReach(box, 0, f)
  <2>1. /\ f[m] \in Int
        /\ box.lowerA <= f[m] /\ f[m] <= box.upperA + 0
        /\ box.lowerB <= f[m] - m /\ f[m] - m <= box.upperB + 0
        /\ box.lowerA + box.lowerB + 0 <= f[m] + (f[m] - m)
        /\ ~ (f[m] - m > box.upperB) /\ ~ (f[m] > box.upperA)
    BY <1>1, <1>7, <1>9 DEF IsBox
  <2> QED
    BY <1>2, <2>1 DEF ForwardReach, m
<1>11. ReverseReach(box, 0, g)
  <2>1. /\ g[r] \in Int /\ g[r] <= box.upperA /\ g[r] - r <= box.upperB
        /\ g[r] + (g[r] - r) <= box.upperA + box.upperB - 0
    BY <1>1, <1>8, <1>9 DEF IsBox
  <2> QED
    BY <1>2, <2>1 DEF ReverseReach, r
<1> QED
  BY <1>3, <1>4, <1>10, <1>11 DEF m, r

IsDownVector(a, b, box, f) ==
  f = [D \in -1 .. MaxD(box) |->
         IF D = -1 THEN [k \in {DownK(box) + 1} |-> box.lowerA]
         ELSE ExtendForward(a, b, box, f[D - 1], DownK(box), D)]

IsUpVector(a, b, box, f) ==
  f = [D \in -1 .. MaxD(box) |->
         IF D = -1 THEN [k \in {UpK(box) - 1} |-> box.upperA]
         ELSE ExtendReverse(a, b, box, f[D - 1], UpK(box), D)]

(* The rounds of the forward search.                                       *)
LEMMA DownRounds ==
  ASSUME NEW a, NEW b, NEW box, MaxD(box) \in Int, MaxD(box) >= -1
  PROVE  IsDownVector(a, b, box, DownVector(a, b, box))
<1> DEFINE Is(f, K) == f = [k \in -1 .. K |-> IF k = -1 THEN [j \in {DownK(box) + 1} |-> box.lowerA]
                                            ELSE ExtendForward(a, b, box, f[k - 1], DownK(box), k)]
           Bad == {n \in Nat : n + -1 <= MaxD(box) /\ ~ \E f : Is(f, n + -1)}
<1>1. Bad = {}
  <2> SUFFICES ASSUME Bad # {}
               PROVE  FALSE
    OBVIOUS
  <2>1. PICK n \in Bad : \A k \in Bad : n <= k
    <3>1. Bad \in SUBSET Nat
      OBVIOUS
    <3> HIDE DEF Bad
    <3> QED
      BY <3>1, LeastNumber
  <2> DEFINE K == n + -1
  <2>2. n \in Nat /\ K \in Int /\ -1 <= K /\ K <= MaxD(box) /\ ~ \E f : Is(f, K)
    <3>1. n \in Nat /\ n + -1 <= MaxD(box) /\ ~ \E f : Is(f, n + -1)
      <4> HIDE DEF Is, K
      <4> QED
        OBVIOUS
    <3>2. K \in Int /\ -1 <= K
      <4> HIDE DEF Is, Bad
      <4> QED
        BY <3>1
    <3> HIDE DEF Is, Bad
    <3> QED
      BY <3>1, <3>2
  <2>3. K # -1
    <3> DEFINE f == [k \in -1 .. -1 |-> [j \in {DownK(box) + 1} |-> box.lowerA]]
    <3>1. Is(f, -1)
      <4>1. \A k \in -1 .. -1 : k = -1
        OBVIOUS
      <4> QED
        BY <4>1
    <3> HIDE DEF Is
    <3> QED
      BY <2>2, <3>1
  <2>4. n - 1 \in Nat /\ n - 1 \notin Bad /\ (n - 1) + -1 = K - 1 /\ K - 1 <= MaxD(box) /\ -1 <= K - 1
    <3>1. n - 1 \in Nat /\ ~ (n <= n - 1) /\ (n - 1) + -1 = K - 1 /\ K - 1 <= MaxD(box) /\ -1 <= K - 1
      BY <2>2, <2>3
    <3> HIDE DEF Bad
    <3> QED
      BY <2>1, <3>1
  <2>5. PICK f : Is(f, K - 1)
    <3>1. \E f : Is(f, (n - 1) + -1)
      <4> HIDE DEF Is, K
      <4> QED
        BY <2>4
    <3> HIDE DEF Is, K
    <3> QED
      BY <2>4, <3>1
  <2> HIDE DEF K
  <2> DEFINE g == [k \in -1 .. K |-> IF k = K THEN ExtendForward(a, b, box, f[K - 1], DownK(box), K) ELSE f[k]]
  <2>6. \A k \in -1 .. K : g[k] = IF k = -1 THEN [j \in {DownK(box) + 1} |-> box.lowerA] ELSE ExtendForward(a, b, box, g[k - 1], DownK(box), k)
    <3> TAKE k \in -1 .. K
    <3>1. f = [x \in -1 .. K - 1 |-> IF x = -1 THEN [j \in {DownK(box) + 1} |-> box.lowerA]
                                    ELSE ExtendForward(a, b, box, f[x - 1], DownK(box), x)]
      BY <2>5
    <3>2. CASE k = K
      <4>1. K - 1 \in -1 .. K /\ K - 1 # K /\ k # -1
        BY <2>2, <2>3, <3>2
      <4>2. g[K - 1] = f[K - 1] /\ g[k] = ExtendForward(a, b, box, f[K - 1], DownK(box), K)
        BY <3>2, <4>1
      <4> HIDE DEF g
      <4> QED
        BY <3>2, <4>1, <4>2
    <3>3. CASE k # K
      <4>1. k \in -1 .. K - 1 /\ g[k] = f[k]
        BY <2>2, <3>3
      <4>2. f[k] = IF k = -1 THEN [j \in {DownK(box) + 1} |-> box.lowerA] ELSE ExtendForward(a, b, box, f[k - 1], DownK(box), k)
        BY <3>1, <4>1
      <4>3. k # -1 => g[k - 1] = f[k - 1]
        <5>1. k # -1 => k - 1 \in -1 .. K /\ k - 1 # K
          BY <2>2, <3>3
        <5> QED
          BY <5>1
      <4> HIDE DEF g
      <4> QED
        BY <4>1, <4>2, <4>3
    <3> QED
      BY <3>2, <3>3
  <2>7. Is(g, K)
    <3>1. g = [k \in -1 .. K |-> g[k]]
      OBVIOUS
    <3> HIDE DEF g
    <3> QED
      BY <2>6, <3>1
  <2> HIDE DEF Is, g
  <2> QED
    BY <2>2, <2>7
<1>2. \E f : IsDownVector(a, b, box, f)
  <2>1. MaxD(box) - (-1) \in Nat /\ (MaxD(box) - (-1)) + -1 = MaxD(box) /\ MaxD(box) <= MaxD(box)
    OBVIOUS
  <2>2. \E f : Is(f, MaxD(box))
    <3>1. \E f : Is(f, (MaxD(box) - (-1)) + -1)
      <4> HIDE DEF Is
      <4> QED
        BY <1>1, <2>1
    <3> HIDE DEF Is
    <3> QED
      BY <2>1, <3>1
  <2> QED
    BY <2>2 DEF IsDownVector
<1>3. PICK f : f = DownVector(a, b, box)
  OBVIOUS
<1>4. DownVector(a, b, box) = CHOOSE g : IsDownVector(a, b, box, g)
  BY DEF DownVector, IsDownVector
<1>5. IsDownVector(a, b, box, f)
  BY <1>2, <1>3, <1>4
<1> QED
  BY <1>3, <1>5

(* The rounds of the reverse search.                                       *)
LEMMA UpRounds ==
  ASSUME NEW a, NEW b, NEW box, MaxD(box) \in Int, MaxD(box) >= -1
  PROVE  IsUpVector(a, b, box, UpVector(a, b, box))
<1> DEFINE Is(f, K) == f = [k \in -1 .. K |-> IF k = -1 THEN [j \in {UpK(box) - 1} |-> box.upperA]
                                            ELSE ExtendReverse(a, b, box, f[k - 1], UpK(box), k)]
           Bad == {n \in Nat : n + -1 <= MaxD(box) /\ ~ \E f : Is(f, n + -1)}
<1>1. Bad = {}
  <2> SUFFICES ASSUME Bad # {}
               PROVE  FALSE
    OBVIOUS
  <2>1. PICK n \in Bad : \A k \in Bad : n <= k
    <3>1. Bad \in SUBSET Nat
      OBVIOUS
    <3> HIDE DEF Bad
    <3> QED
      BY <3>1, LeastNumber
  <2> DEFINE K == n + -1
  <2>2. n \in Nat /\ K \in Int /\ -1 <= K /\ K <= MaxD(box) /\ ~ \E f : Is(f, K)
    <3>1. n \in Nat /\ n + -1 <= MaxD(box) /\ ~ \E f : Is(f, n + -1)
      <4> HIDE DEF Is, K
      <4> QED
        OBVIOUS
    <3>2. K \in Int /\ -1 <= K
      <4> HIDE DEF Is, Bad
      <4> QED
        BY <3>1
    <3> HIDE DEF Is, Bad
    <3> QED
      BY <3>1, <3>2
  <2>3. K # -1
    <3> DEFINE f == [k \in -1 .. -1 |-> [j \in {UpK(box) - 1} |-> box.upperA]]
    <3>1. Is(f, -1)
      <4>1. \A k \in -1 .. -1 : k = -1
        OBVIOUS
      <4> QED
        BY <4>1
    <3> HIDE DEF Is
    <3> QED
      BY <2>2, <3>1
  <2>4. n - 1 \in Nat /\ n - 1 \notin Bad /\ (n - 1) + -1 = K - 1 /\ K - 1 <= MaxD(box) /\ -1 <= K - 1
    <3>1. n - 1 \in Nat /\ ~ (n <= n - 1) /\ (n - 1) + -1 = K - 1 /\ K - 1 <= MaxD(box) /\ -1 <= K - 1
      BY <2>2, <2>3
    <3> HIDE DEF Bad
    <3> QED
      BY <2>1, <3>1
  <2>5. PICK f : Is(f, K - 1)
    <3>1. \E f : Is(f, (n - 1) + -1)
      <4> HIDE DEF Is, K
      <4> QED
        BY <2>4
    <3> HIDE DEF Is, K
    <3> QED
      BY <2>4, <3>1
  <2> HIDE DEF K
  <2> DEFINE g == [k \in -1 .. K |-> IF k = K THEN ExtendReverse(a, b, box, f[K - 1], UpK(box), K) ELSE f[k]]
  <2>6. \A k \in -1 .. K : g[k] = IF k = -1 THEN [j \in {UpK(box) - 1} |-> box.upperA] ELSE ExtendReverse(a, b, box, g[k - 1], UpK(box), k)
    <3> TAKE k \in -1 .. K
    <3>1. f = [x \in -1 .. K - 1 |-> IF x = -1 THEN [j \in {UpK(box) - 1} |-> box.upperA]
                                    ELSE ExtendReverse(a, b, box, f[x - 1], UpK(box), x)]
      BY <2>5
    <3>2. CASE k = K
      <4>1. K - 1 \in -1 .. K /\ K - 1 # K /\ k # -1
        BY <2>2, <2>3, <3>2
      <4>2. g[K - 1] = f[K - 1] /\ g[k] = ExtendReverse(a, b, box, f[K - 1], UpK(box), K)
        BY <3>2, <4>1
      <4> HIDE DEF g
      <4> QED
        BY <3>2, <4>1, <4>2
    <3>3. CASE k # K
      <4>1. k \in -1 .. K - 1 /\ g[k] = f[k]
        BY <2>2, <3>3
      <4>2. f[k] = IF k = -1 THEN [j \in {UpK(box) - 1} |-> box.upperA] ELSE ExtendReverse(a, b, box, f[k - 1], UpK(box), k)
        BY <3>1, <4>1
      <4>3. k # -1 => g[k - 1] = f[k - 1]
        <5>1. k # -1 => k - 1 \in -1 .. K /\ k - 1 # K
          BY <2>2, <3>3
        <5> QED
          BY <5>1
      <4> HIDE DEF g
      <4> QED
        BY <4>1, <4>2, <4>3
    <3> QED
      BY <3>2, <3>3
  <2>7. Is(g, K)
    <3>1. g = [k \in -1 .. K |-> g[k]]
      OBVIOUS
    <3> HIDE DEF g
    <3> QED
      BY <2>6, <3>1
  <2> HIDE DEF Is, g
  <2> QED
    BY <2>2, <2>7
<1>2. \E f : IsUpVector(a, b, box, f)
  <2>1. MaxD(box) - (-1) \in Nat /\ (MaxD(box) - (-1)) + -1 = MaxD(box) /\ MaxD(box) <= MaxD(box)
    OBVIOUS
  <2>2. \E f : Is(f, MaxD(box))
    <3>1. \E f : Is(f, (MaxD(box) - (-1)) + -1)
      <4> HIDE DEF Is
      <4> QED
        BY <1>1, <2>1
    <3> HIDE DEF Is
    <3> QED
      BY <2>1, <3>1
  <2> QED
    BY <2>2 DEF IsUpVector
<1>3. PICK f : f = UpVector(a, b, box)
  OBVIOUS
<1>4. UpVector(a, b, box) = CHOOSE g : IsUpVector(a, b, box, g)
  BY DEF UpVector, IsUpVector
<1>5. IsUpVector(a, b, box, f)
  BY <1>2, <1>3, <1>4
<1> QED
  BY <1>3, <1>5

(* How many rounds there are.                                              *)
LEMMA MaxDFacts ==
  ASSUME NEW box, IsBox(box)
  PROVE  /\ MaxD(box) \in Nat /\ MaxD(box) >= 1
         /\ 2 * MaxD(box) > (box.upperA - box.lowerA) + (box.upperB - box.lowerB)
<1>1. PICK n : n = box.upperA - box.lowerA + box.upperB - box.lowerB
  OBVIOUS
<1>2. n \in Nat /\ n = (box.upperA - box.lowerA) + (box.upperB - box.lowerB)
  BY <1>1 DEF IsBox
<1>3. n \div 2 \in Nat /\ 2 * (n \div 2 + 1) > n
  BY <1>2
<1>4. MaxD(box) = n \div 2 + 1
  BY <1>1 DEF MaxD
<1> QED
  BY <1>2, <1>3, <1>4

(* All rounds of both searches.                                            *)
LEMMA RoundsReach ==
  ASSUME NEW a, NEW b, NEW box, IsBox(box)
  PROVE  /\ \A D \in 0 .. MaxD(box) : /\ ForwardReach(box, D, DownVector(a, b, box)[D])
                                      /\ ReverseReach(box, D, UpVector(a, b, box)[D])
         /\ \A D \in 1 .. MaxD(box) :
              ForwardStep(a, b, box, D, DownVector(a, b, box)[D - 1], DownVector(a, b, box)[D])
         /\ DownVector(a, b, box)[0][DownK(box)]
              = box.lowerA + CommonAfter(a, b, box, box.lowerA, box.lowerB)
         /\ UpVector(a, b, box)[0][UpK(box)]
              = box.upperA - CommonBefore(a, b, box, box.upperA, box.upperB)
<1>1. PICK f : f = DownVector(a, b, box)
  OBVIOUS
<1>2. PICK g : g = UpVector(a, b, box)
  OBVIOUS
<1>3. PICK N : N = MaxD(box)
  OBVIOUS
<1>4. N \in Nat /\ N >= 1
  BY <1>3, MaxDFacts
<1>5. /\ f[-1] = [j \in {DownK(box) + 1} |-> box.lowerA]
      /\ \A D \in 0 .. N : f[D] = ExtendForward(a, b, box, f[D - 1], DownK(box), D)
  <2>1. N \in Int /\ N >= -1 /\ -1 + 1 = 0
    BY <1>4
  <2>2. IsDownVector(a, b, box, f)
    BY <1>1, <1>3, <2>1, DownRounds
  <2>3. f = [D \in -1 .. N |->
               IF D = -1 THEN [j \in {DownK(box) + 1} |-> box.lowerA]
               ELSE ExtendForward(a, b, box, f[D - 1], DownK(box), D)]
    BY <1>3, <2>2 DEF IsDownVector
  <2>4. -1 \in -1 .. N /\ \A D \in 0 .. N : D \in -1 .. N /\ D # -1
    BY <2>1
  <2> QED
    BY <2>3, <2>4
<1>6. /\ g[-1] = [j \in {UpK(box) - 1} |-> box.upperA]
      /\ \A D \in 0 .. N : g[D] = ExtendReverse(a, b, box, g[D - 1], UpK(box), D)
  <2>1. N \in Int /\ N >= -1 /\ -1 + 1 = 0
    BY <1>4
  <2>2. IsUpVector(a, b, box, g)
    BY <1>2, <1>3, <2>1, UpRounds
  <2>3. g = [D \in -1 .. N |->
               IF D = -1 THEN [j \in {UpK(box) - 1} |-> box.upperA]
               ELSE ExtendReverse(a, b, box, g[D - 1], UpK(box), D)]
    BY <1>3, <2>2 DEF IsUpVector
  <2>4. -1 \in -1 .. N /\ \A D \in 0 .. N : D \in -1 .. N /\ D # -1
    BY <2>1
  <2> QED
    BY <2>3, <2>4
<1>7. 0 \in 0 .. N /\ 0 - 1 = -1
  BY <1>4
<1>8. /\ ForwardReach(box, 0, f[0]) /\ ReverseReach(box, 0, g[0])
      /\ f[0][DownK(box)] = box.lowerA + CommonAfter(a, b, box, box.lowerA, box.lowerB)
      /\ g[0][UpK(box)] = box.upperA - CommonBefore(a, b, box, box.upperA, box.upperB)
  <2>1. f[0] = ExtendForward(a, b, box, [k \in {DownK(box) + 1} |-> box.lowerA], DownK(box), 0)
    BY <1>5, <1>7
  <2>2. g[0] = ExtendReverse(a, b, box, [k \in {UpK(box) - 1} |-> box.upperA], UpK(box), 0)
    BY <1>6, <1>7
  <2> QED
    BY <2>1, <2>2, FirstRounds
<1>9. ASSUME NEW D \in 1 .. N, ForwardReach(box, D - 1, f[D - 1])
      PROVE  ForwardStep(a, b, box, D, f[D - 1], f[D]) /\ ForwardReach(box, D, f[D])
  <2>1. D \in Nat /\ D > 0 /\ D \in 0 .. N
    BY <1>4
  <2>2. f[D] = ExtendForward(a, b, box, f[D - 1], DownK(box), D)
    BY <1>5, <2>1
  <2>3. \A k \in Diagonals(DownK(box), D - 1) : f[D - 1][k] \in Int
    BY <1>9 DEF ForwardReach
  <2>4. ForwardStep(a, b, box, D, f[D - 1], f[D])
    BY <2>1, <2>2, <2>3, ExtendForwardSteps
  <2> QED
    BY <1>9, <2>1, <2>4, ForwardGoesOn
<1>10. ASSUME NEW D \in 1 .. N, ReverseReach(box, D - 1, g[D - 1])
       PROVE  ReverseReach(box, D, g[D])
  <2>1. D \in Nat /\ D > 0 /\ D \in 0 .. N
    BY <1>4
  <2>2. g[D] = ExtendReverse(a, b, box, g[D - 1], UpK(box), D)
    BY <1>6, <2>1
  <2> QED
    BY <1>10, <2>1, <2>2, ReverseGoesOn
<1>11. \A D \in 0 .. N : ForwardReach(box, D, f[D]) /\ ReverseReach(box, D, g[D])
  <2> DEFINE Bad == {D \in 0 .. N : ~ (ForwardReach(box, D, f[D]) /\ ReverseReach(box, D, g[D]))}
  <2> SUFFICES ASSUME Bad # {}
               PROVE  FALSE
    OBVIOUS
  <2>1. Bad \in SUBSET Nat
    OBVIOUS
  <2>2. PICK D \in Bad : \A E \in Bad : D <= E
    <3> HIDE DEF Bad
    <3> QED
      BY <2>1, LeastNumber
  <2>3. D \in 0 .. N /\ ~ (ForwardReach(box, D, f[D]) /\ ReverseReach(box, D, g[D]))
    OBVIOUS
  <2>4. D # 0
    BY <1>8, <2>3
  <2>5. D \in 1 .. N /\ D - 1 \in 0 .. N /\ ~ (D <= D - 1)
    BY <1>4, <2>3, <2>4
  <2>6. D - 1 \notin Bad
    <3> HIDE DEF Bad
    <3> QED
      BY <2>2, <2>5
  <2>7. ForwardReach(box, D - 1, f[D - 1]) /\ ReverseReach(box, D - 1, g[D - 1])
    BY <2>5, <2>6
  <2> HIDE DEF Bad
  <2> QED
    BY <1>9, <1>10, <2>3, <2>5, <2>7
<1>12. \A D \in 1 .. N : ForwardStep(a, b, box, D, f[D - 1], f[D])
  <2> TAKE D \in 1 .. N
  <2>1. D - 1 \in 0 .. N
    BY <1>4
  <2> QED
    BY <1>9, <1>11, <2>1
<1> QED
  BY <1>1, <1>2, <1>3, <1>8, <1>11, <1>12

(* The reverse round that a forward round may meet.                        *)
Against(box, D) == IF (UpK(box) - DownK(box)) % 2 = 1 THEN D - 1 ELSE D

(* Which diagonals two rounds share.                                       *)
LEMMA SharedDiagonals ==
  ASSUME NEW m \in Int, NEW r \in Int, NEW D \in Int, NEW E \in Int,
         NEW q \in Int, (m - D) - (r - E) = 2 * q
  PROVE  \A k \in Diagonals(m, D) :
           /\ k \in Int /\ m - D <= k /\ k <= m + D
           /\ k # r - E - 1 /\ k # r + E + 1
           /\ k \in Diagonals(r, E) <=> r - E <= k /\ k <= r + E
<1> TAKE k \in Diagonals(m, D)
<1>1. PICK j \in 0 .. D : k = m - D + 2 * j
  BY DEF Diagonals
<1>2. k \in Int /\ m - D <= k /\ k <= m + D
  BY <1>1
<1>3. k = r - E + 2 * (j + q)
  BY <1>1
<1>4. k # r - E - 1 /\ k # r + E + 1
  BY <1>1, <1>3
<1>5. ASSUME k \in Diagonals(r, E)
      PROVE  r - E <= k /\ k <= r + E
  <2>1. PICK i \in 0 .. E : k = r - E + 2 * i
    BY <1>5 DEF Diagonals
  <2> QED
    BY <2>1
<1>6. ASSUME r - E <= k, k <= r + E
      PROVE  k \in Diagonals(r, E)
  <2>1. j + q \in 0 .. E
    BY <1>1, <1>3, <1>6
  <2> QED
    BY <1>3, <2>1 DEF Diagonals
<1> QED
  BY <1>2, <1>4, <1>5, <1>6

(* The distance of their diagonals is even.                                *)
LEMMA AgainstFacts ==
  ASSUME NEW box, IsBox(box), NEW D \in Nat
  PROVE  /\ Against(box, D) \in {D - 1, D}
         /\ \E q \in Int : (DownK(box) - D) - (UpK(box) - Against(box, D)) = 2 * q
<1>1. PICK m : m = DownK(box)
  OBVIOUS
<1>2. PICK r : r = UpK(box)
  OBVIOUS
<1>3. m \in Int /\ r \in Int
  BY <1>1, <1>2 DEF IsBox, DownK, UpK
<1>4. PICK q : q = (r - m) \div 2
  OBVIOUS
<1>5. q \in Int /\ r - m = (2 * q) + ((r - m) % 2) /\ (r - m) % 2 \in {0, 1}
  BY <1>3, <1>4
<1>6. CASE (r - m) % 2 = 1
  <2>1. Against(box, D) = D - 1
    BY <1>1, <1>2, <1>6 DEF Against
  <2>2. (m - D) - (r - (D - 1)) = 2 * (-q - 1) /\ -q - 1 \in Int
    BY <1>3, <1>5, <1>6
  <2> QED
    BY <1>1, <1>2, <2>1, <2>2
<1>7. CASE (r - m) % 2 = 0
  <2>1. Against(box, D) = D
    BY <1>1, <1>2, <1>7 DEF Against
  <2>2. (m - D) - (r - D) = 2 * (-q) /\ -q \in Int
    BY <1>3, <1>5, <1>7
  <2> QED
    BY <1>1, <1>2, <2>1, <2>2
<1> QED
  BY <1>5, <1>6, <1>7

(* Where the searches overlap, as one statement.                           *)
LEMMA MetIs ==
  ASSUME NEW a, NEW b, NEW box, IsBox(box), NEW D \in Nat, NEW k
  PROVE  k \in Met(a, b, box, D) <=>
           /\ k \in Diagonals(DownK(box), D) /\ k \in Diagonals(UpK(box), Against(box, D))
           /\ UpVector(a, b, box)[Against(box, D)][k] <= DownVector(a, b, box)[D][k]
<1>1. PICK m : m = DownK(box)
  OBVIOUS
<1>2. PICK r : r = UpK(box)
  OBVIOUS
<1>3. m \in Int /\ r \in Int
  BY <1>1, <1>2 DEF IsBox, DownK, UpK
<1>4. PICK E : E = Against(box, D)
  OBVIOUS
<1>5. E \in {D - 1, D} /\ E \in Int
  BY <1>4, AgainstFacts
<1>6. PICK q \in Int : (m - D) - (r - E) = 2 * q
  BY <1>1, <1>2, <1>4, AgainstFacts
<1>7. \A j \in Diagonals(m, D) : /\ j \in Int /\ m - D <= j /\ j <= m + D
                                 /\ j # r - E - 1 /\ j # r + E + 1
                                 /\ j \in Diagonals(r, E) <=> r - E <= j /\ j <= r + E
  <2>1. D \in Int
    OBVIOUS
  <2> QED
    BY ONLY <1>3, <1>5, <1>6, <2>1, SharedDiagonals, Zenon
<1>8. CASE (r - m) % 2 = 1
  <2>1. E = D - 1
    BY <1>1, <1>2, <1>4, <1>8 DEF Against
  <2>2. Met(a, b, box, D) =
          {j \in Diagonals(m, D) :
             r - D < j /\ j < r + D /\ UpVector(a, b, box)[D - 1][j] <= DownVector(a, b, box)[D][j]}
    BY <1>1, <1>2, <1>8 DEF Met
  <2>3. \A j \in Int : (r - D < j <=> r - E <= j) /\ (j < r + D <=> j <= r + E)
    BY <1>3, <2>1
  <2> QED
    BY <1>1, <1>2, <1>4, <1>7, <2>1, <2>2, <2>3
<1>9. CASE (r - m) % 2 # 1
  <2>1. E = D
    BY <1>1, <1>2, <1>4, <1>9 DEF Against
  <2>2. Met(a, b, box, D) =
          {j \in Diagonals(r, D) :
             m - D <= j /\ j <= m + D /\ UpVector(a, b, box)[D][j] <= DownVector(a, b, box)[D][j]}
    BY <1>1, <1>2, <1>9 DEF Met
  <2>3. (r - D) - (m - D) = 2 * (-q) /\ -q \in Int
    BY <1>3, <1>6, <2>1
  <2>4. \A j \in Diagonals(r, D) : j \in Diagonals(m, D) <=> m - D <= j /\ j <= m + D
    <3>1. D \in Int
      OBVIOUS
    <3> QED
      BY ONLY <1>3, <2>3, <3>1, SharedDiagonals, Zenon
  <2> QED
    BY <1>1, <1>2, <1>4, <2>1, <2>2, <2>4
<1> QED
  BY <1>8, <1>9

(* A box that is not empty and that nothing can be taken off.              *)
IsStripped(a, b, box) ==
  /\ IsBox(box) /\ box.lowerA < box.upperA /\ box.lowerB < box.upperB
  /\ ~ Equal(a, b, box.lowerA, box.lowerB)
  /\ ~ Equal(a, b, box.upperA - 1, box.upperB - 1)

(* Where the forward search has left the box, it is past the diagonals of  *)
(* the reverse one.                                                        *)
KeepsOff(box, D, f) ==
  \A k \in Diagonals(DownK(box), D) :
    /\ f[k] - k >= box.upperB => k <= UpK(box) - D - 1
    /\ f[k] >= box.upperA => k >= UpK(box) + D + 1

(* The reverse round that is met, if there is one.                         *)
ReverseIsBefore(box, E, g) ==
  \A k \in Diagonals(UpK(box), E) : g[k] \in Int /\ g[k] <= box.upperA /\ g[k] - k <= box.upperB

(* As long as they have not met.                                           *)
LEMMA NotMetKeepsOff ==
  ASSUME NEW a, NEW b, NEW box, IsBox(box), NEW D \in 0 .. MaxD(box),
         NEW f, f = DownVector(a, b, box)[D], Met(a, b, box, D) = {}
  PROVE  KeepsOff(box, D, f)
<1>1. PICK m : m = DownK(box)
  OBVIOUS
<1>2. PICK r : r = UpK(box)
  OBVIOUS
<1>3. m \in Int /\ r \in Int /\ box.upperA - r = box.upperB
  BY <1>1, <1>2 DEF IsBox, DownK, UpK
<1>4. PICK E : E = Against(box, D)
  OBVIOUS
<1>5. D \in Nat /\ D \in Int
  OBVIOUS
<1>6. E \in {D - 1, D} /\ E \in Int
  BY <1>4, <1>5, AgainstFacts
<1>7. PICK q \in Int : (m - D) - (r - E) = 2 * q
  BY <1>1, <1>2, <1>4, <1>5, AgainstFacts
<1>8. \A k \in Diagonals(m, D) : /\ k \in Int /\ m - D <= k /\ k <= m + D
                                 /\ k # r - E - 1 /\ k # r + E + 1
                                 /\ k \in Diagonals(r, E) <=> r - E <= k /\ k <= r + E
  BY ONLY <1>3, <1>5, <1>6, <1>7, SharedDiagonals, Zenon
<1>9. PICK g : g = UpVector(a, b, box)[E]
  OBVIOUS
<1>10. ForwardReach(box, D, f)
  BY RoundsReach
<1>11. \A k \in Diagonals(r, E) : g[k] \in Int /\ g[k] <= box.upperA /\ g[k] - k <= box.upperB
  <2>1. CASE E < 0
    <3>1. Diagonals(r, E) = {}
      BY <1>6, <2>1 DEF Diagonals
    <3> QED
      BY <3>1
  <2>2. CASE E >= 0
    <3>1. E \in 0 .. MaxD(box)
      <4>1. MaxD(box) \in Nat
        BY MaxDFacts
      <4> QED
        BY <1>5, <1>6, <2>2, <4>1
    <3>2. ReverseReach(box, E, g)
      BY <1>9, <3>1, RoundsReach
    <3> QED
      BY <1>2, <3>2 DEF ReverseReach
  <2> QED
    BY <1>6, <2>1, <2>2
<1>12. \A k \in Diagonals(m, D) : k \in Diagonals(r, E) => ~ (g[k] <= f[k])
  BY <1>1, <1>2, <1>4, <1>5, <1>9, MetIs
<1> SUFFICES ASSUME NEW k \in Diagonals(m, D)
             PROVE  /\ f[k] - k >= box.upperB => k <= r - D - 1
                    /\ f[k] >= box.upperA => k >= r + D + 1
  BY <1>1, <1>2 DEF KeepsOff
<1>13. /\ f[k] \in Int /\ f[k] <= box.upperA + D /\ f[k] - k <= box.upperB + D
       /\ k \in Int /\ k # r - E - 1 /\ k # r + E + 1
  BY <1>1, <1>8, <1>10 DEF ForwardReach
<1>14. CASE k \in Diagonals(r, E)
  <2>1. g[k] \in Int /\ g[k] <= box.upperA /\ g[k] - k <= box.upperB /\ ~ (g[k] <= f[k])
    BY <1>11, <1>12, <1>14
  <2> QED
    BY <1>13, <2>1 DEF IsBox
<1>15. CASE k \notin Diagonals(r, E)
  <2>1. k < r - E \/ k > r + E
    BY <1>6, <1>8, <1>13, <1>15, <1>3
  <2>2. box.upperA \in Int /\ box.upperB \in Int
    BY DEF IsBox
  <2> QED
    BY <1>3, <1>5, <1>6, <1>13, <2>1, <2>2
<1> QED
  BY <1>14, <1>15

(* The first round never meets.                                            *)
LEMMA FirstRoundNotMet ==
  ASSUME NEW a, NEW b, NEW box, IsStripped(a, b, box)
  PROVE  /\ Met(a, b, box, 0) = {}
         /\ DownVector(a, b, box)[0][DownK(box)] = box.lowerA
<1>1. PICK m : m = DownK(box)
  OBVIOUS
<1>2. PICK r : r = UpK(box)
  OBVIOUS
<1>3. IsBox(box) /\ m \in Int /\ r \in Int
  BY <1>1, <1>2 DEF IsStripped, IsBox, DownK, UpK
<1>4. CommonAfter(a, b, box, box.lowerA, box.lowerB) = 0
  <2>1. PICK n : n = CommonAfter(a, b, box, box.lowerA, box.lowerB)
    OBVIOUS
  <2>2. n \in Nat /\ \A j \in 0 .. n - 1 : Equal(a, b, box.lowerA + j, box.lowerB + j)
    BY <1>3, <2>1, CommonAfterFacts DEF IsBox
  <2>3. box.lowerA + 0 = box.lowerA /\ box.lowerB + 0 = box.lowerB
    BY <1>3 DEF IsBox
  <2>4. n # 0 => 0 \in 0 .. n - 1
    BY <2>2
  <2>5. n = 0
    BY <2>2, <2>3, <2>4 DEF IsStripped
  <2> QED
    BY <2>1, <2>5
<1>5. CommonBefore(a, b, box, box.upperA, box.upperB) = 0
  <2>1. PICK n : n = CommonBefore(a, b, box, box.upperA, box.upperB)
    OBVIOUS
  <2>2. n \in Nat /\ \A j \in 1 .. n : Equal(a, b, box.upperA - j, box.upperB - j)
    BY <1>3, <2>1, CommonBeforeFacts DEF IsBox
  <2>3. n # 0 => 1 \in 1 .. n
    BY <2>2
  <2>4. n = 0
    BY <2>2, <2>3 DEF IsStripped
  <2> QED
    BY <2>1, <2>4
<1>6. DownVector(a, b, box)[0][m] = box.lowerA /\ UpVector(a, b, box)[0][r] = box.upperA
  BY <1>1, <1>2, <1>3, <1>4, <1>5, RoundsReach DEF IsBox
<1>7. ASSUME NEW k \in Met(a, b, box, 0)
      PROVE  FALSE
  <2>1. /\ k \in Diagonals(m, 0) /\ k \in Diagonals(r, Against(box, 0))
        /\ UpVector(a, b, box)[Against(box, 0)][k] <= DownVector(a, b, box)[0][k]
    BY <1>1, <1>2, <1>3, MetIs
  <2>2. Against(box, 0) \in {0 - 1, 0}
    BY <1>3, AgainstFacts
  <2>3. Against(box, 0) = 0
    <3>1. Diagonals(r, 0 - 1) = {}
      BY DEF Diagonals
    <3> QED
      BY <2>1, <2>2, <3>1
  <2>4. k = m /\ k = r
    <3>1. ASSUME NEW x \in Int
          PROVE  Diagonals(x, 0) = {x}
      BY DEF Diagonals
    <3> QED
      BY <1>3, <2>1, <2>3, <3>1
  <2>5. box.upperA <= box.lowerA
    BY <1>6, <2>1, <2>3, <2>4
  <2> QED
    BY <2>5 DEF IsStripped, IsBox
<1> QED
  BY <1>1, <1>6, <1>7

(* Where they meet is in the box, and in none of its two corners.          *)
LEMMA MeetsInside ==
  ASSUME NEW a, NEW b, NEW box, IsStripped(a, b, box), NEW D \in 1 .. MaxD(box),
         Met(a, b, box, D - 1) = {}, NEW k \in Met(a, b, box, D),
         NEW x, x = DownVector(a, b, box)[D][k]
  PROVE  /\ k \in Int /\ x \in Int
         /\ box.lowerA <= x /\ x <= box.upperA /\ box.lowerB <= x - k /\ x - k <= box.upperB
         /\ ~ (x = box.lowerA /\ x - k = box.lowerB)
         /\ ~ (x = box.upperA /\ x - k = box.upperB)
<1>1. PICK m : m = DownK(box)
  OBVIOUS
<1>2. PICK r : r = UpK(box)
  OBVIOUS
<1>3. /\ IsBox(box) /\ m \in Int /\ r \in Int
      /\ box.upperA - r = box.upperB /\ box.lowerA - m = box.lowerB
  BY <1>1, <1>2 DEF IsStripped, IsBox, DownK, UpK
<1>4. /\ D \in Nat /\ D > 0 /\ D - 1 \in Nat /\ D \in 0 .. MaxD(box) /\ D - 1 \in 0 .. MaxD(box)
  <2>1. MaxD(box) \in Nat
    BY <1>3, MaxDFacts
  <2> QED
    BY <2>1
<1>5. PICK E : E = Against(box, D)
  OBVIOUS
<1>6. E \in {D - 1, D} /\ E \in Int
  BY <1>3, <1>4, <1>5, AgainstFacts
<1>7. k \in Diagonals(m, D) /\ k \in Diagonals(r, E)
  BY <1>1, <1>2, <1>3, <1>4, <1>5, MetIs
<1>8. k \in Int /\ r - D <= k /\ k <= r + D
  <2>1. PICK i \in 0 .. E : k = r - E + 2 * i
    BY <1>7 DEF Diagonals
  <2> QED
    BY <1>3, <1>4, <1>6, <2>1
<1>9. PICK f : f = DownVector(a, b, box)[D]
  OBVIOUS
<1>10. PICK d : d = DownVector(a, b, box)[D - 1]
  OBVIOUS
<1>11. ForwardReach(box, D, f) /\ ForwardReach(box, D - 1, d) /\ ForwardStep(a, b, box, D, d, f)
  BY <1>3, <1>4, <1>9, <1>10, RoundsReach
<1>12. KeepsOff(box, D - 1, d)
  BY <1>3, <1>4, <1>10, NotMetKeepsOff
<1>13. \A j \in Diagonals(m, D - 1) :
         /\ d[j] \in Int
         /\ d[j] - j >= box.upperB => j <= r - D
         /\ d[j] >= box.upperA => j >= r + D
         /\ d[j] - j > box.upperB => j # m + (D - 1) /\ d[j + 2] >= d[j] + 1
         /\ d[j] > box.upperA => j # m - (D - 1) /\ d[j - 2] >= d[j] - 1
  <2> TAKE j \in Diagonals(m, D - 1)
  <2>1. /\ d[j] \in Int
        /\ d[j] - j >= box.upperB => j <= r - (D - 1) - 1
        /\ d[j] >= box.upperA => j >= r + (D - 1) + 1
        /\ d[j] - j > box.upperB => j # m + (D - 1) /\ d[j + 2] >= d[j] + 1
        /\ d[j] > box.upperA => j # m - (D - 1) /\ d[j - 2] >= d[j] - 1
    BY <1>1, <1>2, <1>11, <1>12 DEF ForwardReach, KeepsOff
  <2>2. r - (D - 1) - 1 = r - D /\ r + (D - 1) + 1 = r + D
    BY <1>3, <1>4
  <2> QED
    BY <2>1, <2>2
<1>14. /\ x \in Int /\ box.lowerA <= x /\ box.lowerB <= x - k
       /\ box.lowerA + box.lowerB + D <= x + (x - k)
  BY <1>1, <1>7, <1>9, <1>11 DEF ForwardReach
<1>15. PICK s \in Int, n \in Nat :
         /\ x = s + n
         /\ n > 0 => x <= box.upperA /\ x - k <= box.upperB /\ Equal(a, b, x - 1, x - k - 1)
         /\ k # m + D => d[k + 1] <= s
         /\ k # m - D => d[k - 1] + 1 <= s
         /\ \/ k # m + D /\ s = d[k + 1]
            \/ k # m - D /\ s = d[k - 1] + 1
  BY <1>1, <1>7, <1>9, <1>11 DEF ForwardStep
<1>16. /\ k # m + D => k + 1 \in Diagonals(m, D - 1) /\ (k + 1) - 2 = k - 1
       /\ k # m - D => k - 1 \in Diagonals(m, D - 1) /\ (k - 1) + 2 = k + 1
  <2>1. /\ k # m + D => k + 1 \in Diagonals(m, D - 1)
        /\ k # m - D => k - 1 \in Diagonals(m, D - 1)
    BY <1>3, <1>4, <1>7, DiagonalFacts
  <2> QED
    BY <1>8, <2>1
<1>17. ASSUME k # m + D, s = d[k + 1]
       PROVE  /\ d[k + 1] - (k + 1) < box.upperB
              /\ d[k + 1] > box.upperA => k - 1 >= r + D
  <2>1. /\ d[k + 1] \in Int
        /\ d[k + 1] - (k + 1) >= box.upperB => k + 1 <= r - D
        /\ d[k + 1] > box.upperA => k + 1 # m - (D - 1) /\ d[k - 1] >= d[k + 1] - 1
    BY <1>13, <1>16, <1>17
  <2>2. d[k + 1] > box.upperA => k # m - D
    BY <1>3, <1>4, <1>8, <2>1
  <2>3. d[k + 1] > box.upperA => d[k - 1] \in Int /\ (d[k - 1] >= box.upperA => k - 1 >= r + D)
    BY <1>13, <1>16, <2>2
  <2> QED
    BY <1>3, <1>4, <1>8, <2>1, <2>3 DEF IsBox
<1>18. ASSUME k # m - D, s = d[k - 1] + 1
       PROVE  /\ d[k - 1] < box.upperA
              /\ d[k - 1] - (k - 1) > box.upperB => k + 1 <= r - D
  <2>1. /\ d[k - 1] \in Int
        /\ d[k - 1] >= box.upperA => k - 1 >= r + D
        /\ d[k - 1] - (k - 1) > box.upperB => k - 1 # m + (D - 1) /\ d[k + 1] >= d[k - 1] + 1
    BY <1>13, <1>16, <1>18
  <2>2. d[k - 1] - (k - 1) > box.upperB => k # m + D
    BY <1>3, <1>4, <1>8, <2>1
  <2>3. d[k - 1] - (k - 1) > box.upperB =>
          d[k + 1] \in Int /\ (d[k + 1] - (k + 1) >= box.upperB => k + 1 <= r - D)
    BY <1>13, <1>16, <2>2
  <2> QED
    BY <1>3, <1>4, <1>8, <2>1, <2>3 DEF IsBox
<1>19. x <= box.upperA /\ x - k <= box.upperB
  <2>1. CASE n > 0
    BY <1>15, <2>1
  <2>2. CASE n = 0 /\ k # m + D /\ s = d[k + 1]
    BY <1>3, <1>4, <1>8, <1>15, <1>17, <2>2 DEF IsBox
  <2>3. CASE n = 0 /\ k # m - D /\ s = d[k - 1] + 1
    <3>1. d[k - 1] \in Int
      BY <1>13, <1>16, <2>3
    <3> QED
      BY <1>3, <1>4, <1>8, <1>15, <1>18, <2>3, <3>1 DEF IsBox
  <2> QED
    BY <1>15, <2>1, <2>2, <2>3
<1>20. ~ (x = box.lowerA /\ x - k = box.lowerB)
  BY <1>3, <1>4, <1>8, <1>14 DEF IsBox
<1>21. ASSUME x = box.upperA, x - k = box.upperB
       PROVE  FALSE
  <2>1. n = 0
    <3>1. n > 0 => Equal(a, b, box.upperA - 1, box.upperB - 1)
      BY <1>15, <1>21
    <3> QED
      BY <3>1 DEF IsStripped
  <2>2. x = s /\ k = r
    BY <1>3, <1>8, <1>14, <1>15, <1>21, <2>1 DEF IsBox
  <2>3. D = 1 => Diagonals(m, D - 1) = {m} /\ d[m] = box.lowerA
    <3>1. Diagonals(m, 0) = {m}
      BY <1>3 DEF Diagonals
    <3> QED
      BY <1>1, <1>10, <3>1, FirstRoundNotMet
  <2>4. CASE k # m + D /\ s = d[k + 1]
    <3>1. d[k + 1] \in Int /\ (d[k + 1] >= box.upperA => k + 1 >= r + D) /\ k + 1 \in Diagonals(m, D - 1)
      BY <1>13, <1>16, <2>4
    <3>2. D = 1
      BY <1>3, <1>4, <1>21, <2>2, <2>4, <3>1 DEF IsBox
    <3>3. box.upperA = box.lowerA
      BY <1>21, <2>2, <2>3, <2>4, <3>1, <3>2
    <3> QED
      BY <3>3 DEF IsStripped, IsBox
  <2>5. CASE k # m - D /\ s = d[k - 1] + 1
    <3>1. /\ d[k - 1] \in Int /\ (d[k - 1] - (k - 1) >= box.upperB => k - 1 <= r - D)
          /\ k - 1 \in Diagonals(m, D - 1)
      BY <1>13, <1>16, <2>5
    <3>2. d[k - 1] - (k - 1) = box.upperB
      BY <1>3, <1>8, <1>21, <2>2, <2>5, <3>1 DEF IsBox
    <3>3. D = 1
      BY <1>3, <1>4, <1>8, <2>2, <3>1, <3>2 DEF IsBox
    <3>4. k - 1 = m /\ d[k - 1] = box.lowerA
      BY <2>3, <3>1, <3>3
    <3>5. box.lowerB = box.upperB
      BY <1>3, <3>2, <3>4
    <3> QED
      BY <3>5 DEF IsStripped, IsBox
  <2> QED
    BY <1>15, <2>4, <2>5
<1> QED
  BY <1>8, <1>14, <1>19, <1>20, <1>21

(* And they do meet.                                                       *)
LEMMA SearchesMeet ==
  ASSUME NEW a, NEW b, NEW box, IsBox(box)
  PROVE  Met(a, b, box, MaxD(box)) # {}
<1>1. PICK m : m = DownK(box)
  OBVIOUS
<1>2. PICK r : r = UpK(box)
  OBVIOUS
<1>3. PICK D : D = MaxD(box)
  OBVIOUS
<1>4. /\ D \in Nat /\ D \in Int /\ D >= 1 /\ D \in 0 .. MaxD(box)
      /\ 2 * D > (box.upperA - box.lowerA) + (box.upperB - box.lowerB)
  BY <1>3, MaxDFacts
<1>5. m \in Int /\ r \in Int /\ m - r = (box.upperB - box.lowerB) - (box.upperA - box.lowerA)
  BY <1>1, <1>2 DEF IsBox, DownK, UpK
<1>6. PICK E : E = Against(box, D)
  OBVIOUS
<1>7. E \in {D - 1, D} /\ E \in Nat
  BY <1>4, <1>6, AgainstFacts
<1>8. PICK q \in Int : (m - D) - (r - E) = 2 * q
  BY <1>1, <1>2, <1>4, <1>6, AgainstFacts
<1>9. \E k \in Diagonals(m, D) : k \in Diagonals(r, E)
  <2>1. m - D <= r + E /\ r - E <= m + D
    BY <1>4, <1>5, <1>7 DEF IsBox
  <2>2. CASE r - E <= m - D
    <3>1. m - D \in Diagonals(m, D)
      BY <1>4, <1>5, DiagonalFacts
    <3>2. E \in Int
      BY <1>7
    <3>3. \A k \in Diagonals(m, D) : k \in Diagonals(r, E) <=> r - E <= k /\ k <= r + E
      BY ONLY <1>4, <1>5, <1>8, <3>2, SharedDiagonals, Zenon
    <3> QED
      BY <2>1, <2>2, <3>1, <3>3
  <2>3. CASE m - D <= r - E
    <3>1. r - E \in Diagonals(r, E)
      BY <1>5, <1>7, DiagonalFacts
    <3>2. (r - E) - (m - D) = 2 * (0 - q) /\ 0 - q \in Int /\ E \in Int
      BY <1>4, <1>5, <1>7, <1>8
    <3>3. \A k \in Diagonals(r, E) : k \in Diagonals(m, D) <=> m - D <= k /\ k <= m + D
      BY ONLY <1>4, <1>5, <3>2, SharedDiagonals, ZenonT(30)
    <3> QED
      BY <2>1, <2>3, <3>1, <3>3
  <2> QED
    BY <1>4, <1>5, <1>7, <2>2, <2>3
<1>10. PICK k \in Diagonals(m, D) : k \in Diagonals(r, E)
  BY <1>9
<1>11. PICK f : f = DownVector(a, b, box)[D]
  OBVIOUS
<1>12. PICK g : g = UpVector(a, b, box)[E]
  OBVIOUS
<1>13. k \in Int /\ f[k] \in Int /\ box.lowerA + box.lowerB + D <= f[k] + (f[k] - k)
  <2>1. ForwardReach(box, D, f)
    BY <1>4, <1>11, RoundsReach
  <2>2. k \in Int
    BY <1>4, <1>5, DiagonalFacts
  <2> QED
    BY <1>1, <2>1, <2>2 DEF ForwardReach
<1>14. g[k] \in Int /\ g[k] + (g[k] - k) <= box.upperA + box.upperB - E
  <2>1. E \in 0 .. MaxD(box)
    BY <1>3, <1>4, <1>7
  <2>2. ReverseReach(box, E, g)
    BY <1>12, <2>1, RoundsReach
  <2> QED
    BY <1>2, <1>10, <2>2 DEF ReverseReach
<1>15. g[k] <= f[k]
  BY <1>4, <1>7, <1>13, <1>14 DEF IsBox
<1>16. k \in Met(a, b, box, D)
  BY <1>1, <1>2, <1>4, <1>6, <1>10, <1>11, <1>12, <1>15, MetIs
<1> QED
  BY <1>3, <1>16

(* The middle snake is in the box, and in none of its two corners: both    *)
(* parts it is split in are smaller.                                       *)
THEOREM MiddleSnakeFacts ==
  ASSUME NEW a, NEW b, NEW box, IsStripped(a, b, box),
         NEW snake, snake = MiddleSnake(a, b, box)
  PROVE  /\ snake.x \in Int /\ box.lowerA <= snake.x /\ snake.x <= box.upperA
         /\ snake.y \in Int /\ box.lowerB <= snake.y /\ snake.y <= box.upperB
         /\ ~ (snake.x = box.lowerA /\ snake.y = box.lowerB)
         /\ ~ (snake.x = box.upperA /\ snake.y = box.upperB)
<1> DEFINE First(D) == /\ Met(a, b, box, D) # {}
                       /\ \A E \in 0 .. D - 1 : Met(a, b, box, E) = {}
           D0 == CHOOSE D \in 0 .. MaxD(box) : First(D)
           k0 == Min(Met(a, b, box, D0))
           x0 == DownVector(a, b, box)[D0][k0]
<1>1. snake = [x |-> x0, y |-> x0 - k0]
  BY DEF MiddleSnake, MeetingPoint, FirstMeeting, PointOn
<1>2. IsBox(box) /\ MaxD(box) \in Nat
  BY MaxDFacts DEF IsStripped
<1>3. \E D \in 0 .. MaxD(box) : First(D)
  <2> DEFINE S == {D \in 0 .. MaxD(box) : Met(a, b, box, D) # {}}
  <2>1. MaxD(box) \in S
    BY <1>2, SearchesMeet
  <2>2. S \in SUBSET Nat
    OBVIOUS
  <2>3. PICK D \in S : \A E \in S : D <= E
    <3> HIDE DEF S
    <3> QED
      BY <2>1, <2>2, LeastNumber
  <2>4. \A E \in 0 .. D - 1 : E \in 0 .. MaxD(box) /\ ~ (D <= E)
    BY <1>2
  <2>5. \A E \in 0 .. D - 1 : Met(a, b, box, E) = {}
    BY <2>3, <2>4
  <2>6. D \in 0 .. MaxD(box) /\ Met(a, b, box, D) # {}
    OBVIOUS
  <2> HIDE DEF S
  <2> QED
    BY <2>5, <2>6
<1>4. D0 \in 0 .. MaxD(box) /\ First(D0)
  <2> HIDE DEF First
  <2> QED
    BY <1>3
<1>5. PICK D : D = D0
  OBVIOUS
<1>6. D \in 0 .. MaxD(box) /\ Met(a, b, box, D) # {} /\ \A E \in 0 .. D - 1 : Met(a, b, box, E) = {}
  <2> HIDE DEF D0
  <2> QED
    BY <1>4, <1>5
<1>7. D # 0
  BY <1>6, FirstRoundNotMet
<1>8. D \in 1 .. MaxD(box) /\ D - 1 \in 0 .. D - 1 /\ D \in Nat
  BY <1>2, <1>6, <1>7
<1>9. \A k \in Met(a, b, box, D) : k \in Int /\ DownK(box) - D <= k
  <2>1. DownK(box) \in Int
    BY <1>2 DEF IsBox, DownK
  <2>2. \A k \in Met(a, b, box, D) : k \in Diagonals(DownK(box), D)
    BY <1>2, <1>8, MetIs
  <2> QED
    BY <1>8, <2>1, <2>2, DiagonalFacts
<1>10. PICK k : k = Min(Met(a, b, box, D))
  OBVIOUS
<1>11. k \in Met(a, b, box, D)
  <2>1. DownK(box) - D \in Int
    BY <1>2, <1>8 DEF IsBox, DownK
  <2>2. Met(a, b, box, D) \in SUBSET Int
    BY <1>9
  <2> QED
    BY <1>6, <1>9, <1>10, <2>1, <2>2, LeastInteger
<1>12. PICK x : x = DownVector(a, b, box)[D][k]
  OBVIOUS
<1>13. /\ k \in Int /\ x \in Int
       /\ box.lowerA <= x /\ x <= box.upperA /\ box.lowerB <= x - k /\ x - k <= box.upperB
       /\ ~ (x = box.lowerA /\ x - k = box.lowerB)
       /\ ~ (x = box.upperA /\ x - k = box.upperB)
  BY <1>6, <1>8, <1>11, <1>12, MeetsInside
<1>14. snake = [x |-> x, y |-> x - k]
  <2> HIDE DEF D0
  <2> QED
    BY <1>1, <1>5, <1>10, <1>12
<1>15. snake.x = x /\ snake.y = x - k /\ x - k \in Int
  BY <1>13, <1>14
<1> QED
  BY <1>13, <1>15

-----------------------------------------------------------------------------
(* The ranges that were modified *)

(* The boxes of two arrays are boxes.                                      *)
LEMMA BoxesAreBoxes ==
  ASSUME NEW a, NEW b, Len(a) \in Nat, Len(b) \in Nat, NEW box
  PROVE  box \in Boxes(a, b) <=>
           /\ box \in [lowerA : Int, upperA : Int, lowerB : Int, upperB : Int]
           /\ IsBox(box)
           /\ 0 <= box.lowerA /\ box.upperA <= Len(a)
           /\ 0 <= box.lowerB /\ box.upperB <= Len(b)
  BY DEF Boxes, IsBox

(* A box with other bounds.                                                *)
LEMMA BoxExcept ==
  ASSUME NEW box \in [lowerA : Int, upperA : Int, lowerB : Int, upperB : Int],
         NEW x \in Int, NEW y \in Int, NEW c
  PROVE  /\ c = [box EXCEPT !.lowerA = x, !.lowerB = y] =>
              /\ c \in [lowerA : Int, upperA : Int, lowerB : Int, upperB : Int]
              /\ c.lowerA = x /\ c.upperA = box.upperA /\ c.lowerB = y /\ c.upperB = box.upperB
         /\ c = [box EXCEPT !.upperA = x, !.upperB = y] =>
              /\ c \in [lowerA : Int, upperA : Int, lowerB : Int, upperB : Int]
              /\ c.lowerA = box.lowerA /\ c.upperA = x /\ c.lowerB = box.lowerB /\ c.upperB = y
  OBVIOUS

(* What is left of a box when what both arrays begin and end with is taken *)
(* off.                                                                    *)
LEMMA InnerFacts ==
  ASSUME NEW a, NEW b, Len(a) \in Nat, Len(b) \in Nat, NEW box \in Boxes(a, b),
         NEW inner, inner = Inner(a, b, box)
  PROVE  /\ inner \in Boxes(a, b)
         /\ box.lowerA <= inner.lowerA /\ inner.upperA <= box.upperA
         /\ box.lowerB <= inner.lowerB /\ inner.upperB <= box.upperB
         /\ inner.lowerA < inner.upperA /\ inner.lowerB < inner.upperB => IsStripped(a, b, inner)
<1>1. PICK front : front = CommonAfter(a, b, box, box.lowerA, box.lowerB)
  OBVIOUS
<1>2. PICK rest : rest = [box EXCEPT !.lowerA = @ + front, !.lowerB = @ + front]
  OBVIOUS
<1>3. PICK back : back = CommonBefore(a, b, rest, rest.upperA, rest.upperB)
  OBVIOUS
<1>4. inner = [rest EXCEPT !.upperA = @ - back, !.upperB = @ - back]
  BY <1>1, <1>2, <1>3 DEF Inner
<1>5. /\ box \in [lowerA : Int, upperA : Int, lowerB : Int, upperB : Int]
      /\ IsBox(box)
      /\ 0 <= box.lowerA /\ box.upperA <= Len(a)
      /\ 0 <= box.lowerB /\ box.upperB <= Len(b)
  BY BoxesAreBoxes
<1>6. /\ front \in Nat
      /\ front > 0 => box.lowerA + front <= box.upperA /\ box.lowerB + front <= box.upperB
      /\ box.lowerA + front < box.upperA /\ box.lowerB + front < box.upperB
           => ~ Equal(a, b, box.lowerA + front, box.lowerB + front)
  BY <1>1, <1>5, CommonAfterFacts DEF IsBox
<1>7. /\ rest \in [lowerA : Int, upperA : Int, lowerB : Int, upperB : Int]
      /\ rest.lowerA = box.lowerA + front /\ rest.lowerB = box.lowerB + front
      /\ rest.upperA = box.upperA /\ rest.upperB = box.upperB
  <2>1. PICK x : x = box.lowerA + front
    OBVIOUS
  <2>2. PICK y : y = box.lowerB + front
    OBVIOUS
  <2>3. rest = [box EXCEPT !.lowerA = x, !.lowerB = y]
    BY <1>2, <2>1, <2>2
  <2>4. x \in Int /\ y \in Int
    BY <1>5, <1>6, <2>1, <2>2 DEF IsBox
  <2> QED
    BY <1>5, <2>1, <2>2, <2>3, <2>4, BoxExcept
<1>8. IsBox(rest)
  BY <1>5, <1>6, <1>7 DEF IsBox
<1>9. /\ back \in Nat
      /\ back > 0 => rest.upperA - back >= rest.lowerA /\ rest.upperB - back >= rest.lowerB
      /\ rest.upperA - back > rest.lowerA /\ rest.upperB - back > rest.lowerB
           => ~ Equal(a, b, rest.upperA - (back + 1), rest.upperB - (back + 1))
  BY <1>3, <1>8, CommonBeforeFacts DEF IsBox
<1>10. /\ inner \in [lowerA : Int, upperA : Int, lowerB : Int, upperB : Int]
       /\ inner.lowerA = rest.lowerA /\ inner.lowerB = rest.lowerB
       /\ inner.upperA = rest.upperA - back /\ inner.upperB = rest.upperB - back
  <2>1. PICK x : x = rest.upperA - back
    OBVIOUS
  <2>2. PICK y : y = rest.upperB - back
    OBVIOUS
  <2>3. inner = [rest EXCEPT !.upperA = x, !.upperB = y]
    BY <1>4, <2>1, <2>2
  <2>4. x \in Int /\ y \in Int
    BY <1>8, <1>9, <2>1, <2>2 DEF IsBox
  <2> QED
    BY <1>7, <2>1, <2>2, <2>3, <2>4, BoxExcept, ZenonT(30)
<1>11. IsBox(inner)
  BY <1>8, <1>9, <1>10 DEF IsBox
<1>12. /\ box.lowerA <= inner.lowerA /\ inner.upperA <= box.upperA
       /\ box.lowerB <= inner.lowerB /\ inner.upperB <= box.upperB
  BY <1>5, <1>6, <1>7, <1>9, <1>10, SMTT(30) DEF IsBox
<1>13. inner \in Boxes(a, b)
  <2>1. /\ 0 <= inner.lowerA /\ inner.upperA <= Len(a)
        /\ 0 <= inner.lowerB /\ inner.upperB <= Len(b)
    BY <1>5, <1>11, <1>12 DEF IsBox
  <2> QED
    BY <1>10, <1>11, <2>1, BoxesAreBoxes
<1>14. ASSUME inner.lowerA < inner.upperA, inner.lowerB < inner.upperB
       PROVE  IsStripped(a, b, inner)
  <2>1. box.lowerA + front < box.upperA /\ box.lowerB + front < box.upperB
    <3>1. rest.lowerA < rest.upperA /\ rest.lowerB < rest.upperB
      BY ONLY <1>8, <1>9, <1>10, <1>14 DEF IsBox
    <3> QED
      BY ONLY <1>7, <3>1
  <2>2. ~ Equal(a, b, inner.lowerA, inner.lowerB)
    BY <1>6, <1>7, <1>10, <2>1
  <2>3. rest.upperA - back > rest.lowerA /\ rest.upperB - back > rest.lowerB
    BY <1>8, <1>9, <1>10, <1>14 DEF IsBox
  <2>4. /\ rest.upperA - (back + 1) = inner.upperA - 1
        /\ rest.upperB - (back + 1) = inner.upperB - 1
    BY ONLY <1>8, <1>9, <1>10 DEF IsBox
  <2>5. ~ Equal(a, b, inner.upperA - 1, inner.upperB - 1)
    BY <1>9, <2>3, <2>4
  <2> QED
    BY <1>11, <1>14, <2>2, <2>5 DEF IsStripped
<1> QED
  BY <1>12, <1>13, <1>14

(* The two parts of a box that is split, and how large boxes are.          *)
PartTo(a, b, box) ==
  [Inner(a, b, box) EXCEPT !.upperA = MiddleSnake(a, b, Inner(a, b, box)).x,
                           !.upperB = MiddleSnake(a, b, Inner(a, b, box)).y]

PartFrom(a, b, box) ==
  [Inner(a, b, box) EXCEPT !.lowerA = MiddleSnake(a, b, Inner(a, b, box)).x,
                           !.lowerB = MiddleSnake(a, b, Inner(a, b, box)).y]

IsSplit(a, b, box) ==
  LET inner == Inner(a, b, box)
  IN inner.lowerA < inner.upperA /\ inner.lowerB < inner.upperB

Size(box) == (box.upperA - box.lowerA) + (box.upperB - box.lowerB)

(* Both parts are smaller boxes, the one where the other ends.             *)
LEMMA PartFacts ==
  ASSUME NEW a, NEW b, Len(a) \in Nat, Len(b) \in Nat, NEW box \in Boxes(a, b),
         IsSplit(a, b, box),
         NEW to, to = PartTo(a, b, box), NEW from, from = PartFrom(a, b, box)
  PROVE  /\ to \in Boxes(a, b) /\ from \in Boxes(a, b)
         /\ Size(to) < Size(box) /\ Size(from) < Size(box)
         /\ box.lowerA <= to.lowerA /\ to.upperA = from.lowerA /\ from.upperA <= box.upperA
         /\ box.lowerB <= to.lowerB /\ to.upperB = from.lowerB /\ from.upperB <= box.upperB
<1>1. PICK inner : inner = Inner(a, b, box)
  OBVIOUS
<1>2. PICK snake : snake = MiddleSnake(a, b, inner)
  OBVIOUS
<1>3. /\ inner \in Boxes(a, b)
      /\ box.lowerA <= inner.lowerA /\ inner.upperA <= box.upperA
      /\ box.lowerB <= inner.lowerB /\ inner.upperB <= box.upperB
      /\ IsStripped(a, b, inner)
  BY <1>1, InnerFacts DEF IsSplit
<1>4. /\ snake.x \in Int /\ inner.lowerA <= snake.x /\ snake.x <= inner.upperA
      /\ snake.y \in Int /\ inner.lowerB <= snake.y /\ snake.y <= inner.upperB
      /\ ~ (snake.x = inner.lowerA /\ snake.y = inner.lowerB)
      /\ ~ (snake.x = inner.upperA /\ snake.y = inner.upperB)
  BY <1>2, <1>3, MiddleSnakeFacts
<1>5. PICK x : x = snake.x
  OBVIOUS
<1>6. PICK y : y = snake.y
  OBVIOUS
<1>7. /\ inner \in [lowerA : Int, upperA : Int, lowerB : Int, upperB : Int]
      /\ IsBox(inner)
      /\ 0 <= inner.lowerA /\ inner.upperA <= Len(a)
      /\ 0 <= inner.lowerB /\ inner.upperB <= Len(b)
  BY <1>3, BoxesAreBoxes
<1>8. IsBox(box)
  BY BoxesAreBoxes
<1>9. to = [inner EXCEPT !.upperA = x, !.upperB = y]
  BY <1>1, <1>2, <1>5, <1>6 DEF PartTo
<1>10. from = [inner EXCEPT !.lowerA = x, !.lowerB = y]
  BY <1>1, <1>2, <1>5, <1>6 DEF PartFrom
<1>11. /\ to \in [lowerA : Int, upperA : Int, lowerB : Int, upperB : Int]
       /\ to.lowerA = inner.lowerA /\ to.upperA = x
       /\ to.lowerB = inner.lowerB /\ to.upperB = y
  BY <1>4, <1>5, <1>6, <1>7, <1>9
<1>12. /\ from \in [lowerA : Int, upperA : Int, lowerB : Int, upperB : Int]
       /\ from.lowerA = x /\ from.upperA = inner.upperA
       /\ from.lowerB = y /\ from.upperB = inner.upperB
  BY <1>4, <1>5, <1>6, <1>7, <1>10
<1>13. /\ x \in Int /\ inner.lowerA <= x /\ x <= inner.upperA
       /\ y \in Int /\ inner.lowerB <= y /\ y <= inner.upperB
       /\ ~ (x = inner.lowerA /\ y = inner.lowerB)
       /\ ~ (x = inner.upperA /\ y = inner.upperB)
  BY <1>4, <1>5, <1>6
<1>14. to \in Boxes(a, b)
  <2>1. IsBox(to) /\ 0 <= to.lowerA /\ to.upperA <= Len(a) /\ 0 <= to.lowerB /\ to.upperB <= Len(b)
    BY <1>7, <1>11, <1>13 DEF IsBox
  <2> QED
    BY <1>11, <2>1, BoxesAreBoxes
<1>15. from \in Boxes(a, b)
  <2>1. /\ IsBox(from) /\ 0 <= from.lowerA /\ from.upperA <= Len(a)
        /\ 0 <= from.lowerB /\ from.upperB <= Len(b)
    BY <1>7, <1>12, <1>13 DEF IsBox
  <2> QED
    BY <1>12, <2>1, BoxesAreBoxes
<1>16. Size(to) < Size(box) /\ Size(from) < Size(box)
  <2>1. /\ box.lowerA <= inner.lowerA /\ inner.upperA <= box.upperA
        /\ box.lowerB <= inner.lowerB /\ inner.upperB <= box.upperB
    BY <1>3
  <2>2. Size(inner) <= Size(box) /\ Size(inner) \in Int /\ Size(box) \in Int
    <3>1. /\ inner.lowerA \in Int /\ inner.upperA \in Int /\ inner.lowerB \in Int /\ inner.upperB \in Int
          /\ box.lowerA \in Int /\ box.upperA \in Int /\ box.lowerB \in Int /\ box.upperB \in Int
      BY <1>7, <1>8 DEF IsBox
    <3>2. /\ inner.upperA - inner.lowerA <= box.upperA - box.lowerA
          /\ inner.upperB - inner.lowerB <= box.upperB - box.lowerB
      BY ONLY <2>1, <3>1
    <3> QED
      BY ONLY <3>1, <3>2 DEF Size
  <2>3. Size(to) = (x - inner.lowerA) + (y - inner.lowerB)
    BY <1>11 DEF Size
  <2>4. Size(from) = (inner.upperA - x) + (inner.upperB - y)
    BY <1>12 DEF Size
  <2>5. Size(to) \in Int /\ Size(to) < Size(inner)
    BY ONLY <1>7, <1>13, <2>3, SMTT(30) DEF IsBox, Size
  <2>6. Size(from) \in Int /\ Size(from) < Size(inner)
    BY ONLY <1>7, <1>13, <2>4, SMTT(30) DEF IsBox, Size
  <2> QED
    BY <2>2, <2>5, <2>6
<1> QED
  BY <1>3, <1>11, <1>12, <1>14, <1>15, <1>16

(* The ranges of a box, of those of its parts                              *)
RangesOfBox(a, b, box, to, from) ==
  LET inner == Inner(a, b, box)
      sizeA == inner.upperA - inner.lowerA
      sizeB == inner.upperB - inner.lowerB
  IN CASE sizeA = 0 /\ sizeB = 0 -> Ranges(<< >>, << >>)
       [] sizeA = 0 /\ sizeB > 0 -> Ranges(<< >>, <<Span(inner.lowerB, sizeB)>>)
       [] sizeB = 0 /\ sizeA > 0 -> Ranges(<<Span(inner.lowerA, sizeA)>>, << >>)
       [] OTHER -> Ranges(to.A \o from.A, to.B \o from.B)

AreRanges(a, b, f) ==
  f = [box \in Boxes(a, b) |->
         RangesOfBox(a, b, box, f[PartTo(a, b, box)], f[PartFrom(a, b, box)])]

AllRanges(a, b) == CHOOSE f : AreRanges(a, b, f)

(* LCS is of the box of both arrays.                                       *)
LEMMA LCSIs ==
  ASSUME NEW a, NEW b
  PROVE  LCS(a, b) = AllRanges(a, b)[Box(0, Len(a), 0, Len(b))]
  BY DEF LCS, RangesOfInner, RangesOfParts, AllRanges, AreRanges, RangesOfBox, PartTo, PartFrom

SizeA(a, b, box) == Inner(a, b, box).upperA - Inner(a, b, box).lowerA

SizeB(a, b, box) == Inner(a, b, box).upperB - Inner(a, b, box).lowerB

(* A box is split when parts of both arrays are left of it.                *)
LEMMA SplitSizes ==
  ASSUME NEW a, NEW b, Len(a) \in Nat, Len(b) \in Nat, NEW box \in Boxes(a, b)
  PROVE  /\ SizeA(a, b, box) \in Nat /\ SizeB(a, b, box) \in Nat
         /\ IsSplit(a, b, box) <=> SizeA(a, b, box) > 0 /\ SizeB(a, b, box) > 0
<1>1. PICK inner : inner = Inner(a, b, box)
  OBVIOUS
<1>2. IsBox(inner)
  BY <1>1, InnerFacts, BoxesAreBoxes
<1> QED
  BY <1>1, <1>2 DEF IsSplit, IsBox, SizeA, SizeB

(* What becomes of it then, and else.                                      *)
LEMMA RangesOfBoxCases ==
  ASSUME NEW a, NEW b, Len(a) \in Nat, Len(b) \in Nat, NEW box \in Boxes(a, b), NEW x, NEW y
  PROVE  /\ IsSplit(a, b, box) =>
              RangesOfBox(a, b, box, x, y) = Ranges(x.A \o y.A, x.B \o y.B)
         /\ SizeA(a, b, box) = 0 /\ SizeB(a, b, box) = 0 =>
              RangesOfBox(a, b, box, x, y) = Ranges(<< >>, << >>)
         /\ SizeA(a, b, box) = 0 /\ SizeB(a, b, box) > 0 =>
              RangesOfBox(a, b, box, x, y) =
                Ranges(<< >>, <<Span(Inner(a, b, box).lowerB, SizeB(a, b, box))>>)
         /\ SizeB(a, b, box) = 0 /\ SizeA(a, b, box) > 0 =>
              RangesOfBox(a, b, box, x, y) =
                Ranges(<<Span(Inner(a, b, box).lowerA, SizeA(a, b, box))>>, << >>)
<1>1. PICK inner : inner = Inner(a, b, box)
  OBVIOUS
<1>2. PICK sizeA : sizeA = SizeA(a, b, box)
  OBVIOUS
<1>3. PICK sizeB : sizeB = SizeB(a, b, box)
  OBVIOUS
<1>4. /\ sizeA \in Nat /\ sizeB \in Nat
      /\ IsSplit(a, b, box) <=> sizeA > 0 /\ sizeB > 0
  BY <1>2, <1>3, SplitSizes
<1>5. RangesOfBox(a, b, box, x, y) =
        CASE sizeA = 0 /\ sizeB = 0 -> Ranges(<< >>, << >>)
          [] sizeA = 0 /\ sizeB > 0 -> Ranges(<< >>, <<Span(inner.lowerB, sizeB)>>)
          [] sizeB = 0 /\ sizeA > 0 -> Ranges(<<Span(inner.lowerA, sizeA)>>, << >>)
          [] OTHER -> Ranges(x.A \o y.A, x.B \o y.B)
  BY <1>1, <1>2, <1>3 DEF RangesOfBox, SizeA, SizeB
<1> QED
  BY <1>1, <1>2, <1>3, <1>4, <1>5

(* The same, case by case                                                  *)
LEMMA RangesOfSplit ==
  ASSUME NEW a, NEW b, Len(a) \in Nat, Len(b) \in Nat, NEW box \in Boxes(a, b), NEW x, NEW y,
         IsSplit(a, b, box)
  PROVE  RangesOfBox(a, b, box, x, y) = Ranges(x.A \o y.A, x.B \o y.B)
BY RangesOfBoxCases, ZenonT(60)

LEMMA RangesOfNothing ==
  ASSUME NEW a, NEW b, Len(a) \in Nat, Len(b) \in Nat, NEW box \in Boxes(a, b), NEW x, NEW y,
         SizeA(a, b, box) = 0, SizeB(a, b, box) = 0
  PROVE  RangesOfBox(a, b, box, x, y) = Ranges(<< >>, << >>)
BY RangesOfBoxCases, ZenonT(60)

LEMMA RangesOfInsertion ==
  ASSUME NEW a, NEW b, Len(a) \in Nat, Len(b) \in Nat, NEW box \in Boxes(a, b), NEW x, NEW y,
         SizeA(a, b, box) = 0, SizeB(a, b, box) > 0
  PROVE  RangesOfBox(a, b, box, x, y) = Ranges(<< >>, <<Span(Inner(a, b, box).lowerB, SizeB(a, b, box))>>)
BY RangesOfBoxCases, ZenonT(60)

LEMMA RangesOfDeletion ==
  ASSUME NEW a, NEW b, Len(a) \in Nat, Len(b) \in Nat, NEW box \in Boxes(a, b), NEW x, NEW y,
         SizeB(a, b, box) = 0, SizeA(a, b, box) > 0
  PROVE  RangesOfBox(a, b, box, x, y) = Ranges(<<Span(Inner(a, b, box).lowerA, SizeA(a, b, box))>>, << >>)
BY RangesOfBoxCases, ZenonT(60)

(* One that is not split has none of the ranges of its parts.              *)
LEMMA RangesOfLeaf ==
  ASSUME NEW a, NEW b, Len(a) \in Nat, Len(b) \in Nat, NEW box \in Boxes(a, b),
         ~ IsSplit(a, b, box), NEW x, NEW y, NEW v, NEW w
  PROVE  RangesOfBox(a, b, box, x, y) = RangesOfBox(a, b, box, v, w)
<1>1. \/ SizeA(a, b, box) = 0 /\ SizeB(a, b, box) = 0
      \/ SizeA(a, b, box) = 0 /\ SizeB(a, b, box) > 0
      \/ SizeB(a, b, box) = 0 /\ SizeA(a, b, box) > 0
  BY SplitSizes
<1>2. CASE SizeA(a, b, box) = 0 /\ SizeB(a, b, box) = 0
  <2>1. RangesOfBox(a, b, box, x, y) = Ranges(<< >>, << >>)
    BY <1>2, RangesOfNothing
  <2>2. RangesOfBox(a, b, box, v, w) = Ranges(<< >>, << >>)
    BY <1>2, RangesOfNothing
  <2> QED
    BY <2>1, <2>2
<1>3. CASE SizeA(a, b, box) = 0 /\ SizeB(a, b, box) > 0
  <2>1. RangesOfBox(a, b, box, x, y)
          = Ranges(<< >>, <<Span(Inner(a, b, box).lowerB, SizeB(a, b, box))>>)
    BY <1>3, RangesOfInsertion
  <2>2. RangesOfBox(a, b, box, v, w)
          = Ranges(<< >>, <<Span(Inner(a, b, box).lowerB, SizeB(a, b, box))>>)
    BY <1>3, RangesOfInsertion
  <2> QED
    BY <2>1, <2>2
<1>4. CASE SizeB(a, b, box) = 0 /\ SizeA(a, b, box) > 0
  <2>1. RangesOfBox(a, b, box, x, y)
          = Ranges(<<Span(Inner(a, b, box).lowerA, SizeA(a, b, box))>>, << >>)
    BY <1>4, RangesOfDeletion
  <2>2. RangesOfBox(a, b, box, v, w)
          = Ranges(<<Span(Inner(a, b, box).lowerA, SizeA(a, b, box))>>, << >>)
    BY <1>4, RangesOfDeletion
  <2> QED
    BY <2>1, <2>2
<1> QED
  BY <1>1, <1>2, <1>3, <1>4

(* The boxes up to a size, and their ranges                                *)
BoxesUpTo(a, b, n) == {box \in Boxes(a, b) : Size(box) < n}

AreRangesUpTo(a, b, n, f) ==
  f = [box \in BoxesUpTo(a, b, n) |->
         RangesOfBox(a, b, box, f[PartTo(a, b, box)], f[PartFrom(a, b, box)])]

(* All boxes have ranges.                                                  *)
LEMMA RangesExist ==
  ASSUME NEW a, NEW b, Len(a) \in Nat, Len(b) \in Nat
  PROVE  AreRanges(a, b, AllRanges(a, b))
<1>1. \A box \in Boxes(a, b) : Size(box) \in Nat /\ Size(box) < Len(a) + Len(b) + 1
  <2> TAKE box \in Boxes(a, b)
  <2>1. IsBox(box) /\ 0 <= box.lowerA /\ box.upperA <= Len(a) /\ 0 <= box.lowerB /\ box.upperB <= Len(b)
    BY BoxesAreBoxes
  <2> QED
    BY <2>1 DEF IsBox, Size
<1>2. ASSUME NEW n \in Nat, NEW f, AreRangesUpTo(a, b, n, f)
      PROVE  \E g : AreRangesUpTo(a, b, n + 1, g)
  <2> DEFINE value(box) ==
               IF box \in BoxesUpTo(a, b, n) THEN f[box]
               ELSE RangesOfBox(a, b, box, f[PartTo(a, b, box)], f[PartFrom(a, b, box)])
             g == [box \in BoxesUpTo(a, b, n + 1) |-> value(box)]
  <2>1. \A box \in BoxesUpTo(a, b, n) : box \in BoxesUpTo(a, b, n + 1) /\ g[box] = f[box]
    <3> TAKE box \in BoxesUpTo(a, b, n)
    <3>1. box \in BoxesUpTo(a, b, n + 1)
      BY <1>1 DEF BoxesUpTo
    <3> QED
      BY <3>1
  <2>2. ASSUME NEW box \in BoxesUpTo(a, b, n + 1)
        PROVE  g[box] = RangesOfBox(a, b, box, f[PartTo(a, b, box)], f[PartFrom(a, b, box)])
    <3>1. CASE box \in BoxesUpTo(a, b, n)
      <4>1. f[box] = RangesOfBox(a, b, box, f[PartTo(a, b, box)], f[PartFrom(a, b, box)])
        <5>1. f = [c \in BoxesUpTo(a, b, n) |->
                     RangesOfBox(a, b, c, f[PartTo(a, b, c)], f[PartFrom(a, b, c)])]
          BY <1>2 DEF AreRangesUpTo
        <5> QED
          BY <3>1, <5>1
      <4> HIDE DEF g
      <4> QED
        BY <2>1, <3>1, <4>1
    <3>2. CASE box \notin BoxesUpTo(a, b, n)
      BY <3>2
    <3> QED
      BY <3>1, <3>2
  <2>3. ASSUME NEW box \in BoxesUpTo(a, b, n + 1)
        PROVE  g[box] = RangesOfBox(a, b, box, g[PartTo(a, b, box)], g[PartFrom(a, b, box)])
    <3>1. box \in Boxes(a, b) /\ Size(box) < n + 1 /\ Size(box) \in Nat
      BY <1>1 DEF BoxesUpTo
    <3>2. CASE IsSplit(a, b, box)
      <4>1. PICK to : to = PartTo(a, b, box)
        OBVIOUS
      <4>2. PICK from : from = PartFrom(a, b, box)
        OBVIOUS
      <4>3. /\ to \in Boxes(a, b) /\ from \in Boxes(a, b)
            /\ Size(to) < Size(box) /\ Size(from) < Size(box)
        BY <3>1, <3>2, <4>1, <4>2, PartFacts
      <4>4. Size(to) < n /\ Size(from) < n
        BY <1>1, <3>1, <4>3
      <4>5. to \in BoxesUpTo(a, b, n) /\ from \in BoxesUpTo(a, b, n)
        BY <4>3, <4>4 DEF BoxesUpTo
      <4>6. g[to] = f[to] /\ g[from] = f[from]
        BY <2>1, <4>5
      <4> HIDE DEF g
      <4> QED
        BY <2>2, <4>1, <4>2, <4>6
    <3>3. CASE ~ IsSplit(a, b, box)
      <4>1. PICK x : x = g[PartTo(a, b, box)]
        OBVIOUS
      <4>2. PICK y : y = g[PartFrom(a, b, box)]
        OBVIOUS
      <4>3. PICK v : v = f[PartTo(a, b, box)]
        OBVIOUS
      <4>4. PICK w : w = f[PartFrom(a, b, box)]
        OBVIOUS
      <4>5. RangesOfBox(a, b, box, x, y) = RangesOfBox(a, b, box, v, w)
        BY <3>1, <3>3, RangesOfLeaf
      <4>6. g[box] = RangesOfBox(a, b, box, v, w)
        BY <2>2, <4>3, <4>4
      <4> HIDE DEF g
      <4> QED
        BY <4>1, <4>2, <4>5, <4>6
    <3> QED
      BY <3>2, <3>3
  <2>4. g = [box \in BoxesUpTo(a, b, n + 1) |-> g[box]]
    OBVIOUS
  <2>5. AreRangesUpTo(a, b, n + 1, g)
    <3> HIDE DEF g
    <3> QED
      BY <2>3, <2>4 DEF AreRangesUpTo
  <2> HIDE DEF g
  <2> QED
    BY <2>5
<1>3. \E f : AreRangesUpTo(a, b, 0, f)
  <2>1. BoxesUpTo(a, b, 0) = {}
    BY <1>1 DEF BoxesUpTo
  <2> DEFINE f == [box \in {} |-> << >>]
  <2>2. f = [box \in BoxesUpTo(a, b, 0) |->
               RangesOfBox(a, b, box, f[PartTo(a, b, box)], f[PartFrom(a, b, box)])]
    BY <2>1
  <2>3. AreRangesUpTo(a, b, 0, f)
    <3> HIDE DEF f
    <3> QED
      BY <2>2 DEF AreRangesUpTo
  <2> HIDE DEF f
  <2> QED
    BY <2>3
<1>4. \A n \in Nat : \E f : AreRangesUpTo(a, b, n, f)
  <2> DEFINE Bad == {n \in Nat : ~ \E f : AreRangesUpTo(a, b, n, f)}
  <2> SUFFICES ASSUME Bad # {}
               PROVE  FALSE
    OBVIOUS
  <2>1. Bad \in SUBSET Nat
    OBVIOUS
  <2>2. PICK n \in Bad : \A k \in Bad : n <= k
    <3> HIDE DEF Bad
    <3> QED
      BY <2>1, LeastNumber
  <2>3. n \in Nat /\ ~ \E f : AreRangesUpTo(a, b, n, f)
    OBVIOUS
  <2>4. n # 0
    BY <1>3, <2>3
  <2>5. n - 1 \in Nat /\ (n - 1) + 1 = n /\ ~ (n <= n - 1)
    BY <2>3, <2>4
  <2>6. n - 1 \notin Bad
    <3> HIDE DEF Bad
    <3> QED
      BY <2>2, <2>5
  <2>7. \E f : AreRangesUpTo(a, b, n - 1, f)
    BY <2>5, <2>6
  <2> HIDE DEF Bad
  <2> QED
    BY <1>2, <2>3, <2>5, <2>7
<1>5. PICK f : AreRangesUpTo(a, b, Len(a) + Len(b) + 1, f)
  BY <1>4
<1>6. BoxesUpTo(a, b, Len(a) + Len(b) + 1) = Boxes(a, b)
  BY <1>1 DEF BoxesUpTo
<1>7. AreRanges(a, b, f)
  BY <1>5, <1>6 DEF AreRangesUpTo, AreRanges
<1> QED
  BY <1>7 DEF AllRanges

(* Ranges in order, not empty, and apart                                   *)
Spans == [location : Nat, length : Nat]

AreApart(s, lower, upper) ==
  /\ s \in Seq(Spans)
  /\ \A i \in DOMAIN s : /\ s[i].length > 0
                         /\ lower <= s[i].location /\ End(s[i]) <= upper
  /\ \A i, j \in DOMAIN s : i < j => End(s[i]) <= s[j].location

(* Ranges and those after them                                             *)
LEMMA ApartConcat ==
  ASSUME NEW lower \in Nat, NEW middle \in Nat, NEW upper \in Nat,
         NEW low \in Nat, NEW up \in Nat, low <= lower, lower <= middle, middle <= upper, upper <= up,
         NEW s, AreApart(s, lower, middle), NEW t, AreApart(t, middle, upper)
  PROVE  AreApart(s \o t, low, up)
<1>1. PICK u : u = s \o t
  OBVIOUS
<1>2. s \in Seq(Spans) /\ t \in Seq(Spans) /\ Len(s) \in Nat /\ Len(t) \in Nat
  BY DEF AreApart
<1>3. /\ u \in Seq(Spans) /\ DOMAIN u = 1 .. Len(s) + Len(t)
      /\ \A i \in 1 .. Len(s) + Len(t) : u[i] = IF i <= Len(s) THEN s[i] ELSE t[i - Len(s)]
  <2>1. u \in Seq(Spans) /\ Len(u) = Len(s) + Len(t)
    BY <1>1, <1>2
  <2> QED
    BY <1>1, <1>2, <2>1
<1>4. \A i \in DOMAIN u : \/ /\ i \in DOMAIN s /\ u[i] = s[i]
                          \/ /\ i - Len(s) \in DOMAIN t /\ i > Len(s) /\ u[i] = t[i - Len(s)]
  <2> TAKE i \in DOMAIN u
  <2>1. DOMAIN s = 1 .. Len(s) /\ DOMAIN t = 1 .. Len(t)
    BY <1>2
  <2> QED
    BY <1>2, <1>3, <2>1
<1>5. \A i \in DOMAIN s : /\ i \in Int /\ i <= Len(s) /\ s[i].location \in Nat /\ s[i].length \in Nat
                          /\ s[i].length > 0
                          /\ lower <= s[i].location /\ End(s[i]) <= middle /\ End(s[i]) \in Int
  <2> TAKE i \in DOMAIN s
  <2>1. s[i] \in Spans /\ i \in 1 .. Len(s)
    BY <1>2
  <2>2. s[i].location \in Nat /\ s[i].length \in Nat /\ End(s[i]) \in Int
    BY <2>1 DEF Spans, End
  <2> QED
    BY <1>2, <2>1, <2>2 DEF AreApart
<1>6. \A i \in DOMAIN t : /\ t[i].location \in Nat /\ t[i].length \in Nat
                          /\ t[i].length > 0
                          /\ middle <= t[i].location /\ End(t[i]) <= upper /\ End(t[i]) \in Int
  <2> TAKE i \in DOMAIN t
  <2>1. t[i] \in Spans
    BY <1>2
  <2>2. t[i].location \in Nat /\ t[i].length \in Nat /\ End(t[i]) \in Int
    BY <2>1 DEF Spans, End
  <2> QED
    BY <2>2 DEF AreApart
<1>7. ASSUME NEW i \in DOMAIN u
      PROVE  u[i].length > 0 /\ low <= u[i].location /\ End(u[i]) <= up
  BY <1>4, <1>5, <1>6
<1>8. ASSUME NEW i \in DOMAIN u, NEW j \in DOMAIN u, i < j
      PROVE  End(u[i]) <= u[j].location
  <2>1. i \in Int /\ j \in Int
    BY <1>3
  <2>2. CASE i \in DOMAIN s /\ u[i] = s[i] /\ j \in DOMAIN s /\ u[j] = s[j]
    BY <1>8, <2>2 DEF AreApart
  <2>3. CASE /\ i \in DOMAIN s /\ u[i] = s[i]
             /\ j - Len(s) \in DOMAIN t /\ j > Len(s) /\ u[j] = t[j - Len(s)]
    <3>1. PICK k : k = j - Len(s)
      OBVIOUS
    <3>2. k \in DOMAIN t /\ u[j] = t[k]
      BY <2>3, <3>1
    <3> QED
      BY <1>5, <1>6, <2>3, <3>2
  <2>4. CASE /\ i - Len(s) \in DOMAIN t /\ i > Len(s) /\ u[i] = t[i - Len(s)]
             /\ j - Len(s) \in DOMAIN t /\ j > Len(s) /\ u[j] = t[j - Len(s)]
    <3>1. PICK k : k = j - Len(s)
      OBVIOUS
    <3>2. PICK l : l = i - Len(s)
      OBVIOUS
    <3>3. k \in DOMAIN t /\ u[j] = t[k] /\ l \in DOMAIN t /\ u[i] = t[l] /\ l < k
      BY <1>2, <1>8, <2>1, <2>4, <3>1, <3>2
    <3> QED
      BY <3>3 DEF AreApart
  <2>5. CASE /\ i - Len(s) \in DOMAIN t /\ i > Len(s) /\ u[i] = t[i - Len(s)]
             /\ j \in DOMAIN s /\ u[j] = s[j]
    BY <1>2, <1>5, <1>8, <2>1, <2>5
  <2> QED
    BY <1>4, <2>2, <2>3, <2>4, <2>5
<1> QED
  BY <1>1, <1>3, <1>7, <1>8 DEF AreApart

(* None, and one                                                           *)
LEMMA ApartShort ==
  ASSUME NEW low \in Nat, NEW up \in Nat
  PROVE  /\ AreApart(<< >>, low, up)
         /\ \A x, n \in Nat : low <= x /\ n > 0 /\ x + n <= up => AreApart(<<Span(x, n)>>, low, up)
<1>1. AreApart(<< >>, low, up)
  BY DEF AreApart
<1>2. ASSUME NEW x \in Nat, NEW n \in Nat, low <= x, n > 0, x + n <= up
      PROVE  AreApart(<<Span(x, n)>>, low, up)
  <2>1. PICK r : r = Span(x, n)
    OBVIOUS
  <2>2. r \in Spans /\ r.location = x /\ r.length = n /\ End(r) = x + n
    BY <2>1 DEF Span, Spans, End
  <2>3. <<r>> \in Seq(Spans) /\ DOMAIN <<r>> = {1} /\ <<r>>[1] = r
    BY <2>2
  <2> QED
    BY <1>2, <2>1, <2>2, <2>3 DEF AreApart
<1> QED
  BY <1>1, <1>2

(* The bounds of a box                                                     *)
LEMMA BoxBounds ==
  ASSUME NEW a, NEW b, Len(a) \in Nat, Len(b) \in Nat, NEW box \in Boxes(a, b)
  PROVE  /\ box.lowerA \in Nat /\ box.upperA \in Nat /\ box.lowerA <= box.upperA /\ box.upperA <= Len(a)
         /\ box.lowerB \in Nat /\ box.upperB \in Nat /\ box.lowerB <= box.upperB /\ box.upperB <= Len(b)
         /\ Size(box) \in Nat
<1>1. IsBox(box) /\ 0 <= box.lowerA /\ box.upperA <= Len(a) /\ 0 <= box.lowerB /\ box.upperB <= Len(b)
  BY BoxesAreBoxes
<1> QED
  BY <1>1 DEF IsBox, Size

(* The ranges found in a box are apart, and in the box.                    *)
LEMMA RangesApart ==
  ASSUME NEW a, NEW b, Len(a) \in Nat, Len(b) \in Nat, NEW e \in Boxes(a, b)
  PROVE  /\ AreApart(AllRanges(a, b)[e].A, e.lowerA, e.upperA)
         /\ AreApart(AllRanges(a, b)[e].B, e.lowerB, e.upperB)
<1> DEFINE Good(box, r) == /\ AreApart(r.A, box.lowerA, box.upperA)
                           /\ AreApart(r.B, box.lowerB, box.upperB)
<1>1. PICK f : f = AllRanges(a, b)
  OBVIOUS
<1>2. \A box \in Boxes(a, b) :
        f[box] = RangesOfBox(a, b, box, f[PartTo(a, b, box)], f[PartFrom(a, b, box)])
  <2>1. f = [box \in Boxes(a, b) |->
               RangesOfBox(a, b, box, f[PartTo(a, b, box)], f[PartFrom(a, b, box)])]
    BY <1>1, RangesExist DEF AreRanges
  <2> QED
    BY <2>1
<1>3. \A box \in Boxes(a, b) :
        /\ box.lowerA \in Nat /\ box.upperA \in Nat /\ box.lowerA <= box.upperA /\ box.upperA <= Len(a)
        /\ box.lowerB \in Nat /\ box.upperB \in Nat /\ box.lowerB <= box.upperB /\ box.upperB <= Len(b)
        /\ Size(box) \in Nat
  BY BoxBounds
<1>4. ASSUME NEW A, NEW B
      PROVE  Ranges(A, B).A = A /\ Ranges(A, B).B = B
  BY DEF Ranges
<1>5. ASSUME NEW box \in Boxes(a, b),
             \A c \in Boxes(a, b) : Size(c) < Size(box) => Good(c, f[c])
      PROVE  Good(box, f[box])
  <2>1. PICK to : to = PartTo(a, b, box)
    OBVIOUS
  <2>2. PICK from : from = PartFrom(a, b, box)
    OBVIOUS
  <2>3. PICK inner : inner = Inner(a, b, box)
    OBVIOUS
  <2>4. CASE IsSplit(a, b, box)
    <3>1. /\ to \in Boxes(a, b) /\ from \in Boxes(a, b)
          /\ Size(to) < Size(box) /\ Size(from) < Size(box)
          /\ box.lowerA <= to.lowerA /\ to.upperA = from.lowerA /\ from.upperA <= box.upperA
          /\ box.lowerB <= to.lowerB /\ to.upperB = from.lowerB /\ from.upperB <= box.upperB
      BY <2>1, <2>2, <2>4, PartFacts
    <3>2. f[box] = Ranges(f[to].A \o f[from].A, f[to].B \o f[from].B)
      <4>1. PICK v : v = f[to]
        OBVIOUS
      <4>2. PICK w : w = f[from]
        OBVIOUS
      <4>3. f[box] = RangesOfBox(a, b, box, v, w)
        BY <1>2, <2>1, <2>2, <4>1, <4>2
      <4>4. RangesOfBox(a, b, box, v, w) = Ranges(v.A \o w.A, v.B \o w.B)
        BY <2>4, RangesOfSplit
      <4> QED
        BY <4>1, <4>2, <4>3, <4>4
    <3>3. Good(to, f[to]) /\ Good(from, f[from])
      <4> HIDE DEF Good
      <4> QED
        BY <1>5, <3>1
    <3>4. AreApart(f[to].A \o f[from].A, box.lowerA, box.upperA)
      BY <1>3, <3>1, <3>3, ApartConcat
    <3>5. AreApart(f[to].B \o f[from].B, box.lowerB, box.upperB)
      BY <1>3, <3>1, <3>3, ApartConcat
    <3> QED
      BY <1>4, <3>2, <3>4, <3>5
  <2>5. CASE ~ IsSplit(a, b, box)
    <3>1. /\ inner \in Boxes(a, b)
          /\ box.lowerA <= inner.lowerA /\ inner.upperA <= box.upperA
          /\ box.lowerB <= inner.lowerB /\ inner.upperB <= box.upperB
      BY <2>3, InnerFacts
    <3>2. PICK sizeA : sizeA = SizeA(a, b, box)
      OBVIOUS
    <3>3. PICK sizeB : sizeB = SizeB(a, b, box)
      OBVIOUS
    <3>4. /\ sizeA \in Nat /\ inner.lowerA \in Nat /\ inner.lowerA + sizeA <= box.upperA
          /\ sizeB \in Nat /\ inner.lowerB \in Nat /\ inner.lowerB + sizeB <= box.upperB
      <4>1. /\ inner.lowerA \in Nat /\ inner.upperA \in Nat /\ inner.lowerA <= inner.upperA
            /\ inner.lowerB \in Nat /\ inner.upperB \in Nat /\ inner.lowerB <= inner.upperB
            /\ box.upperA \in Nat /\ box.upperB \in Nat
        BY <1>3, <3>1
      <4> QED
        BY ONLY <2>3, <3>1, <3>2, <3>3, <4>1 DEF SizeA, SizeB
    <3>5. \/ f[box] = Ranges(<< >>, << >>)
          \/ sizeB > 0 /\ f[box] = Ranges(<< >>, <<Span(inner.lowerB, sizeB)>>)
          \/ sizeA > 0 /\ f[box] = Ranges(<<Span(inner.lowerA, sizeA)>>, << >>)
      <4>1. PICK v : v = f[to]
        OBVIOUS
      <4>2. PICK w : w = f[from]
        OBVIOUS
      <4>3. f[box] = RangesOfBox(a, b, box, v, w)
        BY <1>2, <2>1, <2>2, <4>1, <4>2
      <4>4. \/ sizeA = 0 /\ sizeB = 0
            \/ sizeA = 0 /\ sizeB > 0
            \/ sizeB = 0 /\ sizeA > 0
        BY <2>5, <3>2, <3>3, SplitSizes
      <4>5. CASE sizeA = 0 /\ sizeB = 0
        <5>1. SizeA(a, b, box) = 0 /\ SizeB(a, b, box) = 0
          BY <3>2, <3>3, <4>5
        <5>2. RangesOfBox(a, b, box, v, w) = Ranges(<< >>, << >>)
          BY <5>1, RangesOfNothing
        <5>3. f[box] = Ranges(<< >>, << >>)
          BY <2>3, <3>2, <3>3, <4>3, <5>2
        <5> QED
          BY <4>5, <5>3
      <4>6. CASE sizeA = 0 /\ sizeB > 0
        <5>1. SizeA(a, b, box) = 0 /\ SizeB(a, b, box) > 0
          BY <3>2, <3>3, <4>6
        <5>2. RangesOfBox(a, b, box, v, w) = Ranges(<< >>, <<Span(Inner(a, b, box).lowerB, SizeB(a, b, box))>>)
          BY <5>1, RangesOfInsertion
        <5>3. f[box] = Ranges(<< >>, <<Span(inner.lowerB, sizeB)>>)
          BY <2>3, <3>2, <3>3, <4>3, <5>2
        <5> QED
          BY <4>6, <5>3
      <4>7. CASE sizeB = 0 /\ sizeA > 0
        <5>1. SizeB(a, b, box) = 0 /\ SizeA(a, b, box) > 0
          BY <3>2, <3>3, <4>7
        <5>2. RangesOfBox(a, b, box, v, w) = Ranges(<<Span(Inner(a, b, box).lowerA, SizeA(a, b, box))>>, << >>)
          BY <5>1, RangesOfDeletion
        <5>3. f[box] = Ranges(<<Span(inner.lowerA, sizeA)>>, << >>)
          BY <2>3, <3>2, <3>3, <4>3, <5>2
        <5> QED
          BY <4>7, <5>3
      <4> QED
        BY <4>4, <4>5, <4>6, <4>7
    <3>6. AreApart(<< >>, box.lowerA, box.upperA) /\ AreApart(<< >>, box.lowerB, box.upperB)
      BY <1>3, ApartShort
    <3>7. sizeA > 0 => AreApart(<<Span(inner.lowerA, sizeA)>>, box.lowerA, box.upperA)
      BY <1>3, <3>1, <3>4, ApartShort
    <3>8. sizeB > 0 => AreApart(<<Span(inner.lowerB, sizeB)>>, box.lowerB, box.upperB)
      BY <1>3, <3>1, <3>4, ApartShort
    <3> QED
      BY <1>4, <3>5, <3>6, <3>7, <3>8
  <2> QED
    BY <2>4, <2>5
<1>6. \A box \in Boxes(a, b) : Good(box, f[box])
  <2> DEFINE Bad == {n \in Nat : \E box \in Boxes(a, b) : Size(box) = n /\ ~ Good(box, f[box])}
  <2>1. Bad \in SUBSET Nat
    OBVIOUS
  <2>2. ASSUME Bad # {}
        PROVE  FALSE
    <3>1. PICK n \in Bad : \A k \in Bad : n <= k
      <4> HIDE DEF Bad
      <4> QED
        BY <2>1, <2>2, LeastNumber
    <3>2. PICK box \in Boxes(a, b) : Size(box) = n /\ ~ Good(box, f[box])
      <4> HIDE DEF Good
      <4> QED
        OBVIOUS
    <3>3. \A c \in Boxes(a, b) : ~ Good(c, f[c]) => Size(c) \in Bad
      <4> HIDE DEF Good
      <4> QED
        BY <1>3
    <3>4. \A c \in Boxes(a, b) : Size(c) < Size(box) => Good(c, f[c])
      <4> HIDE DEF Good, Bad
      <4> QED
        BY <1>3, <3>1, <3>2, <3>3
    <3> HIDE DEF Good, Bad
    <3> QED
      BY <1>5, <3>2, <3>4
  <2> TAKE box \in Boxes(a, b)
  <2>3. ~ Good(box, f[box]) => Size(box) \in Bad
    <3> HIDE DEF Good
    <3> QED
      BY <1>3
  <2> HIDE DEF Good, Bad
  <2> QED
    BY <2>2, <2>3
<1> QED
  BY <1>1, <1>6

(* LCS finds ranges of both arrays that are apart.                         *)
LEMMA LCSFacts ==
  ASSUME NEW a, NEW b, Len(a) \in Nat, Len(b) \in Nat
  PROVE  AreApart(LCS(a, b).A, 0, Len(a)) /\ AreApart(LCS(a, b).B, 0, Len(b))
<1>1. PICK box : box = Box(0, Len(a), 0, Len(b))
  OBVIOUS
<1>2. /\ box \in Boxes(a, b)
      /\ box.lowerA = 0 /\ box.upperA = Len(a) /\ box.lowerB = 0 /\ box.upperB = Len(b)
  BY <1>1 DEF Box, Boxes
<1>3. LCS(a, b) = AllRanges(a, b)[box]
  BY <1>1, LCSIs
<1> QED
  BY <1>2, <1>3, RangesApart

(* One more range after the others.                                        *)
LEMMA AddRangeApart ==
  ASSUME NEW h \in Nat, NEW s, AreApart(s, 0, h), NEW r \in Spans, r.length > 0, h <= r.location
  PROVE  AreApart(AddRange(s, r), 0, End(r))
<1>1. /\ s \in Seq(Spans) /\ Len(s) \in Nat /\ DOMAIN s = 1 .. Len(s)
      /\ \A i \in DOMAIN s : s[i] \in Spans
  BY DEF AreApart
<1>2. /\ r.location \in Nat /\ r.length \in Nat /\ End(r) \in Nat
      /\ End(r) = r.location + r.length
  BY DEF Spans, End
<1>3. \A i \in DOMAIN s : /\ s[i].location \in Nat /\ s[i].length \in Nat /\ s[i].length > 0
                          /\ End(s[i]) = s[i].location + s[i].length /\ End(s[i]) <= h
  BY <1>1 DEF AreApart, Spans, End
<1>4. CASE s # << >> /\ End(Last(s)) = r.location
  <2>1. Len(s) \in DOMAIN s /\ Len(s) - 1 \in Nat
    BY <1>1, <1>4
  <2>2. PICK l : l = s[Len(s)]
    OBVIOUS
  <2>3. Last(s) = l
    BY <2>2 DEF Last
  <2>4. PICK m : m = [l EXCEPT !.length = @ + r.length]
    OBVIOUS
  <2>5. /\ m \in Spans /\ m.location = l.location /\ m.length = l.length + r.length
    <3>1. l \in Spans /\ l.length + r.length \in Nat
      BY <1>1, <1>2, <1>3, <2>1, <2>2
    <3> QED
      BY <2>4, <3>1 DEF Spans
  <2>6. m.length > 0 /\ End(m) = End(r) /\ m.location \in Nat
    BY <1>2, <1>3, <1>4, <2>1, <2>2, <2>3, <2>5 DEF End
  <2>7. PICK t : t = Front(s) \o <<m>>
    OBVIOUS
  <2>8. AddRange(s, r) = t
    BY <1>4, <2>3, <2>4, <2>7 DEF AddRange
  <2>9. /\ t \in Seq(Spans) /\ Len(t) = Len(s)
        /\ \A i \in 1 .. Len(s) : t[i] = IF i < Len(s) THEN s[i] ELSE m
    <3>1. PICK f : f = Front(s)
      OBVIOUS
    <3>2. f = SubSeq(s, 1, Len(s) - 1)
      BY <3>1 DEF Front
    <3>3. /\ f \in Seq(Spans) /\ Len(f) = Len(s) - 1
          /\ \A i \in 1 .. Len(s) - 1 : f[i] = s[i]
      BY <1>1, <2>1, <3>2
    <3>4. t = Append(f, m)
      BY <2>5, <2>7, <3>1, <3>3
    <3>5. PICK n : n = Len(s)
      OBVIOUS
    <3>6. n \in Nat /\ n - 1 \in Nat /\ (n - 1) + 1 = n
      BY <1>1, <2>1, <3>5
    <3>7. t \in Seq(Spans) /\ Len(t) = (n - 1) + 1
      BY <2>5, <3>3, <3>4, <3>5
    <3>8. \A i \in 1 .. n : t[i] = IF i <= n - 1 THEN f[i] ELSE m
      BY <2>5, <3>3, <3>4, <3>5, <3>6
    <3>9. \A i \in 1 .. n : (i < n <=> i <= n - 1) /\ (i < n => i \in 1 .. n - 1)
      BY <3>6
    <3> QED
      BY <3>3, <3>5, <3>6, <3>7, <3>8, <3>9
  <2>10. DOMAIN t = DOMAIN s
    BY <1>1, <2>9
  <2>11. ASSUME NEW i \in DOMAIN t
         PROVE  t[i].length > 0 /\ 0 <= t[i].location /\ End(t[i]) <= End(r)
    <3>1. CASE i < Len(s)
      <4>1. t[i] = s[i] /\ i \in DOMAIN s
        BY <1>1, <2>9, <2>10, <3>1
      <4> QED
        BY <1>2, <1>3, <4>1
    <3>2. CASE ~ (i < Len(s))
      <4>1. t[i] = m
        BY <1>1, <2>9, <2>10, <3>2
      <4> QED
        BY <1>2, <2>6, <4>1
    <3> QED
      BY <3>1, <3>2
  <2>12. ASSUME NEW i \in DOMAIN t, NEW j \in DOMAIN t, i < j
         PROVE  End(t[i]) <= t[j].location
    <3>1. i \in DOMAIN s /\ j \in DOMAIN s /\ i < Len(s) /\ t[i] = s[i] /\ (t[j] = s[j] \/ (t[j] = m /\ j = Len(s)))
      BY <1>1, <2>9, <2>10, <2>12
    <3>2. End(s[i]) <= s[j].location
      BY <2>12, <3>1 DEF AreApart
    <3> QED
      BY <2>2, <2>5, <3>1, <3>2
  <2> QED
    BY <2>8, <2>9, <2>11, <2>12 DEF AreApart
<1>5. CASE ~ (s # << >> /\ End(Last(s)) = r.location)
  <2>1. AddRange(s, r) = Append(s, r)
    BY <1>5 DEF AddRange
  <2>2. PICK t : t = Append(s, r)
    OBVIOUS
  <2>3. /\ t \in Seq(Spans) /\ DOMAIN t = 1 .. Len(s) + 1
        /\ \A i \in DOMAIN t : (i \in DOMAIN s /\ i <= Len(s) /\ t[i] = s[i]) \/ (i = Len(s) + 1 /\ t[i] = r)
    BY <1>1, <2>2
  <2>4. ASSUME NEW i \in DOMAIN t
        PROVE  t[i].length > 0 /\ 0 <= t[i].location /\ End(t[i]) <= End(r)
    BY <1>2, <1>3, <2>3, SMTT(30)
  <2>5. ASSUME NEW i \in DOMAIN t, NEW j \in DOMAIN t, i < j
        PROVE  End(t[i]) <= t[j].location
    <3>1. i \in DOMAIN s /\ t[i] = s[i]
      BY <1>1, <2>3, <2>5
    <3>2. CASE t[j] = r
      BY <1>2, <1>3, <3>1, <3>2
    <3>3. CASE j \in DOMAIN s /\ t[j] = s[j]
      BY <2>5, <3>1, <3>3 DEF AreApart
    <3> QED
      BY <2>3, <3>2, <3>3
  <2> QED
    BY <2>1, <2>2, <2>3, <2>4, <2>5 DEF AreApart
<1> QED
  BY <1>4, <1>5

IsModified(ranges, f) ==
  f = [n \in 0 .. Len(ranges) |-> IF n = 0 THEN << >> ELSE AddRange(f[n - 1], ranges[n])]

AllModified(ranges) == CHOOSE f : IsModified(ranges, f)

(* The ranges after each one that is added.                                *)
LEMMA ModifiedRounds ==
  ASSUME NEW ranges, Len(ranges) \in Int, Len(ranges) >= 0
  PROVE  IsModified(ranges, AllModified(ranges))
<1> DEFINE Is(f, K) == f = [k \in 0 .. K |-> IF k = 0 THEN << >>
                                            ELSE AddRange(f[k - 1], ranges[k])]
           Bad == {n \in Nat : n + 0 <= Len(ranges) /\ ~ \E f : Is(f, n + 0)}
<1>1. Bad = {}
  <2> SUFFICES ASSUME Bad # {}
               PROVE  FALSE
    OBVIOUS
  <2>1. PICK n \in Bad : \A k \in Bad : n <= k
    <3>1. Bad \in SUBSET Nat
      OBVIOUS
    <3> HIDE DEF Bad
    <3> QED
      BY <3>1, LeastNumber
  <2> DEFINE K == n + 0
  <2>2. n \in Nat /\ K \in Int /\ 0 <= K /\ K <= Len(ranges) /\ ~ \E f : Is(f, K)
    <3>1. n \in Nat /\ n + 0 <= Len(ranges) /\ ~ \E f : Is(f, n + 0)
      <4> HIDE DEF Is, K
      <4> QED
        OBVIOUS
    <3>2. K \in Int /\ 0 <= K
      <4> HIDE DEF Is, Bad
      <4> QED
        BY <3>1
    <3> HIDE DEF Is, Bad
    <3> QED
      BY <3>1, <3>2
  <2>3. K # 0
    <3> DEFINE f == [k \in 0 .. 0 |-> << >>]
    <3>1. Is(f, 0)
      <4>1. \A k \in 0 .. 0 : k = 0
        OBVIOUS
      <4> QED
        BY <4>1
    <3> HIDE DEF Is
    <3> QED
      BY <2>2, <3>1
  <2>4. n - 1 \in Nat /\ n - 1 \notin Bad /\ (n - 1) + 0 = K - 1 /\ K - 1 <= Len(ranges) /\ 0 <= K - 1
    <3>1. n - 1 \in Nat /\ ~ (n <= n - 1) /\ (n - 1) + 0 = K - 1 /\ K - 1 <= Len(ranges) /\ 0 <= K - 1
      BY <2>2, <2>3
    <3> HIDE DEF Bad
    <3> QED
      BY <2>1, <3>1
  <2>5. PICK f : Is(f, K - 1)
    <3>1. \E f : Is(f, (n - 1) + 0)
      <4> HIDE DEF Is, K
      <4> QED
        BY <2>4
    <3> HIDE DEF Is, K
    <3> QED
      BY <2>4, <3>1
  <2> HIDE DEF K
  <2> DEFINE g == [k \in 0 .. K |-> IF k = K THEN AddRange(f[K - 1], ranges[K]) ELSE f[k]]
  <2>6. \A k \in 0 .. K : g[k] = IF k = 0 THEN << >> ELSE AddRange(g[k - 1], ranges[k])
    <3> TAKE k \in 0 .. K
    <3>1. f = [j \in 0 .. K - 1 |-> IF j = 0 THEN << >>
                                    ELSE AddRange(f[j - 1], ranges[j])]
      BY <2>5
    <3>2. CASE k = K
      <4>1. K - 1 \in 0 .. K /\ K - 1 # K /\ k # 0
        BY <2>2, <2>3, <3>2
      <4>2. g[K - 1] = f[K - 1] /\ g[k] = AddRange(f[K - 1], ranges[K])
        BY <3>2, <4>1
      <4> HIDE DEF g
      <4> QED
        BY <3>2, <4>1, <4>2
    <3>3. CASE k # K
      <4>1. k \in 0 .. K - 1 /\ g[k] = f[k]
        BY <2>2, <3>3
      <4>2. f[k] = IF k = 0 THEN << >> ELSE AddRange(f[k - 1], ranges[k])
        BY <3>1, <4>1
      <4>3. k # 0 => g[k - 1] = f[k - 1]
        <5>1. k # 0 => k - 1 \in 0 .. K /\ k - 1 # K
          BY <2>2, <3>3
        <5> QED
          BY <5>1
      <4> HIDE DEF g
      <4> QED
        BY <4>1, <4>2, <4>3
    <3> QED
      BY <3>2, <3>3
  <2>7. Is(g, K)
    <3>1. g = [k \in 0 .. K |-> g[k]]
      OBVIOUS
    <3> HIDE DEF g
    <3> QED
      BY <2>6, <3>1
  <2> HIDE DEF Is, g
  <2> QED
    BY <2>2, <2>7
<1>2. \E f : IsModified(ranges, f)
  <2>1. Len(ranges) - (0) \in Nat /\ (Len(ranges) - (0)) + 0 = Len(ranges) /\ Len(ranges) <= Len(ranges)
    OBVIOUS
  <2>2. \E f : Is(f, Len(ranges))
    <3>1. \E f : Is(f, (Len(ranges) - (0)) + 0)
      <4> HIDE DEF Is
      <4> QED
        BY <1>1, <2>1
    <3> HIDE DEF Is
    <3> QED
      BY <2>1, <3>1
  <2> QED
    BY <2>2 DEF IsModified
<1>3. PICK f : f = AllModified(ranges)
  OBVIOUS
<1>4. AllModified(ranges) = CHOOSE g : IsModified(ranges, g)
  BY DEF AllModified, IsModified
<1>5. IsModified(ranges, f)
  BY <1>2, <1>3, <1>4
<1> QED
  BY <1>3, <1>5

(* How far the first n ranges reach                                        *)
ReachOf(ranges, n) == IF n = 0 THEN 0 ELSE End(ranges[n])

(* The ranges after each round                                             *)
AreRounds(ranges, up, N, f) ==
  /\ N \in Nat /\ DOMAIN ranges = 1 .. N /\ Modified(ranges) = f[N]
  /\ f[0] = << >> /\ \A n \in 1 .. N : f[n] = AddRange(f[n - 1], ranges[n])
  /\ \A n \in 1 .. N : ranges[n] \in Spans /\ ranges[n].length > 0
  /\ \A n \in 0 .. N : ReachOf(ranges, n) \in Nat /\ ReachOf(ranges, n) <= up
  /\ \A n \in 1 .. N : ReachOf(ranges, n - 1) <= ranges[n].location
  /\ \A n \in 0 .. N : AreApart(f[n], 0, ReachOf(ranges, n))

(* They stay apart.                                                        *)
LEMMA RoundsApart ==
  ASSUME NEW up \in Nat, NEW ranges, AreApart(ranges, 0, up), NEW N, N = Len(ranges),
         NEW f, f = AllModified(ranges)
  PROVE  AreRounds(ranges, up, N, f)
<1>1. /\ ranges \in Seq(Spans) /\ N \in Nat /\ DOMAIN ranges = 1 .. N
      /\ \A n \in 1 .. N : ranges[n] \in Spans
  BY DEF AreApart
<1>2. Modified(ranges) = f[N]
  BY DEF Modified, AllModified, IsModified
<1>3. f = [n \in 0 .. N |-> IF n = 0 THEN << >> ELSE AddRange(f[n - 1], ranges[n])]
  <2>1. Len(ranges) \in Int /\ Len(ranges) >= 0
    BY <1>1
  <2>2. IsModified(ranges, f)
    BY <2>1, ModifiedRounds
  <2> QED
    BY <2>2 DEF IsModified
<1>4. f[0] = << >> /\ \A n \in 1 .. N : f[n] = AddRange(f[n - 1], ranges[n])
  <2>1. 0 \in 0 .. N /\ \A n \in 1 .. N : n \in 0 .. N /\ n # 0
    BY <1>1
  <2> QED
    BY <1>3, <2>1
<1>5. \A n \in 1 .. N : /\ ranges[n].length > 0 /\ ranges[n].location \in Nat
                        /\ End(ranges[n]) \in Nat /\ End(ranges[n]) <= up
                        /\ n - 1 \in 1 .. N => End(ranges[n - 1]) <= ranges[n].location
  <2> TAKE n \in 1 .. N
  <2>1. ranges[n].length > 0 /\ End(ranges[n]) <= up
    BY <1>1 DEF AreApart
  <2>2. ranges[n].location \in Nat /\ End(ranges[n]) \in Nat
    BY <1>1 DEF Spans, End
  <2>3. ASSUME n - 1 \in 1 .. N
        PROVE  End(ranges[n - 1]) <= ranges[n].location
    <3>1. n - 1 < n
      OBVIOUS
    <3> QED
      BY <1>1, <2>3, <3>1 DEF AreApart
  <2> QED
    BY <2>1, <2>2, <2>3
<1> DEFINE h(n) == ReachOf(ranges, n)
<1>6. h(0) = 0 /\ \A n \in 1 .. N : h(n) = End(ranges[n])
  BY <1>1 DEF ReachOf
<1>7. \A n \in 0 .. N : h(n) \in Nat /\ h(n) <= up
  <2>1. \A n \in 0 .. N : n = 0 \/ n \in 1 .. N
    BY <1>1
  <2> HIDE DEF h
  <2> QED
    BY <1>5, <1>6, <2>1
<1>8. \A n \in 1 .. N : h(n - 1) <= ranges[n].location
  <2> TAKE n \in 1 .. N
  <2>1. CASE n - 1 = 0
    BY <1>5, <1>6, <2>1
  <2>2. CASE n - 1 # 0
    <3>1. n - 1 \in 1 .. N
      BY <1>1, <2>2
    <3> HIDE DEF h
    <3> QED
      BY <1>5, <1>6, <3>1
  <2> QED
    BY <2>1, <2>2
<1> HIDE DEF h
<1>9. \A n \in 0 .. N : AreApart(f[n], 0, h(n))
  <2> DEFINE Bad == {n \in 0 .. N : ~ AreApart(f[n], 0, h(n))}
  <2> SUFFICES ASSUME Bad # {}
               PROVE  FALSE
    OBVIOUS
  <2>1. Bad \in SUBSET Nat
    OBVIOUS
  <2>2. PICK n \in Bad : \A k \in Bad : n <= k
    <3> HIDE DEF Bad
    <3> QED
      BY <2>1, LeastNumber
  <2>3. n \in 0 .. N /\ ~ AreApart(f[n], 0, h(n))
    OBVIOUS
  <2>4. n # 0
    BY <1>4, <1>6, <2>3, ApartShort
  <2>5. n \in 1 .. N /\ n - 1 \in 0 .. N /\ ~ (n <= n - 1)
    BY <1>1, <2>3, <2>4
  <2>6. n - 1 \notin Bad
    <3> HIDE DEF Bad
    <3> QED
      BY <2>2, <2>5
  <2>7. AreApart(f[n - 1], 0, h(n - 1))
    BY <2>5, <2>6
  <2> HIDE DEF Bad
  <2>8. AreApart(AddRange(f[n - 1], ranges[n]), 0, End(ranges[n]))
    <3>1. PICK hp : hp = h(n - 1)
      OBVIOUS
    <3>2. hp \in Nat /\ hp <= ranges[n].location /\ AreApart(f[n - 1], 0, hp)
      BY <1>7, <1>8, <2>5, <2>7, <3>1
    <3> QED
      BY <1>1, <1>5, <2>5, <3>2, AddRangeApart
  <2> QED
    BY <1>4, <1>6, <2>3, <2>5, <2>8
<1> QED
  BY <1>1, <1>2, <1>4, <1>5, <1>7, <1>8, <1>9 DEF h, AreRounds

(* Touching ranges become one, and all stay apart.                         *)
LEMMA ModifiedApart ==
  ASSUME NEW up \in Nat, NEW ranges, AreApart(ranges, 0, up)
  PROVE  AreApart(Modified(ranges), 0, up)
<1>1. PICK N : N = Len(ranges)
  OBVIOUS
<1>2. PICK f : f = AllModified(ranges)
  OBVIOUS
<1>3. PICK h : h = ReachOf(ranges, N)
  OBVIOUS
<1>4. N \in Nat /\ Modified(ranges) = f[N] /\ h \in Nat /\ h <= up /\ AreApart(f[N], 0, h)
  <2>1. AreRounds(ranges, up, N, f)
    BY <1>1, <1>2, RoundsApart
  <2>2. N \in Nat /\ N \in 0 .. N
    BY <2>1 DEF AreRounds
  <2> QED
    BY <1>3, <2>1, <2>2 DEF AreRounds
<1>5. AreApart(f[N] \o << >>, 0, up)
  <2>1. AreApart(<< >>, h, up) /\ 0 <= 0 /\ 0 <= h /\ up <= up /\ 0 \in Nat
    BY <1>4, ApartShort
  <2> QED
    BY <1>4, <2>1, ApartConcat
<1>6. f[N] \o << >> = f[N]
  <2>1. f[N] \in Seq(Spans)
    BY <1>4 DEF AreApart
  <2> QED
    BY <2>1
<1> QED
  BY <1>4, <1>5, <1>6

-----------------------------------------------------------------------------
(* The edits made of the ranges *)

ArrayEdits == [kind : SequenceEdit, range : Spans, objects : Seq(Value)]

(* The elements of an array up to a position                               *)
Before(b, y) == {b[n] : n \in {n \in DOMAIN b : n <= y}}

(* The edits made so far are in order, of distinct parts of both arrays.   *)
EditsInOrder(b, A, B, done) ==
  /\ done.i \in 1 .. Len(A) + 1 /\ done.j \in 1 .. Len(B) + 1
  /\ done.posA \in Nat /\ done.posB \in Nat
  /\ done.i <= Len(A) => done.posA <= A[done.i].location
  /\ done.j <= Len(B) => done.posB <= B[done.j].location
  /\ done.edits \in Seq(ArrayEdits)
  /\ \A p \in DOMAIN done.edits : /\ End(done.edits[p].range) <= done.posA
                                  /\ ToSet(done.edits[p].objects) \subseteq Before(b, done.posB)
  /\ \A p, q \in DOMAIN done.edits :
       p < q => /\ End(done.edits[p].range) <= done.edits[q].range.location
                /\ IsInjective(b) =>
                     ToSet(done.edits[p].objects) \cap ToSet(done.edits[q].objects) = {}

(* One more.                                                               *)
LEMMA AppendEdit ==
  ASSUME NEW b \in Seq(Value), NEW A, NEW B, NEW done, EditsInOrder(b, A, B, done),
         NEW next, NEW e \in ArrayEdits, next.edits = Append(done.edits, e),
         next.i \in 1 .. Len(A) + 1, next.j \in 1 .. Len(B) + 1,
         next.posA \in Nat, next.posB \in Nat,
         next.i <= Len(A) => next.posA <= A[next.i].location,
         next.j <= Len(B) => next.posB <= B[next.j].location,
         done.posA <= e.range.location, End(e.range) <= next.posA, done.posB <= next.posB,
         ToSet(e.objects) \subseteq Before(b, next.posB),
         IsInjective(b) => ToSet(e.objects) \cap Before(b, done.posB) = {}
  PROVE  EditsInOrder(b, A, B, next)
<1>1. PICK s : s = done.edits
  OBVIOUS
<1>2. PICK t : t = next.edits
  OBVIOUS
<1>3. s \in Seq(ArrayEdits) /\ t = Append(s, e) /\ t \in Seq(ArrayEdits) /\ Len(s) \in Nat
  BY <1>1, <1>2 DEF EditsInOrder
<1>4. /\ DOMAIN t = 1 .. Len(s) + 1
      /\ \A p \in DOMAIN t : \/ p \in DOMAIN s /\ p <= Len(s) /\ t[p] = s[p]
                             \/ p = Len(s) + 1 /\ t[p] = e
  BY <1>3
<1>5. /\ done.posA \in Nat /\ done.posB \in Nat
      /\ \A p \in DOMAIN s : /\ End(s[p].range) <= done.posA
                             /\ ToSet(s[p].objects) \subseteq Before(b, done.posB)
      /\ \A p, q \in DOMAIN s :
           p < q => /\ End(s[p].range) <= s[q].range.location
                    /\ IsInjective(b) => ToSet(s[p].objects) \cap ToSet(s[q].objects) = {}
  BY <1>1 DEF EditsInOrder
<1>6. \A p \in DOMAIN s : End(s[p].range) \in Nat
  <2> TAKE p \in DOMAIN s
  <2>1. PICK r : r = s[p].range
    OBVIOUS
  <2>2. r \in Spans
    <3>1. s[p] \in ArrayEdits
      BY <1>3
    <3> QED
      BY <2>1, <3>1 DEF ArrayEdits
  <2> QED
    BY SMTT(30), <2>1, <2>2 DEF Spans, End
<1>7. /\ e.range.location \in Nat /\ End(e.range) \in Nat /\ e.range.location <= End(e.range)
  BY SMTT(30) DEF ArrayEdits, Spans, End
<1>8. Before(b, done.posB) \subseteq Before(b, next.posB)
  <2> SUFFICES ASSUME NEW n \in DOMAIN b, n <= done.posB
               PROVE  b[n] \in Before(b, next.posB)
    BY DEF Before
  <2>1. n \in Nat
    OBVIOUS
  <2>2. n <= next.posB
    BY <1>5, <2>1
  <2> QED
    BY <2>2 DEF Before
<1>9. ASSUME NEW p \in DOMAIN t
      PROVE  /\ End(t[p].range) <= next.posA
             /\ ToSet(t[p].objects) \subseteq Before(b, next.posB)
  <2>1. CASE p \in DOMAIN s /\ t[p] = s[p]
    <3>1. End(s[p].range) <= done.posA /\ ToSet(s[p].objects) \subseteq Before(b, done.posB)
      BY <1>5, <2>1
    <3>2. /\ End(s[p].range) \in Nat /\ done.posA \in Nat /\ e.range.location \in Nat
          /\ End(e.range) \in Nat /\ e.range.location <= End(e.range)
          /\ done.posA <= e.range.location /\ End(e.range) <= next.posA /\ next.posA \in Nat
      BY <1>5, <1>6, <1>7, <2>1
    <3>3. End(s[p].range) <= next.posA
      BY ONLY <3>1, <3>2
    <3> QED
      BY <1>8, <2>1, <3>1, <3>3
  <2>2. CASE t[p] = e
    BY <2>2
  <2> QED
    BY <1>4, <2>1, <2>2
<1>10. ASSUME NEW p \in DOMAIN t, NEW q \in DOMAIN t, p < q
       PROVE  /\ End(t[p].range) <= t[q].range.location
              /\ IsInjective(b) => ToSet(t[p].objects) \cap ToSet(t[q].objects) = {}
  <2>1. p \in DOMAIN s /\ t[p] = s[p]
    BY <1>3, <1>4, <1>10, SMTT(30)
  <2>2. CASE q \in DOMAIN s /\ t[q] = s[q]
    BY <1>5, <1>10, <2>1, <2>2
  <2>3. CASE t[q] = e
    <3>1. End(s[p].range) <= done.posA /\ ToSet(s[p].objects) \subseteq Before(b, done.posB)
      BY <1>5, <2>1
    <3>2. End(t[p].range) <= t[q].range.location
      <4>1. /\ End(s[p].range) \in Nat /\ done.posA \in Nat /\ e.range.location \in Nat
            /\ done.posA <= e.range.location
        BY <1>5, <1>6, <1>7, <2>1
      <4>2. End(s[p].range) <= e.range.location
        BY ONLY <3>1, <4>1
      <4> QED
        BY <2>1, <2>3, <4>2
    <3> QED
      BY <2>1, <2>3, <3>1, <3>2
  <2> QED
    BY <1>4, <2>2, <2>3
<1> QED
  BY <1>2, <1>3, <1>9, <1>10 DEF EditsInOrder

(* The elements of a range, and those that come before it.                 *)
LEMMA SubFacts ==
  ASSUME NEW b \in Seq(Value), NEW r \in Spans, End(r) <= Len(b), NEW y \in Nat, y <= r.location
  PROVE  /\ Sub(b, r) \in Seq(Value)
         /\ ToSet(Sub(b, r)) \subseteq Before(b, End(r))
         /\ IsInjective(b) => ToSet(Sub(b, r)) \cap Before(b, y) = {}
<1>1. /\ r.location \in Nat /\ r.length \in Nat /\ End(r) \in Nat /\ End(r) = r.location + r.length
      /\ Len(b) \in Nat /\ DOMAIN b = 1 .. Len(b)
  BY DEF Spans, End
<1>2. PICK lo : lo = r.location + 1
  OBVIOUS
<1>3. PICK hi : hi = End(r)
  OBVIOUS
<1>4. lo \in Nat /\ hi \in Nat /\ 1 <= lo /\ lo <= hi + 1 /\ hi <= Len(b)
  BY <1>1, <1>2, <1>3
<1>5. PICK t : t = SubSeq(b, lo, hi)
  OBVIOUS
<1>6. Sub(b, r) = t
  BY <1>2, <1>3, <1>5 DEF Sub
<1>7. /\ t \in Seq(Value) /\ DOMAIN t = 1 .. hi - lo + 1
      /\ \A i \in DOMAIN t : t[i] = b[lo + i - 1]
  <2>1. t \in Seq(Value) /\ Len(t) = IF lo <= hi THEN hi - lo + 1 ELSE 0
    BY <1>1, <1>4, <1>5
  <2>2. Len(t) = hi - lo + 1
    BY <1>4, <2>1
  <2>3. \A i \in 1 .. hi - lo + 1 : t[i] = b[lo + i - 1]
    BY <1>4, <1>5
  <2> QED
    BY <2>1, <2>2, <2>3
<1>8. \A i \in DOMAIN t : \E n \in DOMAIN b : lo <= n /\ n <= hi /\ t[i] = b[n]
  <2> TAKE i \in DOMAIN t
  <2>1. PICK n : n = lo + i - 1
    OBVIOUS
  <2>2. i \in Int /\ 1 <= i /\ i <= hi - lo + 1
    BY <1>4, <1>7
  <2>3. n \in Int /\ lo <= n /\ n <= hi
    BY ONLY <1>4, <2>1, <2>2
  <2>4. n \in DOMAIN b
    <3>1. 1 <= n /\ n <= Len(b)
      BY <1>1, <1>4, <2>3
    <3> QED
      BY <1>1, <2>3, <3>1
  <2>5. t[i] = b[n]
    BY <1>7, <2>1
  <2>6. n \in DOMAIN b /\ lo <= n /\ n <= hi /\ t[i] = b[n]
    BY <2>3, <2>4, <2>5
  <2> QED
    BY <2>6
<1>9. ToSet(t) \subseteq Before(b, hi)
  BY <1>8 DEF ToSet, Before
<1>10. ASSUME IsInjective(b)
       PROVE  ToSet(t) \cap Before(b, y) = {}
  <2> SUFFICES ASSUME NEW i \in DOMAIN t, NEW m \in DOMAIN b, m <= y, t[i] = b[m]
               PROVE  FALSE
    BY DEF ToSet, Before
  <2>1. PICK n \in DOMAIN b : lo <= n /\ n <= hi /\ t[i] = b[n]
    BY <1>8
  <2>2. m = n
    BY <1>10, <2>1 DEF IsInjective
  <2> QED
    BY <1>1, <1>2, <2>1, <2>2
<1> QED
  BY <1>3, <1>6, <1>7, <1>9, <1>10

(* A turn that goes on to positions x and y, and makes an edit e           *)
IsTurn(b, A, B, done, next, x, y, e) ==
  LET atA == done.i <= Len(A) /\ A[done.i].location = x
      atB == done.j <= Len(B) /\ B[done.j].location = y
  IN /\ atA \/ atB
     /\ done.i <= Len(A) => x <= A[done.i].location
     /\ done.j <= Len(B) => y <= B[done.j].location
     /\ next.i = IF atA THEN done.i + 1 ELSE done.i
     /\ next.j = IF atB THEN done.j + 1 ELSE done.j
     /\ next.posA = IF atA THEN End(A[done.i]) ELSE x
     /\ next.posB = IF atB THEN End(B[done.j]) ELSE y
     /\ next.edits = Append(done.edits, e)
     /\ e \in ArrayEdits
     /\ e.kind = IF atA THEN (IF atB THEN "modification" ELSE "deletion") ELSE "insertion"
     /\ e.range = IF atA THEN A[done.i] ELSE Span(x, 0)
     /\ e.objects = IF atB THEN Sub(b, B[done.j]) ELSE << >>

(* A turn of the loop.                                                     *)
LEMMA EmitEditInOrder ==
  ASSUME NEW la \in Nat, NEW A, AreApart(A, 0, la), NEW b \in Seq(Value), NEW B, AreApart(B, 0, Len(b)),
         NEW done, EditsInOrder(b, A, B, done), ~ (done.i > Len(A) /\ done.j > Len(B)),
         NEW next, next = EmitEdit(b, A, B, done)
  PROVE  /\ EditsInOrder(b, A, B, next)
         /\ \E c \in Nat : \E e : IsTurn(b, A, B, done, next, done.posA + c, done.posB + c, e)
<1>1. PICK i : i = done.i
  OBVIOUS
<1>2. PICK j : j = done.j
  OBVIOUS
<1>3. PICK pA : pA = done.posA
  OBVIOUS
<1>4. PICK pB : pB = done.posB
  OBVIOUS
<1>5. /\ A \in Seq(Spans) /\ Len(A) \in Nat /\ DOMAIN A = 1 .. Len(A)
      /\ B \in Seq(Spans) /\ Len(B) \in Nat /\ DOMAIN B = 1 .. Len(B)
  BY DEF AreApart
<1>6. /\ i \in Int /\ 1 <= i /\ i <= Len(A) + 1 /\ j \in Int /\ 1 <= j /\ j <= Len(B) + 1
      /\ pA \in Nat /\ pB \in Nat
      /\ i <= Len(A) => pA <= A[i].location
      /\ j <= Len(B) => pB <= B[j].location
      /\ i <= Len(A) \/ j <= Len(B)
  BY <1>1, <1>2, <1>3, <1>4, <1>5 DEF EditsInOrder
<1>7. i <= Len(A) => /\ A[i] \in Spans /\ A[i].location \in Nat /\ A[i].length \in Nat
                     /\ End(A[i]) \in Nat /\ End(A[i]) = A[i].location + A[i].length
                     /\ i + 1 <= Len(A) => End(A[i]) <= A[i + 1].location
  <2> HAVE i <= Len(A)
  <2>1. i \in DOMAIN A
    BY <1>5, <1>6
  <2>2. A[i] \in Spans
    BY <1>5, <2>1
  <2>3. /\ A[i].location \in Nat /\ A[i].length \in Nat
        /\ End(A[i]) \in Nat /\ End(A[i]) = A[i].location + A[i].length
    BY <2>2 DEF Spans, End
  <2>4. i + 1 <= Len(A) => i + 1 \in DOMAIN A /\ i < i + 1
    BY <1>5, <1>6
  <2>5. i + 1 <= Len(A) => End(A[i]) <= A[i + 1].location
    BY <2>1, <2>4 DEF AreApart
  <2> QED
    BY <2>2, <2>3, <2>5
<1>8. j <= Len(B) => /\ B[j] \in Spans /\ B[j].location \in Nat /\ B[j].length \in Nat
                     /\ End(B[j]) \in Nat /\ End(B[j]) = B[j].location + B[j].length
                     /\ End(B[j]) <= Len(b)
                     /\ j + 1 <= Len(B) => End(B[j]) <= B[j + 1].location
  <2> HAVE j <= Len(B)
  <2>1. j \in DOMAIN B
    BY <1>5, <1>6
  <2>2. B[j] \in Spans
    BY <1>5, <2>1
  <2>3. /\ B[j].location \in Nat /\ B[j].length \in Nat
        /\ End(B[j]) \in Nat /\ End(B[j]) = B[j].location + B[j].length
    BY <2>2 DEF Spans, End
  <2>4. j + 1 <= Len(B) => j + 1 \in DOMAIN B /\ j < j + 1
    BY <1>5, <1>6
  <2>5. j + 1 <= Len(B) => End(B[j]) <= B[j + 1].location
    BY <2>1, <2>4 DEF AreApart
  <2>6. End(B[j]) <= Len(b)
    BY <2>1 DEF AreApart
  <2> QED
    BY <2>2, <2>3, <2>5, <2>6
<1>9. PICK c : c = CanCopy(A, B, done)
  OBVIOUS
<1>10. /\ c \in Nat
       /\ i <= Len(A) => pA + c <= A[i].location
       /\ j <= Len(B) => pB + c <= B[j].location
       /\ \/ i <= Len(A) /\ pA + c = A[i].location
          \/ j <= Len(B) /\ pB + c = B[j].location
  <2> DEFINE S == (IF i > Len(A) THEN {} ELSE {A[i].location - pA})
                    \cup (IF j > Len(B) THEN {} ELSE {B[j].location - pB})
  <2>1. c = Min(S)
    BY <1>1, <1>2, <1>3, <1>4, <1>9 DEF CanCopy
  <2>2. /\ i <= Len(A) => A[i].location - pA \in S
        /\ j <= Len(B) => B[j].location - pB \in S
        /\ \A x \in S : \/ i <= Len(A) /\ x = A[i].location - pA
                        \/ j <= Len(B) /\ x = B[j].location - pB
    <3>1. i > Len(A) <=> ~ (i <= Len(A))
      BY <1>5, <1>6
    <3>2. j > Len(B) <=> ~ (j <= Len(B))
      BY <1>5, <1>6
    <3>3. PICK u : u = A[i].location - pA
      OBVIOUS
    <3>4. PICK v : v = B[j].location - pB
      OBVIOUS
    <3> QED
      BY ONLY <3>1, <3>2, <3>3, <3>4
  <2>3. /\ i <= Len(A) => A[i].location \in Int /\ A[i].location - pA \in Nat
        /\ j <= Len(B) => B[j].location \in Int /\ B[j].location - pB \in Nat
        /\ pA \in Int /\ pB \in Int
    <3>1. i <= Len(A) => A[i].location \in Nat /\ pA <= A[i].location
      BY <1>6, <1>7
    <3>2. j <= Len(B) => B[j].location \in Nat /\ pB <= B[j].location
      BY <1>6, <1>8
    <3>3. pA \in Nat /\ pB \in Nat
      BY <1>6
    <3> QED
      BY ONLY <3>1, <3>2, <3>3
  <2>4. S \in SUBSET Int /\ S # {} /\ 0 \in Int /\ \A x \in S : 0 <= x
    <3>1. \A x \in S : x \in Nat
      <4> HIDE DEF S
      <4> QED
        BY <2>2, <2>3
    <3>2. S # {}
      <4> HIDE DEF S
      <4> QED
        BY <1>6, <2>2
    <3> HIDE DEF S
    <3> QED
      BY <3>1, <3>2
  <2>5. c \in S /\ \A x \in S : c <= x
    <3> HIDE DEF S
    <3> QED
      BY <2>1, <2>4, LeastInteger
  <2> HIDE DEF S
  <2>6. c \in Nat
    BY <2>4, <2>5
  <2>7. i <= Len(A) => pA + c <= A[i].location
    <3> HAVE i <= Len(A)
    <3>1. c <= A[i].location - pA
      BY <2>2, <2>5
    <3>2. A[i].location \in Int /\ pA \in Int
      BY <2>3
    <3> QED
      BY ONLY <2>6, <3>1, <3>2
  <2>8. j <= Len(B) => pB + c <= B[j].location
    <3> HAVE j <= Len(B)
    <3>1. c <= B[j].location - pB
      BY <2>2, <2>5
    <3>2. B[j].location \in Int /\ pB \in Int
      BY <2>3
    <3> QED
      BY ONLY <2>6, <3>1, <3>2
  <2>9. CASE i <= Len(A) /\ c = A[i].location - pA
    <3>1. pA + c = A[i].location
      <4>1. A[i].location \in Int /\ pA \in Int
        BY <2>3, <2>9
      <4> QED
        BY ONLY <2>9, <4>1
    <3> QED
      BY <2>6, <2>7, <2>8, <2>9, <3>1
  <2>10. CASE j <= Len(B) /\ c = B[j].location - pB
    <3>1. pB + c = B[j].location
      <4>1. B[j].location \in Int /\ pB \in Int
        BY <2>3, <2>10
      <4> QED
        BY ONLY <2>10, <4>1
    <3> QED
      BY <2>6, <2>7, <2>8, <2>10, <3>1
  <2> QED
    BY <2>2, <2>5, <2>9, <2>10
<1>11. PICK x : x = pA + c
  OBVIOUS
<1>12. PICK y : y = pB + c
  OBVIOUS
<1>13. x \in Nat /\ y \in Nat /\ pA <= x /\ pB <= y
  <2>1. pA \in Nat /\ pB \in Nat /\ c \in Nat
    BY <1>6, <1>10
  <2> QED
    BY ONLY <1>11, <1>12, <2>1
<1> DEFINE atA == i <= Len(A) /\ A[i].location = x
           atB == j <= Len(B) /\ B[j].location = y
           edit == CASE atA /\ atB  -> Edit("modification", A[i], Sub(b, B[j]))
                     [] atA /\ ~atB -> Edit("deletion", A[i], << >>)
                     [] atB /\ ~atA -> Edit("insertion", Span(x, 0), Sub(b, B[j]))
<1>14. PICK e : e = edit
  OBVIOUS
<1>16. next = [i    |-> IF atA THEN i + 1 ELSE i,
               j    |-> IF atB THEN j + 1 ELSE j,
               posA |-> IF atA THEN End(A[i]) ELSE x,
               posB |-> IF atB THEN End(B[j]) ELSE y,
               edits |-> Append(done.edits, e)]
  BY <1>1, <1>2, <1>3, <1>4, <1>9, <1>11, <1>12, <1>14 DEF EmitEdit
<1>17. atA \/ atB
  BY <1>10, <1>11, <1>12
<1>18. PICK inA : inA = atA
  OBVIOUS
<1>19. PICK inB : inB = atB
  OBVIOUS
<1>20. /\ next.i = IF atA THEN i + 1 ELSE i
       /\ next.j = IF atB THEN j + 1 ELSE j
       /\ next.posA = IF atA THEN End(A[i]) ELSE x
       /\ next.posB = IF atB THEN End(B[j]) ELSE y
       /\ next.edits = Append(done.edits, e)
  <2> HIDE DEF atA, atB
  <2> QED
    BY <1>16
<1>21. /\ next.i \in 1 .. Len(A) + 1 /\ next.posA \in Nat /\ x <= next.posA
       /\ next.i <= Len(A) => next.posA <= A[next.i].location
  <2>1. CASE atA
    <3>1. next.i = i + 1 /\ next.posA = End(A[i])
      BY <1>20, <2>1
    <3> QED
      BY SMTT(30), <1>5, <1>6, <1>7, <1>13, <2>1, <3>1
  <2>2. CASE ~ atA
    <3>1. next.i = i /\ next.posA = x
      BY <1>20, <2>2
    <3> QED
      BY <1>5, <1>6, <1>10, <1>11, <1>13, <3>1
  <2> QED
    BY <2>1, <2>2
<1>22. /\ next.j \in 1 .. Len(B) + 1 /\ next.posB \in Nat /\ y <= next.posB
       /\ next.j <= Len(B) => next.posB <= B[next.j].location
  <2>1. CASE atB
    <3>1. next.j = j + 1 /\ next.posB = End(B[j])
      BY <1>20, <2>1
    <3> QED
      BY <1>5, <1>6, <1>8, <1>13, <2>1, <3>1
  <2>2. CASE ~ atB
    <3>1. next.j = j /\ next.posB = y
      BY <1>20, <2>2
    <3> QED
      BY <1>5, <1>6, <1>10, <1>12, <1>13, <3>1
  <2> QED
    BY <2>1, <2>2
<1>23. atB => /\ Sub(b, B[j]) \in Seq(Value)
              /\ ToSet(Sub(b, B[j])) \subseteq Before(b, End(B[j]))
              /\ IsInjective(b) => ToSet(Sub(b, B[j])) \cap Before(b, pB) = {}
  BY <1>6, <1>8, SubFacts
<1>24. /\ e.kind \in SequenceEdit
       /\ e.kind = IF atA THEN (IF atB THEN "modification" ELSE "deletion") ELSE "insertion"
       /\ e.range = IF atA THEN A[i] ELSE Span(x, 0)
       /\ e.objects = IF atB THEN Sub(b, B[j]) ELSE << >>
       /\ e = Edit(e.kind, e.range, e.objects)
  <2>1. ASSUME NEW kind, NEW range, NEW objects
        PROVE  /\ Edit(kind, range, objects).kind = kind /\ Edit(kind, range, objects).range = range
               /\ Edit(kind, range, objects).objects = objects
    BY DEF Edit
  <2>2. CASE atA /\ atB
    <3>1. e = Edit("modification", A[i], Sub(b, B[j]))
      <4> HIDE DEF atA, atB
      <4> QED
        BY <1>14, <2>2
    <3> HIDE DEF atA, atB
    <3> QED
      BY <2>1, <2>2, <3>1 DEF SequenceEdit
  <2>3. CASE atA /\ ~ atB
    <3>1. e = Edit("deletion", A[i], << >>)
      <4> HIDE DEF atA, atB
      <4> QED
        BY <1>14, <2>3
    <3> HIDE DEF atA, atB
    <3> QED
      BY <2>1, <2>3, <3>1 DEF SequenceEdit
  <2>4. CASE atB /\ ~ atA
    <3>1. e = Edit("insertion", Span(x, 0), Sub(b, B[j]))
      <4> HIDE DEF atA, atB
      <4> QED
        BY <1>14, <2>4
    <3> HIDE DEF atA, atB
    <3> QED
      BY <2>1, <2>4, <3>1 DEF SequenceEdit
  <2> HIDE DEF atA, atB
  <2> QED
    BY <1>17, <2>2, <2>3, <2>4
<1>25. e.range \in Spans /\ e.range.location = x /\ End(e.range) <= next.posA
  <2>1. CASE atA
    <3>1. e.range = A[i] /\ next.posA = End(A[i])
      BY <1>20, <1>24, <2>1
    <3> QED
      BY <1>7, <2>1, <3>1
  <2>2. CASE ~ atA
    <3>1. e.range = Span(x, 0) /\ next.posA = x
      BY <1>20, <1>24, <2>2
    <3> QED
      BY <1>13, <3>1 DEF Span, Spans, End
  <2> QED
    BY <2>1, <2>2
<1>26. /\ e.objects \in Seq(Value) /\ ToSet(e.objects) \subseteq Before(b, next.posB)
       /\ IsInjective(b) => ToSet(e.objects) \cap Before(b, pB) = {}
  <2>1. CASE atB
    <3>1. e.objects = Sub(b, B[j]) /\ next.posB = End(B[j])
      BY <1>20, <1>24, <2>1
    <3> HIDE DEF atA, atB
    <3> QED
      BY <1>23, <2>1, <3>1
  <2>2. CASE ~ atB
    <3>1. e.objects = << >>
      BY <1>24, <2>2
    <3>2. ToSet(<< >>) = {}
      BY DEF ToSet
    <3> QED
      BY <3>1, <3>2
  <2> HIDE DEF atA, atB
  <2> QED
    BY <2>1, <2>2
<1>27. e \in ArrayEdits
  BY <1>24, <1>25, <1>26 DEF ArrayEdits, Edit
<1>28. pA <= e.range.location /\ pB <= next.posB
  BY <1>6, <1>13, <1>22, <1>25
<1>29. IsTurn(b, A, B, done, next, x, y, e)
  <2> HIDE DEF edit
  <2> QED
    BY <1>1, <1>2, <1>10, <1>11, <1>12, <1>17, <1>20, <1>24, <1>27 DEF IsTurn
<1> HIDE DEF atA, atB, edit
<1>30. EditsInOrder(b, A, B, next)
  BY <1>3, <1>4, <1>20, <1>21, <1>22, <1>25, <1>26, <1>27, <1>28, AppendEdit
<1> QED
  BY <1>3, <1>4, <1>10, <1>11, <1>12, <1>29, <1>30

DiffStart == [i |-> 1, j |-> 1, posA |-> 0, posB |-> 0, edits |-> << >>]

NextTurn(b, A, B, d) == IF d.i > Len(A) /\ d.j > Len(B) THEN d ELSE EmitEdit(b, A, B, d)

AreTurns(b, A, B, f) ==
  f = [n \in 0 .. Len(A) + Len(B) |-> IF n = 0 THEN DiffStart ELSE NextTurn(b, A, B, f[n - 1])]

AllTurns(b, A, B) == CHOOSE f : AreTurns(b, A, B, f)

(* The turns of the loop.                                                  *)
LEMMA TurnRounds ==
  ASSUME NEW b, NEW A, NEW B, Len(A) + Len(B) \in Int, Len(A) + Len(B) >= 0
  PROVE  AreTurns(b, A, B, AllTurns(b, A, B))
<1> DEFINE Is(f, K) == f = [k \in 0 .. K |-> IF k = 0 THEN DiffStart
                                            ELSE NextTurn(b, A, B, f[k - 1])]
           Bad == {n \in Nat : n + 0 <= Len(A) + Len(B) /\ ~ \E f : Is(f, n + 0)}
<1>1. Bad = {}
  <2> SUFFICES ASSUME Bad # {}
               PROVE  FALSE
    OBVIOUS
  <2>1. PICK n \in Bad : \A k \in Bad : n <= k
    <3>1. Bad \in SUBSET Nat
      OBVIOUS
    <3> HIDE DEF Bad
    <3> QED
      BY <3>1, LeastNumber
  <2> DEFINE K == n + 0
  <2>2. n \in Nat /\ K \in Int /\ 0 <= K /\ K <= Len(A) + Len(B) /\ ~ \E f : Is(f, K)
    <3>1. n \in Nat /\ n + 0 <= Len(A) + Len(B) /\ ~ \E f : Is(f, n + 0)
      <4> HIDE DEF Is, K
      <4> QED
        OBVIOUS
    <3>2. K \in Int /\ 0 <= K
      <4> HIDE DEF Is, Bad
      <4> QED
        BY <3>1
    <3> HIDE DEF Is, Bad
    <3> QED
      BY <3>1, <3>2
  <2>3. K # 0
    <3> DEFINE f == [k \in 0 .. 0 |-> DiffStart]
    <3>1. Is(f, 0)
      <4>1. \A k \in 0 .. 0 : k = 0
        OBVIOUS
      <4> QED
        BY <4>1
    <3> HIDE DEF Is
    <3> QED
      BY <2>2, <3>1
  <2>4. n - 1 \in Nat /\ n - 1 \notin Bad /\ (n - 1) + 0 = K - 1 /\ K - 1 <= Len(A) + Len(B) /\ 0 <= K - 1
    <3>1. n - 1 \in Nat /\ ~ (n <= n - 1) /\ (n - 1) + 0 = K - 1 /\ K - 1 <= Len(A) + Len(B) /\ 0 <= K - 1
      BY <2>2, <2>3
    <3> HIDE DEF Bad
    <3> QED
      BY <2>1, <3>1
  <2>5. PICK f : Is(f, K - 1)
    <3>1. \E f : Is(f, (n - 1) + 0)
      <4> HIDE DEF Is, K
      <4> QED
        BY <2>4
    <3> HIDE DEF Is, K
    <3> QED
      BY <2>4, <3>1
  <2> HIDE DEF K
  <2> DEFINE g == [k \in 0 .. K |-> IF k = K THEN NextTurn(b, A, B, f[K - 1]) ELSE f[k]]
  <2>6. \A k \in 0 .. K : g[k] = IF k = 0 THEN DiffStart ELSE NextTurn(b, A, B, g[k - 1])
    <3> TAKE k \in 0 .. K
    <3>1. f = [j \in 0 .. K - 1 |-> IF j = 0 THEN DiffStart
                                    ELSE NextTurn(b, A, B, f[j - 1])]
      BY <2>5
    <3>2. CASE k = K
      <4>1. K - 1 \in 0 .. K /\ K - 1 # K /\ k # 0
        BY <2>2, <2>3, <3>2
      <4>2. g[K - 1] = f[K - 1] /\ g[k] = NextTurn(b, A, B, f[K - 1])
        BY <3>2, <4>1
      <4> HIDE DEF g
      <4> QED
        BY <3>2, <4>1, <4>2
    <3>3. CASE k # K
      <4>1. k \in 0 .. K - 1 /\ g[k] = f[k]
        BY <2>2, <3>3
      <4>2. f[k] = IF k = 0 THEN DiffStart ELSE NextTurn(b, A, B, f[k - 1])
        BY <3>1, <4>1
      <4>3. k # 0 => g[k - 1] = f[k - 1]
        <5>1. k # 0 => k - 1 \in 0 .. K /\ k - 1 # K
          BY <2>2, <3>3
        <5> QED
          BY <5>1
      <4> HIDE DEF g
      <4> QED
        BY <4>1, <4>2, <4>3
    <3> QED
      BY <3>2, <3>3
  <2>7. Is(g, K)
    <3>1. g = [k \in 0 .. K |-> g[k]]
      OBVIOUS
    <3> HIDE DEF g
    <3> QED
      BY <2>6, <3>1
  <2> HIDE DEF Is, g
  <2> QED
    BY <2>2, <2>7
<1>2. \E f : AreTurns(b, A, B, f)
  <2>1. Len(A) + Len(B) - (0) \in Nat /\ (Len(A) + Len(B) - (0)) + 0 = Len(A) + Len(B) /\ Len(A) + Len(B) <= Len(A) + Len(B)
    OBVIOUS
  <2>2. \E f : Is(f, Len(A) + Len(B))
    <3>1. \E f : Is(f, (Len(A) + Len(B) - (0)) + 0)
      <4> HIDE DEF Is
      <4> QED
        BY <1>1, <2>1
    <3> HIDE DEF Is
    <3> QED
      BY <2>1, <3>1
  <2> QED
    BY <2>2 DEF AreTurns
<1>3. PICK f : f = AllTurns(b, A, B)
  OBVIOUS
<1>4. AllTurns(b, A, B) = CHOOSE g : AreTurns(b, A, B, g)
  BY DEF AllTurns, AreTurns
<1>5. AreTurns(b, A, B, f)
  BY <1>2, <1>3, <1>4
<1> QED
  BY <1>3, <1>5

(* All turns of the loop                                                   *)
TurnsInOrder(b, A, B, N, f) ==
  /\ N \in Nat
  /\ CreateDiffs(b, A, B) = f[N].edits
  /\ f[0] = DiffStart /\ \A n \in 1 .. N : f[n] = NextTurn(b, A, B, f[n - 1])
  /\ \A n \in 0 .. N : EditsInOrder(b, A, B, f[n])

(* The loop.                                                               *)
LEMMA CreateDiffsInOrder ==
  ASSUME NEW la \in Nat, NEW A, AreApart(A, 0, la), NEW b \in Seq(Value), NEW B, AreApart(B, 0, Len(b)),
         NEW N, N = Len(A) + Len(B), NEW f, f = AllTurns(b, A, B)
  PROVE  TurnsInOrder(b, A, B, N, f)
<1>3. /\ A \in Seq(Spans) /\ Len(A) \in Nat /\ DOMAIN A = 1 .. Len(A)
      /\ B \in Seq(Spans) /\ Len(B) \in Nat /\ DOMAIN B = 1 .. Len(B)
      /\ N \in Nat
  BY DEF AreApart
<1>4. CreateDiffs(b, A, B) = f[N].edits
  BY DEF CreateDiffs, AllTurns, AreTurns, NextTurn, DiffStart
<1>5. f = [n \in 0 .. N |-> IF n = 0 THEN DiffStart ELSE NextTurn(b, A, B, f[n - 1])]
  <2>1. Len(A) + Len(B) \in Int /\ Len(A) + Len(B) >= 0
    BY <1>3
  <2>2. AreTurns(b, A, B, f)
    BY <2>1, TurnRounds
  <2> QED
    BY <2>2 DEF AreTurns
<1>6. f[0] = DiffStart /\ \A n \in 1 .. N : f[n] = NextTurn(b, A, B, f[n - 1])
  <2>1. 0 \in 0 .. N /\ \A n \in 1 .. N : n \in 0 .. N /\ n # 0
    BY <1>3
  <2> QED
    BY <1>5, <2>1
<1>7. EditsInOrder(b, A, B, DiffStart)
  <2>1. PICK d : d = DiffStart
    OBVIOUS
  <2>2. d.i = 1 /\ d.j = 1 /\ d.posA = 0 /\ d.posB = 0 /\ d.edits = << >>
    BY <2>1 DEF DiffStart
  <2>3. d.i \in 1 .. Len(A) + 1 /\ d.j \in 1 .. Len(B) + 1
    BY <1>3, <2>2
  <2>4. 1 <= Len(A) => 0 <= A[1].location
    <3> HAVE 1 <= Len(A)
    <3>1. A[1] \in Spans
      BY <1>3
    <3> QED
      BY <3>1 DEF Spans
  <2>5. 1 <= Len(B) => 0 <= B[1].location
    <3> HAVE 1 <= Len(B)
    <3>1. B[1] \in Spans
      BY <1>3
    <3> QED
      BY <3>1 DEF Spans
  <2>6. << >> \in Seq(ArrayEdits) /\ DOMAIN << >> = {}
    OBVIOUS
  <2> QED
    BY <2>1, <2>2, <2>3, <2>4, <2>5, <2>6 DEF EditsInOrder
<1>8. \A n \in 0 .. N : EditsInOrder(b, A, B, f[n])
  <2> DEFINE Bad == {n \in 0 .. N : ~ EditsInOrder(b, A, B, f[n])}
  <2> SUFFICES ASSUME Bad # {}
               PROVE  FALSE
    OBVIOUS
  <2>1. Bad \in SUBSET Nat
    OBVIOUS
  <2>2. PICK n \in Bad : \A k \in Bad : n <= k
    <3> HIDE DEF Bad
    <3> QED
      BY <2>1, LeastNumber
  <2>3. n \in 0 .. N /\ ~ EditsInOrder(b, A, B, f[n])
    OBVIOUS
  <2>4. n # 0
    BY <1>6, <1>7, <2>3
  <2>5. n \in 1 .. N /\ n - 1 \in 0 .. N /\ ~ (n <= n - 1)
    BY <1>3, <2>3, <2>4
  <2>6. n - 1 \notin Bad
    <3> HIDE DEF Bad
    <3> QED
      BY <2>2, <2>5
  <2>7. EditsInOrder(b, A, B, f[n - 1])
    BY <2>5, <2>6
  <2> HIDE DEF Bad
  <2>8. PICK d : d = f[n - 1]
    OBVIOUS
  <2>9. EditsInOrder(b, A, B, NextTurn(b, A, B, d))
    <3>1. CASE d.i > Len(A) /\ d.j > Len(B)
      BY <2>7, <2>8, <3>1 DEF NextTurn
    <3>2. CASE ~ (d.i > Len(A) /\ d.j > Len(B))
      <4>1. NextTurn(b, A, B, d) = EmitEdit(b, A, B, d)
        BY <3>2 DEF NextTurn
      <4>2. EditsInOrder(b, A, B, EmitEdit(b, A, B, d))
        BY <2>7, <2>8, <3>2, EmitEditInOrder, ZenonT(30)
      <4> QED
        BY <4>1, <4>2
    <3> QED
      BY <3>1, <3>2
  <2> QED
    BY <1>6, <2>3, <2>5, <2>8, <2>9
<1> QED
  BY <1>3, <1>4, <1>6, <1>8 DEF TurnsInOrder

(* The edits that make one array of another are of their kinds, of ranges  *)
(* that do not overlap, and insert distinct parts of the new array.        *)
THEOREM DiffArraysFacts ==
  ASSUME NEW a \in Seq(Value), NEW b \in Seq(Value), NEW E, E = ToSet(DiffArrays(a, b))
  PROVE  /\ E \subseteq ArrayEdits
         /\ \A e, f \in E : e # f => /\ ~ Overlaps(e, f)
                                     /\ IsInjective(b) => ToSet(e.objects) \cap ToSet(f.objects) = {}
         /\ \A e \in E : ToSet(e.objects) \subseteq ToSet(b)
<1>1. PICK A : A = Modified(LCS(a, b).A)
  OBVIOUS
<1>2. PICK B : B = Modified(LCS(a, b).B)
  OBVIOUS
<1>3. Len(a) \in Nat /\ Len(b) \in Nat
  OBVIOUS
<1>4. AreApart(A, 0, Len(a)) /\ AreApart(B, 0, Len(b))
  <2>1. AreApart(LCS(a, b).A, 0, Len(a)) /\ AreApart(LCS(a, b).B, 0, Len(b))
    BY <1>3, LCSFacts
  <2>2. AreApart(A, 0, Len(a))
    BY <1>1, <1>3, <2>1, ModifiedApart
  <2>3. AreApart(B, 0, Len(b))
    BY <1>2, <1>3, <2>1, ModifiedApart
  <2> QED
    BY <2>2, <2>3
<1>5. DiffArrays(a, b) = CreateDiffs(b, A, B)
  BY <1>1, <1>2 DEF DiffArrays
<1>6. PICK done : EditsInOrder(b, A, B, done) /\ CreateDiffs(b, A, B) = done.edits
  <2>1. PICK N : N = Len(A) + Len(B)
    OBVIOUS
  <2>2. PICK f : f = AllTurns(b, A, B)
    OBVIOUS
  <2>3. TurnsInOrder(b, A, B, N, f)
    BY <1>3, <1>4, <2>1, <2>2, CreateDiffsInOrder
  <2>4. N \in 0 .. N
    BY <2>3 DEF TurnsInOrder
  <2> QED
    BY <2>3, <2>4 DEF TurnsInOrder
<1>7. PICK s : s = done.edits
  OBVIOUS
<1>8. E = {s[p] : p \in DOMAIN s}
  BY <1>5, <1>6, <1>7 DEF ToSet
<1>9. s \in Seq(ArrayEdits) /\ DOMAIN s = 1 .. Len(s) /\ Len(s) \in Nat
  BY <1>6, <1>7 DEF EditsInOrder
<1>10. E \subseteq ArrayEdits
  BY <1>8, <1>9
<1>11. ASSUME NEW p \in DOMAIN s, NEW q \in DOMAIN s, p < q
       PROVE  /\ ~ Overlaps(s[p], s[q]) /\ ~ Overlaps(s[q], s[p])
              /\ IsInjective(b) => ToSet(s[p].objects) \cap ToSet(s[q].objects) = {}
  <2>1. /\ End(s[p].range) <= s[q].range.location
        /\ IsInjective(b) => ToSet(s[p].objects) \cap ToSet(s[q].objects) = {}
    BY <1>6, <1>7, <1>11 DEF EditsInOrder
  <2>2. PICK r : r = s[p].range
    OBVIOUS
  <2>3. PICK t : t = s[q].range
    OBVIOUS
  <2>4. r \in Spans /\ t \in Spans
    <3>1. s[p] \in ArrayEdits /\ s[q] \in ArrayEdits
      BY <1>9
    <3> QED
      BY <2>2, <2>3, <3>1 DEF ArrayEdits
  <2>5. /\ r.location \in Nat /\ r.length \in Nat /\ End(r) = r.location + r.length
        /\ t.location \in Nat /\ t.length \in Nat /\ End(t) = t.location + t.length
    BY <2>4 DEF Spans, End
  <2>6. ~ BeginsIn(r, t) /\ ~ BeginsIn(t, r)
    BY <2>1, <2>2, <2>3, <2>5 DEF BeginsIn
  <2> QED
    BY <2>1, <2>2, <2>3, <2>6 DEF Overlaps
<1>12. ASSUME NEW e \in E, NEW f \in E, e # f
       PROVE  ~ Overlaps(e, f) /\ (IsInjective(b) => ToSet(e.objects) \cap ToSet(f.objects) = {})
  <2>1. PICK p \in DOMAIN s : e = s[p]
    BY <1>8
  <2>2. PICK q \in DOMAIN s : f = s[q]
    BY <1>8
  <2>3. p < q \/ q < p
    BY <1>9, <1>12, <2>1, <2>2
  <2>4. ToSet(e.objects) \cap ToSet(f.objects) = ToSet(f.objects) \cap ToSet(e.objects)
    OBVIOUS
  <2> QED
    BY <1>11, <2>1, <2>2, <2>3, <2>4
<1>13. \A e \in E : ToSet(e.objects) \subseteq ToSet(b)
  <2> TAKE e \in E
  <2>1. PICK p \in DOMAIN s : e = s[p]
    BY <1>8
  <2>2. ToSet(e.objects) \subseteq Before(b, done.posB)
    BY <1>6, <1>7, <2>1 DEF EditsInOrder
  <2>3. Before(b, done.posB) \subseteq ToSet(b)
    BY DEF Before, ToSet
  <2> QED
    BY <2>2, <2>3
<1> QED
  BY <1>10, <1>12, <1>13

-----------------------------------------------------------------------------
(* The edits of one side *)

(* The elements of a finite set, in some order, once each.                 *)
LEMMA SetToSeqFacts ==
  ASSUME NEW S, IsFiniteSet(S)
  PROVE  /\ SetToSeq(S) \in Seq(S)
         /\ ToSet(SetToSeq(S)) = S
<1> DEFINE n == Cardinality(S)
<1>1. n \in Nat /\ ExistsBijection(1 .. n, S)
  BY FS_CardinalityType
<1>2. PICK f : f \in Bijection(1 .. n, S)
  BY <1>1 DEF ExistsBijection
<1>3. f \in [1 .. n -> S] /\ IsInjective(f)
  BY <1>2 DEF Bijection, Injection
<1>4. SetToSeq(S) \in [1 .. n -> S] /\ IsInjective(SetToSeq(S))
  BY <1>3 DEF SetToSeq
<1>5. SetToSeq(S) \in Injection(1 .. n, S)
  BY <1>4 DEF Injection
<1>6. Cardinality(1 .. n) = n
  BY <1>1, FS_Interval
<1>7. SetToSeq(S) \in Surjection(1 .. n, S)
  BY <1>5, <1>6, FS_Injection
<1>8. SetToSeq(S) \in Seq(S)
  BY <1>1, <1>4
<1>9. ToSet(SetToSeq(S)) = S
  BY <1>4, <1>7 DEF Surjection, ToSet
<1> QED
  BY <1>8, <1>9

(* The items that graph g has in attribute t *)
Items(g, t) == IF t \in DOMAIN g THEN ToSet(Elements(t, g[t])) ELSE {}

Kind == SequenceEdit \cup SetEdit \cup {"setAttribute", "deleteAttribute"}

EditValues == [kind : Kind, range : Spans, objects : Seq(Value)]

(* Two edits that one difference can have of an attribute t                *)
GoTogether(t, e, f) ==
  /\ SameKind(e, f)
  /\ {e.kind, f.kind} \subseteq SequenceEdit => ~ Overlaps(e, f)
  /\ {e.kind, f.kind} # {"setAttribute"}
  /\ t \in Composite /\ e.kind \notin {"deletion", "setDeletion"}
       /\ f.kind \notin {"deletion", "setDeletion"} => ToSet(e.objects) \cap ToSet(f.objects) = {}

(* The edits that a difference has of one attribute: they do not contradict*)
(* each other, and insert elements of the new value only.                  *)
AttributeFacts(t, b, E) ==
  /\ E \subseteq EditValues
  /\ \A e \in E : e.kind \notin {"deletion", "setDeletion"} => ToSet(e.objects) \subseteq Items(b, t)
  /\ \A e, f \in E : e # f => GoTogether(t, e, f)

(* One edit goes with itself.                                              *)
LEMMA OneEdit ==
  ASSUME NEW t, NEW b, NEW kind \in {"setAttribute", "deleteAttribute"}, NEW s \in Seq(Value),
         ToSet(s) \subseteq Items(b, t)
  PROVE  AttributeFacts(t, b, {Edit(kind, NoRange, s)})
<1>1. NoRange \in Spans
  BY DEF NoRange, Span, Spans
<1>2. Edit(kind, NoRange, s) \in EditValues
  BY <1>1 DEF Edit, EditValues, Kind
<1>3. Edit(kind, NoRange, s).objects = s
  BY DEF Edit
<1> QED
  BY <1>2, <1>3 DEF AttributeFacts

(* A set that changes: an element is inserted or deleted by an edit of its *)
(* own.                                                                    *)
LEMMA SetEdits ==
  ASSUME NEW t \in Unordered, NEW b, t \in DOMAIN b, b[t] \subseteq Value, IsFiniteSet(b[t]),
         NEW old \in SUBSET Value, NEW E,
         E = {Edit("setInsertion", NoRange, <<v>>) : v \in b[t] \ old}
               \cup {Edit("setDeletion", NoRange, <<v>>) : v \in old \ b[t]}
  PROVE  AttributeFacts(t, b, E)
<1>1. NoRange \in Spans
  BY DEF NoRange, Span, Spans
<1>2. Items(b, t) = b[t]
  BY SetToSeqFacts DEF Items, Elements
<1>3. \A e \in E : \E v \in Value :
        \/ e = Edit("setInsertion", NoRange, <<v>>) /\ v \in b[t]
        \/ e = Edit("setDeletion", NoRange, <<v>>)
  OBVIOUS
<1>4. \A v : ToSet(<<v>>) = {v}
  <2> TAKE v
  <2>1. PICK s : s = <<v>>
    OBVIOUS
  <2>2. DOMAIN s = {1} /\ s[1] = v
    BY <2>1
  <2> QED
    BY <2>1, <2>2 DEF ToSet
<1>5. ASSUME NEW e \in E
      PROVE  /\ e \in EditValues
             /\ e.kind \in SetEdit
             /\ \E v : /\ e.objects = <<v>>
                       /\ e = Edit(e.kind, NoRange, <<v>>)
                       /\ e.kind # "setDeletion" => v \in b[t]
  <2>1. PICK v \in Value :
          \/ e = Edit("setInsertion", NoRange, <<v>>) /\ v \in b[t]
          \/ e = Edit("setDeletion", NoRange, <<v>>)
    BY <1>3
  <2>2. <<v>> \in Seq(Value)
    OBVIOUS
  <2>3. CASE e = Edit("setInsertion", NoRange, <<v>>) /\ v \in b[t]
    BY <1>1, <2>2, <2>3 DEF Edit, EditValues, Kind, SetEdit
  <2>4. CASE e = Edit("setDeletion", NoRange, <<v>>)
    BY <1>1, <2>2, <2>4 DEF Edit, EditValues, Kind, SetEdit
  <2> QED
    BY <2>1, <2>3, <2>4
<1>6. ASSUME NEW e \in E, e.kind \notin {"deletion", "setDeletion"}
      PROVE  ToSet(e.objects) \subseteq Items(b, t)
  <2>1. PICK v : e.objects = <<v>> /\ (e.kind # "setDeletion" => v \in b[t])
    BY <1>5
  <2> QED
    BY <1>2, <1>4, <1>6, <2>1
<1>7. ASSUME NEW e \in E, NEW f \in E, e # f
      PROVE  GoTogether(t, e, f)
  <2>1. e.kind \in SetEdit /\ f.kind \in SetEdit
    BY <1>5
  <2>2. SameKind(e, f) /\ ~ ({e.kind, f.kind} \subseteq SequenceEdit) /\ {e.kind, f.kind} # {"setAttribute"}
    BY <2>1 DEF SameKind, SetEdit, SequenceEdit
  <2>3. ASSUME e.kind \notin {"deletion", "setDeletion"}, f.kind \notin {"deletion", "setDeletion"}
        PROVE  ToSet(e.objects) \cap ToSet(f.objects) = {}
    <3>1. e.kind = "setInsertion" /\ f.kind = "setInsertion"
      BY <2>1, <2>3 DEF SetEdit
    <3>2. PICK v : e.objects = <<v>> /\ e = Edit(e.kind, NoRange, <<v>>)
      BY <1>5
    <3>3. PICK w : f.objects = <<w>> /\ f = Edit(f.kind, NoRange, <<w>>)
      BY <1>5
    <3>4. v # w
      BY <1>7, <3>1, <3>2, <3>3
    <3>5. ToSet(e.objects) = {v} /\ ToSet(f.objects) = {w}
      BY <1>4, <3>2, <3>3
    <3> QED
      BY <3>4, <3>5
  <2> QED
    BY <2>2, <2>3 DEF GoTogether
<1> QED
  BY <1>5, <1>6, <1>7 DEF AttributeFacts

(* An array that changes.                                                  *)
LEMMA ArrayDifferences ==
  ASSUME NEW t, t \notin Unordered, NEW b, t \in DOMAIN b, b[t] \in Seq(Value),
         NEW old \in Seq(Value), t \in Composite => IsInjective(b[t])
  PROVE  AttributeFacts(t, b, ToSet(DiffArrays(old, b[t])))
<1>1. PICK new : new = b[t]
  OBVIOUS
<1>2. PICK E : E = ToSet(DiffArrays(old, new))
  OBVIOUS
<1>3. /\ E \subseteq ArrayEdits
      /\ \A e, f \in E : e # f =>
           /\ ~ Overlaps(e, f)
           /\ IsInjective(new) => ToSet(e.objects) \cap ToSet(f.objects) = {}
      /\ \A e \in E : ToSet(e.objects) \subseteq ToSet(new)
  BY <1>1, <1>2, DiffArraysFacts
<1>4. Items(b, t) = ToSet(new)
  BY <1>1 DEF Items, Elements
<1>5. \A e \in E : e \in EditValues /\ e.kind \in SequenceEdit
  BY <1>3 DEF ArrayEdits, EditValues, Kind
<1>6. ASSUME NEW e \in E, NEW f \in E, e # f
      PROVE  GoTogether(t, e, f)
  <2>1. SameKind(e, f) /\ {e.kind, f.kind} # {"setAttribute"}
    BY <1>5 DEF SameKind, SequenceEdit
  <2> QED
    BY <1>1, <1>3, <1>6, <2>1 DEF GoTogether
<1> QED
  BY <1>1, <1>2, <1>3, <1>4, <1>5, <1>6 DEF AttributeFacts

(* All edits of one attribute.                                             *)
LEMMA AttributeEditsFacts ==
  ASSUME NEW t \in Attribute, NEW a, NEW b, IsGraph(a), IsGraph(b)
  PROVE  AttributeFacts(t, b, AttributeEdits(t, a, b))
<1>1. /\ t \in DOMAIN a => IF t \in Unordered THEN a[t] \subseteq Value /\ IsFiniteSet(a[t])
                           ELSE a[t] \in Seq(Value)
      /\ t \in DOMAIN b => IF t \in Unordered THEN b[t] \subseteq Value /\ IsFiniteSet(b[t])
                           ELSE b[t] \in Seq(Value)
  BY DEF IsGraph
<1>2. t \in DOMAIN b => Elements(t, b[t]) \in Seq(Value) /\ Items(b, t) = ToSet(Elements(t, b[t]))
  <2>1. ASSUME t \in DOMAIN b, t \in Unordered
        PROVE  Elements(t, b[t]) \in Seq(Value)
    <3>1. SetToSeq(b[t]) \in Seq(b[t]) /\ b[t] \subseteq Value
      BY <1>1, <2>1, SetToSeqFacts
    <3> QED
      BY <2>1, <3>1 DEF Elements
  <2>2. ASSUME t \in DOMAIN b, t \notin Unordered
        PROVE  Elements(t, b[t]) \in Seq(Value)
    BY <1>1, <2>2 DEF Elements
  <2> QED
    BY <2>1, <2>2 DEF Items
<1>3. CASE t \in DOMAIN b \ DOMAIN a
  <2>1. AttributeEdits(t, a, b) = {Edit("setAttribute", NoRange, Elements(t, b[t]))}
    BY <1>3 DEF AttributeEdits
  <2> QED
    BY <1>2, <1>3, <2>1, OneEdit
<1>4. CASE t \in DOMAIN a \ DOMAIN b
  <2>1. AttributeEdits(t, a, b) = {Edit("deleteAttribute", NoRange, << >>)}
    BY <1>4 DEF AttributeEdits
  <2>2. << >> \in Seq(Value) /\ ToSet(<< >>) = {}
    BY DEF ToSet
  <2>3. PICK objects : objects = << >>
    OBVIOUS
  <2>4. objects \in Seq(Value) /\ ToSet(objects) \subseteq Items(b, t)
    BY <2>2, <2>3
  <2>5. PICK E : E = AttributeEdits(t, a, b)
    OBVIOUS
  <2>6. E = {Edit("deleteAttribute", NoRange, objects)}
    BY <2>1, <2>3, <2>5
  <2>7. AttributeFacts(t, b, {Edit("deleteAttribute", NoRange, objects)})
    BY <2>4, OneEdit
  <2> QED
    BY <2>5, <2>6, <2>7
<1>5. CASE t \in DOMAIN a \cap DOMAIN b /\ a[t] # b[t]
  <2>1. AttributeEdits(t, a, b) = ValueEdits(t, a[t], b[t])
    BY <1>5 DEF AttributeEdits
  <2>2. CASE t \in Unordered
    <3>1. PICK old : old = a[t]
      OBVIOUS
    <3>2. PICK E : E = ValueEdits(t, old, b[t])
      OBVIOUS
    <3>3. E = {Edit("setInsertion", NoRange, <<v>>) : v \in b[t] \ old}
                \cup {Edit("setDeletion", NoRange, <<v>>) : v \in old \ b[t]}
      BY <2>2, <3>2, ItemGraphDiffAssumption DEF ValueEdits
    <3>4. old \in SUBSET Value /\ b[t] \subseteq Value /\ IsFiniteSet(b[t]) /\ t \in DOMAIN b
      BY <1>1, <1>5, <2>2, <3>1
    <3>5. AttributeFacts(t, b, E)
      BY <2>2, <3>3, <3>4, SetEdits
    <3> QED
      BY <2>1, <3>1, <3>2, <3>5
  <2>3. CASE t \in Ordered
    <3>1. t \notin Unordered
      BY <2>3, ItemGraphDiffAssumption
    <3>2. ValueEdits(t, a[t], b[t]) = ToSet(DiffArrays(a[t], b[t]))
      BY <2>3, <3>1 DEF ValueEdits
    <3>3. t \in Composite => IsInjective(b[t])
      <4>1. t \in Composite => OncePlaced(t, b[t], t, b[t])
        BY <1>5 DEF IsGraph
      <4> QED
        BY <3>1, <4>1 DEF OncePlaced, Elements
    <3>4. a[t] \in Seq(Value) /\ b[t] \in Seq(Value) /\ t \in DOMAIN b
      BY <1>1, <1>5, <3>1
    <3> QED
      BY <2>1, <3>1, <3>2, <3>3, <3>4, ArrayDifferences
  <2>4. CASE t \notin Unordered /\ t \notin Ordered
    <3>1. ValueEdits(t, a[t], b[t]) = {Edit("setAttribute", NoRange, b[t])}
      BY <2>4 DEF ValueEdits
    <3>2. Elements(t, b[t]) = b[t]
      BY <2>4 DEF Elements
    <3>3. b[t] \in Seq(Value) /\ ToSet(b[t]) \subseteq Items(b, t)
      BY <1>2, <1>5, <3>2
    <3>4. AttributeFacts(t, b, {Edit("setAttribute", NoRange, b[t])})
      BY <3>3, OneEdit
    <3> QED
      BY <2>1, <3>1, <3>4
  <2> QED
    BY <2>2, <2>3, <2>4
<1>6. CASE ~ (t \in DOMAIN b \ DOMAIN a) /\ ~ (t \in DOMAIN a \ DOMAIN b)
             /\ ~ (t \in DOMAIN a \cap DOMAIN b /\ a[t] # b[t])
  <2>1. AttributeEdits(t, a, b) = {}
    BY <1>6 DEF AttributeEdits
  <2> QED
    BY <2>1 DEF AttributeFacts
<1> QED
  BY <1>3, <1>4, <1>5, <1>6

(* The edits there can be *)
Edits == [attribute : Attribute, source : Source, kind : Kind, range : Spans, objects : Seq(Value)]

(* E are the edits of one side: each is of that side, and no two of them   *)
(* clash.                                                                  *)
OneSided(source, E) ==
  /\ E \subseteq Edits
  /\ \A e \in E : e.source = source
  /\ \A e, f \in E : e # f => ~ AnyClash(e, f)

GraphsOK == IsGraph(base) /\ \A source \in Source : IsGraph(edited[source])

(* What one side did to a graph is free of conflicts: the new graph is one *)
(* in which an inner item has one place.                                   *)
LEMMA EditsOfOneSide ==
  ASSUME GraphsOK, NEW s \in Source
  PROVE  OneSided(s, EditsOf(s))
<1>1. PICK b : b = edited[s]
  OBVIOUS
<1>2. IsGraph(base) /\ IsGraph(b)
  BY <1>1 DEF GraphsOK
<1> DEFINE At(t) == AttributeEdits(t, base, b)
<1>3. ASSUME NEW t \in Attribute
      PROVE  AttributeFacts(t, b, At(t))
  BY <1>2, AttributeEditsFacts
<1>4. ASSUME NEW x \in EditsOf(s)
      PROVE  /\ x.attribute \in Attribute /\ x.source = s
             /\ \E e \in At(x.attribute) :
                  x = [attribute |-> x.attribute, source |-> s, kind |-> e.kind,
                       range |-> e.range, objects |-> e.objects]
  <2>1. PICK t \in Attribute : \E e \in At(t) :
          x = [attribute |-> t, source |-> s, kind |-> e.kind, range |-> e.range, objects |-> e.objects]
    BY <1>1 DEF EditsOf
  <2>2. x.attribute = t /\ x.source = s
    BY <2>1
  <2> QED
    BY <2>1, <2>2
<1> HIDE DEF At
<1>5. EditsOf(s) \subseteq Edits
  <2> SUFFICES ASSUME NEW x \in EditsOf(s)
               PROVE  x \in Edits
    OBVIOUS
  <2>1. PICK t \in Attribute : t = x.attribute
    BY <1>4
  <2>2. PICK e \in At(t) :
          x = [attribute |-> t, source |-> s, kind |-> e.kind, range |-> e.range, objects |-> e.objects]
    BY <1>4, <2>1
  <2>3. e \in EditValues
    BY <1>3, <2>2 DEF AttributeFacts
  <2>4. e.kind \in Kind /\ e.range \in Spans /\ e.objects \in Seq(Value)
    BY <2>3 DEF EditValues
  <2> QED
    BY <2>2, <2>4 DEF Edits
<1>6. ASSUME NEW x \in EditsOf(s), NEW y \in EditsOf(s), x # y
      PROVE  ~ AnyClash(x, y)
  <2>1. PICK t \in Attribute : t = x.attribute
    BY <1>4
  <2>2. PICK u \in Attribute : u = y.attribute
    BY <1>4
  <2>3. PICK e \in At(t) :
          x = [attribute |-> t, source |-> s, kind |-> e.kind, range |-> e.range, objects |-> e.objects]
    BY <1>4, <2>1
  <2>4. PICK f \in At(u) :
          y = [attribute |-> u, source |-> s, kind |-> f.kind, range |-> f.range, objects |-> f.objects]
    BY <1>4, <2>2
  <2>5. /\ x.attribute = t /\ x.kind = e.kind /\ x.range = e.range /\ x.objects = e.objects
        /\ y.attribute = u /\ y.kind = f.kind /\ y.range = f.range /\ y.objects = f.objects
    BY <2>3, <2>4
  <2>6. t = u => GoTogether(t, e, f)
    <3>1. t = u => e # f
      BY <1>6, <2>3, <2>4
    <3> QED
      BY <1>3, <3>1 DEF AttributeFacts
  <2>7. ~ Clash("editType", x, y)
    BY <2>5, <2>6 DEF Clash, GoTogether, SameKind
  <2>8. ~ Clash("sequenceEdit", x, y)
    BY <2>5, <2>6 DEF Clash, GoTogether, Overlaps
  <2>9. ~ Clash("value", x, y)
    BY <2>5, <2>6 DEF Clash, GoTogether
  <2>10. InsertedInnerItems(x) \cap InsertedInnerItems(y) = {}
    <3> SUFFICES ASSUME t \in Composite, u \in Composite,
                        e.kind \notin {"deletion", "setDeletion"}, f.kind \notin {"deletion", "setDeletion"}
                 PROVE  ToSet(e.objects) \cap ToSet(f.objects) = {}
      BY <2>5 DEF InsertedInnerItems
    <3>1. CASE t = u
      BY <2>6, <3>1 DEF GoTogether
    <3>2. CASE t # u
      <4>1. ToSet(e.objects) \subseteq Items(b, t) /\ ToSet(f.objects) \subseteq Items(b, u)
        BY <1>3 DEF AttributeFacts
      <4>2. t \in DOMAIN b /\ u \in DOMAIN b => Items(b, t) \cap Items(b, u) = {}
        BY <1>2, <3>2 DEF IsGraph, OncePlaced, Items
      <4>3. Items(b, t) \cap Items(b, u) = {}
        BY <4>2 DEF Items
      <4> QED
        BY <4>1, <4>3
    <3> QED
      BY <3>1, <3>2
  <2>11. ~ Clash("innerItem", x, y)
    BY <2>10 DEF Clash
  <2> QED
    BY <2>7, <2>8, <2>9, <2>11 DEF AnyClash, Category
<1> QED
  BY <1>4, <1>5, <1>6 DEF OneSided

(* It does not matter which of two edits was there first.                  *)
LEMMA ClashSymmetric ==
  ASSUME NEW e \in Edits, NEW f \in Edits, NEW category \in Category, Clash(category, e, f)
  PROVE  Clash(category, f, e)
<1>1. SameKind(e, f) <=> SameKind(f, e)
  BY DEF SameKind
<1>2. Overlaps(e, f) <=> Overlaps(f, e)
  BY DEF Overlaps
<1>3. IsEqualIgnoringSourceIdentifier(f, e) => IsEqualIgnoringSourceIdentifier(e, f)
  BY DEF IsEqualIgnoringSourceIdentifier, Edits
<1>4. {e.kind, f.kind} = {f.kind, e.kind}
  OBVIOUS
<1>5. CASE category = "editType"
  BY <1>1, <1>5 DEF Clash
<1>6. CASE category = "sequenceEdit"
  BY <1>2, <1>4, <1>6 DEF Clash
<1>7. CASE category = "value"
  BY <1>3, <1>4, <1>7 DEF Clash
<1>8. CASE category = "innerItem"
  BY <1>8 DEF Clash
<1> QED
  BY <1>5, <1>6, <1>7, <1>8 DEF Category

-----------------------------------------------------------------------------
(* The inductive invariant of a diff.  E[s] are the edits of side s, D the *)
(* diff, A what is still to be added, C the conflicts, p the phase, and s  *)
(* the favored side.                                                       *)

(* The edits of the other side that clash with none of the favored one     *)
Unopposed(E, s) ==
  UNION {{e \in E[t] : \A f \in E[s] : ~ AnyClash(e, f)} : t \in Source \ {s}}

(* Where the edits are: nothing is added twice, or forgotten.              *)
Gathered(E, D, A, p, s) ==
  /\ p \in {"diff", "merge", "resolve"} /\ s \in Source
  /\ A \cap D = {}
  /\ D \cup A \subseteq E["self"] \cup E["other"]
  /\ p = "diff" => D \cup A = E["self"]
  /\ p = "merge" => E["self"] \cup E["other"] \subseteq D \cup A
  /\ p = "resolve" => A \subseteq E[s] /\ E[s] \subseteq D \cup A /\ Unopposed(E, s) \subseteq D

Conflict(D) == [category : Category, edits : SUBSET D, listed : BOOLEAN]

(* While resolving, all conflicts are those the loop goes through: adding  *)
(* an edit of the favored side makes no new one.                           *)
ConflictsTyped(D, C, p) ==
  /\ C \subseteq Conflict(D)
  /\ p = "diff" => C = {}
  /\ p = "resolve" => \A c \in C : c.listed

(* Edits that clash are together in a conflict.                            *)
Recorded(D, C) ==
  \A e, f \in D, category \in Category :
    e # f /\ Clash(category, e, f) =>
      \E c \in C : c.category = category /\ {e, f} \subseteq c.edits

(* An edit of the other side that clashes with one of the favored side is  *)
(* in a conflict, even while the latter is still to be added again.        *)
TheirsRecorded(E, D, C, p, s) ==
  p = "resolve" =>
    \A f \in D \ E[s], e \in E[s], category \in Category :
      Clash(category, e, f) => \E c \in C : c.category = category /\ f \in c.edits

(* What is in a conflict clashes with an edit of the other side, though    *)
(* that may have left the conflict.                                        *)
Opposed(E, C) ==
  \A c \in C : \A e \in c.edits :
    \A t \in Source : e \in E[t] => \E u \in Source \ {t} : \E f \in E[u] : AnyClash(e, f)

Agree(D) == \A e, f \in D : AnyClash(e, f) => IsEqualIgnoringSourceIdentifier(e, f)

(* A conflict grows by edits that clash with one it has: without a clash   *)
(* of edits that differ all of its edits are the same.                     *)
Grown(D, C, p) ==
  p \in {"diff", "merge"} /\ Agree(D) => \A c \in C : Nonconflicting(c)

DiffInvOf(E, D, A, C, p, s) ==
  /\ \A t \in Source : OneSided(t, E[t])
  /\ Gathered(E, D, A, p, s)
  /\ ConflictsTyped(D, C, p)
  /\ Recorded(D, C)
  /\ TheirsRecorded(E, D, C, p, s)
  /\ Opposed(E, C)
  /\ Grown(D, C, p)

AllEdits == [s \in Source |-> EditsOf(s)]

DiffInv ==
  /\ GraphsOK
  /\ DiffInvOf(AllEdits, diffDict, adding, conflicts, phase, favored)

(* Two sides have no edit in common.                                       *)
LEMMA SidesApart ==
  ASSUME NEW E, \A t \in Source : OneSided(t, E[t]), NEW t \in Source, NEW u \in Source, t # u
  PROVE  E[t] \cap E[u] = {}
BY DEF OneSided

(* The conflicts after an edit e was added to D: a conflict stays, or e    *)
(* joins it, or it is a new one with an edit that was in no such conflict. *)
AfterAdding(D, old, new, e) ==
  /\ \A c \in new :
       \/ c \in old
       \/ \E o \in old, f \in D :
            /\ f \in o.edits /\ Clash(o.category, e, f)
            /\ c = [o EXCEPT !.edits = @ \cup {e}]
       \/ \E category \in Category, f \in D :
            /\ Clash(category, e, f)
            /\ c = [category |-> category, edits |-> {f, e}, listed |-> FALSE]
            /\ ~ \E o \in old : o.category = category /\ f \in o.edits
  /\ \A o \in old : \E c \in new : c.category = o.category /\ o.edits \subseteq c.edits
  /\ \A category \in Category, f \in D :
       Clash(category, e, f) => \E c \in new : c.category = category /\ {e, f} \subseteq c.edits

(* That is what -addEdit: does.                                            *)
LEMMA AddEditFacts ==
  ASSUME NEW e \in adding, AddEdit(e), e \notin diffDict, conflicts \subseteq Conflict(diffDict)
  PROVE  AfterAdding(diffDict, conflicts, conflicts', e)
<1> DEFINE clashes == Clashes(e)
<1>1. PICK found \in [clashes -> conflicts \cup {None}] :
        /\ \A x \in clashes : found[x] \in IF Holding(x[1], x[2]) = {} THEN {None}
                                           ELSE Holding(x[1], x[2])
        /\ conflicts' =
             {IF \E x \in clashes : found[x] = c THEN [c EXCEPT !.edits = @ \cup {e}] ELSE c :
                c \in conflicts}
             \cup {[category |-> x[1], edits |-> {x[2], e}, listed |-> FALSE] :
                     x \in {x \in clashes : found[x] = None}}
  BY DEF AddEdit
<1>2. \A x \in clashes : /\ x[1] \in Category /\ x[2] \in diffDict /\ x[2] # e
                         /\ Clash(x[1], e, x[2])
  BY DEF Clashes
<1>3. \A category \in Category, f \in diffDict :
        Clash(category, e, f) => <<category, f>> \in clashes
  <2> TAKE category \in Category, f \in diffDict
  <2>1. f \in diffDict \ {e}
    OBVIOUS
  <2> QED
    BY <2>1 DEF Clashes
<1> HIDE DEF clashes
<1>4. None \notin conflicts
  <2>1. \A c \in conflicts : c.category \in Category
    BY DEF Conflict
  <2>2. None.category \notin Category
    BY DEF None, Category
  <2> QED
    BY <2>1, <2>2
<1>5. \A x \in clashes : found[x] # None =>
        found[x] \in conflicts /\ found[x].category = x[1] /\ x[2] \in found[x].edits
  BY <1>1 DEF Holding
<1>6. \A x \in clashes : found[x] = None =>
        ~ \E o \in conflicts : o.category = x[1] /\ x[2] \in o.edits
  BY <1>1, <1>4 DEF Holding
<1>7. \A c \in conflicts : [c EXCEPT !.edits = @ \cup {e}].edits = c.edits \cup {e}
                           /\ [c EXCEPT !.edits = @ \cup {e}].category = c.category
  BY DEF Conflict
<1>8. ASSUME NEW c \in conflicts'
      PROVE  \/ c \in conflicts
             \/ \E o \in conflicts, f \in diffDict :
                  /\ f \in o.edits /\ Clash(o.category, e, f)
                  /\ c = [o EXCEPT !.edits = @ \cup {e}]
             \/ \E category \in Category, f \in diffDict :
                  /\ Clash(category, e, f)
                  /\ c = [category |-> category, edits |-> {f, e}, listed |-> FALSE]
                  /\ ~ \E o \in conflicts : o.category = category /\ f \in o.edits
  <2>1. CASE \E o \in conflicts :
               c = IF \E x \in clashes : found[x] = o THEN [o EXCEPT !.edits = @ \cup {e}] ELSE o
    <3>1. PICK o \in conflicts :
            c = IF \E x \in clashes : found[x] = o THEN [o EXCEPT !.edits = @ \cup {e}] ELSE o
      BY <2>1
    <3>2. CASE \E x \in clashes : found[x] = o
      <4>1. PICK x \in clashes : found[x] = o
        BY <3>2
      <4>2. PICK f \in diffDict : f = x[2]
        BY <1>2
      <4>3. f \in o.edits /\ Clash(o.category, e, f)
        BY <1>2, <1>4, <1>5, <4>1, <4>2
      <4> QED
        BY <3>1, <3>2, <4>3
    <3>3. CASE ~ \E x \in clashes : found[x] = o
      BY <3>1, <3>3
    <3> QED
      BY <3>2, <3>3
  <2>2. CASE \E x \in clashes : /\ found[x] = None
                                /\ c = [category |-> x[1], edits |-> {x[2], e}, listed |-> FALSE]
    <3>1. PICK x \in clashes : /\ found[x] = None
                               /\ c = [category |-> x[1], edits |-> {x[2], e}, listed |-> FALSE]
      BY <2>2
    <3>2. PICK category \in Category : category = x[1]
      BY <1>2
    <3>3. PICK f \in diffDict : f = x[2]
      BY <1>2
    <3>4. Clash(category, e, f) /\ ~ \E o \in conflicts : o.category = category /\ f \in o.edits
      BY <1>2, <1>6, <3>1, <3>2, <3>3
    <3>5. c = [category |-> category, edits |-> {f, e}, listed |-> FALSE]
      BY <3>1, <3>2, <3>3
    <3> QED
      BY <3>4, <3>5
  <2> QED
    BY <1>1, <2>1, <2>2
<1>9. ASSUME NEW o \in conflicts
      PROVE  \E c \in conflicts' :
               /\ c.category = o.category /\ o.edits \subseteq c.edits
               /\ (\E x \in clashes : found[x] = o) => e \in c.edits
  <2>1. PICK c : c = IF \E x \in clashes : found[x] = o THEN [o EXCEPT !.edits = @ \cup {e}] ELSE o
    OBVIOUS
  <2>2. c \in conflicts'
    BY <1>1, <2>1
  <2> QED
    BY <1>7, <2>1, <2>2
<1>10. ASSUME NEW category \in Category, NEW f \in diffDict, Clash(category, e, f)
       PROVE  \E c \in conflicts' : c.category = category /\ {e, f} \subseteq c.edits
  <2>1. PICK x \in clashes : x = <<category, f>>
    BY <1>3, <1>10
  <2>2. x[1] = category /\ x[2] = f
    BY <2>1
  <2>3. CASE found[x] = None
    <3>1. PICK c : c = [category |-> x[1], edits |-> {x[2], e}, listed |-> FALSE]
      OBVIOUS
    <3>2. c \in conflicts'
      BY <1>1, <2>3, <3>1
    <3>3. c.category = category /\ {e, f} \subseteq c.edits
      BY <2>2, <3>1
    <3> QED
      BY <3>2, <3>3
  <2>4. CASE found[x] # None
    <3>1. PICK o \in conflicts : o = found[x] /\ o.category = category /\ f \in o.edits
      BY <1>5, <2>2, <2>4
    <3>2. PICK c \in conflicts' :
            /\ c.category = o.category /\ o.edits \subseteq c.edits
            /\ (\E y \in clashes : found[y] = o) => e \in c.edits
      BY <1>9
    <3>3. e \in c.edits
      BY <3>1, <3>2
    <3> QED
      BY <3>1, <3>2, <3>3
  <2> QED
    BY <2>3, <2>4
<1> QED
  BY <1>8, <1>9, <1>10 DEF AfterAdding

(* Adding an edit keeps the invariant: while one side is diffed there are  *)
(* no clashes, and while conflicts are resolved only with edits of the     *)
(* other side, that are in a conflict.                                     *)
LEMMA AddingKeeps ==
  ASSUME NEW E, NEW D, NEW A, NEW C, NEW p, NEW s, DiffInvOf(E, D, A, C, p, s),
         NEW e \in A, NEW new, AfterAdding(D, C, new, e)
  PROVE  DiffInvOf(E, D \cup {e}, A \ {e}, new, p, s)
<1>1. /\ \A t \in Source : OneSided(t, E[t])
      /\ Gathered(E, D, A, p, s) /\ ConflictsTyped(D, C, p)
      /\ Recorded(D, C) /\ TheirsRecorded(E, D, C, p, s) /\ Opposed(E, C) /\ Grown(D, C, p)
  BY DEF DiffInvOf
<1>2. Source = {"self", "other"}
  BY DEF Source
<1>3. e \notin D /\ D \subseteq Edits /\ e \in Edits
  BY <1>1, <1>2 DEF Gathered, OneSided
<1>4. Gathered(E, D \cup {e}, A \ {e}, p, s)
  BY <1>1 DEF Gathered
<1>5. \A c \in C : c.edits \subseteq D /\ c.category \in Category /\ c.listed \in BOOLEAN
  BY <1>1 DEF ConflictsTyped, Conflict
<1>6. ASSUME NEW t \in Source, e \in E[t], NEW f \in D, NEW category \in Category,
             Clash(category, e, f)
      PROVE  \E u \in Source \ {t} : f \in E[u]
  <2>1. PICK u \in Source : f \in E[u]
    BY <1>1, <1>2 DEF Gathered
  <2>2. u = t => ~ AnyClash(e, f)
    BY <1>1, <1>3, <1>6, <2>1 DEF OneSided
  <2>3. u # t
    BY <1>6, <2>2 DEF AnyClash
  <2> QED
    BY <2>1, <2>3
<1>7. \E t \in Source : e \in E[t]
  BY <1>1, <1>2 DEF Gathered
<1>8. p # "merge" => \E t \in Source : A \subseteq E[t] /\ (p = "diff" => D \subseteq E[t])
                                       /\ (p = "resolve" => t = s)
  BY <1>1, <1>2 DEF Gathered
<1>9. p = "diff" => \A category \in Category, f \in D : ~ Clash(category, e, f)
  <2> SUFFICES ASSUME p = "diff", NEW category \in Category, NEW f \in D, Clash(category, e, f)
               PROVE  FALSE
    OBVIOUS
  <2>1. PICK t \in Source : A \subseteq E[t] /\ D \subseteq E[t]
    BY <1>8
  <2>2. ~ AnyClash(e, f)
    BY <1>1, <1>3, <2>1 DEF OneSided
  <2> QED
    BY <2>2 DEF AnyClash
<1>10. p = "resolve" => \A category \in Category, f \in D :
         Clash(category, e, f) => \E o \in C : o.category = category /\ f \in o.edits
  <2> SUFFICES ASSUME p = "resolve", NEW category \in Category, NEW f \in D, Clash(category, e, f)
               PROVE  \E o \in C : o.category = category /\ f \in o.edits
    OBVIOUS
  <2>1. e \in E[s] /\ s \in Source
    BY <1>1 DEF Gathered
  <2>2. PICK u \in Source \ {s} : f \in E[u]
    BY <1>6, <2>1
  <2>3. f \notin E[s]
    BY <1>1, <2>1, <2>2, SidesApart
  <2> QED
    BY <1>1, <2>1, <2>3 DEF TheirsRecorded
<1>11. ASSUME NEW c \in new
       PROVE  \/ c \in C
              \/ /\ c \in Conflict(D \cup {e})
                 /\ \E f \in D : /\ Clash(c.category, e, f)
                                 /\ \/ /\ c.edits = {f, e} /\ p = "merge"
                                    \/ \E o \in C : /\ f \in o.edits /\ c.edits = o.edits \cup {e}
                                                    /\ c.listed = o.listed
  <2>1. ASSUME NEW o \in C, NEW f \in D, f \in o.edits, Clash(o.category, e, f),
               c = [o EXCEPT !.edits = @ \cup {e}]
        PROVE  /\ c \in Conflict(D \cup {e})
               /\ Clash(c.category, e, f) /\ c.edits = o.edits \cup {e} /\ c.listed = o.listed
    <3>1. o \in Conflict(D)
      BY <1>1 DEF ConflictsTyped
    <3> QED
      BY <2>1, <3>1 DEF Conflict
  <2>2. ASSUME NEW category \in Category, NEW f \in D, Clash(category, e, f),
               c = [category |-> category, edits |-> {f, e}, listed |-> FALSE],
               ~ \E o \in C : o.category = category /\ f \in o.edits
        PROVE  /\ c \in Conflict(D \cup {e})
               /\ Clash(c.category, e, f) /\ c.edits = {f, e} /\ p = "merge"
    <3>1. p \notin {"diff", "resolve"}
      BY <1>9, <1>10, <2>2
    <3>2. p = "merge"
      BY <1>1, <3>1 DEF Gathered
    <3> QED
      BY <2>2, <3>2 DEF Conflict
  <2>3. \/ c \in C
        \/ \E o \in C, f \in D : /\ f \in o.edits /\ Clash(o.category, e, f)
                                 /\ c = [o EXCEPT !.edits = @ \cup {e}]
        \/ \E category \in Category, f \in D :
             /\ Clash(category, e, f)
             /\ c = [category |-> category, edits |-> {f, e}, listed |-> FALSE]
             /\ ~ \E o \in C : o.category = category /\ f \in o.edits
    BY DEF AfterAdding
  <2>4. CASE \E o \in C, f \in D : /\ f \in o.edits /\ Clash(o.category, e, f)
                                   /\ c = [o EXCEPT !.edits = @ \cup {e}]
    BY <2>1, <2>4
  <2>5. CASE \E category \in Category, f \in D :
               /\ Clash(category, e, f)
               /\ c = [category |-> category, edits |-> {f, e}, listed |-> FALSE]
               /\ ~ \E o \in C : o.category = category /\ f \in o.edits
    <3>1. PICK category \in Category, f \in D :
               /\ Clash(category, e, f)
               /\ c = [category |-> category, edits |-> {f, e}, listed |-> FALSE]
               /\ ~ \E o \in C : o.category = category /\ f \in o.edits
      BY <2>5
    <3>2. /\ c \in Conflict(D \cup {e})
          /\ Clash(c.category, e, f) /\ c.edits = {f, e} /\ p = "merge"
      BY <2>2, <3>1
    <3> QED
      BY <3>2
  <2> QED
    BY <2>3, <2>4, <2>5
<1>12. ConflictsTyped(D \cup {e}, new, p)
  <2>1. \A c \in C : c \in Conflict(D \cup {e})
    BY <1>1 DEF ConflictsTyped, Conflict
  <2>2. new \subseteq Conflict(D \cup {e})
    BY <1>11, <2>1
  <2>3. p = "diff" => new = {}
    <3>1. p = "diff" => C = {}
      BY <1>1 DEF ConflictsTyped
    <3>2. ASSUME p = "diff", NEW c \in new
          PROVE  FALSE
      <4>1. c \notin C
        BY <3>1, <3>2
      <4>2. PICK f \in D : Clash(c.category, e, f) /\ c \in Conflict(D \cup {e})
        BY <1>11, <4>1
      <4>3. c.category \in Category
        BY <4>2 DEF Conflict
      <4> QED
        BY <1>9, <3>2, <4>2, <4>3
    <3> QED
      BY <3>2
  <2>4. ASSUME p = "resolve", NEW c \in new
        PROVE  c.listed
    <3>1. \A o \in C : o.listed
      BY <1>1, <2>4 DEF ConflictsTyped
    <3>2. CASE c \in C
      BY <3>1, <3>2
    <3>3. CASE c \notin C
      <4>1. PICK o \in C : c.listed = o.listed
        BY <1>11, <2>4, <3>3
      <4> QED
        BY <3>1, <4>1
    <3> QED
      BY <3>2, <3>3
  <2> QED
    BY <2>2, <2>3, <2>4 DEF ConflictsTyped
<1>13. Recorded(D \cup {e}, new)
  <2> SUFFICES ASSUME NEW f \in D \cup {e}, NEW g \in D \cup {e}, NEW category \in Category,
                      f # g, Clash(category, f, g)
               PROVE  \E c \in new : c.category = category /\ {f, g} \subseteq c.edits
    BY DEF Recorded
  <2>1. CASE f \in D /\ g \in D
    <3>1. PICK o \in C : o.category = category /\ {f, g} \subseteq o.edits
      BY <1>1, <2>1 DEF Recorded
    <3>2. PICK c \in new : c.category = o.category /\ o.edits \subseteq c.edits
      BY DEF AfterAdding
    <3> QED
      BY <3>1, <3>2
  <2>2. CASE f = e /\ g \in D
    BY <2>2 DEF AfterAdding
  <2>3. CASE g = e /\ f \in D
    <3>1. Clash(category, e, f)
      BY <1>3, <2>3, ClashSymmetric
    <3>2. PICK c \in new : c.category = category /\ {e, f} \subseteq c.edits
      BY <2>3, <3>1 DEF AfterAdding
    <3> QED
      BY <2>3, <3>2
  <2> QED
    BY <2>1, <2>2, <2>3
<1>14. TheirsRecorded(E, D \cup {e}, new, p, s)
  <2> SUFFICES ASSUME p = "resolve", NEW f \in (D \cup {e}) \ E[s], NEW g \in E[s],
                      NEW category \in Category, Clash(category, g, f)
               PROVE  \E c \in new : c.category = category /\ f \in c.edits
    BY DEF TheirsRecorded
  <2>1. e \in E[s]
    BY <1>1 DEF Gathered
  <2>2. f \in D \ E[s]
    BY <2>1
  <2>3. PICK o \in C : o.category = category /\ f \in o.edits
    BY <1>1, <2>2 DEF TheirsRecorded
  <2>4. PICK c \in new : c.category = o.category /\ o.edits \subseteq c.edits
    BY DEF AfterAdding
  <2> QED
    BY <2>3, <2>4
<1>15. ASSUME NEW f \in D, NEW category \in Category, Clash(category, e, f), NEW g \in {e, f},
              NEW t \in Source, g \in E[t]
       PROVE  \E u \in Source \ {t} : \E h \in E[u] : AnyClash(g, h)
  <2>1. PICK v \in Source : e \in E[v]
    BY <1>7
  <2>2. PICK u \in Source \ {v} : f \in E[u]
    BY <1>6, <1>15, <2>1
  <2>3. Clash(category, f, e)
    BY <1>3, <1>15, ClashSymmetric
  <2>4. AnyClash(e, f) /\ AnyClash(f, e)
    BY <1>15, <2>3 DEF AnyClash
  <2>5. CASE g = e
    <3>1. t = v
      BY <1>1, <1>15, <2>1, <2>5, SidesApart
    <3> QED
      BY <2>2, <2>4, <2>5, <3>1
  <2>6. CASE g = f
    <3>1. t = u
      BY <1>1, <1>15, <2>2, <2>6, SidesApart
    <3> QED
      BY <2>1, <2>2, <2>4, <2>6, <3>1
  <2> QED
    BY <1>15, <2>5, <2>6
<1>16. Opposed(E, new)
  <2> SUFFICES ASSUME NEW c \in new, NEW g \in c.edits, NEW t \in Source, g \in E[t]
               PROVE  \E u \in Source \ {t} : \E h \in E[u] : AnyClash(g, h)
    BY DEF Opposed
  <2>1. CASE \E o \in C : g \in o.edits
    BY <1>1, <2>1 DEF Opposed
  <2>2. CASE ~ \E o \in C : g \in o.edits
    <3>1. c \notin C
      BY <2>2
    <3>2. PICK f \in D : /\ Clash(c.category, e, f)
                         /\ \/ c.edits = {f, e}
                            \/ \E o \in C : f \in o.edits /\ c.edits = o.edits \cup {e}
      BY <1>11, <3>1
    <3>3. g \in {e, f}
      BY <2>2, <3>2
    <3>4. c.category \in Category
      BY <1>12 DEF ConflictsTyped, Conflict
    <3> QED
      BY <1>15, <3>2, <3>3, <3>4
  <2> QED
    BY <2>1, <2>2
<1>17. Grown(D \cup {e}, new, p)
  <2> SUFFICES ASSUME p \in {"diff", "merge"}, Agree(D \cup {e}), NEW c \in new
               PROVE  Nonconflicting(c)
    BY DEF Grown
  <2>1. Agree(D)
    BY DEF Agree
  <2>2. \A o \in C : Nonconflicting(o)
    BY <1>1, <2>1 DEF Grown
  <2>3. CASE c \in C
    BY <2>2, <2>3
  <2>4. CASE c \notin C
    <3>1. PICK f \in D : /\ Clash(c.category, e, f) /\ c \in Conflict(D \cup {e})
                         /\ \/ c.edits = {f, e}
                            \/ \E o \in C : f \in o.edits /\ c.edits = o.edits \cup {e}
      BY <1>11, <2>4
    <3>2. AnyClash(e, f)
      BY <3>1 DEF AnyClash, Conflict
    <3>3. IsEqualIgnoringSourceIdentifier(e, f)
      BY <3>2 DEF Agree
    <3>4. \A g \in c.edits \ {e} : IsEqualIgnoringSourceIdentifier(f, g)
      <4>1. CASE c.edits = {f, e}
        <5>1. IsEqualIgnoringSourceIdentifier(f, f)
          BY <1>3 DEF IsEqualIgnoringSourceIdentifier, Edits
        <5> QED
          BY <4>1, <5>1
      <4>2. CASE \E o \in C : f \in o.edits /\ c.edits = o.edits \cup {e}
        BY <2>2, <4>2 DEF Nonconflicting
      <4> QED
        BY <3>1, <4>1, <4>2
    <3>5. c.edits \subseteq Edits
      BY <1>3, <3>1 DEF Conflict
    <3>6. \A g \in c.edits : /\ g.attribute = f.attribute /\ g.kind = f.kind
                             /\ g.range = f.range /\ g.objects = f.objects
      <4>1. e = [f EXCEPT !.source = e.source]
        BY <3>3 DEF IsEqualIgnoringSourceIdentifier
      <4>2. \A g \in c.edits \ {e} : f = [g EXCEPT !.source = f.source]
        BY <3>4 DEF IsEqualIgnoringSourceIdentifier
      <4>3. \A g \in c.edits : /\ g = e \/ g \in c.edits \ {e}
                               /\ g \in Edits
        BY <3>5
      <4> QED
        BY <1>3, <4>1, <4>2, <4>3 DEF Edits
    <3> QED
      BY <3>5, <3>6 DEF Nonconflicting, IsEqualIgnoringSourceIdentifier, Edits
  <2> QED
    BY <2>3, <2>4
<1> QED
  BY <1>1, <1>4, <1>12, <1>13, <1>14, <1>16, <1>17 DEF DiffInvOf

(* Merging with the diff of the other side starts when the own one is done.*)
LEMMA MergingKeeps ==
  ASSUME NEW E, NEW D, NEW C, NEW s, DiffInvOf(E, D, {}, C, "diff", s)
  PROVE  DiffInvOf(E, D, E["other"], C, "merge", s)
<1>1. /\ \A t \in Source : OneSided(t, E[t])
      /\ Gathered(E, D, {}, "diff", s) /\ ConflictsTyped(D, C, "diff")
      /\ Recorded(D, C) /\ Opposed(E, C)
  BY DEF DiffInvOf
<1>2. D = E["self"] /\ C = {} /\ s \in Source
  BY <1>1 DEF Gathered, ConflictsTyped
<1>3. E["self"] \cap E["other"] = {}
  BY <1>1, SidesApart DEF Source
<1>4. Gathered(E, D, E["other"], "merge", s)
  BY <1>2, <1>3 DEF Gathered
<1>5. ConflictsTyped(D, C, "merge") /\ TheirsRecorded(E, D, C, "merge", s) /\ Grown(D, C, "merge")
  BY <1>2 DEF ConflictsTyped, TheirsRecorded, Grown
<1> QED
  BY <1>1, <1>4, <1>5 DEF DiffInvOf

(* The conflicts are resolved when both sides are merged.                  *)
LEMMA ResolvingKeeps ==
  ASSUME NEW E, NEW D, NEW C, NEW s, DiffInvOf(E, D, {}, C, "merge", s), NEW t \in Source
  PROVE  DiffInvOf(E, D, {}, {[c EXCEPT !.listed = TRUE] : c \in C}, "resolve", t)
<1> DEFINE new == {[c EXCEPT !.listed = TRUE] : c \in C}
<1>1. /\ \A u \in Source : OneSided(u, E[u])
      /\ Gathered(E, D, {}, "merge", s) /\ ConflictsTyped(D, C, "merge")
      /\ Recorded(D, C) /\ Opposed(E, C)
  BY DEF DiffInvOf
<1>2. D = E["self"] \cup E["other"]
  BY <1>1 DEF Gathered
<1>3. \A u \in Source : E[u] \subseteq D
  BY <1>2 DEF Source
<1>4. Gathered(E, D, {}, "resolve", t)
  BY <1>2, <1>3 DEF Gathered, Unopposed
<1>5. \A c \in C : /\ [c EXCEPT !.listed = TRUE] \in Conflict(D)
                   /\ [c EXCEPT !.listed = TRUE].category = c.category
                   /\ [c EXCEPT !.listed = TRUE].edits = c.edits
                   /\ [c EXCEPT !.listed = TRUE].listed
  BY <1>1 DEF ConflictsTyped, Conflict
<1>6. ConflictsTyped(D, new, "resolve")
  BY <1>5 DEF ConflictsTyped
<1>7. \A c \in C : \E d \in new : d.category = c.category /\ d.edits = c.edits
  BY <1>5
<1>8. Recorded(D, new)
  <2> SUFFICES ASSUME NEW e \in D, NEW f \in D, NEW category \in Category,
                      e # f, Clash(category, e, f)
               PROVE  \E d \in new : d.category = category /\ {e, f} \subseteq d.edits
    BY DEF Recorded
  <2>1. PICK c \in C : c.category = category /\ {e, f} \subseteq c.edits
    BY <1>1 DEF Recorded
  <2> QED
    BY <1>7, <2>1
<1>9. TheirsRecorded(E, D, new, "resolve", t)
  <2> SUFFICES ASSUME NEW f \in D \ E[t], NEW e \in E[t], NEW category \in Category,
                      Clash(category, e, f)
               PROVE  \E d \in new : d.category = category /\ f \in d.edits
    BY DEF TheirsRecorded
  <2>1. e # f /\ e \in D /\ f \in D
    BY <1>3
  <2> QED
    BY <1>8, <2>1 DEF Recorded
<1>10. Opposed(E, new)
  <2>1. \A d \in new : \E c \in C : d.edits = c.edits
    BY <1>5
  <2> QED
    BY <1>1, <2>1 DEF Opposed
<1>11. Grown(D, new, "resolve")
  BY DEF Grown
<1> QED
  BY <1>1, <1>4, <1>6, <1>8, <1>9, <1>10, <1>11 DEF DiffInvOf

(* Removing a conflict: its edits go, and those of the favored side are to *)
(* be added again.                                                         *)
LEMMA RemovingKeeps ==
  ASSUME NEW E, NEW D, NEW C, NEW s, DiffInvOf(E, D, {}, C, "resolve", s), NEW c \in C
  PROVE  DiffInvOf(E, D \ c.edits, {e \in c.edits : e.source = s},
                   {[d EXCEPT !.edits = @ \ c.edits] : d \in {d \in C : ~ (d.edits \subseteq c.edits)}},
                   "resolve", s)
<1> DEFINE left == D \ c.edits
           again == {e \in c.edits : e.source = s}
           new == {[d EXCEPT !.edits = @ \ c.edits] : d \in {d \in C : ~ (d.edits \subseteq c.edits)}}
<1>1. /\ \A t \in Source : OneSided(t, E[t])
      /\ Gathered(E, D, {}, "resolve", s) /\ ConflictsTyped(D, C, "resolve")
      /\ Recorded(D, C) /\ TheirsRecorded(E, D, C, "resolve", s) /\ Opposed(E, C)
  BY DEF DiffInvOf
<1>2. /\ D \subseteq E["self"] \cup E["other"] /\ E[s] \subseteq D /\ s \in Source
      /\ Unopposed(E, s) \subseteq D
  BY <1>1 DEF Gathered
<1>3. c.edits \subseteq D
  BY <1>1 DEF ConflictsTyped, Conflict
<1>4. \A e \in D : e \in E[s] <=> e.source = s
  BY <1>1, <1>2 DEF OneSided, Source
<1>5. Gathered(E, left, again, "resolve", s)
  <2>1. again \cap left = {} /\ left \cup again \subseteq E["self"] \cup E["other"]
    BY <1>2, <1>3
  <2>2. again \subseteq E[s] /\ E[s] \subseteq left \cup again
    BY <1>2, <1>3, <1>4
  <2>3. ASSUME NEW e \in Unopposed(E, s), e \in c.edits
        PROVE  FALSE
    <3>1. PICK t \in Source \ {s} : e \in E[t] /\ \A f \in E[s] : ~ AnyClash(e, f)
      BY DEF Unopposed
    <3>2. PICK u \in Source \ {t} : \E f \in E[u] : AnyClash(e, f)
      BY <1>1, <2>3, <3>1 DEF Opposed
    <3>3. u = s
      BY <1>2, <3>1, <3>2 DEF Source
    <3> QED
      BY <3>1, <3>2, <3>3
  <2>4. Unopposed(E, s) \subseteq left
    BY <1>2, <2>3
  <2> QED
    BY <1>2, <2>1, <2>2, <2>4 DEF Gathered
<1>6. \A d \in C : LET n == [d EXCEPT !.edits = @ \ c.edits]
                   IN /\ n \in Conflict(left)
                      /\ n.category = d.category /\ n.edits = d.edits \ c.edits /\ n.listed = d.listed
  BY <1>1 DEF ConflictsTyped, Conflict
<1>7. \A n \in new : \E d \in C : n.edits = d.edits \ c.edits /\ n.listed = d.listed
                                  /\ n \in Conflict(left)
  BY <1>6
<1>8. ASSUME NEW d \in C, NEW e \in d.edits, e \notin c.edits
      PROVE  \E n \in new : n.category = d.category /\ n.edits = d.edits \ c.edits
  <2>1. PICK n : n = [d EXCEPT !.edits = @ \ c.edits]
    OBVIOUS
  <2>2. n \in new
    BY <1>8, <2>1
  <2> QED
    BY <1>6, <2>1, <2>2
<1> HIDE DEF new
<1>9. ConflictsTyped(left, new, "resolve")
  <2>1. \A d \in C : d.listed
    BY <1>1 DEF ConflictsTyped
  <2> QED
    BY <1>7, <2>1 DEF ConflictsTyped
<1>10. Recorded(left, new)
  <2> SUFFICES ASSUME NEW e \in left, NEW f \in left, NEW category \in Category,
                      e # f, Clash(category, e, f)
               PROVE  \E n \in new : n.category = category /\ {e, f} \subseteq n.edits
    BY DEF Recorded
  <2>1. PICK d \in C : d.category = category /\ {e, f} \subseteq d.edits
    BY <1>1 DEF Recorded
  <2>2. PICK n \in new : n.category = d.category /\ n.edits = d.edits \ c.edits
    BY <1>8, <2>1
  <2> QED
    BY <2>1, <2>2
<1>11. TheirsRecorded(E, left, new, "resolve", s)
  <2> SUFFICES ASSUME NEW f \in left \ E[s], NEW e \in E[s], NEW category \in Category,
                      Clash(category, e, f)
               PROVE  \E n \in new : n.category = category /\ f \in n.edits
    BY DEF TheirsRecorded
  <2>1. PICK d \in C : d.category = category /\ f \in d.edits
    BY <1>1 DEF TheirsRecorded
  <2>2. PICK n \in new : n.category = d.category /\ n.edits = d.edits \ c.edits
    BY <1>8, <2>1
  <2> QED
    BY <2>1, <2>2
<1>12. Opposed(E, new)
  <2> SUFFICES ASSUME NEW n \in new, NEW e \in n.edits, NEW t \in Source, e \in E[t]
               PROVE  \E u \in Source \ {t} : \E f \in E[u] : AnyClash(e, f)
    BY DEF Opposed
  <2>1. PICK d \in C : n.edits = d.edits \ c.edits
    BY <1>7
  <2> QED
    BY <1>1, <2>1 DEF Opposed
<1>13. Grown(left, new, "resolve")
  BY DEF Grown
<1> QED
  BY <1>1, <1>5, <1>9, <1>10, <1>11, <1>12, <1>13 DEF DiffInvOf, new

(* The edits of the sides depend on the graphs only, which do not change.  *)
LEMMA EditsDoNotChange ==
  ASSUME UNCHANGED input
  PROVE  GraphsOK' = GraphsOK /\ AllEdits' = AllEdits
<1>1. base' = base /\ edited' = edited
  BY DEF input
<1>2. GraphsOK' = GraphsOK
  BY <1>1 DEF GraphsOK
<1>3. \A s \in Source : EditsOf(s)' = EditsOf(s)
  BY <1>1 DEF EditsOf
<1> QED
  BY <1>2, <1>3 DEF AllEdits

(* At first there is nothing in the diff.                                  *)
LEMMA DiffInitHolds ==
  ASSUME Init
  PROVE  DiffInv
<1>1. GraphsOK
  BY ItemGraphDiffAssumption DEF Init, GraphsOK
<1>2. \A s \in Source : AllEdits[s] = EditsOf(s)
  BY DEF AllEdits
<1>3. \A s \in Source : OneSided(s, AllEdits[s])
  BY <1>1, <1>2, EditsOfOneSide
<1>4. /\ diffDict = {} /\ conflicts = {} /\ adding = AllEdits["self"]
      /\ phase = "diff" /\ favored \in Source
  BY <1>2 DEF Init, Source
<1>5. Gathered(AllEdits, diffDict, adding, phase, favored)
  BY <1>4 DEF Gathered
<1>6. ConflictsTyped(diffDict, conflicts, phase) /\ Recorded(diffDict, conflicts)
  BY <1>4 DEF ConflictsTyped, Recorded
<1>7. /\ TheirsRecorded(AllEdits, diffDict, conflicts, phase, favored)
      /\ Opposed(AllEdits, conflicts) /\ Grown(diffDict, conflicts, phase)
  BY <1>4 DEF TheirsRecorded, Opposed, Grown
<1> QED
  BY <1>1, <1>3, <1>5, <1>6, <1>7 DEF DiffInv, DiffInvOf

(* The state after a step, put into the invariant                          *)
LEMMA DiffInvAfter ==
  ASSUME GraphsOK, UNCHANGED input,
         DiffInvOf(AllEdits, diffDict', adding', conflicts', phase', favored')
  PROVE  DiffInv'
BY EditsDoNotChange DEF DiffInv

(* Every step keeps the invariant.                                         *)
LEMMA DiffStep ==
  ASSUME DiffInv, [Next]_vars
  PROVE  DiffInv'
<1>1. GraphsOK /\ DiffInvOf(AllEdits, diffDict, adding, conflicts, phase, favored)
  BY DEF DiffInv
<1>2. ASSUME NEW e \in adding, AddEdit(e)
      PROVE  DiffInv'
  <2>1. e \notin diffDict /\ conflicts \subseteq Conflict(diffDict)
    BY <1>1 DEF DiffInvOf, Gathered, ConflictsTyped
  <2>2. AfterAdding(diffDict, conflicts, conflicts', e)
    BY <1>2, <2>1, AddEditFacts
  <2>3. DiffInvOf(AllEdits, diffDict \cup {e}, adding \ {e}, conflicts', phase, favored)
    BY <1>1, <2>2, AddingKeeps
  <2>4. /\ UNCHANGED input /\ adding' = adding \ {e} /\ diffDict' = diffDict \cup {e}
        /\ phase' = phase /\ favored' = favored
    BY <1>2 DEF AddEdit
  <2>5. DiffInvOf(AllEdits, diffDict', adding', conflicts', phase', favored')
    BY <2>3, <2>4
  <2> QED
    BY <1>1, <2>4, <2>5, DiffInvAfter
<1>3. ASSUME MergeWith
      PROVE  DiffInv'
  <2>1. /\ phase = "diff" /\ adding = {} /\ phase' = "merge" /\ adding' = AllEdits["other"]
        /\ UNCHANGED <<input, diffDict, conflicts, favored>>
    BY <1>3 DEF MergeWith, AllEdits, Source
  <2>2. DiffInvOf(AllEdits, diffDict, AllEdits["other"], conflicts, "merge", favored)
    BY <1>1, <2>1, MergingKeeps
  <2>3. DiffInvOf(AllEdits, diffDict', adding', conflicts', phase', favored')
    BY <2>1, <2>2
  <2> QED
    BY <1>1, <2>1, <2>3, DiffInvAfter
<1>4. ASSUME NEW s \in Source, ResolveConflicts(s)
      PROVE  DiffInv'
  <2>1. /\ phase = "merge" /\ adding = {} /\ phase' = "resolve" /\ favored' = s
        /\ conflicts' = {[c EXCEPT !.listed = TRUE] : c \in conflicts}
        /\ UNCHANGED <<input, diffDict, adding>>
    BY <1>4 DEF ResolveConflicts
  <2>2. DiffInvOf(AllEdits, diffDict, {}, {[c EXCEPT !.listed = TRUE] : c \in conflicts}, "resolve", s)
    BY <1>1, <2>1, ResolvingKeeps
  <2>3. DiffInvOf(AllEdits, diffDict', adding', conflicts', phase', favored')
    BY <2>1, <2>2
  <2> QED
    BY <1>1, <2>1, <2>3, DiffInvAfter
<1>5. ASSUME NEW c \in conflicts, RemoveConflict(c)
      PROVE  DiffInv'
  <2>1. /\ phase = "resolve" /\ adding = {}
        /\ diffDict' = diffDict \ c.edits
        /\ conflicts' = {[d EXCEPT !.edits = @ \ c.edits] :
                            d \in {d \in conflicts : ~ (d.edits \subseteq c.edits)}}
        /\ adding' = {e \in c.edits : e.source = favored}
        /\ UNCHANGED <<input, phase, favored>>
    BY <1>5 DEF RemoveConflict
  <2>2. DiffInvOf(AllEdits, diffDict \ c.edits, {e \in c.edits : e.source = favored},
                  {[d EXCEPT !.edits = @ \ c.edits] :
                      d \in {d \in conflicts : ~ (d.edits \subseteq c.edits)}},
                  "resolve", favored)
    BY <1>1, <2>1, RemovingKeeps
  <2>3. DiffInvOf(AllEdits, diffDict', adding', conflicts', phase', favored')
    BY <2>1, <2>2
  <2> QED
    BY <1>1, <2>1, <2>3, DiffInvAfter
<1>6. ASSUME UNCHANGED vars
      PROVE  DiffInv'
  <2>1. /\ UNCHANGED input
        /\ UNCHANGED <<diffDict, conflicts, adding, phase, favored>>
    BY <1>6 DEF vars
  <2>2. DiffInvOf(AllEdits, diffDict', adding', conflicts', phase', favored')
    BY <1>1, <2>1
  <2> QED
    BY <1>1, <2>1, <2>2, DiffInvAfter
<1> QED
  BY <1>2, <1>3, <1>4, <1>5, <1>6 DEF Next

(* The invariant holds in every state.                                     *)
LEMMA DiffInvInvariant == Spec => []DiffInv
<1>1. Init => DiffInv
  BY DiffInitHolds
<1>2. DiffInv /\ [Next]_vars => DiffInv'
  BY DiffStep
<1> QED
  BY <1>1, <1>2, PTL DEF Spec

-----------------------------------------------------------------------------
(* What follows *)

(* Types: the graphs stay graphs, what is in the diff or still to be added *)
(* are edits of a side, none of them both, and conflicts hold edits of the *)
(* diff only, so that removing one takes nothing else away.                *)
THEOREM DiffTypes == Spec => []DiffTypeOK
<1>1. DiffInv => DiffTypeOK
  <2> SUFFICES ASSUME DiffInv
               PROVE  DiffTypeOK
    OBVIOUS
  <2>1. /\ GraphsOK
        /\ \A s \in Source : OneSided(s, AllEdits[s])
        /\ Gathered(AllEdits, diffDict, adding, phase, favored)
        /\ ConflictsTyped(diffDict, conflicts, phase)
    BY DEF DiffInv, DiffInvOf
  <2>2. diffDict \cup adding \subseteq Edits
    BY <2>1 DEF Gathered, OneSided, Source
  <2>3. \A e \in diffDict \cup adding :
          /\ e.attribute \in Attribute /\ e.source \in Source
          /\ e.kind \in SequenceEdit \cup SetEdit \cup {"setAttribute", "deleteAttribute"}
    BY <2>2 DEF Edits, Kind
  <2>4. \A c \in conflicts : c.category \in Category /\ c.edits \subseteq diffDict
    BY <2>1 DEF ConflictsTyped, Conflict
  <2>5. adding \cap diffDict = {}
    BY <2>1 DEF Gathered
  <2> QED
    BY <2>1, <2>3, <2>4, <2>5 DEF DiffTypeOK, GraphsOK
<1> QED
  BY <1>1, DiffInvInvariant, PTL

(* The edits of one side never conflict: it could not be applied.          *)
OwnEditsAgree == phase = "diff" => conflicts = {}

(* While the edits of one side are gathered (diffItemUUIDs:fromGraph:...), *)
(* -addEdit: never finds a conflict: what one side did can be applied.     *)
THEOREM OwnEdits == Spec => []OwnEditsAgree
<1>1. DiffInv => OwnEditsAgree
  BY DEF DiffInv, DiffInvOf, ConflictsTyped, OwnEditsAgree
<1> QED
  BY <1>1, DiffInvInvariant, PTL

(* When the loop is done no conflict is left.                              *)
LEMMA ResolvedFacts ==
  ASSUME DiffInv, Resolved
  PROVE  /\ conflicts = {} /\ phase = "resolve" /\ favored \in Source
         /\ EditsOf(favored) \subseteq diffDict
         /\ \A f \in diffDict \ EditsOf(favored), e \in EditsOf(favored) : ~ AnyClash(e, f)
         /\ \A e, f \in diffDict : e # f => ~ AnyClash(e, f)
<1>1. /\ \A s \in Source : OneSided(s, AllEdits[s])
      /\ Gathered(AllEdits, diffDict, adding, phase, favored)
      /\ ConflictsTyped(diffDict, conflicts, phase)
      /\ Recorded(diffDict, conflicts)
      /\ TheirsRecorded(AllEdits, diffDict, conflicts, phase, favored)
  BY DEF DiffInv, DiffInvOf
<1>2. phase = "resolve" /\ adding = {} /\ \A c \in conflicts : ~ c.listed
  BY DEF Resolved
<1>3. conflicts = {}
  BY <1>1, <1>2 DEF ConflictsTyped
<1>4. favored \in Source /\ AllEdits[favored] = EditsOf(favored)
  BY <1>1 DEF Gathered, AllEdits
<1>5. EditsOf(favored) \subseteq diffDict
  BY <1>1, <1>2, <1>4 DEF Gathered
<1>6. \A f \in diffDict \ EditsOf(favored), e \in EditsOf(favored) : ~ AnyClash(e, f)
  BY <1>1, <1>2, <1>3, <1>4 DEF TheirsRecorded, AnyClash
<1>7. \A e, f \in diffDict : e # f => ~ AnyClash(e, f)
  BY <1>1, <1>3 DEF Recorded, AnyClash
<1> QED
  BY <1>2, <1>3, <1>4, <1>5, <1>6, <1>7

(* The conflicts of a diff (-hasConflicts) are the clashes of its edits,   *)
(* in whatever order edits were added and conflicts removed.               *)
THEOREM Conflicts == Spec => []ConflictsFound
<1>1. DiffInv => ConflictsFound
  <2> SUFFICES ASSUME DiffInv, phase \in {"diff", "merge"} \/ Resolved
               PROVE  HasConflicts <=>
                        \E e, f \in diffDict :
                          AnyClash(e, f) /\ ~ IsEqualIgnoringSourceIdentifier(e, f)
    BY DEF ConflictsFound
  <2>1. /\ \A s \in Source : OneSided(s, AllEdits[s])
        /\ Gathered(AllEdits, diffDict, adding, phase, favored)
        /\ Recorded(diffDict, conflicts)
        /\ Grown(diffDict, conflicts, phase)
    BY DEF DiffInv, DiffInvOf
  <2>2. diffDict \subseteq Edits
    BY <2>1 DEF Gathered, OneSided, Source
  <2>3. ASSUME NEW e \in diffDict, NEW f \in diffDict, AnyClash(e, f),
               ~ IsEqualIgnoringSourceIdentifier(e, f)
        PROVE  HasConflicts
    <3>1. e # f
      BY <2>2, <2>3 DEF IsEqualIgnoringSourceIdentifier, Edits
    <3>2. PICK category \in Category : Clash(category, e, f)
      BY <2>3 DEF AnyClash
    <3>3. PICK c \in conflicts : {e, f} \subseteq c.edits
      BY <2>1, <3>1, <3>2 DEF Recorded
    <3>4. ~ Nonconflicting(c)
      BY <2>3, <3>3 DEF Nonconflicting
    <3> QED
      BY <3>4 DEF HasConflicts
  <2>4. ASSUME HasConflicts
        PROVE  ~ Agree(diffDict)
    <3>1. CASE phase \in {"diff", "merge"}
      BY <2>1, <2>4, <3>1 DEF Grown, HasConflicts
    <3>2. CASE Resolved
      BY <2>4, <3>2, ResolvedFacts DEF HasConflicts
    <3> QED
      BY <3>1, <3>2
  <2> QED
    BY <2>3, <2>4 DEF Agree
<1> QED
  BY <1>1, DiffInvInvariant, PTL

(* -resolveConflictsFavoringSourceIdentifier: ends with no conflict, as it *)
(* asserts; of the favored side the diff then has all edits, and of the    *)
(* other one exactly those that clash with none of them.                   *)
THEOREM Resolving == Spec => []FavoredSideWins
<1>1. DiffInv => FavoredSideWins
  <2> SUFFICES ASSUME DiffInv, Resolved
               PROVE  LET ours == EditsOf(favored)
                          theirs == UNION {EditsOf(s) : s \in Source \ {favored}}
                      IN /\ ~ HasConflicts
                         /\ diffDict = ours \cup {e \in theirs : \A f \in ours : ~ AnyClash(e, f)}
    BY DEF FavoredSideWins
  <2> DEFINE ours == EditsOf(favored)
             theirs == UNION {EditsOf(s) : s \in Source \ {favored}}
  <2>1. /\ conflicts = {} /\ phase = "resolve" /\ favored \in Source
        /\ ours \subseteq diffDict
        /\ \A f \in diffDict \ ours, e \in ours : ~ AnyClash(e, f)
    BY ResolvedFacts
  <2>2. /\ \A s \in Source : OneSided(s, AllEdits[s])
        /\ Gathered(AllEdits, diffDict, adding, phase, favored)
    BY DEF DiffInv, DiffInvOf
  <2>3. \A s \in Source : AllEdits[s] = EditsOf(s)
    BY DEF AllEdits
  <2>4. diffDict \subseteq EditsOf("self") \cup EditsOf("other")
    BY <2>2, <2>3 DEF Gathered, Source
  <2>5. diffDict \ ours \subseteq theirs
    BY <2>1, <2>4 DEF Source
  <2>6. \A e \in ours \cup theirs : e \in Edits
    BY <2>1, <2>2, <2>3 DEF OneSided
  <2>7. ASSUME NEW f \in diffDict \ ours, NEW e \in ours
        PROVE  ~ AnyClash(f, e)
    <3>1. ~ AnyClash(e, f) /\ e \in Edits /\ f \in Edits
      BY <2>1, <2>5, <2>6
    <3> QED
      BY <3>1, ClashSymmetric DEF AnyClash
  <2>8. \A e \in theirs : (\A f \in ours : ~ AnyClash(e, f)) => e \in Unopposed(AllEdits, favored)
    BY <2>1, <2>3 DEF Unopposed
  <2>9. Unopposed(AllEdits, favored) \subseteq diffDict
    BY <2>1, <2>2 DEF Gathered
  <2> HIDE DEF ours, theirs
  <2>10. diffDict = ours \cup {e \in theirs : \A f \in ours : ~ AnyClash(e, f)}
    BY <2>1, <2>5, <2>7, <2>8, <2>9
  <2>11. ~ HasConflicts
    BY <2>1 DEF HasConflicts
  <2> QED
    BY <2>10, <2>11 DEF ours, theirs
<1> QED
  BY <1>1, DiffInvInvariant, PTL

=============================================================================
