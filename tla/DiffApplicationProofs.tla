------------------------ MODULE DiffApplicationProofs ------------------------
(***************************************************************************)
(* Proofs about the application of edits: that the difference of two       *)
(* graphs makes the second of the first, and that a merge has what both    *)
(* sides made of every array.                                              *)
(***************************************************************************)
EXTENDS ItemGraphDiffProofs

-----------------------------------------------------------------------------
(* What is left in place *)

(* The positions in the ranges *)
Covered(s, x) == \E i \in DOMAIN s : s[i].location <= x /\ x < End(s[i])

(* Pairs P of positions match the parts of two arrays that are not in the  *)
(* ranges A and B, in order.                                               *)
AreMatched(a, b, la, ua, lb, ub, A, B, P) ==
  /\ P \subseteq (la .. ua - 1) \X (lb .. ub - 1)
  /\ \A p \in P : Equal(a, b, p[1], p[2]) /\ ~Covered(A, p[1]) /\ ~Covered(B, p[2])
  /\ \A x \in la .. ua - 1 : ~Covered(A, x) => \E p \in P : p[1] = x
  /\ \A y \in lb .. ub - 1 : ~Covered(B, y) => \E p \in P : p[2] = y
  /\ \A p, q \in P : p[1] < q[1] <=> p[2] < q[2]

(* Nothing is covered by no range, and one covers its positions.           *)
LEMMA CoveredShort ==
  /\ \A x : ~Covered(<< >>, x)
  /\ \A r, x : Covered(<<r>>, x) <=> r.location <= x /\ x < End(r)
<1>1. \A x : ~Covered(<< >>, x)
  BY DEF Covered
<1>2. ASSUME NEW r, NEW x
      PROVE  Covered(<<r>>, x) <=> r.location <= x /\ x < End(r)
  <2>1. DOMAIN <<r>> = {1} /\ <<r>>[1] = r
    OBVIOUS
  <2> QED
    BY <2>1 DEF Covered
<1> QED
  BY <1>1, <1>2

(* The ranges of a part cover positions of that part only.                 *)
LEMMA CoveredWithin ==
  ASSUME NEW lower \in Nat, NEW upper \in Nat, NEW s, AreApart(s, lower, upper), NEW x \in Int,
         Covered(s, x)
  PROVE  lower <= x /\ x < upper
<1>1. PICK i \in DOMAIN s : s[i].location <= x /\ x < End(s[i])
  BY DEF Covered
<1>2. lower <= s[i].location /\ End(s[i]) <= upper /\ s[i] \in Spans
  BY DEF AreApart
<1> QED
  BY <1>1, <1>2 DEF Spans, End

(* Those of two parts together                                             *)
LEMMA CoveredConcat ==
  ASSUME NEW s \in Seq(Spans), NEW t \in Seq(Spans), NEW x
  PROVE  Covered(s \o t, x) <=> Covered(s, x) \/ Covered(t, x)
<1>1. PICK u : u = s \o t
  OBVIOUS
<1>2. /\ Len(s) \in Nat /\ Len(t) \in Nat /\ DOMAIN s = 1 .. Len(s) /\ DOMAIN t = 1 .. Len(t)
      /\ DOMAIN u = 1 .. Len(s) + Len(t)
      /\ \A i \in 1 .. Len(s) + Len(t) : u[i] = IF i <= Len(s) THEN s[i] ELSE t[i - Len(s)]
  <2>1. u \in Seq(Spans) /\ Len(u) = Len(s) + Len(t)
    BY <1>1
  <2> QED
    BY <1>1, <2>1
<1>3. ASSUME Covered(u, x)
      PROVE  Covered(s, x) \/ Covered(t, x)
  <2>1. PICK i \in DOMAIN u : u[i].location <= x /\ x < End(u[i])
    BY <1>3 DEF Covered
  <2>2. CASE i <= Len(s)
    <3>1. i \in DOMAIN s /\ u[i] = s[i]
      BY <1>2, <2>2
    <3> QED
      BY <2>1, <3>1 DEF Covered
  <2>3. CASE ~ (i <= Len(s))
    <3>1. PICK k : k = i - Len(s)
      OBVIOUS
    <3>2. k \in DOMAIN t /\ u[i] = t[k]
      BY <1>2, <2>3, <3>1
    <3> QED
      BY <2>1, <3>2 DEF Covered
  <2> QED
    BY <2>2, <2>3
<1>4. ASSUME NEW i \in DOMAIN s
      PROVE  i \in DOMAIN u /\ u[i] = s[i]
  BY <1>2
<1>5. ASSUME NEW i \in DOMAIN t
      PROVE  i + Len(s) \in DOMAIN u /\ u[i + Len(s)] = t[i]
  <2>1. i + Len(s) \in DOMAIN u /\ ~ (i + Len(s) <= Len(s)) /\ (i + Len(s)) - Len(s) = i
    BY <1>2
  <2> QED
    BY <1>2, <2>1
<1>6. Covered(s, x) => Covered(u, x)
  BY <1>4 DEF Covered
<1>7. Covered(t, x) => Covered(u, x)
  BY <1>5 DEF Covered
<1> QED
  BY <1>1, <1>3, <1>6, <1>7

(* Two parts match when each does.                                         *)
LEMMA MatchedParts ==
  ASSUME NEW a, NEW b,
         NEW la \in Nat, NEW ma \in Nat, NEW ua \in Nat, la <= ma, ma <= ua,
         NEW lb \in Nat, NEW mb \in Nat, NEW ub \in Nat, lb <= mb, mb <= ub,
         NEW A, AreApart(A, la, ma), NEW B, AreApart(B, lb, mb), NEW P,
         NEW C, AreApart(C, ma, ua), NEW D, AreApart(D, mb, ub), NEW Q,
         AreMatched(a, b, la, ma, lb, mb, A, B, P), AreMatched(a, b, ma, ua, mb, ub, C, D, Q)
  PROVE  AreMatched(a, b, la, ua, lb, ub, A \o C, B \o D, P \cup Q)
<1>1. \A x \in Int : /\ Covered(A \o C, x) <=> Covered(A, x) \/ Covered(C, x)
                     /\ Covered(B \o D, x) <=> Covered(B, x) \/ Covered(D, x)
  <2>1. A \in Seq(Spans) /\ B \in Seq(Spans) /\ C \in Seq(Spans) /\ D \in Seq(Spans)
    BY DEF AreApart
  <2> QED
    BY <2>1, CoveredConcat
<1>2. \A x \in Int : /\ Covered(A, x) => la <= x /\ x < ma
                     /\ Covered(B, x) => lb <= x /\ x < mb
                     /\ Covered(C, x) => ma <= x /\ x < ua
                     /\ Covered(D, x) => mb <= x /\ x < ub
  BY CoveredWithin
<1>3. \A p \in P : /\ p \in (la .. ma - 1) \X (lb .. mb - 1)
                   /\ p[1] \in Int /\ la <= p[1] /\ p[1] < ma /\ p[2] \in Int /\ lb <= p[2] /\ p[2] < mb
  BY DEF AreMatched
<1>4. \A p \in Q : /\ p \in (ma .. ua - 1) \X (mb .. ub - 1)
                   /\ p[1] \in Int /\ ma <= p[1] /\ p[1] < ua /\ p[2] \in Int /\ mb <= p[2] /\ p[2] < ub
  BY DEF AreMatched
<1>5. P \cup Q \subseteq (la .. ua - 1) \X (lb .. ub - 1)
  <2>1. /\ \A x \in la .. ma - 1 : x \in la .. ua - 1
        /\ \A x \in ma .. ua - 1 : x \in la .. ua - 1
        /\ \A y \in lb .. mb - 1 : y \in lb .. ub - 1
        /\ \A y \in mb .. ub - 1 : y \in lb .. ub - 1
    OBVIOUS
  <2>2. /\ (la .. ma - 1) \X (lb .. mb - 1) \subseteq (la .. ua - 1) \X (lb .. ub - 1)
        /\ (ma .. ua - 1) \X (mb .. ub - 1) \subseteq (la .. ua - 1) \X (lb .. ub - 1)
    BY ONLY <2>1
  <2> QED
    BY <1>3, <1>4, <2>2
<1>6. ASSUME NEW p \in P \cup Q
      PROVE  Equal(a, b, p[1], p[2]) /\ ~Covered(A \o C, p[1]) /\ ~Covered(B \o D, p[2])
  <2>1. CASE p \in P
    <3>1. Equal(a, b, p[1], p[2]) /\ ~Covered(A, p[1]) /\ ~Covered(B, p[2])
      BY <2>1 DEF AreMatched
    <3>2. ~Covered(C, p[1]) /\ ~Covered(D, p[2])
      BY <1>2, <1>3, <2>1
    <3> QED
      BY <1>1, <1>3, <2>1, <3>1, <3>2
  <2>2. CASE p \in Q
    <3>1. Equal(a, b, p[1], p[2]) /\ ~Covered(C, p[1]) /\ ~Covered(D, p[2])
      BY <2>2 DEF AreMatched
    <3>2. ~Covered(A, p[1]) /\ ~Covered(B, p[2])
      BY <1>2, <1>4, <2>2
    <3> QED
      BY <1>1, <1>4, <2>2, <3>1, <3>2
  <2> QED
    BY <2>1, <2>2
<1>7. ASSUME NEW x \in la .. ua - 1, ~Covered(A \o C, x)
      PROVE  \E p \in P \cup Q : p[1] = x
  <2>1. ~Covered(A, x) /\ ~Covered(C, x)
    BY <1>1, <1>7
  <2>2. x \in la .. ma - 1 \/ x \in ma .. ua - 1
    OBVIOUS
  <2>3. (\E p \in P : p[1] = x) \/ (\E p \in Q : p[1] = x)
    BY <2>1, <2>2 DEF AreMatched
  <2> QED
    BY <2>3
<1>8. ASSUME NEW y \in lb .. ub - 1, ~Covered(B \o D, y)
      PROVE  \E p \in P \cup Q : p[2] = y
  <2>1. ~Covered(B, y) /\ ~Covered(D, y)
    BY <1>1, <1>8
  <2>2. y \in lb .. mb - 1 \/ y \in mb .. ub - 1
    OBVIOUS
  <2>3. (\E p \in P : p[2] = y) \/ (\E p \in Q : p[2] = y)
    BY <2>1, <2>2 DEF AreMatched
  <2> QED
    BY <2>3
<1>9. ASSUME NEW p \in P \cup Q, NEW q \in P \cup Q
      PROVE  p[1] < q[1] <=> p[2] < q[2]
  <2>1. CASE p \in P /\ q \in P
    BY <2>1 DEF AreMatched
  <2>2. CASE p \in Q /\ q \in Q
    BY <2>2 DEF AreMatched
  <2>3. CASE p \in P /\ q \in Q
    <3>1. p[1] < q[1] /\ p[2] < q[2]
      BY <1>3, <1>4, <2>3, SMTT(30)
    <3> QED
      BY <3>1
  <2>4. CASE p \in Q /\ q \in P
    <3>1. ~ (p[1] < q[1]) /\ ~ (p[2] < q[2])
      BY <1>3, <1>4, <2>4, SMTT(30)
    <3> QED
      BY <3>1
  <2> QED
    BY <2>1, <2>2, <2>3, <2>4
<1> QED
  BY <1>5, <1>6, <1>7, <1>8, <1>9 DEF AreMatched

(* What both arrays have in common is matched with no ranges.              *)
LEMMA MatchedRun ==
  ASSUME NEW a, NEW b, NEW x \in Nat, NEW y \in Nat, NEW n \in Nat,
         \A k \in 0 .. n - 1 : Equal(a, b, x + k, y + k)
  PROVE  \E P : AreMatched(a, b, x, x + n, y, y + n, << >>, << >>, P)
<1> DEFINE P == {<<x + k, y + k>> : k \in 0 .. n - 1}
<1>1. \A k \in 0 .. n - 1 : x + k \in x .. x + n - 1 /\ y + k \in y .. y + n - 1
  OBVIOUS
<1>2. P \subseteq (x .. x + n - 1) \X (y .. y + n - 1)
  BY <1>1
<1>3. \A p \in P : \E k \in 0 .. n - 1 : p = <<x + k, y + k>> /\ p[1] = x + k /\ p[2] = y + k
  OBVIOUS
<1>4. ASSUME NEW k \in 0 .. n - 1
      PROVE  \E p \in P : p[1] = x + k /\ p[2] = y + k
  <2>1. <<x + k, y + k>> \in P
    OBVIOUS
  <2> HIDE DEF P
  <2> QED
    BY <2>1
<1> HIDE DEF P
<1>5. \A p \in P : Equal(a, b, p[1], p[2]) /\ ~Covered(<< >>, p[1]) /\ ~Covered(<< >>, p[2])
  BY <1>3, CoveredShort
<1>6. ASSUME NEW i \in x .. x + n - 1
      PROVE  \E p \in P : p[1] = i
  <2>1. i - x \in 0 .. n - 1 /\ x + (i - x) = i
    OBVIOUS
  <2> QED
    BY <1>4, <2>1
<1>7. ASSUME NEW i \in y .. y + n - 1
      PROVE  \E p \in P : p[2] = i
  <2>1. i - y \in 0 .. n - 1 /\ y + (i - y) = i
    OBVIOUS
  <2> QED
    BY <1>4, <2>1
<1>8. ASSUME NEW p \in P, NEW q \in P
      PROVE  p[1] < q[1] <=> p[2] < q[2]
  <2>1. PICK k \in 0 .. n - 1 : p[1] = x + k /\ p[2] = y + k
    BY <1>3
  <2>2. PICK l \in 0 .. n - 1 : q[1] = x + l /\ q[2] = y + l
    BY <1>3
  <2> QED
    BY <2>1, <2>2
<1>9. AreMatched(a, b, x, x + n, y, y + n, << >>, << >>, P)
  BY <1>2, <1>5, <1>6, <1>7, <1>8 DEF AreMatched
<1> QED
  BY <1>9

(* A part of one array alone is matched with one range.                    *)
LEMMA MatchedGap ==
  ASSUME NEW a, NEW b, NEW x \in Nat, NEW y \in Nat, NEW n \in Nat
  PROVE  /\ AreMatched(a, b, x, x + n, y, y, <<Span(x, n)>>, << >>, {})
         /\ AreMatched(a, b, x, x, y, y + n, << >>, <<Span(y, n)>>, {})
<1>1. ASSUME NEW z \in Nat, NEW i \in z .. z + n - 1
      PROVE  Covered(<<Span(z, n)>>, i)
  <2>1. PICK r : r = Span(z, n)
    OBVIOUS
  <2>2. r.location = z /\ End(r) = z + n
    BY <2>1 DEF Span, End
  <2>3. r.location <= i /\ i < End(r)
    BY <2>2
  <2> QED
    BY <2>1, <2>3, CoveredShort
<1>2. ASSUME NEW z \in Nat
      PROVE  z .. z - 1 = {}
  OBVIOUS
<1> QED
  BY <1>1, <1>2 DEF AreMatched

(* The runs that are taken off a box.                                      *)
LEMMA InnerRuns ==
  ASSUME NEW a, NEW b, Len(a) \in Nat, Len(b) \in Nat, NEW box \in Boxes(a, b),
         NEW inner, inner = Inner(a, b, box)
  PROVE  \E n \in Nat, m \in Nat :
           /\ inner.lowerA = box.lowerA + n /\ inner.lowerB = box.lowerB + n
           /\ box.upperA = inner.upperA + m /\ box.upperB = inner.upperB + m
           /\ \A k \in 0 .. n - 1 : Equal(a, b, box.lowerA + k, box.lowerB + k)
           /\ \A k \in 0 .. m - 1 : Equal(a, b, inner.upperA + k, inner.upperB + k)
<1>1. PICK front : front = CommonAfter(a, b, box, box.lowerA, box.lowerB)
  OBVIOUS
<1>2. PICK rest : rest = [box EXCEPT !.lowerA = @ + front, !.lowerB = @ + front]
  OBVIOUS
<1>3. PICK back : back = CommonBefore(a, b, rest, rest.upperA, rest.upperB)
  OBVIOUS
<1>4. inner = [rest EXCEPT !.upperA = @ - back, !.upperB = @ - back]
  BY <1>1, <1>2, <1>3 DEF Inner
<1>5. /\ box \in [lowerA : Int, upperA : Int, lowerB : Int, upperB : Int]
      /\ IsBox(box)
  BY BoxesAreBoxes
<1>6. /\ front \in Nat
      /\ front > 0 => box.lowerA + front <= box.upperA /\ box.lowerB + front <= box.upperB
      /\ \A j \in 0 .. front - 1 : Equal(a, b, box.lowerA + j, box.lowerB + j)
  BY <1>1, <1>5, CommonAfterFacts DEF IsBox
<1>7. /\ rest \in [lowerA : Int, upperA : Int, lowerB : Int, upperB : Int]
      /\ rest.lowerA = box.lowerA + front /\ rest.lowerB = box.lowerB + front
      /\ rest.upperA = box.upperA /\ rest.upperB = box.upperB
  <2>1. PICK x : x = box.lowerA + front
    OBVIOUS
  <2>2. PICK y : y = box.lowerB + front
    OBVIOUS
  <2>3. rest = [box EXCEPT !.lowerA = x, !.lowerB = y]
    BY <1>2, <2>1, <2>2
  <2>4. x \in Int /\ y \in Int
    BY <1>5, <1>6, <2>1, <2>2 DEF IsBox
  <2> QED
    BY <1>5, <2>1, <2>2, <2>3, <2>4, BoxExcept
<1>8. IsBox(rest)
  BY <1>5, <1>6, <1>7 DEF IsBox
<1>9. /\ back \in Nat
      /\ \A j \in 1 .. back : Equal(a, b, rest.upperA - j, rest.upperB - j)
  BY <1>3, <1>8, CommonBeforeFacts DEF IsBox
<1>10. /\ inner.lowerA = rest.lowerA /\ inner.lowerB = rest.lowerB
       /\ inner.upperA = rest.upperA - back /\ inner.upperB = rest.upperB - back
  <2>1. PICK x : x = rest.upperA - back
    OBVIOUS
  <2>2. PICK y : y = rest.upperB - back
    OBVIOUS
  <2>3. inner = [rest EXCEPT !.upperA = x, !.upperB = y]
    BY <1>4, <2>1, <2>2
  <2>4. x \in Int /\ y \in Int
    BY <1>8, <1>9, <2>1, <2>2 DEF IsBox
  <2> QED
    BY <1>7, <2>1, <2>2, <2>3, <2>4, BoxExcept, ZenonT(30)
<1>11. ASSUME NEW k \in 0 .. back - 1
       PROVE  Equal(a, b, inner.upperA + k, inner.upperB + k)
  <2>0. rest.upperA \in Int /\ rest.upperB \in Int
    BY <1>8 DEF IsBox
  <2>1. /\ back - k \in 1 .. back
        /\ rest.upperA - (back - k) = inner.upperA + k /\ rest.upperB - (back - k) = inner.upperB + k
    <3>1. k \in Int /\ 0 <= k /\ k <= back - 1
      BY <1>9
    <3>2. back - k \in 1 .. back
      BY ONLY <1>9, <3>1
    <3>3. \A u \in Int : u - (back - k) = (u - back) + k
      BY ONLY <1>9, <3>1
    <3> QED
      BY <1>10, <2>0, <3>2, <3>3
  <2>2. Equal(a, b, rest.upperA - (back - k), rest.upperB - (back - k))
    BY <1>9, <2>1
  <2> QED
    BY <2>1, <2>2
<1>12. /\ inner.lowerA = box.lowerA + front /\ inner.lowerB = box.lowerB + front
       /\ box.upperA = inner.upperA + back /\ box.upperB = inner.upperB + back
  BY <1>5, <1>6, <1>7, <1>8, <1>9, <1>10 DEF IsBox
<1> QED
  BY <1>6, <1>9, <1>11, <1>12

(* The parts of a box are those of what is left.                           *)
LEMMA PartBounds ==
  ASSUME NEW a, NEW b, Len(a) \in Nat, Len(b) \in Nat, NEW box \in Boxes(a, b),
         IsSplit(a, b, box),
         NEW inner, inner = Inner(a, b, box),
         NEW to, to = PartTo(a, b, box), NEW from, from = PartFrom(a, b, box)
  PROVE  /\ to.lowerA = inner.lowerA /\ to.lowerB = inner.lowerB
         /\ from.upperA = inner.upperA /\ from.upperB = inner.upperB
<1>1. PICK x : x = MiddleSnake(a, b, inner).x
  OBVIOUS
<1>2. PICK y : y = MiddleSnake(a, b, inner).y
  OBVIOUS
<1>3. inner \in [lowerA : Int, upperA : Int, lowerB : Int, upperB : Int]
  <2>1. inner \in Boxes(a, b)
    BY InnerFacts
  <2> QED
    BY <2>1, BoxesAreBoxes
<1>4. to = [inner EXCEPT !.upperA = x, !.upperB = y]
  BY <1>1, <1>2 DEF PartTo
<1>5. from = [inner EXCEPT !.lowerA = x, !.lowerB = y]
  BY <1>1, <1>2 DEF PartFrom
<1> QED
  BY <1>3, <1>4, <1>5

(* Ranges of two parts                                                     *)
LEMMA ApartParts ==
  ASSUME NEW lower \in Nat, NEW middle \in Nat, NEW upper \in Nat, lower <= middle, middle <= upper,
         NEW s, AreApart(s, lower, middle), NEW t, AreApart(t, middle, upper)
  PROVE  AreApart(s \o t, lower, upper)
<1>1. lower <= lower /\ upper <= upper
  OBVIOUS
<1> QED
  BY <1>1, ApartConcat

(* What is not in the ranges found in a box matches.                       *)
LEMMA RangesMatched ==
  ASSUME NEW a, NEW b, Len(a) \in Nat, Len(b) \in Nat, NEW e \in Boxes(a, b)
  PROVE  \E P : AreMatched(a, b, e.lowerA, e.upperA, e.lowerB, e.upperB,
                           AllRanges(a, b)[e].A, AllRanges(a, b)[e].B, P)
<1> DEFINE Good(box, r) == \E P : AreMatched(a, b, box.lowerA, box.upperA, box.lowerB, box.upperB,
                                             r.A, r.B, P)
<1>1. PICK f : f = AllRanges(a, b)
  OBVIOUS
<1>2. \A box \in Boxes(a, b) :
        f[box] = RangesOfBox(a, b, box, f[PartTo(a, b, box)], f[PartFrom(a, b, box)])
  <2>1. f = [box \in Boxes(a, b) |->
               RangesOfBox(a, b, box, f[PartTo(a, b, box)], f[PartFrom(a, b, box)])]
    BY <1>1, RangesExist DEF AreRanges
  <2> QED
    BY <2>1
<1>3. \A box \in Boxes(a, b) :
        /\ box.lowerA \in Nat /\ box.upperA \in Nat /\ box.lowerA <= box.upperA /\ box.upperA <= Len(a)
        /\ box.lowerB \in Nat /\ box.upperB \in Nat /\ box.lowerB <= box.upperB /\ box.upperB <= Len(b)
        /\ Size(box) \in Nat
  BY BoxBounds
<1>4. \A box \in Boxes(a, b) : /\ AreApart(f[box].A, box.lowerA, box.upperA)
                               /\ AreApart(f[box].B, box.lowerB, box.upperB)
  BY <1>1, RangesApart
<1>5. ASSUME NEW A, NEW B
      PROVE  Ranges(A, B).A = A /\ Ranges(A, B).B = B
  BY DEF Ranges
<1>6. ASSUME NEW box \in Boxes(a, b),
             \A c \in Boxes(a, b) : Size(c) < Size(box) => Good(c, f[c])
      PROVE  Good(box, f[box])
  <2>1. PICK inner : inner = Inner(a, b, box)
    OBVIOUS
  <2>2. inner \in Boxes(a, b)
    BY <2>1, InnerFacts
  <2>3. PICK A : A = f[box].A
    OBVIOUS
  <2>4. PICK B : B = f[box].B
    OBVIOUS
  <2>5. \E P : /\ AreMatched(a, b, inner.lowerA, inner.upperA, inner.lowerB, inner.upperB, A, B, P)
               /\ AreApart(A, inner.lowerA, inner.upperA) /\ AreApart(B, inner.lowerB, inner.upperB)
    <3>1. PICK to : to = PartTo(a, b, box)
      OBVIOUS
    <3>2. PICK from : from = PartFrom(a, b, box)
      OBVIOUS
    <3>3. PICK v : v = f[to]
      OBVIOUS
    <3>4. PICK w : w = f[from]
      OBVIOUS
    <3>5. f[box] = RangesOfBox(a, b, box, v, w)
      BY <1>2, <3>1, <3>2, <3>3, <3>4
    <3>6. CASE IsSplit(a, b, box)
      <4>1. /\ to \in Boxes(a, b) /\ from \in Boxes(a, b)
            /\ Size(to) < Size(box) /\ Size(from) < Size(box)
            /\ to.upperA = from.lowerA /\ to.upperB = from.lowerB
        BY <3>1, <3>2, <3>6, PartFacts
      <4>2. /\ to.lowerA = inner.lowerA /\ to.lowerB = inner.lowerB
            /\ from.upperA = inner.upperA /\ from.upperB = inner.upperB
        BY <2>1, <3>1, <3>2, <3>6, PartBounds
      <4>3. A = v.A \o w.A /\ B = v.B \o w.B
        <5>1. RangesOfBox(a, b, box, v, w) = Ranges(v.A \o w.A, v.B \o w.B)
          BY <3>6, RangesOfSplit
        <5>2. PICK r, t : r = v.A \o w.A /\ t = v.B \o w.B
          OBVIOUS
        <5>3. f[box] = Ranges(r, t)
          BY <3>5, <5>1, <5>2
        <5>4. f[box].A = r /\ f[box].B = t
          BY <1>5, <5>3
        <5> QED
          BY <2>3, <2>4, <5>2, <5>4
      <4>4. Good(to, v) /\ Good(from, w)
        <5> HIDE DEF Good
        <5> QED
          BY <1>6, <3>3, <3>4, <4>1
      <4>5. PICK P : AreMatched(a, b, to.lowerA, to.upperA, to.lowerB, to.upperB, v.A, v.B, P)
        BY <4>4
      <4>6. PICK Q : AreMatched(a, b, from.lowerA, from.upperA, from.lowerB, from.upperB, w.A, w.B, Q)
        BY <4>4
      <4>7. /\ AreApart(v.A, to.lowerA, to.upperA) /\ AreApart(v.B, to.lowerB, to.upperB)
            /\ AreApart(w.A, from.lowerA, from.upperA) /\ AreApart(w.B, from.lowerB, from.upperB)
        BY <1>4, <3>3, <3>4, <4>1
      <4>8. PICK la, ma, ua : la = inner.lowerA /\ ma = to.upperA /\ ua = inner.upperA
        OBVIOUS
      <4>9. PICK lb, mb, ub : lb = inner.lowerB /\ mb = to.upperB /\ ub = inner.upperB
        OBVIOUS
      <4>10. /\ la \in Nat /\ ma \in Nat /\ ua \in Nat /\ la <= ma /\ ma <= ua
             /\ lb \in Nat /\ mb \in Nat /\ ub \in Nat /\ lb <= mb /\ mb <= ub
        BY <1>3, <4>1, <4>2, <4>8, <4>9
      <4>11. /\ AreMatched(a, b, la, ma, lb, mb, v.A, v.B, P)
             /\ AreMatched(a, b, ma, ua, mb, ub, w.A, w.B, Q)
             /\ AreApart(v.A, la, ma) /\ AreApart(v.B, lb, mb)
             /\ AreApart(w.A, ma, ua) /\ AreApart(w.B, mb, ub)
        BY <4>1, <4>2, <4>5, <4>6, <4>7, <4>8, <4>9
      <4>12. AreMatched(a, b, la, ua, lb, ub, v.A \o w.A, v.B \o w.B, P \cup Q)
        BY <4>10, <4>11, MatchedParts
      <4>13. AreApart(v.A \o w.A, la, ua) /\ AreApart(v.B \o w.B, lb, ub)
        BY <4>10, <4>11, ApartParts
      <4> QED
        BY <4>3, <4>8, <4>9, <4>12, <4>13
    <3>7. CASE ~ IsSplit(a, b, box)
      <4>1. PICK sizeA : sizeA = SizeA(a, b, box)
        OBVIOUS
      <4>2. PICK sizeB : sizeB = SizeB(a, b, box)
        OBVIOUS
      <4>3. PICK x : x = inner.lowerA
        OBVIOUS
      <4>4. PICK y : y = inner.lowerB
        OBVIOUS
      <4>5. /\ sizeA \in Nat /\ sizeB \in Nat /\ x \in Nat /\ y \in Nat
            /\ inner.upperA = x + sizeA /\ inner.upperB = y + sizeB
            /\ x + sizeA \in Nat /\ y + sizeB \in Nat
        <5>1. sizeA \in Nat /\ sizeB \in Nat
          BY <4>1, <4>2, SplitSizes
        <5>2. /\ x \in Nat /\ inner.upperA \in Nat /\ y \in Nat /\ inner.upperB \in Nat
          BY <1>3, <2>2, <4>3, <4>4
        <5>3. sizeA = inner.upperA - x /\ sizeB = inner.upperB - y
          BY <2>1, <4>1, <4>2, <4>3, <4>4 DEF SizeA, SizeB
        <5> QED
          BY <5>1, <5>2, <5>3
      <4>6. \/ sizeA = 0 /\ sizeB = 0
            \/ sizeA = 0 /\ sizeB > 0
            \/ sizeB = 0 /\ sizeA > 0
        BY <3>7, <4>1, <4>2, SplitSizes
      <4>7. CASE sizeA = 0 /\ sizeB = 0
        <5>0. RangesOfBox(a, b, box, v, w) = Ranges(<< >>, << >>)
          <6>1. SizeA(a, b, box) = 0 /\ SizeB(a, b, box) = 0
            BY <4>1, <4>2, <4>7
          <6> QED
            BY <6>1, RangesOfNothing
        <5>1. f[box] = Ranges(<< >>, << >>)
          BY <3>5, <5>0
        <5>2. A = << >> /\ B = << >>
          BY <1>5, <2>3, <2>4, <5>1
        <5>3. \E P : AreMatched(a, b, x, x + 0, y, y + 0, << >>, << >>, P)
          <6>1. 0 \in Nat /\ \A k \in 0 .. 0 - 1 : Equal(a, b, x + k, y + k)
            OBVIOUS
          <6> QED
            BY <4>5, <6>1, MatchedRun
        <5>4. x + 0 = inner.upperA /\ y + 0 = inner.upperB
          BY <4>5, <4>7
        <5>5. AreApart(<< >>, inner.lowerA, inner.upperA) /\ AreApart(<< >>, inner.lowerB, inner.upperB)
          BY <4>3, <4>4, <4>5, ApartShort
        <5> QED
          BY <4>3, <4>4, <5>2, <5>3, <5>4, <5>5
      <4>8. CASE sizeA = 0 /\ sizeB > 0
        <5>0. RangesOfBox(a, b, box, v, w) = Ranges(<< >>, <<Span(Inner(a, b, box).lowerB, SizeB(a, b, box))>>)
          <6>1. SizeA(a, b, box) = 0 /\ SizeB(a, b, box) > 0
            BY <4>1, <4>2, <4>8
          <6> QED
            BY <6>1, RangesOfInsertion
        <5>1. f[box] = Ranges(<< >>, <<Span(y, sizeB)>>)
          BY <2>1, <3>5, <4>2, <4>4, <5>0
        <5>2. A = << >> /\ B = <<Span(y, sizeB)>>
          BY <1>5, <2>3, <2>4, <5>1
        <5>3. AreMatched(a, b, x, x, y, y + sizeB, << >>, <<Span(y, sizeB)>>, {})
          BY <4>5, MatchedGap
        <5>4. x = inner.upperA /\ y + sizeB = inner.upperB /\ y + sizeB <= inner.upperB /\ y <= y
          BY <4>5, <4>8
        <5>5. AreApart(<< >>, x, inner.upperA) /\ AreApart(<<Span(y, sizeB)>>, y, inner.upperB)
          BY <4>5, <4>8, <5>4, ApartShort
        <5> QED
          BY <4>3, <4>4, <5>2, <5>3, <5>4, <5>5
      <4>9. CASE sizeB = 0 /\ sizeA > 0
        <5>0. RangesOfBox(a, b, box, v, w) = Ranges(<<Span(Inner(a, b, box).lowerA, SizeA(a, b, box))>>, << >>)
          <6>1. SizeB(a, b, box) = 0 /\ SizeA(a, b, box) > 0
            BY <4>1, <4>2, <4>9
          <6> QED
            BY <6>1, RangesOfDeletion
        <5>1. f[box] = Ranges(<<Span(x, sizeA)>>, << >>)
          BY <2>1, <3>5, <4>1, <4>3, <5>0
        <5>2. A = <<Span(x, sizeA)>> /\ B = << >>
          BY <1>5, <2>3, <2>4, <5>1
        <5>3. AreMatched(a, b, x, x + sizeA, y, y, <<Span(x, sizeA)>>, << >>, {})
          BY <4>5, MatchedGap
        <5>4. y = inner.upperB /\ x + sizeA = inner.upperA /\ x + sizeA <= inner.upperA /\ x <= x
          BY <4>5, <4>9
        <5>5. AreApart(<< >>, y, inner.upperB) /\ AreApart(<<Span(x, sizeA)>>, x, inner.upperA)
          BY <4>5, <4>9, <5>4, ApartShort
        <5> QED
          BY <4>3, <4>4, <5>2, <5>3, <5>4, <5>5
      <4> QED
        BY <4>6, <4>7, <4>8, <4>9
    <3> QED
      BY <3>6, <3>7
  <2>6. PICK P : /\ AreMatched(a, b, inner.lowerA, inner.upperA, inner.lowerB, inner.upperB, A, B, P)
                 /\ AreApart(A, inner.lowerA, inner.upperA) /\ AreApart(B, inner.lowerB, inner.upperB)
    BY <2>5
  <2>7. PICK n \in Nat, m \in Nat :
          /\ inner.lowerA = box.lowerA + n /\ inner.lowerB = box.lowerB + n
          /\ box.upperA = inner.upperA + m /\ box.upperB = inner.upperB + m
          /\ \A k \in 0 .. n - 1 : Equal(a, b, box.lowerA + k, box.lowerB + k)
          /\ \A k \in 0 .. m - 1 : Equal(a, b, inner.upperA + k, inner.upperB + k)
    BY <2>1, InnerRuns
  <2>8. PICK x0, x1, x2, x3 : x0 = box.lowerA /\ x1 = inner.lowerA /\ x2 = inner.upperA /\ x3 = box.upperA
    OBVIOUS
  <2>9. PICK y0, y1, y2, y3 : y0 = box.lowerB /\ y1 = inner.lowerB /\ y2 = inner.upperB /\ y3 = box.upperB
    OBVIOUS
  <2>10. /\ x0 \in Nat /\ x1 \in Nat /\ x2 \in Nat /\ x3 \in Nat /\ x1 <= x2
         /\ y0 \in Nat /\ y1 \in Nat /\ y2 \in Nat /\ y3 \in Nat /\ y1 <= y2
    BY <1>3, <2>2, <2>8, <2>9
  <2>11. x1 = x0 + n /\ y1 = y0 + n /\ x3 = x2 + m /\ y3 = y2 + m
    BY <2>7, <2>8, <2>9
  <2>12. x0 <= x1 /\ x2 <= x3 /\ y0 <= y1 /\ y2 <= y3 /\ x0 <= x2 /\ y0 <= y2
    BY <2>10, <2>11
  <2>13. AreApart(<< >>, x0, x1) /\ AreApart(<< >>, y0, y1) /\ AreApart(<< >>, x2, x3) /\ AreApart(<< >>, y2, y3)
    BY <2>10, ApartShort
  <2>14. PICK Q : AreMatched(a, b, x0, x1, y0, y1, << >>, << >>, Q)
    <3>1. \E Q : AreMatched(a, b, x0, x0 + n, y0, y0 + n, << >>, << >>, Q)
      BY <2>7, <2>8, <2>9, <2>10, MatchedRun
    <3> QED
      BY <2>11, <3>1
  <2>15. PICK R : AreMatched(a, b, x2, x3, y2, y3, << >>, << >>, R)
    <3>1. \E R : AreMatched(a, b, x2, x2 + m, y2, y2 + m, << >>, << >>, R)
      BY <2>7, <2>8, <2>9, <2>10, MatchedRun
    <3> QED
      BY <2>11, <3>1
  <2>16. AreMatched(a, b, x1, x2, y1, y2, A, B, P) /\ AreApart(A, x1, x2) /\ AreApart(B, y1, y2)
    BY <2>6, <2>8, <2>9
  <2>17. A \in Seq(Spans) /\ B \in Seq(Spans)
    BY <2>16 DEF AreApart
  <2>18. << >> \o A = A /\ << >> \o B = B /\ A \o << >> = A /\ B \o << >> = B
    BY <2>17
  <2>19. AreMatched(a, b, x0, x2, y0, y2, << >> \o A, << >> \o B, Q \cup P)
    BY <2>10, <2>12, <2>13, <2>14, <2>16, MatchedParts
  <2>20. AreApart(<< >> \o A, x0, x2) /\ AreApart(<< >> \o B, y0, y2)
    BY <2>10, <2>12, <2>13, <2>16, ApartParts
  <2>21. AreMatched(a, b, x0, x3, y0, y3, A \o << >>, B \o << >>, (Q \cup P) \cup R)
    BY <2>10, <2>12, <2>13, <2>15, <2>18, <2>19, <2>20, MatchedParts
  <2> QED
    BY <2>3, <2>4, <2>8, <2>9, <2>18, <2>21
<1>7. \A box \in Boxes(a, b) : Good(box, f[box])
  <2> DEFINE Bad == {n \in Nat : \E box \in Boxes(a, b) : Size(box) = n /\ ~ Good(box, f[box])}
  <2>1. Bad \in SUBSET Nat
    OBVIOUS
  <2>2. ASSUME Bad # {}
        PROVE  FALSE
    <3>1. PICK n \in Bad : \A k \in Bad : n <= k
      <4> HIDE DEF Bad
      <4> QED
        BY <2>1, <2>2, LeastNumber
    <3>2. PICK box \in Boxes(a, b) : Size(box) = n /\ ~ Good(box, f[box])
      <4> HIDE DEF Good
      <4> QED
        OBVIOUS
    <3>3. \A c \in Boxes(a, b) : ~ Good(c, f[c]) => Size(c) \in Bad
      <4> HIDE DEF Good
      <4> QED
        BY <1>3
    <3>4. \A c \in Boxes(a, b) : Size(c) < Size(box) => Good(c, f[c])
      <4> HIDE DEF Good, Bad
      <4> QED
        BY <1>3, <3>1, <3>2, <3>3
    <3> HIDE DEF Good, Bad
    <3> QED
      BY <1>6, <3>2, <3>4
  <2> TAKE box \in Boxes(a, b)
  <2>3. ~ Good(box, f[box]) => Size(box) \in Bad
    <3> HIDE DEF Good
    <3> QED
      BY <1>3
  <2> HIDE DEF Good, Bad
  <2> QED
    BY <2>2, <2>3
<1>8. Good(e, f[e])
  <2> HIDE DEF Good
  <2> QED
    BY <1>7
<1> QED
  BY <1>1, <1>8

AreSeparate(s) == \A i, j \in DOMAIN s : i < j => End(s[i]) < s[j].location

(* A range that is added stays separate from the others, and covers what   *)
(* it covers.                                                              *)
LEMMA AddRangeCovers ==
  ASSUME NEW h \in Nat, NEW s, AreApart(s, 0, h), AreSeparate(s),
         NEW r \in Spans, r.length > 0, h <= r.location
  PROVE  /\ AreSeparate(AddRange(s, r))
         /\ \A x \in Int : Covered(AddRange(s, r), x) <=>
                             Covered(s, x) \/ (r.location <= x /\ x < End(r))
<1>1. /\ s \in Seq(Spans) /\ Len(s) \in Nat /\ DOMAIN s = 1 .. Len(s)
      /\ \A i \in DOMAIN s : s[i] \in Spans
  BY DEF AreApart
<1>2. /\ r.location \in Nat /\ r.length \in Nat /\ End(r) \in Nat
      /\ End(r) = r.location + r.length
  BY DEF Spans, End
<1>3. \A i \in DOMAIN s : /\ s[i].location \in Nat /\ s[i].length \in Nat /\ s[i].length > 0
                          /\ End(s[i]) = s[i].location + s[i].length /\ End(s[i]) <= h
  BY <1>1 DEF AreApart, Spans, End
<1>4. CASE s # << >> /\ End(Last(s)) = r.location
  <2>1. Len(s) \in DOMAIN s /\ Len(s) - 1 \in Nat
    BY <1>1, <1>4
  <2>2. PICK l : l = s[Len(s)]
    OBVIOUS
  <2>3. Last(s) = l
    BY <2>2 DEF Last
  <2>4. PICK m : m = [l EXCEPT !.length = @ + r.length]
    OBVIOUS
  <2>5. /\ m \in Spans /\ m.location = l.location /\ m.length = l.length + r.length
    <3>1. l \in Spans /\ l.length + r.length \in Nat
      BY <1>1, <1>2, <1>3, <2>1, <2>2
    <3> QED
      BY <2>4, <3>1 DEF Spans
  <2>6. m.length > 0 /\ End(m) = End(r) /\ m.location \in Nat
    BY <1>2, <1>3, <1>4, <2>1, <2>2, <2>3, <2>5 DEF End
  <2>7. PICK t : t = Front(s) \o <<m>>
    OBVIOUS
  <2>8. AddRange(s, r) = t
    BY <1>4, <2>3, <2>4, <2>7 DEF AddRange
  <2>9. PICK n : n = Len(s)
    OBVIOUS
  <2>10. /\ n \in Nat /\ n > 0 /\ DOMAIN t = 1 .. n /\ DOMAIN s = 1 .. n
         /\ \A i \in 1 .. n : t[i] = IF i < n THEN s[i] ELSE m
    <3>1. PICK f : f = Front(s)
      OBVIOUS
    <3>2. f = SubSeq(s, 1, n - 1)
      BY <2>9, <3>1 DEF Front
    <3>3. n \in Nat /\ n - 1 \in Nat /\ (n - 1) + 1 = n /\ n > 0
      BY <1>1, <2>1, <2>9
    <3>4. /\ f \in Seq(Spans) /\ Len(f) = n - 1
          /\ \A i \in 1 .. n - 1 : f[i] = s[i]
      BY <1>1, <2>9, <3>2, <3>3
    <3>5. t = Append(f, m)
      BY <2>5, <2>7, <3>1, <3>4
    <3>6. DOMAIN t = 1 .. n
      BY <2>5, <3>3, <3>4, <3>5
    <3>7. \A i \in 1 .. n : t[i] = IF i <= n - 1 THEN f[i] ELSE m
      BY <2>5, <3>3, <3>4, <3>5
    <3>8. \A i \in 1 .. n : (i < n <=> i <= n - 1) /\ (i < n => i \in 1 .. n - 1)
      BY <3>3
    <3> QED
      BY <1>1, <2>9, <3>3, <3>4, <3>6, <3>7, <3>8
  <2>11. AreSeparate(t)
    <3> SUFFICES ASSUME NEW i \in DOMAIN t, NEW j \in DOMAIN t, i < j
                 PROVE  End(t[i]) < t[j].location
      BY DEF AreSeparate
    <3>1. i \in DOMAIN s /\ j \in DOMAIN s /\ t[i] = s[i] /\ (t[j] = s[j] \/ (t[j] = m /\ j = n))
      BY <2>10
    <3>2. End(s[i]) < s[j].location
      BY <3>1 DEF AreSeparate
    <3> QED
      BY <2>2, <2>5, <2>9, <3>1, <3>2
  <2>12. ASSUME NEW x \in Int
         PROVE  Covered(t, x) <=> Covered(s, x) \/ (r.location <= x /\ x < End(r))
    <3>1. n \in DOMAIN t /\ n \in DOMAIN s /\ t[n] = m /\ s[n] = l
      BY <2>2, <2>9, <2>10
    <3>2. /\ m.location <= x /\ x < End(m) <=>
               (l.location <= x /\ x < End(l)) \/ (r.location <= x /\ x < End(r))
      <4>1. End(l) = r.location /\ l.location \in Nat /\ l.location <= End(l) /\ r.location <= End(r)
        BY <1>2, <1>3, <1>4, <2>3, <3>1
      <4> QED
        BY <1>2, <2>5, <2>6, <4>1
    <3>3. \A i \in DOMAIN s : i # n => i \in DOMAIN t /\ t[i] = s[i]
      BY <2>10
    <3>4. DOMAIN t = DOMAIN s
      BY <2>10
    <3> QED
      BY <3>1, <3>2, <3>3, <3>4, ZenonT(30) DEF Covered
  <2> QED
    BY <2>8, <2>11, <2>12
<1>5. CASE ~ (s # << >> /\ End(Last(s)) = r.location)
  <2>1. AddRange(s, r) = Append(s, r)
    BY <1>5 DEF AddRange
  <2>2. PICK t : t = Append(s, r)
    OBVIOUS
  <2>3. /\ t \in Seq(Spans) /\ DOMAIN t = 1 .. Len(s) + 1
        /\ \A i \in DOMAIN t : (i \in DOMAIN s /\ i <= Len(s) /\ t[i] = s[i]) \/ (i = Len(s) + 1 /\ t[i] = r)
    BY <1>1, <2>2
  <2>4. AreSeparate(t)
    <3> SUFFICES ASSUME NEW i \in DOMAIN t, NEW j \in DOMAIN t, i < j
                 PROVE  End(t[i]) < t[j].location
      BY DEF AreSeparate
    <3>1. i \in DOMAIN s /\ t[i] = s[i]
      BY <1>1, <2>3
    <3>2. CASE t[j] = r
      <4>1. s # << >> /\ Last(s) = s[Len(s)] /\ Len(s) \in DOMAIN s /\ i <= Len(s)
        BY <1>1, <3>1 DEF Last
      <4>2. End(s[i]) <= End(s[Len(s)])
        <5>1. CASE i = Len(s)
          BY <1>3, <3>1, <5>1
        <5>2. CASE i < Len(s)
          <6>1. End(s[i]) < s[Len(s)].location
            BY <3>1, <4>1, <5>2 DEF AreSeparate
          <6> QED
            BY <1>3, <3>1, <4>1, <6>1
        <5> QED
          BY <1>1, <3>1, <4>1, <5>1, <5>2
      <4>3. End(s[Len(s)]) # r.location /\ End(s[Len(s)]) <= h
        BY <1>3, <1>5, <4>1
      <4>4. End(s[i]) \in Int /\ End(s[Len(s)]) \in Int
        BY <1>3, <3>1, <4>1
      <4>5. End(s[i]) < r.location
        BY <1>2, <4>2, <4>3, <4>4
      <4> QED
        BY <3>1, <3>2, <4>5
    <3>3. CASE j \in DOMAIN s /\ t[j] = s[j]
      BY <3>1, <3>3 DEF AreSeparate
    <3> QED
      BY <2>3, <3>2, <3>3
  <2>5. ASSUME NEW x \in Int
        PROVE  Covered(t, x) <=> Covered(s, x) \/ (r.location <= x /\ x < End(r))
    <3>1. Len(s) + 1 \in DOMAIN t /\ t[Len(s) + 1] = r
      BY <1>1, <2>2, <2>3
    <3>2. \A i \in DOMAIN s : i \in DOMAIN t /\ t[i] = s[i]
      BY <1>1, <2>2, <2>3
    <3> QED
      BY <2>3, <3>1, <3>2, ZenonT(30) DEF Covered
  <2> QED
    BY <2>1, <2>2, <2>4, <2>5
<1> QED
  BY <1>4, <1>5

(* Touching ranges become one, that are separate and cover the same.       *)
LEMMA ModifiedCovers ==
  ASSUME NEW up \in Nat, NEW ranges, AreApart(ranges, 0, up)
  PROVE  /\ AreSeparate(Modified(ranges))
         /\ \A x \in Int : Covered(Modified(ranges), x) <=> Covered(ranges, x)
<1>1. PICK N : N = Len(ranges)
  OBVIOUS
<1>2. PICK f : f = AllModified(ranges)
  OBVIOUS
<1>3. /\ N \in Nat /\ DOMAIN ranges = 1 .. N /\ Modified(ranges) = f[N]
      /\ f[0] = << >> /\ \A n \in 1 .. N : f[n] = AddRange(f[n - 1], ranges[n])
      /\ \A n \in 1 .. N : ranges[n] \in Spans /\ ranges[n].length > 0
      /\ \A n \in 0 .. N : ReachOf(ranges, n) \in Nat /\ ReachOf(ranges, n) <= up
      /\ \A n \in 1 .. N : ReachOf(ranges, n - 1) <= ranges[n].location
      /\ \A n \in 0 .. N : AreApart(f[n], 0, ReachOf(ranges, n))
  <2>1. AreRounds(ranges, up, N, f)
    BY <1>1, <1>2, RoundsApart
  <2> QED
    BY <2>1 DEF AreRounds
<1> DEFINE Among(n, x) == \E k \in 1 .. n : ranges[k].location <= x /\ x < End(ranges[k])
           Good(n) == /\ AreSeparate(f[n])
                      /\ \A x \in Int : Covered(f[n], x) <=> Among(n, x)
<1>4. Good(0)
  <2>1. AreSeparate(<< >>) /\ \A x : ~Covered(<< >>, x)
    BY CoveredShort DEF AreSeparate
  <2>2. \A x : ~Among(0, x)
    OBVIOUS
  <2> HIDE DEF Among
  <2> QED
    BY <1>3, <2>1, <2>2
<1>5. ASSUME NEW n \in 1 .. N, Good(n - 1)
      PROVE  Good(n)
  <2>1. n - 1 \in 0 .. N
    BY <1>3
  <2>2. PICK h : h = ReachOf(ranges, n - 1)
    OBVIOUS
  <2>3. PICK s : s = f[n - 1]
    OBVIOUS
  <2>4. PICK r : r = ranges[n]
    OBVIOUS
  <2>5. /\ AreSeparate(AddRange(s, r))
        /\ \A x \in Int : Covered(AddRange(s, r), x) <=>
                            Covered(s, x) \/ (r.location <= x /\ x < End(r))
    <3>1. /\ h \in Nat /\ AreApart(s, 0, h) /\ AreSeparate(s) /\ r \in Spans /\ r.length > 0
          /\ h <= r.location
      BY <1>3, <1>5, <2>1, <2>2, <2>3, <2>4
    <3> QED
      BY <3>1, AddRangeCovers
  <2>6. \A x : Among(n, x) <=> Among(n - 1, x) \/ (r.location <= x /\ x < End(r))
    <3>1. n \in 1 .. n /\ \A k \in 1 .. n : k = n \/ k \in 1 .. n - 1
      OBVIOUS
    <3>2. \A k \in 1 .. n - 1 : k \in 1 .. n
      OBVIOUS
    <3> QED
      BY <2>4, <3>1, <3>2
  <2>7. f[n] = AddRange(s, r)
    BY <1>3, <2>3, <2>4
  <2> HIDE DEF Among
  <2> QED
    BY <1>5, <2>3, <2>5, <2>6, <2>7
<1>6. \A n \in 0 .. N : Good(n)
  <2> DEFINE Bad == {n \in 0 .. N : ~ Good(n)}
  <2> SUFFICES ASSUME Bad # {}
               PROVE  FALSE
    BY DEF Bad
  <2> HIDE DEF Good
  <2>1. Bad \in SUBSET Nat
    OBVIOUS
  <2>2. PICK n \in Bad : \A k \in Bad : n <= k
    <3> HIDE DEF Bad
    <3> QED
      BY <2>1, LeastNumber
  <2>3. n \in 0 .. N /\ ~ Good(n)
    OBVIOUS
  <2>4. n \in 1 .. N /\ n - 1 \in 0 .. N /\ ~ (n <= n - 1)
    BY <1>3, <1>4, <2>3
  <2>5. n - 1 \notin Bad
    <3> HIDE DEF Bad
    <3> QED
      BY <2>2, <2>4
  <2> QED
    BY <1>5, <2>3, <2>4, <2>5
<1>7. Good(N)
  <2> HIDE DEF Good
  <2> QED
    BY <1>3, <1>6
<1>8. \A x : Among(N, x) <=> Covered(ranges, x)
  BY <1>3 DEF Covered
<1> HIDE DEF Among
<1> QED
  BY <1>3, <1>7, <1>8

(* The ranges that a difference is made of, and what matches outside them  *)
AreDiffRanges(a, b, A, B, P) ==
  /\ AreApart(A, 0, Len(a)) /\ AreApart(B, 0, Len(b))
  /\ AreSeparate(A) /\ AreSeparate(B)
  /\ AreMatched(a, b, 0, Len(a), 0, Len(b), A, B, P)

(* The ranges that LCS finds are such.                                     *)
LEMMA DiffRanges ==
  ASSUME NEW a, NEW b, Len(a) \in Nat, Len(b) \in Nat,
         NEW A, A = Modified(LCS(a, b).A), NEW B, B = Modified(LCS(a, b).B)
  PROVE  \E P : AreDiffRanges(a, b, A, B, P)
<1>1. PICK box : box = Box(0, Len(a), 0, Len(b))
  OBVIOUS
<1>2. /\ box \in Boxes(a, b)
      /\ box.lowerA = 0 /\ box.upperA = Len(a) /\ box.lowerB = 0 /\ box.upperB = Len(b)
  BY <1>1 DEF Box, Boxes
<1>3. PICK r : r = AllRanges(a, b)[box]
  OBVIOUS
<1>4. LCS(a, b) = r
  BY <1>1, <1>3, LCSIs
<1>5. AreApart(r.A, 0, Len(a)) /\ AreApart(r.B, 0, Len(b))
  BY <1>2, <1>3, RangesApart
<1>6. PICK P : AreMatched(a, b, 0, Len(a), 0, Len(b), r.A, r.B, P)
  <2>1. \E P : AreMatched(a, b, box.lowerA, box.upperA, box.lowerB, box.upperB, r.A, r.B, P)
    BY <1>2, <1>3, RangesMatched
  <2> QED
    BY <1>2, <2>1
<1>7. /\ AreApart(A, 0, Len(a)) /\ AreSeparate(A)
      /\ \A x \in Int : Covered(A, x) <=> Covered(r.A, x)
  BY <1>4, <1>5, ModifiedApart, ModifiedCovers
<1>8. /\ AreApart(B, 0, Len(b)) /\ AreSeparate(B)
      /\ \A x \in Int : Covered(B, x) <=> Covered(r.B, x)
  BY <1>4, <1>5, ModifiedApart, ModifiedCovers
<1>9. \A p \in P : p[1] \in Int /\ p[2] \in Int
  BY <1>6 DEF AreMatched
<1>10. AreMatched(a, b, 0, Len(a), 0, Len(b), A, B, P)
  BY <1>6, <1>7, <1>8, <1>9 DEF AreMatched
<1> QED
  BY <1>7, <1>8, <1>10 DEF AreDiffRanges

(* Positions x and y that divide the pairs alike *)
Divides(P, x, y) == \A p \in P : p[1] < x <=> p[2] < y

(* n positions from x on that are in no range *)
InNone(s, x, n) == \A k \in 0 .. n - 1 : ~Covered(s, x + k)

(* n elements that are the same in both arrays *)
SameRun(a, b, x, y, n) == \A k \in 0 .. n - 1 : Equal(a, b, x + k, y + k)

(* From positions that divide the pairs alike, what is in no range of both *)
(* arrays matches position by position.                                    *)
LEMMA RunsMatch ==
  ASSUME NEW a, NEW b, NEW la \in Nat, NEW lb \in Nat, NEW A, NEW B, NEW P,
         AreMatched(a, b, 0, la, 0, lb, A, B, P),
         NEW x \in Nat, NEW y \in Nat, Divides(P, x, y),
         NEW n \in Nat, x + n <= la, y + n <= lb,
         InNone(A, x, n), InNone(B, y, n)
  PROVE  SameRun(a, b, x, y, n) /\ Divides(P, x + n, y + n)
<1>1. \A p \in P : p[1] \in Nat /\ p[2] \in Nat
  BY DEF AreMatched
<1>2. \A p, q \in P : p[1] < q[1] <=> p[2] < q[2]
  BY DEF AreMatched
<1>3. \A p \in P : Equal(a, b, p[1], p[2])
  BY DEF AreMatched
<1>4. \A k \in 0 .. n - 1 : (\E p \in P : p[1] = x + k) /\ (\E p \in P : p[2] = y + k)
  <2> TAKE k \in 0 .. n - 1
  <2>1. x + k \in 0 .. la - 1 /\ y + k \in 0 .. lb - 1
    OBVIOUS
  <2> QED
    BY <2>1 DEF AreMatched, InNone
<1> DEFINE Good(k) == \A p \in P : p[1] < x + k <=> p[2] < y + k
<1>5. ASSUME NEW k \in 0 .. n - 1, Good(k)
      PROVE  Equal(a, b, x + k, y + k) /\ Good(k + 1)
  <2>1. PICK p \in P : p[1] = x + k
    BY <1>4
  <2>2. PICK q \in P : q[2] = y + k
    BY <1>4
  <2>3. p[2] >= y + k /\ q[1] >= x + k
    BY <1>1, <1>5, <2>1, <2>2
  <2>4. p[2] = y + k
    BY <1>1, <1>2, <2>1, <2>2, <2>3
  <2>5. Equal(a, b, x + k, y + k)
    BY <1>3, <2>1, <2>4
  <2>6. ASSUME NEW r \in P
        PROVE  r[1] < x + (k + 1) <=> r[2] < y + (k + 1)
    <3>1. p[1] < r[1] <=> p[2] < r[2]
      BY <1>2
    <3>2. r[1] \in Nat /\ r[2] \in Nat
      BY <1>1
    <3> QED
      BY <2>1, <2>4, <3>1, <3>2
  <2> QED
    BY <2>5, <2>6
<1>6. Good(0)
  BY <1>1 DEF Divides
<1>7. \A k \in 0 .. n : Good(k)
  <2> DEFINE Bad == {k \in 0 .. n : ~ Good(k)}
  <2> SUFFICES ASSUME Bad # {}
               PROVE  FALSE
    BY DEF Bad
  <2> HIDE DEF Good
  <2>1. Bad \in SUBSET Nat
    OBVIOUS
  <2>2. PICK k \in Bad : \A m \in Bad : k <= m
    <3> HIDE DEF Bad
    <3> QED
      BY <2>1, LeastNumber
  <2>3. k \in 0 .. n /\ ~ Good(k)
    OBVIOUS
  <2>4. k - 1 \in 0 .. n - 1 /\ k - 1 \in 0 .. n /\ ~ (k <= k - 1) /\ (k - 1) + 1 = k
    <3>1. k # 0
      BY <1>6, <2>3
    <3> QED
      BY <2>3, <3>1
  <2>5. k - 1 \notin Bad
    <3> HIDE DEF Bad
    <3> QED
      BY <2>2, <2>4
  <2>6. Good(k - 1)
    BY <2>4, <2>5
  <2>7. Good((k - 1) + 1)
    BY <1>5, <2>4, <2>6
  <2> QED
    BY <2>3, <2>4, <2>7
<1>8. \A k \in 0 .. n - 1 : Equal(a, b, x + k, y + k)
  <2> TAKE k \in 0 .. n - 1
  <2>1. k \in 0 .. n
    OBVIOUS
  <2> HIDE DEF Good
  <2> QED
    BY <1>5, <1>7, <2>1
<1>9. Good(n)
  <2>1. n \in 0 .. n
    OBVIOUS
  <2> HIDE DEF Good
  <2> QED
    BY <1>7, <2>1
<1> QED
  BY <1>8, <1>9 DEF SameRun, Divides

(* Runs that are in no range end together: each position has its pair.     *)
LEMMA RunsReach ==
  ASSUME NEW a, NEW b, NEW la \in Nat, NEW lb \in Nat, NEW A, NEW B, NEW P,
         AreMatched(a, b, 0, la, 0, lb, A, B, P),
         NEW x \in Nat, NEW y \in Nat, Divides(P, x, y),
         x <= la, y <= lb, NEW c \in Nat,
         InNone(A, x, c), InNone(B, y, c)
  PROVE  x + c <= la <=> y + c <= lb
<1>1. \A p \in P : p[1] \in Nat /\ p[2] \in Nat /\ p[1] < la /\ p[2] < lb
  BY DEF AreMatched
<1>2. ASSUME NEW n \in Nat, n <= c, x + n <= la, y + n <= lb
      PROVE  Divides(P, x + n, y + n)
  <2>1. InNone(A, x, n) /\ InNone(B, y, n)
    <3>1. \A k \in 0 .. n - 1 : k \in 0 .. c - 1
      BY <1>2
    <3> QED
      BY <3>1 DEF InNone
  <2> QED
    BY <1>2, <2>1, RunsMatch
<1>3. ASSUME x + c <= la, ~ (y + c <= lb)
      PROVE  FALSE
  <2>1. PICK n : n = lb - y
    OBVIOUS
  <2>2. n \in Nat /\ n <= c /\ n < c /\ x + n < la /\ x + n <= la /\ y + n = lb /\ y + n <= lb
    BY <1>3, <2>1
  <2>3. x + n \in 0 .. la - 1 /\ n \in 0 .. c - 1
    BY <2>2
  <2>4. PICK p \in P : p[1] = x + n
    BY <2>3 DEF AreMatched, InNone
  <2>5. p[1] < x + n <=> p[2] < y + n
    BY <1>2, <2>2, <2>4 DEF Divides
  <2> QED
    BY <1>1, <2>2, <2>4, <2>5
<1>4. ASSUME y + c <= lb, ~ (x + c <= la)
      PROVE  FALSE
  <2>1. PICK n : n = la - x
    OBVIOUS
  <2>2. n \in Nat /\ n <= c /\ n < c /\ y + n < lb /\ y + n <= lb /\ x + n = la /\ x + n <= la
    BY <1>4, <2>1
  <2>3. y + n \in 0 .. lb - 1 /\ n \in 0 .. c - 1
    BY <2>2
  <2>4. PICK p \in P : p[2] = y + n
    BY <2>3 DEF AreMatched, InNone
  <2>5. p[1] < x + n <=> p[2] < y + n
    BY <1>2, <2>2, <2>4 DEF Divides
  <2> QED
    BY <1>1, <2>2, <2>4, <2>5
<1> QED
  BY <1>3, <1>4

(* The ranges before one end at a position, or earlier. *)
EndBy(s, i, pos) == \A k \in DOMAIN s : k < i => End(s[k]) <= pos

(* How far the loop has come: the ranges before i and j end here or        *)
(* earlier, and the positions divide the pairs alike.                      *)
Reached(a, b, A, B, P, d) ==
  /\ d.posA <= Len(a) /\ d.posB <= Len(b)
  /\ EndBy(A, d.i, d.posA) /\ EndBy(B, d.j, d.posB)
  /\ Divides(P, d.posA, d.posB)

(* Nothing is in a range between the ranges that were passed and the next. *)
LEMMA NotCoveredBetween ==
  ASSUME NEW up \in Nat, NEW s, AreApart(s, 0, up), NEW i \in 1 .. Len(s) + 1, NEW pos \in Nat,
         EndBy(s, i, pos),
         NEW x \in Nat, pos <= x, i <= Len(s) => x < s[i].location
  PROVE  ~Covered(s, x)
<1> SUFFICES ASSUME NEW k \in DOMAIN s, s[k].location <= x, x < End(s[k])
             PROVE  FALSE
  BY DEF Covered
<1>1. /\ Len(s) \in Nat /\ DOMAIN s = 1 .. Len(s)
      /\ \A j \in DOMAIN s : /\ s[j].location \in Nat /\ s[j].length \in Nat
                             /\ End(s[j]) = s[j].location + s[j].length
  <2>1. /\ s \in Seq(Spans) /\ \A j \in DOMAIN s : s[j] \in Spans
    BY DEF AreApart
  <2> QED
    BY <2>1 DEF Spans, End
<1>2. ~ (k < i)
  BY <1>1 DEF EndBy
<1>3. i \in DOMAIN s /\ i <= Len(s)
  BY <1>1, <1>2
<1>4. s[i].location <= s[k].location
  <2>1. CASE k = i
    BY <1>1, <2>1
  <2>2. CASE i < k
    <3>1. End(s[i]) <= s[k].location
      BY <1>3, <2>2 DEF AreApart
    <3> QED
      BY <1>1, <1>3, <3>1
  <2> QED
    BY <1>1, <1>2, <2>1, <2>2
<1> QED
  BY <1>1, <1>3, <1>4

(* What a turn copies is the same in both arrays.                          *)
LEMMA TurnCopies ==
  ASSUME NEW a, NEW b, Len(a) \in Nat, Len(b) \in Nat, NEW A, NEW B, NEW P, AreDiffRanges(a, b, A, B, P),
         NEW done, EditsInOrder(b, A, B, done), Reached(a, b, A, B, P, done),
         NEW next, NEW e, NEW c \in Nat,
         IsTurn(b, A, B, done, next, done.posA + c, done.posB + c, e)
  PROVE  /\ done.posA + c <= Len(a) /\ done.posB + c <= Len(b)
         /\ SameRun(a, b, done.posA, done.posB, c)
         /\ Divides(P, done.posA + c, done.posB + c)
<1>1. PICK i : i = done.i
  OBVIOUS
<1>2. PICK j : j = done.j
  OBVIOUS
<1>3. PICK pA : pA = done.posA
  OBVIOUS
<1>4. PICK pB : pB = done.posB
  OBVIOUS
<1>5. /\ AreApart(A, 0, Len(a)) /\ AreApart(B, 0, Len(b))
      /\ AreMatched(a, b, 0, Len(a), 0, Len(b), A, B, P)
  BY DEF AreDiffRanges
<1>6. /\ i \in 1 .. Len(A) + 1 /\ j \in 1 .. Len(B) + 1 /\ pA \in Nat /\ pB \in Nat
  BY <1>1, <1>2, <1>3, <1>4 DEF EditsInOrder
<1>7. /\ pA <= Len(a) /\ pB <= Len(b)
      /\ EndBy(A, i, pA) /\ EndBy(B, j, pB)
      /\ Divides(P, pA, pB)
  BY <1>1, <1>2, <1>3, <1>4 DEF Reached
<1>8. /\ i <= Len(A) => pA + c <= A[i].location
      /\ j <= Len(B) => pB + c <= B[j].location
      /\ \/ i <= Len(A) /\ A[i].location = pA + c
         \/ j <= Len(B) /\ B[j].location = pB + c
  BY <1>1, <1>2, <1>3, <1>4 DEF IsTurn
<1>9. /\ i <= Len(A) => A[i].location \in Nat /\ A[i].location <= Len(a)
      /\ j <= Len(B) => B[j].location \in Nat /\ B[j].location <= Len(b)
  <2>1. ASSUME NEW up \in Nat, NEW s, AreApart(s, 0, up), NEW n \in 1 .. Len(s) + 1, n <= Len(s)
        PROVE  s[n].location \in Nat /\ s[n].location <= up
    <3>1. s \in Seq(Spans)
      BY <2>1 DEF AreApart
    <3>2. n \in DOMAIN s /\ s[n] \in Spans
      BY <2>1, <3>1
    <3>3. End(s[n]) <= up
      BY <2>1, <3>2 DEF AreApart
    <3> QED
      BY <3>2, <3>3 DEF Spans, End
  <2>2. i <= Len(A) => A[i].location \in Nat /\ A[i].location <= Len(a)
    BY <1>5, <1>6, <2>1
  <2>3. j <= Len(B) => B[j].location \in Nat /\ B[j].location <= Len(b)
    BY <1>5, <1>6, <2>1
  <2> QED
    BY <2>2, <2>3
<1>10. InNone(A, pA, c) /\ InNone(B, pB, c)
  <2> SUFFICES ASSUME NEW k \in 0 .. c - 1
               PROVE  ~Covered(A, pA + k) /\ ~Covered(B, pB + k)
    BY DEF InNone
  <2>1. /\ pA + k \in Nat /\ pA <= pA + k /\ (i <= Len(A) => pA + k < A[i].location)
        /\ pB + k \in Nat /\ pB <= pB + k /\ (j <= Len(B) => pB + k < B[j].location)
    BY <1>6, <1>8, <1>9
  <2>2. ~Covered(A, pA + k)
    BY <1>5, <1>6, <1>7, <2>1, NotCoveredBetween, ZenonT(30)
  <2>3. ~Covered(B, pB + k)
    BY <1>5, <1>6, <1>7, <2>1, NotCoveredBetween, ZenonT(30)
  <2> QED
    BY <2>2, <2>3
<1>11. pA + c <= Len(a) <=> pB + c <= Len(b)
  BY <1>5, <1>6, <1>7, <1>10, RunsReach
<1>12. pA + c <= Len(a) /\ pB + c <= Len(b)
  BY <1>8, <1>9, <1>11
<1>13. SameRun(a, b, pA, pB, c) /\ Divides(P, pA + c, pB + c)
  BY <1>5, <1>6, <1>7, <1>10, <1>12, RunsMatch
<1> QED
  BY <1>3, <1>4, <1>12, <1>13

(* The ranges that are next begin later. *)
RangesAhead(A, B, d) ==
  /\ d.i <= Len(A) => d.posA < A[d.i].location
  /\ d.j <= Len(B) => d.posB < B[d.j].location

(* An edit of l elements from x on, for the m elements from y on *)
Replaces(b, e, x, y, l, m) ==
  /\ e.range.location = x /\ e.range.length = l
  /\ e.objects \in Seq(Value) /\ Len(e.objects) = m
  /\ \A k \in 1 .. m : e.objects[k] = b[y + k]

(* At a position x, to go past the range that begins there *)
Passes(s, i, x, i2, pos2) ==
  IF i <= Len(s) /\ s[i].location = x THEN i2 = i + 1 /\ pos2 = End(s[i])
  ELSE i2 = i /\ pos2 = x

(* Going past a range or not                                               *)
LEMMA PassRange ==
  ASSUME NEW up \in Nat, NEW s, AreApart(s, 0, up), AreSeparate(s), NEW i \in 1 .. Len(s) + 1,
         NEW pos \in Nat, EndBy(s, i, pos),
         NEW x \in Nat, pos <= x, x <= up, i <= Len(s) => x <= s[i].location,
         NEW i2, NEW pos2, Passes(s, i, x, i2, pos2)
  PROVE  /\ pos2 \in Nat /\ x <= pos2 /\ pos2 <= up
         /\ EndBy(s, i2, pos2)
         /\ i2 <= Len(s) => pos2 < s[i2].location
         /\ \A z \in x .. pos2 - 1 : Covered(s, z)
         /\ i <= Len(s) /\ s[i].location = x => s[i] \in Spans /\ pos2 = x + s[i].length
<1>1. /\ Len(s) \in Nat /\ DOMAIN s = 1 .. Len(s)
      /\ \A j \in DOMAIN s : /\ s[j] \in Spans /\ s[j].location \in Nat /\ s[j].length \in Nat
                             /\ s[j].length > 0
                             /\ End(s[j]) = s[j].location + s[j].length /\ End(s[j]) <= up
                             /\ End(s[j]) \in Nat
  <2>1. /\ s \in Seq(Spans) /\ \A j \in DOMAIN s : s[j] \in Spans
    BY DEF AreApart
  <2>2. \A j \in DOMAIN s : s[j].length > 0 /\ End(s[j]) <= up
    BY DEF AreApart
  <2>3. \A r \in Spans : /\ r.location \in Nat /\ r.length \in Nat /\ End(r) \in Nat
                         /\ End(r) = r.location + r.length
    BY DEF Spans, End
  <2> QED
    BY <2>1, <2>2, <2>3
<1>2. i \in Int /\ 1 <= i /\ i <= Len(s) + 1
  BY <1>1
<1>3. CASE i <= Len(s) /\ s[i].location = x
  <2>1. i \in DOMAIN s /\ s[i].location = x /\ i2 = i + 1 /\ pos2 = End(s[i])
    BY <1>1, <1>2, <1>3 DEF Passes
  <2>2. pos2 \in Nat /\ x <= pos2 /\ pos2 <= up /\ s[i] \in Spans /\ pos2 = x + s[i].length
    BY <1>1, <2>1
  <2>3. ASSUME NEW k \in DOMAIN s, k < i2
        PROVE  End(s[k]) <= pos2
    <3>1. k = i \/ k < i
      BY <1>1, <1>2, <2>1, <2>3
    <3>2. k < i => End(s[k]) <= pos
      BY DEF EndBy
    <3> QED
      BY <1>1, <2>1, <2>2, <3>1, <3>2
  <2>4. i2 <= Len(s) => pos2 < s[i2].location
    <3> HAVE i2 <= Len(s)
    <3>1. i2 \in DOMAIN s /\ i < i2
      BY <1>1, <1>2, <2>1
    <3> QED
      BY <2>1, <3>1 DEF AreSeparate
  <2>5. \A z \in x .. pos2 - 1 : Covered(s, z)
    <3> TAKE z \in x .. pos2 - 1
    <3>1. s[i].location <= z /\ z < End(s[i])
      BY <2>1, <2>2
    <3> QED
      BY <2>1, <3>1 DEF Covered
  <2> QED
    BY <2>2, <2>3, <2>4, <2>5 DEF EndBy
<1>4. CASE ~ (i <= Len(s) /\ s[i].location = x)
  <2>1. i2 = i /\ pos2 = x
    BY <1>4 DEF Passes
  <2>2. ASSUME NEW k \in DOMAIN s, k < i2
        PROVE  End(s[k]) <= pos2
    <3>1. End(s[k]) <= pos /\ End(s[k]) \in Nat
      BY <1>1, <2>1, <2>2 DEF EndBy
    <3> QED
      BY <2>1, <3>1
  <2>3. i2 <= Len(s) => pos2 < s[i2].location
    <3> HAVE i2 <= Len(s)
    <3>1. i \in DOMAIN s /\ s[i].location # x /\ x <= s[i].location
      BY <1>1, <1>2, <1>4, <2>1
    <3> QED
      BY <1>1, <2>1, <3>1
  <2>4. x .. pos2 - 1 = {}
    BY <2>1
  <2> QED
    BY <1>4, <2>1, <2>2, <2>3, <2>4 DEF EndBy
<1> QED
  BY <1>3, <1>4

(* A turn that made the edit e at x and y has gone past what e replaces.   *)
HasAdvanced(a, b, A, B, P, next, e, x, y) ==
  /\ Reached(a, b, A, B, P, next) /\ RangesAhead(A, B, next)
  /\ \E l \in Nat, m \in Nat : /\ Replaces(b, e, x, y, l, m)
                               /\ next.posA = x + l /\ next.posB = y + m

(* After a turn, the positions still divide the pairs alike, the ranges    *)
(* left begin later, and the edit replaces what the turn went past.        *)
LEMMA TurnAdvances ==
  ASSUME NEW a, NEW b \in Seq(Value), Len(a) \in Nat, NEW A, NEW B, NEW P, AreDiffRanges(a, b, A, B, P),
         NEW done, EditsInOrder(b, A, B, done), Reached(a, b, A, B, P, done),
         NEW next, NEW e, NEW c \in Nat, NEW x, x = done.posA + c, NEW y, y = done.posB + c,
         IsTurn(b, A, B, done, next, x, y, e)
  PROVE  HasAdvanced(a, b, A, B, P, next, e, x, y)
<1>1. PICK i : i = done.i
  OBVIOUS
<1>2. PICK j : j = done.j
  OBVIOUS
<1>3. PICK pA : pA = done.posA
  OBVIOUS
<1>4. PICK pB : pB = done.posB
  OBVIOUS
<1>5. /\ AreApart(A, 0, Len(a)) /\ AreApart(B, 0, Len(b)) /\ AreSeparate(A) /\ AreSeparate(B)
      /\ AreMatched(a, b, 0, Len(a), 0, Len(b), A, B, P)
      /\ Len(b) \in Nat
  BY DEF AreDiffRanges
<1>6. /\ i \in 1 .. Len(A) + 1 /\ j \in 1 .. Len(B) + 1 /\ pA \in Nat /\ pB \in Nat
      /\ x \in Nat /\ y \in Nat /\ pA <= x /\ pB <= y
  <2>1. i \in 1 .. Len(A) + 1 /\ j \in 1 .. Len(B) + 1 /\ pA \in Nat /\ pB \in Nat
    BY <1>1, <1>2, <1>3, <1>4 DEF EditsInOrder
  <2>2. x = pA + c /\ y = pB + c
    BY <1>3, <1>4
  <2>3. x \in Nat /\ y \in Nat /\ pA <= x /\ pB <= y
    BY ONLY <2>1, <2>2, c \in Nat
  <2> QED
    BY <2>1, <2>3
<1>7. EndBy(A, i, pA) /\ EndBy(B, j, pB)
  BY <1>1, <1>2, <1>3, <1>4 DEF Reached
<1>8. x <= Len(a) /\ y <= Len(b) /\ Divides(P, x, y)
  BY <1>5, TurnCopies
<1>9. /\ i <= Len(A) => x <= A[i].location
      /\ j <= Len(B) => y <= B[j].location
      /\ Passes(A, i, x, next.i, next.posA) /\ Passes(B, j, y, next.j, next.posB)
  BY <1>1, <1>2 DEF IsTurn, Passes
<1>10. /\ e.range = IF i <= Len(A) /\ A[i].location = x THEN A[i] ELSE Span(x, 0)
       /\ e.objects = IF j <= Len(B) /\ B[j].location = y THEN Sub(b, B[j]) ELSE << >>
  BY <1>1, <1>2 DEF IsTurn
<1>12. /\ next.posA \in Nat /\ x <= next.posA /\ next.posA <= Len(a)
       /\ EndBy(A, next.i, next.posA)
       /\ next.i <= Len(A) => next.posA < A[next.i].location
       /\ \A z \in x .. next.posA - 1 : Covered(A, z)
       /\ i <= Len(A) /\ A[i].location = x => A[i] \in Spans /\ next.posA = x + A[i].length
  <2>1. /\ Len(a) \in Nat /\ AreApart(A, 0, Len(a)) /\ AreSeparate(A)
        /\ i \in 1 .. Len(A) + 1 /\ pA \in Nat /\ EndBy(A, i, pA)
        /\ x \in Nat /\ pA <= x /\ x <= Len(a) /\ (i <= Len(A) => x <= A[i].location)
        /\ Passes(A, i, x, next.i, next.posA)
    BY ONLY <1>5, <1>6, <1>7, <1>8, <1>9, Len(a) \in Nat
  <2> QED
    BY ONLY <2>1, PassRange
<1>13. /\ next.posB \in Nat /\ y <= next.posB /\ next.posB <= Len(b)
       /\ EndBy(B, next.j, next.posB)
       /\ next.j <= Len(B) => next.posB < B[next.j].location
       /\ \A z \in y .. next.posB - 1 : Covered(B, z)
       /\ j <= Len(B) /\ B[j].location = y => B[j] \in Spans /\ next.posB = y + B[j].length
  <2>1. /\ Len(b) \in Nat /\ AreApart(B, 0, Len(b)) /\ AreSeparate(B)
        /\ j \in 1 .. Len(B) + 1 /\ pB \in Nat /\ EndBy(B, j, pB)
        /\ y \in Nat /\ pB <= y /\ y <= Len(b) /\ (j <= Len(B) => y <= B[j].location)
        /\ Passes(B, j, y, next.j, next.posB)
    BY ONLY <1>5, <1>6, <1>7, <1>8, <1>9, Len(a) \in Nat
  <2> QED
    BY ONLY <2>1, PassRange
<1>14. Divides(P, next.posA, next.posB)
  <2> SUFFICES ASSUME NEW p \in P
               PROVE  p[1] < next.posA <=> p[2] < next.posB
    BY DEF Divides
  <2>1. p[1] \in Nat /\ p[2] \in Nat /\ ~Covered(A, p[1]) /\ ~Covered(B, p[2])
    BY <1>5 DEF AreMatched
  <2>2. p[1] < x <=> p[2] < y
    BY <1>8 DEF Divides
  <2>3. p[1] \notin x .. next.posA - 1 /\ p[2] \notin y .. next.posB - 1
    BY <1>12, <1>13, <2>1
  <2>4. PICK u : u = next.posA
    OBVIOUS
  <2>5. PICK v : v = next.posB
    OBVIOUS
  <2>6. u \in Nat /\ x <= u /\ v \in Nat /\ y <= v
    BY <1>12, <1>13, <2>4, <2>5
  <2>7. x \in Nat /\ y \in Nat /\ p[1] \notin x .. u - 1 /\ p[2] \notin y .. v - 1
    BY <1>6, <2>3, <2>4, <2>5
  <2>8. p[1] < u <=> p[2] < v
    BY ONLY <2>1, <2>2, <2>6, <2>7
  <2> QED
    BY <2>4, <2>5, <2>8
<1>15. Reached(a, b, A, B, P, next) /\ RangesAhead(A, B, next)
  BY <1>12, <1>13, <1>14 DEF Reached, RangesAhead
<1>16. PICK l : l = next.posA - x
  OBVIOUS
<1>17. PICK m : m = next.posB - y
  OBVIOUS
<1>18. l \in Nat /\ m \in Nat /\ next.posA = x + l /\ next.posB = y + m
  <2>1. next.posA \in Nat /\ x <= next.posA /\ next.posB \in Nat /\ y <= next.posB
    BY <1>12, <1>13
  <2>2. PICK u : u = next.posA
    OBVIOUS
  <2>3. PICK v : v = next.posB
    OBVIOUS
  <2>4. /\ u \in Nat /\ x <= u /\ v \in Nat /\ y <= v /\ l = u - x /\ m = v - y
        /\ x \in Nat /\ y \in Nat
    BY <1>6, <1>16, <1>17, <2>1, <2>2, <2>3
  <2>5. l \in Nat /\ m \in Nat /\ u = x + l /\ v = y + m
    BY ONLY <2>4
  <2> QED
    BY <2>2, <2>3, <2>5
<1>19. e.range.location = x /\ e.range.length = l
  <2>1. CASE i <= Len(A) /\ A[i].location = x
    <3>1. e.range = A[i] /\ A[i].location = x /\ next.posA = x + A[i].length /\ A[i].length \in Nat
      BY <1>10, <1>12, <2>1 DEF Spans
    <3> QED
      BY <1>6, <1>16, <3>1
  <2>2. CASE ~ (i <= Len(A) /\ A[i].location = x)
    <3>1. e.range = Span(x, 0) /\ next.posA = x
      BY <1>9, <1>10, <2>2 DEF Passes
    <3> QED
      BY <1>6, <1>16, <3>1 DEF Span
  <2> QED
    BY <2>1, <2>2
<1>20. /\ e.objects \in Seq(Value) /\ Len(e.objects) = m
       /\ \A k \in 1 .. m : e.objects[k] = b[y + k]
  <2>1. CASE j <= Len(B) /\ B[j].location = y
    <3>1. PICK r : r = B[j]
      OBVIOUS
    <3>2. r.location = y /\ r.length \in Nat /\ next.posB = y + r.length /\ e.objects = Sub(b, r)
      BY <1>10, <1>13, <2>1, <3>1 DEF Spans
    <3>3. r.length = m /\ End(r) = y + m
      BY <1>6, <1>17, <3>2 DEF End
    <3>4. PICK t : t = SubSeq(b, y + 1, y + m)
      OBVIOUS
    <3>5. e.objects = t
      BY <3>2, <3>3, <3>4 DEF Sub
    <3>6. y + 1 \in Nat /\ y + m \in Nat /\ y + m <= Len(b) /\ 1 <= y + 1 /\ y + 1 <= (y + m) + 1
      <4>1. PICK v : v = next.posB
        OBVIOUS
      <4>2. v \in Nat /\ v <= Len(b) /\ v = y + m
        BY <1>13, <1>18, <4>1
      <4> QED
        BY ONLY <1>5, <1>6, <1>18, <4>2
    <3>7. t \in Seq(Value) /\ Len(t) = m
      <4>1. t \in Seq(Value) /\ Len(t) = IF y + 1 <= y + m THEN (y + m) - (y + 1) + 1 ELSE 0
        BY <3>4, <3>6
      <4> QED
        BY <1>6, <1>18, <4>1
    <3>8. \A k \in 1 .. m : t[k] = b[y + k]
      <4> SUFFICES ASSUME NEW k \in 1 .. m
                   PROVE  t[k] = b[y + k]
        OBVIOUS
      <4>1. PICK lo : lo = y + 1
        OBVIOUS
      <4>2. PICK hi : hi = y + m
        OBVIOUS
      <4>3. /\ lo \in Nat /\ hi \in Nat /\ hi <= Len(b) /\ 1 <= lo /\ lo <= hi + 1
            /\ k \in 1 .. hi - lo + 1 /\ lo + k - 1 = y + k
        BY ONLY <1>6, <1>18, <3>6, <4>1, <4>2, k \in 1 .. m
      <4>4. t = SubSeq(b, lo, hi)
        BY <3>4, <4>1, <4>2
      <4>5. \A n \in 1 .. hi - lo + 1 : t[n] = b[lo + n - 1]
        BY <4>3, <4>4
      <4> QED
        BY <4>3, <4>5
    <3> QED
      BY <3>5, <3>7, <3>8
  <2>2. CASE ~ (j <= Len(B) /\ B[j].location = y)
    <3>1. e.objects = << >> /\ m = 0
      BY <1>6, <1>9, <1>10, <1>17, <2>2 DEF Passes
    <3>2. << >> \in Seq(Value) /\ Len(<< >>) = 0 /\ 1 .. 0 = {}
      OBVIOUS
    <3> QED
      BY <3>1, <3>2
  <2> QED
    BY <2>1, <2>2
<1>21. Replaces(b, e, x, y, l, m)
  BY <1>19, <1>20 DEF Replaces
<1> QED
  BY <1>15, <1>18, <1>21 DEF HasAdvanced

-----------------------------------------------------------------------------
(* Applying the edits that were made *)

(* The elements of b up to position y, and then those of a from x on       *)
IsJoined(c, a, b, x, y) ==
  /\ c \in Seq(Value) /\ Len(c) = y + (Len(a) - x)
  /\ \A k \in 1 .. y : c[k] = b[k]
  /\ \A k \in 1 .. Len(a) - x : c[y + k] = a[x + k]

(* What is the same in both arrays is joined by itself.                    *)
LEMMA JoinedRun ==
  ASSUME NEW a, NEW b, Len(a) \in Nat, NEW c, NEW x \in Nat, NEW y \in Nat, IsJoined(c, a, b, x, y),
         NEW n \in Nat, x + n <= Len(a), SameRun(a, b, x, y, n)
  PROVE  IsJoined(c, a, b, x + n, y + n)
<1>1. c \in Seq(Value) /\ Len(c) = y + (Len(a) - x)
  BY DEF IsJoined
<1>2. Len(c) = (y + n) + (Len(a) - (x + n))
  BY <1>1
<1>3. ASSUME NEW k \in 1 .. y + n
      PROVE  c[k] = b[k]
  <2>1. CASE k <= y
    BY <2>1 DEF IsJoined
  <2>2. CASE ~ (k <= y)
    <3>1. PICK i : i = k - y - 1
      OBVIOUS
    <3>2. i \in 0 .. n - 1 /\ k = y + i + 1 /\ i + 1 \in 1 .. Len(a) - x /\ k = y + (i + 1)
      BY <2>2, <3>1
    <3>3. a[x + i + 1] = b[y + i + 1]
      BY <3>2 DEF SameRun, Equal
    <3>4. c[y + (i + 1)] = a[x + (i + 1)]
      BY <3>2 DEF IsJoined
    <3>5. x + (i + 1) = x + i + 1
      BY <3>2
    <3> QED
      BY <3>2, <3>3, <3>4, <3>5
  <2> QED
    BY <2>1, <2>2
<1>4. ASSUME NEW k \in 1 .. Len(a) - (x + n)
      PROVE  c[(y + n) + k] = a[(x + n) + k]
  <2>1. n + k \in 1 .. Len(a) - x /\ y + (n + k) = (y + n) + k /\ x + (n + k) = (x + n) + k
    OBVIOUS
  <2>2. c[y + (n + k)] = a[x + (n + k)]
    BY <2>1 DEF IsJoined
  <2> QED
    BY <2>1, <2>2
<1> QED
  BY <1>1, <1>2, <1>3, <1>4 DEF IsJoined

(* Two arrays together, and a part of one                                  *)
LEMMA Together ==
  ASSUME NEW s \in Seq(Value), NEW t \in Seq(Value), NEW u, u = s \o t
  PROVE  /\ u \in Seq(Value) /\ Len(u) = Len(s) + Len(t)
         /\ \A k \in 1 .. Len(s) + Len(t) : u[k] = IF k <= Len(s) THEN s[k] ELSE t[k - Len(s)]
OBVIOUS

(* The elements of a part of an array                                     *)
LEMMA PartOf ==
  ASSUME NEW c \in Seq(Value), NEW x \in Nat, NEW n \in Nat, x + n <= Len(c),
         NEW t, t = SubSeq(c, x + 1, x + n)
  PROVE  t \in Seq(Value) /\ Len(t) = n /\ \A k \in 1 .. n : t[k] = c[x + k]
<1>1. PICK lo : lo = x + 1
  OBVIOUS
<1>2. PICK hi : hi = x + n
  OBVIOUS
<1>3. lo \in Nat /\ hi \in Nat /\ 1 <= lo /\ lo <= hi + 1 /\ hi <= Len(c) /\ n = hi - lo + 1
  BY ONLY x \in Nat, n \in Nat, x + n <= Len(c), <1>1, <1>2
<1>4. t = SubSeq(c, lo, hi)
  BY <1>1, <1>2
<1>5. t \in Seq(Value) /\ Len(t) = IF lo <= hi THEN hi - lo + 1 ELSE 0
  BY ONLY c \in Seq(Value), <1>3, <1>4
<1>6. \A k \in 1 .. hi - lo + 1 : t[k] = c[lo + k - 1]
  BY ONLY c \in Seq(Value), <1>3, <1>4
<1>7. \A k \in 1 .. n : lo + k - 1 = x + k
  BY ONLY x \in Nat, n \in Nat, <1>1
<1> QED
  BY ONLY <1>3, <1>5, <1>6, <1>7, n \in Nat

(* Elements that are replaced: with the new ones, the arrays join later.   *)
LEMMA JoinedSplice ==
  ASSUME NEW a, NEW b, Len(a) \in Nat, NEW c, NEW x \in Nat, NEW y \in Nat, IsJoined(c, a, b, x, y),
         NEW l \in Nat, NEW m \in Nat, x + l <= Len(a),
         NEW o \in Seq(Value), Len(o) = m, \A k \in 1 .. m : o[k] = b[y + k],
         NEW new, new = SubSeq(c, 1, y) \o o \o SubSeq(c, y + l + 1, Len(c))
  PROVE  IsJoined(new, a, b, x + l, y + m)
<1>1. /\ c \in Seq(Value) /\ Len(c) = y + (Len(a) - x) /\ Len(c) \in Nat
      /\ y + l <= Len(c)
  BY DEF IsJoined
<1>2. PICK s : s = SubSeq(c, 1, y)
  OBVIOUS
<1>3. PICK t : t = SubSeq(c, y + l + 1, Len(c))
  OBVIOUS
<1>4. /\ s \in Seq(Value) /\ Len(s) = y /\ \A k \in 1 .. y : s[k] = c[k]
  <2>1. y <= Len(c)
    BY <1>1
  <2> QED
    BY <1>1, <1>2, <2>1
<1>5. PICK n : n = Len(c) - (y + l)
  OBVIOUS
<1>6. /\ t \in Seq(Value) /\ Len(t) = n /\ n \in Nat
      /\ \A k \in 1 .. n : t[k] = c[(y + l) + k]
  <2>1. n \in Nat /\ y + l \in Nat /\ (y + l) + n = Len(c) /\ (y + l) + n <= Len(c)
    BY ONLY <1>1, <1>5, y \in Nat, l \in Nat
  <2>2. t = SubSeq(c, (y + l) + 1, (y + l) + n)
    BY <1>3, <2>1
  <2> QED
    BY ONLY <1>1, <2>1, <2>2, PartOf
<1>7. PICK u : u = s \o o
  OBVIOUS
<1>8. /\ u \in Seq(Value) /\ Len(u) = y + m
      /\ \A k \in 1 .. y + m : u[k] = IF k <= y THEN s[k] ELSE o[k - y]
  <2>1. u \in Seq(Value) /\ Len(u) = Len(s) + Len(o)
    BY ONLY <1>4, <1>7, o \in Seq(Value), Together
  <2>2. \A k \in 1 .. Len(s) + Len(o) : u[k] = IF k <= Len(s) THEN s[k] ELSE o[k - Len(s)]
    BY ONLY <1>4, <1>7, o \in Seq(Value), Together
  <2> QED
    BY <1>4, <2>1, <2>2
<1>9. /\ new \in Seq(Value) /\ Len(new) = (y + m) + n
      /\ \A k \in 1 .. (y + m) + n : new[k] = IF k <= y + m THEN u[k] ELSE t[k - (y + m)]
  <2>0. new = u \o t
    BY <1>2, <1>3, <1>7
  <2>1. new \in Seq(Value) /\ Len(new) = Len(u) + Len(t)
    BY ONLY <1>6, <1>8, <2>0, Together
  <2>2. \A k \in 1 .. Len(u) + Len(t) : new[k] = IF k <= Len(u) THEN u[k] ELSE t[k - Len(u)]
    BY ONLY <1>6, <1>8, <2>0, Together
  <2> QED
    BY <1>6, <1>8, <2>1, <2>2
<1>10. n = Len(a) - (x + l)
  BY <1>1, <1>5
<1>11. ASSUME NEW k \in 1 .. y + m
       PROVE  new[k] = b[k]
  <2>1. new[k] = u[k]
    <3>1. k \in 1 .. (y + m) + n /\ k <= y + m
      BY ONLY <1>6, k \in 1 .. y + m, y \in Nat, m \in Nat
    <3> QED
      BY <1>9, <3>1
  <2>2. CASE k <= y
    <3>1. u[k] = s[k] /\ s[k] = c[k]
      BY <1>4, <1>8, <2>2
    <3>2. c[k] = b[k]
      BY <2>2 DEF IsJoined
    <3> QED
      BY <2>1, <3>1, <3>2
  <2>3. CASE ~ (k <= y)
    <3>1. u[k] = o[k - y] /\ k - y \in 1 .. m /\ y + (k - y) = k
      BY <1>8, <2>3
    <3> QED
      BY <2>1, <3>1
  <2> QED
    BY <2>2, <2>3
<1>12. ASSUME NEW k \in 1 .. n
       PROVE  new[(y + m) + k] = a[(x + l) + k]
  <2>1. PICK i : i = (y + m) + k
    OBVIOUS
  <2>2. i \in 1 .. (y + m) + n /\ ~ (i <= y + m) /\ i - (y + m) = k
    BY <1>6, <2>1
  <2>3. new[i] = t[k] /\ t[k] = c[(y + l) + k]
    BY <1>6, <1>9, <2>2
  <2>4. l + k \in 1 .. Len(a) - x /\ y + (l + k) = (y + l) + k /\ x + (l + k) = (x + l) + k
    BY <1>6, <1>10
  <2>5. c[y + (l + k)] = a[x + (l + k)]
    BY <2>4 DEF IsJoined
  <2> QED
    BY <2>1, <2>3, <2>4, <2>5
<1> QED
  BY <1>9, <1>10, <1>11, <1>12 DEF IsJoined

(* The state of the application when the arrays are joined at x and y, and *)
(* the last edit was at a location                                         *)
IsApplied(r, a, b, x, y, last) ==
  /\ r.raised = FALSE /\ IsJoined(r.array, a, b, x, y) /\ r.nextShift = y - x
  /\ r.lastStart = last

(* An edit is applied where its elements have come to be.                  *)
LEMMA EditApplied ==
  ASSUME NEW a, NEW b, Len(a) \in Nat, NEW r, NEW x \in Nat, NEW y \in Nat, NEW last,
         IsApplied(r, a, b, x, y, last), last # x, NEW l \in Nat, NEW m \in Nat, x + l <= Len(a),
         NEW e, Replaces(b, e, x, y, l, m), NEW r2, r2 = ApplyEdit(r, e),
         NEW x2, x2 = x + l, NEW y2, y2 = y + m
  PROVE  IsApplied(r2, a, b, x2, y2, x)
<1>1. /\ r.raised = FALSE /\ IsJoined(r.array, a, b, x, y) /\ r.nextShift = y - x /\ r.lastStart # x
  BY DEF IsApplied
<1>2. PICK c : c = r.array
  OBVIOUS
<1>3. /\ e.range.location = x /\ e.range.length = l /\ e.objects \in Seq(Value) /\ Len(e.objects) = m
      /\ \A k \in 1 .. m : e.objects[k] = b[y + k]
  BY DEF Replaces
<1>4. ShiftAt(r, e) = y - x
  BY <1>1, <1>3 DEF ShiftAt
<1>5. PICK at : at = Span(e.range.location + ShiftAt(r, e), e.range.length)
  OBVIOUS
<1>6. at.location = y /\ at.length = l /\ End(at) = y + l
  <2>1. x + (y - x) = y
    OBVIOUS
  <2>2. at = Span(y, l)
    BY <1>3, <1>4, <1>5, <2>1
  <2> QED
    BY <2>2 DEF Span, End
<1>7. Len(c) = y + (Len(a) - x) /\ Len(c) \in Nat /\ y + l <= Len(c)
  BY <1>1, <1>2 DEF IsJoined
<1>8. PICK o : o = e.objects
  OBVIOUS
<1>9. PICK new : new = Sub(c, Span(0, at.location)) \o o \o Sub(c, Span(End(at), Len(c) - End(at)))
  OBVIOUS
<1>10. new = SubSeq(c, 1, y) \o o \o SubSeq(c, y + l + 1, Len(c))
  <2>1. /\ Span(0, y).location = 0 /\ End(Span(0, y)) = y
        /\ Span(y + l, Len(c) - (y + l)).location = y + l
        /\ End(Span(y + l, Len(c) - (y + l))) = Len(c)
    BY <1>7 DEF Span, End
  <2> QED
    BY <1>6, <1>9, <2>1, 0 + 1 = 1 DEF Sub
<1>11. IsJoined(new, a, b, x + l, y + m)
  BY <1>1, <1>2, <1>3, <1>8, <1>10, JoinedSplice
<1>12. r2 = [array     |-> new,
              shift     |-> ShiftAt(r, e),
              nextShift |-> r.nextShift + Len(e.objects) - at.length,
              lastStart |-> e.range.location,
              raised    |-> FALSE]
  <2>1. ~ (r.raised \/ at.location < 0 \/ End(at) > Len(r.array))
    BY <1>1, <1>2, <1>6, <1>7
  <2> QED
    BY <1>2, <1>5, <1>8, <1>9, <2>1 DEF ApplyEdit
<1>13. r.nextShift + Len(e.objects) - at.length = (y + m) - (x + l)
  BY <1>1, <1>3, <1>6
<1> QED
  BY <1>3, <1>11, <1>12, <1>13 DEF IsApplied

(* g[n] is what the first n edits, one after the other, make of a *)
AreApplied(a, s, g) ==
  g[0] = NoneApplied(a) /\ \A n \in 1 .. Len(s) : g[n] = ApplyEdit(g[n - 1], s[n])

MakeOf(a, s, r) == \E g : AreApplied(a, s, g) /\ g[Len(s)] = r

Ascending(s) == \A p, q \in DOMAIN s : p < q => s[p].range.location < s[q].range.location

LastStart(s) == IF s = << >> THEN -1 ELSE s[Len(s)].range.location

(* The edits made so far, each at a location of its own, join both arrays  *)
(* where the loop has come to.                                             *)
EditsMade(a, b, A, B, P, d) ==
  /\ Reached(a, b, A, B, P, d)
  /\ Ascending(d.edits) /\ (d.edits = << >> \/ RangesAhead(A, B, d))
  /\ \A p \in DOMAIN d.edits : d.edits[p].range.location <= d.posA
  /\ \E r : MakeOf(a, d.edits, r) /\ IsApplied(r, a, b, d.posA, d.posB, LastStart(d.edits))

(* One more edit is applied.                                               *)
LEMMA OneMoreApplied ==
  ASSUME NEW a, NEW s \in Seq(ArrayEdits), NEW r, MakeOf(a, s, r), NEW e \in ArrayEdits,
         NEW t, t = Append(s, e), NEW r2, r2 = ApplyEdit(r, e)
  PROVE  MakeOf(a, t, r2)
<1>0. PICK g : AreApplied(a, s, g) /\ g[Len(s)] = r
  BY DEF MakeOf
<1>1. PICK n : n = Len(s)
  OBVIOUS
<1>2. n \in Nat /\ Len(t) = n + 1 /\ t[n + 1] = e /\ \A k \in 1 .. n : t[k] = s[k]
  BY <1>1
<1> DEFINE h == [k \in 0 .. n + 1 |-> IF k = n + 1 THEN ApplyEdit(g[n], e) ELSE g[k]]
<1>3. /\ h[n + 1] = ApplyEdit(g[n], e)
      /\ \A k \in 0 .. n : h[k] = g[k]
  <2>1. n + 1 \in 0 .. n + 1
    BY <1>2
  <2>2. \A k \in 0 .. n : k \in 0 .. n + 1 /\ k # n + 1
    BY <1>2
  <2> QED
    BY <2>1, <2>2
<1> HIDE DEF h
<1>4. h[0] = NoneApplied(a)
  <2>1. 0 \in 0 .. n
    BY <1>2
  <2> QED
    BY <1>0, <1>3, <2>1 DEF AreApplied
<1>5. ASSUME NEW k \in 1 .. n + 1
      PROVE  h[k] = ApplyEdit(h[k - 1], t[k])
  <2>1. CASE k = n + 1
    <3>1. k - 1 = n /\ n \in 0 .. n
      BY <1>2, <2>1
    <3> QED
      BY <1>2, <1>3, <2>1, <3>1
  <2>2. CASE k # n + 1
    <3>1. k \in 1 .. n /\ k \in 0 .. n /\ k - 1 \in 0 .. n
      BY <1>2, <2>2
    <3>2. g[k] = ApplyEdit(g[k - 1], s[k])
      BY <1>0, <1>1, <3>1 DEF AreApplied
    <3> QED
      BY <1>2, <1>3, <3>1, <3>2
  <2> QED
    BY <2>1, <2>2
<1>6. AreApplied(a, t, h)
  BY <1>2, <1>4, <1>5 DEF AreApplied
<1> QED
  BY <1>0, <1>1, <1>2, <1>3, <1>6 DEF MakeOf

(* An edit further on keeps the locations ascending.                       *)
LEMMA AscendingAppend ==
  ASSUME NEW s \in Seq(ArrayEdits), Ascending(s), NEW e \in ArrayEdits,
         NEW t, t = Append(s, e),
         \A p \in DOMAIN s : s[p].range.location < e.range.location
  PROVE  /\ Ascending(t) /\ t # << >> /\ LastStart(t) = e.range.location
         /\ \A p \in DOMAIN t : t[p].range.location <= e.range.location
<1>1. PICK n : n = Len(s)
  OBVIOUS
<1>2. /\ n \in Nat /\ Len(t) = n + 1 /\ DOMAIN t = 1 .. n + 1 /\ DOMAIN s = 1 .. n /\ t[n + 1] = e
      /\ \A k \in 1 .. n : t[k] = s[k]
  BY <1>1
<1>3. \A k \in DOMAIN t : k = n + 1 \/ k \in DOMAIN s
  BY <1>2
<1>4. ASSUME NEW p \in DOMAIN t, NEW q \in DOMAIN t, p < q
      PROVE  t[p].range.location < t[q].range.location
  <2>1. p \in DOMAIN s
    BY <1>2, <1>4
  <2>2. CASE q = n + 1
    BY <1>2, <2>1, <2>2
  <2>3. CASE q \in DOMAIN s
    BY <1>2, <1>4, <2>1, <2>3 DEF Ascending
  <2> QED
    BY <1>3, <2>2, <2>3
<1>5. e.range.location \in Nat /\ \A p \in DOMAIN s : s[p].range.location \in Nat
  <2>1. \A f \in ArrayEdits : f.range.location \in Nat
    BY DEF ArrayEdits, Spans
  <2>2. \A p \in DOMAIN s : s[p] \in ArrayEdits
    OBVIOUS
  <2> QED
    BY <2>1, <2>2
<1>6. \A p \in DOMAIN t : t[p].range.location <= e.range.location
  <2> TAKE p \in DOMAIN t
  <2>1. CASE p = n + 1
    BY <1>2, <1>5, <2>1
  <2>2. CASE p \in DOMAIN s
    <3>1. s[p].range.location < e.range.location /\ t[p] = s[p]
      BY <1>2, <2>2
    <3> QED
      BY <1>5, <2>2, <3>1
  <2> QED
    BY <1>3, <2>1, <2>2
<1>7. t # << >> /\ LastStart(t) = e.range.location
  <2>1. Len(t) # 0
    BY <1>2
  <2>2. t # << >>
    BY <2>1
  <2> QED
    BY <1>2, <2>2 DEF LastStart
<1> QED
  BY <1>4, <1>6, <1>7 DEF Ascending

(* A turn                                                                  *)
LEMMA TurnMade ==
  ASSUME NEW a, NEW b \in Seq(Value), Len(a) \in Nat, NEW A, NEW B, NEW P, AreDiffRanges(a, b, A, B, P),
         NEW done, EditsInOrder(b, A, B, done), EditsMade(a, b, A, B, P, done),
         NEW next, NEW e, NEW c \in Nat, IsTurn(b, A, B, done, next, done.posA + c, done.posB + c, e)
  PROVE  EditsMade(a, b, A, B, P, next)
<1>1. PICK pA : pA = done.posA
  OBVIOUS
<1>2. PICK pB : pB = done.posB
  OBVIOUS
<1>3. PICK x : x = pA + c
  OBVIOUS
<1>4. PICK y : y = pB + c
  OBVIOUS
<1>5. PICK s : s = done.edits
  OBVIOUS
<1>6. /\ pA \in Nat /\ pB \in Nat /\ s \in Seq(ArrayEdits)
      /\ done.i \in 1 .. Len(A) + 1 /\ done.j \in 1 .. Len(B) + 1
  BY <1>1, <1>2, <1>5 DEF EditsInOrder
<1>7. x \in Nat /\ y \in Nat /\ pA <= x
  BY ONLY <1>3, <1>4, <1>6, c \in Nat
<1>8. /\ Reached(a, b, A, B, P, done)
      /\ Ascending(s) /\ (s = << >> \/ RangesAhead(A, B, done))
      /\ \A p \in DOMAIN s : s[p].range.location <= pA
  BY <1>1, <1>5 DEF EditsMade
<1>9. PICK r : MakeOf(a, s, r) /\ IsApplied(r, a, b, pA, pB, LastStart(s))
  BY <1>1, <1>2, <1>5 DEF EditsMade
<1>10. IsTurn(b, A, B, done, next, x, y, e)
  BY <1>1, <1>2, <1>3, <1>4
<1>11. /\ Reached(a, b, A, B, P, next) /\ RangesAhead(A, B, next)
       /\ \E l \in Nat, m \in Nat : /\ Replaces(b, e, x, y, l, m)
                                    /\ next.posA = x + l /\ next.posB = y + m
  <2>1. x = done.posA + c /\ y = done.posB + c
    BY <1>1, <1>2, <1>3, <1>4
  <2>2. HasAdvanced(a, b, A, B, P, next, e, x, y)
    BY <1>8, <1>10, <2>1, TurnAdvances
  <2> QED
    BY <2>2 DEF HasAdvanced
<1>12. PICK l \in Nat, m \in Nat : /\ Replaces(b, e, x, y, l, m)
                                   /\ next.posA = x + l /\ next.posB = y + m
  BY <1>11
<1>13. /\ x <= Len(a) /\ y <= Len(b) /\ SameRun(a, b, pA, pB, c) /\ x + l <= Len(a) /\ Len(b) \in Nat
  <2>1. /\ done.posA + c <= Len(a) /\ done.posB + c <= Len(b)
        /\ SameRun(a, b, done.posA, done.posB, c)
    <3>1. Len(b) \in Nat
      OBVIOUS
    <3> QED
      BY <1>8, <3>1, TurnCopies, ZenonT(30)
  <2>2. next.posA <= Len(a)
    BY <1>11 DEF Reached
  <2> QED
    BY <1>1, <1>2, <1>3, <1>4, <1>12, <2>1, <2>2
<1>14. e.range.location = x /\ e \in ArrayEdits /\ next.edits = Append(s, e)
  BY <1>5, <1>10, <1>12 DEF IsTurn, Replaces
<1>15. \A p \in DOMAIN s : s[p].range.location < x
  <2> TAKE p \in DOMAIN s
  <2>1. RangesAhead(A, B, done)
    <3>1. s # << >>
      OBVIOUS
    <3> QED
      BY <1>8, <3>1
  <2>2. pA < x
    <3>1. \/ done.i <= Len(A) /\ A[done.i].location = x
          \/ done.j <= Len(B) /\ B[done.j].location = y
      BY <1>10 DEF IsTurn
    <3>2. pA < x \/ pB < y
      BY <1>1, <1>2, <2>1, <3>1 DEF RangesAhead
    <3> QED
      BY ONLY <1>3, <1>4, <1>6, <3>2, c \in Nat
  <2>3. s[p].range.location \in Nat /\ s[p].range.location <= pA
    <3>1. s[p] \in ArrayEdits
      BY <1>6
    <3> QED
      BY <1>8, <3>1 DEF ArrayEdits, Spans
  <2> QED
    BY ONLY <1>6, <1>7, <2>2, <2>3
<1>16. PICK t : t = next.edits
  OBVIOUS
<1>17. /\ Ascending(t) /\ t # << >> /\ LastStart(t) = x
       /\ \A p \in DOMAIN t : t[p].range.location <= x
  BY <1>6, <1>8, <1>14, <1>15, <1>16, AscendingAppend
<1>18. \A p \in DOMAIN t : t[p].range.location <= next.posA
  <2> TAKE p \in DOMAIN t
  <2>1. t[p].range.location <= x
    BY <1>17
  <2>2. t[p].range.location \in Nat
    <3>1. t[p] \in ArrayEdits
      <4>1. t \in Seq(ArrayEdits)
        BY <1>6, <1>14, <1>16
      <4> QED
        BY <4>1
    <3> QED
      BY <3>1 DEF ArrayEdits, Spans
  <2>3. PICK v : v = t[p].range.location
    OBVIOUS
  <2>4. v <= x + l
    BY ONLY <1>7, <2>1, <2>2, <2>3, l \in Nat
  <2> QED
    BY <1>12, <2>3, <2>4
<1>21. IsApplied(r, a, b, x, y, LastStart(s))
  <2>1. /\ r.raised = FALSE /\ IsJoined(r.array, a, b, pA, pB) /\ r.nextShift = pB - pA
        /\ r.lastStart = LastStart(s)
    BY <1>9 DEF IsApplied
  <2>2. IsJoined(r.array, a, b, x, y)
    <3>1. pA + c <= Len(a)
      BY <1>3, <1>13
    <3>2. IsJoined(r.array, a, b, pA + c, pB + c)
      BY ONLY <1>6, <1>13, <2>1, <3>1, c \in Nat, Len(a) \in Nat, JoinedRun
    <3> QED
      BY <1>3, <1>4, <3>2
  <2>3. y - x = pB - pA
    BY ONLY <1>3, <1>4, <1>6, c \in Nat
  <2> QED
    BY <2>1, <2>2, <2>3 DEF IsApplied
<1>22. LastStart(s) # x
  <2>2. CASE s = << >>
    BY <1>7, <2>2 DEF LastStart
  <2>3. CASE s # << >>
    <3>1. Len(s) \in DOMAIN s
      BY <1>6, <2>3
    <3>2. s[Len(s)].range.location < x /\ LastStart(s) = s[Len(s)].range.location
      BY <1>15, <2>3, <3>1 DEF LastStart
    <3>3. s[Len(s)].range.location \in Nat
      <4>1. s[Len(s)] \in ArrayEdits
        BY <1>6, <3>1
      <4> QED
        BY <4>1 DEF ArrayEdits, Spans
    <3>4. PICK v : v = LastStart(s)
      OBVIOUS
    <3>5. v # x
      BY <1>7, <3>2, <3>3, <3>4
    <3> QED
      BY <3>4, <3>5
  <2> QED
    BY <2>2, <2>3
<1>23. PICK r2 : r2 = ApplyEdit(r, e)
  OBVIOUS
<1>24. MakeOf(a, t, r2)
  BY <1>6, <1>9, <1>14, <1>16, <1>23, OneMoreApplied
<1>25. IsApplied(r2, a, b, next.posA, next.posB, x)
  <2>1. /\ x \in Nat /\ y \in Nat /\ IsApplied(r, a, b, x, y, LastStart(s)) /\ LastStart(s) # x
        /\ x + l <= Len(a) /\ Replaces(b, e, x, y, l, m)
    BY <1>7, <1>12, <1>13, <1>21, <1>22
  <2> QED
    BY <1>12, <1>23, <2>1, EditApplied
<1>26. MakeOf(a, t, r2) /\ IsApplied(r2, a, b, next.posA, next.posB, LastStart(t))
  BY <1>17, <1>24, <1>25
<1> QED
  BY <1>11, <1>16, <1>17, <1>18, <1>26 DEF EditsMade

(* The loop is at the end of both, or has gone past n ranges. *)
HasPassed(A, B, n, d) == (d.i > Len(A) /\ d.j > Len(B)) \/ d.i + d.j >= n + 2

(* All turns: the edits that were made join the arrays.                    *)
LEMMA TurnsMade ==
  ASSUME NEW a \in Seq(Value), NEW b \in Seq(Value), NEW A, NEW B, NEW P, AreDiffRanges(a, b, A, B, P),
         NEW N, NEW f, TurnsInOrder(b, A, B, N, f)
  PROVE  \A n \in 0 .. N : EditsMade(a, b, A, B, P, f[n]) /\ HasPassed(A, B, n, f[n])
<1>1. /\ N \in Nat /\ f[0] = DiffStart /\ \A n \in 1 .. N : f[n] = NextTurn(b, A, B, f[n - 1])
      /\ \A n \in 0 .. N : EditsInOrder(b, A, B, f[n])
  BY DEF TurnsInOrder
<1>2. Len(a) \in Nat /\ Len(b) \in Nat /\ AreApart(A, 0, Len(a)) /\ AreApart(B, 0, Len(b))
  BY DEF AreDiffRanges
<1> DEFINE Good(n) == EditsMade(a, b, A, B, P, f[n]) /\ HasPassed(A, B, n, f[n])
<1>3. Good(0)
  <2>1. PICK d : d = DiffStart
    OBVIOUS
  <2>2. d.i = 1 /\ d.j = 1 /\ d.posA = 0 /\ d.posB = 0 /\ d.edits = << >>
    BY <2>1 DEF DiffStart
  <2>3. Reached(a, b, A, B, P, d)
    <3>1. EndBy(A, 1, 0) /\ EndBy(B, 1, 0)
      <4>1. A \in Seq(Spans) /\ B \in Seq(Spans)
        BY <1>2 DEF AreApart
      <4>2. \A k \in DOMAIN A : ~ (k < 1)
        BY <4>1
      <4>3. \A k \in DOMAIN B : ~ (k < 1)
        BY <4>1
      <4> QED
        BY <4>2, <4>3 DEF EndBy
    <3>2. Divides(P, 0, 0)
      <4>1. \A p \in P : p[1] \in Nat /\ p[2] \in Nat
        BY DEF AreDiffRanges, AreMatched
      <4> QED
        BY <4>1 DEF Divides
    <3>3. 0 <= Len(a) /\ 0 <= Len(b)
      BY <1>2
    <3> QED
      BY <2>2, <3>1, <3>2, <3>3 DEF Reached
  <2>4. PICK r : r = NoneApplied(a)
    OBVIOUS
  <2>5. r.raised = FALSE /\ r.array = a /\ r.nextShift = 0 /\ r.lastStart = -1
    BY <2>4 DEF NoneApplied
  <2>6. IsJoined(a, a, b, 0, 0)
    <3>1. \A k \in Nat : 0 + k = k
      OBVIOUS
    <3>2. 1 .. 0 = {} /\ Len(a) = 0 + (Len(a) - 0) /\ 1 .. Len(a) - 0 \subseteq Nat
      BY <1>2
    <3> QED
      BY <3>1, <3>2 DEF IsJoined
  <2>7. IsApplied(r, a, b, 0, 0, LastStart(<< >>))
    <3>1. 0 - 0 = 0
      OBVIOUS
    <3> QED
      BY <2>5, <2>6, <3>1 DEF IsApplied, LastStart
  <2>8. MakeOf(a, << >>, r)
    <3> DEFINE g == [k \in {0} |-> r]
    <3>1. g[0] = r
      OBVIOUS
    <3> HIDE DEF g
    <3>2. Len(<< >>) = 0 /\ 1 .. 0 = {}
      OBVIOUS
    <3>3. AreApplied(a, << >>, g) /\ g[Len(<< >>)] = r
      BY <2>4, <3>1, <3>2 DEF AreApplied
    <3> QED
      BY <3>3 DEF MakeOf
  <2>9. Ascending(<< >>) /\ DOMAIN << >> = {}
    BY DEF Ascending
  <2>10. EditsMade(a, b, A, B, P, d)
    BY <2>2, <2>3, <2>7, <2>8, <2>9 DEF EditsMade
  <2>11. HasPassed(A, B, 0, d)
    BY <2>2 DEF HasPassed
  <2> QED
    BY <1>1, <2>1, <2>10, <2>11
<1>4. ASSUME NEW n \in 1 .. N, Good(n - 1)
      PROVE  Good(n)
  <2>1. PICK d : d = f[n - 1]
    OBVIOUS
  <2>2. PICK next : next = f[n]
    OBVIOUS
  <2>3. /\ n \in Int /\ n - 1 \in 0 .. N /\ EditsInOrder(b, A, B, d) /\ next = NextTurn(b, A, B, d)
        /\ EditsMade(a, b, A, B, P, d) /\ HasPassed(A, B, n - 1, d)
    <3>1. n \in Int /\ n - 1 \in 0 .. N
      BY <1>1
    <3> QED
      BY <1>1, <1>4, <2>1, <2>2, <3>1
  <2>4. CASE d.i > Len(A) /\ d.j > Len(B)
    BY <2>2, <2>3, <2>4 DEF NextTurn, HasPassed
  <2>5. CASE ~ (d.i > Len(A) /\ d.j > Len(B))
    <3>1. next = EmitEdit(b, A, B, d)
      BY <2>3, <2>5 DEF NextTurn
    <3>2. \E c \in Nat : \E e : IsTurn(b, A, B, d, next, d.posA + c, d.posB + c, e)
      BY <1>2, <2>3, <2>5, <3>1, EmitEditInOrder, ZenonT(30)
    <3>6. PICK c \in Nat : \E e : IsTurn(b, A, B, d, next, d.posA + c, d.posB + c, e)
      BY <3>2
    <3>3. PICK e : IsTurn(b, A, B, d, next, d.posA + c, d.posB + c, e)
      BY <3>6
    <3>4. EditsMade(a, b, A, B, P, next)
      BY <1>2, <2>3, <3>3, TurnMade, ZenonT(30)
    <3>5. HasPassed(A, B, n, next)
      <4>1. PICK i : i = d.i
        OBVIOUS
      <4>2. PICK j : j = d.j
        OBVIOUS
      <4>3. i \in Int /\ j \in Int /\ i + j >= (n - 1) + 2
        <5>1. i \in 1 .. Len(A) + 1 /\ j \in 1 .. Len(B) + 1
          BY <2>3, <4>1, <4>2 DEF EditsInOrder
        <5>2. i + j >= (n - 1) + 2
          BY <2>3, <2>5, <4>1, <4>2 DEF HasPassed
        <5> QED
          BY <5>1, <5>2
      <4>4. \/ next.i = i + 1 /\ next.j \in {j, j + 1}
            \/ next.j = j + 1 /\ next.i \in {i, i + 1}
        BY <3>3, <4>1, <4>2 DEF IsTurn
      <4>5. next.i + next.j >= n + 2
        BY <2>3, <4>3, <4>4
      <4> QED
        BY <4>5 DEF HasPassed
    <3> QED
      BY <2>2, <3>4, <3>5
  <2> QED
    BY <2>4, <2>5
<1>5. \A n \in 0 .. N : Good(n)
  <2> DEFINE Bad == {n \in 0 .. N : ~ Good(n)}
  <2> SUFFICES ASSUME Bad # {}
               PROVE  FALSE
    BY DEF Bad
  <2> HIDE DEF Good
  <2>1. Bad \in SUBSET Nat
    OBVIOUS
  <2>2. PICK n \in Bad : \A k \in Bad : n <= k
    <3> HIDE DEF Bad
    <3> QED
      BY <2>1, LeastNumber
  <2>3. n \in 0 .. N /\ ~ Good(n)
    OBVIOUS
  <2>4. n \in 1 .. N /\ n - 1 \in 0 .. N /\ ~ (n <= n - 1)
    <3>1. n # 0
      BY <1>3, <2>3
    <3> QED
      BY <1>1, <2>3, <3>1
  <2>5. n - 1 \notin Bad
    <3> HIDE DEF Bad
    <3> QED
      BY <2>2, <2>4
  <2>6. Good(n - 1)
    BY <2>4, <2>5
  <2> QED
    BY <1>4, <2>3, <2>4, <2>6
<1> QED
  BY <1>5

(* The edits s, one after the other, make b of a.                          *)
RoundTrips(a, b, s) ==
  /\ s \in Seq(ArrayEdits) /\ Ascending(s)
  /\ \E r : MakeOf(a, s, r) /\ r.raised = FALSE /\ r.array = b

(* The difference of two arrays makes the second of the first.             *)
LEMMA DiffRoundTrips ==
  ASSUME NEW a \in Seq(Value), NEW b \in Seq(Value)
  PROVE  RoundTrips(a, b, DiffArrays(a, b))
<1>1. PICK A : A = Modified(LCS(a, b).A)
  OBVIOUS
<1>2. PICK B : B = Modified(LCS(a, b).B)
  OBVIOUS
<1>3. Len(a) \in Nat /\ Len(b) \in Nat
  OBVIOUS
<1>4. PICK P : AreDiffRanges(a, b, A, B, P)
  BY <1>1, <1>2, <1>3, DiffRanges
<1>5. /\ AreApart(A, 0, Len(a)) /\ AreApart(B, 0, Len(b))
      /\ AreMatched(a, b, 0, Len(a), 0, Len(b), A, B, P)
  BY <1>4 DEF AreDiffRanges
<1>6. PICK N : N = Len(A) + Len(B)
  OBVIOUS
<1>7. PICK f : f = AllTurns(b, A, B)
  OBVIOUS
<1>8. TurnsInOrder(b, A, B, N, f)
  BY <1>3, <1>5, <1>6, <1>7, CreateDiffsInOrder
<1>9. PICK d : d = f[N]
  OBVIOUS
<1>10. /\ DiffArrays(a, b) = d.edits /\ EditsInOrder(b, A, B, d)
       /\ EditsMade(a, b, A, B, P, d) /\ HasPassed(A, B, N, d)
  <2>1. N \in 0 .. N /\ CreateDiffs(b, A, B) = f[N].edits /\ EditsInOrder(b, A, B, f[N])
    BY <1>8 DEF TurnsInOrder
  <2>2. DiffArrays(a, b) = CreateDiffs(b, A, B)
    BY <1>1, <1>2 DEF DiffArrays
  <2>3. EditsMade(a, b, A, B, P, f[N]) /\ HasPassed(A, B, N, f[N])
    BY <1>4, <1>8, <2>1, TurnsMade
  <2> QED
    BY <1>9, <2>1, <2>2, <2>3
<1>11. PICK i : i = d.i
  OBVIOUS
<1>12. PICK j : j = d.j
  OBVIOUS
<1>13. PICK x : x = d.posA
  OBVIOUS
<1>14. PICK y : y = d.posB
  OBVIOUS
<1>15. /\ i \in 1 .. Len(A) + 1 /\ j \in 1 .. Len(B) + 1 /\ x \in Nat /\ y \in Nat
       /\ d.edits \in Seq(ArrayEdits)
  BY <1>10, <1>11, <1>12, <1>13, <1>14 DEF EditsInOrder
<1>16. i > Len(A) /\ j > Len(B)
  <2>1. Len(A) \in Nat /\ Len(B) \in Nat
    <3>1. A \in Seq(Spans) /\ B \in Seq(Spans)
      BY <1>5 DEF AreApart
    <3> QED
      BY <3>1
  <2>2. (i > Len(A) /\ j > Len(B)) \/ i + j >= N + 2
    BY <1>10, <1>11, <1>12 DEF HasPassed
  <2> QED
    BY ONLY <1>6, <1>15, <2>1, <2>2
<1>17. /\ x <= Len(a) /\ y <= Len(b) /\ EndBy(A, i, x) /\ EndBy(B, j, y) /\ Divides(P, x, y)
  BY <1>10, <1>11, <1>12, <1>13, <1>14 DEF EditsMade, Reached
<1>18. ASSUME NEW n \in Nat
       PROVE  InNone(A, x, n) /\ InNone(B, y, n)
  <2> SUFFICES ASSUME NEW k \in 0 .. n - 1
               PROVE  ~Covered(A, x + k) /\ ~Covered(B, y + k)
    BY DEF InNone
  <2>1. x + k \in Nat /\ x <= x + k /\ y + k \in Nat /\ y <= y + k
    BY ONLY <1>15, n \in Nat, k \in 0 .. n - 1
  <2>2. Len(A) \in Nat /\ Len(B) \in Nat
    <3>1. A \in Seq(Spans) /\ B \in Seq(Spans)
      BY <1>5 DEF AreApart
    <3> QED
      BY <3>1
  <2>3. ~ (i <= Len(A)) /\ ~ (j <= Len(B))
    BY ONLY <1>15, <1>16, <2>2
  <2>4. PICK u : u = x + k
    OBVIOUS
  <2>5. PICK v : v = y + k
    OBVIOUS
  <2>6. ~Covered(A, u)
    BY <1>3, <1>5, <1>15, <1>17, <2>1, <2>3, <2>4, NotCoveredBetween
  <2>7. ~Covered(B, v)
    BY <1>3, <1>5, <1>15, <1>17, <2>1, <2>3, <2>5, NotCoveredBetween
  <2> QED
    BY <2>4, <2>5, <2>6, <2>7
<1>19. Len(a) - x = Len(b) - y
  <2>1. \A c \in Nat : x + c <= Len(a) <=> y + c <= Len(b)
    <3> TAKE c \in Nat
    <3>1. InNone(A, x, c) /\ InNone(B, y, c)
      BY <1>18
    <3> QED
      BY <1>3, <1>5, <1>15, <1>17, <3>1, RunsReach
  <2>2. Len(a) - x \in Nat /\ Len(b) - y \in Nat
    BY ONLY <1>3, <1>15, <1>17
  <2>3. /\ x + (Len(a) - x) <= Len(a) /\ y + (Len(b) - y) <= Len(b)
    BY ONLY <1>3, <1>15, <1>17
  <2>4. y + (Len(a) - x) <= Len(b) /\ x + (Len(b) - y) <= Len(a)
    BY <2>1, <2>2, <2>3
  <2> QED
    BY ONLY <1>3, <1>15, <2>4
<1>20. PICK n : n = Len(a) - x
  OBVIOUS
<1>21. n \in Nat /\ x + n = Len(a) /\ y + n = Len(b) /\ x + n <= Len(a) /\ y + n <= Len(b)
  BY ONLY <1>3, <1>15, <1>17, <1>19, <1>20
<1>22. SameRun(a, b, x, y, n)
  <2>1. InNone(A, x, n) /\ InNone(B, y, n)
    BY <1>18, <1>21
  <2> QED
    BY <1>3, <1>5, <1>15, <1>17, <1>21, <2>1, RunsMatch
<1>23. Ascending(d.edits)
  BY <1>10 DEF EditsMade
<1>24. PICK r : MakeOf(a, d.edits, r) /\ IsApplied(r, a, b, x, y, LastStart(d.edits))
  BY <1>10, <1>13, <1>14 DEF EditsMade
<1>25. PICK c : c = r.array
  OBVIOUS
<1>26. IsJoined(c, a, b, x + n, y + n)
  <2>1. IsJoined(c, a, b, x, y)
    BY <1>24, <1>25 DEF IsApplied
  <2> QED
    BY <1>3, <1>15, <1>21, <1>22, <2>1, JoinedRun
<1>27. c = b
  <2>1. /\ c \in Seq(Value) /\ Len(c) = (y + n) + (Len(a) - (x + n))
        /\ \A k \in 1 .. y + n : c[k] = b[k]
    BY <1>26 DEF IsJoined
  <2>2. Len(c) = Len(b) /\ \A k \in 1 .. Len(b) : c[k] = b[k]
    BY <1>3, <1>21, <2>1
  <2> QED
    BY <2>1, <2>2
<1>28. r.raised = FALSE
  BY <1>24 DEF IsApplied
<1> QED
  BY <1>10, <1>15, <1>23, <1>24, <1>25, <1>27, <1>28 DEF RoundTrips

-----------------------------------------------------------------------------
(* Sorting and applying the edits of one attribute *)

(* An edit of an array, as one side makes it of an attribute *)
EditBy(t, source, e) ==
  [attribute |-> t, source |-> source, kind |-> e.kind, range |-> e.range, objects |-> e.objects]

EditsBy(t, source, s) == [n \in 1 .. Len(s) |-> EditBy(t, source, s[n])]

AreEditsBy(t, source, s, w) ==
  /\ Len(w) = Len(s) /\ Len(s) \in Nat /\ DOMAIN w = 1 .. Len(s) /\ DOMAIN s = 1 .. Len(s)
  /\ w \in Seq({w[n] : n \in DOMAIN w})
  /\ \A n \in 1 .. Len(s) : w[n] = EditBy(t, source, s[n])
  /\ \A n \in 1 .. Len(s) : w[n].range.location \in Nat
  /\ Ascending(w)
  /\ {w[n] : n \in DOMAIN w} = {EditBy(t, source, e) : e \in ToSet(s)}

(* They are the same edits.                                                *)
LEMMA EditsByFacts ==
  ASSUME NEW s \in Seq(ArrayEdits), Ascending(s), NEW t, NEW source, NEW w, w = EditsBy(t, source, s)
  PROVE  AreEditsBy(t, source, s, w)
<1>1. Len(s) \in Nat /\ DOMAIN s = 1 .. Len(s)
  OBVIOUS
<1>2. PICK n : n = Len(s)
  OBVIOUS
<1>3. w = [k \in 1 .. n |-> EditBy(t, source, s[k])]
  BY <1>2 DEF EditsBy
<1>4. DOMAIN w = 1 .. n /\ \A k \in 1 .. n : w[k] = EditBy(t, source, s[k])
  BY <1>3
<1>5. w \in Seq({w[k] : k \in DOMAIN w}) /\ Len(w) = n
  <2>1. PICK S : S = {w[k] : k \in DOMAIN w}
    OBVIOUS
  <2>2. w \in [1 .. n -> S]
    BY <1>3, <1>4, <2>1
  <2>3. w \in Seq(S) /\ Len(w) = n
    BY <1>1, <1>2, <2>2
  <2> QED
    BY <2>1, <2>3
<1>6. \A k \in 1 .. n : w[k].range = s[k].range
  BY <1>4 DEF EditBy
<1>7. \A k \in 1 .. n : w[k].range.location \in Nat
  <2> TAKE k \in 1 .. n
  <2>1. s[k] \in ArrayEdits
    BY <1>1, <1>2
  <2> QED
    BY <1>6, <2>1 DEF ArrayEdits, Spans
<1>8. Ascending(w)
  BY <1>1, <1>2, <1>4, <1>6 DEF Ascending
<1>9. {w[k] : k \in DOMAIN w} = {EditBy(t, source, e) : e \in ToSet(s)}
  BY <1>1, <1>2, <1>4 DEF ToSet
<1> QED
  BY <1>1, <1>2, <1>4, <1>5, <1>7, <1>8, <1>9 DEF AreEditsBy

(* The elements of a sequence without repetition, counted                  *)
LEMMA CountElements ==
  ASSUME NEW n \in Nat, NEW w, DOMAIN w = 1 .. n, \A p, q \in 1 .. n : w[p] = w[q] => p = q,
         NEW E, E = {w[p] : p \in 1 .. n}, w \in [1 .. n -> E]
  PROVE  IsFiniteSet(E) /\ Cardinality(E) = n
<1>1. w \in Injection(1 .. n, E)
  BY DEF Injection, IsInjective
<1>2. w \in Surjection(1 .. n, E)
  BY DEF Surjection
<1>3. ExistsBijection(1 .. n, E)
  BY <1>1, <1>2 DEF ExistsBijection, Bijection
<1>4. Cardinality(E) = n
  BY <1>3, FS_CountingElements
<1>5. IsFiniteSet(E)
  <2>1. IsFiniteSet(1 .. n)
    BY FS_Interval
  <2> QED
    BY <1>3, <2>1, FS_Bijection
<1> QED
  BY <1>4, <1>5

(* Edits at distinct locations can be sorted in one way only.              *)
LEMMA OneOrder ==
  ASSUME NEW n \in Nat, NEW w, DOMAIN w = 1 .. n, Ascending(w),
         \A p \in 1 .. n : w[p].range.location \in Nat,
         NEW E, E = {w[p] : p \in 1 .. n}, w \in [1 .. n -> E]
  PROVE  SortedEdits(E) = {w}
<1>1. \A p, q \in 1 .. n : p < q => w[p].range.location < w[q].range.location
  BY DEF Ascending
<1>2. \A p, q \in 1 .. n : w[p] = w[q] => p = q
  <2> SUFFICES ASSUME NEW p \in 1 .. n, NEW q \in 1 .. n, w[p] = w[q], p # q
               PROVE  FALSE
    OBVIOUS
  <2>1. p < q \/ q < p
    OBVIOUS
  <2>2. PICK u : u = w[p].range.location
    OBVIOUS
  <2>3. u \in Nat /\ u = w[q].range.location
    BY <2>2
  <2>4. u < u
    BY <1>1, <2>1, <2>2, <2>3
  <2> QED
    BY ONLY <2>3, <2>4
<1>3. Cardinality(E) = n /\ IsFiniteSet(E)
  BY <1>2, CountElements
<1>4. SetToSeqs(E) = {f \in [1 .. n -> E] : \A i, j \in 1 .. n : i # j => f[i] # f[j]}
  BY <1>3 DEF SetToSeqs
<1>5. w \in SetToSeqs(E)
  BY <1>2, <1>4
<1>6. \A i, j \in DOMAIN w : i < j => ~Precedes(w[j], w[i])
  <2> SUFFICES ASSUME NEW i \in 1 .. n, NEW j \in 1 .. n, i < j
               PROVE  ~Precedes(w[j], w[i])
    OBVIOUS
  <2>1. PICK u : u = w[i].range.location
    OBVIOUS
  <2>2. PICK v : v = w[j].range.location
    OBVIOUS
  <2>3. u < v
    BY <1>1, <2>1, <2>2
  <2>4. u \in Nat /\ v \in Nat
    BY <2>1, <2>2
  <2>5. ~ (v < u) /\ v # u
    BY ONLY <2>3, <2>4
  <2> QED
    BY <2>1, <2>2, <2>5 DEF Precedes
<1>7. w \in SortedEdits(E)
  BY <1>5, <1>6 DEF SortedEdits
<1>8. ASSUME NEW s \in SortedEdits(E)
      PROVE  s = w
  <2>1. /\ s \in [1 .. n -> E] /\ \A i, j \in 1 .. n : i # j => s[i] # s[j]
        /\ \A i, j \in 1 .. n : i < j => ~Precedes(s[j], s[i])
    BY <1>4 DEF SortedEdits
  <2>2. s \in Surjection(1 .. n, E)
    <3>1. s \in Injection(1 .. n, E)
      BY <2>1 DEF Injection, IsInjective
    <3>2. Cardinality(1 .. n) = n
      <4>1. Cardinality(1 .. n) = IF 1 > n THEN 0 ELSE n - 1 + 1
        BY FS_Interval, 1 \in Int, n \in Int
      <4> QED
        BY ONLY <4>1, n \in Nat
    <3> QED
      BY <1>3, <3>1, <3>2, FS_Injection
  <2>3. \A e \in E : \E q \in 1 .. n : s[q] = e
    BY <2>2 DEF Surjection
  <2>4. \A e \in E : \E q \in 1 .. n : w[q] = e
    OBVIOUS
  <2>5. \A e \in E : e.range.location \in Nat
    BY <2>4
  <2>6. \A i, j \in 1 .. n : i < j => s[i].range.location <= s[j].range.location
    <3> TAKE i, j \in 1 .. n
    <3> HAVE i < j
    <3>1. ~ (s[j].range.location < s[i].range.location)
      BY <2>1 DEF Precedes
    <3>2. s[i].range.location \in Nat /\ s[j].range.location \in Nat
      BY <2>1, <2>5
    <3>3. PICK u : u = s[i].range.location
      OBVIOUS
    <3>4. PICK v : v = s[j].range.location
      OBVIOUS
    <3>5. ~ (v < u) /\ u \in Nat /\ v \in Nat
      BY ONLY <3>1, <3>2, <3>3, <3>4
    <3>6. u <= v
      BY ONLY <3>5
    <3> QED
      BY ONLY <3>3, <3>4, <3>6
  <2> DEFINE Bad == {p \in 1 .. n : s[p] # w[p]}
  <2>7. ASSUME Bad # {}
        PROVE  FALSE
    <3>1. Bad \in SUBSET Nat
      OBVIOUS
    <3>2. PICK p \in Bad : \A k \in Bad : p <= k
      <4> HIDE DEF Bad
      <4> QED
        BY <2>7, <3>1, LeastNumber
    <3>3. p \in 1 .. n /\ s[p] # w[p]
      OBVIOUS
    <3>4. \A k \in 1 .. n : k < p => s[k] = w[k]
      <4> TAKE k \in 1 .. n
      <4> HAVE k < p
      <4>1. k \notin Bad
        <5> HIDE DEF Bad
        <5> QED
          BY <3>2, <3>3
      <4> QED
        BY <4>1
    <3>5. PICK q \in 1 .. n : s[q] = w[p]
      BY <2>3, <3>3
    <3>6. PICK r \in 1 .. n : w[r] = s[p]
      BY <2>1, <2>4, <3>3
    <3>7. p < q
      <4>1. q # p /\ (q < p => s[q] = w[q] /\ q = p)
        BY <1>2, <3>3, <3>4, <3>5
      <4> QED
        BY <3>3, <4>1
    <3>8. p < r
      <4>1. r # p /\ (r < p => s[r] = w[r] /\ s[r] = s[p])
        BY <3>3, <3>4, <3>6
      <4>2. r < p => s[r] # s[p]
        BY <2>1, <3>3
      <4>3. r # p /\ ~ (r < p) /\ r \in 1 .. n /\ p \in 1 .. n
        BY <3>3, <4>1, <4>2
      <4> QED
        BY ONLY <4>3, n \in Nat
    <3>9. s[p].range.location <= s[q].range.location
      BY <2>6, <3>3, <3>7
    <3>10. w[p].range.location < w[r].range.location
      BY <1>1, <3>3, <3>8
    <3>11. s[p].range.location <= w[p].range.location /\ w[p].range.location < s[p].range.location
      BY <3>5, <3>6, <3>9, <3>10
    <3>12. s[p].range.location \in Nat /\ w[p].range.location \in Nat
      BY <2>1, <2>5, <3>3
    <3> QED
      BY ONLY <3>11, <3>12
  <2>8. \A p \in 1 .. n : s[p] = w[p]
    BY <2>7
  <2> QED
    BY <2>1, <2>8
<1> QED
  BY <1>7, <1>8

AreSteps(array, w, f) ==
  f = [n \in 0 .. Len(w) |-> IF n = 0 THEN NoneApplied(array) ELSE ApplyUnlessRepeated(f[n - 1], w, n)]

AllSteps(array, w) == CHOOSE f : AreSteps(array, w, f)

(* Edits at distinct locations are all made.                               *)
LEMMA AllMade ==
  ASSUME NEW a, NEW s \in Seq(ArrayEdits), Ascending(s), NEW r, MakeOf(a, s, r), NEW t, NEW source,
         NEW w, w = EditsBy(t, source, s)
  PROVE  ApplyEdits(a, w) = r
<1>1. PICK N : N = Len(s)
  OBVIOUS
<1>2. /\ Len(w) = N /\ N \in Nat /\ DOMAIN s = 1 .. N
      /\ \A n \in 1 .. N : w[n] = EditBy(t, source, s[n])
      /\ \A n \in 1 .. N : w[n].range.location \in Nat
      /\ \A p, q \in 1 .. N : p < q => w[p].range.location < w[q].range.location
  <2>1. /\ Len(w) = Len(s) /\ Len(s) \in Nat /\ DOMAIN w = 1 .. Len(s) /\ DOMAIN s = 1 .. Len(s)
        /\ \A n \in 1 .. Len(s) : w[n] = EditBy(t, source, s[n])
        /\ \A n \in 1 .. Len(s) : w[n].range.location \in Nat
        /\ Ascending(w)
    <3>1. AreEditsBy(t, source, s, w)
      BY EditsByFacts
    <3> QED
      BY <3>1 DEF AreEditsBy
  <2> QED
    BY <1>1, <2>1 DEF Ascending
<1>3. ASSUME NEW n \in 1 .. N, NEW x
      PROVE  ApplyUnlessRepeated(x, w, n) = ApplyEdit(x, w[n])
  <2> SUFFICES ASSUME n # N, IsEqualIgnoringSourceIdentifier(w[n], w[n + 1])
               PROVE  FALSE
    BY <1>2 DEF ApplyUnlessRepeated
  <2>1. n + 1 \in 1 .. N /\ n < n + 1
    BY <1>2
  <2>2. PICK e : e = w[n]
    OBVIOUS
  <2>3. PICK f : f = w[n + 1]
    OBVIOUS
  <2>4. f = EditBy(t, source, s[n + 1])
    BY <1>2, <2>1, <2>3
  <2>5. [f EXCEPT !.source = e.source].range = f.range
    BY <2>4 DEF EditBy
  <2>6. e.range = f.range
    BY <2>2, <2>3, <2>5 DEF IsEqualIgnoringSourceIdentifier
  <2>7. e.range.location < f.range.location /\ e.range.location \in Nat
    BY <1>2, <2>1, <2>2, <2>3
  <2> QED
    BY <2>6, <2>7
<1>4. PICK g : AreApplied(a, s, g) /\ g[N] = r
  BY <1>1 DEF MakeOf
<1>5. g[0] = NoneApplied(a) /\ \A n \in 1 .. N : g[n] = ApplyEdit(g[n - 1], s[n])
  BY <1>1, <1>4 DEF AreApplied
<1>6. \A x, n : n \in 1 .. N => ApplyEdit(x, w[n]) = ApplyEdit(x, s[n])
  <2> TAKE x, n
  <2> HAVE n \in 1 .. N
  <2>1. w[n].range = s[n].range /\ w[n].objects = s[n].objects
    BY <1>2 DEF EditBy
  <2> QED
    BY <2>1 DEF ApplyEdit, ShiftAt
<1> DEFINE Step(f, n) == IF n = 0 THEN NoneApplied(a) ELSE ApplyUnlessRepeated(f[n - 1], w, n)
<1>7. \A f : Step(f, 0) = NoneApplied(a)
  OBVIOUS
<1>8. \A f : \A n \in 1 .. N : Step(f, n) = ApplyEdit(f[n - 1], w[n])
  <2> TAKE f
  <2> TAKE n \in 1 .. N
  <2>1. n # 0
    BY <1>2
  <2> QED
    BY <1>3, <2>1
<1>9. \A f : AreSteps(a, w, f) <=> f = [n \in 0 .. N |-> Step(f, n)]
  BY <1>2 DEF AreSteps
<1> HIDE DEF Step
<1>10. \E f : AreSteps(a, w, f)
  <2> DEFINE h == [n \in 0 .. N |-> g[n]]
  <2>1. \A n \in 0 .. N : h[n] = g[n]
    OBVIOUS
  <2>2. h = [n \in 0 .. N |-> h[n]]
    OBVIOUS
  <2> HIDE DEF h
  <2>3. \A n \in 0 .. N : h[n] = Step(h, n)
    <3> TAKE n \in 0 .. N
    <3>1. CASE n = 0
      BY <1>5, <1>7, <2>1, <3>1
    <3>2. CASE n # 0
      <4>1. n \in 1 .. N /\ n - 1 \in 0 .. N
        BY <1>2, <3>2
      <4>2. Step(h, n) = ApplyEdit(h[n - 1], w[n])
        BY <1>8, <4>1
      <4>3. h[n] = g[n] /\ h[n - 1] = g[n - 1] /\ g[n] = ApplyEdit(g[n - 1], s[n])
        BY <1>5, <2>1, <4>1
      <4>4. ApplyEdit(g[n - 1], w[n]) = ApplyEdit(g[n - 1], s[n])
        BY <1>6, <4>1
      <4> QED
        BY <4>2, <4>3, <4>4
    <3> QED
      BY <3>1, <3>2
  <2>4. h = [n \in 0 .. N |-> Step(h, n)]
    BY <2>2, <2>3
  <2> QED
    BY <1>9, <2>4
<1>11. PICK f : f = AllSteps(a, w)
  OBVIOUS
<1>12. AreSteps(a, w, f)
  <2>1. f = CHOOSE x : AreSteps(a, w, x)
    BY <1>11 DEF AllSteps
  <2> QED
    BY <1>10, <2>1
<1>13. \A n \in 0 .. N : f[n] = Step(f, n)
  <2>1. f = [n \in 0 .. N |-> Step(f, n)]
    BY <1>9, <1>12
  <2> QED
    BY <2>1
<1>14. ApplyEdits(a, w) = f[N]
  <2>1. ApplyEdits(a, w) = AllSteps(a, w)[Len(w)]
    BY DEF ApplyEdits, AllSteps, AreSteps
  <2> QED
    BY <1>2, <1>11, <2>1
<1> DEFINE Bad == {n \in 0 .. N : f[n] # g[n]}
<1>15. ASSUME Bad # {}
       PROVE  FALSE
  <2>1. Bad \in SUBSET Nat
    OBVIOUS
  <2>2. PICK n \in Bad : \A k \in Bad : n <= k
    <3> HIDE DEF Bad
    <3> QED
      BY <1>15, <2>1, LeastNumber
  <2>3. n \in 0 .. N /\ f[n] # g[n]
    OBVIOUS
  <2>4. n # 0
    BY <1>2, <1>5, <1>7, <1>13, <2>3
  <2>5. n \in 1 .. N /\ n - 1 \in 0 .. N /\ ~ (n <= n - 1)
    BY <1>2, <2>3, <2>4
  <2>6. n - 1 \notin Bad
    <3> HIDE DEF Bad
    <3> QED
      BY <2>2, <2>5
  <2>7. f[n - 1] = g[n - 1]
    BY <2>5, <2>6
  <2>8. f[n] = ApplyEdit(f[n - 1], w[n])
    BY <1>8, <1>13, <2>3, <2>5
  <2>9. f[n] = ApplyEdit(g[n - 1], s[n])
    BY <1>6, <2>5, <2>7, <2>8
  <2> QED
    BY <1>5, <2>3, <2>5, <2>9
<1>16. f[N] = g[N]
  <2>1. N \in 0 .. N
    BY <1>2
  <2> QED
    BY <1>15, <2>1
<1> QED
  BY <1>4, <1>14, <1>16

-----------------------------------------------------------------------------
(* The values of an attribute to which the edits of one side were applied *)

EditsAt(t, source, E) == {EditBy(t, source, e) : e \in E}

(* The edits one side makes of an attribute are those of its difference.   *)
LEMMA EditsOfAttribute ==
  ASSUME NEW source \in Source, NEW t \in Attribute
  PROVE  Of(EditsOf(source), t) = EditsAt(t, source, AttributeEdits(t, base, edited[source]))
<1> DEFINE E(u) == AttributeEdits(u, base, edited[source])
<1>1. EditsOf(source) = UNION {EditsAt(u, source, E(u)) : u \in Attribute}
  BY DEF EditsOf, EditsAt, EditBy
<1> HIDE DEF E
<1>2. \A u : \A e \in EditsAt(u, source, E(u)) : e.attribute = u
  BY DEF EditsAt, EditBy
<1>3. Of(EditsOf(source), t) = EditsAt(t, source, E(t))
  BY <1>1, <1>2 DEF Of
<1> QED
  BY <1>3 DEF E

(* A value that is set                                                     *)
LEMMA SetApplied ==
  ASSUME NEW t, NEW e, e.kind = "setAttribute"
  PROVE  Applied(t, {e}) = {IF t \in Unordered THEN ToSet(e.objects) ELSE e.objects}
<1>1. OfKind({e}, "deleteAttribute") = {} /\ OfKind({e}, "setAttribute") = {e}
  BY DEF OfKind
<1>2. ~ (\E x \in {e} : x.kind \in SetEdit)
  BY DEF SetEdit
<1>3. Applied(t, {e}) = {IF t \in Unordered THEN ToSet(x.objects) ELSE x.objects : x \in {e}}
  BY <1>1, <1>2 DEF Applied
<1> QED
  BY <1>3

(* An attribute that is removed                                            *)
LEMMA RemovalApplied ==
  ASSUME NEW t, NEW e, e.kind = "deleteAttribute"
  PROVE  Applied(t, {e}) = {}
<1>1. OfKind({e}, "deleteAttribute") = {e} /\ OfKind({e}, "setAttribute") = {}
  BY DEF OfKind
<1>2. ~ (\E x \in {e} : x.kind \in SetEdit)
  BY DEF SetEdit
<1> QED
  BY <1>1, <1>2 DEF Applied

(* No edits                                                                *)
LEMMA NothingApplied ==
  ASSUME NEW t
  PROVE  Applied(t, {}) = IF t \in DOMAIN base THEN {base[t]} ELSE {}
<1>1. \A k : OfKind({}, k) = {}
  BY DEF OfKind
<1> QED
  BY <1>1 DEF Applied

(* Insertions in a set and deletions from it                               *)
LEMMA SetEditsApplied ==
  ASSUME NEW t, NEW F, F # {}, \A e \in F : e.kind \in SetEdit
  PROVE  Applied(t, F) = {(base[t] \ Objects(OfKind(F, "setDeletion")))
                            \cup Objects(OfKind(F, "setInsertion"))}
<1>1. OfKind(F, "deleteAttribute") = {} /\ OfKind(F, "setAttribute") = {}
  BY DEF OfKind, SetEdit
<1> QED
  BY <1>1 DEF Applied

(* Edits of an array                                                       *)
LEMMA SequenceEditsApplied ==
  ASSUME NEW t, NEW F, F # {}, \A e \in F : e.kind \in SequenceEdit
  PROVE  Applied(t, F) = {r.array : r \in {r \in Applications(t, F) : ~r.raised}}
<1>1. OfKind(F, "deleteAttribute") = {} /\ OfKind(F, "setAttribute") = {}
  BY DEF OfKind, SequenceEdit
<1>2. ~ (\E e \in F : e.kind \in SetEdit)
  BY DEF SequenceEdit, SetEdit
<1> QED
  BY <1>1, <1>2 DEF Applied

(* The difference of two sets, applied to the first                        *)
LEMMA SetRoundTrip ==
  ASSUME NEW t \in Unordered, NEW source, NEW b, base[t] # b,
         NEW F, F = EditsAt(t, source, ValueEdits(t, base[t], b))
  PROVE  Applied(t, F) = {b}
<1>1. PICK a : a = base[t]
  OBVIOUS
<1> DEFINE In(v)  == EditBy(t, source, Edit("setInsertion", NoRange, <<v>>))
           Out(v) == EditBy(t, source, Edit("setDeletion", NoRange, <<v>>))
<1>2. F = {In(v) : v \in b \ a} \cup {Out(v) : v \in a \ b}
  <2>1. ValueEdits(t, a, b) = {Edit("setInsertion", NoRange, <<v>>) : v \in b \ a}
                                \cup {Edit("setDeletion", NoRange, <<v>>) : v \in a \ b}
    BY ItemGraphDiffAssumption DEF ValueEdits
  <2>2. PICK E : E = ValueEdits(t, a, b)
    OBVIOUS
  <2>3. F = {EditBy(t, source, e) : e \in E}
    BY <1>1, <2>2 DEF EditsAt
  <2> QED
    BY <2>1, <2>2, <2>3
<1>3. \A v : /\ In(v).kind = "setInsertion" /\ In(v).objects = <<v>>
             /\ Out(v).kind = "setDeletion" /\ Out(v).objects = <<v>>
  BY DEF EditBy, Edit
<1> HIDE DEF In, Out
<1>4. \A v : ToSet(<<v>>) = {v}
  <2> TAKE v
  <2>1. PICK s : s = <<v>>
    OBVIOUS
  <2>2. DOMAIN s = {1} /\ s[1] = v
    BY <2>1
  <2> QED
    BY <2>1, <2>2 DEF ToSet
<1>5. OfKind(F, "setInsertion") = {In(v) : v \in b \ a} /\ OfKind(F, "setDeletion") = {Out(v) : v \in a \ b}
  BY <1>2, <1>3 DEF OfKind
<1>6. Objects(OfKind(F, "setInsertion")) = b \ a
  <2>1. \A v : ToSet(In(v).objects) = {v}
    BY <1>3, <1>4
  <2> QED
    BY <1>5, <2>1 DEF Objects
<1>7. Objects(OfKind(F, "setDeletion")) = a \ b
  <2>1. \A v : ToSet(Out(v).objects) = {v}
    BY <1>3, <1>4
  <2> QED
    BY <1>5, <2>1 DEF Objects
<1>8. F # {}
  <2>1. PICK v : v \in (a \ b) \cup (b \ a)
    BY <1>1, SetExtensionality
  <2> QED
    BY <1>2, <2>1
<1>9. \A e \in F : e.kind \in SetEdit
  BY <1>2, <1>3 DEF SetEdit
<1>10. Applied(t, F) = {(a \ (a \ b)) \cup (b \ a)}
  BY <1>1, <1>6, <1>7, <1>8, <1>9, SetEditsApplied
<1>11. (a \ (a \ b)) \cup (b \ a) = b
  OBVIOUS
<1> QED
  BY <1>10, <1>11

(* The difference of two arrays, applied to the first                      *)
LEMMA ArrayRoundTrip ==
  ASSUME NEW t \in Ordered, t \notin Unordered, NEW source, base[t] \in Seq(Value),
         NEW b \in Seq(Value), base[t] # b,
         NEW F, F = EditsAt(t, source, ValueEdits(t, base[t], b))
  PROVE  Applied(t, F) = {b}
<1>1. PICK a : a = base[t]
  OBVIOUS
<1>2. PICK s : s = DiffArrays(a, b)
  OBVIOUS
<1>3. F = EditsAt(t, source, ToSet(s))
  BY <1>1, <1>2 DEF ValueEdits
<1>4. s \in Seq(ArrayEdits) /\ Ascending(s) /\ \E r : MakeOf(a, s, r) /\ r.raised = FALSE /\ r.array = b
  <2>1. RoundTrips(a, b, s)
    BY <1>1, <1>2, DiffRoundTrips
  <2> QED
    BY <2>1 DEF RoundTrips
<1>5. PICK r : MakeOf(a, s, r) /\ r.raised = FALSE /\ r.array = b
  BY <1>4
<1>6. PICK w : w = EditsBy(t, source, s)
  OBVIOUS
<1>7. AreEditsBy(t, source, s, w)
  BY <1>4, <1>6, EditsByFacts
<1>8. PICK n : n = Len(s)
  OBVIOUS
<1>9. /\ n \in Nat /\ DOMAIN w = 1 .. n /\ w \in Seq({w[p] : p \in 1 .. n}) /\ Len(w) = n
      /\ \A p \in 1 .. n : w[p].range.location \in Nat
      /\ Ascending(w) /\ {w[p] : p \in 1 .. n} = F
  BY <1>3, <1>7, <1>8 DEF AreEditsBy, EditsAt
<1>10. w \in [1 .. n -> F]
  BY <1>9
<1>11. SortedEdits(F) = {w}
  BY <1>9, <1>10, OneOrder
<1>12. ApplyEdits(a, w) = r
  BY <1>4, <1>5, <1>6, AllMade
<1>13. Applications(t, F) = {r}
  BY <1>1, <1>11, <1>12 DEF Applications
<1>14. F # {}
  <2> SUFFICES ASSUME F = {}
               PROVE  FALSE
    OBVIOUS
  <2>0. F = {}
    OBVIOUS
  <2>1. n = 0
    <3>1. \A p \in 1 .. n : w[p] \in F
      BY <1>9
    <3>2. 1 \notin 1 .. n
      BY <2>0, <3>1
    <3>3. n \in Nat
      BY <1>9
    <3> QED
      BY ONLY <3>2, <3>3
  <2>2. PICK g : AreApplied(a, s, g) /\ g[0] = r
    BY <1>5, <1>8, <2>1 DEF MakeOf
  <2>3. r = NoneApplied(a)
    BY <2>2 DEF AreApplied
  <2>4. r.array = a
    BY <2>3 DEF NoneApplied
  <2> QED
    BY <1>1, <1>5, <2>4
<1>15. \A e \in F : e.kind \in SequenceEdit
  <2>1. ToSet(s) \subseteq ArrayEdits
    BY <1>4 DEF ToSet
  <2>2. \A e \in ToSet(s) : e.kind \in SequenceEdit
    BY <2>1 DEF ArrayEdits
  <2> QED
    BY <1>3, <2>2 DEF EditsAt, EditBy
<1>16. Applied(t, F) = {x.array : x \in {x \in {r} : ~x.raised}}
  BY <1>13, <1>14, <1>15, SequenceEditsApplied
<1> QED
  BY <1>5, <1>16

(* The difference of two graphs at an attribute, applied to the first      *)
LEMMA RoundTripAt ==
  ASSUME IsGraph(base), NEW b, IsGraph(b), NEW t \in Attribute, NEW source,
         NEW F, F = EditsAt(t, source, AttributeEdits(t, base, b))
  PROVE  Applied(t, F) = IF t \in DOMAIN b THEN {b[t]} ELSE {}
<1>1. ASSUME NEW k, NEW o
      PROVE  EditBy(t, source, Edit(k, NoRange, o)).kind = k /\ EditBy(t, source, Edit(k, NoRange, o)).objects = o
  BY DEF EditBy, Edit
<1>2. \A e : EditsAt(t, source, {e}) = {EditBy(t, source, e)}
  BY DEF EditsAt
<1>3. CASE t \in DOMAIN b \ DOMAIN base
  <2>1. PICK e : e = EditBy(t, source, Edit("setAttribute", NoRange, Elements(t, b[t])))
    OBVIOUS
  <2>2. F = {e}
    BY <1>2, <1>3, <2>1 DEF AttributeEdits
  <2>3. Applied(t, F) = {IF t \in Unordered THEN ToSet(Elements(t, b[t])) ELSE Elements(t, b[t])}
    BY <1>1, <2>1, <2>2, SetApplied
  <2>4. t \in Unordered => ToSet(Elements(t, b[t])) = b[t]
    <3> SUFFICES ASSUME t \in Unordered
                 PROVE  ToSet(Elements(t, b[t])) = b[t]
      OBVIOUS
    <3>1. IsFiniteSet(b[t])
      BY <1>3 DEF IsGraph
    <3>2. ToSet(SetToSeq(b[t])) = b[t]
      BY <3>1, SetToSeqFacts
    <3> QED
      BY <3>2 DEF Elements
  <2>5. t \notin Unordered => Elements(t, b[t]) = b[t]
    BY DEF Elements
  <2> QED
    BY <1>3, <2>3, <2>4, <2>5
<1>4. CASE t \in DOMAIN base \ DOMAIN b
  <2>1. PICK e : e = EditBy(t, source, Edit("deleteAttribute", NoRange, << >>))
    OBVIOUS
  <2>2. F = {e}
    BY <1>2, <1>4, <2>1 DEF AttributeEdits
  <2>3. e.kind = "deleteAttribute"
    BY <1>1, <2>1
  <2> QED
    BY <1>4, <2>2, <2>3, RemovalApplied
<1>5. CASE t \notin DOMAIN base /\ t \notin DOMAIN b
  <2>1. F = {}
    BY <1>5 DEF AttributeEdits, EditsAt
  <2> QED
    BY <1>5, <2>1, NothingApplied
<1>6. CASE t \in DOMAIN base \cap DOMAIN b /\ base[t] = b[t]
  <2>1. F = {}
    BY <1>6 DEF AttributeEdits, EditsAt
  <2> QED
    BY <1>6, <2>1, NothingApplied
<1>7. CASE t \in DOMAIN base \cap DOMAIN b /\ base[t] # b[t]
  <2>1. F = EditsAt(t, source, ValueEdits(t, base[t], b[t]))
    BY <1>7 DEF AttributeEdits
  <2>0. PICK c : c = b[t]
    OBVIOUS
  <2>5. F = EditsAt(t, source, ValueEdits(t, base[t], c)) /\ base[t] # c
    BY <1>7, <2>0, <2>1
  <2>2. CASE t \in Unordered
    <3>1. Applied(t, F) = {c}
      BY <2>2, <2>5, SetRoundTrip
    <3> QED
      BY <1>7, <2>0, <3>1
  <2>3. CASE t \notin Unordered /\ t \in Ordered
    <3>1. base[t] \in Seq(Value) /\ c \in Seq(Value)
      BY <1>7, <2>0, <2>3 DEF IsGraph
    <3>2. Applied(t, F) = {c}
      BY <2>3, <2>5, <3>1, ArrayRoundTrip
    <3> QED
      BY <1>7, <2>0, <3>2
  <2>4. CASE t \notin Unordered /\ t \notin Ordered
    <3>1. PICK e : e = EditBy(t, source, Edit("setAttribute", NoRange, b[t]))
      OBVIOUS
    <3>2. F = {e}
      BY <1>2, <2>1, <2>4, <3>1 DEF ValueEdits
    <3>3. Applied(t, F) = {b[t]}
      BY <1>1, <2>4, <3>1, <3>2, SetApplied
    <3> QED
      BY <1>7, <3>3
  <2> QED
    BY <2>2, <2>3, <2>4
<1> QED
  BY <1>3, <1>4, <1>5, <1>6, <1>7

(* The difference of two graphs, applied to the first, gives the second    *)
(* (-applyTo: undoes nothing and loses nothing of what -diffItemUUIDs:...  *)
(* found), whatever the values and the sides.                              *)
THEOREM DiffRoundTrip == Spec => []DiffsRoundTrip
<1>1. DiffInv => DiffsRoundTrip
  <2> SUFFICES ASSUME DiffInv, NEW source \in Source, NEW t \in Attribute
               PROVE  Applied(t, Of(EditsOf(source), t)) =
                        IF t \in DOMAIN edited[source] THEN {edited[source][t]} ELSE {}
    BY DEF DiffsRoundTrip
  <2>1. PICK b : b = edited[source]
    OBVIOUS
  <2>2. IsGraph(base) /\ IsGraph(b)
    BY <2>1 DEF DiffInv, GraphsOK
  <2>3. PICK F : F = Of(EditsOf(source), t)
    OBVIOUS
  <2>4. F = EditsAt(t, source, AttributeEdits(t, base, b))
    BY <2>1, <2>3, EditsOfAttribute
  <2>5. Applied(t, F) = IF t \in DOMAIN b THEN {b[t]} ELSE {}
    BY <2>2, <2>4, RoundTripAt
  <2> QED
    BY <2>1, <2>3, <2>5
<1> QED
  BY <1>1, DiffInvInvariant, PTL

-----------------------------------------------------------------------------
(* Where the edits of two sides are in an array *)

(* What an edit of an array takes away tells its kind.                     *)
IsShaped(e) ==
  /\ e.kind = "insertion" <=> e.range.length = 0
  /\ e.kind = "deletion" => e.objects = << >>

AreShaped(s) == \A p \in DOMAIN s : IsShaped(s[p])

(* The edits of one side are in the array, one after the other.            *)
InPlace(a, s) ==
  /\ s \in Seq(ArrayEdits) /\ AreShaped(s)
  /\ \A p \in DOMAIN s : End(s[p].range) <= Len(a)
  /\ \A p, q \in DOMAIN s : p < q => /\ End(s[p].range) <= s[q].range.location
                                     /\ s[p].range.location < s[q].range.location

(* A turn of the loop makes an edit of one of the three kinds.             *)
LEMMA TurnShaped ==
  ASSUME NEW b, NEW A, NEW la, AreApart(A, 0, la), NEW B, NEW d, d.edits \in Seq(ArrayEdits), AreShaped(d.edits),
         d.i \in 1 .. Len(A) + 1,
         NEW next, NEW x, NEW y, NEW e, IsTurn(b, A, B, d, next, x, y, e)
  PROVE  AreShaped(next.edits)
<1>1. PICK i : i = d.i
  OBVIOUS
<1>2. A \in Seq(Spans) /\ \A k \in DOMAIN A : A[k].length > 0
  BY DEF AreApart
<1>3. i <= Len(A) => i \in DOMAIN A
  <2>1. Len(A) \in Nat /\ DOMAIN A = 1 .. Len(A)
    BY <1>2
  <2>2. i \in 1 .. Len(A) + 1
    BY <1>1
  <2> QED
    BY <2>1, <2>2
<1>4. IsShaped(e)
  <2>1. CASE i <= Len(A) /\ A[i].location = x
    <3>1. e.range = A[i] /\ e.kind \in {"modification", "deletion"}
      BY <1>1, <2>1 DEF IsTurn
    <3>2. e.kind = "deletion" => e.objects = << >>
      BY <1>1, <2>1 DEF IsTurn
    <3>3. PICK l : l = A[i].length
      OBVIOUS
    <3>4. l # 0
      <4>1. l > 0 /\ l \in Nat
        <5>1. A[i] \in Spans /\ A[i].length > 0
          BY <1>2, <1>3, <2>1
        <5> QED
          BY <3>3, <5>1 DEF Spans
      <4> QED
        BY ONLY <4>1
    <3> QED
      BY <3>1, <3>2, <3>3, <3>4 DEF IsShaped
  <2>2. CASE ~ (i <= Len(A) /\ A[i].location = x)
    <3>1. e.range = Span(x, 0) /\ e.kind = "insertion"
      BY <1>1, <2>2 DEF IsTurn
    <3> QED
      BY <3>1 DEF IsShaped, Span
  <2> QED
    BY <2>1, <2>2
<1>5. PICK s : s = d.edits
  OBVIOUS
<1>6. next.edits = Append(s, e) /\ e \in ArrayEdits
  BY <1>5 DEF IsTurn
<1>7. PICK u : u = Append(s, e)
  OBVIOUS
<1>8. /\ s \in Seq(ArrayEdits) /\ DOMAIN s = 1 .. Len(s) /\ Len(s) \in Nat
      /\ DOMAIN u = 1 .. Len(s) + 1 /\ u[Len(s) + 1] = e /\ \A p \in 1 .. Len(s) : u[p] = s[p]
  BY <1>5, <1>6, <1>7
<1>9. ASSUME NEW p \in DOMAIN u
      PROVE  IsShaped(u[p])
  <2>1. p \in DOMAIN s \/ p = Len(s) + 1
    BY <1>8
  <2>2. CASE p \in DOMAIN s
    BY <1>5, <1>8, <2>2 DEF AreShaped
  <2>3. CASE p = Len(s) + 1
    BY <1>4, <1>8, <2>3
  <2> QED
    BY <2>1, <2>2, <2>3
<1> QED
  BY <1>6, <1>7, <1>9 DEF AreShaped

(* And so do all turns.                                                    *)
LEMMA TurnsShaped ==
  ASSUME NEW b \in Seq(Value), NEW A, NEW la \in Nat, AreApart(A, 0, la), NEW B, AreApart(B, 0, Len(b)),
         NEW N, NEW f, TurnsInOrder(b, A, B, N, f)
  PROVE  \A n \in 0 .. N : AreShaped(f[n].edits)
<1>1. /\ N \in Nat /\ f[0] = DiffStart /\ \A n \in 1 .. N : f[n] = NextTurn(b, A, B, f[n - 1])
      /\ \A n \in 0 .. N : EditsInOrder(b, A, B, f[n])
  BY DEF TurnsInOrder
<1> DEFINE Good(n) == AreShaped(f[n].edits)
<1>2. Good(0)
  BY <1>1 DEF DiffStart, AreShaped
<1>3. ASSUME NEW n \in 1 .. N, Good(n - 1)
      PROVE  Good(n)
  <2>1. PICK d : d = f[n - 1]
    OBVIOUS
  <2>2. PICK next : next = f[n]
    OBVIOUS
  <2>3. EditsInOrder(b, A, B, d) /\ next = NextTurn(b, A, B, d) /\ AreShaped(d.edits)
    <3>1. n - 1 \in 0 .. N
      BY <1>1
    <3> QED
      BY <1>1, <1>3, <2>1, <2>2, <3>1
  <2>4. CASE d.i > Len(A) /\ d.j > Len(B)
    BY <2>2, <2>3, <2>4 DEF NextTurn
  <2>5. CASE ~ (d.i > Len(A) /\ d.j > Len(B))
    <3>1. next = EmitEdit(b, A, B, d)
      BY <2>3, <2>5 DEF NextTurn
    <3>2. \E c \in Nat : \E e : IsTurn(b, A, B, d, next, d.posA + c, d.posB + c, e)
      BY <2>3, <2>5, <3>1, EmitEditInOrder, ZenonT(30)
    <3>3. PICK c \in Nat : \E e : IsTurn(b, A, B, d, next, d.posA + c, d.posB + c, e)
      BY <3>2
    <3>4. PICK e : IsTurn(b, A, B, d, next, d.posA + c, d.posB + c, e)
      BY <3>3
    <3>5. d.edits \in Seq(ArrayEdits) /\ d.i \in 1 .. Len(A) + 1
      BY <2>3 DEF EditsInOrder
    <3>6. AreShaped(next.edits)
      BY <2>3, <3>4, <3>5, TurnShaped, ZenonT(30)
    <3> QED
      BY <2>2, <3>6
  <2> QED
    BY <2>4, <2>5
<1>4. \A n \in 0 .. N : Good(n)
  <2> DEFINE Bad == {n \in 0 .. N : ~ Good(n)}
  <2> SUFFICES ASSUME Bad # {}
               PROVE  FALSE
    BY DEF Bad
  <2> HIDE DEF Good
  <2>1. Bad \in SUBSET Nat
    OBVIOUS
  <2>2. PICK n \in Bad : \A k \in Bad : n <= k
    <3> HIDE DEF Bad
    <3> QED
      BY <2>1, LeastNumber
  <2>3. n \in 0 .. N /\ ~ Good(n)
    OBVIOUS
  <2>4. n \in 1 .. N /\ n - 1 \in 0 .. N /\ ~ (n <= n - 1)
    <3>1. n # 0
      BY <1>2, <2>3
    <3> QED
      BY <1>1, <2>3, <3>1
  <2>5. n - 1 \notin Bad
    <3> HIDE DEF Bad
    <3> QED
      BY <2>2, <2>4
  <2>6. Good(n - 1)
    BY <2>4, <2>5
  <2> QED
    BY <1>3, <2>3, <2>4, <2>6
<1> QED
  BY <1>4

(* The difference of two arrays is in the first.                           *)
LEMMA DiffInPlace ==
  ASSUME NEW a \in Seq(Value), NEW b \in Seq(Value)
  PROVE  InPlace(a, DiffArrays(a, b))
<1>1. PICK A : A = Modified(LCS(a, b).A)
  OBVIOUS
<1>2. PICK B : B = Modified(LCS(a, b).B)
  OBVIOUS
<1>3. Len(a) \in Nat /\ Len(b) \in Nat
  OBVIOUS
<1>4. PICK P : AreDiffRanges(a, b, A, B, P)
  BY <1>1, <1>2, <1>3, DiffRanges
<1>5. AreApart(A, 0, Len(a)) /\ AreApart(B, 0, Len(b))
  BY <1>4 DEF AreDiffRanges
<1>6. PICK N : N = Len(A) + Len(B)
  OBVIOUS
<1>7. PICK f : f = AllTurns(b, A, B)
  OBVIOUS
<1>8. TurnsInOrder(b, A, B, N, f)
  BY <1>3, <1>5, <1>6, <1>7, CreateDiffsInOrder
<1>9. PICK d : d = f[N]
  OBVIOUS
<1>10. N \in 0 .. N /\ DiffArrays(a, b) = d.edits /\ EditsInOrder(b, A, B, d)
  <2>1. N \in 0 .. N /\ CreateDiffs(b, A, B) = f[N].edits /\ EditsInOrder(b, A, B, f[N])
    BY <1>8 DEF TurnsInOrder
  <2>2. DiffArrays(a, b) = CreateDiffs(b, A, B)
    BY <1>1, <1>2 DEF DiffArrays
  <2> QED
    BY <1>9, <2>1, <2>2
<1>11. d.posA <= Len(a)
  <2>1. EditsMade(a, b, A, B, P, f[N])
    BY <1>4, <1>8, <1>10, TurnsMade
  <2> QED
    BY <1>9, <2>1 DEF EditsMade, Reached
<1>12. PICK s : s = d.edits
  OBVIOUS
<1>13. PICK x : x = d.posA
  OBVIOUS
<1>14. /\ s \in Seq(ArrayEdits) /\ x \in Nat /\ x <= Len(a)
       /\ \A p \in DOMAIN s : End(s[p].range) <= x
       /\ \A p, q \in DOMAIN s : p < q => End(s[p].range) <= s[q].range.location
  BY <1>10, <1>11, <1>12, <1>13 DEF EditsInOrder
<1>15. AreShaped(s)
  BY <1>3, <1>5, <1>8, <1>9, <1>10, <1>12, TurnsShaped
<1>16. \A p, q \in DOMAIN s : p < q => s[p].range.location < s[q].range.location
  <2>1. RoundTrips(a, b, s)
    BY <1>10, <1>12, DiffRoundTrips
  <2> QED
    BY <2>1 DEF RoundTrips, Ascending
<1>17. \A p \in DOMAIN s : End(s[p].range) <= Len(a)
  <2> TAKE p \in DOMAIN s
  <2>1. PICK u : u = End(s[p].range)
    OBVIOUS
  <2>2. s[p].range \in Spans
    <3>1. s[p] \in ArrayEdits
      BY <1>14
    <3> QED
      BY <3>1 DEF ArrayEdits
  <2>3. u \in Nat
    BY <2>1, <2>2 DEF Spans, End
  <2>4. u <= x
    BY <1>14, <2>1
  <2>5. u <= Len(a)
    BY ONLY <1>3, <1>14, <2>3, <2>4
  <2> QED
    BY <2>1, <2>5
<1> QED
  BY <1>10, <1>12, <1>14, <1>15, <1>16, <1>17 DEF InPlace

(* Edits that are made alike                                               *)
Same(e, f) == e.kind = f.kind /\ e.range = f.range /\ e.objects = f.objects

(* Edits of one attribute are alike but for their source if they are       *)
(* made alike (-isEqualIgnoringSourceIdentifier:).                         *)
LEMMA SameMeans ==
  ASSUME NEW e \in Edits, NEW f \in Edits, e.attribute = f.attribute
  PROVE  IsEqualIgnoringSourceIdentifier(e, f) <=> Same(e, f)
<1>1. Same(e, f) => IsEqualIgnoringSourceIdentifier(e, f)
  <2> SUFFICES ASSUME Same(e, f)
               PROVE  e = [f EXCEPT !.source = e.source]
    BY DEF IsEqualIgnoringSourceIdentifier
  <2>1. PICK g : g = [f EXCEPT !.source = e.source]
    OBVIOUS
  <2>2. g \in Edits
    BY <2>1 DEF Edits
  <2>3. g.attribute = e.attribute /\ g.source = e.source /\ g.kind = e.kind /\ g.range = e.range /\ g.objects = e.objects
    BY <2>1 DEF Edits, Same
  <2>4. g = e
    BY <2>2, <2>3 DEF Edits
  <2> QED
    BY <2>1, <2>4
<1>2. IsEqualIgnoringSourceIdentifier(e, f) => Same(e, f)
  BY DEF IsEqualIgnoringSourceIdentifier, Same, Edits
<1> QED
  BY <1>1, <1>2

Starts(e, f) == e.range.location = f.range.location

(* Edits of the array a that can be made together: none reaches into what  *)
(* another takes away, and at one place there are at most two, one of them *)
(* an insertion if they differ.                                            *)
Fits(a, E) ==
  /\ IsFiniteSet(E) /\ E \subseteq Edits
  /\ \A e, f \in E : e.attribute = f.attribute
  /\ \A e \in E : IsShaped(e) /\ e.kind \in SequenceEdit /\ End(e.range) <= Len(a)
  /\ \A e, f \in E : e.range.location < f.range.location => End(e.range) <= f.range.location
  /\ \A e, f \in E : Starts(e, f) => Same(e, f) \/ e.kind = "insertion" \/ f.kind = "insertion"
  /\ \A e, f, g \in E : Starts(e, f) /\ Starts(f, g) => e = f \/ f = g \/ e = g

(* Edits of E that a side makes are among those of an array.               *)
AreOf(a, t, source, E) ==
  \E q : InPlace(a, q) /\ \A e \in E : e.source = source => \E p \in DOMAIN q : e = EditBy(t, source, q[p])

(* What one side made of an array                                          *)
LEMMA OfOneSide ==
  ASSUME GraphsOK, NEW source \in Source, NEW t \in Ordered \cap DOMAIN base,
         NEW E, \A e \in E : e.kind \in SequenceEdit /\ (e.source = source => e \in EditsOf(source) /\ e.attribute = t)
  PROVE  AreOf(base[t], t, source, E)
<1>1. PICK g : g = edited[source]
  OBVIOUS
<1>2. IsGraph(base) /\ IsGraph(g) /\ t \in Attribute
  BY <1>1 DEF GraphsOK, IsGraph
<1>3. t \notin Unordered
  BY ItemGraphDiffAssumption
<1>4. PICK X : X = AttributeEdits(t, base, g)
  OBVIOUS
<1>5. \A e \in E : e.source = source => \E x \in X : e = EditBy(t, source, x)
  <2> TAKE e \in E
  <2> HAVE e.source = source
  <2>1. e \in Of(EditsOf(source), t)
    BY DEF Of
  <2>2. e \in EditsAt(t, source, X)
    BY <1>1, <1>2, <1>4, <2>1, EditsOfAttribute
  <2> QED
    BY <2>2 DEF EditsAt
<1>6. \A x : EditBy(t, source, x).kind = x.kind
  BY DEF EditBy
<1>7. CASE t \in DOMAIN g /\ base[t] # g[t]
  <2>1. PICK b : b = g[t]
    OBVIOUS
  <2>2. base[t] \in Seq(Value) /\ b \in Seq(Value)
    BY <1>2, <1>3, <1>7, <2>1 DEF IsGraph
  <2>3. PICK q : q = DiffArrays(base[t], b)
    OBVIOUS
  <2>4. InPlace(base[t], q)
    BY <2>2, <2>3, DiffInPlace
  <2>5. X = ToSet(q)
    <3>1. AttributeEdits(t, base, g) = ValueEdits(t, base[t], b)
      BY <1>7, <2>1 DEF AttributeEdits
    <3>2. ValueEdits(t, base[t], b) = ToSet(DiffArrays(base[t], b))
      BY <1>3 DEF ValueEdits
    <3> QED
      BY <1>4, <2>3, <3>1, <3>2
  <2>6. \A x \in X : \E p \in DOMAIN q : x = q[p]
    BY <2>5 DEF ToSet
  <2>7. \A e \in E : e.source = source => \E p \in DOMAIN q : e = EditBy(t, source, q[p])
    BY <1>5, <2>6
  <2> QED
    BY <2>4, <2>7 DEF AreOf
<1>8. CASE ~ (t \in DOMAIN g /\ base[t] # g[t])
  <2>1. \A x \in X : x.kind = "deleteAttribute"
    <3>1. X \subseteq {Edit("deleteAttribute", NoRange, << >>)}
      BY <1>4, <1>8 DEF AttributeEdits
    <3> QED
      BY <3>1 DEF Edit
  <2>2. \A e \in E : e.source # source
    BY <1>5, <1>6, <2>1 DEF SequenceEdit
  <2>3. InPlace(base[t], << >>)
    BY DEF InPlace, AreShaped
  <2> QED
    BY <2>2, <2>3 DEF AreOf
<1> QED
  BY <1>7, <1>8

(* Edits of one side at one place are one.                                 *)
OnceInPlace(a, source, E) ==
  /\ IsFiniteSet({e \in E : e.source = source})
  /\ \A e \in E : e.source = source => IsShaped(e) /\ End(e.range) <= Len(a)
  /\ \A e, f \in E : e.source = source /\ f.source = source =>
       /\ Starts(e, f) => e = f
       /\ e.range.location < f.range.location => End(e.range) <= f.range.location

(* What one side does has one edit at a place.                             *)
LEMMA OneSideFits ==
  ASSUME NEW a, NEW t, NEW source, NEW E, AreOf(a, t, source, E)
  PROVE  OnceInPlace(a, source, E)
<1>1. PICK q : InPlace(a, q) /\ \A e \in E : e.source = source => \E p \in DOMAIN q : e = EditBy(t, source, q[p])
  BY DEF AreOf
<1>2. PICK n : n = Len(q)
  OBVIOUS
<1>3. /\ q \in Seq(ArrayEdits) /\ n \in Nat /\ DOMAIN q = 1 .. n
      /\ \A p \in 1 .. n : IsShaped(q[p]) /\ End(q[p].range) <= Len(a)
      /\ \A p, r \in 1 .. n : p < r => /\ End(q[p].range) <= q[r].range.location
                                       /\ q[p].range.location < q[r].range.location
  <2>1. q \in Seq(ArrayEdits)
    BY <1>1 DEF InPlace
  <2>2. n \in Nat /\ DOMAIN q = 1 .. n
    BY <1>2, <2>1
  <2> QED
    BY <1>1, <2>1, <2>2 DEF InPlace, AreShaped
<1>4. \A x : EditBy(t, source, x).kind = x.kind /\ EditBy(t, source, x).range = x.range
             /\ EditBy(t, source, x).objects = x.objects
  BY DEF EditBy
<1>5. \A e \in E : e.source = source => IsShaped(e) /\ End(e.range) <= Len(a)
  <2> TAKE e \in E
  <2> HAVE e.source = source
  <2>1. PICK p \in 1 .. n : e = EditBy(t, source, q[p])
    BY <1>1, <1>3
  <2>2. e.kind = q[p].kind /\ e.range = q[p].range /\ e.objects = q[p].objects
    BY <1>4, <2>1
  <2> QED
    BY <1>3, <2>2 DEF IsShaped
<1>6. ASSUME NEW e \in E, NEW f \in E, e.source = source, f.source = source
      PROVE  /\ Starts(e, f) => e = f
             /\ e.range.location < f.range.location => End(e.range) <= f.range.location
  <2>1. PICK p \in 1 .. n : e = EditBy(t, source, q[p])
    BY <1>1, <1>3, <1>6
  <2>2. PICK r \in 1 .. n : f = EditBy(t, source, q[r])
    BY <1>1, <1>3, <1>6
  <2>3. e.range = q[p].range /\ f.range = q[r].range
    BY <1>4, <2>1, <2>2
  <2>4. PICK u : u = e.range.location
    OBVIOUS
  <2>5. PICK v : v = f.range.location
    OBVIOUS
  <2>6. u \in Nat /\ v \in Nat
    <3>1. q[p] \in ArrayEdits /\ q[r] \in ArrayEdits
      BY <1>3
    <3>2. e.range \in Spans /\ f.range \in Spans
      BY <2>3, <3>1 DEF ArrayEdits
    <3> QED
      BY <2>4, <2>5, <3>2 DEF Spans
  <2>7. (p < r => u < v) /\ (r < p => v < u) /\ (p < r => End(e.range) <= v)
    BY <1>3, <2>3, <2>4, <2>5
  <2>8. p < r \/ r < p \/ p = r
    BY <1>3
  <2>9. u = v => p = r
    BY ONLY <2>6, <2>7, <2>8
  <2>10. u < v => p < r
    <3>1. p = r => u = v
      BY <2>3, <2>4, <2>5
    <3> QED
      BY ONLY <2>6, <2>7, <2>8, <3>1
  <2> QED
    BY <2>1, <2>2, <2>4, <2>5, <2>7, <2>9, <2>10 DEF Starts
<1>7. IsFiniteSet({e \in E : e.source = source})
  <2>1. PICK T : T = {EditBy(t, source, q[p]) : p \in 1 .. n}
    OBVIOUS
  <2>2. PICK h : h = [p \in 1 .. n |-> EditBy(t, source, q[p])]
    OBVIOUS
  <2>3. h \in Surjection(1 .. n, T)
    BY <2>1, <2>2 DEF Surjection
  <2>4. IsFiniteSet(1 .. n)
    BY <1>3, FS_Interval, 1 \in Int, n \in Int
  <2>5. IsFiniteSet(T)
    BY <2>3, <2>4, FS_Surjection
  <2>6. {e \in E : e.source = source} \in SUBSET T
    BY <1>1, <1>3, <2>1
  <2> QED
    BY <2>5, <2>6, FS_Subset
<1> QED
  BY <1>5, <1>6, <1>7 DEF OnceInPlace

NoneStranded(E) == ~ \E e, f \in E : Stranded(e, f)

(* What both sides made of an array, when nothing is in conflict           *)
LEMMA BothSidesFit ==
  ASSUME NEW a, NEW t, NEW E \in SUBSET Edits, \A e \in E : e.attribute = t /\ e.kind \in SequenceEdit,
         Agree(E), NoneStranded(E), \A source \in Source : AreOf(a, t, source, E)
  PROVE  Fits(a, E)
<1>1. \A source \in Source : OnceInPlace(a, source, E)
  BY OneSideFits
<1>2. Source = {"self", "other"} /\ \A e \in E : e.source \in Source
  BY DEF Source, Edits
<1>3. IsFiniteSet(E)
  <2>1. PICK S : S = {e \in E : e.source = "self"}
    OBVIOUS
  <2>2. PICK T : T = {e \in E : e.source = "other"}
    OBVIOUS
  <2>3. IsFiniteSet(S) /\ IsFiniteSet(T)
    BY <1>1, <1>2, <2>1, <2>2 DEF OnceInPlace
  <2>4. IsFiniteSet(S \cup T)
    BY <2>3, FS_Union
  <2>5. E = S \cup T
    BY <1>2, <2>1, <2>2
  <2> QED
    BY <2>4, <2>5
<1>4. \A e \in E : IsShaped(e) /\ End(e.range) <= Len(a)
  BY <1>1, <1>2 DEF OnceInPlace
<1>5. ASSUME NEW e \in E, NEW f \in E, Overlaps(e, f)
      PROVE  Same(e, f)
  <2>1. Clash("sequenceEdit", e, f)
    BY <1>5 DEF Clash
  <2>2. IsEqualIgnoringSourceIdentifier(e, f)
    BY <2>1 DEF Agree, AnyClash, Category
  <2> QED
    BY <2>2, SameMeans
<1>6. ASSUME NEW e \in E
      PROVE  /\ e.range.location \in Nat /\ e.range.length \in Nat
             /\ End(e.range) = e.range.location + e.range.length
             /\ e.kind = "insertion" <=> e.range.length = 0
  <2>1. e.range \in Spans
    BY DEF Edits
  <2> QED
    BY <1>4, <2>1 DEF Spans, End, IsShaped
<1>7. ASSUME NEW e \in E, NEW f \in E, e.range.location < f.range.location
      PROVE  End(e.range) <= f.range.location
  <2>1. PICK u : u = e.range.location
    OBVIOUS
  <2>2. PICK v : v = f.range.location
    OBVIOUS
  <2>3. PICK w : w = End(e.range)
    OBVIOUS
  <2>4. u \in Nat /\ v \in Nat /\ w \in Nat /\ u < v
    BY <1>6, <1>7, <2>1, <2>2, <2>3
  <2>5. CASE w > v
    <3>1. f.kind # "insertion"
      BY <1>7, <2>2, <2>3, <2>4, <2>5 DEF NoneStranded, Stranded
    <3>2. PICK m : m = f.range.length
      OBVIOUS
    <3>3. m \in Nat /\ m # 0
      BY <1>6, <3>1, <3>2
    <3>4. m > 0 /\ u <= v /\ v < w
      BY ONLY <2>4, <2>5, <3>3
    <3>5. BeginsIn(f.range, e.range)
      BY <2>1, <2>2, <2>3, <3>2, <3>4 DEF BeginsIn
    <3>6. e.range = f.range
      BY <1>5, <3>5 DEF Overlaps, Same
    <3> QED
      BY <2>1, <2>2, <2>4, <3>6
  <2>6. CASE ~ (w > v)
    <3>1. w <= v
      BY ONLY <2>4, <2>6
    <3> QED
      BY <2>2, <2>3, <3>1
  <2> QED
    BY <2>5, <2>6
<1>8. ASSUME NEW e \in E, NEW f \in E, Starts(e, f), e.kind # "insertion", f.kind # "insertion"
      PROVE  Same(e, f)
  <2>1. PICK u : u = e.range.location
    OBVIOUS
  <2>2. PICK l : l = e.range.length
    OBVIOUS
  <2>3. PICK m : m = f.range.length
    OBVIOUS
  <2>4. /\ u \in Nat /\ l \in Nat /\ m \in Nat /\ l # 0 /\ m # 0 /\ f.range.location = u
        /\ End(f.range) = u + m
    BY <1>6, <1>8, <2>1, <2>2, <2>3 DEF Starts
  <2>5. l > 0 /\ u <= u /\ u < u + m
    BY ONLY <2>4
  <2>6. BeginsIn(e.range, f.range)
    BY <2>1, <2>2, <2>4, <2>5 DEF BeginsIn
  <2> QED
    BY <1>5, <2>6 DEF Overlaps
<1>9. ASSUME NEW e \in E, NEW f \in E, NEW g \in E, Starts(e, f), Starts(f, g)
      PROVE  e = f \/ f = g \/ e = g
  <2>1. e.source = f.source \/ f.source = g.source \/ e.source = g.source
    BY <1>2
  <2>2. \A x, y \in E : Starts(x, y) /\ x.source = y.source => x = y
    BY <1>1, <1>2 DEF OnceInPlace
  <2>3. Starts(e, g)
    BY <1>9 DEF Starts
  <2> QED
    BY <1>9, <2>1, <2>2, <2>3
<1> QED
  BY <1>3, <1>4, <1>7, <1>8, <1>9 DEF Fits

-----------------------------------------------------------------------------
(* Edits can be sorted *)

(* The order of edits, in numbers                                          *)
Rank(e) == 2 * e.range.location + IF e.kind = "insertion" THEN 1 ELSE 0

(* The numbers are in the order of the edits (-compare:).                  *)
LEMMA PrecedesByRank ==
  ASSUME NEW e, NEW f, e.range.location \in Nat, f.range.location \in Nat
  PROVE  Rank(e) \in Nat /\ (Precedes(e, f) <=> Rank(e) < Rank(f))
<1>1. PICK u : u = e.range.location
  OBVIOUS
<1>2. PICK v : v = f.range.location
  OBVIOUS
<1>3. PICK i : i = IF e.kind = "insertion" THEN 1 ELSE 0
  OBVIOUS
<1>4. PICK j : j = IF f.kind = "insertion" THEN 1 ELSE 0
  OBVIOUS
<1>5. i \in {0, 1} /\ j \in {0, 1} /\ u \in Nat /\ v \in Nat
  BY <1>1, <1>2, <1>3, <1>4
<1>6. Rank(e) = 2 * u + i /\ Rank(f) = 2 * v + j
  BY <1>1, <1>2, <1>3, <1>4 DEF Rank
<1>7. (2 * u + i < 2 * v + j <=> u < v \/ (u = v /\ j = 1 /\ i = 0)) /\ 2 * u + i \in Nat
  BY ONLY <1>5
<1>8. Precedes(e, f) <=> u < v \/ (u = v /\ j = 1 /\ i = 0)
  BY <1>1, <1>2, <1>3, <1>4 DEF Precedes
<1> QED
  BY <1>6, <1>7, <1>8

(* One of finitely many edits comes last.                                  *)
LEMMA LastEdit ==
  ASSUME NEW E, IsFiniteSet(E), E # {}, \A e \in E : e.range.location \in Nat
  PROVE  \E m \in E : \A e \in E : ~ Precedes(m, e)
<1> DEFINE After(m) == {e \in E : Precedes(m, e)}
           Counts == {Cardinality(After(m)) : m \in E}
<1>1. \A m \in E : IsFiniteSet(After(m)) /\ Cardinality(After(m)) \in Nat
  <2> TAKE m \in E
  <2>1. After(m) \in SUBSET E
    OBVIOUS
  <2> HIDE DEF After
  <2>2. IsFiniteSet(After(m))
    BY <2>1, FS_Subset
  <2> QED
    BY <2>2, FS_CardinalityType
<1>2. PICK c \in Counts : \A d \in Counts : c <= d
  <2>1. Counts \in SUBSET Nat /\ Counts # {}
    <3> HIDE DEF After
    <3> QED
      BY <1>1
  <2> HIDE DEF Counts
  <2> QED
    BY <2>1, LeastNumber
<1>3. PICK m \in E : c = Cardinality(After(m))
  OBVIOUS
<1>4. ASSUME NEW f \in E, Precedes(m, f)
      PROVE  FALSE
  <2>1. Rank(m) \in Nat /\ Rank(f) \in Nat /\ Rank(m) < Rank(f)
    BY <1>4, PrecedesByRank
  <2>2. f \in After(m) /\ f \notin After(f)
    <3>1. ~ (Rank(f) < Rank(f))
      BY ONLY <2>1
    <3> QED
      BY <1>4, <3>1, PrecedesByRank
  <2>3. After(f) \in SUBSET After(m)
    <3> SUFFICES ASSUME NEW e \in E, Precedes(f, e)
                 PROVE  Precedes(m, e)
      OBVIOUS
    <3>1. Rank(e) \in Nat /\ Rank(f) < Rank(e)
      BY PrecedesByRank
    <3>2. Rank(m) < Rank(e)
      BY ONLY <2>1, <3>1
    <3> QED
      BY <3>2, PrecedesByRank
  <2>4. Cardinality(After(f)) \in Counts
    OBVIOUS
  <2> HIDE DEF After, Counts
  <2>5. Cardinality(After(f)) <= c /\ Cardinality(After(f)) # c
    BY <1>1, <1>3, <2>2, <2>3, FS_Subset
  <2>6. c <= Cardinality(After(f))
    BY <1>2, <2>4
  <2>7. c \in Nat /\ Cardinality(After(f)) \in Nat
    BY <1>1, <1>3
  <2> QED
    BY ONLY <2>5, <2>6, <2>7
<1> QED
  BY <1>4

(* Each in one place, and none before one that it follows                  *)
IsSorting(E, n, s) ==
  /\ s \in [1 .. n -> E]
  /\ \A i, j \in 1 .. n : i # j => s[i] # s[j]
  /\ \A i, j \in 1 .. n : i < j => ~Precedes(s[j], s[i])

HasSorting(n) ==
  \A E : IsFiniteSet(E) /\ Cardinality(E) = n /\ (\A e \in E : e.range.location \in Nat) =>
           \E s : IsSorting(E, n, s)

(* Finitely many edits can be sorted: the last one goes last.              *)
LEMMA SortingsExist ==
  ASSUME NEW n \in Nat
  PROVE  HasSorting(n)
<1>1. HasSorting(0)
  <2> SUFFICES ASSUME NEW E, IsFiniteSet(E), Cardinality(E) = 0
               PROVE  \E s : IsSorting(E, 0, s)
    BY DEF HasSorting
  <2>1. PICK s : s = [i \in 1 .. 0 |-> i]
    OBVIOUS
  <2>2. 1 .. 0 = {}
    OBVIOUS
  <2>3. s \in [1 .. 0 -> E]
    BY <2>1, <2>2
  <2>4. IsSorting(E, 0, s)
    BY <2>2, <2>3 DEF IsSorting
  <2> QED
    BY <2>4
<1>2. ASSUME NEW k \in Nat, k # 0, HasSorting(k - 1)
      PROVE  HasSorting(k)
  <2> SUFFICES ASSUME NEW E, IsFiniteSet(E), Cardinality(E) = k, \A e \in E : e.range.location \in Nat
               PROVE  \E s : IsSorting(E, k, s)
    BY DEF HasSorting
  <2>1. E # {}
    BY <1>2, FS_EmptySet
  <2>2. PICK m \in E : \A e \in E : ~ Precedes(m, e)
    BY <2>1, LastEdit
  <2>3. PICK D : D = E \ {m}
    OBVIOUS
  <2>4. IsFiniteSet(D) /\ Cardinality(D) = k - 1
    BY <2>2, <2>3, FS_RemoveElement
  <2>5. PICK w : IsSorting(D, k - 1, w)
    BY <1>2, <2>3, <2>4 DEF HasSorting
  <2>6. /\ w \in [1 .. k - 1 -> D]
        /\ \A i, j \in 1 .. k - 1 : i # j => w[i] # w[j]
        /\ \A i, j \in 1 .. k - 1 : i < j => ~Precedes(w[j], w[i])
    BY <2>5 DEF IsSorting
  <2>7. PICK s : s = [i \in 1 .. k |-> IF i = k THEN m ELSE w[i]]
    OBVIOUS
  <2>8. \A i \in 1 .. k : i = k \/ i \in 1 .. k - 1
    OBVIOUS
  <2>9. \A i \in 1 .. k : /\ i = k => s[i] = m
                          /\ i # k => i \in 1 .. k - 1 /\ s[i] = w[i] /\ w[i] \in D
    BY <2>6, <2>7, <2>8
  <2>10. s \in [1 .. k -> E]
    <3>1. \A i \in 1 .. k : s[i] \in E
      BY <2>2, <2>3, <2>9
    <3> QED
      BY <2>7, <3>1
  <2>11. ASSUME NEW i \in 1 .. k, NEW j \in 1 .. k, i # j
         PROVE  s[i] # s[j]
    <3>1. CASE i = k
      BY <2>3, <2>9, <2>11, <3>1
    <3>2. CASE j = k
      BY <2>3, <2>9, <2>11, <3>2
    <3>3. CASE i # k /\ j # k
      BY <2>6, <2>9, <2>11, <3>3
    <3> QED
      BY <3>1, <3>2, <3>3
  <2>12. ASSUME NEW i \in 1 .. k, NEW j \in 1 .. k, i < j
         PROVE  ~Precedes(s[j], s[i])
    <3>1. i # k
      BY <2>12
    <3>2. CASE j = k
      BY <2>2, <2>3, <2>9, <3>1, <3>2
    <3>3. CASE j # k
      BY <2>6, <2>9, <2>12, <3>1, <3>3
    <3> QED
      BY <3>2, <3>3
  <2>13. IsSorting(E, k, s)
    BY <2>10, <2>11, <2>12 DEF IsSorting
  <2> QED
    BY <2>13
<1> DEFINE Bad == {k \in Nat : ~ HasSorting(k)}
<1>3. ASSUME Bad # {}
      PROVE  FALSE
  <2>1. Bad \in SUBSET Nat
    OBVIOUS
  <2>2. PICK k \in Bad : \A d \in Bad : k <= d
    <3> HIDE DEF Bad
    <3> QED
      BY <1>3, <2>1, LeastNumber
  <2>3. k \in Nat /\ ~ HasSorting(k)
    OBVIOUS
  <2>4. k # 0
    BY <1>1, <2>3
  <2>5. k - 1 \in Nat /\ ~ (k <= k - 1)
    BY <2>3, <2>4
  <2>6. k - 1 \notin Bad
    <3> HIDE DEF Bad
    <3> QED
      BY <2>2, <2>5
  <2>7. HasSorting(k - 1)
    BY <2>5, <2>6
  <2> QED
    BY <1>2, <2>3, <2>4, <2>7
<1> QED
  BY <1>3

(* What a sorted sequence of edits is, and that there is one.              *)
LEMMA SortedEditsFacts ==
  ASSUME NEW E, IsFiniteSet(E), \A e \in E : e.range.location \in Nat
  PROVE  /\ SortedEdits(E) # {}
         /\ \A s \in SortedEdits(E) : IsSorting(E, Cardinality(E), s)
<1>1. PICK n : n = Cardinality(E)
  OBVIOUS
<1>2. n \in Nat
  BY <1>1, FS_CardinalityType
<1>3. SetToSeqs(E) = {f \in [1 .. n -> E] : \A i, j \in 1 .. n : i # j => f[i] # f[j]}
  BY <1>1 DEF SetToSeqs
<1>4. \A s \in [1 .. n -> E] : DOMAIN s = 1 .. n
  OBVIOUS
<1>5. \A s : s \in SortedEdits(E) <=> IsSorting(E, n, s)
  BY <1>3, <1>4 DEF SortedEdits, IsSorting
<1>6. \E s : IsSorting(E, n, s)
  <2>1. HasSorting(n)
    BY <1>2, SortingsExist
  <2> QED
    BY <1>1, <2>1 DEF HasSorting
<1> QED
  BY <1>1, <1>5, <1>6

(* Every edit has a place, as there are as many places.                    *)
LEMMA SortingIsOnto ==
  ASSUME NEW E, IsFiniteSet(E), NEW n, n = Cardinality(E), NEW s, IsSorting(E, n, s)
  PROVE  \A e \in E : \E p \in 1 .. n : s[p] = e
<1>1. n \in Nat
  BY FS_CardinalityType
<1>2. s \in Injection(1 .. n, E)
  BY DEF IsSorting, Injection, IsInjective
<1>3. Cardinality(1 .. n) = n
  <2>1. Cardinality(1 .. n) = IF 1 > n THEN 0 ELSE n - 1 + 1
    BY <1>1, FS_Interval, 1 \in Int, n \in Int
  <2> QED
    BY ONLY <1>1, <2>1
<1>4. s \in Surjection(1 .. n, E)
  BY <1>2, <1>3, FS_Injection
<1> QED
  BY <1>4 DEF Surjection

-----------------------------------------------------------------------------
(* What is expected at the places of an array *)

IsFlatten(s, f) == f = [i \in 1 .. Len(s) |-> IF i = 1 THEN s[i] ELSE f[i - 1] \o s[i]]

AllFlatten(s) == CHOOSE f : IsFlatten(s, f)

(* Sequences of at most two sequences, put together                        *)
LEMMA FlattenNone == FlattenSeq(<< >>) = << >>
<1>1. Len(<< >>) = 0
  OBVIOUS
<1> QED
  BY <1>1 DEF FlattenSeq

(* What is put together, if there is a way to put it together at all       *)
LEMMA FlattenSome ==
  ASSUME NEW s, Len(s) # 0, \E f : IsFlatten(s, f)
  PROVE  /\ IsFlatten(s, AllFlatten(s))
         /\ FlattenSeq(s) = AllFlatten(s)[Len(s)]
<1>1. IsFlatten(s, AllFlatten(s))
  <2>1. AllFlatten(s) = CHOOSE f : IsFlatten(s, f)
    BY DEF AllFlatten
  <2> QED
    BY <2>1
<1>2. FlattenSeq(s) = AllFlatten(s)[Len(s)]
  BY DEF FlattenSeq, AllFlatten, IsFlatten
<1> QED
  BY <1>1, <1>2

(* One sequence                                                            *)
LEMMA FlattenOne ==
  ASSUME NEW o
  PROVE  FlattenSeq(<<o>>) = o
<1>1. PICK s : s = <<o>>
  OBVIOUS
<1>2. Len(s) = 1 /\ s[1] = o /\ Len(s) # 0 /\ 1 .. 1 = {1}
  BY <1>1
<1>3. \E f : IsFlatten(s, f)
  <2> DEFINE g == [i \in 1 .. 1 |-> o]
  <2>1. g = [i \in 1 .. 1 |-> IF i = 1 THEN s[i] ELSE g[i - 1] \o s[i]]
    BY <1>2
  <2> HIDE DEF g
  <2> QED
    BY <1>2, <2>1 DEF IsFlatten
<1>4. PICK f : f = AllFlatten(s)
  OBVIOUS
<1>5. IsFlatten(s, f) /\ FlattenSeq(s) = f[1]
  BY <1>2, <1>3, <1>4, FlattenSome
<1>6. f[1] = o
  BY <1>2, <1>5 DEF IsFlatten
<1> QED
  BY <1>1, <1>5, <1>6

(* Two sequences                                                           *)
LEMMA FlattenTwo ==
  ASSUME NEW o, NEW u
  PROVE  FlattenSeq(<<o, u>>) = o \o u
<1>1. PICK s : s = <<o, u>>
  OBVIOUS
<1>2. Len(s) = 2 /\ s[1] = o /\ s[2] = u /\ Len(s) # 0 /\ 1 .. 2 = {1, 2} /\ 2 - 1 = 1 /\ 2 # 1
  BY <1>1
<1>3. \E f : IsFlatten(s, f)
  <2> DEFINE g == [i \in 1 .. 2 |-> IF i = 1 THEN o ELSE o \o u]
  <2>1. g[1] = o /\ g[2] = o \o u
    BY <1>2
  <2>2. g = [i \in 1 .. 2 |-> g[i]]
    OBVIOUS
  <2> HIDE DEF g
  <2>3. \A i \in 1 .. 2 : g[i] = IF i = 1 THEN s[i] ELSE g[i - 1] \o s[i]
    BY <1>2, <2>1
  <2>4. g = [i \in 1 .. 2 |-> IF i = 1 THEN s[i] ELSE g[i - 1] \o s[i]]
    BY <2>2, <2>3
  <2> QED
    BY <1>2, <2>4 DEF IsFlatten
<1>4. PICK f : f = AllFlatten(s)
  OBVIOUS
<1>5. IsFlatten(s, f) /\ FlattenSeq(s) = f[2]
  BY <1>2, <1>3, <1>4, FlattenSome
<1>6. f = [i \in 1 .. 2 |-> IF i = 1 THEN s[i] ELSE f[i - 1] \o s[i]]
  BY <1>2, <1>5 DEF IsFlatten
<1>7. f[1] = o
  BY <1>2, <1>6
<1>8. f[2] = f[1] \o u
  BY <1>2, <1>6
<1> QED
  BY <1>1, <1>5, <1>7, <1>8

(* The objects inserted at a place: of no edit, of one, or of two in the   *)
(* one order or the other.                                                 *)
LEMMA InsertedNone ==
  ASSUME NEW E, NEW i, ObjectsAt(E, "insertion", i) = {}
  PROVE  << >> \in InsertedAt(E, i)
<1>1. << >> \in SetToSeqs({})
  <2>1. Cardinality({}) = 0 /\ 1 .. 0 = {}
    BY FS_EmptySet
  <2>2. << >> \in [1 .. 0 -> {}]
    OBVIOUS
  <2> QED
    BY <2>1, <2>2 DEF SetToSeqs
<1> QED
  BY <1>1, FlattenNone DEF InsertedAt

(* One edit inserts.                                                       *)
LEMMA InsertedOne ==
  ASSUME NEW E, NEW i, NEW o, ObjectsAt(E, "insertion", i) = {o}
  PROVE  o \in InsertedAt(E, i)
<1>1. <<o>> \in SetToSeqs({o})
  <2>1. Cardinality({o}) = 1 /\ 1 .. 1 = {1}
    BY FS_Singleton
  <2>2. <<o>> \in [1 .. 1 -> {o}]
    BY <2>1
  <2> QED
    BY <2>1, <2>2 DEF SetToSeqs
<1> QED
  BY <1>1, FlattenOne DEF InsertedAt

(* Two edits insert.                                                       *)
LEMMA InsertedTwo ==
  ASSUME NEW E, NEW i, NEW o, NEW u, o # u, ObjectsAt(E, "insertion", i) = {o, u}
  PROVE  u \o o \in InsertedAt(E, i)
<1>1. <<u, o>> \in SetToSeqs({o, u})
  <2>1. Cardinality({o, u}) = 2
    <3>1. {o, u} = {o} \cup {u} /\ u \notin {o}
      OBVIOUS
    <3>2. IsFiniteSet({o}) /\ Cardinality({o}) = 1
      BY ONLY FS_Singleton
    <3>3. Cardinality({o} \cup {u}) = IF u \in {o} THEN Cardinality({o}) ELSE Cardinality({o}) + 1
      BY ONLY <3>2, FS_AddElement
    <3>4. 1 + 1 = 2
      OBVIOUS
    <3> QED
      BY <3>1, <3>2, <3>3, <3>4
  <2>2. PICK s : s = <<u, o>>
    OBVIOUS
  <2>3. s[1] = u /\ s[2] = o /\ 1 .. 2 = {1, 2} /\ s \in [1 .. 2 -> {o, u}]
    BY <2>2
  <2>4. \A p, q \in 1 .. 2 : p # q => s[p] # s[q]
    BY <2>3
  <2> QED
    BY <2>1, <2>2, <2>3, <2>4 DEF SetToSeqs
<1> QED
  BY <1>1, FlattenTwo DEF InsertedAt

(* What is in place of an element that was taken                           *)
LEMMA ElementTaken ==
  ASSUME NEW a, NEW E, NEW i, \E e \in E : BeginsIn(Span(i, 1), e.range)
  PROVE  /\ ObjectsAt(E, "modification", i) = {} => ElementAt(a, E, i) = << >>
         /\ \A o : ObjectsAt(E, "modification", i) = {o} => ElementAt(a, E, i) = o
<1>1. PICK M : M = ObjectsAt(E, "modification", i)
  OBVIOUS
<1>2. ElementAt(a, E, i) = FlattenSeq(SetToSeq(M))
  BY <1>1 DEF ElementAt
<1>3. M = {} => SetToSeq(M) = << >>
  <2> SUFFICES SetToSeq({}) = << >>
    OBVIOUS
  <2>1. SetToSeq({}) \in Seq({})
    BY FS_EmptySet, SetToSeqFacts
  <2> QED
    BY <2>1
<1>4. \A o : M = {o} => SetToSeq(M) = <<o>>
  <2> TAKE o
  <2> SUFFICES SetToSeq({o}) = <<o>>
    OBVIOUS
  <2>0. Cardinality({o}) = 1
    BY ONLY FS_Singleton
  <2>1. Cardinality({o}) = 1 /\ 1 .. 1 = {1}
    BY <2>0
  <2>2. PICK s : s = SetToSeq({o})
    OBVIOUS
  <2>3. s \in Seq({o}) /\ ToSet(s) = {o}
    BY <2>2, FS_Singleton, SetToSeqFacts
  <2>4. s = CHOOSE f \in [1 .. 1 -> {o}] : IsInjective(f)
    BY <2>1, <2>2 DEF SetToSeq
  <2>5. PICK g : g = [k \in 1 .. 1 |-> o]
    OBVIOUS
  <2>6. g \in [1 .. 1 -> {o}] /\ IsInjective(g)
    BY <2>1, <2>5 DEF IsInjective
  <2>7. s \in [1 .. 1 -> {o}]
    BY <2>4, <2>6
  <2>8. Len(s) = 1 /\ s[1] = o
    BY <2>1, <2>3, <2>7
  <2> QED
    BY <2>2, <2>3, <2>8
<1> QED
  BY <1>1, <1>2, <1>3, <1>4, FlattenNone, FlattenOne

(* What is expected from each place on                                     *)
FromPlace(a, E, i, rest) ==
  {p[1] \o (ElementAt(a, E, i) \o p[2]) : p \in InsertedAt(E, i) \X rest}

IsFrom(a, E, f) ==
  f = [i \in 0 .. Len(a) |->
         IF i = Len(a) THEN InsertedAt(E, i)
         ELSE {p[1] \o (ElementAt(a, E, i) \o p[2]) : p \in InsertedAt(E, i) \X f[i + 1]}]

AllFrom(a, E) == CHOOSE f : IsFrom(a, E, f)

(* What is expected from a place on is made of what is expected from the   *)
(* next.                                                                   *)
LEMMA ExpectedFrom ==
  ASSUME NEW a, NEW E, NEW N \in Nat, Len(a) = N
  PROVE  /\ Expected(a, E) = AllFrom(a, E)[0]
         /\ AllFrom(a, E)[N] = InsertedAt(E, N)
         /\ \A i \in 0 .. N - 1 : AllFrom(a, E)[i] = FromPlace(a, E, i, AllFrom(a, E)[i + 1])
<1> DEFINE Is(f, k) == f = [i \in N - k .. N |-> IF i = N THEN InsertedAt(E, i) ELSE FromPlace(a, E, i, f[i + 1])]
           Bad == {k \in 0 .. N : ~ \E f : Is(f, k)}
<1>1. \E f : Is(f, 0)
  <2> DEFINE f == [i \in N - 0 .. N |-> InsertedAt(E, i)]
  <2>1. \A i \in N - 0 .. N : i = N
    OBVIOUS
  <2>2. Is(f, 0)
    BY <2>1
  <2> HIDE DEF Is, f
  <2> QED
    BY <2>2
<1>2. ASSUME NEW k \in 0 .. N, k # 0, NEW f, Is(f, k - 1)
      PROVE  \E g : Is(g, k)
  <2>1. PICK m : m = N - k
    OBVIOUS
  <2>2. m \in 0 .. N - 1 /\ N - (k - 1) = m + 1 /\ m # N
    BY <2>1, <1>2
  <2>3. f = [i \in m + 1 .. N |-> IF i = N THEN InsertedAt(E, i) ELSE FromPlace(a, E, i, f[i + 1])]
    BY <1>2, <2>2
  <2>4. \A i \in m + 1 .. N : f[i] = IF i = N THEN InsertedAt(E, i) ELSE FromPlace(a, E, i, f[i + 1])
    BY <2>3
  <2> DEFINE g == [i \in m .. N |-> IF i = m THEN FromPlace(a, E, m, f[m + 1]) ELSE f[i]]
  <2>5. /\ g[m] = FromPlace(a, E, m, f[m + 1]) /\ g = [i \in m .. N |-> g[i]]
        /\ \A i \in m + 1 .. N : g[i] = f[i]
    BY <2>2
  <2> HIDE DEF g
  <2>6. \A i \in m .. N : g[i] = IF i = N THEN InsertedAt(E, i) ELSE FromPlace(a, E, i, g[i + 1])
    <3> TAKE i \in m .. N
    <3>1. CASE i = m
      <4>1. m + 1 \in m + 1 .. N
        BY <2>2
      <4> QED
        BY <2>2, <2>5, <3>1, <4>1
    <3>2. CASE i # m
      <4>1. i \in m + 1 .. N /\ (i # N => i + 1 \in m + 1 .. N)
        BY <2>2, <3>2
      <4> QED
        BY <2>4, <2>5, <4>1
    <3> QED
      BY <3>1, <3>2
  <2>7. g = [i \in m .. N |-> IF i = N THEN InsertedAt(E, i) ELSE FromPlace(a, E, i, g[i + 1])]
    BY <2>5, <2>6
  <2> QED
    BY <2>1, <2>7
<1>3. \E f : Is(f, N)
  <2> HIDE DEF Is
  <2> SUFFICES ASSUME ~ \E f : Is(f, N)
               PROVE  FALSE
    OBVIOUS
  <2>0. N \in Bad
    <3>1. N \in 0 .. N
      OBVIOUS
    <3> QED
      BY <3>1
  <2>1. Bad \in SUBSET Nat
    OBVIOUS
  <2>2. PICK k \in Bad : \A d \in Bad : k <= d
    <3> HIDE DEF Bad
    <3> QED
      BY <2>0, <2>1, LeastNumber
  <2>3. k \in 0 .. N /\ ~ \E f : Is(f, k)
    OBVIOUS
  <2>4. k # 0
    BY <1>1, <2>3
  <2>5. k - 1 \in 0 .. N /\ ~ (k <= k - 1)
    BY <2>3, <2>4
  <2>6. k - 1 \notin Bad
    <3> HIDE DEF Bad
    <3> QED
      BY <2>2, <2>5
  <2>7. PICK f : Is(f, k - 1)
    BY <2>5, <2>6
  <2> QED
    BY <1>2, <2>3, <2>4, <2>7
<1>4. \A f : IsFrom(a, E, f) <=> f = [i \in 0 .. N |-> IF i = N THEN InsertedAt(E, i)
                                                      ELSE FromPlace(a, E, i, f[i + 1])]
  BY DEF IsFrom, FromPlace
<1>5. \E f : IsFrom(a, E, f)
  <2>1. N - N = 0
    OBVIOUS
  <2> QED
    BY <1>3, <1>4, <2>1
<1>6. PICK f : f = AllFrom(a, E)
  OBVIOUS
<1>7. IsFrom(a, E, f)
  <2>1. f = CHOOSE g : IsFrom(a, E, g)
    BY <1>6 DEF AllFrom
  <2> QED
    BY <1>5, <2>1
<1>8. f = [i \in 0 .. N |-> IF i = N THEN InsertedAt(E, i) ELSE FromPlace(a, E, i, f[i + 1])]
  BY <1>4, <1>7
<1>9. f[N] = InsertedAt(E, N) /\ \A i \in 0 .. N - 1 : f[i] = FromPlace(a, E, i, f[i + 1])
  <2>1. N \in 0 .. N /\ \A i \in 0 .. N - 1 : i \in 0 .. N /\ i # N
    OBVIOUS
  <2> QED
    BY <1>8, <2>1
<1>10. Expected(a, E) = AllFrom(a, E)[0]
  BY DEF Expected, AllFrom, IsFrom
<1> QED
  BY <1>6, <1>9, <1>10

(* Arrays put together and cut                                             *)
LEMMA Associative ==
  ASSUME NEW s \in Seq(Value), NEW t \in Seq(Value), NEW u \in Seq(Value)
  PROVE  (s \o t) \o u = s \o (t \o u)
BY ConcatAssociative

(* Two arrays put together are cut where the first one ends.               *)
LEMMA CutAt ==
  ASSUME NEW u \in Seq(Value), NEW v \in Seq(Value), NEW c, c = u \o v
  PROVE  SubSeq(c, 1, Len(u)) = u /\ SubSeq(c, Len(u) + 1, Len(c)) = v
<1>1. PICK m : m = Len(u)
  OBVIOUS
<1>2. PICK n : n = Len(v)
  OBVIOUS
<1>3. m \in Nat /\ n \in Nat
  BY <1>1, <1>2
<1>4. c \in Seq(Value) /\ Len(c) = m + n
  BY ONLY u \in Seq(Value), v \in Seq(Value), c = u \o v, <1>1, <1>2, Together
<1>5. \A k \in 1 .. m + n : c[k] = IF k <= m THEN u[k] ELSE v[k - m]
  BY ONLY u \in Seq(Value), v \in Seq(Value), c = u \o v, <1>1, <1>2, Together
<1>6. SubSeq(c, 1, m) = u
  <2>1. PICK t : t = SubSeq(c, 0 + 1, 0 + m)
    OBVIOUS
  <2>2. 0 + m = m /\ 0 + 1 = 1 /\ m <= Len(c) /\ \A k \in 1 .. m : 0 + k = k
    BY ONLY <1>3, <1>4
  <2>3. t \in Seq(Value) /\ Len(t) = m /\ \A k \in 1 .. m : t[k] = c[0 + k]
    BY ONLY <1>3, <1>4, <2>1, <2>2, 0 \in Nat, PartOf
  <2>4. \A k \in 1 .. m : k \in 1 .. m + n /\ k <= m
    BY ONLY <1>3
  <2>5. \A k \in 1 .. Len(t) : t[k] = u[k]
    BY ONLY <1>5, <2>2, <2>3, <2>4
  <2>6. t = u
    BY ONLY <1>1, <2>3, <2>5, u \in Seq(Value), SeqEqual
  <2> QED
    BY <2>1, <2>2, <2>6
<1>7. SubSeq(c, m + 1, m + n) = v
  <2>1. PICK t : t = SubSeq(c, m + 1, m + n)
    OBVIOUS
  <2>2. t \in Seq(Value) /\ Len(t) = n /\ \A k \in 1 .. n : t[k] = c[m + k]
    <3>1. m + n <= Len(c)
      BY ONLY <1>3, <1>4
    <3> QED
      BY ONLY <1>3, <1>4, <2>1, <3>1, PartOf
  <2>3. \A k \in 1 .. n : m + k \in 1 .. m + n /\ ~ (m + k <= m) /\ (m + k) - m = k
    BY ONLY <1>3
  <2>4. \A k \in 1 .. Len(t) : t[k] = v[k]
    BY ONLY <1>5, <2>2, <2>3
  <2>5. t = v
    BY ONLY <1>2, <2>2, <2>4, v \in Seq(Value), SeqEqual
  <2> QED
    BY <2>1, <2>5
<1> QED
  BY <1>1, <1>4, <1>6, <1>7

(* A part of an array is cut in two.                                       *)
LEMMA CutPart ==
  ASSUME NEW a \in Seq(Value), NEW i \in Nat, NEW m \in Nat, NEW n \in Nat, i <= m, m <= n, n <= Len(a)
  PROVE  /\ SubSeq(a, i + 1, m) \in Seq(Value) /\ Len(SubSeq(a, i + 1, m)) = m - i
         /\ SubSeq(a, i + 1, n) = SubSeq(a, i + 1, m) \o SubSeq(a, m + 1, n)
<1>1. PICK p : p = m - i
  OBVIOUS
<1>2. PICK q : q = n - m
  OBVIOUS
<1>3. p \in Nat /\ q \in Nat /\ p + q \in Nat /\ i + p = m /\ m + q = n /\ i + (p + q) = n
  BY ONLY <1>1, <1>2, i \in Nat, m \in Nat, n \in Nat, i <= m, m <= n
<1>4. m <= Len(a) /\ Len(a) \in Nat
  BY ONLY a \in Seq(Value), m \in Nat, n \in Nat, m <= n, n <= Len(a)
<1>5. PICK s : s = SubSeq(a, i + 1, m)
  OBVIOUS
<1>6. PICK t : t = SubSeq(a, m + 1, n)
  OBVIOUS
<1>7. PICK u : u = SubSeq(a, i + 1, n)
  OBVIOUS
<1>8. s \in Seq(Value) /\ Len(s) = p /\ \A k \in 1 .. p : s[k] = a[i + k]
  <2>1. s = SubSeq(a, i + 1, i + p) /\ i + p <= Len(a)
    BY <1>3, <1>4, <1>5
  <2> QED
    BY ONLY a \in Seq(Value), i \in Nat, <1>3, <2>1, PartOf
<1>9. t \in Seq(Value) /\ Len(t) = q /\ \A k \in 1 .. q : t[k] = a[m + k]
  <2>1. t = SubSeq(a, m + 1, m + q) /\ m + q <= Len(a)
    BY <1>3, <1>6
  <2> QED
    BY ONLY a \in Seq(Value), m \in Nat, <1>3, <2>1, PartOf
<1>10. u \in Seq(Value) /\ Len(u) = p + q /\ \A k \in 1 .. p + q : u[k] = a[i + k]
  <2>1. u = SubSeq(a, i + 1, i + (p + q)) /\ i + (p + q) <= Len(a)
    BY <1>3, <1>7
  <2> QED
    BY ONLY a \in Seq(Value), i \in Nat, <1>3, <2>1, PartOf
<1>11. PICK w : w = s \o t
  OBVIOUS
<1>12. w \in Seq(Value) /\ Len(w) = p + q
  BY ONLY <1>8, <1>9, <1>11, Together
<1>13. \A k \in 1 .. p + q : w[k] = IF k <= p THEN s[k] ELSE t[k - p]
  BY ONLY <1>8, <1>9, <1>11, Together
<1>14. \A k \in 1 .. p + q : u[k] = w[k]
  <2> TAKE k \in 1 .. p + q
  <2>1. CASE k <= p
    <3>1. k \in 1 .. p
      BY ONLY <1>3, <2>1, k \in 1 .. p + q
    <3> QED
      BY <1>8, <1>10, <1>13, <2>1, <3>1
  <2>2. CASE ~ (k <= p)
    <3>1. k - p \in 1 .. q /\ m + (k - p) = i + k
      BY ONLY <1>3, <2>2, k \in 1 .. p + q, i \in Nat, m \in Nat
    <3> QED
      BY <1>9, <1>10, <1>13, <2>2, <3>1
  <2> QED
    BY <2>1, <2>2
<1>15. u = w
  BY ONLY <1>10, <1>12, <1>14, SeqEqual
<1> QED
  BY <1>1, <1>5, <1>6, <1>7, <1>8, <1>11, <1>15

-----------------------------------------------------------------------------
(* How what is expected begins *)

Froms(a, E, N, F) ==
  /\ F[N] = InsertedAt(E, N)
  /\ \A i \in 0 .. N - 1 : F[i] = FromPlace(a, E, i, F[i + 1])

(* Before place i there is x.                                              *)
Begins(F, i, x) == x \in Seq(Value) /\ \A y \in Seq(Value) : y \in F[i] => x \o y \in F[0]

(* The same, when what is inserted at place i is there too                 *)
HasInserted(a, E, N, F, i, x) ==
  /\ x \in Seq(Value)
  /\ i = N => x \in F[0]
  /\ i < N => \A y \in Seq(Value) : y \in F[i + 1] => x \o (ElementAt(a, E, i) \o y) \in F[0]

(* Before place 0 there is nothing.                                        *)
LEMMA NothingBegins ==
  ASSUME NEW F
  PROVE  Begins(F, 0, << >>)
<1>1. \A y \in Seq(Value) : << >> \o y = y
  BY ConcatEmptySeq
<1> QED
  BY <1>1 DEF Begins

(* An element of what is expected from a place on                          *)
LEMMA FromPlaceHas ==
  ASSUME NEW a, NEW E, NEW i, NEW rest, NEW y \in rest, NEW o \in InsertedAt(E, i)
  PROVE  o \o (ElementAt(a, E, i) \o y) \in FromPlace(a, E, i, rest)
<1>1. PICK p : p = <<o, y>>
  OBVIOUS
<1>2. p \in InsertedAt(E, i) \X rest /\ p[1] = o /\ p[2] = y
  BY <1>1
<1>3. p[1] \o (ElementAt(a, E, i) \o p[2]) \in FromPlace(a, E, i, rest)
  BY <1>2 DEF FromPlace
<1> QED
  BY <1>2, <1>3

(* What is inserted at a place comes first,                                *)
LEMMA PutInserted ==
  ASSUME NEW a, NEW E, NEW N \in Nat, NEW F, Froms(a, E, N, F), NEW i \in 0 .. N, NEW x, Begins(F, i, x),
         NEW o \in Seq(Value), o \in InsertedAt(E, i), i < N => ElementAt(a, E, i) \in Seq(Value),
         NEW z, z = x \o o
  PROVE  HasInserted(a, E, N, F, i, z)
<1>1. x \in Seq(Value) /\ z \in Seq(Value)
  BY DEF Begins
<1>2. ASSUME i = N
      PROVE  z \in F[0]
  BY <1>2 DEF Begins, Froms
<1>3. ASSUME i < N, NEW y \in Seq(Value), y \in F[i + 1]
      PROVE  z \o (ElementAt(a, E, i) \o y) \in F[0]
  <2>1. PICK v : v = ElementAt(a, E, i) \o y
    OBVIOUS
  <2>2. v \in Seq(Value) /\ o \o v \in Seq(Value)
    <3>1. ElementAt(a, E, i) \in Seq(Value)
      BY <1>3
    <3> QED
      BY <1>3, <2>1, <3>1
  <2>3. o \o v \in F[i]
    <3>1. i \in 0 .. N - 1
      BY <1>3
    <3>2. F[i] = FromPlace(a, E, i, F[i + 1])
      BY <3>1 DEF Froms
    <3>3. o \o v \in FromPlace(a, E, i, F[i + 1])
      <4>1. o \o (ElementAt(a, E, i) \o y) \in FromPlace(a, E, i, F[i + 1])
        <5>1. y \in F[i + 1] /\ o \in InsertedAt(E, i)
          BY <1>3
        <5> QED
          BY ONLY <5>1, FromPlaceHas
      <4> QED
        BY <2>1, <4>1
    <3> QED
      BY <3>2, <3>3
  <2>4. x \o (o \o v) \in F[0]
    BY <2>2, <2>3 DEF Begins
  <2>5. z \o v = x \o (o \o v)
    <3>1. (x \o o) \o v = x \o (o \o v)
      BY ONLY <1>1, <2>2, o \in Seq(Value), Associative
    <3> QED
      BY <3>1
  <2> QED
    BY <2>1, <2>4, <2>5
<1> QED
  BY <1>1, <1>2, <1>3 DEF HasInserted

(* and then what is in place of its element.                               *)
LEMMA PutElement ==
  ASSUME NEW a, NEW E, NEW N \in Nat, NEW F, NEW i \in 0 .. N - 1, NEW x, HasInserted(a, E, N, F, i, x),
         NEW o \in Seq(Value), o = ElementAt(a, E, i), NEW z, z = x \o o
  PROVE  Begins(F, i + 1, z)
<1>1. x \in Seq(Value) /\ z \in Seq(Value) /\ i < N
  BY DEF HasInserted
<1>2. ASSUME NEW y \in Seq(Value), y \in F[i + 1]
      PROVE  z \o y \in F[0]
  <2>1. x \o (o \o y) \in F[0]
    BY <1>1, <1>2 DEF HasInserted
  <2>2. z \o y = x \o (o \o y)
    <3>1. (x \o o) \o y = x \o (o \o y)
      BY ONLY <1>1, <1>2, o \in Seq(Value), Associative
    <3> QED
      BY <3>1
  <2> QED
    BY <2>1, <2>2
<1> QED
  BY <1>1, <1>2 DEF Begins

NoneAt(E, kind, i) == ObjectsAt(E, kind, i) = {}

Covers(E, i) == \E e \in E : BeginsIn(Span(i, 1), e.range)

(* A place where nobody did anything                                       *)
LEMMA PutFree ==
  ASSUME NEW a \in Seq(Value), NEW E, NEW N, N = Len(a), NEW F, Froms(a, E, N, F), NEW i \in 0 .. N - 1,
         NEW x, Begins(F, i, x), NoneAt(E, "insertion", i), ~ Covers(E, i), NEW z, z = x \o <<a[i + 1]>>
  PROVE  Begins(F, i + 1, z)
<1>1. N \in Nat /\ i \in 0 .. N /\ i + 1 \in 1 .. Len(a)
  OBVIOUS
<1>2. PICK o : o = <<a[i + 1]>>
  OBVIOUS
<1>3. o = ElementAt(a, E, i) /\ o \in Seq(Value)
  <2>1. a[i + 1] \in Value
    BY <1>1
  <2>2. o \in Seq(Value)
    BY <1>2, <2>1
  <2>3. ElementAt(a, E, i) = <<a[i + 1]>>
    BY DEF ElementAt, Covers
  <2> QED
    BY <1>2, <2>2, <2>3
<1>4. << >> \in InsertedAt(E, i) /\ << >> \in Seq(Value)
  BY InsertedNone DEF NoneAt
<1>5. x = x \o << >>
  BY ConcatEmptySeq DEF Begins
<1>6. HasInserted(a, E, N, F, i, x)
  BY <1>1, <1>3, <1>4, <1>5, PutInserted
<1> QED
  BY <1>1, <1>2, <1>3, <1>6, PutElement

(* A place that was taken away                                             *)
LEMMA PutGone ==
  ASSUME NEW a \in Seq(Value), NEW E, NEW N, N = Len(a), NEW F, Froms(a, E, N, F), NEW i \in 0 .. N - 1,
         NEW x, Begins(F, i, x), NoneAt(E, "insertion", i), NoneAt(E, "modification", i), Covers(E, i)
  PROVE  Begins(F, i + 1, x)
<1>1. N \in Nat /\ i \in 0 .. N
  OBVIOUS
<1>2. ElementAt(a, E, i) = << >>
  BY ElementTaken DEF NoneAt, Covers
<1>3. << >> \in InsertedAt(E, i) /\ << >> \in Seq(Value)
  BY InsertedNone DEF NoneAt
<1>4. x = x \o << >>
  BY ConcatEmptySeq DEF Begins
<1>5. HasInserted(a, E, N, F, i, x)
  BY <1>1, <1>2, <1>3, <1>4, PutInserted
<1> QED
  BY <1>1, <1>2, <1>3, <1>4, <1>5, PutElement

(* One element, and none, of an array                                      *)
LEMMA OneElement ==
  ASSUME NEW a \in Seq(Value), NEW i \in Nat, i < Len(a)
  PROVE  SubSeq(a, i + 1, i + 1) = <<a[i + 1]>>
<1>1. PICK t : t = SubSeq(a, i + 1, i + 1)
  OBVIOUS
<1>2. i + 1 <= Len(a)
  OBVIOUS
<1>3. t \in Seq(Value) /\ Len(t) = 1 /\ \A k \in 1 .. 1 : t[k] = a[i + k]
  BY ONLY a \in Seq(Value), i \in Nat, 1 \in Nat, <1>1, <1>2, PartOf
<1>4. a[i + 1] \in Value
  BY <1>2
<1>5. PICK u : u = <<a[i + 1]>>
  OBVIOUS
<1>6. u \in Seq(Value) /\ Len(u) = 1 /\ u[1] = a[i + 1]
  BY <1>4, <1>5
<1>7. \A k \in 1 .. Len(t) : t[k] = u[k]
  BY <1>3, <1>6
<1>8. t = u
  BY ONLY <1>3, <1>6, <1>7, SeqEqual
<1> QED
  BY <1>1, <1>5, <1>8

(* An empty part of an array                                               *)
LEMMA NoElement ==
  ASSUME NEW a \in Seq(Value), NEW i \in Nat, i <= Len(a)
  PROVE  SubSeq(a, i + 1, i) = << >>
<1>1. PICK t : t = SubSeq(a, i + 1, i)
  OBVIOUS
<1>2. t \in Seq(Value) /\ Len(t) = 0
  <2>1. i - i = 0 /\ i <= i
    OBVIOUS
  <2> QED
    BY ONLY a \in Seq(Value), i \in Nat, i <= Len(a), <1>1, <2>1, CutPart
<1> QED
  BY <1>1, <1>2

(* Nobody did anything at the places from i to m.                          *)
AllFree(E, i, m) == \A j \in i .. m - 1 : NoneAt(E, "insertion", j) /\ ~ Covers(E, j)

(* Places where nobody did anything keep their elements.                   *)
LEMMA PutRun ==
  ASSUME NEW a \in Seq(Value), NEW E, NEW N, N = Len(a), NEW F, Froms(a, E, N, F), NEW i \in 0 .. N,
         NEW m \in i .. N, NEW x, Begins(F, i, x), AllFree(E, i, m), NEW z, z = x \o SubSeq(a, i + 1, m)
  PROVE  Begins(F, m, z)
<1>1. N \in Nat /\ i \in Nat /\ m \in Nat /\ i <= m /\ m <= N /\ x \in Seq(Value)
  BY DEF Begins
<1> DEFINE Good(q) == Begins(F, q, x \o SubSeq(a, i + 1, q))
<1>2. Good(i)
  <2>1. SubSeq(a, i + 1, i) = << >>
    BY <1>1, NoElement
  <2>2. x \o << >> = x
    BY <1>1, ConcatEmptySeq
  <2> QED
    BY <2>1, <2>2
<1>3. ASSUME NEW q \in i .. m - 1, Good(q)
      PROVE  Good(q + 1)
  <2>1. q \in Nat /\ q + 1 \in Nat /\ i <= q /\ q <= q + 1 /\ q + 1 <= Len(a) /\ q < Len(a) /\ q \in 0 .. N - 1
    BY <1>1
  <2>2. PICK s : s = SubSeq(a, i + 1, q)
    OBVIOUS
  <2>3. PICK w : w = <<a[q + 1]>>
    OBVIOUS
  <2>4. w = SubSeq(a, q + 1, q + 1)
    BY <2>1, <2>3, OneElement
  <2>5. s \in Seq(Value) /\ SubSeq(a, i + 1, q + 1) = s \o SubSeq(a, q + 1, q + 1)
    BY ONLY <1>1, <2>1, <2>2, a \in Seq(Value), CutPart
  <2>6. w \in Seq(Value)
    <3>1. q + 1 \in 1 .. Len(a)
      BY <2>1
    <3>2. a[q + 1] \in Value
      BY <3>1
    <3> QED
      BY <2>3, <3>2
  <2>7. x \o SubSeq(a, i + 1, q + 1) = (x \o s) \o w
    <3>1. (x \o s) \o w = x \o (s \o w)
      BY ONLY <1>1, <2>5, <2>6, Associative
    <3> QED
      BY <2>4, <2>5, <3>1
  <2>8. NoneAt(E, "insertion", q) /\ ~ Covers(E, q)
    BY <1>3 DEF AllFree
  <2>9. PICK y : y = x \o s
    OBVIOUS
  <2>10. Begins(F, q, y)
    BY <1>3, <2>2, <2>9
  <2>11. PICK v : v = y \o <<a[q + 1]>>
    OBVIOUS
  <2>12. Begins(F, q + 1, v)
    BY ONLY <2>1, <2>8, <2>10, <2>11, a \in Seq(Value), N = Len(a), Froms(a, E, N, F), PutFree
  <2> QED
    BY <2>3, <2>7, <2>9, <2>11, <2>12
<1> DEFINE Bad == {q \in i .. m : ~ Good(q)}
<1>4. ASSUME Bad # {}
      PROVE  FALSE
  <2> HIDE DEF Good
  <2>1. Bad \in SUBSET Nat
    BY <1>1
  <2>2. PICK q \in Bad : \A d \in Bad : q <= d
    <3> HIDE DEF Bad
    <3> QED
      BY <1>4, <2>1, LeastNumber
  <2>3. q \in i .. m /\ ~ Good(q)
    OBVIOUS
  <2>4. q # i
    BY <1>2, <2>3
  <2>5. q - 1 \in i .. m - 1 /\ q - 1 \in i .. m /\ ~ (q <= q - 1) /\ (q - 1) + 1 = q
    BY <1>1, <2>3, <2>4
  <2>6. q - 1 \notin Bad
    <3> HIDE DEF Bad
    <3> QED
      BY <2>2, <2>5
  <2>7. Good(q - 1)
    BY <2>5, <2>6
  <2>8. Good((q - 1) + 1)
    BY <1>3, <2>5, <2>7
  <2> QED
    BY <2>3, <2>5, <2>8
<1>5. Good(m)
  <2> HIDE DEF Good
  <2>1. m \in i .. m
    BY <1>1
  <2> QED
    BY <1>4, <2>1
<1> QED
  BY <1>5

(* The places from i to m were taken away, and nothing came there.         *)
AllGone(E, i, m) ==
  \A j \in i .. m - 1 : NoneAt(E, "insertion", j) /\ NoneAt(E, "modification", j) /\ Covers(E, j)

(* Places whose elements were taken away, but for the first, have          *)
(* nothing.                                                                *)
LEMMA PutNothing ==
  ASSUME NEW a \in Seq(Value), NEW E, NEW N, N = Len(a), NEW F, Froms(a, E, N, F), NEW i \in 0 .. N,
         NEW m \in i .. N, NEW x, Begins(F, i, x), AllGone(E, i, m)
  PROVE  Begins(F, m, x)
<1>1. N \in Nat /\ i \in Nat /\ m \in Nat /\ i <= m /\ m <= N
  OBVIOUS
<1> DEFINE Bad == {q \in i .. m : ~ Begins(F, q, x)}
<1>2. ASSUME Bad # {}
      PROVE  FALSE
  <2>1. Bad \in SUBSET Nat
    BY <1>1
  <2>2. PICK q \in Bad : \A d \in Bad : q <= d
    <3> HIDE DEF Bad
    <3> QED
      BY <1>2, <2>1, LeastNumber
  <2>3. q \in i .. m /\ ~ Begins(F, q, x)
    OBVIOUS
  <2>4. q # i
    BY <2>3
  <2>5. PICK p : p = q - 1
    OBVIOUS
  <2>6. p \in i .. m - 1 /\ p \in i .. m /\ p \in 0 .. N - 1 /\ ~ (q <= p) /\ p + 1 = q
    BY <1>1, <2>3, <2>4, <2>5
  <2>7. p \notin Bad
    <3> HIDE DEF Bad
    <3> QED
      BY <2>2, <2>6
  <2>8. Begins(F, p, x)
    BY <2>6, <2>7
  <2>9. NoneAt(E, "insertion", p) /\ NoneAt(E, "modification", p) /\ Covers(E, p)
    BY <2>6 DEF AllGone
  <2>10. Begins(F, p + 1, x)
    BY ONLY <2>6, <2>8, <2>9, a \in Seq(Value), N = Len(a), Froms(a, E, N, F), PutGone
  <2> QED
    BY <2>3, <2>6, <2>10
<1>3. m \in i .. m
  BY <1>1
<1> QED
  BY <1>2, <1>3

(* The places of edits that fit together                                   *)
IsPlaced(e, N) ==
  /\ e.range.location \in Nat /\ e.range.length \in Nat /\ e.objects \in Seq(Value)
  /\ End(e.range) = e.range.location + e.range.length
  /\ e.range.location + e.range.length <= N
  /\ e.kind = "insertion" <=> e.range.length = 0
  /\ e.kind = "deletion" => e.objects = << >>
  /\ e.kind \in SequenceEdit

(* Edits that fit together have a place in the array.                      *)
LEMMA FitFacts ==
  ASSUME NEW a, NEW E, Fits(a, E), NEW e \in E
  PROVE  IsPlaced(e, Len(a))
<1>1. e.range \in Spans /\ e.objects \in Seq(Value) /\ e.kind \in SequenceEdit /\ IsShaped(e) /\ End(e.range) <= Len(a)
  BY DEF Fits, Edits
<1>2. e.range.location \in Nat /\ e.range.length \in Nat
  BY <1>1 DEF Spans
<1> QED
  BY <1>1, <1>2 DEF IsPlaced, IsShaped, End

(* What is at a place, and what covers it                                  *)
LEMMA AtMeans ==
  ASSUME NEW E, NEW kind, NEW i
  PROVE  \A o : o \in ObjectsAt(E, kind, i) <=>
                  \E e \in E : e.kind = kind /\ e.range.location = i /\ e.objects = o
BY DEF ObjectsAt, OfKind

(* An edit covers a place that is in its range.                            *)
LEMMA CoversMeans ==
  ASSUME NEW E, NEW i \in Nat
  PROVE  Covers(E, i) <=> \E e \in E : e.range.location <= i /\ i < End(e.range)
<1>1. Span(i, 1).location = i /\ Span(i, 1).length = 1 /\ 1 > 0
  BY DEF Span
<1> QED
  BY <1>1 DEF Covers, BeginsIn

(* Up to place M, all edits are at L or before, and end at L + k.          *)
Elapsed(E, L, k, M) ==
  \A e \in E : \/ e.range.location <= L /\ End(e.range) <= L + k
               \/ e.range.location >= M

(* Nobody did anything between.                                            *)
LEMMA Untouched ==
  ASSUME NEW a, NEW E, Fits(a, E), NEW L \in Int, NEW k \in Nat, NEW M \in Nat, Elapsed(E, L, k, M),
         NEW i \in Nat, L + k <= i, i < M
  PROVE  ~ Covers(E, i) /\ (L < i => NoneAt(E, "insertion", i))
<1>1. ASSUME NEW e \in E, e.range.location <= i, i < End(e.range)
      PROVE  FALSE
  <2>1. PICK p : p = e.range.location
    OBVIOUS
  <2>2. PICK q : q = End(e.range)
    OBVIOUS
  <2>3. p \in Nat /\ q \in Nat
    BY <2>1, <2>2, FitFacts DEF IsPlaced
  <2>4. (p <= L /\ q <= L + k) \/ p >= M
    BY <2>1, <2>2 DEF Elapsed
  <2>5. p <= i /\ i < q
    BY <1>1, <2>1, <2>2
  <2> QED
    BY ONLY <2>3, <2>4, <2>5, L \in Int, k \in Nat, M \in Nat, i \in Nat, L + k <= i, i < M
<1>2. ASSUME L < i, ~ NoneAt(E, "insertion", i)
      PROVE  FALSE
  <2>1. PICK o : o \in ObjectsAt(E, "insertion", i)
    BY <1>2 DEF NoneAt
  <2>2. PICK e \in E : e.range.location = i
    BY <2>1, AtMeans
  <2>3. i <= L \/ i >= M
    BY <2>2 DEF Elapsed
  <2> QED
    BY ONLY <1>2, <2>3, L \in Int, M \in Nat, i \in Nat, i < M
<1> QED
  BY <1>1, <1>2, CoversMeans

(* A place where elements are taken away                                   *)
LEMMA TakenAt ==
  ASSUME NEW a, Len(a) \in Nat, NEW E, Fits(a, E), NEW t \in E, t.kind # "insertion", NEW M, M = t.range.location,
         NEW l, l = t.range.length
  PROVE  ElementAt(a, E, M) = t.objects /\ AllGone(E, M + 1, M + l)
<1>1. /\ M \in Nat /\ l \in Nat /\ l # 0 /\ End(t.range) = M + l /\ t.kind \in {"deletion", "modification"}
      /\ t.kind = "deletion" => t.objects = << >>
  BY FitFacts DEF IsPlaced, SequenceEdit
<1>2. ASSUME NEW i \in M .. M + l - 1
      PROVE  Covers(E, i)
  <2>1. i \in Nat /\ M <= i /\ i < M + l
    BY <1>1
  <2>2. t.range.location <= i /\ i < End(t.range)
    BY <1>1, <2>1
  <2> QED
    BY <2>1, <2>2, CoversMeans
<1>3. ElementAt(a, E, M) = t.objects
  <2>1. \E e \in E : BeginsIn(Span(M, 1), e.range)
    <3>1. M \in M .. M + l - 1
      BY <1>1
    <3> QED
      BY <1>2, <3>1 DEF Covers
  <2>2. ASSUME NEW e \in E, e.kind = "modification", e.range.location = M
        PROVE  t.kind = "modification" /\ e.objects = t.objects
    <3>1. Starts(e, t)
      BY <2>2 DEF Starts
    <3>2. Same(e, t)
      BY <2>2, <3>1 DEF Fits
    <3> QED
      BY <2>2, <3>2 DEF Same
  <2>3. PICK O : O = ObjectsAt(E, "modification", M)
    OBVIOUS
  <2>4. \A o : o \in O <=> \E e \in E : e.kind = "modification" /\ e.range.location = M /\ e.objects = o
    BY <2>3, AtMeans
  <2>5. CASE t.kind = "modification"
    <3>1. O = {t.objects}
      <4>1. \A o : o \in O <=> o = t.objects
        BY <2>2, <2>4, <2>5
      <4> QED
        BY <4>1, SetExtensionality
    <3> QED
      BY <2>1, <2>3, <3>1, ElementTaken
  <2>6. CASE t.kind = "deletion"
    <3>1. O = {}
      BY <2>2, <2>4, <2>6
    <3>2. ElementAt(a, E, M) = << >>
      BY <2>1, <2>3, <3>1, ElementTaken
    <3> QED
      BY <1>1, <2>6, <3>2
  <2> QED
    BY <1>1, <2>5, <2>6
<1>4. ASSUME NEW i \in M + 1 .. M + l - 1, NEW e \in E, e.range.location = i
      PROVE  FALSE
  <2>1. M < i /\ ~ (M + l <= i)
    BY <1>1
  <2>2. End(t.range) <= i
    BY <1>4, <2>1 DEF Fits
  <2> QED
    BY <1>1, <2>1, <2>2
<1>5. \A i \in M + 1 .. M + l - 1 : NoneAt(E, "insertion", i) /\ NoneAt(E, "modification", i)
  BY <1>4, AtMeans DEF NoneAt
<1>6. \A i \in M + 1 .. M + l - 1 : i \in M .. M + l - 1
  BY <1>1
<1>7. \A i \in M + 1 .. M + l - 1 : Covers(E, i)
  BY <1>2, <1>6
<1>8. AllGone(E, M + 1, M + l)
  <2>1. M + l - 1 = (M + l) - 1
    BY <1>1
  <2> QED
    BY <1>5, <1>7, <2>1 DEF AllGone
<1> QED
  BY <1>3, <1>8

(* A place where none are                                                  *)
LEMMA NotTakenAt ==
  ASSUME NEW a, NEW E, Fits(a, E), NEW L \in Int, NEW k \in Nat, NEW M \in Nat, Elapsed(E, L, k, M), L + k <= M,
         \A e \in E : e.range.location = M => e.kind = "insertion"
  PROVE  ~ Covers(E, M)
<1>1. ASSUME NEW e \in E, e.range.location <= M, M < End(e.range)
      PROVE  FALSE
  <2>1. PICK p : p = e.range.location
    OBVIOUS
  <2>2. PICK l : l = e.range.length
    OBVIOUS
  <2>3. p \in Nat /\ l \in Nat /\ End(e.range) = p + l /\ (e.kind = "insertion" => l = 0)
    BY <2>1, <2>2, FitFacts DEF IsPlaced
  <2>4. (p <= L /\ p + l <= L + k) \/ p >= M
    BY <2>1, <2>3 DEF Elapsed
  <2>5. p <= M /\ M < p + l
    BY <1>1, <2>1, <2>3
  <2>6. p = M => l = 0
    BY <2>1, <2>3
  <2> QED
    BY ONLY <2>3, <2>4, <2>5, <2>6, L \in Int, k \in Nat, M \in Nat, L + k <= M
<1> QED
  BY <1>1, CoversMeans

(* What an edit makes of an array                                          *)
IsPut(r, array, shift, nextShift, last) ==
  r.raised = FALSE /\ r.array = array /\ r.shift = shift /\ r.nextShift = nextShift /\ r.lastStart = last

(* An edit replaces what is at its place, moved by the shift.              *)
LEMMA EditPut ==
  ASSUME NEW r, r.raised = FALSE, NEW u \in Seq(Value), NEW g \in Seq(Value), NEW v \in Seq(Value),
         r.array = u \o (g \o v), NEW e, NEW o \in Seq(Value), e.objects = o, NEW M \in Nat, e.range.location = M,
         NEW l, l = Len(g), e.range.length = l, NEW S \in Int, ShiftAt(r, e) = S, M + S = Len(u),
         NEW n \in Int, r.nextShift = n, NEW r2, r2 = ApplyEdit(r, e)
  PROVE  IsPut(r2, (u \o o) \o v, S, n + Len(o) - l, M)
<1>1. PICK c : c = r.array
  OBVIOUS
<1>2. PICK y : y = Len(u)
  OBVIOUS
<1>3. y \in Nat /\ l \in Nat /\ Len(o) \in Nat /\ Len(v) \in Nat
  BY <1>2
<1>4. PICK w : w = u \o g
  OBVIOUS
<1>5. w \in Seq(Value) /\ Len(w) = y + l
  BY ONLY u \in Seq(Value), g \in Seq(Value), l = Len(g), <1>2, <1>4, Together
<1>6. PICK h : h = g \o v
  OBVIOUS
<1>7. h \in Seq(Value) /\ c = u \o h /\ c = w \o v
  <2>1. h \in Seq(Value)
    BY ONLY g \in Seq(Value), v \in Seq(Value), <1>6, Together
  <2>2. c = u \o h
    BY <1>1, <1>6
  <2>3. (u \o g) \o v = u \o (g \o v)
    BY ONLY u \in Seq(Value), g \in Seq(Value), v \in Seq(Value), Associative
  <2> QED
    BY <1>4, <1>6, <2>1, <2>2, <2>3
<1>8. c \in Seq(Value) /\ Len(c) = (y + l) + Len(v)
  <2>1. c = w \o v
    BY <1>7
  <2>2. c \in Seq(Value) /\ Len(c) = Len(w) + Len(v)
    BY ONLY <1>5, <2>1, v \in Seq(Value), Together
  <2> QED
    BY <1>5, <2>2
<1>9. SubSeq(c, 1, y) = u
  <2>1. c = u \o h /\ h \in Seq(Value)
    BY <1>7
  <2>2. SubSeq(c, 1, Len(u)) = u
    BY ONLY <2>1, u \in Seq(Value), CutAt
  <2> QED
    BY <1>2, <2>2
<1>10. SubSeq(c, (y + l) + 1, Len(c)) = v
  <2>1. SubSeq(c, Len(w) + 1, Len(c)) = v
    BY ONLY <1>5, <1>7, v \in Seq(Value), CutAt
  <2> QED
    BY <1>5, <2>1
<1>11. PICK at : at = Span(e.range.location + ShiftAt(r, e), e.range.length)
  OBVIOUS
<1>12. at.location = y /\ at.length = l /\ End(at) = y + l
  <2>1. at = Span(y, l)
    BY <1>2, <1>11
  <2> QED
    BY <2>1 DEF Span, End
<1>13. PICK new : new = Sub(c, Span(0, at.location)) \o o \o Sub(c, Span(End(at), Len(c) - End(at)))
  OBVIOUS
<1>14. new = (u \o o) \o v
  <2>1. /\ Span(0, y).location = 0 /\ End(Span(0, y)) = y
        /\ Span(y + l, Len(c) - (y + l)).location = y + l
        /\ End(Span(y + l, Len(c) - (y + l))) = Len(c)
    BY <1>3, <1>8 DEF Span, End
  <2>2. new = SubSeq(c, 1, y) \o o \o SubSeq(c, (y + l) + 1, Len(c))
    BY <1>12, <1>13, <2>1, 0 + 1 = 1 DEF Sub
  <2> QED
    BY <1>9, <1>10, <2>2
<1>15. r2 = [array     |-> new,
              shift     |-> ShiftAt(r, e),
              nextShift |-> r.nextShift + Len(e.objects) - at.length,
              lastStart |-> e.range.location,
              raised    |-> FALSE]
  <2>1. ~ (at.location < 0) /\ ~ (End(at) > Len(c))
    BY <1>3, <1>8, <1>12
  <2>2. ~ (r.raised \/ at.location < 0 \/ End(at) > Len(r.array))
    BY <1>1, <2>1
  <2> QED
    BY <1>1, <1>11, <1>13, <2>2 DEF ApplyEdit
<1> QED
  BY <1>12, <1>14, <1>15 DEF IsPut

-----------------------------------------------------------------------------
(* The state of the application when the last edit was at place L and took *)
(* k elements: they and those before have become out and mid, of which out *)
(* is what was before L.  (k is 1 at the start, for the place before all.) *)
Holds(a, r, out, mid, L, k) ==
  /\ L \in Nat \cup {-1} /\ k \in Nat /\ L + k \in 0 .. Len(a)
  /\ out \in Seq(Value) /\ mid \in Seq(Value)
  /\ r.raised = FALSE /\ r.lastStart = L
  /\ r.array = (out \o mid) \o SubSeq(a, L + k + 1, Len(a))
  /\ r.shift \in Int /\ r.nextShift \in Int
  /\ r.nextShift + (L + k) = Len(out) + Len(mid)
  /\ L # -1 => r.shift + L = Len(out)

(* At the start nothing was made of the array.                             *)
LEMMA HoldsFirst ==
  ASSUME NEW a \in Seq(Value)
  PROVE  Holds(a, NoneApplied(a), << >>, << >>, -1, 1)
<1>1. PICK r : r = NoneApplied(a)
  OBVIOUS
<1>2. r.array = a /\ r.shift = 0 /\ r.nextShift = 0 /\ r.lastStart = -1 /\ r.raised = FALSE
  BY <1>1 DEF NoneApplied
<1>3. PICK n : n = Len(a)
  OBVIOUS
<1>4. n \in Nat /\ -1 + 1 = 0 /\ -1 + 1 + 1 = 1 /\ 0 \in 0 .. n
  BY <1>3
<1>5. PICK t : t = SubSeq(a, 1, n)
  OBVIOUS
<1>6. t = a
  <2>1. PICK e : e = << >>
    OBVIOUS
  <2>2. e \in Seq(Value) /\ a = e \o a /\ Len(e) = 0
    BY <2>1, ConcatEmptySeq
  <2>3. SubSeq(a, Len(e) + 1, Len(a)) = a
    BY ONLY <2>2, a \in Seq(Value), CutAt
  <2>4. Len(e) + 1 = 1
    BY <2>2
  <2> QED
    BY <1>3, <1>5, <2>3, <2>4
<1>7. << >> \in Seq(Value) /\ (<< >> \o << >>) \o t = t /\ Len(<< >>) = 0
  <2>1. << >> \o << >> = << >>
    BY ConcatEmptySeq
  <2>2. << >> \o t = t
    BY <1>6, ConcatEmptySeq
  <2> QED
    BY <2>1, <2>2
<1>8. 0 + 0 = 0 + 0
  OBVIOUS
<1> QED
  BY <1>1, <1>2, <1>3, <1>4, <1>5, <1>6, <1>7 DEF Holds

(* An edit at a later place                                                *)
LEMMA NextPlace ==
  ASSUME NEW a \in Seq(Value), NEW r, NEW out, NEW mid, NEW L, NEW k, Holds(a, r, out, mid, L, k),
         NEW e, IsPlaced(e, Len(a)), NEW M, M = e.range.location, L < M, L + k <= M,
         NEW r2, r2 = ApplyEdit(r, e), NEW x, x = (out \o mid) \o SubSeq(a, L + k + 1, M)
  PROVE  Holds(a, r2, x, e.objects, M, e.range.length)
<1>1. /\ L \in Nat \cup {-1} /\ k \in Nat /\ L + k \in 0 .. Len(a)
      /\ out \in Seq(Value) /\ mid \in Seq(Value)
      /\ r.raised = FALSE /\ r.lastStart = L
      /\ r.array = (out \o mid) \o SubSeq(a, L + k + 1, Len(a))
      /\ r.nextShift \in Int
      /\ r.nextShift + (L + k) = Len(out) + Len(mid)
  BY DEF Holds
<1>2. PICK l : l = e.range.length
  OBVIOUS
<1>3. PICK o : o = e.objects
  OBVIOUS
<1>4. PICK N : N = Len(a)
  OBVIOUS
<1>5. M \in Nat /\ l \in Nat /\ o \in Seq(Value) /\ M + l <= N /\ N \in Nat /\ Len(o) \in Nat
  BY <1>2, <1>3, <1>4 DEF IsPlaced
<1>6. PICK p : p = L + k
  OBVIOUS
<1>7. p \in Nat /\ p <= M /\ L \in Int /\ M + l \in Nat /\ M <= M + l /\ p <= N /\ M <= N
  BY ONLY <1>1, <1>4, <1>5, <1>6, L + k <= M
<1>8. PICK y : y = out \o mid
  OBVIOUS
<1>9. y \in Seq(Value) /\ Len(y) = Len(out) + Len(mid)
  BY ONLY <1>1, <1>8, Together
<1>10. PICK s : s = SubSeq(a, p + 1, M)
  OBVIOUS
<1>11. PICK h : h = SubSeq(a, M + 1, N)
  OBVIOUS
<1>12. PICK g : g = SubSeq(a, M + 1, M + l)
  OBVIOUS
<1>13. PICK v : v = SubSeq(a, (M + l) + 1, N)
  OBVIOUS
<1>14. s \in Seq(Value) /\ Len(s) = M - p /\ SubSeq(a, p + 1, N) = s \o h
  <2>1. N <= Len(a)
    BY <1>4, <1>5
  <2>2. /\ SubSeq(a, p + 1, M) \in Seq(Value) /\ Len(SubSeq(a, p + 1, M)) = M - p
        /\ SubSeq(a, p + 1, N) = SubSeq(a, p + 1, M) \o SubSeq(a, M + 1, N)
    BY ONLY <1>5, <1>7, <2>1, a \in Seq(Value), CutPart
  <2> QED
    BY <1>10, <1>11, <2>2
<1>15. g \in Seq(Value) /\ Len(g) = l /\ h = g \o v
  <2>1. N <= Len(a) /\ (M + l) - M = l
    BY <1>4, <1>5
  <2>2. /\ SubSeq(a, M + 1, M + l) \in Seq(Value) /\ Len(SubSeq(a, M + 1, M + l)) = (M + l) - M
        /\ SubSeq(a, M + 1, N) = SubSeq(a, M + 1, M + l) \o SubSeq(a, (M + l) + 1, N)
    BY ONLY <1>5, <1>7, <2>1, a \in Seq(Value), CutPart
  <2> QED
    BY <1>11, <1>12, <1>13, <2>1, <2>2
<1>16. h \in Seq(Value) /\ v \in Seq(Value)
  <2>1. N <= N
    BY <1>5
  <2> QED
    BY ONLY <1>4, <1>5, <1>7, <1>11, <1>13, <2>1, a \in Seq(Value), CutPart
<1>17. x = y \o s /\ x \in Seq(Value) /\ Len(x) = Len(y) + Len(s)
  <2>1. x = y \o s
    BY <1>6, <1>8, <1>10
  <2> QED
    BY ONLY <1>9, <1>14, <2>1, Together
<1>18. r.array = x \o (g \o v)
  <2>1. r.array = y \o (s \o h)
    BY <1>1, <1>4, <1>6, <1>8, <1>14
  <2>2. (y \o s) \o h = y \o (s \o h)
    BY ONLY <1>9, <1>14, <1>16, Associative
  <2> QED
    BY <1>15, <1>17, <2>1, <2>2
<1>19. PICK n : n = r.nextShift
  OBVIOUS
<1>20. ShiftAt(r, e) = n
  <2>1. M # r.lastStart
    BY ONLY <1>1, <1>5, L < M
  <2> QED
    BY <1>19, <2>1 DEF ShiftAt
<1>21. n \in Int /\ M + n = Len(x) /\ l = Len(g)
  <2>1. Len(out) \in Nat /\ Len(mid) \in Nat
    BY ONLY <1>1
  <2>2. n + p = Len(out) + Len(mid) /\ n \in Int
    BY <1>1, <1>6, <1>19
  <2> QED
    BY ONLY <1>5, <1>7, <1>9, <1>14, <1>15, <1>17, <2>1, <2>2
<1>22. IsPut(r2, (x \o o) \o v, n, n + Len(o) - l, M)
  BY ONLY <1>1, <1>2, <1>3, <1>5, <1>15, <1>16, <1>17, <1>18, <1>19, <1>20, <1>21, M = e.range.location,
     r2 = ApplyEdit(r, e), EditPut
<1>23. (n + Len(o) - l) + (M + l) = Len(x) + Len(o) /\ n + Len(o) - l \in Int /\ M + l \in 0 .. N
  <2>1. Len(x) \in Nat
    BY <1>17
  <2> QED
    BY ONLY <1>5, <1>21, <2>1
<1>24. n + M = Len(x)
  BY ONLY <1>5, <1>21
<1> QED
  BY <1>2, <1>3, <1>4, <1>5, <1>13, <1>17, <1>21, <1>22, <1>23, <1>24 DEF Holds, IsPut

(* An insertion at the same place                                          *)
LEMMA SamePlace ==
  ASSUME NEW a \in Seq(Value), NEW r, NEW out, NEW mid, NEW L, NEW k, Holds(a, r, out, mid, L, k), L # -1,
         NEW e, IsPlaced(e, Len(a)), e.kind = "insertion", e.range.location = L,
         NEW r2, r2 = ApplyEdit(r, e), NEW m, m = e.objects \o mid
  PROVE  Holds(a, r2, out, m, L, k)
<1>1. /\ L \in Nat /\ k \in Nat /\ L + k \in 0 .. Len(a)
      /\ out \in Seq(Value) /\ mid \in Seq(Value)
      /\ r.raised = FALSE /\ r.lastStart = L
      /\ r.array = (out \o mid) \o SubSeq(a, L + k + 1, Len(a))
      /\ r.nextShift \in Int /\ r.shift \in Int
      /\ r.nextShift + (L + k) = Len(out) + Len(mid)
      /\ r.shift + L = Len(out)
  BY DEF Holds
<1>2. PICK o : o = e.objects
  OBVIOUS
<1>3. o \in Seq(Value) /\ e.range.length = 0
  BY <1>2 DEF IsPlaced
<1>4. PICK N : N = Len(a)
  OBVIOUS
<1>5. PICK t : t = SubSeq(a, L + k + 1, N)
  OBVIOUS
<1>6. t \in Seq(Value)
  <2>1. L + k \in Nat /\ N \in Nat /\ L + k <= N /\ N <= N
    BY <1>1, <1>4
  <2> QED
    BY ONLY <1>4, <1>5, <2>1, a \in Seq(Value), CutPart
<1>7. PICK v : v = mid \o t
  OBVIOUS
<1>8. v \in Seq(Value)
  BY ONLY <1>1, <1>6, <1>7, Together
<1>9. PICK g : g = << >>
  OBVIOUS
<1>10. g \in Seq(Value) /\ Len(g) = 0 /\ g \o v = v
  BY <1>8, <1>9, ConcatEmptySeq
<1>11. r.array = out \o (g \o v)
  <2>1. (out \o mid) \o t = out \o (mid \o t)
    BY ONLY <1>1, <1>6, Associative
  <2> QED
    BY <1>1, <1>4, <1>5, <1>7, <1>10, <2>1
<1>12. PICK S : S = r.shift
  OBVIOUS
<1>13. PICK n : n = r.nextShift
  OBVIOUS
<1>14. ShiftAt(r, e) = S /\ S \in Int /\ n \in Int /\ L + S = Len(out) /\ S + L = Len(out)
  <2>1. ShiftAt(r, e) = S
    BY <1>1, <1>12 DEF ShiftAt
  <2>2. L + S = S + L
    BY <1>1, <1>12
  <2> QED
    BY <1>1, <1>12, <1>13, <2>1, <2>2
<1>15. PICK l : l = Len(g)
  OBVIOUS
<1>16. e.range.length = l /\ l = 0
  BY <1>3, <1>10, <1>15
<1>17. IsPut(r2, (out \o o) \o v, S, n + Len(o) - l, L)
  BY ONLY <1>1, <1>2, <1>3, <1>8, <1>10, <1>11, <1>13, <1>14, <1>15, <1>16, e.range.location = L,
     r2 = ApplyEdit(r, e), EditPut
<1>18. m = o \o mid /\ m \in Seq(Value) /\ Len(m) = Len(o) + Len(mid)
  <2>1. m = o \o mid
    BY <1>2
  <2> QED
    BY ONLY <1>1, <1>3, <2>1, Together
<1>19. (out \o o) \o v = (out \o m) \o t
  <2>1. (out \o o) \o v = out \o (o \o v)
    BY ONLY <1>1, <1>3, <1>8, Associative
  <2>2. o \o v = (o \o mid) \o t
    <3>1. (o \o mid) \o t = o \o (mid \o t)
      BY ONLY <1>1, <1>3, <1>6, Associative
    <3> QED
      BY <1>7, <3>1
  <2>3. (out \o m) \o t = out \o (m \o t)
    BY ONLY <1>1, <1>6, <1>18, Associative
  <2> QED
    BY <1>18, <2>1, <2>2, <2>3
<1>20. (n + Len(o) - l) + (L + k) = Len(out) + Len(m) /\ n + Len(o) - l \in Int
  <2>1. Len(out) \in Nat /\ Len(mid) \in Nat /\ Len(o) \in Nat
    BY <1>1, <1>3
  <2>2. n + (L + k) = Len(out) + Len(mid)
    BY <1>1, <1>13
  <2>3. Len(m) = Len(o) + Len(mid) /\ l = 0 /\ n \in Int /\ L \in Nat /\ k \in Nat
    BY ONLY <1>1, <1>14, <1>16, <1>18
  <2> QED
    BY ONLY <2>1, <2>2, <2>3
<1> QED
  BY <1>1, <1>4, <1>5, <1>14, <1>17, <1>18, <1>19, <1>20 DEF Holds, IsPut

(* What is expected begins with x, which is made of what was before L, of  *)
(* the edits at L, and of what comes in place of the k elements there.     *)
Comes(a, E, N, F, L, k, x) ==
  IF k = 0 THEN HasInserted(a, E, N, F, L, x) ELSE Begins(F, L + k, x)

(* An element that no edit takes away stays.                               *)
LEMMA Kept ==
  ASSUME NEW a, NEW E, NEW i, ~ Covers(E, i)
  PROVE  ElementAt(a, E, i) = <<a[i + 1]>>
BY DEF ElementAt, Covers

(* On to the place of the next edits                                       *)
LEMMA Advance ==
  ASSUME NEW a \in Seq(Value), NEW E, Fits(a, E), NEW N, N = Len(a), NEW F, Froms(a, E, N, F),
         NEW L \in Int, NEW k \in Nat, L + k \in Nat, NEW M \in 0 .. N, L < M, L + k <= M, Elapsed(E, L, k, M),
         NEW x, Comes(a, E, N, F, L, k, x), NEW z, z = x \o SubSeq(a, L + k + 1, M)
  PROVE  Begins(F, M, z)
<1>1. N \in Nat /\ M \in Nat /\ M <= N
  OBVIOUS
<1>2. CASE k # 0
  <2>1. PICK p : p = L + k
    OBVIOUS
  <2>2. p \in Nat /\ p <= M /\ L < p /\ p \in 0 .. N /\ M \in p .. N
    BY ONLY <1>1, <1>2, <2>1, L \in Int, k \in Nat, L + k \in Nat, L + k <= M
  <2>3. Begins(F, p, x)
    BY <1>2, <2>1 DEF Comes
  <2>4. AllFree(E, p, M)
    <3> SUFFICES ASSUME NEW i \in p .. M - 1
                 PROVE  NoneAt(E, "insertion", i) /\ ~ Covers(E, i)
      BY DEF AllFree
    <3>1. i \in Nat /\ L + k <= i /\ i < M /\ L < i
      BY ONLY <1>1, <2>1, <2>2, i \in p .. M - 1, L \in Int
    <3> QED
      BY <1>1, <3>1, Untouched
  <2>5. z = x \o SubSeq(a, p + 1, M)
    BY <2>1
  <2> QED
    BY ONLY a \in Seq(Value), N = Len(a), Froms(a, E, N, F), <2>2, <2>3, <2>4, <2>5, PutRun
<1>3. CASE k = 0
  <2>1. L \in Nat /\ L < N /\ L \in 0 .. N - 1 /\ L + k = L /\ L + k + 1 = L + 1 /\ L + 1 <= M /\ L + 1 \in 0 .. N
        /\ M \in L + 1 .. N /\ L + 1 \in Nat
    BY ONLY <1>1, <1>3, L \in Int, L + k \in Nat, L < M
  <2>2. HasInserted(a, E, N, F, L, x)
    BY <1>3 DEF Comes
  <2>3. ~ Covers(E, L)
    BY <1>1, <2>1, Untouched
  <2>4. PICK o : o = ElementAt(a, E, L)
    OBVIOUS
  <2>5. o = <<a[L + 1]>> /\ o = SubSeq(a, L + 1, L + 1)
    <3>1. SubSeq(a, L + 1, L + 1) = <<a[L + 1]>>
      BY <2>1, OneElement
    <3> QED
      BY <2>3, <2>4, <3>1, Kept
  <2>6. PICK t : t = SubSeq(a, (L + 1) + 1, M)
    OBVIOUS
  <2>7. o \in Seq(Value) /\ SubSeq(a, L + 1, M) = o \o t
    <3>1. M <= Len(a) /\ L <= L + 1
      BY <1>1, <2>1
    <3>2. /\ SubSeq(a, L + 1, L + 1) \in Seq(Value)
          /\ SubSeq(a, L + 1, M) = SubSeq(a, L + 1, L + 1) \o SubSeq(a, (L + 1) + 1, M)
      BY ONLY <1>1, <2>1, <3>1, a \in Seq(Value), CutPart
    <3> QED
      BY <2>5, <2>6, <3>2
  <2>8. t \in Seq(Value)
    <3>1. M <= Len(a) /\ M <= M
      BY <1>1
    <3> QED
      BY ONLY <1>1, <2>1, <2>6, <3>1, a \in Seq(Value), CutPart
  <2>9. PICK y : y = x \o o
    OBVIOUS
  <2>10. Begins(F, L + 1, y)
    BY ONLY <1>1, <2>1, <2>2, <2>4, <2>7, <2>9, PutElement
  <2>11. AllFree(E, L + 1, M)
    <3> SUFFICES ASSUME NEW i \in L + 1 .. M - 1
                 PROVE  NoneAt(E, "insertion", i) /\ ~ Covers(E, i)
      BY DEF AllFree
    <3>1. i \in Nat /\ L + k <= i /\ i < M /\ L < i
      BY ONLY <1>1, <2>1, i \in L + 1 .. M - 1
    <3> QED
      BY <1>1, <3>1, Untouched
  <2>12. PICK v : v = y \o SubSeq(a, (L + 1) + 1, M)
    OBVIOUS
  <2>13. Begins(F, M, v)
    BY ONLY a \in Seq(Value), N = Len(a), Froms(a, E, N, F), <2>1, <2>10, <2>11, <2>12, PutRun
  <2>14. z = v
    <3>1. z = x \o (o \o t)
      BY <2>1, <2>7
    <3>2. x \in Seq(Value)
      BY <2>2 DEF HasInserted
    <3>3. (x \o o) \o t = x \o (o \o t)
      BY ONLY <2>7, <2>8, <3>2, Associative
    <3> QED
      BY <2>6, <2>9, <2>12, <3>1, <3>3
  <2> QED
    BY <2>13, <2>14
<1> QED
  BY <1>2, <1>3

(* The edits of a place: insertions only, or such that take elements away  *)
LEMMA PlaceKept ==
  ASSUME NEW a \in Seq(Value), NEW E, NEW N, N = Len(a), NEW F, Froms(a, E, N, F), NEW M \in 0 .. N,
         ~ Covers(E, M), NEW x, Begins(F, M, x), NEW u \in Seq(Value), u \in InsertedAt(E, M),
         NEW z, z = x \o u
  PROVE  Comes(a, E, N, F, M, 0, z)
<1>1. N \in Nat
  OBVIOUS
<1>2. M < N => ElementAt(a, E, M) \in Seq(Value)
  <2> SUFFICES ASSUME M < N
               PROVE  ElementAt(a, E, M) \in Seq(Value)
    OBVIOUS
  <2>1. M + 1 \in 1 .. Len(a)
    OBVIOUS
  <2>2. a[M + 1] \in Value
    BY <2>1
  <2>3. ElementAt(a, E, M) = <<a[M + 1]>>
    BY Kept
  <2>4. <<a[M + 1]>> \in Seq(Value)
    BY ONLY <2>2
  <2> QED
    BY <2>3, <2>4
<1>3. HasInserted(a, E, N, F, M, z)
  BY <1>1, <1>2, PutInserted
<1> QED
  BY <1>3 DEF Comes

(* The edits of a place of which one takes elements away                   *)
LEMMA PlaceTaken ==
  ASSUME NEW a \in Seq(Value), NEW E, Fits(a, E), NEW N, N = Len(a), NEW F, Froms(a, E, N, F),
         NEW t \in E, t.kind # "insertion", NEW M, M = t.range.location, NEW l, l = t.range.length,
         NEW x, Begins(F, M, x), NEW u \in Seq(Value), u \in InsertedAt(E, M),
         NEW z, z = x \o (u \o t.objects)
  PROVE  Comes(a, E, N, F, M, l, z)
<1>1. N \in Nat
  OBVIOUS
<1>2. M \in Nat /\ l \in Nat /\ l # 0 /\ M + l <= N /\ t.objects \in Seq(Value)
  BY FitFacts DEF IsPlaced
<1>3. PICK o : o = t.objects
  OBVIOUS
<1>4. /\ M \in 0 .. N - 1 /\ M \in 0 .. N /\ M + 1 \in 0 .. N /\ M + l \in M + 1 .. N /\ o \in Seq(Value)
  BY ONLY <1>1, <1>2, <1>3
<1>5. o = ElementAt(a, E, M) /\ AllGone(E, M + 1, M + l)
  BY <1>1, <1>3, TakenAt
<1>6. PICK y : y = x \o u
  OBVIOUS
<1>7. HasInserted(a, E, N, F, M, y)
  <2>1. M < N => ElementAt(a, E, M) \in Seq(Value)
    BY <1>4, <1>5
  <2> QED
    BY ONLY <1>1, <1>4, <1>6, <2>1, Froms(a, E, N, F), Begins(F, M, x), u \in Seq(Value), u \in InsertedAt(E, M),
       PutInserted
<1>8. PICK v : v = y \o o
  OBVIOUS
<1>9. Begins(F, M + 1, v)
  BY ONLY <1>1, <1>4, <1>5, <1>7, <1>8, PutElement
<1>10. Begins(F, M + l, v)
  BY ONLY <1>4, <1>5, <1>9, a \in Seq(Value), N = Len(a), Froms(a, E, N, F), PutNothing
<1>11. v = z
  <2>1. x \in Seq(Value)
    BY DEF Begins
  <2>2. (x \o u) \o o = x \o (u \o o)
    BY ONLY <1>4, <2>1, u \in Seq(Value), Associative
  <2> QED
    BY <1>3, <1>6, <1>8, <2>2
<1> QED
  BY <1>2, <1>10, <1>11 DEF Comes

(* What was made of an array is what is expected up to there.              *)
Stands(a, E, N, F, r, L, k) ==
  \E out, mid : Holds(a, r, out, mid, L, k) /\ Comes(a, E, N, F, L, k, out \o mid)

(* The first edit of a place was made: x is what is before it.             *)
Arrives(a, F, r, M, e, x) ==
  x \in Seq(Value) /\ Holds(a, r, x, e.objects, M, e.range.length) /\ Begins(F, M, x)

(* The first edit of the next place is made there.                         *)
LEMMA Arriving ==
  ASSUME NEW a \in Seq(Value), NEW E, Fits(a, E), NEW N, N = Len(a), NEW F, Froms(a, E, N, F),
         NEW r, NEW L, NEW k, Stands(a, E, N, F, r, L, k), NEW e \in E, NEW M, M = e.range.location,
         L < M, L + k <= M, Elapsed(E, L, k, M), NEW r2, r2 = ApplyEdit(r, e)
  PROVE  \E x : Arrives(a, F, r2, M, e, x)
<1>1. PICK out, mid : Holds(a, r, out, mid, L, k) /\ Comes(a, E, N, F, L, k, out \o mid)
  BY DEF Stands
<1>2. IsPlaced(e, Len(a))
  BY FitFacts
<1>3. M \in Nat /\ M <= N /\ N \in Nat
  <2>1. PICK l : l = e.range.length
    OBVIOUS
  <2>2. M \in Nat /\ l \in Nat /\ M + l <= N /\ N \in Nat
    BY <1>2, <2>1 DEF IsPlaced
  <2> QED
    BY ONLY <2>2
<1>4. L \in Int /\ k \in Nat /\ L + k \in Nat /\ M \in 0 .. N
  <2>1. L \in Nat \cup {-1} /\ k \in Nat /\ L + k \in 0 .. Len(a)
    BY <1>1 DEF Holds
  <2> QED
    BY ONLY <1>3, <2>1, N = Len(a)
<1>5. PICK y : y = out \o mid
  OBVIOUS
<1>6. PICK x : x = y \o SubSeq(a, L + k + 1, M)
  OBVIOUS
<1>7. Comes(a, E, N, F, L, k, y)
  BY <1>1, <1>5
<1>8. Begins(F, M, x)
  BY ONLY a \in Seq(Value), Fits(a, E), N = Len(a), Froms(a, E, N, F), L < M, L + k <= M, Elapsed(E, L, k, M),
     <1>4, <1>6, <1>7, Advance
<1>9. x = (out \o mid) \o SubSeq(a, L + k + 1, M)
  BY <1>5, <1>6
<1>10. Holds(a, r, out, mid, L, k)
  BY <1>1
<1>11. Holds(a, r2, x, e.objects, M, e.range.length)
  BY ONLY a \in Seq(Value), M = e.range.location, L < M, L + k <= M, r2 = ApplyEdit(r, e),
     <1>2, <1>9, <1>10, NextPlace
<1> QED
  BY <1>8, <1>11 DEF Arrives, Begins

(* One edit at a place, or the same of both sides                          *)
OnlyAt(E, M, e) == \A f \in E : f.range.location = M => Same(f, e)

(* Then what is made of the array is what is expected up to there,         *)
LEMMA OneMade ==
  ASSUME NEW a \in Seq(Value), NEW E, Fits(a, E), NEW N, N = Len(a), NEW F, Froms(a, E, N, F),
         NEW L \in Int, NEW k \in Nat, NEW e \in E, NEW M, M = e.range.location, L + k <= M, Elapsed(E, L, k, M),
         OnlyAt(E, M, e), NEW r2, NEW x, Arrives(a, F, r2, M, e, x)
  PROVE  Stands(a, E, N, F, r2, M, e.range.length)
<1>1. PICK o : o = e.objects
  OBVIOUS
<1>2. PICK l : l = e.range.length
  OBVIOUS
<1>3. M \in Nat /\ l \in Nat /\ M + l <= N /\ N \in Nat /\ o \in Seq(Value) /\ (e.kind = "insertion" <=> l = 0)
  BY <1>1, <1>2, FitFacts DEF IsPlaced
<1>4. x \in Seq(Value) /\ Holds(a, r2, x, o, M, l) /\ Begins(F, M, x) /\ M \in 0 .. N
  <2>1. M \in 0 .. N
    BY ONLY <1>3
  <2> QED
    BY <1>1, <1>2, <2>1 DEF Arrives
<1>5. PICK I : I = ObjectsAt(E, "insertion", M)
  OBVIOUS
<1>6. \A w : w \in I <=> \E f \in E : f.kind = "insertion" /\ f.range.location = M /\ f.objects = w
  BY <1>5, AtMeans
<1>7. \A f \in E : f.range.location = M => f.kind = e.kind /\ f.objects = o
  BY <1>1 DEF OnlyAt, Same
<1>8. Comes(a, E, N, F, M, l, x \o o)
  <2>1. CASE e.kind = "insertion"
    <3>1. I = {o}
      <4>1. \A w : w \in I <=> w = o
        BY <1>1, <1>6, <1>7, <2>1
      <4> QED
        BY <4>1, SetExtensionality
    <3>2. o \in InsertedAt(E, M)
      BY <1>5, <3>1, InsertedOne
    <3>3. ~ Covers(E, M)
      BY <1>3, <1>7, <2>1, NotTakenAt
    <3>4. PICK z : z = x \o o
      OBVIOUS
    <3>5. Comes(a, E, N, F, M, 0, z)
      BY ONLY a \in Seq(Value), N = Len(a), Froms(a, E, N, F), <1>3, <1>4, <3>2, <3>3, <3>4, PlaceKept
    <3> QED
      BY <1>3, <2>1, <3>4, <3>5
  <2>2. CASE e.kind # "insertion"
    <3>1. I = {}
      BY <1>6, <1>7, <2>2
    <3>2. PICK u : u = << >>
      OBVIOUS
    <3>3. u \in InsertedAt(E, M) /\ u \in Seq(Value) /\ u \o o = o
      BY <1>3, <1>5, <3>1, <3>2, InsertedNone, ConcatEmptySeq
    <3>4. PICK z : z = x \o (u \o e.objects)
      OBVIOUS
    <3>5. Comes(a, E, N, F, M, l, z)
      BY ONLY a \in Seq(Value), Fits(a, E), N = Len(a), Froms(a, E, N, F), e \in E, M = e.range.location,
         <1>2, <1>4, <2>2, <3>3, <3>4, PlaceTaken
    <3> QED
      BY <1>1, <3>3, <3>4, <3>5
  <2> QED
    BY <2>1, <2>2
<1> QED
  BY <1>2, <1>4, <1>8 DEF Stands

(* Two edits at a place, the second of them an insertion                   *)
TwoAt(E, M, e, f) == \A g \in E : g.range.location = M => g = e \/ g = f

(* and also when both sides did something at the place: the second edit,   *)
(* an insertion, comes before what the first one made of it.               *)
LEMMA TwoMade ==
  ASSUME NEW a \in Seq(Value), NEW E, Fits(a, E), NEW N, N = Len(a), NEW F, Froms(a, E, N, F),
         NEW L \in Int, NEW k \in Nat, NEW e \in E, NEW M, M = e.range.location, L + k <= M, Elapsed(E, L, k, M),
         NEW f \in E, f.range.location = M, f.kind = "insertion", ~ Same(e, f),
         TwoAt(E, M, e, f), NEW r2, NEW x, Arrives(a, F, r2, M, e, x), NEW r3, r3 = ApplyEdit(r2, f)
  PROVE  Stands(a, E, N, F, r3, M, e.range.length)
<1>1. PICK o : o = e.objects
  OBVIOUS
<1>2. PICK l : l = e.range.length
  OBVIOUS
<1>3. PICK v : v = f.objects
  OBVIOUS
<1>4. M \in Nat /\ l \in Nat /\ M + l <= N /\ N \in Nat /\ o \in Seq(Value) /\ (e.kind = "insertion" <=> l = 0)
  BY <1>1, <1>2, FitFacts DEF IsPlaced
<1>5. IsPlaced(f, Len(a)) /\ v \in Seq(Value) /\ f.range.length = 0
  BY <1>3, FitFacts DEF IsPlaced
<1>6. x \in Seq(Value) /\ Holds(a, r2, x, o, M, l) /\ Begins(F, M, x) /\ M \in 0 .. N
  <2>1. M \in 0 .. N
    BY ONLY <1>4
  <2> QED
    BY <1>1, <1>2, <2>1 DEF Arrives
<1>7. PICK m : m = f.objects \o o
  OBVIOUS
<1>8. Holds(a, r3, x, m, M, l)
  <2>1. M # -1
    BY <1>4
  <2> QED
    BY ONLY a \in Seq(Value), f.kind = "insertion", f.range.location = M, r3 = ApplyEdit(r2, f),
       <1>5, <1>6, <1>7, <2>1, SamePlace
<1>9. PICK I : I = ObjectsAt(E, "insertion", M)
  OBVIOUS
<1>10. \A w : w \in I <=> \E g \in E : g.kind = "insertion" /\ g.range.location = M /\ g.objects = w
  BY <1>9, AtMeans
<1>11. m = v \o o /\ m \in Seq(Value)
  BY <1>3, <1>4, <1>5, <1>7
<1>12. Comes(a, E, N, F, M, l, x \o m)
  <2>1. CASE e.kind = "insertion"
    <3>1. o # v
      <4>1. e.range = f.range
        <5>1. e.range \in Spans /\ f.range \in Spans
          BY DEF Fits, Edits
        <5>2. e.range.location = f.range.location /\ e.range.length = f.range.length
          BY <1>2, <1>4, <1>5, <2>1
        <5> QED
          BY <5>1, <5>2 DEF Spans
      <4> QED
        BY <1>1, <1>3, <2>1, <4>1 DEF Same
    <3>2. I = {o, v}
      <4>1. \A w : w \in I <=> w = o \/ w = v
        BY <1>1, <1>3, <1>10, <2>1 DEF TwoAt
      <4> QED
        BY <4>1, SetExtensionality
    <3>3. m \in InsertedAt(E, M)
      BY <1>9, <1>11, <3>1, <3>2, InsertedTwo
    <3>4. ~ Covers(E, M)
      BY <1>4, <2>1, NotTakenAt DEF TwoAt
    <3>5. PICK z : z = x \o m
      OBVIOUS
    <3>6. Comes(a, E, N, F, M, 0, z)
      BY ONLY a \in Seq(Value), N = Len(a), Froms(a, E, N, F), <1>6, <1>11, <3>3, <3>4, <3>5, PlaceKept
    <3> QED
      BY <1>4, <2>1, <3>5, <3>6
  <2>2. CASE e.kind # "insertion"
    <3>1. I = {v}
      <4>1. \A w : w \in I <=> w = v
        BY <1>3, <1>10, <2>2 DEF TwoAt
      <4> QED
        BY <4>1, SetExtensionality
    <3>2. v \in InsertedAt(E, M)
      BY <1>9, <3>1, InsertedOne
    <3>3. PICK z : z = x \o (v \o e.objects)
      OBVIOUS
    <3>4. Comes(a, E, N, F, M, l, z)
      BY ONLY a \in Seq(Value), Fits(a, E), N = Len(a), Froms(a, E, N, F), e \in E, M = e.range.location,
         <1>2, <1>5, <1>6, <2>2, <3>2, <3>3, PlaceTaken
    <3> QED
      BY <1>1, <1>11, <3>3, <3>4
  <2> QED
    BY <2>1, <2>2
<1> QED
  BY <1>2, <1>8, <1>12 DEF Stands

(* g[j] is what the first j edits make of a, where an edit that the next   *)
(* one repeats is left out.                                                *)
AreMade(a, s, n, g) ==
  /\ Len(s) = n
  /\ g[0] = NoneApplied(a)
  /\ \A j \in 1 .. n : g[j] = ApplyUnlessRepeated(g[j - 1], s, j)

Sorted(a, E, n, s, g) == Fits(a, E) /\ n = Cardinality(E) /\ IsSorting(E, n, s) /\ AreMade(a, s, n, g)

(* A turn of the loop makes an edit, or leaves it out if the next one is   *)
(* the same.                                                               *)
LEMMA EditMade ==
  ASSUME NEW a, NEW E, NEW n, NEW s, NEW g, Sorted(a, E, n, s, g), NEW j \in 1 .. n
  PROVE  /\ (j = n \/ ~ Same(s[j], s[j + 1])) => g[j] = ApplyEdit(g[j - 1], s[j])
         /\ (j # n /\ Same(s[j], s[j + 1])) => g[j] = g[j - 1]
<1>1. /\ n \in Nat /\ s \in [1 .. n -> E] /\ Len(s) = n /\ E \subseteq Edits
      /\ \A e, f \in E : e.attribute = f.attribute
      /\ g[j] = ApplyUnlessRepeated(g[j - 1], s, j)
  <2>1. IsFiniteSet(E) /\ n = Cardinality(E)
    BY DEF Sorted, Fits
  <2>2. n \in Nat
    BY <2>1, FS_CardinalityType
  <2> QED
    BY <2>2 DEF Sorted, Fits, IsSorting, AreMade
<1>2. j # n => (IsEqualIgnoringSourceIdentifier(s[j], s[j + 1]) <=> Same(s[j], s[j + 1]))
  <2> SUFFICES ASSUME j # n
               PROVE  IsEqualIgnoringSourceIdentifier(s[j], s[j + 1]) <=> Same(s[j], s[j + 1])
    OBVIOUS
  <2>1. j + 1 \in 1 .. n
    BY <1>1
  <2>2. s[j] \in E /\ s[j + 1] \in E
    BY <1>1, <2>1
  <2> QED
    BY <1>1, <2>2, SameMeans
<1> QED
  BY <1>1, <1>2 DEF ApplyUnlessRepeated

(* Of sorted edits, a later one is not at an earlier place, and at one     *)
(* place insertions are last.                                              *)
LEMMA SortedPlaces ==
  ASSUME NEW a, NEW E, NEW n, NEW s, NEW g, Sorted(a, E, n, s, g)
  PROVE  /\ n \in Nat /\ s \in [1 .. n -> E]
         /\ \A p \in 1 .. n : IsPlaced(s[p], Len(a))
         /\ \A p, q \in 1 .. n : p < q => s[p].range.location <= s[q].range.location
         /\ \A p, q \in 1 .. n :
              p < q /\ s[p].range.location = s[q].range.location /\ s[p].kind = "insertion" => s[q].kind = "insertion"
         /\ \A p, q \in 1 .. n : p # q => s[p] # s[q]
         /\ \A e \in E : \E p \in 1 .. n : s[p] = e
<1>1. IsFiniteSet(E) /\ n = Cardinality(E) /\ IsSorting(E, n, s) /\ Fits(a, E)
  BY DEF Sorted, Fits
<1>2. n \in Nat
  BY <1>1, FS_CardinalityType
<1>3. /\ s \in [1 .. n -> E]
      /\ \A i, j \in 1 .. n : i # j => s[i] # s[j]
      /\ \A i, j \in 1 .. n : i < j => ~Precedes(s[j], s[i])
  BY <1>1 DEF IsSorting
<1>4. \A p \in 1 .. n : IsPlaced(s[p], Len(a))
  BY <1>1, <1>3, FitFacts
<1>5. \A e \in E : \E p \in 1 .. n : s[p] = e
  BY <1>1, SortingIsOnto
<1>6. ASSUME NEW p \in 1 .. n, NEW q \in 1 .. n, p < q
      PROVE  s[p].range.location <= s[q].range.location
  <2>1. PICK u : u = s[p].range.location
    OBVIOUS
  <2>2. PICK v : v = s[q].range.location
    OBVIOUS
  <2>3. u \in Nat /\ v \in Nat
    BY <1>4, <2>1, <2>2 DEF IsPlaced
  <2>4. ~ (v < u)
    BY <1>3, <1>6, <2>1, <2>2 DEF Precedes
  <2>5. u <= v
    BY ONLY <2>3, <2>4
  <2> QED
    BY <2>1, <2>2, <2>5
<1>7. ASSUME NEW p \in 1 .. n, NEW q \in 1 .. n, p < q, s[p].range.location = s[q].range.location,
             s[p].kind = "insertion"
      PROVE  s[q].kind = "insertion"
  BY <1>3, <1>7 DEF Precedes
<1> QED
  BY <1>2, <1>3, <1>4, <1>5, <1>6, <1>7

(* The first j edits were made; those that are left are at later places.   *)
UpTo(a, E, N, F, s, n, g, j, L, k) ==
  /\ L \in Int /\ k \in Nat
  /\ Stands(a, E, N, F, g[j], L, k)
  /\ \A p \in 1 .. j : s[p].range.location <= L /\ End(s[p].range) <= L + k
  /\ \A p \in j + 1 .. n : L < s[p].range.location /\ L + k <= s[p].range.location

(* Between the last edits that were made and the next ones there are       *)
(* none.                                                                   *)
LEMMA NextElapsed ==
  ASSUME NEW a, NEW E, NEW n, NEW s, NEW g, Sorted(a, E, n, s, g), NEW N, NEW F, NEW j \in Nat, j < n, NEW L, NEW k,
         UpTo(a, E, N, F, s, n, g, j, L, k), NEW M, M = s[j + 1].range.location
  PROVE  M \in Nat /\ L < M /\ L + k <= M /\ Elapsed(E, L, k, M)
<1>1. /\ n \in Nat /\ \A p \in 1 .. n : IsPlaced(s[p], Len(a))
      /\ \A p, q \in 1 .. n : p < q => s[p].range.location <= s[q].range.location
      /\ \A e \in E : \E p \in 1 .. n : s[p] = e
  BY SortedPlaces
<1>2. j + 1 \in 1 .. n /\ j + 1 \in j + 1 .. n
  BY ONLY <1>1, j \in Nat, j < n
<1>3. M \in Nat /\ L < M /\ L + k <= M
  BY <1>1, <1>2 DEF UpTo, IsPlaced
<1>4. ASSUME NEW e \in E
      PROVE  (e.range.location <= L /\ End(e.range) <= L + k) \/ e.range.location >= M
  <2>1. PICK p \in 1 .. n : s[p] = e
    BY <1>1
  <2>2. CASE p \in 1 .. j
    BY <2>1, <2>2 DEF UpTo
  <2>3. CASE p \notin 1 .. j
    <3>1. PICK u : u = e.range.location
      OBVIOUS
    <3>2. p = j + 1 \/ j + 1 < p
      BY ONLY <1>1, <2>3, j \in Nat, p \in 1 .. n
    <3>3. p = j + 1 => u = M
      BY <2>1, <3>1
    <3>4. j + 1 < p => M <= u
      BY <1>1, <1>2, <2>1, <3>1
    <3>5. u \in Nat
      BY <1>1, <2>1, <3>1 DEF IsPlaced
    <3>6. u >= M
      BY ONLY <1>3, <3>2, <3>3, <3>4, <3>5
    <3> QED
      BY <3>1, <3>6
  <2> QED
    BY <2>2, <2>3
<1> QED
  BY <1>3, <1>4 DEF Elapsed

(* All edits of a place were made, up to the one at m.                     *)
LEMMA PlaceMade ==
  ASSUME NEW a, NEW E, NEW n, NEW s, NEW g, Sorted(a, E, n, s, g), NEW N, NEW F, NEW j \in Nat, j < n, NEW L, NEW k,
         UpTo(a, E, N, F, s, n, g, j, L, k), NEW M, M = s[j + 1].range.location,
         NEW l, l = s[j + 1].range.length, NEW m \in j + 1 .. n, Stands(a, E, N, F, g[m], M, l),
         \A p \in j + 1 .. m : s[p].range.location = M /\ End(s[p].range) <= M + l,
         \A p \in m + 1 .. n : s[p].range.location # M
  PROVE  UpTo(a, E, N, F, s, n, g, m, M, l)
<1>1. /\ n \in Nat /\ s \in [1 .. n -> E] /\ \A p \in 1 .. n : IsPlaced(s[p], Len(a))
      /\ \A p, q \in 1 .. n : p < q => s[p].range.location <= s[q].range.location
  BY SortedPlaces
<1>2. M \in Nat /\ L < M /\ L + k <= M /\ L \in Int /\ k \in Nat
  BY NextElapsed DEF UpTo
<1>3. j + 1 \in 1 .. n /\ m \in 1 .. n
  BY ONLY <1>1, j \in Nat, j < n, m \in j + 1 .. n
<1>4. l \in Nat /\ End(s[j + 1].range) = M + l
  BY <1>1, <1>3 DEF IsPlaced
<1>5. ASSUME NEW p \in 1 .. m
      PROVE  s[p].range.location <= M /\ End(s[p].range) <= M + l
  <2>1. CASE p \in j + 1 .. m
    BY <1>2, <2>1
  <2>2. CASE p \notin j + 1 .. m
    <3>1. p \in 1 .. j /\ p \in 1 .. n
      BY ONLY <1>1, <1>3, <2>2, p \in 1 .. m, j \in Nat
    <3>2. PICK u : u = s[p].range.location
      OBVIOUS
    <3>3. PICK v : v = End(s[p].range)
      OBVIOUS
    <3>4. u \in Nat /\ v \in Nat
      <4>1. PICK d : d = s[p].range.length
        OBVIOUS
      <4>2. u \in Nat /\ d \in Nat /\ v = u + d
        BY <1>1, <3>1, <3>2, <3>3, <4>1 DEF IsPlaced
      <4> QED
        BY ONLY <4>2
    <3>5. u <= L /\ v <= L + k
      BY <3>1, <3>2, <3>3 DEF UpTo
    <3>6. u <= M /\ v <= M + l
      BY ONLY <1>2, <1>4, <3>4, <3>5
    <3> QED
      BY <3>2, <3>3, <3>6
  <2> QED
    BY <2>1, <2>2
<1>6. ASSUME NEW p \in m + 1 .. n
      PROVE  M < s[p].range.location /\ M + l <= s[p].range.location
  <2>1. p \in 1 .. n /\ j + 1 < p
    BY ONLY <1>1, <1>3, p \in m + 1 .. n, m \in j + 1 .. n, j \in Nat
  <2>2. PICK u : u = s[p].range.location
    OBVIOUS
  <2>3. u \in Nat /\ M <= u /\ u # M
    BY <1>1, <1>3, <2>1, <2>2 DEF IsPlaced
  <2>4. M < u
    BY ONLY <1>2, <2>3
  <2>5. M + l <= u
    <3>1. s[p] \in E /\ s[j + 1] \in E
      BY <1>1, <1>3, <2>1
    <3>2. End(s[j + 1].range) <= u
      BY <2>2, <2>4, <3>1 DEF Sorted, Fits
    <3> QED
      BY <1>4, <3>2
  <2> QED
    BY <2>2, <2>4, <2>5
<1> QED
  BY <1>2, <1>4, <1>5, <1>6 DEF UpTo

(* The edits at one place, the next ones, are made.                        *)
LEMMA NextGroup ==
  ASSUME NEW a \in Seq(Value), NEW E, NEW n, NEW s, NEW g, Sorted(a, E, n, s, g), NEW N, N = Len(a),
         NEW F, Froms(a, E, N, F), NEW j \in Nat, j < n, NEW L, NEW k, UpTo(a, E, N, F, s, n, g, j, L, k)
  PROVE  \E m \in j + 1 .. n : \E M, l : UpTo(a, E, N, F, s, n, g, m, M, l)
<1>1. /\ n \in Nat /\ s \in [1 .. n -> E] /\ \A p \in 1 .. n : IsPlaced(s[p], Len(a))
      /\ \A p, q \in 1 .. n : p < q => s[p].range.location <= s[q].range.location
      /\ \A p, q \in 1 .. n :
           p < q /\ s[p].range.location = s[q].range.location /\ s[p].kind = "insertion" => s[q].kind = "insertion"
      /\ \A p, q \in 1 .. n : p # q => s[p] # s[q]
      /\ \A e \in E : \E p \in 1 .. n : s[p] = e
  BY SortedPlaces
<1>2. PICK c : c = j + 1
  OBVIOUS
<1>3. c \in 1 .. n /\ c - 1 = j /\ c \in c .. n /\ c \in Nat
  BY ONLY <1>1, <1>2, j \in Nat, j < n
<1>4. PICK e : e = s[c]
  OBVIOUS
<1>5. PICK M : M = e.range.location
  OBVIOUS
<1>6. PICK l : l = e.range.length
  OBVIOUS
<1>7. Fits(a, E) /\ e \in E /\ M = s[j + 1].range.location /\ l = s[j + 1].range.length
  BY <1>1, <1>2, <1>3, <1>4, <1>5, <1>6 DEF Sorted
<1>8. M \in Nat /\ L < M /\ L + k <= M /\ Elapsed(E, L, k, M) /\ L \in Int /\ k \in Nat
  BY <1>7, NextElapsed DEF UpTo
<1>9. Stands(a, E, N, F, g[j], L, k)
  BY DEF UpTo
<1>10. l \in Nat /\ End(e.range) = M + l
  BY <1>1, <1>3, <1>4, <1>5, <1>6 DEF IsPlaced
<1>11. ASSUME NEW p \in 1 .. n, s[p].range.location = M
       PROVE  p >= c
  <2>1. p \in 1 .. j => M <= L
    BY <1>11 DEF UpTo
  <2>2. p \notin 1 .. j
    BY ONLY <1>8, <2>1
  <2> QED
    BY ONLY <1>1, <1>2, <2>2, p \in 1 .. n, j \in Nat
<1>12. CASE c = n \/ s[c + 1].range.location # M
  <2>1. ASSUME NEW p \in 1 .. n, s[p].range.location = M
        PROVE  p = c
    <3> SUFFICES ASSUME p # c
                 PROVE  FALSE
      OBVIOUS
    <3>1. p >= c
      BY <1>11, <2>1
    <3>2. c + 1 \in 1 .. n /\ c < c + 1 /\ (p = c + 1 \/ c + 1 < p)
      BY ONLY <1>1, <1>3, <3>1, p # c, p \in 1 .. n
    <3>3. PICK u : u = s[c + 1].range.location
      OBVIOUS
    <3>4. u \in Nat /\ M <= u /\ (p = c + 1 => u = M) /\ (c + 1 < p => u <= M)
      BY <1>1, <1>3, <1>4, <1>5, <2>1, <3>2, <3>3 DEF IsPlaced
    <3>5. u = M
      BY ONLY <1>8, <3>2, <3>4
    <3>6. c # n
      BY ONLY <1>3, <3>2
    <3> QED
      BY <1>12, <3>3, <3>5, <3>6
  <2>2. OnlyAt(E, M, e)
    <3> SUFFICES ASSUME NEW f \in E, f.range.location = M
                 PROVE  Same(f, e)
      BY DEF OnlyAt
    <3>1. PICK p \in 1 .. n : s[p] = f
      BY <1>1
    <3>2. f = e
      BY <1>4, <2>1, <3>1
    <3> QED
      BY <3>2 DEF Same
  <2>3. g[c] = ApplyEdit(g[j], e)
    <3>1. c = n \/ ~ Same(s[c], s[c + 1])
      BY <1>4, <1>5, <1>12 DEF Same
    <3> QED
      BY <1>3, <1>4, <3>1, EditMade
  <2>4. PICK r2 : r2 = g[c]
    OBVIOUS
  <2>5. r2 = ApplyEdit(g[j], e)
    BY <2>3, <2>4
  <2>6. \E x : Arrives(a, F, r2, M, e, x)
    BY ONLY a \in Seq(Value), N = Len(a), Froms(a, E, N, F), <1>5, <1>7, <1>8, <1>9, <2>5, Arriving
  <2>7. PICK x : Arrives(a, F, r2, M, e, x)
    BY <2>6
  <2>8. Stands(a, E, N, F, r2, M, e.range.length)
    BY ONLY a \in Seq(Value), N = Len(a), Froms(a, E, N, F), <1>5, <1>7, <1>8, <2>2, <2>7, OneMade
  <2>9. Stands(a, E, N, F, g[c], M, l)
    BY <1>6, <2>4, <2>8
  <2>10. \A p \in j + 1 .. c : s[p].range.location = M /\ End(s[p].range) <= M + l
    <3>1. \A p \in j + 1 .. c : p = c
      BY <1>2, <1>3
    <3> QED
      BY <1>4, <1>5, <1>8, <1>10, <3>1
  <2>11. \A p \in c + 1 .. n : s[p].range.location # M
    <3> SUFFICES ASSUME NEW p \in c + 1 .. n, s[p].range.location = M
                 PROVE  FALSE
      OBVIOUS
    <3>1. p \in 1 .. n /\ p # c
      BY <1>3
    <3> QED
      BY <2>1, <3>1
  <2>12. c \in j + 1 .. n
    BY <1>2, <1>3
  <2>13. UpTo(a, E, N, F, s, n, g, c, M, l)
    BY ONLY Sorted(a, E, n, s, g), j \in Nat, j < n, UpTo(a, E, N, F, s, n, g, j, L, k), <1>7, <2>9, <2>10, <2>11,
       <2>12, PlaceMade
  <2> QED
    BY <2>12, <2>13
<1>13. CASE ~ (c = n \/ s[c + 1].range.location # M)
  <2>1. PICK d : d = c + 1
    OBVIOUS
  <2>2. d \in 1 .. n /\ c < d /\ c # d /\ d - 1 = c /\ d \in Nat
    BY ONLY <1>1, <1>3, <1>13, <2>1
  <2>3. PICK f : f = s[d]
    OBVIOUS
  <2>4. f \in E /\ f.range.location = M /\ e # f /\ c # n
    BY <1>1, <1>3, <1>4, <1>13, <2>1, <2>2, <2>3
  <2>5. ASSUME NEW p \in 1 .. n, s[p].range.location = M
        PROVE  p = c \/ p = d
    <3> SUFFICES ASSUME p # c, p # d
                 PROVE  FALSE
      OBVIOUS
    <3>1. s[p] # e /\ s[p] # f /\ s[p] \in E
      BY <1>1, <1>3, <1>4, <2>2, <2>3
    <3>2. Starts(e, f) /\ Starts(f, s[p])
      BY <1>5, <2>4, <2>5 DEF Starts
    <3> QED
      BY <1>7, <2>4, <3>1, <3>2 DEF Fits
  <2>6. d = n \/ ~ Same(s[d], s[d + 1])
    <3> SUFFICES ASSUME d # n, Same(s[d], s[d + 1])
                 PROVE  FALSE
      OBVIOUS
    <3>1. d + 1 \in 1 .. n /\ d + 1 # c /\ d + 1 # d
      BY ONLY <1>1, <2>1, <2>2, <1>3, d # n
    <3>2. s[d + 1].range.location = M
      BY <2>3, <2>4 DEF Same
    <3> QED
      BY <2>5, <3>1, <3>2
  <2>7. g[d] = ApplyEdit(g[c], f)
    BY <2>2, <2>3, <2>6, EditMade
  <2>8. d \in j + 1 .. n /\ \A p \in j + 1 .. d : p = c \/ p = d
    BY <1>2, <1>3, <2>1, <2>2
  <2>9. \A p \in d + 1 .. n : s[p].range.location # M
    <3> SUFFICES ASSUME NEW p \in d + 1 .. n, s[p].range.location = M
                 PROVE  FALSE
      OBVIOUS
    <3>1. p \in 1 .. n /\ p # c /\ p # d
      BY <1>3, <2>1, <2>2
    <3> QED
      BY <2>5, <3>1
  <2>10. PICK r3 : r3 = g[d]
    OBVIOUS
  <2>11. Stands(a, E, N, F, r3, M, l) /\ End(f.range) <= M + l
    <3>1. CASE Same(e, f)
      <4>1. g[c] = g[j]
        BY <1>3, <1>4, <2>1, <2>3, <2>4, <3>1, EditMade
      <4>2. r3 = ApplyEdit(g[j], f)
        BY <2>7, <2>10, <4>1
      <4>3. OnlyAt(E, M, f)
        <5> SUFFICES ASSUME NEW h \in E, h.range.location = M
                     PROVE  Same(h, f)
          BY DEF OnlyAt
        <5>1. PICK p \in 1 .. n : s[p] = h
          BY <1>1
        <5>2. h = e \/ h = f
          BY <1>4, <2>3, <2>5, <5>1
        <5> QED
          BY <3>1, <5>2 DEF Same
      <4>4. M = f.range.location /\ f.range.length = l /\ End(f.range) = M + l
        BY <1>5, <1>6, <1>10, <3>1 DEF Same
      <4>5. \E x : Arrives(a, F, r3, M, f, x)
        BY ONLY a \in Seq(Value), N = Len(a), Froms(a, E, N, F), <1>7, <1>8, <1>9, <2>4, <4>2, <4>4, Arriving
      <4>6. PICK x : Arrives(a, F, r3, M, f, x)
        BY <4>5
      <4>7. Stands(a, E, N, F, r3, M, f.range.length)
        BY ONLY a \in Seq(Value), N = Len(a), Froms(a, E, N, F), <1>7, <1>8, <2>4, <4>3, <4>4, <4>6, OneMade
      <4>8. M + l <= M + l
        BY ONLY <1>8, <1>10
      <4> QED
        BY <4>4, <4>7, <4>8
    <3>2. CASE ~ Same(e, f)
      <4>1. g[c] = ApplyEdit(g[j], e)
        BY <1>3, <1>4, <2>1, <2>3, <3>2, EditMade
      <4>2. f.kind = "insertion"
        <5>1. Starts(e, f)
          BY <1>5, <2>4 DEF Starts
        <5>2. e.kind = "insertion" \/ f.kind = "insertion"
          BY <1>7, <2>4, <3>2, <5>1 DEF Fits
        <5>3. e.kind = "insertion" => f.kind = "insertion"
          BY <1>1, <1>3, <1>4, <1>5, <2>2, <2>3, <2>4
        <5> QED
          BY <5>2, <5>3
      <4>3. TwoAt(E, M, e, f)
        <5> SUFFICES ASSUME NEW h \in E, h.range.location = M
                     PROVE  h = e \/ h = f
          BY DEF TwoAt
        <5>1. PICK p \in 1 .. n : s[p] = h
          BY <1>1
        <5> QED
          BY <1>4, <2>3, <2>5, <5>1
      <4>4. PICK r2 : r2 = g[c]
        OBVIOUS
      <4>5. r2 = ApplyEdit(g[j], e) /\ r3 = ApplyEdit(r2, f)
        BY <2>7, <2>10, <4>1, <4>4
      <4>6. \E x : Arrives(a, F, r2, M, e, x)
        BY ONLY a \in Seq(Value), N = Len(a), Froms(a, E, N, F), <1>5, <1>7, <1>8, <1>9, <4>5, Arriving
      <4>7. PICK x : Arrives(a, F, r2, M, e, x)
        BY <4>6
      <4>8. Stands(a, E, N, F, r3, M, e.range.length)
        BY ONLY a \in Seq(Value), N = Len(a), Froms(a, E, N, F), <1>5, <1>7, <1>8, <2>4, <3>2, <4>2, <4>3, <4>5, <4>7,
           TwoMade
      <4>9. End(f.range) <= M + l
        <5>1. f.range.length = 0 /\ End(f.range) = f.range.location + f.range.length
          BY <1>7, <2>4, <4>2, FitFacts DEF IsPlaced
        <5>2. End(f.range) = M + 0
          BY <2>4, <5>1
        <5> QED
          BY <1>8, <1>10, <5>2
      <4> QED
        BY <1>6, <4>8, <4>9
    <3> QED
      BY <3>1, <3>2
  <2>12. Stands(a, E, N, F, g[d], M, l)
    BY <2>10, <2>11
  <2>13. \A p \in j + 1 .. d : s[p].range.location = M /\ End(s[p].range) <= M + l
    <3>1. M + l <= M + l
      BY ONLY <1>8, <1>10
    <3> QED
      BY <1>4, <1>5, <1>10, <2>3, <2>4, <2>8, <2>11, <3>1
  <2>14. UpTo(a, E, N, F, s, n, g, d, M, l)
    BY ONLY Sorted(a, E, n, s, g), j \in Nat, j < n, UpTo(a, E, N, F, s, n, g, j, L, k), <1>7, <2>8, <2>9, <2>12,
       <2>13, PlaceMade
  <2> QED
    BY <2>8, <2>14
<1> QED
  BY <1>12, <1>13

(* Nothing was made yet.                                                   *)
LEMMA NoneMade ==
  ASSUME NEW a \in Seq(Value), NEW E, NEW n, NEW s, NEW g, Sorted(a, E, n, s, g), NEW N, NEW F
  PROVE  UpTo(a, E, N, F, s, n, g, 0, -1, 1)
<1>1. n \in Nat /\ \A p \in 1 .. n : IsPlaced(s[p], Len(a))
  BY SortedPlaces
<1>2. g[0] = NoneApplied(a)
  BY DEF Sorted, AreMade
<1>3. PICK y : y = << >>
  OBVIOUS
<1>4. Holds(a, g[0], y, y, -1, 1)
  BY <1>2, <1>3, HoldsFirst
<1>5. Comes(a, E, N, F, -1, 1, y \o y)
  <2>1. y \o y = << >>
    BY <1>3, ConcatEmptySeq
  <2>2. Begins(F, 0, y \o y)
    BY <2>1, NothingBegins
  <2>3. -1 + 1 = 0 /\ 1 # 0
    OBVIOUS
  <2> QED
    BY <2>2, <2>3 DEF Comes
<1>6. Stands(a, E, N, F, g[0], -1, 1)
  BY <1>4, <1>5 DEF Stands
<1>7. 1 .. 0 = {} /\ 0 + 1 = 1
  OBVIOUS
<1>8. ASSUME NEW p \in 1 .. n
      PROVE  -1 < s[p].range.location /\ -1 + 1 <= s[p].range.location
  <2>1. PICK u : u = s[p].range.location
    OBVIOUS
  <2>2. u \in Nat
    BY <1>1, <2>1 DEF IsPlaced
  <2>3. -1 < u /\ -1 + 1 <= u
    BY ONLY <2>2
  <2> QED
    BY <2>1, <2>3
<1>9. -1 \in Int /\ 1 \in Nat
  OBVIOUS
<1> QED
  BY <1>6, <1>7, <1>8, <1>9 DEF UpTo

(* Place by place, all edits are made.                                     *)
LEMMA AllUpTo ==
  ASSUME NEW a \in Seq(Value), NEW E, NEW n, NEW s, NEW g, Sorted(a, E, n, s, g), NEW N, N = Len(a),
         NEW F, Froms(a, E, N, F)
  PROVE  \E L, k : UpTo(a, E, N, F, s, n, g, n, L, k)
<1>1. n \in Nat
  BY SortedPlaces
<1> DEFINE Is(j) == \E L, k : UpTo(a, E, N, F, s, n, g, j, L, k)
           Left == {m \in 0 .. n : Is(n - m)}
<1>2. n \in Left
  <2>1. UpTo(a, E, N, F, s, n, g, 0, -1, 1)
    BY NoneMade
  <2>2. Is(0)
    BY <2>1
  <2>3. n - n = 0 /\ n \in 0 .. n
    BY <1>1
  <2> HIDE DEF Is
  <2> QED
    BY <2>2, <2>3
<1>3. ASSUME NEW j \in Nat, j < n, Is(j)
      PROVE  \E m \in j + 1 .. n : Is(m)
  <2>1. PICK L, k : UpTo(a, E, N, F, s, n, g, j, L, k)
    BY <1>3
  <2>2. \E m \in j + 1 .. n : \E M, l : UpTo(a, E, N, F, s, n, g, m, M, l)
    BY ONLY a \in Seq(Value), Sorted(a, E, n, s, g), N = Len(a), Froms(a, E, N, F), <1>3, <2>1, NextGroup
  <2> QED
    BY <2>2
<1> HIDE DEF Is
<1>4. PICK m \in Left : \A d \in Left : m <= d
  <2>1. Left \in SUBSET Nat
    OBVIOUS
  <2> HIDE DEF Left
  <2> QED
    BY <1>2, <2>1, LeastNumber
<1>5. m \in 0 .. n /\ Is(n - m)
  OBVIOUS
<1>6. m = 0
  <2> SUFFICES ASSUME m # 0
               PROVE  FALSE
    OBVIOUS
  <2>1. PICK j : j = n - m
    OBVIOUS
  <2>2. j \in Nat /\ j < n
    BY <1>1, <1>5, <2>1
  <2>3. PICK c \in j + 1 .. n : Is(c)
    BY <1>3, <1>5, <2>1, <2>2
  <2>4. n - (n - c) = c /\ n - c \in 0 .. n /\ ~ (m <= n - c)
    BY ONLY <1>1, <1>5, <2>1, <2>2, c \in j + 1 .. n
  <2>5. n - c \in Left
    BY <2>3, <2>4
  <2> HIDE DEF Left
  <2> QED
    BY <1>4, <2>4, <2>5
<1>7. Is(n)
  <2>1. n - 0 = n
    BY <1>1
  <2> QED
    BY <1>5, <1>6, <2>1
<1> QED
  BY <1>7 DEF Is

(* What is left of the array after the last edits is as it was.            *)
LEMMA AllExpected ==
  ASSUME NEW a \in Seq(Value), NEW E, NEW n, NEW s, NEW g, Sorted(a, E, n, s, g), NEW N, N = Len(a),
         NEW F, Froms(a, E, N, F)
  PROVE  g[n].raised = FALSE /\ g[n].array \in F[0]
<1>1. PICK L, k : UpTo(a, E, N, F, s, n, g, n, L, k)
  BY AllUpTo
<1>2. PICK r : r = g[n]
  OBVIOUS
<1>3. PICK out, mid : Holds(a, r, out, mid, L, k) /\ Comes(a, E, N, F, L, k, out \o mid)
  BY <1>1, <1>2 DEF UpTo, Stands
<1>4. PICK x : x = out \o mid
  OBVIOUS
<1>5. /\ L \in Int /\ k \in Nat /\ L + k \in 0 .. N /\ N \in Nat
      /\ r.raised = FALSE /\ r.array = x \o SubSeq(a, L + k + 1, N)
  <2>1. N \in Nat
    OBVIOUS
  <2>2. L \in Nat \cup {-1} /\ k \in Nat /\ L + k \in 0 .. N
    BY <1>3 DEF Holds
  <2>3. L \in Int
    BY ONLY <2>2
  <2> QED
    BY <1>3, <1>4, <2>1, <2>2, <2>3 DEF Holds
<1>6. Comes(a, E, N, F, L, k, x)
  BY <1>3, <1>4
<1>7. \A e \in E : \E p \in 1 .. n : s[p] = e
  BY SortedPlaces
<1>8. \A e \in E : e.range.location <= L /\ End(e.range) <= L + k
  BY <1>1, <1>7 DEF UpTo
<1>9. CASE L < N
  <2>1. PICK z : z = x \o SubSeq(a, L + k + 1, N)
    OBVIOUS
  <2>2. Elapsed(E, L, k, N)
    BY <1>8 DEF Elapsed
  <2>3. N \in 0 .. N /\ L + k \in Nat /\ L + k <= N
    BY ONLY <1>5
  <2>4. Begins(F, N, z)
    BY ONLY a \in Seq(Value), Sorted(a, E, n, s, g), N = Len(a), Froms(a, E, N, F), <1>5, <1>6, <1>9, <2>1, <2>2, <2>3,
       Advance DEF Sorted
  <2>5. ObjectsAt(E, "insertion", N) = {}
    <3>1. \A e \in E : e.range.location # N
      <4> TAKE e \in E
      <4>1. PICK u : u = e.range.location
        OBVIOUS
      <4>2. u <= L
        BY <1>8, <4>1
      <4>3. u # N
        BY ONLY <1>5, <1>9, <4>2
      <4> QED
        BY <4>1, <4>3
    <3> QED
      BY <3>1, AtMeans
  <2>6. << >> \in F[N]
    BY <2>5, InsertedNone DEF Froms
  <2>7. z \o << >> \in F[0] /\ z \in Seq(Value)
    <3>1. PICK y : y = << >>
      OBVIOUS
    <3>2. y \in Seq(Value) /\ y \in F[N]
      BY <2>6, <3>1
    <3>3. z \o y \in F[0] /\ z \in Seq(Value)
      BY <2>4, <3>2 DEF Begins
    <3> QED
      BY <3>1, <3>3
  <2>8. z \o << >> = z
    BY <2>7, ConcatEmptySeq
  <2> QED
    BY <1>2, <1>5, <2>1, <2>7, <2>8
<1>10. CASE ~ (L < N)
  <2>1. k = 0 /\ L = N /\ L + k = N
    BY ONLY <1>5, <1>10
  <2>2. HasInserted(a, E, N, F, N, x)
    BY <1>6, <2>1 DEF Comes
  <2>3. x \in F[0] /\ x \in Seq(Value)
    BY <2>2 DEF HasInserted
  <2>4. SubSeq(a, L + k + 1, N) = << >>
    <3>1. SubSeq(a, N + 1, N) = << >>
      BY <1>5, NoElement
    <3> QED
      BY <2>1, <3>1
  <2>5. x \o << >> = x
    BY <2>3, ConcatEmptySeq
  <2> QED
    BY <1>2, <1>5, <2>3, <2>4, <2>5
<1> QED
  BY <1>9, <1>10

-----------------------------------------------------------------------------
(* The loop that applies edits computes that.                              *)
LEMMA AllStepsMade ==
  ASSUME NEW a, NEW n \in Nat, NEW s, Len(s) = n
  PROVE  /\ ApplyEdits(a, s) = AllSteps(a, s)[n]
         /\ AreMade(a, s, n, AllSteps(a, s))
<1> DEFINE Is(f, m) == f = [j \in 0 .. m |-> IF j = 0 THEN NoneApplied(a) ELSE ApplyUnlessRepeated(f[j - 1], s, j)]
           Bad == {m \in 0 .. n : ~ \E f : Is(f, m)}
<1>1. \E f : Is(f, 0)
  <2> DEFINE f == [j \in 0 .. 0 |-> NoneApplied(a)]
  <2>1. \A j \in 0 .. 0 : j = 0
    OBVIOUS
  <2>2. Is(f, 0)
    BY <2>1
  <2> HIDE DEF Is, f
  <2> QED
    BY <2>2
<1>2. ASSUME NEW m \in 0 .. n, m # 0, NEW f, Is(f, m - 1)
      PROVE  \E h : Is(h, m)
  <2>1. \A j \in 0 .. m - 1 : f[j] = IF j = 0 THEN NoneApplied(a) ELSE ApplyUnlessRepeated(f[j - 1], s, j)
    BY <1>2
  <2> DEFINE h == [j \in 0 .. m |-> IF j = m THEN ApplyUnlessRepeated(f[m - 1], s, m) ELSE f[j]]
  <2>2. /\ h[m] = ApplyUnlessRepeated(f[m - 1], s, m) /\ h = [j \in 0 .. m |-> h[j]]
        /\ \A j \in 0 .. m - 1 : h[j] = f[j]
    BY <1>2
  <2> HIDE DEF h
  <2>3. \A j \in 0 .. m : h[j] = IF j = 0 THEN NoneApplied(a) ELSE ApplyUnlessRepeated(h[j - 1], s, j)
    <3> TAKE j \in 0 .. m
    <3>1. CASE j = m
      <4>1. m - 1 \in 0 .. m - 1
        BY <1>2
      <4> QED
        BY <1>2, <2>2, <3>1, <4>1
    <3>2. CASE j # m
      <4>1. j \in 0 .. m - 1 /\ (j # 0 => j - 1 \in 0 .. m - 1)
        BY <3>2
      <4> QED
        BY <2>1, <2>2, <4>1
    <3> QED
      BY <3>1, <3>2
  <2>4. h = [j \in 0 .. m |-> IF j = 0 THEN NoneApplied(a) ELSE ApplyUnlessRepeated(h[j - 1], s, j)]
    BY <2>2, <2>3
  <2> QED
    BY <2>4
<1>3. \E f : Is(f, n)
  <2> HIDE DEF Is
  <2> SUFFICES ASSUME ~ \E f : Is(f, n)
               PROVE  FALSE
    OBVIOUS
  <2>0. n \in Bad
    <3>1. n \in 0 .. n
      OBVIOUS
    <3> QED
      BY <3>1
  <2>1. Bad \in SUBSET Nat
    OBVIOUS
  <2>2. PICK m \in Bad : \A d \in Bad : m <= d
    <3> HIDE DEF Bad
    <3> QED
      BY <2>0, <2>1, LeastNumber
  <2>3. m \in 0 .. n /\ ~ \E f : Is(f, m)
    OBVIOUS
  <2>4. m # 0
    BY <1>1, <2>3
  <2>5. m - 1 \in 0 .. n /\ ~ (m <= m - 1)
    BY <2>3, <2>4
  <2>6. m - 1 \notin Bad
    <3> HIDE DEF Bad
    <3> QED
      BY <2>2, <2>5
  <2>7. PICK f : Is(f, m - 1)
    BY <2>5, <2>6
  <2> QED
    BY <1>2, <2>3, <2>4, <2>7
<1>4. \E f : AreSteps(a, s, f)
  BY <1>3 DEF AreSteps
<1>5. PICK f : f = AllSteps(a, s)
  OBVIOUS
<1>6. AreSteps(a, s, f)
  <2>1. f = CHOOSE g : AreSteps(a, s, g)
    BY <1>5 DEF AllSteps
  <2> QED
    BY <1>4, <2>1
<1>7. f = [j \in 0 .. n |-> IF j = 0 THEN NoneApplied(a) ELSE ApplyUnlessRepeated(f[j - 1], s, j)]
  BY <1>6 DEF AreSteps
<1>8. f[0] = NoneApplied(a) /\ \A j \in 1 .. n : f[j] = ApplyUnlessRepeated(f[j - 1], s, j)
  <2>1. 0 \in 0 .. n /\ \A j \in 1 .. n : j \in 0 .. n /\ j # 0
    OBVIOUS
  <2> QED
    BY <1>7, <2>1
<1>9. ApplyEdits(a, s) = AllSteps(a, s)[Len(s)]
  BY DEF ApplyEdits, AllSteps, AreSteps
<1> QED
  BY <1>5, <1>8, <1>9 DEF AreMade

(* Edits that fit, in whatever order they are sorted, make what is         *)
(* expected of them.                                                       *)
LEMMA FittingEditsMade ==
  ASSUME NEW a \in Seq(Value), NEW E, Fits(a, E), NEW s \in SortedEdits(E)
  PROVE  ApplyEdits(a, s).raised = FALSE /\ ApplyEdits(a, s).array \in Expected(a, E)
<1>1. PICK n : n = Cardinality(E)
  OBVIOUS
<1>2. IsFiniteSet(E) /\ n \in Nat /\ \A e \in E : e.range.location \in Nat
  <2>1. IsFiniteSet(E)
    BY DEF Fits
  <2> QED
    BY <1>1, <2>1, FS_CardinalityType, FitFacts DEF IsPlaced
<1>3. IsSorting(E, n, s)
  BY <1>1, <1>2, SortedEditsFacts
<1>4. Len(s) = n
  <2>1. s \in [1 .. n -> E]
    BY <1>3 DEF IsSorting
  <2> QED
    BY <1>2, <2>1
<1>5. PICK g : g = AllSteps(a, s)
  OBVIOUS
<1>6. ApplyEdits(a, s) = g[n] /\ AreMade(a, s, n, g)
  BY <1>2, <1>4, <1>5, AllStepsMade
<1>7. Sorted(a, E, n, s, g)
  BY <1>1, <1>3, <1>6 DEF Sorted
<1>8. PICK N : N = Len(a)
  OBVIOUS
<1>9. PICK F : F = AllFrom(a, E)
  OBVIOUS
<1>10. N \in Nat
  BY <1>8
<1>11. Expected(a, E) = F[0] /\ Froms(a, E, N, F)
  <2>1. /\ Expected(a, E) = AllFrom(a, E)[0]
        /\ AllFrom(a, E)[N] = InsertedAt(E, N)
        /\ \A i \in 0 .. N - 1 : AllFrom(a, E)[i] = FromPlace(a, E, i, AllFrom(a, E)[i + 1])
    BY ONLY <1>8, <1>10, ExpectedFrom
  <2> QED
    BY <1>9, <2>1 DEF Froms
<1>12. g[n].raised = FALSE /\ g[n].array \in F[0]
  BY ONLY a \in Seq(Value), <1>7, <1>8, <1>11, AllExpected
<1> QED
  BY <1>6, <1>11, <1>12

(* The edits of a diff without conflicts agree.                            *)
LEMMA ReadyAgrees ==
  ASSUME DiffInv, ~ HasConflicts
  PROVE  /\ Agree(diffDict) /\ diffDict \subseteq Edits
         /\ \A e \in diffDict, source \in Source : e.source = source => e \in EditsOf(source)
<1>1. PICK X : X = AllEdits
  OBVIOUS
<1>2. /\ \A t \in Source : OneSided(t, X[t]) /\ X[t] = EditsOf(t)
      /\ diffDict \subseteq X["self"] \cup X["other"]
      /\ Recorded(diffDict, conflicts)
  BY <1>1 DEF DiffInv, DiffInvOf, Gathered, AllEdits
<1>3. Source = {"self", "other"}
  BY DEF Source
<1>4. ASSUME NEW e \in diffDict
      PROVE  e \in Edits /\ \A source \in Source : e.source = source => e \in EditsOf(source)
  <2>1. PICK t \in Source : e \in X[t]
    BY <1>2, <1>3
  <2>2. e \in Edits /\ e.source = t
    BY <1>2, <2>1 DEF OneSided
  <2> QED
    BY <1>2, <2>1, <2>2
<1>5. ASSUME NEW e \in diffDict, NEW f \in diffDict, AnyClash(e, f)
      PROVE  IsEqualIgnoringSourceIdentifier(e, f)
  <2>1. CASE e = f
    <3>1. e \in Edits
      BY <1>4
    <3>2. e = [e EXCEPT !.source = e.source]
      BY <3>1 DEF Edits
    <3> QED
      BY <2>1, <3>2 DEF IsEqualIgnoringSourceIdentifier
  <2>2. CASE e # f
    <3>1. PICK category \in Category : Clash(category, e, f)
      BY <1>5 DEF AnyClash
    <3>2. PICK c \in conflicts : {e, f} \subseteq c.edits
      BY <1>2, <2>2, <3>1 DEF Recorded
    <3>3. Nonconflicting(c)
      BY DEF HasConflicts
    <3> QED
      BY <3>2, <3>3 DEF Nonconflicting
  <2> QED
    BY <2>1, <2>2
<1> QED
  BY <1>4, <1>5 DEF Agree

(* What edits that fit make of an attribute of the old graph               *)
LEMMA FittingEditsApplied ==
  ASSUME NEW t, t \in DOMAIN base, base[t] \in Seq(Value), NEW E, Fits(base[t], E)
  PROVE  Applied(t, E) # {} /\ Applied(t, E) \subseteq Expected(base[t], E)
<1>1. PICK a : a = base[t]
  OBVIOUS
<1>2. a \in Seq(Value) /\ Fits(a, E)
  BY <1>1
<1>3. IsFiniteSet(E) /\ \A e \in E : e.range.location \in Nat /\ e.kind \in SequenceEdit
  BY <1>2, FitFacts DEF IsPlaced, Fits
<1>4. CASE E = {}
  <2>1. Applied(t, E) = {a}
    BY <1>1, <1>4, NothingApplied
  <2>2. PICK s : s \in SortedEdits(E)
    BY <1>3, SortedEditsFacts
  <2>3. ApplyEdits(a, s).array \in Expected(a, E)
    BY <1>2, <2>2, FittingEditsMade
  <2>4. ApplyEdits(a, s) = NoneApplied(a)
    <3>1. IsSorting(E, 0, s)
      BY <1>3, <1>4, <2>2, SortedEditsFacts, FS_EmptySet
    <3>2. Len(s) = 0
      <4>1. s \in [1 .. 0 -> E]
        BY <3>1 DEF IsSorting
      <4> QED
        BY <4>1
    <3>3. PICK g : g = AllSteps(a, s)
      OBVIOUS
    <3>4. ApplyEdits(a, s) = g[0] /\ AreMade(a, s, 0, g)
      BY <3>2, <3>3, AllStepsMade
    <3> QED
      BY <3>4 DEF AreMade
  <2>5. a \in Expected(a, E)
    BY <2>3, <2>4 DEF NoneApplied
  <2> QED
    BY <1>1, <2>1, <2>5
<1>5. CASE E # {}
  <2>1. Applied(t, E) = {r.array : r \in {r \in Applications(t, E) : ~r.raised}}
    BY <1>3, <1>5, SequenceEditsApplied
  <2>2. Applications(t, E) = {ApplyEdits(a, s) : s \in SortedEdits(E)}
    BY <1>1 DEF Applications
  <2>3. \A s \in SortedEdits(E) : ApplyEdits(a, s).raised = FALSE /\ ApplyEdits(a, s).array \in Expected(a, E)
    BY <1>2, FittingEditsMade
  <2>4. \A r \in Applications(t, E) : ~r.raised /\ r.array \in Expected(a, E)
    BY <2>2, <2>3
  <2>5. Applications(t, E) # {}
    BY <1>3, <2>2, SortedEditsFacts
  <2> QED
    BY <1>1, <2>1, <2>4, <2>5
<1> QED
  BY <1>4, <1>5

(* A merge without conflicts has what both sides made of every array, each *)
(* edit where its side made it, in whatever order the sort of -applyTo:    *)
(* leaves edits that compare as equal: no edit raises, and no shift of     *)
(* indexes (COApplyEditsToArray) is wrong.                                 *)
THEOREM MergesKeepSides == Spec => []MergesKeepBothSides
<1>1. DiffInv => MergesKeepBothSides
  <2> SUFFICES ASSUME DiffInv, Ready, NEW t \in Ordered \cap DOMAIN base, NEW E, E = Of(diffDict, t),
                      {e.kind : e \in E} \subseteq SequenceEdit, ~ \E e, f \in E : Stranded(e, f)
               PROVE  Applied(t, E) # {} /\ Applied(t, E) \subseteq Expected(base[t], E)
    BY DEF MergesKeepBothSides
  <2>1. PICK a : a = base[t]
    OBVIOUS
  <2>2. GraphsOK /\ ~ HasConflicts
    BY DEF DiffInv, Ready
  <2>3. a \in Seq(Value)
    <3>1. t \notin Unordered
      BY ItemGraphDiffAssumption
    <3> QED
      BY <2>1, <2>2, <3>1 DEF GraphsOK, IsGraph
  <2>4. /\ Agree(diffDict) /\ diffDict \subseteq Edits
        /\ \A e \in diffDict, source \in Source : e.source = source => e \in EditsOf(source)
    BY <2>2, ReadyAgrees
  <2>5. E \in SUBSET Edits /\ Agree(E)
    BY <2>4 DEF Of, Agree
  <2>6. \A e \in E : e.attribute = t /\ e.kind \in SequenceEdit
    BY DEF Of
  <2>7. NoneStranded(E)
    BY DEF NoneStranded
  <2>8. ASSUME NEW source \in Source
        PROVE  AreOf(a, t, source, E)
    <3>1. \A e \in E : e.kind \in SequenceEdit /\ (e.source = source => e \in EditsOf(source) /\ e.attribute = t)
      BY <2>4, <2>6 DEF Of
    <3> QED
      BY <2>1, <2>2, <3>1, OfOneSide
  <2>9. Fits(a, E)
    BY ONLY <2>5, <2>6, <2>7, <2>8, BothSidesFit
  <2> QED
    BY <2>1, <2>3, <2>9, FittingEditsApplied
<1> QED
  BY <1>1, DiffInvInvariant, PTL

=============================================================================
