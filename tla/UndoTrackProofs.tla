------------------------- MODULE UndoTrackProofs ------------------------------
(***************************************************************************)
(* Proofs about UndoTrack, for any number of tracks, patterns, roots,      *)
(* commands and crashes.                                                   *)
(***************************************************************************)
EXTENDS UndoTrack, TLAPS, FiniteSetTheorems, SequenceTheorems, WellFoundedInduction

USE UndoTrackAssumption DEF Placeholder

-----------------------------------------------------------------------------
(* Numbers *)

(* Every set of numbers has a least one: the induction of these proofs, as *)
(* the least number that would go wrong.                                   *)
LEMMA LeastNumber ==
  ASSUME NEW S \in SUBSET Nat, S # {}
  PROVE  \E m \in S : \A n \in S : m <= n
<1> DEFINE Less == {p \in Nat \X Nat : p[1] < p[2]}
<1>1. OpToRel(<, Nat) = Less
  BY DEF OpToRel
<1>2. IsWellFoundedOn(Less, Nat)
  BY <1>1, NatLessThanWellFounded
<1>3. PICK m \in S : \A n \in S : <<n, m>> \notin Less
  <2> HIDE DEF Less
  <2> QED
    BY <1>2, WFMin
<1>4. \A n \in S : m <= n
  <2> SUFFICES ASSUME NEW n \in S
               PROVE  ~ (n < m)
    OBVIOUS
  <2>1. <<n, m>> \in Nat \X Nat /\ <<n, m>>[1] = n /\ <<n, m>>[2] = m
    OBVIOUS
  <2> QED
    BY <1>3, <2>1
<1> QED
  BY <1>4

(* A bounded set of numbers has a greatest one, which Max chooses.         *)
LEMMA MaxIsGreatest ==
  ASSUME NEW N \in Nat, NEW S \in SUBSET (0 .. N), S # {}
  PROVE  Max(S) \in S /\ \A n \in S : n <= Max(S)
<1> DEFINE T == {N - k : k \in S}
<1>1. T \in SUBSET Nat /\ T # {}
  <2>1. \A k \in S : N - k \in Nat
    OBVIOUS
  <2> QED
    BY <2>1
<1>2. PICK m \in T : \A n \in T : m <= n
  BY <1>1, LeastNumber
<1>3. PICK k \in S : m = N - k
  OBVIOUS
<1>4. \A n \in S : k >= n
  <2> TAKE n \in S
  <2>1. N - n \in T
    OBVIOUS
  <2> QED
    BY <1>2, <1>3, <2>1
<1>5. \E x \in S : \A y \in S : x >= y
  BY <1>4
<1>6. Max(S) \in S /\ \A y \in S : Max(S) >= y
  BY <1>5 DEF Max
<1> QED
  BY <1>6

-----------------------------------------------------------------------------
(* Trees of numbers, whose parents are smaller *)

IsTree(N, par) ==
  N \in Nat /\ par \in [1 .. N -> 0 .. N] /\ \A n \in 1 .. N : par[n] < n

(* f gives for every number itself and what f gives for its parent. *)
Ascends(N, par, f) ==
  f = [n \in 0 .. N |-> IF n = 0 THEN {} ELSE {n} \cup f[par[n]]]

Up(N, par, c) == (CHOOSE f : Ascends(N, par, f))[c]

(* Such a function exists: the least sets closed under parents.            *)
LEMMA AscentExists ==
  ASSUME NEW N, NEW par, IsTree(N, par)
  PROVE  \E f : Ascends(N, par, f)
<1> DEFINE Closed(S) == \A s \in S : par[s] # 0 => par[s] \in S
           F(n) == {q \in 1 .. N : \A S \in SUBSET (1 .. N) : n \in S /\ Closed(S) => q \in S}
           f == [n \in 0 .. N |-> IF n = 0 THEN {} ELSE F(n)]
<1>1. N \in Nat /\ \A n \in 1 .. N : par[n] \in 0 .. N /\ par[n] < n
  BY DEF IsTree
<1>2. ASSUME NEW n \in 1 .. N
      PROVE  n \in F(n) /\ Closed(F(n))
  <2>1. n \in F(n)
    OBVIOUS
  <2>2. ASSUME NEW s \in F(n), par[s] # 0
        PROVE  par[s] \in F(n)
    <3>1. s \in 1 .. N
      OBVIOUS
    <3>2. par[s] \in 1 .. N
      BY <1>1, <2>2, <3>1
    <3> SUFFICES ASSUME NEW S \in SUBSET (1 .. N), n \in S, Closed(S)
                 PROVE  par[s] \in S
      BY <3>2
    <3>3. s \in S
      OBVIOUS
    <3> QED
      BY <2>2, <3>3
  <2> HIDE DEF F
  <2> QED
    BY <2>1, <2>2
<1>3. \A n \in 1 .. N : f[n] = F(n)
  <2> TAKE n \in 1 .. N
  <2>1. n \in 0 .. N /\ n # 0
    BY <1>1
  <2> HIDE DEF F
  <2> QED
    BY <2>1
<1>4. f[0] = {}
  <2>1. 0 \in 0 .. N
    BY <1>1
  <2> HIDE DEF F
  <2> QED
    BY <2>1
<1>5. ASSUME NEW n \in 1 .. N
      PROVE  F(n) = {n} \cup f[par[n]]
  <2> DEFINE p == par[n]
  <2>1. p \in 0 .. N /\ p < n
    BY <1>1
  <2>2. CASE p = 0
    <3>1. F(n) \subseteq {n}
      <4>1. {n} \in SUBSET (1 .. N) /\ Closed({n})
        BY <2>2
      <4> QED
        BY <4>1
    <3> HIDE DEF F, f
    <3> QED
      BY <1>2, <1>4, <2>2, <3>1
  <2>3. CASE p # 0
    <3> p \in 1 .. N
      BY <2>1, <2>3, <1>1
    <3>1. f[p] = F(p)
      <4> HIDE DEF F, f, p
      <4> QED
        BY <1>3
    <3>2. F(n) \subseteq {n} \cup F(p)
      <4> DEFINE S == {n} \cup F(p)
      <4>1. S \in SUBSET (1 .. N) /\ n \in S
        OBVIOUS
      <4>2. Closed(S)
        <5> HIDE DEF F
        <5> QED
          BY <1>2
      <4>3. ASSUME NEW q \in F(n)
            PROVE  q \in S
        <5> HIDE DEF S, Closed
        <5> QED
          BY <4>1, <4>2
      <4> QED
        BY <4>3
    <3>3. F(p) \subseteq F(n)
      <4> SUFFICES ASSUME NEW q \in F(p), NEW S \in SUBSET (1 .. N), n \in S, Closed(S)
                   PROVE  q \in S
        OBVIOUS
      <4>1. p \in S
        BY <2>3
      <4> HIDE DEF Closed, p
      <4> QED
        BY <4>1
    <3> HIDE DEF F, f
    <3> QED
      BY <1>2, <3>1, <3>2, <3>3
  <2> QED
    BY <2>2, <2>3
<1>6. Ascends(N, par, f)
  <2>1. f = [n \in 0 .. N |-> IF n = 0 THEN {} ELSE F(n)]
    OBVIOUS
  <2> HIDE DEF F, f
  <2>2. \A n \in 0 .. N : (IF n = 0 THEN {} ELSE F(n))
                            = (IF n = 0 THEN {} ELSE {n} \cup f[par[n]])
    <3> TAKE n \in 0 .. N
    <3>1. n # 0 => n \in 1 .. N
      BY <1>1
    <3> QED
      BY <1>5, <3>1
  <2> QED
    BY <2>1, <2>2 DEF Ascends
<1> QED
  BY <1>6

(* There is only one.                                                      *)
LEMMA AscentUnique ==
  ASSUME NEW N, NEW par, IsTree(N, par),
         NEW f, Ascends(N, par, f), NEW g, Ascends(N, par, g)
  PROVE  f = g
<1> DEFINE Wrong == {n \in 0 .. N : f[n] # g[n]}
<1>1. N \in Nat /\ \A n \in 1 .. N : par[n] \in 0 .. N /\ par[n] < n
  BY DEF IsTree
<1>2. /\ DOMAIN f = 0 .. N /\ DOMAIN g = 0 .. N
      /\ f = [n \in 0 .. N |-> f[n]] /\ g = [n \in 0 .. N |-> g[n]]
      /\ \A n \in 0 .. N : /\ f[n] = IF n = 0 THEN {} ELSE {n} \cup f[par[n]]
                           /\ g[n] = IF n = 0 THEN {} ELSE {n} \cup g[par[n]]
  BY DEF Ascends
<1>3. Wrong = {}
  <2> SUFFICES ASSUME Wrong # {}
               PROVE  FALSE
    OBVIOUS
  <2>1. PICK n \in Wrong : \A k \in Wrong : n <= k
    <3>1. Wrong \in SUBSET Nat
      BY <1>1
    <3> HIDE DEF Wrong
    <3> QED
      BY <3>1, LeastNumber
  <2>2. n \in 0 .. N /\ f[n] # g[n]
    OBVIOUS
  <2>3. n # 0
    BY <1>2, <2>2
  <2>4. par[n] \in 0 .. N /\ par[n] < n /\ n \in Nat
    BY <1>1, <2>2, <2>3
  <2>5. f[par[n]] = g[par[n]]
    <3>1. par[n] \notin Wrong
      <4> HIDE DEF Wrong
      <4> QED
        BY <2>1, <2>4
    <3> QED
      BY <2>4, <3>1
  <2>6. f[n] = {n} \cup f[par[n]] /\ g[n] = {n} \cup g[par[n]]
    BY <1>2, <2>2, <2>3
  <2> QED
    BY <2>2, <2>5, <2>6
<1>4. \A n \in 0 .. N : f[n] = g[n]
  BY <1>3
<1> QED
  BY <1>2, <1>4

(* A number's ancestors are itself and those of its parent.                *)
LEMMA UpRecursion ==
  ASSUME NEW N, NEW par, IsTree(N, par)
  PROVE  /\ Up(N, par, 0) = {}
         /\ \A n \in 1 .. N : Up(N, par, n) = {n} \cup Up(N, par, par[n])
<1> DEFINE up == CHOOSE f : Ascends(N, par, f)
<1>1. Ascends(N, par, up)
  BY AscentExists
<1>2. \A c : Up(N, par, c) = up[c]
  BY DEF Up
<1> HIDE DEF up
<1>3. N \in Nat /\ \A n \in 1 .. N : par[n] \in 0 .. N
  BY DEF IsTree
<1>4. up = [n \in 0 .. N |-> IF n = 0 THEN {} ELSE {n} \cup up[par[n]]]
  BY <1>1 DEF Ascends
<1>5. \A n \in 0 .. N : up[n] = IF n = 0 THEN {} ELSE {n} \cup up[par[n]]
  BY <1>4
<1>6. up[0] = {}
  <2>1. 0 \in 0 .. N
    BY <1>3
  <2> QED
    BY <1>5, <2>1
<1>7. ASSUME NEW n \in 1 .. N
      PROVE  up[n] = {n} \cup up[par[n]]
  <2>1. n \in 0 .. N /\ n # 0
    BY <1>3
  <2> QED
    BY <1>5, <2>1
<1> QED
  BY <1>2, <1>6, <1>7

(* An ascent is what Up gives.                                             *)
LEMMA AscentIsUp ==
  ASSUME NEW N, NEW par, IsTree(N, par), NEW f, Ascends(N, par, f), NEW c
  PROVE  f[c] = Up(N, par, c)
<1> DEFINE up == CHOOSE g : Ascends(N, par, g)
<1>1. Ascends(N, par, up)
  BY AscentExists
<1>2. Up(N, par, c) = up[c]
  BY DEF Up
<1> HIDE DEF up
<1>3. f = up
  BY <1>1, AscentUnique
<1> QED
  BY <1>2, <1>3

(* A chain of numbers: what c has above it, and how it relates to what its *)
(* ancestors have above them.                                              *)
UpFacts(N, par, c) ==
  /\ Up(N, par, c) \subseteq 1 .. c
  /\ c # 0 => c \in Up(N, par, c)
  /\ \A a \in Up(N, par, c) :
       /\ Up(N, par, a) = {b \in Up(N, par, c) : b <= a}
       /\ par[a] \in {0} \cup Up(N, par, c)

(* Ancestors are a chain, in the order of the numbers.                     *)
LEMMA UpIsChain ==
  ASSUME NEW N, NEW par, IsTree(N, par)
  PROVE  \A c \in 0 .. N : UpFacts(N, par, c)
<1> DEFINE Wrong == {c \in 0 .. N : ~ UpFacts(N, par, c)}
           up(c) == Up(N, par, c)
<1>1. N \in Nat /\ \A n \in 1 .. N : par[n] \in 0 .. N /\ par[n] < n
  BY DEF IsTree
<1>2. up(0) = {} /\ \A n \in 1 .. N : up(n) = {n} \cup up(par[n])
  BY UpRecursion
<1>3. Wrong = {}
  <2> SUFFICES ASSUME Wrong # {}
               PROVE  FALSE
    OBVIOUS
  <2>1. PICK c \in Wrong : \A k \in Wrong : c <= k
    <3>1. Wrong \in SUBSET Nat
      BY <1>1
    <3> HIDE DEF Wrong
    <3> QED
      BY <3>1, LeastNumber
  <2>2. c \in 0 .. N /\ ~ UpFacts(N, par, c)
    OBVIOUS
  <2>3. c # 0
    BY <1>2, <2>2 DEF UpFacts
  <2> DEFINE p == par[c]
  <2>4. p \in 0 .. N /\ p < c /\ c \in 1 .. N
    BY <1>1, <2>2, <2>3
  <2>5. UpFacts(N, par, p)
    <3>1. p \notin Wrong
      <4> HIDE DEF Wrong, p
      <4> QED
        BY <2>1, <2>4, <1>1
    <3> HIDE DEF p
    <3> QED
      BY <2>4, <3>1
  <2>6. up(c) = {c} \cup up(p)
    BY <1>2, <2>4
  <2>7. /\ up(p) \subseteq 1 .. p /\ (p # 0 => p \in up(p))
        /\ \A a \in up(p) : up(a) = {b \in up(p) : b <= a} /\ par[a] \in {0} \cup up(p)
    <3> HIDE DEF p
    <3> QED
      BY <2>5 DEF UpFacts
  <2>8. up(c) \subseteq 1 .. c
    <3> HIDE DEF p, up
    <3> QED
      BY <1>1, <2>4, <2>6, <2>7
  <2>9. ASSUME NEW a \in up(c)
        PROVE  up(a) = {b \in up(c) : b <= a} /\ par[a] \in {0} \cup up(c)
    <3>1. CASE a = c
      <4>1. up(a) = {b \in up(c) : b <= a}
        <5> HIDE DEF up
        <5> QED
          BY <3>1, <2>8
      <4>2. par[a] \in {0} \cup up(c)
        BY <2>6, <2>7, <3>1
      <4> QED
        BY <4>1, <4>2
    <3>2. CASE a # c
      <4>1. a \in up(p)
        BY <2>6, <3>2
      <4>2. a \in Nat /\ c \in Nat /\ a < c
        <5> HIDE DEF up, p
        <5> QED
          BY <1>1, <2>4, <2>7, <4>1
      <4>3. {b \in up(c) : b <= a} = {b \in up(p) : b <= a}
        <5> HIDE DEF up, p
        <5> QED
          BY <2>6, <4>2
      <4> HIDE DEF up, p
      <4> QED
        BY <2>6, <2>7, <4>1, <4>3
    <3> QED
      BY <3>1, <3>2
  <2> QED
    BY <2>2, <2>6, <2>8, <2>9 DEF UpFacts
<1> QED
  BY <1>3

-----------------------------------------------------------------------------
(* Commands and their ancestors *)

(* Commands are recorded on top of earlier ones of their own track. *)
Ordered(cs) ==
  /\ cs \in Seq(Command)
  /\ \A n \in 1 .. Len(cs) :
       /\ cs[n].parent < n
       /\ cs[n].parent # 0 => cs[cs[n].parent].trackName = cs[n].trackName

Parents(cs) == [n \in 1 .. Len(cs) |-> cs[n].parent]

Anc(cs, c) == Up(Len(cs), Parents(cs), c)

(* Commands are a tree.                                                    *)
LEMMA CommandTree ==
  ASSUME NEW cs, Ordered(cs)
  PROVE  /\ Len(cs) \in Nat /\ DOMAIN cs = 1 .. Len(cs)
         /\ IsTree(Len(cs), Parents(cs))
         /\ \A n \in 1 .. Len(cs) :
              /\ cs[n] \in Command
              /\ cs[n].parent \in 0 .. Len(cs) /\ cs[n].parent < n
              /\ Parents(cs)[n] = cs[n].parent
              /\ cs[n].parent # 0 => cs[cs[n].parent].trackName = cs[n].trackName
<1>1. cs \in Seq(Command)
  BY DEF Ordered
<1>2. Len(cs) \in Nat /\ DOMAIN cs = 1 .. Len(cs)
  BY <1>1
<1>3. \A n \in 1 .. Len(cs) : cs[n] \in Command
  BY <1>1, <1>2
<1>4. \A n \in 1 .. Len(cs) : cs[n].parent \in Nat
  BY <1>3 DEF Command
<1>5. \A n \in 1 .. Len(cs) : cs[n].parent \in 0 .. Len(cs) /\ cs[n].parent < n
  BY <1>2, <1>4 DEF Ordered
<1>6. \A n \in 1 .. Len(cs) : Parents(cs)[n] = cs[n].parent
  BY DEF Parents
<1>7. Parents(cs) \in [1 .. Len(cs) -> 0 .. Len(cs)]
  BY <1>5 DEF Parents
<1>8. IsTree(Len(cs), Parents(cs))
  BY <1>2, <1>5, <1>6, <1>7 DEF IsTree
<1> QED
  BY <1>2, <1>3, <1>5, <1>6, <1>8 DEF Ordered

(* The ancestors of a command depend on the commands only.                 *)
LEMMA AncestorsAreAnc ==
  ASSUME NEW u, Ordered(u.commands), NEW c
  PROVE  AncestorsAndSelf(u, c) = Anc(u.commands, c)
<1> DEFINE cs == u.commands
           Is(f) == f = [n \in 0 .. Len(cs) |-> IF n = 0 THEN {} ELSE {n} \cup f[cs[n].parent]]
<1>1. ASSUME NEW f
      PROVE  Is(f) <=> Ascends(Len(cs), Parents(cs), f)
  <2>1. \A n \in 0 .. Len(cs) :
          (IF n = 0 THEN {} ELSE {n} \cup f[cs[n].parent])
            = (IF n = 0 THEN {} ELSE {n} \cup f[Parents(cs)[n]])
    <3> TAKE n \in 0 .. Len(cs)
    <3>1. n # 0 => n \in 1 .. Len(cs)
      BY CommandTree
    <3> QED
      BY <3>1, CommandTree
  <2> QED
    BY <2>1 DEF Ascends
<1>2. AncestorsAndSelf(u, c) = (CHOOSE f : Is(f))[c]
  BY DEF AncestorsAndSelf
<1> HIDE DEF Is
<1>3. (CHOOSE f : Is(f)) = CHOOSE f : Ascends(Len(cs), Parents(cs), f)
  BY <1>1
<1> QED
  BY <1>2, <1>3 DEF Anc, Up

(* What the ancestors of a command are.                                    *)
LEMMA AncFacts ==
  ASSUME NEW cs, Ordered(cs)
  PROVE  /\ Anc(cs, 0) = {}
         /\ \A c \in 1 .. Len(cs) :
              /\ c \in Anc(cs, c) /\ Anc(cs, c) \subseteq 1 .. c
              /\ Anc(cs, c) = {c} \cup Anc(cs, cs[c].parent)
              /\ Anc(cs, cs[c].parent) = Anc(cs, c) \ {c}
              /\ \A a \in Anc(cs, c) :
                   /\ a \in 1 .. Len(cs)
                   /\ Anc(cs, a) = {b \in Anc(cs, c) : b <= a}
                   /\ cs[a].parent \in {0} \cup Anc(cs, c)
<1>1. /\ Len(cs) \in Nat /\ IsTree(Len(cs), Parents(cs))
      /\ \A n \in 1 .. Len(cs) : /\ Parents(cs)[n] = cs[n].parent
                                 /\ cs[n].parent \in 0 .. Len(cs) /\ cs[n].parent < n
  BY CommandTree
<1>2. \A c \in 0 .. Len(cs) : UpFacts(Len(cs), Parents(cs), c)
  BY <1>1, UpIsChain
<1>3. /\ Anc(cs, 0) = {}
      /\ \A n \in 1 .. Len(cs) : Anc(cs, n) = {n} \cup Anc(cs, cs[n].parent)
  BY <1>1, UpRecursion DEF Anc
<1>4. ASSUME NEW c \in 0 .. Len(cs)
      PROVE  /\ Anc(cs, c) \subseteq 1 .. c
             /\ c # 0 => c \in Anc(cs, c)
             /\ \A a \in Anc(cs, c) :
                  /\ Anc(cs, a) = {b \in Anc(cs, c) : b <= a}
                  /\ Parents(cs)[a] \in {0} \cup Anc(cs, c)
  BY <1>2 DEF Anc, UpFacts
<1>5. ASSUME NEW c \in 1 .. Len(cs)
      PROVE  /\ c \in Anc(cs, c) /\ Anc(cs, c) \subseteq 1 .. c
             /\ Anc(cs, c) = {c} \cup Anc(cs, cs[c].parent)
             /\ Anc(cs, cs[c].parent) = Anc(cs, c) \ {c}
             /\ \A a \in Anc(cs, c) :
                  /\ a \in 1 .. Len(cs)
                  /\ Anc(cs, a) = {b \in Anc(cs, c) : b <= a}
                  /\ cs[a].parent \in {0} \cup Anc(cs, c)
  <2>1. c \in 0 .. Len(cs) /\ c # 0 /\ cs[c].parent \in 0 .. Len(cs) /\ cs[c].parent < c
    BY <1>1
  <2>2. c \in Anc(cs, c) /\ Anc(cs, c) \subseteq 1 .. c
    BY <1>4, <2>1
  <2>3. Anc(cs, c) = {c} \cup Anc(cs, cs[c].parent)
    BY <1>3
  <2>4. c \notin Anc(cs, cs[c].parent)
    <3>1. Anc(cs, cs[c].parent) \subseteq 1 .. cs[c].parent
      BY <1>4, <2>1
    <3> QED
      BY <2>1, <3>1
  <2>5. \A a \in Anc(cs, c) : a \in 1 .. Len(cs)
    BY <1>1, <2>1, <2>2
  <2>6. \A a \in Anc(cs, c) : /\ Anc(cs, a) = {b \in Anc(cs, c) : b <= a}
                              /\ Parents(cs)[a] \in {0} \cup Anc(cs, c)
    BY <1>4, <2>1
  <2>7. \A a \in Anc(cs, c) : cs[a].parent \in {0} \cup Anc(cs, c)
    BY <1>1, <2>5, <2>6
  <2> QED
    BY <2>2, <2>3, <2>4, <2>5, <2>6, <2>7
<1> QED
  BY <1>3, <1>5

(* They are of the command's track.                                        *)
LEMMA AncestorsOfTrack ==
  ASSUME NEW cs, Ordered(cs), NEW c \in 1 .. Len(cs), NEW a \in Anc(cs, c)
  PROVE  cs[a].trackName = cs[c].trackName
<1> DEFINE Wrong == {n \in 1 .. Len(cs) :
                       \E b \in Anc(cs, n) : cs[b].trackName # cs[n].trackName}
<1>1. /\ Len(cs) \in Nat
      /\ \A n \in 1 .. Len(cs) :
           /\ cs[n].parent \in 0 .. Len(cs) /\ cs[n].parent < n
           /\ cs[n].parent # 0 => cs[cs[n].parent].trackName = cs[n].trackName
  BY CommandTree
<1>2. /\ Anc(cs, 0) = {}
      /\ \A n \in 1 .. Len(cs) : Anc(cs, n) = {n} \cup Anc(cs, cs[n].parent)
  BY AncFacts
<1>3. Wrong = {}
  <2> SUFFICES ASSUME Wrong # {}
               PROVE  FALSE
    OBVIOUS
  <2>1. PICK n \in Wrong : \A k \in Wrong : n <= k
    <3>1. Wrong \in SUBSET Nat
      BY <1>1
    <3> HIDE DEF Wrong
    <3> QED
      BY <3>1, LeastNumber
  <2>2. PICK b \in Anc(cs, n) : cs[b].trackName # cs[n].trackName
    OBVIOUS
  <2>3. n \in 1 .. Len(cs)
    OBVIOUS
  <2> DEFINE p == cs[n].parent
  <2>4. b \in Anc(cs, p) /\ p \in 1 .. Len(cs) /\ p < n
    BY <1>1, <1>2, <2>2, <2>3
  <2>5. p \in Wrong
    BY <1>1, <2>2, <2>3, <2>4
  <2> HIDE DEF Wrong, p
  <2> QED
    BY <1>1, <2>1, <2>3, <2>4, <2>5
<1> QED
  BY <1>3

(* A command recorded on top of another has the older ones' ancestors.     *)
LEMMA AncAppend ==
  ASSUME NEW cs, Ordered(cs), NEW c \in Command, c.parent \in 0 .. Len(cs),
         c.parent # 0 => cs[c.parent].trackName = c.trackName
  PROVE  /\ Ordered(Append(cs, c))
         /\ Len(Append(cs, c)) = Len(cs) + 1
         /\ \A n \in 1 .. Len(cs) : Append(cs, c)[n] = cs[n]
         /\ Append(cs, c)[Len(cs) + 1] = c
         /\ \A n \in 0 .. Len(cs) : Anc(Append(cs, c), n) = Anc(cs, n)
         /\ Anc(Append(cs, c), Len(cs) + 1) = {Len(cs) + 1} \cup Anc(cs, c.parent)
<1> DEFINE N == Len(cs)
           ds == Append(cs, c)
<1>1. /\ cs \in Seq(Command) /\ N \in Nat
      /\ \A n \in 1 .. N : /\ cs[n].parent \in 0 .. N /\ cs[n].parent < n
                           /\ cs[n].parent # 0 => cs[cs[n].parent].trackName = cs[n].trackName
  BY CommandTree DEF Ordered
<1>2. /\ ds \in Seq(Command) /\ Len(ds) = N + 1
      /\ \A n \in 1 .. N : ds[n] = cs[n]
      /\ ds[N + 1] = c
  BY <1>1
<1> HIDE DEF ds
<1>3. Ordered(ds)
  <2> SUFFICES ASSUME NEW n \in 1 .. Len(ds)
               PROVE  /\ ds[n].parent < n
                      /\ ds[n].parent # 0 => ds[ds[n].parent].trackName = ds[n].trackName
    BY <1>2 DEF Ordered
  <2>1. CASE n = N + 1
    <3>1. ds[n] = c /\ c.parent < n /\ (c.parent # 0 => c.parent \in 1 .. N)
      BY <1>1, <1>2, <2>1
    <3> QED
      BY <1>2, <3>1
  <2>2. CASE n # N + 1
    <3>1. n \in 1 .. N
      BY <1>1, <1>2, <2>2
    <3>2. ds[n] = cs[n] /\ (cs[n].parent # 0 => cs[n].parent \in 1 .. N)
      BY <1>1, <1>2, <3>1
    <3> QED
      BY <1>1, <1>2, <3>1, <3>2
  <2> QED
    BY <2>1, <2>2
<1>4. \A n \in 0 .. N : Anc(ds, n) = Anc(cs, n)
  <2> DEFINE Wrong == {n \in 0 .. N : Anc(ds, n) # Anc(cs, n)}
  <2> SUFFICES ASSUME Wrong # {}
               PROVE  FALSE
    OBVIOUS
  <2>1. PICK n \in Wrong : \A k \in Wrong : n <= k
    <3>1. Wrong \in SUBSET Nat
      BY <1>1
    <3> HIDE DEF Wrong
    <3> QED
      BY <3>1, LeastNumber
  <2>2. n \in 0 .. N /\ Anc(ds, n) # Anc(cs, n)
    OBVIOUS
  <2>3. Anc(ds, 0) = {} /\ Anc(cs, 0) = {}
    BY <1>3, AncFacts
  <2>4. n \in 1 .. N /\ n \in 1 .. Len(ds)
    <3>1. n # 0
      BY <2>2, <2>3
    <3> QED
      BY <1>1, <1>2, <2>2, <3>1
  <2> DEFINE p == cs[n].parent
  <2>5. p \in 0 .. N /\ p < n /\ ds[n].parent = p
    BY <1>1, <1>2, <2>4
  <2>6. p \notin Wrong
    <3> HIDE DEF Wrong, p
    <3> QED
      BY <1>1, <2>1, <2>2, <2>5
  <2>7. Anc(ds, p) = Anc(cs, p)
    BY <2>5, <2>6
  <2>8. Anc(ds, n) = {n} \cup Anc(ds, p) /\ Anc(cs, n) = {n} \cup Anc(cs, p)
    BY <1>3, <2>4, <2>5, AncFacts
  <2> QED
    BY <2>2, <2>7, <2>8
<1>5. Anc(ds, N + 1) = {N + 1} \cup Anc(ds, c.parent)
  <2>1. N + 1 \in 1 .. Len(ds)
    BY <1>1, <1>2
  <2> QED
    BY <1>2, <1>3, <2>1, AncFacts
<1> QED
  BY <1>2, <1>3, <1>4, <1>5 DEF ds

(* A memory that knows no parent but those recorded. *)
KnowsParents(m, u) ==
  /\ DOMAIN m.parents \subseteq 1 .. Len(u.commands)
  /\ \A c \in DOMAIN m.parents : m.parents[c] = u.commands[c].parent

(* An undo store that keeps every row. *)
KeepsRows(u) ==
  Ordered(u.commands) /\ u.rows = 1 .. Len(u.commands) /\ u.marked = {}

(* When no row is gone, what a track object walks are the ancestors.       *)
LEMMA LineageIsAnc ==
  ASSUME NEW u, KeepsRows(u), NEW m, KnowsParents(m, u)
  PROVE  /\ Known(m, u) = 1 .. Len(u.commands)
         /\ \A c \in 1 .. Len(u.commands) : ParentOf(m, u, c) = u.commands[c].parent
         /\ \A c : Lineage(m, u, c) = Anc(u.commands, c)
         /\ \A c \in 0 .. Len(u.commands) : Chain(m, u, c) = Anc(u.commands, c)
<1> DEFINE cs == u.commands
           N == Len(cs)
           Is(f) == f = [n \in 0 .. N |->
                           IF n = 0 THEN {}
                           ELSE {n} \cup (IF n \in Known(m, u) THEN f[ParentOf(m, u, n)] ELSE {})]
<1>1. Ordered(cs) /\ u.rows = 1 .. N /\ u.marked = {}
  BY DEF KeepsRows
<1>2. Known(m, u) = 1 .. N
  BY <1>1 DEF Known, LiveRows, KnowsParents
<1>3. /\ N \in Nat
      /\ \A n \in 1 .. N : /\ Parents(cs)[n] = cs[n].parent
                           /\ cs[n].parent \in 0 .. N
  BY <1>1, CommandTree
<1>4. ASSUME NEW c \in 1 .. N
      PROVE  ParentOf(m, u, c) = cs[c].parent
  <2>1. CASE c \in DOMAIN m.parents
    BY <2>1 DEF ParentOf, KnowsParents
  <2>2. CASE c \notin DOMAIN m.parents /\ cs[c].parent \in u.rows
    BY <2>2 DEF ParentOf
  <2>3. CASE c \notin DOMAIN m.parents /\ cs[c].parent \notin u.rows
    <3>1. cs[c].parent = 0
      BY <1>1, <1>3, <2>3
    <3> QED
      BY <2>3, <3>1 DEF ParentOf
  <2> QED
    BY <2>1, <2>2, <2>3
<1>5. ASSUME NEW f
      PROVE  Is(f) <=> Ascends(N, Parents(cs), f)
  <2>1. \A n \in 0 .. N :
          (IF n = 0 THEN {} ELSE {n} \cup (IF n \in Known(m, u) THEN f[ParentOf(m, u, n)] ELSE {}))
            = (IF n = 0 THEN {} ELSE {n} \cup f[Parents(cs)[n]])
    <3> TAKE n \in 0 .. N
    <3>1. n # 0 => n \in 1 .. N
      BY <1>3
    <3> QED
      BY <1>2, <1>3, <1>4, <3>1
  <2> QED
    BY <2>1 DEF Ascends
<1>6. \A c : Lineage(m, u, c) = (CHOOSE f : Is(f))[c]
  BY DEF Lineage
<1> HIDE DEF Is
<1>7. (CHOOSE f : Is(f)) = CHOOSE f : Ascends(N, Parents(cs), f)
  BY <1>5
<1>8. \A c : Lineage(m, u, c) = Anc(cs, c)
  BY <1>6, <1>7 DEF Anc, Up
<1>9. \A c \in 0 .. N : Anc(cs, c) \subseteq 1 .. N
  <2> TAKE c \in 0 .. N
  <2>1. CASE c = 0
    BY <1>1, <2>1, AncFacts
  <2>2. CASE c # 0
    <3>1. c \in 1 .. N
      BY <1>3, <2>2
    <3>2. Anc(cs, c) \subseteq 1 .. c
      BY <1>1, <3>1, AncFacts
    <3> QED
      BY <1>3, <3>1, <3>2
  <2> QED
    BY <2>1, <2>2
<1> QED
  BY <1>2, <1>4, <1>8, <1>9 DEF Chain

-----------------------------------------------------------------------------
(* Commands in their order *)

InOrder(s, C) ==
  /\ s \in Seq(C) /\ Range(s) = C
  /\ \A j, k \in 1 .. Len(s) : j < k => s[j] < s[k]

(* There is one way to put a set of numbers in order.                      *)
LEMMA OneOrder ==
  ASSUME NEW C \in SUBSET Nat, NEW s, InOrder(s, C), NEW t, InOrder(t, C),
         Len(s) = Len(t)
  PROVE  s = t
<1> DEFINE Wrong == {k \in 1 .. Len(s) : s[k] # t[k]}
<1>1. /\ s \in Seq(C) /\ t \in Seq(C) /\ Len(s) \in Nat
      /\ DOMAIN s = 1 .. Len(s) /\ DOMAIN t = 1 .. Len(s)
      /\ \A k \in 1 .. Len(s) : s[k] \in C /\ t[k] \in C /\ s[k] \in Nat /\ t[k] \in Nat
  <2>1. s \in Seq(C) /\ t \in Seq(C)
    BY DEF InOrder
  <2>2. Len(s) \in Nat /\ DOMAIN s = 1 .. Len(s) /\ DOMAIN t = 1 .. Len(s)
    BY <2>1
  <2>3. \A k \in 1 .. Len(s) : s[k] \in C /\ t[k] \in C
    BY <2>1, <2>2
  <2> QED
    BY <2>1, <2>2, <2>3
<1>2. /\ \A x \in C : \E k \in 1 .. Len(s) : s[k] = x
      /\ \A x \in C : \E k \in 1 .. Len(s) : t[k] = x
  BY <1>1 DEF InOrder, Range
<1>3. /\ \A j, k \in 1 .. Len(s) : j < k => s[j] < s[k]
      /\ \A j, k \in 1 .. Len(s) : j < k => t[j] < t[k]
  BY DEF InOrder
<1>4. Wrong = {}
  <2> SUFFICES ASSUME Wrong # {}
               PROVE  FALSE
    OBVIOUS
  <2>1. PICK k \in Wrong : \A j \in Wrong : k <= j
    <3>1. Wrong \in SUBSET Nat
      BY <1>1
    <3> HIDE DEF Wrong
    <3> QED
      BY <3>1, LeastNumber
  <2>2. k \in 1 .. Len(s) /\ s[k] # t[k]
    OBVIOUS
  <2>3. \A j \in 1 .. Len(s) : j < k => s[j] = t[j]
    <3> TAKE j \in 1 .. Len(s)
    <3>1. j \in Nat /\ k \in Nat
      BY <1>1, <2>2
    <3>2. ~ (k <= j) => j \notin Wrong
      <4> HIDE DEF Wrong
      <4> QED
        BY <2>1
    <3> QED
      BY <3>1, <3>2
  <2> HIDE DEF Wrong
  <2>4. PICK i \in 1 .. Len(s) : t[i] = s[k]
    BY <1>1, <1>2, <2>2
  <2>5. PICK j \in 1 .. Len(s) : s[j] = t[k]
    BY <1>1, <1>2, <2>2
  <2>6. i \in Nat /\ j \in Nat /\ k \in Nat /\ s[k] \in Nat /\ t[k] \in Nat /\ s[j] \in Nat
    BY <1>1, <2>2
  <2>7. ~ (i < k) /\ ~ (j < k)
    <3>1. i < k => s[i] = t[i] /\ s[i] < s[k]
      BY <1>3, <2>2, <2>3
    <3>2. j < k => s[j] = t[j] /\ t[j] < t[k]
      BY <1>3, <2>2, <2>3
    <3> QED
      BY <2>4, <2>5, <2>6, <3>1, <3>2
  <2>8. (k < i => t[k] < t[i]) /\ (k < j => s[k] < s[j])
    BY <1>3, <2>2
  <2>9. k < i /\ k < j
    BY <2>2, <2>4, <2>5, <2>6, <2>7
  <2> QED
    BY <2>4, <2>5, <2>6, <2>8, <2>9
<1> QED
  BY <1>1, <1>4

(* The length of an order is the number of its members.                    *)
LEMMA OrderLength ==
  ASSUME NEW C \in SUBSET Nat, NEW s, InOrder(s, C)
  PROVE  IsFiniteSet(C) /\ Cardinality(C) = Len(s)
<1>1. Len(s) \in Nat /\ s \in [1 .. Len(s) -> C]
  BY DEF InOrder
<1>2. \A j, k \in 1 .. Len(s) : j # k => s[j] # s[k]
  <2> SUFFICES ASSUME NEW j \in 1 .. Len(s), NEW k \in 1 .. Len(s), j # k
               PROVE  s[j] # s[k]
    OBVIOUS
  <2>1. s[j] \in Nat /\ s[k] \in Nat
    BY <1>1
  <2>2. j < k \/ k < j
    BY <1>1
  <2> QED
    BY <2>1, <2>2 DEF InOrder
<1>3. \A x \in C : \E k \in 1 .. Len(s) : s[k] = x
  BY <1>1 DEF InOrder, Range
<1>4. s \in Bijection(1 .. Len(s), C)
  BY <1>1, <1>2, <1>3 DEF Bijection, Injection, Surjection, IsInjective
<1>5. ExistsBijection(1 .. Len(s), C)
  BY <1>4 DEF ExistsBijection
<1> QED
  BY <1>1, <1>5, FS_CountingElements, FS_NatBijection

(* Two orders, all of one before all of the other, are the order of both.  *)
LEMMA OrderOfBoth ==
  ASSUME NEW C \in SUBSET Nat, NEW s, InOrder(s, C),
         NEW D \in SUBSET Nat, NEW t, InOrder(t, D),
         \A c \in C, d \in D : c < d
  PROVE  InOrder(s \o t, C \cup D)
<1>1. s \in Seq(C) /\ t \in Seq(D)
  BY DEF InOrder
<1>2. /\ Len(s) \in Nat /\ DOMAIN s = 1 .. Len(s)
      /\ Len(t) \in Nat /\ DOMAIN t = 1 .. Len(t)
      /\ \A k \in 1 .. Len(s) : s[k] \in C
      /\ \A k \in 1 .. Len(t) : t[k] \in D
  BY <1>1
<1>3. /\ Len(s \o t) = Len(s) + Len(t)
      /\ \A k \in 1 .. Len(s) + Len(t) :
           (s \o t)[k] = IF k <= Len(s) THEN s[k] ELSE t[k - Len(s)]
  BY <1>1
<1> DEFINE st == s \o t
<1>4. st \in Seq(C \cup D)
  <2>1. s \in Seq(C \cup D) /\ t \in Seq(C \cup D)
    BY <1>1
  <2> QED
    BY <2>1
<1>5. DOMAIN st = 1 .. Len(s) + Len(t)
  BY <1>3, <1>4
<1> HIDE DEF st
<1>6. /\ \A k \in 1 .. Len(s) : st[k] = s[k]
      /\ \A k \in 1 .. Len(t) : st[Len(s) + k] = t[k]
  <2>1. \A k \in 1 .. Len(s) : k \in 1 .. Len(s) + Len(t) /\ k <= Len(s)
    BY <1>2
  <2>2. \A k \in 1 .. Len(t) : /\ Len(s) + k \in 1 .. Len(s) + Len(t)
                               /\ ~ (Len(s) + k <= Len(s)) /\ Len(s) + k - Len(s) = k
    BY <1>2
  <2> QED
    BY <1>3, <2>1, <2>2 DEF st
<1>7. \A k \in 1 .. Len(s) + Len(t) :
        k \in 1 .. Len(s) \/ \E j \in 1 .. Len(t) : k = Len(s) + j
  <2> TAKE k \in 1 .. Len(s) + Len(t)
  <2>1. CASE k <= Len(s)
    BY <1>2, <2>1
  <2>2. CASE ~ (k <= Len(s))
    <3>1. k - Len(s) \in 1 .. Len(t) /\ k = Len(s) + (k - Len(s))
      BY <1>2, <2>2
    <3> QED
      BY <3>1
  <2> QED
    BY <2>1, <2>2
<1>8. Range(st) = C \cup D
  <2>1. /\ \A x \in C : \E k \in 1 .. Len(s) : s[k] = x
        /\ \A x \in D : \E k \in 1 .. Len(t) : t[k] = x
    BY <1>2 DEF InOrder, Range
  <2>2. /\ \A k \in 1 .. Len(s) : k \in DOMAIN st
        /\ \A k \in 1 .. Len(t) : Len(s) + k \in DOMAIN st
    BY <1>2, <1>5
  <2>3. \A x \in C \cup D : \E k \in DOMAIN st : st[k] = x
    BY <1>6, <2>1, <2>2
  <2>4. \A k \in DOMAIN st : st[k] \in C \cup D
    BY <1>2, <1>5, <1>6, <1>7
  <2>5. Range(st) = {st[k] : k \in DOMAIN st}
    BY DEF Range
  <2>6. \A x : x \in C \cup D <=> \E k \in DOMAIN st : x = st[k]
    BY <2>3, <2>4
  <2> QED
    BY <2>5, <2>6
<1>9. ASSUME NEW j \in 1 .. Len(s) + Len(t), NEW k \in 1 .. Len(s) + Len(t), j < k
      PROVE  st[j] < st[k]
  <2>1. CASE j \in 1 .. Len(s) /\ k \in 1 .. Len(s)
    BY <1>6, <1>9, <2>1 DEF InOrder
  <2>2. CASE j \in 1 .. Len(s) /\ k \notin 1 .. Len(s)
    <3>1. PICK i \in 1 .. Len(t) : k = Len(s) + i
      BY <1>7, <2>2
    <3>2. st[j] = s[j] /\ st[k] = t[i] /\ s[j] \in C /\ t[i] \in D
      BY <1>2, <1>6, <2>2, <3>1
    <3> QED
      BY <3>2
  <2>3. CASE j \notin 1 .. Len(s)
    <3>1. PICK i \in 1 .. Len(t) : j = Len(s) + i
      BY <1>7, <2>3
    <3>2. k \notin 1 .. Len(s)
      BY <1>2, <1>9, <2>3
    <3>3. PICK l \in 1 .. Len(t) : k = Len(s) + l
      BY <1>7, <3>2
    <3>4. i < l
      BY <1>2, <1>9, <3>1, <3>3
    <3>5. st[j] = t[i] /\ st[k] = t[l]
      BY <1>6, <3>1, <3>3
    <3> QED
      BY <3>4, <3>5 DEF InOrder
  <2> QED
    BY <2>1, <2>2, <2>3
<1>10. Len(st) = Len(s) + Len(t)
  BY <1>3 DEF st
<1> QED
  BY <1>4, <1>8, <1>9, <1>10 DEF InOrder, st

(* Numbers up to a bound can be put in order.                              *)
LEMMA OrderExists ==
  ASSUME NEW N \in Nat, NEW C \in SUBSET (1 .. N)
  PROVE  \E s : InOrder(s, C)
<1> DEFINE Bad == {n \in 0 .. N : ~ \E s : InOrder(s, C \cap (1 .. n))}
<1>1. Bad = {}
  <2> SUFFICES ASSUME Bad # {}
               PROVE  FALSE
    OBVIOUS
  <2>1. PICK n \in Bad : \A k \in Bad : n <= k
    <3>1. Bad \in SUBSET Nat
      OBVIOUS
    <3> HIDE DEF Bad
    <3> QED
      BY <3>1, LeastNumber
  <2>2. n \in 0 .. N /\ ~ \E s : InOrder(s, C \cap (1 .. n))
    OBVIOUS
  <2>3. n # 0
    <3>1. C \cap (1 .. 0) = {}
      OBVIOUS
    <3>2. InOrder(<< >>, {})
      <4>1. << >> \in Seq({}) /\ Len(<< >>) = 0 /\ DOMAIN << >> = {}
        OBVIOUS
      <4>2. Range(<< >>) = {}
        BY <4>1 DEF Range
      <4> QED
        BY <4>1, <4>2 DEF InOrder
    <3> QED
      BY <2>2, <3>1, <3>2
  <2>4. n - 1 \in 0 .. N /\ n - 1 \notin Bad
    <3>1. n - 1 \in 0 .. N /\ ~ (n <= n - 1)
      BY <2>2, <2>3
    <3> HIDE DEF Bad
    <3> QED
      BY <2>1, <3>1
  <2> DEFINE D == C \cap (1 .. n - 1)
  <2>5. PICK s : InOrder(s, D)
    BY <2>4
  <2>6. CASE n \notin C
    <3>1. C \cap (1 .. n) = D
      BY <2>2, <2>6
    <3> QED
      BY <2>2, <2>5, <3>1
  <2>7. CASE n \in C
    <3>1. InOrder(<<n>>, {n})
      <4>1. <<n>> \in Seq({n}) /\ Len(<<n>>) = 1 /\ DOMAIN <<n>> = 1 .. 1 /\ <<n>>[1] = n
        OBVIOUS
      <4>2. Range(<<n>>) = {n}
        <5>1. 1 \in 1 .. 1 /\ \A k \in 1 .. 1 : k = 1
          OBVIOUS
        <5> QED
          BY <4>1, <5>1 DEF Range
      <4>3. \A j, k \in 1 .. 1 : ~ (j < k)
        OBVIOUS
      <4> QED
        BY <4>1, <4>2, <4>3 DEF InOrder
    <3>2. D \in SUBSET Nat /\ {n} \in SUBSET Nat /\ \A c \in D, d \in {n} : c < d
      BY <2>2
    <3>3. D \cup {n} = C \cap (1 .. n)
      BY <2>2, <2>3, <2>7
    <3> HIDE DEF D
    <3>4. InOrder(s \o <<n>>, D \cup {n})
      BY <2>5, <3>1, <3>2, OrderOfBoth
    <3> QED
      BY <2>2, <3>3, <3>4
  <2> QED
    BY <2>6, <2>7
<1>2. C \cap (1 .. N) = C
  OBVIOUS
<1>3. N \in 0 .. N
  OBVIOUS
<1> QED
  BY <1>1, <1>2, <1>3

(* Ascending puts commands in their order.                                 *)
LEMMA AscendingInOrder ==
  ASSUME NEW N \in Nat, NEW C \in SUBSET (1 .. N)
  PROVE  InOrder(Ascending(C), C)
<1> DEFINE Is(s) == Range(s) = C /\ \A j, k \in DOMAIN s : j < k => s[j] < s[k]
<1>1. PICK s : InOrder(s, C)
  BY OrderExists
<1>2. Cardinality(C) = Len(s) /\ Len(s) \in Nat /\ s \in [1 .. Len(s) -> C]
  BY <1>1, OrderLength DEF InOrder
<1>3. s \in [1 .. Cardinality(C) -> C] /\ Is(s)
  BY <1>1, <1>2 DEF InOrder
<1>4. Ascending(C) = CHOOSE t \in [1 .. Cardinality(C) -> C] : Is(t)
  BY DEF Ascending
<1> HIDE DEF Is
<1>5. Ascending(C) \in [1 .. Cardinality(C) -> C] /\ Is(Ascending(C))
  BY <1>3, <1>4
<1>6. Ascending(C) \in Seq(C) /\ DOMAIN Ascending(C) = 1 .. Len(Ascending(C))
  <2>1. Cardinality(C) \in Nat
    BY <1>2
  <2>2. Ascending(C) \in Seq(C)
    BY <1>5, <2>1
  <2> QED
    BY <2>2
<1> QED
  BY <1>5, <1>6 DEF Is, InOrder

(* The commands before a point and those after it, in their orders, are    *)
(* all of them in their order.                                             *)
LEMMA AscendingOfBoth ==
  ASSUME NEW N \in Nat, NEW C \in SUBSET (1 .. N), NEW D \in SUBSET (1 .. N),
         \A c \in C, d \in D : c < d
  PROVE  Ascending(C) \o Ascending(D) = Ascending(C \cup D)
<1>1. /\ InOrder(Ascending(C), C) /\ InOrder(Ascending(D), D)
      /\ InOrder(Ascending(C \cup D), C \cup D)
  BY AscendingInOrder
<1>2. C \in SUBSET Nat /\ D \in SUBSET Nat /\ C \cup D \in SUBSET Nat
  OBVIOUS
<1>3. InOrder(Ascending(C) \o Ascending(D), C \cup D)
  BY <1>1, <1>2, OrderOfBoth
<1>4. Len(Ascending(C) \o Ascending(D)) = Len(Ascending(C \cup D))
  BY <1>1, <1>2, <1>3, OrderLength
<1> QED
  BY <1>1, <1>2, <1>3, <1>4, OneOrder

-----------------------------------------------------------------------------
(* The object store *)

ObjectsOK(o) ==
  /\ o \in [rows : [PersistentRoot -> [current : Nat, head : Nat, deleted : BOOLEAN]],
            revisions : [PersistentRoot -> Seq([parent : Nat, edits : SUBSET Nat])],
            stored : [PersistentRoot -> SUBSET Nat],
            misapplied : [PersistentRoot -> SUBSET Nat]]
  /\ \A p \in PersistentRoot :
       /\ o.rows[p].current \in 1 .. LastRevid(o, p) /\ o.rows[p].head \in 1 .. LastRevid(o, p)
       /\ o.stored[p] \subseteq 1 .. LastRevid(o, p)
       /\ o.misapplied[p] \subseteq 1 .. LastRevid(o, p)
       /\ \A r \in 1 .. LastRevid(o, p) :
            /\ o.revisions[p][r].parent \in 0 .. LastRevid(o, p)
            /\ Edits(o, p, r) \subseteq 1 .. LastRevid(o, p)

(* o2 has the revisions of o, and more; what was misapplied stays so. *)
Later(o, o2) ==
  \A p \in PersistentRoot :
    /\ LastRevid(o, p) <= LastRevid(o2, p)
    /\ o.misapplied[p] \subseteq o2.misapplied[p]
    /\ \A r \in 1 .. LastRevid(o, p) : o2.revisions[p][r] = o.revisions[p][r]

(* Only p's row and revisions differ. *)
Changed(o, p, o2) ==
  /\ ObjectsOK(o2) /\ Later(o, o2)
  /\ \A q \in PersistentRoot \ {p} :
       o2.rows[q] = o.rows[q] /\ o2.revisions[q] = o.revisions[q]

(* The operation's revisions are there. *)
OpFits(o, p, op) ==
  /\ op \in Operation
  /\ op.kind = "set" => /\ op.old \in 1 .. LastRevid(o, p) /\ op.new \in 1 .. LastRevid(o, p)
                        /\ op.oldHead \in 1 .. LastRevid(o, p)
                        /\ op.newHead \in 1 .. LastRevid(o, p)

(* The parts of the object store.                                          *)
LEMMA ObjectParts ==
  ASSUME NEW o, ObjectsOK(o), NEW p \in PersistentRoot
  PROVE  /\ LastRevid(o, p) \in Nat /\ DOMAIN o.revisions[p] = 1 .. LastRevid(o, p)
         /\ o.rows[p] \in [current : Nat, head : Nat, deleted : BOOLEAN]
         /\ o.revisions[p] \in Seq([parent : Nat, edits : SUBSET Nat])
         /\ o.rows[p].current \in 1 .. LastRevid(o, p)
         /\ o.rows[p].head \in 1 .. LastRevid(o, p)
         /\ o.stored[p] \subseteq 1 .. LastRevid(o, p)
         /\ o.misapplied[p] \subseteq 1 .. LastRevid(o, p)
         /\ \A r \in 1 .. LastRevid(o, p) :
              /\ o.revisions[p][r] \in [parent : Nat, edits : SUBSET Nat]
              /\ o.revisions[p][r].parent \in 0 .. LastRevid(o, p)
              /\ Edits(o, p, r) \subseteq 1 .. LastRevid(o, p)
<1>1. /\ o.rows[p] \in [current : Nat, head : Nat, deleted : BOOLEAN]
      /\ o.revisions[p] \in Seq([parent : Nat, edits : SUBSET Nat])
  BY DEF ObjectsOK
<1>2. LastRevid(o, p) \in Nat /\ DOMAIN o.revisions[p] = 1 .. LastRevid(o, p)
  BY <1>1 DEF LastRevid
<1>3. \A r \in 1 .. LastRevid(o, p) :
        o.revisions[p][r] \in [parent : Nat, edits : SUBSET Nat]
  BY <1>1, ElementOfSeq DEF LastRevid
<1> QED
  BY <1>1, <1>2, <1>3 DEF ObjectsOK

(* A revision that is there stays as it is.                                *)
LEMMA LaterTransitive ==
  /\ \A o : ObjectsOK(o) => Later(o, o)
  /\ \A o, o2, o3 : /\ ObjectsOK(o) /\ ObjectsOK(o2) /\ ObjectsOK(o3)
                    /\ Later(o, o2) /\ Later(o2, o3)
                    => Later(o, o3)
<1>1. ASSUME NEW o, ObjectsOK(o)
      PROVE  Later(o, o)
  BY <1>1, ObjectParts DEF Later
<1>2. ASSUME NEW o, NEW o2, NEW o3, ObjectsOK(o), ObjectsOK(o2), ObjectsOK(o3),
             Later(o, o2), Later(o2, o3)
      PROVE  Later(o, o3)
  <2> SUFFICES ASSUME NEW p \in PersistentRoot
               PROVE  /\ LastRevid(o, p) <= LastRevid(o3, p)
                      /\ o.misapplied[p] \subseteq o3.misapplied[p]
                      /\ \A r \in 1 .. LastRevid(o, p) : o3.revisions[p][r] = o.revisions[p][r]
    BY DEF Later
  <2>1. /\ LastRevid(o, p) \in Nat /\ LastRevid(o2, p) \in Nat /\ LastRevid(o3, p) \in Nat
    BY <1>2, ObjectParts
  <2>2. /\ LastRevid(o, p) <= LastRevid(o2, p) /\ LastRevid(o2, p) <= LastRevid(o3, p)
        /\ o.misapplied[p] \subseteq o2.misapplied[p]
        /\ o2.misapplied[p] \subseteq o3.misapplied[p]
        /\ \A r \in 1 .. LastRevid(o, p) : o2.revisions[p][r] = o.revisions[p][r]
        /\ \A r \in 1 .. LastRevid(o2, p) : o3.revisions[p][r] = o2.revisions[p][r]
    BY <1>2 DEF Later
  <2>3. \A r \in 1 .. LastRevid(o, p) : r \in 1 .. LastRevid(o2, p)
    BY <2>1, <2>2
  <2> QED
    BY <2>1, <2>2, <2>3
<1> QED
  BY <1>1, <1>2

(* What a revision holds, it holds for good, and operations still fit.     *)
LEMMA LaterKeeps ==
  ASSUME NEW o, ObjectsOK(o), NEW o2, ObjectsOK(o2), Later(o, o2), NEW p \in PersistentRoot
  PROVE  /\ \A r \in 1 .. LastRevid(o, p) : /\ Edits(o2, p, r) = Edits(o, p, r)
                                            /\ r \in 1 .. LastRevid(o2, p)
         /\ \A op : OpFits(o, p, op) => /\ OpFits(o2, p, op)
                                        /\ TouchedBy(o2, p, op) = TouchedBy(o, p, op)
<1>1. LastRevid(o, p) \in Nat /\ LastRevid(o2, p) \in Nat /\ LastRevid(o, p) <= LastRevid(o2, p)
  BY ObjectParts DEF Later
<1>2. \A r \in 1 .. LastRevid(o, p) : /\ Edits(o2, p, r) = Edits(o, p, r)
                                      /\ r \in 1 .. LastRevid(o2, p)
  BY <1>1 DEF Later, Edits
<1>3. ASSUME NEW op, OpFits(o, p, op)
      PROVE  OpFits(o2, p, op) /\ TouchedBy(o2, p, op) = TouchedBy(o, p, op)
  BY <1>2, <1>3 DEF OpFits, TouchedBy
<1> QED
  BY <1>2, <1>3

(* Operations and their inverses.                                          *)
LEMMA Operations ==
  ASSUME NEW op \in Operation
  PROVE  /\ op.kind \in {"set", "delete", "undelete"}
         /\ Inversed(op) \in Operation
         /\ Inversed(op).kind = "set" <=> op.kind = "set"
         /\ op.kind = "set" => /\ Inversed(op).old = op.new /\ Inversed(op).new = op.old
                               /\ Inversed(op).oldHead = op.newHead
                               /\ Inversed(op).newHead = op.oldHead
<1>1. CASE op \in [kind : {"set"}, old : Revid, new : Revid, oldHead : Revid, newHead : Revid]
  <2>1. /\ op.kind = "set" /\ op.old \in Revid /\ op.new \in Revid
        /\ op.oldHead \in Revid /\ op.newHead \in Revid
        /\ op = [kind |-> "set", old |-> op.old, new |-> op.new,
                 oldHead |-> op.oldHead, newHead |-> op.newHead]
    BY <1>1
  <2>2. Inversed(op) = [kind |-> "set", old |-> op.new, new |-> op.old,
                        oldHead |-> op.newHead, newHead |-> op.oldHead]
    BY <2>1 DEF Inversed
  <2> QED
    BY <2>1, <2>2 DEF Operation
<1>2. CASE op \in [kind : {"delete", "undelete"}]
  BY <1>2 DEF Inversed, Operation
<1> QED
  BY <1>1, <1>2 DEF Operation

(* An inverse fits when the operation does.                                *)
LEMMA InverseFits ==
  ASSUME NEW o, NEW p, NEW op, OpFits(o, p, op)
  PROVE  OpFits(o, p, Inversed(op))
<1>1. op \in Operation
  BY DEF OpFits
<1>2. /\ Inversed(op) \in Operation
      /\ Inversed(op).kind = "set" <=> op.kind = "set"
      /\ op.kind = "set" => /\ Inversed(op).old = op.new /\ Inversed(op).new = op.old
                            /\ Inversed(op).oldHead = op.newHead
                            /\ Inversed(op).newHead = op.oldHead
  BY <1>1, Operations
<1> QED
  BY <1>2 DEF OpFits

(* A row with other revisions, and one that is deleted or not.             *)
LEMMA RowEdits ==
  ASSUME NEW w \in [current : Nat, head : Nat, deleted : BOOLEAN]
  PROVE  /\ \A r, h \in Nat :
              LET v == [w EXCEPT !.current = r, !.head = h]
              IN /\ v \in [current : Nat, head : Nat, deleted : BOOLEAN]
                 /\ v.current = r /\ v.head = h /\ v.deleted = w.deleted
         /\ \A b \in BOOLEAN :
              LET v == [w EXCEPT !.deleted = b]
              IN /\ v \in [current : Nat, head : Nat, deleted : BOOLEAN]
                 /\ v.current = w.current /\ v.head = w.head /\ v.deleted = b
OBVIOUS

(* A new revision: what is there stays, and the root's row is at it.       *)
LEMMA WriteChanges ==
  ASSUME NEW o, ObjectsOK(o), NEW p \in PersistentRoot,
         NEW edits \in SUBSET (1 .. LastRevid(o, p) + 1),
         NEW o2, o2 = WriteRevision(o, p, edits)
  PROVE  /\ Changed(o, p, o2)
         /\ LastRevid(o2, p) = LastRevid(o, p) + 1
         /\ o2.rows[p].current = LastRevid(o, p) + 1
         /\ o2.rows[p].head = LastRevid(o, p) + 1
         /\ o2.rows[p].deleted = o.rows[p].deleted
         /\ Edits(o2, p, LastRevid(o, p) + 1) = edits
         /\ o2.misapplied = o.misapplied
<1> DEFINE r == LastRevid(o, p) + 1
           rev == [parent |-> o.rows[p].current, edits |-> edits]
           row == [o.rows[p] EXCEPT !.current = r, !.head = r]
<1>1. /\ LastRevid(o, p) \in Nat
      /\ o.rows[p] \in [current : Nat, head : Nat, deleted : BOOLEAN]
      /\ o.revisions[p] \in Seq([parent : Nat, edits : SUBSET Nat])
      /\ o.rows[p].current \in 1 .. LastRevid(o, p)
      /\ o.stored[p] \subseteq 1 .. LastRevid(o, p)
      /\ o.misapplied[p] \subseteq 1 .. LastRevid(o, p)
      /\ \A n \in 1 .. LastRevid(o, p) :
           /\ o.revisions[p][n].parent \in 0 .. LastRevid(o, p)
           /\ o.revisions[p][n].edits \subseteq 1 .. LastRevid(o, p)
  BY ObjectParts DEF Edits
<1>2. rev \in [parent : Nat, edits : SUBSET Nat] /\ rev.parent = o.rows[p].current /\ rev.edits = edits
  BY <1>1
<1>3. /\ row \in [current : Nat, head : Nat, deleted : BOOLEAN]
      /\ row.current = r /\ row.head = r /\ row.deleted = o.rows[p].deleted
  <2>1. r \in Nat
    BY <1>1
  <2> HIDE DEF r
  <2> QED
    BY <1>1, <2>1, RowEdits
<1>4. /\ o2.rows = [o.rows EXCEPT ![p] = row]
      /\ o2.revisions = [o.revisions EXCEPT ![p] = Append(o.revisions[p], rev)]
      /\ o2.stored = [o.stored EXCEPT ![p] = o.stored[p] \cup {r}]
      /\ o2.misapplied = o.misapplied
      /\ o2 = [rows |-> o2.rows, revisions |-> o2.revisions, stored |-> o2.stored,
               misapplied |-> o2.misapplied]
  BY DEF WriteRevision, ObjectsOK
<1> HIDE DEF rev, row
<1>5. /\ Append(o.revisions[p], rev) \in Seq([parent : Nat, edits : SUBSET Nat])
      /\ Len(Append(o.revisions[p], rev)) = r
      /\ \A n \in 1 .. LastRevid(o, p) : Append(o.revisions[p], rev)[n] = o.revisions[p][n]
      /\ Append(o.revisions[p], rev)[r] = rev
  BY <1>1, <1>2 DEF LastRevid
<1>6. /\ o.rows \in [PersistentRoot -> [current : Nat, head : Nat, deleted : BOOLEAN]]
      /\ o.revisions \in [PersistentRoot -> Seq([parent : Nat, edits : SUBSET Nat])]
      /\ o.stored \in [PersistentRoot -> SUBSET Nat]
      /\ o.misapplied \in [PersistentRoot -> SUBSET Nat]
  BY DEF ObjectsOK
<1>7. /\ o2.rows \in [PersistentRoot -> [current : Nat, head : Nat, deleted : BOOLEAN]]
      /\ o2.revisions \in [PersistentRoot -> Seq([parent : Nat, edits : SUBSET Nat])]
      /\ o2.stored \in [PersistentRoot -> SUBSET Nat]
  <2>1. o.stored[p] \cup {r} \in SUBSET Nat
    BY <1>1
  <2> HIDE DEF r
  <2> QED
    BY <1>3, <1>4, <1>5, <1>6, <2>1
<1>8. /\ o2.rows[p] = row /\ LastRevid(o2, p) = r
      /\ o2.revisions[p] = Append(o.revisions[p], rev)
      /\ o2.stored[p] = o.stored[p] \cup {r}
  BY <1>4, <1>5, <1>6 DEF LastRevid
<1>9. \A q \in PersistentRoot \ {p} :
        /\ o2.rows[q] = o.rows[q] /\ o2.revisions[q] = o.revisions[q]
        /\ o2.stored[q] = o.stored[q]
  BY <1>4, <1>6
<1>10. \A n \in 1 .. r : n \in 1 .. LastRevid(o, p) \/ n = r
  BY <1>1
<1>11. \A n \in 1 .. r :
         o2.revisions[p][n].parent \in 0 .. r /\ o2.revisions[p][n].edits \subseteq 1 .. r
  <2> TAKE n \in 1 .. r
  <2>1. CASE n \in 1 .. LastRevid(o, p)
    <3>1. o2.revisions[p][n] = o.revisions[p][n]
      BY <1>5, <1>8, <2>1
    <3>2. o.revisions[p][n].parent \in 0 .. r /\ o.revisions[p][n].edits \subseteq 1 .. r
      BY <1>1, <2>1
    <3> QED
      BY <3>1, <3>2
  <2>2. CASE n = r
    BY <1>1, <1>2, <1>5, <1>8, <2>2
  <2> QED
    BY <1>10, <2>1, <2>2
<1>12. ObjectsOK(o2)
  <2> SUFFICES ASSUME NEW q \in PersistentRoot
               PROVE  /\ o2.rows[q].current \in 1 .. LastRevid(o2, q)
                      /\ o2.rows[q].head \in 1 .. LastRevid(o2, q)
                      /\ o2.stored[q] \subseteq 1 .. LastRevid(o2, q)
                      /\ o2.misapplied[q] \subseteq 1 .. LastRevid(o2, q)
                      /\ \A n \in 1 .. LastRevid(o2, q) :
                           /\ o2.revisions[q][n].parent \in 0 .. LastRevid(o2, q)
                           /\ o2.revisions[q][n].edits \subseteq 1 .. LastRevid(o2, q)
    BY <1>4, <1>6, <1>7 DEF ObjectsOK, Edits
  <2>1. CASE q = p
    <3>1. r \in 1 .. r /\ o.stored[p] \cup {r} \subseteq 1 .. r /\ o.misapplied[p] \subseteq 1 .. r
      BY <1>1
    <3> HIDE DEF r
    <3> QED
      BY <1>3, <1>4, <1>8, <1>11, <2>1, <3>1
  <2>2. CASE q # p
    <3>1. LastRevid(o2, q) = LastRevid(o, q)
      BY <1>9, <2>2 DEF LastRevid
    <3> QED
      BY <1>4, <1>9, <2>2, <3>1, ObjectParts DEF Edits
  <2> QED
    BY <2>1, <2>2
<1>13. Later(o, o2)
  <2> SUFFICES ASSUME NEW q \in PersistentRoot
               PROVE  /\ LastRevid(o, q) <= LastRevid(o2, q)
                      /\ \A n \in 1 .. LastRevid(o, q) : o2.revisions[q][n] = o.revisions[q][n]
    BY <1>4 DEF Later
  <2>1. CASE q = p
    <3>1. LastRevid(o, p) <= r
      BY <1>1
    <3> HIDE DEF r
    <3> QED
      BY <1>5, <1>8, <2>1, <3>1
  <2>2. CASE q # p
    <3>1. LastRevid(o2, q) = LastRevid(o, q) /\ LastRevid(o, q) \in Nat
      BY <1>9, <2>2, ObjectParts DEF LastRevid
    <3> QED
      BY <1>9, <2>2, <3>1
  <2> QED
    BY <2>1, <2>2
<1> QED
  BY <1>2, <1>3, <1>4, <1>5, <1>8, <1>9, <1>12, <1>13 DEF Changed, Edits

RowSet(o, p, row, o2) == o2 = [o EXCEPT !.rows[p] = row]

(* A row that is set to revisions the root has.                            *)
LEMMA RowChanges ==
  ASSUME NEW o, ObjectsOK(o), NEW p \in PersistentRoot,
         NEW row \in [current : Nat, head : Nat, deleted : BOOLEAN],
         row.current \in 1 .. LastRevid(o, p), row.head \in 1 .. LastRevid(o, p),
         NEW o2, RowSet(o, p, row, o2)
  PROVE  Changed(o, p, o2) /\ o2.rows[p] = row /\ o2.revisions = o.revisions
<1>1. /\ o2.rows = [o.rows EXCEPT ![p] = row]
      /\ o2.revisions = o.revisions /\ o2.stored = o.stored /\ o2.misapplied = o.misapplied
      /\ o2 = [rows |-> o2.rows, revisions |-> o2.revisions, stored |-> o2.stored,
               misapplied |-> o2.misapplied]
  BY DEF ObjectsOK, RowSet
<1>2. /\ o.rows \in [PersistentRoot -> [current : Nat, head : Nat, deleted : BOOLEAN]]
      /\ o.revisions \in [PersistentRoot -> Seq([parent : Nat, edits : SUBSET Nat])]
      /\ o.stored \in [PersistentRoot -> SUBSET Nat]
      /\ o.misapplied \in [PersistentRoot -> SUBSET Nat]
  BY DEF ObjectsOK
<1>3. /\ o2.rows \in [PersistentRoot -> [current : Nat, head : Nat, deleted : BOOLEAN]]
      /\ o2.rows[p] = row
      /\ \A q \in PersistentRoot \ {p} : o2.rows[q] = o.rows[q]
  BY <1>1, <1>2
<1>4. \A q \in PersistentRoot : LastRevid(o2, q) = LastRevid(o, q)
  BY <1>1 DEF LastRevid
<1>5. ObjectsOK(o2)
  <2> SUFFICES ASSUME NEW q \in PersistentRoot
               PROVE  /\ o2.rows[q].current \in 1 .. LastRevid(o, q)
                      /\ o2.rows[q].head \in 1 .. LastRevid(o, q)
                      /\ o2.stored[q] \subseteq 1 .. LastRevid(o, q)
                      /\ o2.misapplied[q] \subseteq 1 .. LastRevid(o, q)
                      /\ \A n \in 1 .. LastRevid(o, q) :
                           /\ o2.revisions[q][n].parent \in 0 .. LastRevid(o, q)
                           /\ o2.revisions[q][n].edits \subseteq 1 .. LastRevid(o, q)
    BY <1>1, <1>2, <1>3, <1>4 DEF ObjectsOK, Edits
  <2>1. CASE q = p
    BY <1>1, <1>3, <2>1, ObjectParts DEF Edits
  <2>2. CASE q # p
    BY <1>1, <1>3, <2>2, ObjectParts DEF Edits
  <2> QED
    BY <2>1, <2>2
<1>6. Later(o, o2)
  <2>1. \A q \in PersistentRoot : LastRevid(o, q) \in Nat
    BY ObjectParts
  <2>2. \A q \in PersistentRoot : LastRevid(o, q) <= LastRevid(o2, q)
    BY <1>4, <2>1
  <2> QED
    BY <1>1, <2>2 DEF Later
<1> QED
  BY <1>1, <1>3, <1>5, <1>6 DEF Changed

(* What the root holds. *)
Held(o, p) == Edits(o, p, o.rows[p].current)

(* What it holds after an operation that fits. *)
HeldAfter(o, p, op) == IF op.kind = "set" THEN SelectivelyApplied(o, p, op) ELSE Held(o, p)

(* It holds that, but for what was misapplied. *)
HeldBut(o, p, op, o2) ==
  \A e : e \notin o2.misapplied[p] => (e \in Held(o2, p) <=> e \in HeldAfter(o, p, op))

MisappliedSet(o, p, E, o2) == o2 = [o EXCEPT !.misapplied[p] = @ \cup E]

(* The ghost changes, and nothing else.                                    *)
LEMMA MisappliedChanges ==
  ASSUME NEW o, ObjectsOK(o), NEW p \in PersistentRoot,
         NEW E \in SUBSET (1 .. LastRevid(o, p)),
         NEW o2, MisappliedSet(o, p, E, o2)
  PROVE  /\ ObjectsOK(o2) /\ Later(o, o2)
         /\ o2.rows = o.rows /\ o2.revisions = o.revisions
         /\ o2.misapplied[p] = o.misapplied[p] \cup E
<1>1. /\ o2.rows = o.rows /\ o2.revisions = o.revisions /\ o2.stored = o.stored
      /\ o2.misapplied = [o.misapplied EXCEPT ![p] = o.misapplied[p] \cup E]
      /\ o2 = [rows |-> o2.rows, revisions |-> o2.revisions, stored |-> o2.stored,
               misapplied |-> o2.misapplied]
  BY DEF ObjectsOK, MisappliedSet
<1>2. /\ o.rows \in [PersistentRoot -> [current : Nat, head : Nat, deleted : BOOLEAN]]
      /\ o.revisions \in [PersistentRoot -> Seq([parent : Nat, edits : SUBSET Nat])]
      /\ o.stored \in [PersistentRoot -> SUBSET Nat]
      /\ o.misapplied \in [PersistentRoot -> SUBSET Nat]
  BY DEF ObjectsOK
<1>3. E \in SUBSET Nat
  BY ObjectParts
<1>4. /\ o2.misapplied \in [PersistentRoot -> SUBSET Nat]
      /\ o2.misapplied[p] = o.misapplied[p] \cup E
      /\ \A q \in PersistentRoot \ {p} : o2.misapplied[q] = o.misapplied[q]
  BY <1>1, <1>2, <1>3
<1>5. \A q \in PersistentRoot : LastRevid(o2, q) = LastRevid(o, q) /\ LastRevid(o, q) \in Nat
  BY <1>1, ObjectParts DEF LastRevid
<1>6. \A q \in PersistentRoot : o2.misapplied[q] \subseteq 1 .. LastRevid(o, q)
  BY <1>4, ObjectParts
<1>7. ObjectsOK(o2)
  <2>1. \A q \in PersistentRoot :
          /\ o2.rows[q].current \in 1 .. LastRevid(o2, q)
          /\ o2.rows[q].head \in 1 .. LastRevid(o2, q)
          /\ o2.stored[q] \subseteq 1 .. LastRevid(o2, q)
          /\ o2.misapplied[q] \subseteq 1 .. LastRevid(o2, q)
          /\ \A n \in 1 .. LastRevid(o2, q) :
               /\ o2.revisions[q][n].parent \in 0 .. LastRevid(o2, q)
               /\ Edits(o2, q, n) \subseteq 1 .. LastRevid(o2, q)
    BY <1>1, <1>5, <1>6, ObjectParts DEF Edits
  <2>2. o2 \in [rows : [PersistentRoot -> [current : Nat, head : Nat, deleted : BOOLEAN]],
                revisions : [PersistentRoot -> Seq([parent : Nat, edits : SUBSET Nat])],
                stored : [PersistentRoot -> SUBSET Nat],
                misapplied : [PersistentRoot -> SUBSET Nat]]
    BY <1>1, <1>2, <1>4
  <2> QED
    BY <2>1, <2>2 DEF ObjectsOK
<1>8. Later(o, o2)
  <2>1. \A q \in PersistentRoot : o.misapplied[q] \subseteq o2.misapplied[q]
    BY <1>4
  <2>2. ASSUME NEW q \in PersistentRoot
        PROVE  LastRevid(o, q) <= LastRevid(o2, q)
    <3>1. PICK x : x = LastRevid(o, q)
      OBVIOUS
    <3>2. x \in Nat /\ LastRevid(o2, q) = x
      BY <1>5, <3>1
    <3>3. x <= x
      BY <3>2
    <3> QED
      BY <3>1, <3>2, <3>3
  <2> QED
    BY <1>1, <2>1, <2>2 DEF Later
<1> QED
  BY <1>1, <1>4, <1>7, <1>8

(* A merge, into a revision that is there or into nothing: the root holds  *)
(* what it should, but for what is taken down as misapplied.               *)
LEMMA MergeChanges ==
  ASSUME NEW o, ObjectsOK(o), NEW p \in PersistentRoot, NEW op, OpFits(o, p, op),
         op.kind = "set", NEW o2, o2 = WriteMerge(o, p, op)
  PROVE  Changed(o, p, o2) /\ HeldBut(o, p, op, o2)
<1> DEFINE last == LastRevid(o, p) + 1
           merged == Merged(o, p, op)
           wanted == SelectivelyApplied(o, p, op)
           written == WriteRevision(o, p, merged)
<1>1. merged \in SUBSET (1 .. last) /\ wanted \in SUBSET (1 .. last) /\ last \in Nat
  <2>1. /\ Edits(o, p, o.rows[p].current) \subseteq 1 .. LastRevid(o, p)
        /\ Edits(o, p, op.old) \subseteq 1 .. LastRevid(o, p)
        /\ Edits(o, p, op.new) \subseteq 1 .. LastRevid(o, p)
        /\ LastRevid(o, p) \in Nat
    BY ObjectParts DEF OpFits
  <2>2. 1 .. LastRevid(o, p) \subseteq 1 .. last /\ last \in Nat
    BY <2>1
  <2> HIDE DEF last
  <2> QED
    BY <2>1, <2>2 DEF SelectivelyApplied, Merged
<1> HIDE DEF merged, wanted
<1>2. /\ Changed(o, p, written)
      /\ LastRevid(written, p) = last
      /\ written.rows[p].current = last
      /\ Edits(written, p, last) = merged
  BY <1>1, WriteChanges
<1>3. ObjectsOK(written) /\ Later(o, written)
  BY <1>2 DEF Changed
<1>4. o2 = [written EXCEPT !.misapplied[p] = @ \cup SymDiff(merged, wanted)]
  BY DEF WriteMerge, merged, wanted
<1>5. SymDiff(merged, wanted) \in SUBSET (1 .. LastRevid(written, p))
  <2> HIDE DEF last, written
  <2> QED
    BY <1>1, <1>2 DEF SymDiff
<1>6. /\ ObjectsOK(o2) /\ Later(written, o2)
      /\ o2.rows = written.rows /\ o2.revisions = written.revisions
      /\ o2.misapplied[p] = written.misapplied[p] \cup SymDiff(merged, wanted)
  <2>1. PICK E : E = SymDiff(merged, wanted)
    OBVIOUS
  <2>2. PICK w : w = written
    OBVIOUS
  <2> HIDE DEF last, written
  <2>3. ObjectsOK(w) /\ E \in SUBSET (1 .. LastRevid(w, p))
    BY <1>3, <1>5, <2>1, <2>2
  <2>4. MisappliedSet(w, p, E, o2)
    BY <1>4, <2>1, <2>2 DEF MisappliedSet
  <2>5. /\ ObjectsOK(o2) /\ Later(w, o2)
        /\ o2.rows = w.rows /\ o2.revisions = w.revisions
        /\ o2.misapplied[p] = w.misapplied[p] \cup E
    BY ONLY p \in PersistentRoot, <2>3, <2>4, MisappliedChanges
  <2> QED
    BY <2>1, <2>2, <2>5
<1>7. Changed(o, p, o2)
  <2> HIDE DEF last, written
  <2>1. Later(o, o2)
    BY <1>3, <1>6, LaterTransitive
  <2> QED
    BY <1>2, <1>6, <2>1 DEF Changed
<1>8. Held(o2, p) = merged
  <2> HIDE DEF last, written
  <2> QED
    BY <1>2, <1>6 DEF Held, Edits
<1>9. HeldAfter(o, p, op) = wanted
  BY DEF HeldAfter, wanted
<1> QED
  <2> HIDE DEF last, written
  <2> QED
    BY <1>6, <1>7, <1>8, <1>9 DEF HeldBut, SymDiff

(* Undoing or redoing a command in the undo store's transaction.           *)
LEMMA AddChanges ==
  ASSUME NEW o, ObjectsOK(o), NEW p \in PersistentRoot, NEW op, OpFits(o, p, op),
         NEW o2, o2 = AddToStoreTransaction(o, p, op)
  PROVE  Changed(o, p, o2) /\ HeldBut(o, p, op, o2)
<1>1. /\ o.rows[p] \in [current : Nat, head : Nat, deleted : BOOLEAN]
      /\ o.rows[p].current \in 1 .. LastRevid(o, p) /\ o.rows[p].head \in 1 .. LastRevid(o, p)
      /\ LastRevid(o, p) \in Nat
  BY ObjectParts
<1>2. CASE op.kind # "set"
  <2> DEFINE row == [o.rows[p] EXCEPT !.deleted = (op.kind = "delete")]
  <2>1. RowSet(o, p, row, o2)
    BY <1>2 DEF AddToStoreTransaction, RowSet
  <2>2. /\ row \in [current : Nat, head : Nat, deleted : BOOLEAN]
        /\ row.current = o.rows[p].current /\ row.head = o.rows[p].head
    <3>1. (op.kind = "delete") \in BOOLEAN
      OBVIOUS
    <3> QED
      BY <1>1, <3>1, RowEdits
  <2> HIDE DEF row
  <2>3. Changed(o, p, o2) /\ o2.rows[p] = row /\ o2.revisions = o.revisions
    BY <1>1, <2>1, <2>2, RowChanges
  <2> QED
    BY <1>2, <2>2, <2>3 DEF Held, HeldAfter, HeldBut, Edits
<1>3. CASE op.kind = "set" /\ o.rows[p].current = op.old
  <2> DEFINE h == IF KeepsHead(o, p, op) THEN o.rows[p].head ELSE op.newHead
             row == [o.rows[p] EXCEPT !.current = op.new, !.head = h]
  <2>1. RowSet(o, p, row, o2)
    BY <1>3 DEF AddToStoreTransaction, RowSet
  <2>2. h \in 1 .. LastRevid(o, p) /\ op.new \in 1 .. LastRevid(o, p)
    BY <1>1, <1>3 DEF OpFits
  <2> HIDE DEF h
  <2>3. h \in Nat /\ op.new \in Nat
    BY <2>2
  <2>4. /\ row \in [current : Nat, head : Nat, deleted : BOOLEAN]
        /\ row.current = op.new /\ row.head = h
    BY <1>1, <2>3, RowEdits
  <2> HIDE DEF row
  <2>5. Changed(o, p, o2) /\ o2.rows[p] = row /\ o2.revisions = o.revisions
    <3>1. row.current \in 1 .. LastRevid(o, p) /\ row.head \in 1 .. LastRevid(o, p)
      BY <2>2, <2>4
    <3>2. row \in [current : Nat, head : Nat, deleted : BOOLEAN]
      BY <2>4
    <3> QED
      BY <2>1, <3>1, <3>2, RowChanges
  <2>6. Held(o2, p) = Edits(o, p, op.new)
    BY <2>4, <2>5 DEF Held, Edits
  <2>7. SelectivelyApplied(o, p, op) = Edits(o, p, op.new)
    BY <1>3 DEF SelectivelyApplied
  <2> QED
    BY <1>3, <2>5, <2>6, <2>7 DEF HeldAfter, HeldBut
<1>4. CASE op.kind = "set" /\ o.rows[p].current # op.old
  <2>1. o2 = WriteMerge(o, p, op)
    BY <1>4 DEF AddToStoreTransaction
  <2> QED
    BY <1>4, <2>1, MergeChanges
<1> QED
  BY <1>2, <1>3, <1>4

(* A root that is set to a revision it has.                                *)
LEMMA AtRevisionChanges ==
  ASSUME NEW o, ObjectsOK(o), NEW p \in PersistentRoot, NEW r \in 1 .. LastRevid(o, p),
         NEW o2, o2 = AtRevision(o, p, r)
  PROVE  /\ Changed(o, p, o2) /\ o2.revisions = o.revisions
         /\ Held(o2, p) = Edits(o, p, r)
         /\ o2.rows[p].current = r /\ o2.rows[p].deleted = o.rows[p].deleted
<1>1. /\ o.rows[p] \in [current : Nat, head : Nat, deleted : BOOLEAN]
      /\ o.rows[p].head \in 1 .. LastRevid(o, p) /\ LastRevid(o, p) \in Nat
  BY ObjectParts
<1> DEFINE h == IF IsEqualToOrParent(o, p, r, o.rows[p].head) THEN o.rows[p].head ELSE r
           row == [o.rows[p] EXCEPT !.current = r, !.head = h]
<1>2. RowSet(o, p, row, o2)
  BY DEF AtRevision, RowSet
<1>3. h \in 1 .. LastRevid(o, p)
  BY <1>1
<1> HIDE DEF h
<1>4. h \in Nat /\ r \in Nat
  BY <1>3
<1>5. /\ row \in [current : Nat, head : Nat, deleted : BOOLEAN]
      /\ row.current = r /\ row.head = h /\ row.deleted = o.rows[p].deleted
  BY <1>1, <1>4, RowEdits
<1> HIDE DEF row
<1>6. Changed(o, p, o2) /\ o2.rows[p] = row /\ o2.revisions = o.revisions
  <2>1. row.current \in 1 .. LastRevid(o, p) /\ row.head \in 1 .. LastRevid(o, p)
    BY <1>3, <1>5
  <2>2. row \in [current : Nat, head : Nat, deleted : BOOLEAN]
    BY <1>5
  <2> QED
    BY <1>2, <2>1, <2>2, RowChanges
<1> QED
  BY <1>5, <1>6 DEF Held, Edits

DeletedSet(o, p, b, o2) == o2 = [o EXCEPT !.rows[p].deleted = b]

(* A root that is deleted or undeleted.                                    *)
LEMMA DeletionChanges ==
  ASSUME NEW o, ObjectsOK(o), NEW p \in PersistentRoot, NEW b \in BOOLEAN,
         NEW o2, DeletedSet(o, p, b, o2)
  PROVE  /\ Changed(o, p, o2) /\ o2.revisions = o.revisions
         /\ Held(o2, p) = Held(o, p)
         /\ o2.rows[p].current = o.rows[p].current /\ o2.rows[p].deleted = b
<1>1. /\ o.rows[p] \in [current : Nat, head : Nat, deleted : BOOLEAN]
      /\ o.rows[p].current \in 1 .. LastRevid(o, p) /\ o.rows[p].head \in 1 .. LastRevid(o, p)
  BY ObjectParts
<1> DEFINE row == [o.rows[p] EXCEPT !.deleted = b]
<1>2. RowSet(o, p, row, o2)
  BY DEF RowSet, DeletedSet
<1>3. /\ row \in [current : Nat, head : Nat, deleted : BOOLEAN]
      /\ row.current = o.rows[p].current /\ row.head = o.rows[p].head /\ row.deleted = b
  BY <1>1, RowEdits
<1> HIDE DEF row
<1>4. Changed(o, p, o2) /\ o2.rows[p] = row /\ o2.revisions = o.revisions
  <2>1. row.current \in 1 .. LastRevid(o, p) /\ row.head \in 1 .. LastRevid(o, p)
    BY <1>1, <1>3
  <2>2. row \in [current : Nat, head : Nat, deleted : BOOLEAN]
    BY <1>3
  <2> QED
    BY <1>2, <2>1, <2>2, RowChanges
<1> QED
  BY <1>3, <1>4 DEF Held, Edits

(* A change of one root that a command can be recorded for: it changes     *)
(* what the root holds, or deletes or undeletes it.                        *)
Recordable(o, p, o2) ==
  /\ Changed(o, p, o2)
  /\ o2.rows[p].deleted # o.rows[p].deleted => Held(o2, p) = Held(o, p)

(* Undoing or redoing a command in the context.                            *)
LEMMA AppliedToContextRecordable ==
  ASSUME NEW o, ObjectsOK(o), NEW p \in PersistentRoot, NEW op, OpFits(o, p, op),
         NEW o2, o2 = AppliedToContext(o, p, op)
  PROVE  Recordable(o, p, o2)
<1>1. /\ o.rows[p] \in [current : Nat, head : Nat, deleted : BOOLEAN]
      /\ o.rows[p].current \in 1 .. LastRevid(o, p) /\ o.rows[p].head \in 1 .. LastRevid(o, p)
      /\ LastRevid(o, p) \in Nat
  BY ObjectParts
<1>2. CASE op.kind # "set"
  <2> DEFINE b == (op.kind = "delete")
  <2>1. DeletedSet(o, p, b, o2)
    BY <1>2 DEF AppliedToContext, DeletedSet
  <2>2. b \in BOOLEAN
    OBVIOUS
  <2> HIDE DEF b
  <2>3. Changed(o, p, o2) /\ Held(o2, p) = Held(o, p)
    BY <2>1, <2>2, DeletionChanges
  <2> QED
    BY <2>3 DEF Recordable
<1>3. CASE op.kind = "set" /\ o.rows[p].current = op.old /\ KeepsHead(o, p, op)
  <2>1. o2 = AtRevision(o, p, op.new)
    BY <1>3 DEF AppliedToContext
  <2>2. op.new \in 1 .. LastRevid(o, p)
    BY <1>3 DEF OpFits
  <2> QED
    BY <2>1, <2>2, AtRevisionChanges DEF Recordable
<1>4. CASE op.kind = "set" /\ o.rows[p].current = op.old /\ ~ KeepsHead(o, p, op)
  <2> DEFINE row == [o.rows[p] EXCEPT !.current = op.new, !.head = op.newHead]
  <2>1. RowSet(o, p, row, o2)
    BY <1>4 DEF AppliedToContext, RowSet
  <2>2. op.new \in 1 .. LastRevid(o, p) /\ op.newHead \in 1 .. LastRevid(o, p)
    BY <1>4 DEF OpFits
  <2>3. op.new \in Nat /\ op.newHead \in Nat
    BY <2>2
  <2>4. /\ row \in [current : Nat, head : Nat, deleted : BOOLEAN]
        /\ row.current = op.new /\ row.head = op.newHead /\ row.deleted = o.rows[p].deleted
    BY <1>1, <2>3, RowEdits
  <2> HIDE DEF row
  <2>5. row.current \in 1 .. LastRevid(o, p) /\ row.head \in 1 .. LastRevid(o, p)
    BY <2>2, <2>4
  <2>6. row \in [current : Nat, head : Nat, deleted : BOOLEAN]
    BY <2>4
  <2>7. Changed(o, p, o2) /\ o2.rows[p] = row
    BY <2>1, <2>5, <2>6, RowChanges
  <2> QED
    BY <2>4, <2>7 DEF Recordable
<1>5. CASE op.kind = "set" /\ o.rows[p].current # op.old
  <2> DEFINE edits == SelectivelyApplied(o, p, op)
  <2>1. edits \in SUBSET (1 .. LastRevid(o, p) + 1)
    <3>1. /\ Edits(o, p, o.rows[p].current) \subseteq 1 .. LastRevid(o, p)
          /\ Edits(o, p, op.old) \subseteq 1 .. LastRevid(o, p)
          /\ Edits(o, p, op.new) \subseteq 1 .. LastRevid(o, p)
      BY <1>1, <1>5, ObjectParts DEF OpFits
    <3>2. 1 .. LastRevid(o, p) \subseteq 1 .. LastRevid(o, p) + 1
      BY <1>1
    <3> QED
      BY <3>1, <3>2 DEF SelectivelyApplied
  <2>2. o2 = o \/ o2 = WriteRevision(o, p, edits)
    BY <1>5 DEF AppliedToContext
  <2> HIDE DEF edits
  <2>3. CASE o2 = o
    BY <2>3, LaterTransitive DEF Recordable, Changed
  <2>4. CASE o2 = WriteRevision(o, p, edits)
    <3>1. Changed(o, p, o2) /\ o2.rows[p].deleted = o.rows[p].deleted
      BY <2>1, <2>4, WriteChanges
    <3> QED
      BY <3>1 DEF Recordable
  <2> QED
    BY <2>2, <2>3, <2>4
<1> QED
  BY <1>2, <1>3, <1>4, <1>5

(* An edit.                                                                *)
LEMMA NewEditRecordable ==
  ASSUME NEW o, ObjectsOK(o), NEW p \in PersistentRoot, NEW o2, o2 = NewEdit(o, p)
  PROVE  /\ Recordable(o, p, o2)
         /\ LastRevid(o2, p) = LastRevid(o, p) + 1
         /\ Held(o2, p) = Held(o, p) \cup {LastRevid(o, p) + 1}
<1> DEFINE edits == Held(o, p) \cup {LastRevid(o, p) + 1}
<1>1. o2 = WriteRevision(o, p, edits)
  BY DEF NewEdit, Held
<1>2. edits \in SUBSET (1 .. LastRevid(o, p) + 1)
  BY ObjectParts DEF Held
<1> HIDE DEF edits
<1>3. /\ Changed(o, p, o2) /\ o2.rows[p].deleted = o.rows[p].deleted
      /\ LastRevid(o2, p) = LastRevid(o, p) + 1
      /\ o2.rows[p].current = LastRevid(o, p) + 1
      /\ Edits(o2, p, LastRevid(o, p) + 1) = edits
  BY <1>1, <1>2, WriteChanges
<1> QED
  BY <1>3 DEF Recordable, Held, edits

(* The command that is recorded fits, and says what the change did.        *)
LEMMA CommandForFits ==
  ASSUME NEW o, ObjectsOK(o), NEW p \in PersistentRoot, NEW o2, Recordable(o, p, o2),
         LastRevid(o2, p) <= MaxRevid,
         NEW op, op = CommandFor(p, o.rows[p], o2.rows[p])
  PROVE  /\ OpFits(o2, p, op)
         /\ op.kind = "set" => op.old = o.rows[p].current /\ op.new = o2.rows[p].current
         /\ op.kind # "set" => Held(o2, p) = Held(o, p)
<1>1. ObjectsOK(o2) /\ Later(o, o2)
  BY DEF Recordable, Changed
<1>2. /\ LastRevid(o, p) \in Nat /\ LastRevid(o2, p) \in Nat
      /\ LastRevid(o, p) <= LastRevid(o2, p)
      /\ o.rows[p].current \in 1 .. LastRevid(o, p) /\ o.rows[p].head \in 1 .. LastRevid(o, p)
      /\ o2.rows[p].current \in 1 .. LastRevid(o2, p) /\ o2.rows[p].head \in 1 .. LastRevid(o2, p)
  BY <1>1, ObjectParts DEF Later
<1>3. CASE o.rows[p].deleted # o2.rows[p].deleted
  <2>1. op \in [kind : {"delete", "undelete"}] /\ op.kind # "set"
    BY <1>3 DEF CommandFor
  <2> QED
    BY <1>3, <2>1 DEF OpFits, Operation, Recordable
<1>4. CASE o.rows[p].deleted = o2.rows[p].deleted
  <2>1. op = [kind |-> "set", old |-> o.rows[p].current, new |-> o2.rows[p].current,
              oldHead |-> o.rows[p].head, newHead |-> o2.rows[p].head]
    BY <1>4 DEF CommandFor
  <2>2. \A r : r \in 1 .. LastRevid(o, p) \/ r \in 1 .. LastRevid(o2, p)
                 => r \in 1 .. LastRevid(o2, p) /\ r \in Revid
    BY <1>2 DEF Revid
  <2>3. /\ op.kind = "set" /\ op.old = o.rows[p].current /\ op.new = o2.rows[p].current
        /\ op.oldHead = o.rows[p].head /\ op.newHead = o2.rows[p].head
    BY <2>1
  <2>4. op \in Operation
    BY <1>2, <2>1, <2>2 DEF Operation
  <2> QED
    BY <1>2, <2>2, <2>3, <2>4 DEF OpFits
<1> QED
  BY <1>3, <1>4

-----------------------------------------------------------------------------
(* The undo store and what the track objects show *)

State == [head : Nat, current : Nat]

States == UNION {[D -> State] : D \in SUBSET TrackName}

ParentMaps == UNION {[D -> Nat] : D \in SUBSET Nat}

(* A track's head is one of its commands, its current one an ancestor. *)
StateOK(cs, t, state) ==
  /\ state \in State
  /\ state.head \in 1 .. Len(cs) /\ cs[state.head].trackName = t
  /\ state.current \in {0} \cup Anc(cs, state.head)

StoreOK(u) ==
  /\ u \in [commands : Seq(Command), rows : SUBSET Nat, marked : SUBSET Nat, tracks : States]
  /\ KeepsRows(u)
  /\ Len(u.commands) <= MaxSequenceNumber
  /\ \A t \in DOMAIN u.tracks : StateOK(u.commands, t, u.tracks[t])
  /\ \A c \in 1 .. Len(u.commands) : u.commands[c].trackName \in DOMAIN u.tracks

(* The names a track object shows, and the commands it shows, in order. *)
Names(i, u) == NamesOf[i] \cap DOMAIN u.tracks

AppliedOn(u, names) == UNION {Anc(u.commands, u.tracks[t].current) : t \in names}

OnBranches(u, names) == UNION {Anc(u.commands, u.tracks[t].head) : t \in names}

RedoOn(u, names) ==
  UNION {Anc(u.commands, u.tracks[t].head) \ Anc(u.commands, u.tracks[t].current) : t \in names}

Nodes(u, names) == <<0>> \o Ascending(AppliedOn(u, names)) \o Ascending(RedoOn(u, names))

(* A memory that is right about what it has, and one that has everything. *)
Remembers(i, m, u) ==
  /\ m \in [states : States, parents : ParentMaps, nodes : Seq(Nat)]
  /\ KnowsParents(m, u)
  /\ \A c \in DOMAIN m.parents : u.commands[c].trackName \in NamesOf[i]

ShowsStates(i, m, u) == m.states = [t \in Names(i, u) |-> u.tracks[t]]

Shows(i, m, u) ==
  /\ Remembers(i, m, u) /\ ShowsStates(i, m, u)
  /\ OnBranches(u, Names(i, u)) \subseteq DOMAIN m.parents
  /\ i \notin PatternTrack =>
       \A c \in 1 .. Len(u.commands) :
         u.commands[c].trackName \in NamesOf[i] => c \in DOMAIN m.parents
  /\ m.nodes = Nodes(u, Names(i, u))

(* The states of tracks are a function to states.                          *)
LEMMA StatesAreFunctions ==
  \A f : f \in States <=> DOMAIN f \subseteq TrackName /\ f \in [DOMAIN f -> State]
BY DEF States

(* f with v at x is a function, and f elsewhere. *)
PutIs(f, x, v, g) ==
  /\ DOMAIN g = DOMAIN f \cup {x} /\ g[x] = v
  /\ \A y \in DOMAIN f \ {x} : g[y] = f[y]

(* A track's new state leaves the others'.                                 *)
LEMMA PutState ==
  ASSUME NEW f \in States, NEW t \in TrackName, NEW s \in State
  PROVE  Put(f, t, s) \in States /\ PutIs(f, t, s, Put(f, t, s))
<1>1. DOMAIN f \subseteq TrackName /\ \A x \in DOMAIN f : f[x] \in State
  BY StatesAreFunctions
<1>2. /\ DOMAIN Put(f, t, s) = DOMAIN f \cup {t}
      /\ Put(f, t, s) \in [DOMAIN f \cup {t} -> State]
      /\ Put(f, t, s)[t] = s /\ \A x \in DOMAIN f \ {t} : Put(f, t, s)[x] = f[x]
  BY <1>1 DEF Put
<1> QED
  BY <1>1, <1>2, StatesAreFunctions DEF PutIs

(* The parents of commands are a function to numbers.                      *)
LEMMA ParentMapsAreFunctions ==
  \A f : f \in ParentMaps <=> DOMAIN f \subseteq Nat /\ f \in [DOMAIN f -> Nat]
BY DEF ParentMaps

(* A command's parent leaves the others'.                                  *)
LEMMA PutParent ==
  ASSUME NEW f \in ParentMaps, NEW c \in Nat, NEW n \in Nat
  PROVE  Put(f, c, n) \in ParentMaps /\ PutIs(f, c, n, Put(f, c, n))
<1>1. DOMAIN f \subseteq Nat /\ \A x \in DOMAIN f : f[x] \in Nat
  BY ParentMapsAreFunctions
<1>2. /\ DOMAIN Put(f, c, n) = DOMAIN f \cup {c}
      /\ Put(f, c, n) \in [DOMAIN f \cup {c} -> Nat]
      /\ Put(f, c, n)[c] = n /\ \A x \in DOMAIN f \ {c} : Put(f, c, n)[x] = f[x]
  BY <1>1 DEF Put
<1> QED
  BY <1>1, <1>2, ParentMapsAreFunctions DEF PutIs

(* The heads and current commands of tracks, and their ancestors.          *)
LEMMA StateFacts ==
  ASSUME NEW cs, Ordered(cs), NEW t, NEW state, StateOK(cs, t, state)
  PROVE  /\ state.head \in 1 .. Len(cs) /\ state.head # 0 /\ state.current \in 0 .. Len(cs)
         /\ Anc(cs, state.head) \subseteq 1 .. Len(cs)
         /\ Anc(cs, state.current) = {c \in Anc(cs, state.head) : c <= state.current}
         /\ state.current # 0 => state.current \in Anc(cs, state.current)
         /\ \A c \in Anc(cs, state.head) : cs[c].trackName = t
<1>1. Len(cs) \in Nat /\ state.head \in 1 .. Len(cs)
  BY CommandTree DEF StateOK
<1>2. /\ Anc(cs, state.head) \subseteq 1 .. state.head
      /\ \A a \in Anc(cs, state.head) :
           a \in 1 .. Len(cs) /\ Anc(cs, a) = {b \in Anc(cs, state.head) : b <= a}
  BY <1>1, AncFacts
<1>3. \A c \in Anc(cs, state.head) : cs[c].trackName = t
  BY <1>1, AncestorsOfTrack DEF StateOK
<1>4. Anc(cs, state.current) = {c \in Anc(cs, state.head) : c <= state.current}
  <2>1. CASE state.current = 0
    <3>1. Anc(cs, 0) = {}
      BY AncFacts
    <3> QED
      BY <1>1, <1>2, <2>1, <3>1
  <2>2. CASE state.current # 0
    BY <1>2, <2>2 DEF StateOK
  <2> QED
    BY <2>1, <2>2
<1>5. state.current \in 0 .. Len(cs)
  BY <1>1, <1>2 DEF StateOK
<1>6. state.current # 0 => state.current \in Anc(cs, state.current)
  BY <1>4, <1>5 DEF StateOK
<1> QED
  BY <1>1, <1>2, <1>3, <1>4, <1>5, <1>6

(* The parts of the undo store.                                            *)
LEMMA StoreParts ==
  ASSUME NEW u, StoreOK(u)
  PROVE  /\ KeepsRows(u) /\ Ordered(u.commands)
         /\ Len(u.commands) \in Nat /\ Len(u.commands) <= MaxSequenceNumber
         /\ u.rows = 1 .. Len(u.commands) /\ u.marked = {}
         /\ LiveRows(u) = 1 .. Len(u.commands)
         /\ u.tracks \in States /\ DOMAIN u.tracks \subseteq TrackName
         /\ u.tracks \in [DOMAIN u.tracks -> State]
         /\ \A t \in DOMAIN u.tracks : StateOK(u.commands, t, u.tracks[t])
         /\ \A c \in 1 .. Len(u.commands) :
              /\ u.commands[c].trackName \in DOMAIN u.tracks
              /\ u.commands[c] \in Command
              /\ u.commands[c].root \in PersistentRoot
<1>1. KeepsRows(u) /\ Ordered(u.commands) /\ u.rows = 1 .. Len(u.commands) /\ u.marked = {}
  BY DEF StoreOK, KeepsRows
<1>2. u.tracks \in States
  BY DEF StoreOK
<1>3. /\ Len(u.commands) \in Nat
      /\ \A c \in 1 .. Len(u.commands) : u.commands[c] \in Command
  BY <1>1, CommandTree
<1>4. \A c \in 1 .. Len(u.commands) : u.commands[c].root \in PersistentRoot
  BY <1>3 DEF Command
<1>5. LiveRows(u) = 1 .. Len(u.commands)
  BY <1>1 DEF LiveRows
<1> QED
  BY <1>1, <1>2, <1>3, <1>4, <1>5, StatesAreFunctions DEF StoreOK

(* The commands a track object shows are commands.                         *)
LEMMA ShownAreCommands ==
  ASSUME NEW u, StoreOK(u), NEW names \in SUBSET DOMAIN u.tracks
  PROVE  /\ AppliedOn(u, names) \subseteq 1 .. Len(u.commands)
         /\ RedoOn(u, names) \subseteq 1 .. Len(u.commands)
         /\ OnBranches(u, names) \subseteq 1 .. Len(u.commands)
         /\ AppliedOn(u, names) \cup RedoOn(u, names) = OnBranches(u, names)
         /\ AppliedOn(u, names) \cap RedoOn(u, names) = {}
         /\ \A c \in OnBranches(u, names) : u.commands[c].trackName \in names
<1> DEFINE applied(t) == Anc(u.commands, u.tracks[t].current)
           branch(t)  == Anc(u.commands, u.tracks[t].head)
<1>1. \A t \in names : /\ branch(t) \subseteq 1 .. Len(u.commands)
                       /\ applied(t) \subseteq branch(t)
                       /\ \A c \in branch(t) : u.commands[c].trackName = t
  <2> TAKE t \in names
  <2>1. StateOK(u.commands, t, u.tracks[t]) /\ Ordered(u.commands)
    BY StoreParts
  <2> QED
    BY <2>1, StateFacts
<1> HIDE DEF applied, branch
<1>2. /\ AppliedOn(u, names) = UNION {applied(t) : t \in names}
      /\ OnBranches(u, names) = UNION {branch(t) : t \in names}
      /\ RedoOn(u, names) = UNION {branch(t) \ applied(t) : t \in names}
  BY DEF AppliedOn, OnBranches, RedoOn, applied, branch
<1>3. /\ \A c : c \in AppliedOn(u, names) <=> \E t \in names : c \in applied(t)
      /\ \A c : c \in OnBranches(u, names) <=> \E t \in names : c \in branch(t)
      /\ \A c : c \in RedoOn(u, names) <=> \E t \in names : c \in branch(t) /\ c \notin applied(t)
  BY <1>2
<1>4. AppliedOn(u, names) \cap RedoOn(u, names) = {}
  <2> SUFFICES ASSUME NEW c \in AppliedOn(u, names), c \in RedoOn(u, names)
               PROVE  FALSE
    OBVIOUS
  <2>1. PICK t \in names : c \in applied(t)
    BY <1>3
  <2>2. PICK s \in names : c \in branch(s) /\ c \notin applied(s)
    BY <1>3
  <2>3. t = s
    BY <1>1, <2>1, <2>2
  <2> QED
    BY <2>1, <2>2, <2>3
<1>5. AppliedOn(u, names) \cup RedoOn(u, names) = OnBranches(u, names)
  BY <1>1, <1>3
<1>6. OnBranches(u, names) \subseteq 1 .. Len(u.commands)
  BY <1>1, <1>3
<1>7. \A c \in OnBranches(u, names) : u.commands[c].trackName \in names
  BY <1>1, <1>3
<1> QED
  BY <1>4, <1>5, <1>6, <1>7

(* The nodes are the placeholder and commands.                             *)
LEMMA NodesAreCommands ==
  ASSUME NEW u, StoreOK(u), NEW names \in SUBSET DOMAIN u.tracks
  PROVE  /\ Nodes(u, names) \in Seq(0 .. Len(u.commands))
         /\ Nodes(u, names) \in Seq(Nat)
<1> DEFINE N == Len(u.commands)
           a == Ascending(AppliedOn(u, names))
           r == Ascending(RedoOn(u, names))
<1>1. N \in Nat
  BY StoreParts
<1>2. InOrder(a, AppliedOn(u, names)) /\ InOrder(r, RedoOn(u, names))
  BY <1>1, ShownAreCommands, AscendingInOrder
<1>3. a \in Seq(1 .. N) /\ r \in Seq(1 .. N)
  <2>1. a \in Seq(AppliedOn(u, names)) /\ r \in Seq(RedoOn(u, names))
    BY <1>2 DEF InOrder
  <2>2. AppliedOn(u, names) \subseteq 1 .. N /\ RedoOn(u, names) \subseteq 1 .. N
    BY ShownAreCommands
  <2> HIDE DEF a, r, N
  <2> QED
    BY <2>1, <2>2, SeqMonotonic
<1>4. Nodes(u, names) = <<0>> \o a \o r
  BY DEF Nodes
<1> HIDE DEF a, r, N
<1>5. <<0>> \in Seq(0 .. N) /\ a \in Seq(0 .. N) /\ r \in Seq(0 .. N)
  <2>1. 1 .. N \subseteq 0 .. N /\ 0 \in 0 .. N
    BY <1>1
  <2>2. a \in Seq(0 .. N) /\ r \in Seq(0 .. N)
    BY <1>3, <2>1, SeqMonotonic
  <2>3. <<0>> \in Seq(0 .. N)
    BY <2>1
  <2> QED
    BY <2>2, <2>3
<1>6. <<0>> \o a \o r \in Seq(0 .. N)
  BY <1>5
<1>7. <<0>> \o a \o r \in Seq(Nat)
  <2>1. 0 .. N \subseteq Nat
    BY <1>1
  <2> QED
    BY <1>6, <2>1, SeqMonotonic
<1> QED
  BY <1>4, <1>6, <1>7 DEF N

(* A memory, by its parts.                                                 *)
LEMMA MemoryEdits ==
  ASSUME NEW m \in [states : States, parents : ParentMaps, nodes : Seq(Nat)]
  PROVE  /\ \A p \in ParentMaps, n \in Seq(Nat) :
              LET v == [m EXCEPT !.parents = p, !.nodes = n]
              IN /\ v \in [states : States, parents : ParentMaps, nodes : Seq(Nat)]
                 /\ v.states = m.states /\ v.parents = p /\ v.nodes = n
         /\ \A s \in States :
              LET v == [m EXCEPT !.states = s]
              IN /\ v \in [states : States, parents : ParentMaps, nodes : Seq(Nat)]
                 /\ v.states = s /\ v.parents = m.parents /\ v.nodes = m.nodes
OBVIOUS

(* The nodes are reloaded from states that are the store's: the object     *)
(* shows the store.                                                        *)
LEMMA ReloadNodesShows ==
  ASSUME NEW u, StoreOK(u), NEW i \in Track, NEW m, Remembers(i, m, u), ShowsStates(i, m, u)
  PROVE  Shows(i, ReloadNodes(i, m, u), u)
<1> DEFINE N       == Len(u.commands)
           names   == DOMAIN m.states
           branch  == [t \in names |-> Chain(m, u, m.states[t].head)]
           applied == [t \in names |-> IF m.states[t].current \in branch[t]
                                       THEN Chain(m, u, m.states[t].current) ELSE {}]
           walked  == UNION {branch[t] : t \in names}
           undo    == UNION {applied[t] : t \in names}
           redo    == UNION {branch[t] \ applied[t] : t \in names}
           all     == IF i \in PatternTrack \/ names = {} THEN {}
                      ELSE {c \in LiveRows(u) : u.commands[c].trackName \in NamesOf[i]}
           parents == [c \in DOMAIN m.parents \cup walked \cup all |-> ParentOf(m, u, c)]
           nodes   == <<Placeholder>> \o Ascending(undo) \o Ascending(redo)
           m2      == [m EXCEPT !.parents = parents, !.nodes = nodes]
<1>1. ReloadNodes(i, m, u) = m2
  BY DEF ReloadNodes
<1>2. /\ N \in Nat /\ KeepsRows(u) /\ Ordered(u.commands) /\ LiveRows(u) = 1 .. N
      /\ \A t \in DOMAIN u.tracks : StateOK(u.commands, t, u.tracks[t])
  BY StoreParts
<1>3. /\ m \in [states : States, parents : ParentMaps, nodes : Seq(Nat)]
      /\ KnowsParents(m, u)
      /\ \A c \in DOMAIN m.parents : u.commands[c].trackName \in NamesOf[i]
  BY DEF Remembers
<1>4. /\ names = Names(i, u) /\ names \subseteq DOMAIN u.tracks /\ names \subseteq NamesOf[i]
      /\ \A t \in names : m.states[t] = u.tracks[t]
  <2>1. names = Names(i, u) /\ \A t \in Names(i, u) : m.states[t] = u.tracks[t]
    BY DEF ShowsStates
  <2> QED
    BY <2>1 DEF Names
<1> HIDE DEF N
<1>5. /\ \A c \in 1 .. N : ParentOf(m, u, c) = u.commands[c].parent
      /\ \A c \in 0 .. N : Chain(m, u, c) = Anc(u.commands, c)
  BY <1>2, <1>3, LineageIsAnc DEF N
<1>6. \A t \in names : /\ branch[t] = Anc(u.commands, u.tracks[t].head)
                       /\ applied[t] = Anc(u.commands, u.tracks[t].current)
  <2> SUFFICES ASSUME NEW t \in names
               PROVE  /\ branch[t] = Anc(u.commands, u.tracks[t].head)
                      /\ applied[t] = Anc(u.commands, u.tracks[t].current)
    OBVIOUS
  <2>1. /\ u.tracks[t].head \in 1 .. N /\ u.tracks[t].current \in 0 .. N
        /\ u.tracks[t].current \in {0} \cup Anc(u.commands, u.tracks[t].head)
        /\ Anc(u.commands, u.tracks[t].head) \subseteq 1 .. N
    BY <1>2, <1>4, StateFacts DEF StateOK, N
  <2>2. branch[t] = Anc(u.commands, u.tracks[t].head)
    <3>1. branch[t] = Chain(m, u, u.tracks[t].head)
      BY <1>4
    <3>2. u.tracks[t].head \in 0 .. N
      BY <2>1, <1>2
    <3> QED
      BY <1>5, <3>1, <3>2
  <2>3. applied[t] = IF u.tracks[t].current \in branch[t]
                     THEN Chain(m, u, u.tracks[t].current) ELSE {}
    <3> HIDE DEF branch
    <3> QED
      BY <1>4
  <2> HIDE DEF branch, applied
  <2>4. CASE u.tracks[t].current = 0
    <3>1. 0 \notin branch[t]
      BY <2>1, <2>2
    <3>2. Anc(u.commands, 0) = {}
      BY <1>2, AncFacts
    <3> QED
      BY <2>2, <2>3, <2>4, <3>1, <3>2
  <2>5. CASE u.tracks[t].current # 0
    BY <1>5, <2>1, <2>2, <2>3, <2>5
  <2> QED
    BY <2>2, <2>4, <2>5
<1> HIDE DEF names
<1>7. /\ walked = OnBranches(u, names) /\ undo = AppliedOn(u, names)
      /\ redo = RedoOn(u, names)
  <2> HIDE DEF branch, applied
  <2>1. {branch[t] : t \in names} = {Anc(u.commands, u.tracks[t].head) : t \in names}
    BY <1>6
  <2>2. {applied[t] : t \in names} = {Anc(u.commands, u.tracks[t].current) : t \in names}
    BY <1>6
  <2>3. {branch[t] \ applied[t] : t \in names}
          = {Anc(u.commands, u.tracks[t].head) \ Anc(u.commands, u.tracks[t].current) : t \in names}
    BY <1>6
  <2> QED
    BY <2>1, <2>2, <2>3 DEF OnBranches, AppliedOn, RedoOn
<1> HIDE DEF branch, applied, walked, undo, redo
<1>8. nodes = Nodes(u, names) /\ nodes \in Seq(Nat)
  <2>1. nodes = Nodes(u, names)
    BY <1>7 DEF Nodes
  <2> HIDE DEF nodes
  <2> QED
    BY <1>4, <2>1, NodesAreCommands
<1>9. /\ DOMAIN parents = DOMAIN m.parents \cup walked \cup all
      /\ DOMAIN parents \subseteq 1 .. N
      /\ \A c \in DOMAIN parents : /\ parents[c] = u.commands[c].parent
                                   /\ u.commands[c].trackName \in NamesOf[i]
  <2>1. walked \subseteq 1 .. N /\ \A c \in walked : u.commands[c].trackName \in NamesOf[i]
    <3>1. OnBranches(u, names) \subseteq 1 .. N
      BY <1>4, ShownAreCommands DEF N
    <3>2. \A c \in OnBranches(u, names) : u.commands[c].trackName \in names
      BY <1>4, ShownAreCommands
    <3> QED
      BY <1>4, <1>7, <3>1, <3>2
  <2>2. all \subseteq 1 .. N /\ \A c \in all : u.commands[c].trackName \in NamesOf[i]
    BY <1>2
  <2>3. DOMAIN m.parents \subseteq 1 .. N
    BY <1>3 DEF KnowsParents, N
  <2> HIDE DEF all
  <2>4. DOMAIN parents = DOMAIN m.parents \cup walked \cup all
    OBVIOUS
  <2>5. \A c \in DOMAIN parents : parents[c] = ParentOf(m, u, c)
    OBVIOUS
  <2> HIDE DEF parents
  <2> QED
    BY <1>3, <1>5, <2>1, <2>2, <2>3, <2>4, <2>5
<1>10. parents \in ParentMaps
  <2>1. DOMAIN parents \subseteq Nat
    BY <1>2, <1>9
  <2>2. \A c \in DOMAIN parents : parents[c] \in Nat
    <3>1. \A c \in 1 .. N : u.commands[c].parent \in Nat
      BY <1>2, CommandTree DEF N
    <3> QED
      BY <1>9, <3>1
  <2>3. parents \in [DOMAIN parents -> Nat]
    <3>1. parents = [c \in DOMAIN parents |-> parents[c]]
      OBVIOUS
    <3> HIDE DEF parents
    <3> QED
      BY <2>2, <3>1
  <2> HIDE DEF parents
  <2> QED
    BY <2>1, <2>3, ParentMapsAreFunctions
<1> HIDE DEF parents, nodes
<1>11. /\ m2 \in [states : States, parents : ParentMaps, nodes : Seq(Nat)]
       /\ m2.states = m.states /\ m2.parents = parents /\ m2.nodes = nodes
  BY <1>3, <1>8, <1>10, MemoryEdits
<1> HIDE DEF m2
<1>12. Remembers(i, m2, u)
  BY <1>9, <1>11 DEF Remembers, KnowsParents, N
<1>13. ShowsStates(i, m2, u)
  BY <1>11 DEF ShowsStates
<1>14. OnBranches(u, Names(i, u)) \subseteq DOMAIN m2.parents
  BY <1>4, <1>7, <1>9, <1>11
<1>15. ASSUME i \notin PatternTrack, NEW c \in 1 .. N, u.commands[c].trackName \in NamesOf[i]
       PROVE  c \in DOMAIN m2.parents
  <2>1. names # {}
    <3>1. u.commands[c].trackName \in DOMAIN u.tracks
      BY StoreParts DEF N
    <3> QED
      BY <1>4, <1>15, <3>1 DEF Names
  <2>2. c \in all
    BY <1>2, <1>15, <2>1
  <2> QED
    BY <1>9, <1>11, <2>2
<1> QED
  BY <1>1, <1>4, <1>8, <1>11, <1>12, <1>13, <1>14, <1>15 DEF Shows, N

(* The state read from the store is the one that is there.                 *)
LEMMA StateIsStored ==
  ASSUME NEW u, StoreOK(u)
  PROVE  /\ \A t \in DOMAIN u.tracks : StateForTrackName(u, t) = u.tracks[t]
         /\ \A t : t \notin DOMAIN u.tracks => StateForTrackName(u, t) = NoState
<1>1. ASSUME NEW t \in DOMAIN u.tracks
      PROVE  StateForTrackName(u, t) = u.tracks[t]
  <2> DEFINE s == u.tracks[t]
  <2>1. /\ s \in State /\ s.head \in LiveRows(u)
        /\ s.current \in {0} \cup LiveRows(u)
    <3>1. StateOK(u.commands, t, s) /\ Ordered(u.commands) /\ LiveRows(u) = 1 .. Len(u.commands)
      BY StoreParts
    <3>2. s.current \in 0 .. Len(u.commands)
      BY <3>1, StateFacts
    <3> QED
      BY <3>1, <3>2 DEF StateOK
  <2>2. StateForTrackName(u, t)
          = [s EXCEPT !.current = IF s.current \in LiveRows(u) THEN s.current ELSE 0]
    BY <2>1 DEF StateForTrackName
  <2> HIDE DEF s
  <2>3. (IF s.current \in LiveRows(u) THEN s.current ELSE 0) = s.current
    BY <2>1
  <2>4. [s EXCEPT !.current = s.current] = s
    BY <2>1 DEF State
  <2> QED
    BY <2>2, <2>3, <2>4 DEF s
<1> QED
  BY <1>1 DEF StateForTrackName

(* Reloading brings a track object up to date.                             *)
LEMMA ReloadShows ==
  ASSUME NEW u, StoreOK(u), NEW i \in Track, NEW m, Remembers(i, m, u),
         DOMAIN m.states \subseteq Names(i, u)
  PROVE  Shows(i, Reload(i, m, u), u)
<1> DEFINE names == NamesOf[i] \cap DOMAIN u.tracks
           states == [t \in names \cup DOMAIN m.states |->
                        IF t \in names THEN StateForTrackName(u, t) ELSE m.states[t]]
           m2 == [m EXCEPT !.states = states]
<1>1. Reload(i, m, u) = ReloadNodes(i, m2, u)
  BY DEF Reload
<1>2. states = [t \in Names(i, u) |-> u.tracks[t]]
  <2>1. names \cup DOMAIN m.states = Names(i, u) /\ names = Names(i, u)
    BY DEF Names
  <2>2. \A t \in Names(i, u) : StateForTrackName(u, t) = u.tracks[t]
    BY StateIsStored DEF Names
  <2> QED
    BY <2>1, <2>2
<1> HIDE DEF states
<1>3. states \in States
  <2>1. DOMAIN states \subseteq TrackName
    BY <1>2, StoreParts DEF Names
  <2>2. states \in [DOMAIN states -> State]
    <3>1. \A t \in Names(i, u) : u.tracks[t] \in State
      BY StoreParts DEF Names
    <3> QED
      BY <1>2, <3>1
  <2> QED
    BY <2>1, <2>2, StatesAreFunctions
<1>4. m \in [states : States, parents : ParentMaps, nodes : Seq(Nat)]
  BY DEF Remembers
<1>5. /\ m2 \in [states : States, parents : ParentMaps, nodes : Seq(Nat)]
      /\ m2.states = states /\ m2.parents = m.parents
  BY <1>3, <1>4, MemoryEdits
<1> HIDE DEF m2
<1>6. Remembers(i, m2, u)
  BY <1>5 DEF Remembers, KnowsParents
<1>7. ShowsStates(i, m2, u)
  BY <1>2, <1>5 DEF ShowsStates
<1> QED
  BY <1>1, <1>6, <1>7, ReloadNodesShows

(* And so does loading it.                                                 *)
LEMMA LoadedShows ==
  ASSUME NEW u, StoreOK(u), NEW i \in Track
  PROVE  Shows(i, Loaded(i, u), u)
<1>1. PICK m : m = [states |-> << >>, parents |-> << >>, nodes |-> << >>]
  OBVIOUS
<1>2. DOMAIN << >> = {}
  OBVIOUS
<1>3. << >> \in States /\ << >> \in ParentMaps /\ << >> \in Seq(Nat)
  <2>1. << >> \in [{} -> State] /\ << >> \in [{} -> Nat] /\ << >> \in Seq(Nat)
    BY <1>2
  <2> QED
    BY <1>2, <2>1, StatesAreFunctions, ParentMapsAreFunctions
<1>4. m.states = << >> /\ m.parents = << >> /\ m.nodes = << >>
  BY <1>1
<1>5. m \in [states : States, parents : ParentMaps, nodes : Seq(Nat)]
  BY <1>1, <1>3
<1>6. Remembers(i, m, u) /\ DOMAIN m.states \subseteq Names(i, u)
  BY <1>2, <1>4, <1>5 DEF Remembers, KnowsParents
<1> QED
  BY <1>1, <1>6, ReloadShows DEF Loaded

(* u2 has the commands of u, and a new one is the head of its track. *)
Grows(u, u2) ==
  /\ Len(u.commands) <= Len(u2.commands) /\ DOMAIN u.tracks \subseteq DOMAIN u2.tracks
  /\ \A c \in 1 .. Len(u.commands) : u2.commands[c] = u.commands[c]
  /\ \A c \in 0 .. Len(u.commands) : Anc(u2.commands, c) = Anc(u.commands, c)
  /\ \A c \in 1 .. Len(u2.commands) :
       c \notin 1 .. Len(u.commands) =>
         u2.tracks[u2.commands[c].trackName].head \notin 1 .. Len(u.commands)

(* What a track object remembers stays right.                              *)
LEMMA RemembersLater ==
  ASSUME NEW u, StoreOK(u), NEW u2, StoreOK(u2), Grows(u, u2),
         NEW i \in Track, NEW m, Remembers(i, m, u)
  PROVE  Remembers(i, m, u2)
<1>1. Len(u.commands) \in Nat /\ Len(u2.commands) \in Nat
  BY StoreParts
<1>2. \A c \in DOMAIN m.parents : /\ c \in 1 .. Len(u2.commands)
                                  /\ u2.commands[c] = u.commands[c]
  BY <1>1 DEF Remembers, KnowsParents, Grows
<1> QED
  BY <1>2 DEF Remembers, KnowsParents

(* A track object whose states are still the store's shows the store.      *)
LEMMA ShowsLater ==
  ASSUME NEW u, StoreOK(u), NEW u2, StoreOK(u2), Grows(u, u2),
         NEW i \in Track, NEW m, Shows(i, m, u), ShowsStates(i, m, u2)
  PROVE  Shows(i, m, u2)
<1>1. /\ Len(u.commands) \in Nat /\ Ordered(u.commands)
      /\ \A t \in DOMAIN u.tracks : StateOK(u.commands, t, u.tracks[t])
  BY StoreParts
<1>2. /\ Names(i, u2) = Names(i, u)
      /\ \A t \in Names(i, u) : u2.tracks[t] = u.tracks[t]
  <2>1. /\ m.states = [t \in Names(i, u) |-> u.tracks[t]]
        /\ m.states = [t \in Names(i, u2) |-> u2.tracks[t]]
    BY DEF Shows, ShowsStates
  <2>2. DOMAIN m.states = Names(i, u) /\ DOMAIN m.states = Names(i, u2)
    BY <2>1
  <2>3. /\ \A t \in Names(i, u) : m.states[t] = u.tracks[t]
        /\ \A t \in Names(i, u2) : m.states[t] = u2.tracks[t]
    BY <2>1
  <2> QED
    BY <2>2, <2>3
<1>3. \A t \in Names(i, u) :
        /\ Anc(u2.commands, u2.tracks[t].head) = Anc(u.commands, u.tracks[t].head)
        /\ Anc(u2.commands, u2.tracks[t].current) = Anc(u.commands, u.tracks[t].current)
  <2> TAKE t \in Names(i, u)
  <2>1. u.tracks[t].head \in 0 .. Len(u.commands) /\ u.tracks[t].current \in 0 .. Len(u.commands)
    BY <1>1, StateFacts DEF Names
  <2> QED
    BY <1>2, <2>1 DEF Grows
<1>4. /\ AppliedOn(u2, Names(i, u2)) = AppliedOn(u, Names(i, u))
      /\ RedoOn(u2, Names(i, u2)) = RedoOn(u, Names(i, u))
      /\ OnBranches(u2, Names(i, u2)) = OnBranches(u, Names(i, u))
  <2>1. {Anc(u2.commands, u2.tracks[t].head) : t \in Names(i, u2)}
          = {Anc(u.commands, u.tracks[t].head) : t \in Names(i, u)}
    BY <1>2, <1>3
  <2>2. {Anc(u2.commands, u2.tracks[t].current) : t \in Names(i, u2)}
          = {Anc(u.commands, u.tracks[t].current) : t \in Names(i, u)}
    BY <1>2, <1>3
  <2>3. {Anc(u2.commands, u2.tracks[t].head) \ Anc(u2.commands, u2.tracks[t].current) :
           t \in Names(i, u2)}
          = {Anc(u.commands, u.tracks[t].head) \ Anc(u.commands, u.tracks[t].current) :
               t \in Names(i, u)}
    BY <1>2, <1>3
  <2> QED
    BY <2>1, <2>2, <2>3 DEF AppliedOn, RedoOn, OnBranches
<1>5. ASSUME i \notin PatternTrack, NEW c \in 1 .. Len(u2.commands),
             u2.commands[c].trackName \in NamesOf[i]
      PROVE  c \in DOMAIN m.parents
  <2>1. CASE c \in 1 .. Len(u.commands)
    BY <1>5, <2>1 DEF Shows, Grows
  <2>2. CASE c \notin 1 .. Len(u.commands)
    <3> DEFINE t == u2.commands[c].trackName
    <3>1. t \in Names(i, u2)
      BY <1>5, StoreParts DEF Names
    <3>2. u2.tracks[t].head \in 1 .. Len(u.commands)
      BY <1>1, <1>2, <3>1 DEF StateOK, Names
    <3> QED
      BY <2>2, <3>2 DEF Grows
  <2> QED
    BY <2>1, <2>2
<1>6. Remembers(i, m, u2)
  BY RemembersLater DEF Shows
<1> QED
  BY <1>4, <1>5, <1>6 DEF Shows, Nodes

(* A track object that is told of all the tracks that changed shows the    *)
(* store.                                                                  *)
LEMMA NotifiedShows ==
  ASSUME NEW u, StoreOK(u), NEW i \in Track, NEW m, Remembers(i, m, u),
         DOMAIN m.states \subseteq Names(i, u),
         ShowsStates(i, m, u) => Shows(i, m, u),
         NEW changed,
         \A t \in DOMAIN changed : t \in DOMAIN u.tracks /\ changed[t] = u.tracks[t],
         \A t \in Names(i, u) \ DOMAIN changed :
           t \in DOMAIN m.states /\ m.states[t] = u.tracks[t]
  PROVE  Shows(i, StoreTrackDidChange(i, m, u, changed), u)
<1>1. CASE \E t \in DOMAIN changed \cap NamesOf[i] :
             changed[t].head = 0 \/ t \notin DOMAIN m.states \/ m.states[t] # changed[t]
  BY <1>1, ReloadShows DEF StoreTrackDidChange
<1>2. CASE ~ \E t \in DOMAIN changed \cap NamesOf[i] :
               changed[t].head = 0 \/ t \notin DOMAIN m.states \/ m.states[t] # changed[t]
  <2>1. StoreTrackDidChange(i, m, u, changed) = m
    BY <1>2 DEF StoreTrackDidChange
  <2>2. \A t \in Names(i, u) : t \in DOMAIN m.states /\ m.states[t] = u.tracks[t]
    BY <1>2 DEF Names
  <2>3. m.states = [t \in DOMAIN m.states |-> m.states[t]]
    BY StatesAreFunctions DEF Remembers
  <2>4. DOMAIN m.states = Names(i, u)
    BY <2>2
  <2>5. ShowsStates(i, m, u)
    BY <2>2, <2>3, <2>4 DEF ShowsStates
  <2> QED
    BY <2>1, <2>5
<1> QED
  BY <1>1, <1>2

-----------------------------------------------------------------------------
(* Recording a command *)

(* u2 is u with the command c recorded on its track. *)
Recorded(u, c, u2) ==
  u2 = SetTrackState([u EXCEPT !.commands = Append(@, c), !.rows = @ \cup {Len(u.commands) + 1}],
                     c.trackName,
                     [head |-> Len(u.commands) + 1, current |-> Len(u.commands) + 1])

(* The command c at the end of the store, with its track on it. *)
RecordedIs(u, c, u2) ==
  /\ u2.commands = Append(u.commands, c) /\ Len(u2.commands) = Len(u.commands) + 1
  /\ u2.commands[Len(u.commands) + 1] = c
  /\ Anc(u2.commands, Len(u.commands) + 1)
       = {Len(u.commands) + 1} \cup Anc(u.commands, c.parent)
  /\ c.parent \in 0 .. Len(u.commands)
  /\ c.parent = IF c.trackName \in DOMAIN u.tracks
                THEN u.tracks[c.trackName].current ELSE 0
  /\ DOMAIN u2.tracks = DOMAIN u.tracks \cup {c.trackName}
  /\ u2.tracks[c.trackName]
       = [head |-> Len(u.commands) + 1, current |-> Len(u.commands) + 1]
  /\ \A t \in DOMAIN u.tracks \ {c.trackName} : u2.tracks[t] = u.tracks[t]

(* A command is recorded on top of its track's current one, and becomes    *)
(* the current one.                                                        *)
LEMMA RecordedStore ==
  ASSUME NEW u, StoreOK(u), Len(u.commands) < MaxSequenceNumber, NEW c \in Command,
         c.parent = StateForTrackName(u, c.trackName).current, NEW u2, Recorded(u, c, u2)
  PROVE  StoreOK(u2) /\ Grows(u, u2) /\ RecordedIs(u, c, u2)
<1> DEFINE n == Len(u.commands) + 1
           t == c.trackName
           state == [head |-> n, current |-> n]
           added == [u EXCEPT !.commands = Append(@, c), !.rows = @ \cup {n}]
<1>1. /\ Ordered(u.commands) /\ Len(u.commands) \in Nat /\ u.marked = {}
      /\ u.rows = 1 .. Len(u.commands)
      /\ u.tracks \in States /\ DOMAIN u.tracks \subseteq TrackName
      /\ \A s \in DOMAIN u.tracks : StateOK(u.commands, s, u.tracks[s])
      /\ \A d \in 1 .. Len(u.commands) : u.commands[d].trackName \in DOMAIN u.tracks
  BY StoreParts
<1>2. u \in [commands : Seq(Command), rows : SUBSET Nat, marked : SUBSET Nat, tracks : States]
  BY DEF StoreOK
<1>3. n \in Nat /\ t \in TrackName
  BY <1>1 DEF Command
<1>4. c.parent = IF t \in DOMAIN u.tracks THEN u.tracks[t].current ELSE 0
  BY StateIsStored DEF NoState
<1>5. /\ c.parent \in 0 .. Len(u.commands)
      /\ c.parent # 0 => u.commands[c.parent].trackName = t
  <2>1. CASE t \in DOMAIN u.tracks
    <3>1. StateOK(u.commands, t, u.tracks[t])
      BY <1>1, <2>1
    <3>2. /\ u.tracks[t].current \in 0 .. Len(u.commands)
          /\ u.tracks[t].current # 0 => u.tracks[t].current \in Anc(u.commands, u.tracks[t].head)
          /\ \A a \in Anc(u.commands, u.tracks[t].head) : u.commands[a].trackName = t
      BY SMTT(30), <1>1, <3>1, StateFacts DEF StateOK
    <3> QED
      BY <1>4, <2>1, <3>2
  <2>2. CASE t \notin DOMAIN u.tracks
    BY <1>1, <1>4, <2>2
  <2> QED
    BY <2>1, <2>2
<1> DEFINE cs == Append(u.commands, c)
<1>6. /\ Ordered(cs) /\ Len(cs) = n
      /\ \A d \in 1 .. Len(u.commands) : cs[d] = u.commands[d]
      /\ cs[n] = c
      /\ \A d \in 0 .. Len(u.commands) : Anc(cs, d) = Anc(u.commands, d)
      /\ Anc(cs, n) = {n} \cup Anc(u.commands, c.parent)
  BY <1>1, <1>5, AncAppend
<1> HIDE DEF cs
<1>7. /\ state \in State /\ state.head = n /\ state.current = n
      /\ [state EXCEPT !.current = n] = state
  BY <1>3 DEF State
<1>8. /\ added \in [commands : Seq(Command), rows : SUBSET Nat, marked : SUBSET Nat,
                    tracks : States]
      /\ added.commands = cs /\ added.rows = u.rows \cup {n}
      /\ added.marked = u.marked /\ added.tracks = u.tracks
  <2>1. Append(u.commands, c) \in Seq(Command) /\ u.rows \cup {n} \in SUBSET Nat
    BY <1>2, <1>3
  <2> HIDE DEF n
  <2> QED
    BY <1>2, <2>1 DEF cs
<1>9. u2 = [added EXCEPT !.tracks = Put(@, t, [state EXCEPT !.current =
                                                IF @ \in added.rows THEN @ ELSE 0])]
  <2>1. state.head \in added.rows
    BY <1>7, <1>8
  <2>2. u2 = SetTrackState(added, t, state)
    BY DEF Recorded
  <2> HIDE DEF added, state, t
  <2> QED
    BY <2>1, <2>2 DEF SetTrackState
<1>10. u2 = [added EXCEPT !.tracks = Put(u.tracks, t, state)]
  <2>1. state.current \in added.rows
    BY <1>7, <1>8
  <2>2. [state EXCEPT !.current = IF state.current \in added.rows THEN state.current ELSE 0] = state
    <3>1. (IF state.current \in added.rows THEN state.current ELSE 0) = n
      BY <1>7, <2>1
    <3> HIDE DEF added, state
    <3> QED
      BY <1>7, <3>1
  <2> HIDE DEF added, state, t
  <2> QED
    BY <1>8, <1>9, <2>2
<1> HIDE DEF state, n, added
<1>11. Put(u.tracks, t, state) \in States /\ PutIs(u.tracks, t, state, Put(u.tracks, t, state))
  <2>1. u.tracks \in States /\ t \in TrackName /\ state \in State
    BY <1>1, <1>3, <1>7
  <2> HIDE DEF t
  <2> QED
    BY <2>1, PutState
<1>12. /\ u2 \in [commands : Seq(Command), rows : SUBSET Nat, marked : SUBSET Nat, tracks : States]
       /\ u2.commands = cs /\ u2.rows = u.rows \cup {n} /\ u2.marked = u.marked
       /\ u2.tracks = Put(u.tracks, t, state)
  BY <1>8, <1>10, <1>11
<1>13. /\ DOMAIN u2.tracks = DOMAIN u.tracks \cup {t} /\ u2.tracks[t] = state
       /\ \A x \in DOMAIN u.tracks \ {t} : u2.tracks[x] = u.tracks[x]
  BY <1>11, <1>12 DEF PutIs
<1>14. KeepsRows(u2)
  BY <1>1, <1>6, <1>12 DEF KeepsRows, n
<1>15. ASSUME NEW x \in DOMAIN u2.tracks
       PROVE  StateOK(cs, x, u2.tracks[x])
  <2>1. CASE x = t
    <3>1. n \in Anc(cs, n) /\ n \in 1 .. Len(cs) /\ cs[n].trackName = t
      BY <1>1, <1>3, <1>6 DEF n
    <3> QED
      BY <1>7, <1>12, <1>13, <2>1, <3>1 DEF StateOK
  <2>2. CASE x # t
    <3>1. x \in DOMAIN u.tracks /\ u2.tracks[x] = u.tracks[x]
      BY <1>12, <1>13, <2>2
    <3>2. StateOK(u.commands, x, u.tracks[x])
      BY <1>1, <3>1
    <3>3. /\ u.tracks[x].head \in 0 .. Len(u.commands) /\ u.tracks[x].head \in 1 .. Len(cs)
          /\ cs[u.tracks[x].head] = u.commands[u.tracks[x].head]
      BY <1>1, <1>6, <3>2 DEF StateOK, n
    <3> QED
      BY <1>6, <3>1, <3>2, <3>3 DEF StateOK
  <2> QED
    BY <2>1, <2>2
<1>16. \A d \in 1 .. Len(cs) : d \in 1 .. Len(u.commands) \/ d = n
  BY <1>1, <1>6 DEF n
<1>17. \A d \in 1 .. Len(cs) : cs[d].trackName \in DOMAIN u2.tracks
  <2> TAKE d \in 1 .. Len(cs)
  <2> QED
    BY <1>1, <1>6, <1>12, <1>13, <1>16
<1>18. StoreOK(u2)
  <2>1. Len(cs) <= MaxSequenceNumber
    BY <1>1, <1>6 DEF n
  <2> QED
    BY <1>12, <1>14, <1>15, <1>17, <2>1 DEF StoreOK
<1>19. Grows(u, u2)
  <2>1. Len(u.commands) <= Len(cs) /\ n \notin 1 .. Len(u.commands)
    BY <1>1, <1>6 DEF n
  <2>2. DOMAIN u.tracks \subseteq DOMAIN u2.tracks
    BY <1>13
  <2>3. ASSUME NEW d \in 1 .. Len(cs), d \notin 1 .. Len(u.commands)
        PROVE  u2.tracks[cs[d].trackName].head \notin 1 .. Len(u.commands)
    BY <1>6, <1>7, <1>12, <1>13, <1>16, <2>1, <2>3
  <2> QED
    BY <1>6, <1>12, <2>1, <2>2, <2>3 DEF Grows
<1> QED
  BY <1>4, <1>5, <1>6, <1>12, <1>13, <1>18, <1>19 DEF n, state, cs, RecordedIs

(* Every track object shows the undo store. *)
AllShow ==
  /\ DOMAIN memory = Track
  /\ \A j \in Track : Shows(j, memory[j], undoStore)

(* The undo store commits, and every track object shows it.                *)
LEMMA CommitShows ==
  ASSUME StoreOK(undoStore), AllShow, NEW u, StoreOK(u), Grows(undoStore, u),
         NEW i \in Track, NEW m, Remembers(i, m, u), DOMAIN m.states \subseteq Names(i, u),
         ShowsStates(i, m, u) => Shows(i, m, u),
         NEW changed,
         \A t \in DOMAIN changed : t \in DOMAIN u.tracks /\ changed[t] = u.tracks[t],
         \A t \in DOMAIN u.tracks \ DOMAIN changed :
           t \in DOMAIN undoStore.tracks /\ u.tracks[t] = undoStore.tracks[t],
         \A t \in Names(i, u) \ DOMAIN changed :
           t \in DOMAIN m.states /\ m.states[t] = u.tracks[t],
         CommitUndoStore(i, m, u, changed)
  PROVE  undoStore' = u /\ AllShow'
<1>1. /\ undoStore' = u
      /\ memory' = [j \in Track |->
                      StoreTrackDidChange(j, IF j = i THEN m ELSE memory[j], u, changed)]
  BY DEF CommitUndoStore
<1>2. ASSUME NEW j \in Track
      PROVE  Shows(j, StoreTrackDidChange(j, IF j = i THEN m ELSE memory[j], u, changed), u)
  <2>1. CASE j = i
    <3>1. Shows(i, StoreTrackDidChange(i, m, u, changed), u)
      BY NotifiedShows
    <3> QED
      BY <2>1, <3>1
  <2>2. CASE j # i
    <3>1. PICK v : v = memory[j]
      OBVIOUS
    <3>2. Shows(j, v, undoStore)
      BY <3>1 DEF AllShow
    <3>3. Remembers(j, v, undoStore) /\ ShowsStates(j, v, undoStore)
      BY <3>2 DEF Shows
    <3>4. Remembers(j, v, u)
      BY <3>3, RemembersLater
    <3>5. ShowsStates(j, v, u) => Shows(j, v, u)
      BY <3>2, ShowsLater
    <3>6. /\ DOMAIN v.states = Names(j, undoStore)
          /\ \A t \in Names(j, undoStore) : v.states[t] = undoStore.tracks[t]
      BY <3>3 DEF ShowsStates
    <3>7. Names(j, undoStore) \subseteq Names(j, u)
      BY DEF Names, Grows
    <3>8. ASSUME NEW t \in Names(j, u) \ DOMAIN changed
          PROVE  t \in DOMAIN v.states /\ v.states[t] = u.tracks[t]
      <4>1. t \in DOMAIN undoStore.tracks /\ u.tracks[t] = undoStore.tracks[t] /\ t \in NamesOf[j]
        BY DEF Names
      <4>2. t \in Names(j, undoStore)
        BY <4>1 DEF Names
      <4> QED
        BY <3>6, <4>1, <4>2
    <3>9. DOMAIN v.states \subseteq Names(j, u)
      BY <3>6, <3>7
    <3>10. Shows(j, StoreTrackDidChange(j, v, u, changed), u)
      BY <3>4, <3>5, <3>8, <3>9, NotifiedShows
    <3> QED
      BY <2>2, <3>1, <3>10
  <2> QED
    BY <2>1, <2>2
<1>3. DOMAIN memory' = Track /\ \A j \in Track : Shows(j, memory'[j], undoStore')
  BY <1>1, <1>2
<1> QED
  BY <1>1, <1>3 DEF AllShow

(* A command of the operation on the root is recorded. *)
RecordsCommand(p, op) ==
  \E c \in Command :
    /\ c.root = p /\ c.operation = op
    /\ c.parent = StateForTrackName(undoStore, c.trackName).current
    /\ Recorded(undoStore, c, undoStore')

(* A command is recorded on a plain track, and every track object shows it.*)
LEMMA RecordCommandShows ==
  ASSUME StoreOK(undoStore), AllShow, NEW i \in Track, MayRecord(i),
         NEW p \in PersistentRoot, NEW op \in Operation, RecordCommand(i, p, op)
  PROVE  RecordsCommand(p, op) /\ StoreOK(undoStore)' /\ AllShow'
<1> DEFINE u == undoStore
           n == Len(u.commands) + 1
<1>1. PICK t \in TrackName : NamesOf[i] = {t} /\ i \notin PatternTrack
  BY DEF MayRecord
<1>2. Len(u.commands) < MaxSequenceNumber
  BY DEF MayRecord
<1> DEFINE parent == StateForTrackName(u, t).current
           c == [parent |-> parent, trackName |-> t, root |-> p, operation |-> op]
           state == [head |-> n, current |-> n]
           added == [u EXCEPT !.commands = Append(@, c), !.rows = @ \cup {n}]
           stored == SetTrackState(added, t, state)
           held == [memory[i] EXCEPT !.states = Put(@, t, state), !.parents = Put(@, n, parent)]
           changed == [s \in {t} |-> state]
<1>3. (CHOOSE s \in NamesOf[i] : TRUE) = t
  BY <1>1
<1>4. CommitUndoStore(i, ReloadNodes(i, held, stored), stored, changed)
  BY <1>3 DEF RecordCommand
<1>5. /\ Len(u.commands) \in Nat
      /\ \A s \in DOMAIN u.tracks : StateOK(u.commands, s, u.tracks[s])
      /\ Ordered(u.commands)
  BY StoreParts
<1>6. parent \in 0 .. Len(u.commands)
  <2>1. CASE t \in DOMAIN u.tracks
    <3>1. parent = u.tracks[t].current /\ StateOK(u.commands, t, u.tracks[t])
      BY <1>5, <2>1, StateIsStored
    <3> QED
      BY <1>5, <3>1, StateFacts
  <2>2. CASE t \notin DOMAIN u.tracks
    <3>1. parent = 0
      BY <2>2, StateIsStored DEF NoState
    <3> QED
      BY <1>5, <3>1
  <2> QED
    BY <2>1, <2>2
<1> HIDE DEF parent
<1>7. /\ c \in Command /\ c.parent = parent /\ c.trackName = t
      /\ c.root = p /\ c.operation = op
  <2>1. parent \in 0 .. MaxSequenceNumber
    BY <1>2, <1>5, <1>6
  <2> QED
    BY <2>1 DEF Command
<1>8. Recorded(u, c, stored)
  BY <1>7 DEF Recorded
<1> HIDE DEF c, added, stored
<1>9. c.parent = StateForTrackName(u, c.trackName).current
  BY <1>7 DEF parent
<1>10. StoreOK(stored) /\ Grows(u, stored)
  BY <1>2, <1>7, <1>8, <1>9, RecordedStore
<1>11. /\ stored.commands[n] = c /\ Len(stored.commands) = n
       /\ DOMAIN stored.tracks = DOMAIN u.tracks \cup {t}
       /\ stored.tracks[t] = state
       /\ \A s \in DOMAIN u.tracks \ {t} : stored.tracks[s] = u.tracks[s]
  <2>1. /\ stored.commands[Len(u.commands) + 1] = c
        /\ Len(stored.commands) = Len(u.commands) + 1
        /\ DOMAIN stored.tracks = DOMAIN u.tracks \cup {c.trackName}
        /\ stored.tracks[c.trackName]
             = [head |-> Len(u.commands) + 1, current |-> Len(u.commands) + 1]
        /\ \A s \in DOMAIN u.tracks \ {c.trackName} : stored.tracks[s] = u.tracks[s]
    <3>1. RecordedIs(u, c, stored)
      BY <1>2, <1>7, <1>8, <1>9, RecordedStore
    <3> QED
      BY <3>1 DEF RecordedIs
  <2> QED
    BY <1>7, <2>1
<1>12. PICK w : w = memory[i]
  OBVIOUS
<1>13. Shows(i, w, u)
  BY <1>12 DEF AllShow
<1>14. Remembers(i, w, stored) /\ ShowsStates(i, w, u)
  BY <1>10, <1>13, RemembersLater DEF Shows
<1>15. /\ w \in [states : States, parents : ParentMaps, nodes : Seq(Nat)]
       /\ n \in Nat /\ parent \in Nat /\ state \in State
  BY <1>5, <1>6, <1>14 DEF Remembers, State
<1> HIDE DEF state
<1>16. /\ Put(w.states, t, state) \in States
       /\ PutIs(w.states, t, state, Put(w.states, t, state))
  BY <1>15, PutState
<1>17. /\ Put(w.parents, n, parent) \in ParentMaps
       /\ PutIs(w.parents, n, parent, Put(w.parents, n, parent))
  <2> HIDE DEF n
  <2> QED
    BY <1>15, PutParent
<1>18. /\ held \in [states : States, parents : ParentMaps, nodes : Seq(Nat)]
       /\ held.states = Put(w.states, t, state) /\ held.parents = Put(w.parents, n, parent)
  <2> HIDE DEF n
  <2> QED
    BY <1>12, <1>15, <1>16, <1>17
<1> HIDE DEF held
<1>19. /\ DOMAIN held.states = DOMAIN w.states \cup {t} /\ held.states[t] = state
       /\ \A s \in DOMAIN w.states \ {t} : held.states[s] = w.states[s]
       /\ DOMAIN held.parents = DOMAIN w.parents \cup {n} /\ held.parents[n] = parent
       /\ \A d \in DOMAIN w.parents \ {n} : held.parents[d] = w.parents[d]
  BY <1>16, <1>17, <1>18 DEF PutIs
<1> HIDE DEF n
<1>20. Remembers(i, held, stored)
  <2>1. n \in 1 .. Len(stored.commands)
    BY <1>11, <1>5 DEF n
  <2>2. /\ DOMAIN w.parents \subseteq 1 .. Len(stored.commands)
        /\ \A d \in DOMAIN w.parents : /\ w.parents[d] = stored.commands[d].parent
                                       /\ stored.commands[d].trackName \in NamesOf[i]
    BY <1>14 DEF Remembers, KnowsParents
  <2> QED
    BY <1>1, <1>7, <1>11, <1>18, <1>19, <2>1, <2>2 DEF Remembers, KnowsParents
<1>21. ShowsStates(i, held, stored)
  <2>1. DOMAIN w.states = Names(i, u) /\ \A s \in Names(i, u) : w.states[s] = u.tracks[s]
    BY <1>14 DEF ShowsStates
  <2>2. Names(i, stored) = Names(i, u) \cup {t}
    BY <1>1, <1>11 DEF Names
  <2>3. held.states = [s \in DOMAIN held.states |-> held.states[s]]
    BY <1>18, StatesAreFunctions
  <2>4. \A s \in Names(i, stored) : held.states[s] = stored.tracks[s]
    BY <1>11, <1>19, <2>1, <2>2 DEF Names
  <2> QED
    BY <1>19, <2>1, <2>2, <2>3, <2>4 DEF ShowsStates
<1>22. Shows(i, ReloadNodes(i, held, stored), stored)
  BY <1>10, <1>20, <1>21, ReloadNodesShows
<1>23. PICK m : m = ReloadNodes(i, held, stored)
  OBVIOUS
<1>24. /\ Remembers(i, m, stored) /\ DOMAIN m.states \subseteq Names(i, stored)
       /\ ShowsStates(i, m, stored) => Shows(i, m, stored)
       /\ \A s \in Names(i, stored) : s \in DOMAIN m.states /\ m.states[s] = stored.tracks[s]
  BY <1>22, <1>23 DEF Shows, ShowsStates
<1>25. /\ \A s \in DOMAIN changed : s \in DOMAIN stored.tracks /\ changed[s] = stored.tracks[s]
       /\ \A s \in DOMAIN stored.tracks \ DOMAIN changed :
            s \in DOMAIN u.tracks /\ stored.tracks[s] = u.tracks[s]
  BY <1>11
<1>26. CommitUndoStore(i, m, stored, changed)
  BY <1>4, <1>23
<1> HIDE DEF changed
<1>27. undoStore' = stored /\ AllShow'
  BY <1>10, <1>24, <1>25, <1>26, CommitShows
<1>28. RecordsCommand(p, op)
  BY <1>7, <1>8, <1>9, <1>27 DEF RecordsCommand
<1> QED
  BY <1>10, <1>27, <1>28

-----------------------------------------------------------------------------
(* Moving along a track *)

StartOfMove(i) == [o |-> objectStore, u |-> undoStore, m |-> memory[i]]

(* f gives what the first k steps leave. *)
Moves(i, steps, f) ==
  f = [k \in 0 .. Len(steps) |-> IF k = 0 THEN StartOfMove(i)
                                 ELSE DoCommand(f[k - 1], steps[k])]

DoneAfter(i, steps) == CHOOSE f : Moves(i, steps, f)

(* A move is one step after another.                                       *)
LEMMA DoneSteps ==
  ASSUME NEW i, NEW steps, Len(steps) \in Nat
  PROVE  /\ Done(i, steps) = DoneAfter(i, steps)[Len(steps)]
         /\ DoneAfter(i, steps)[0] = StartOfMove(i)
         /\ \A k \in 1 .. Len(steps) :
              DoneAfter(i, steps)[k] = DoCommand(DoneAfter(i, steps)[k - 1], steps[k])
<1> DEFINE N == Len(steps)
           Is(f, K) == f = [k \in 0 .. K |-> IF k = 0 THEN StartOfMove(i)
                                             ELSE DoCommand(f[k - 1], steps[k])]
           Bad == {K \in 0 .. N : ~ \E f : Is(f, K)}
<1>1. Bad = {}
  <2> SUFFICES ASSUME Bad # {}
               PROVE  FALSE
    OBVIOUS
  <2>1. PICK K \in Bad : \A k \in Bad : K <= k
    <3>1. Bad \in SUBSET Nat
      OBVIOUS
    <3> HIDE DEF Bad
    <3> QED
      BY <3>1, LeastNumber
  <2>2. K \in 0 .. N /\ ~ \E f : Is(f, K)
    OBVIOUS
  <2>3. K # 0
    <3> DEFINE f == [k \in 0 .. 0 |-> StartOfMove(i)]
    <3>1. Is(f, 0)
      <4>1. \A k \in 0 .. 0 : k = 0
        OBVIOUS
      <4> QED
        BY <4>1
    <3> QED
      BY <2>2, <3>1
  <2>4. K - 1 \in 0 .. N /\ K - 1 \notin Bad
    <3>1. K - 1 \in 0 .. N /\ ~ (K <= K - 1)
      BY <2>2, <2>3
    <3> HIDE DEF Bad
    <3> QED
      BY <2>1, <3>1
  <2>5. PICK f : Is(f, K - 1)
    BY <2>4
  <2> DEFINE g == [k \in 0 .. K |-> IF k = K THEN DoCommand(f[K - 1], steps[K]) ELSE f[k]]
  <2>6. \A k \in 0 .. K : g[k] = IF k = 0 THEN StartOfMove(i) ELSE DoCommand(g[k - 1], steps[k])
    <3> TAKE k \in 0 .. K
    <3>1. f = [j \in 0 .. K - 1 |-> IF j = 0 THEN StartOfMove(i)
                                    ELSE DoCommand(f[j - 1], steps[j])]
      BY <2>5
    <3>2. CASE k = K
      <4>1. K - 1 \in 0 .. K /\ K - 1 # K /\ k # 0
        BY <2>2, <2>3, <3>2
      <4>2. g[K - 1] = f[K - 1] /\ g[k] = DoCommand(f[K - 1], steps[K])
        BY <3>2, <4>1
      <4> HIDE DEF g
      <4> QED
        BY <3>2, <4>1, <4>2
    <3>3. CASE k # K
      <4>1. k \in 0 .. K - 1 /\ g[k] = f[k]
        BY <2>2, <3>3
      <4>2. f[k] = IF k = 0 THEN StartOfMove(i) ELSE DoCommand(f[k - 1], steps[k])
        BY <3>1, <4>1
      <4>3. k # 0 => g[k - 1] = f[k - 1]
        <5>1. k # 0 => k - 1 \in 0 .. K /\ k - 1 # K
          BY <2>2, <3>3
        <5> QED
          BY <5>1
      <4> HIDE DEF g
      <4> QED
        BY <4>1, <4>2, <4>3
    <3> QED
      BY <3>2, <3>3
  <2>7. Is(g, K)
    <3>1. g = [k \in 0 .. K |-> g[k]]
      OBVIOUS
    <3> HIDE DEF g
    <3> QED
      BY <2>6, <3>1
  <2> QED
    BY <2>2, <2>7
<1>2. \E f : Moves(i, steps, f)
  <2>1. N \in 0 .. N
    OBVIOUS
  <2> QED
    BY <1>1, <2>1 DEF Moves
<1>3. PICK f : f = DoneAfter(i, steps)
  OBVIOUS
<1>4. f = [k \in 0 .. Len(steps) |-> IF k = 0 THEN StartOfMove(i)
                                     ELSE DoCommand(f[k - 1], steps[k])]
  BY <1>2, <1>3 DEF DoneAfter, Moves
<1>5. 0 \in 0 .. Len(steps) /\ \A k \in 1 .. Len(steps) : k \in 0 .. Len(steps) /\ k # 0
  OBVIOUS
<1>6. f[0] = StartOfMove(i) /\ \A k \in 1 .. Len(steps) : f[k] = DoCommand(f[k - 1], steps[k])
  BY <1>4, <1>5
<1>7. Done(i, steps) = DoneAfter(i, steps)[Len(steps)]
  BY DEF Done, DoneAfter, Moves, StartOfMove
<1> QED
  BY <1>3, <1>6, <1>7

(* A track's state is set to one of the track's.                           *)
LEMMA SetStateStore ==
  ASSUME NEW u, StoreOK(u), NEW t \in DOMAIN u.tracks, NEW state,
         StateOK(u.commands, t, state), NEW u2, u2 = SetTrackState(u, t, state)
  PROVE  /\ StoreOK(u2) /\ u2.commands = u.commands /\ DOMAIN u2.tracks = DOMAIN u.tracks
         /\ u2.tracks[t] = state
         /\ \A s \in DOMAIN u.tracks \ {t} : u2.tracks[s] = u.tracks[s]
<1>1. /\ Ordered(u.commands) /\ Len(u.commands) \in Nat /\ u.rows = 1 .. Len(u.commands)
      /\ u.tracks \in States /\ DOMAIN u.tracks \subseteq TrackName
      /\ \A s \in DOMAIN u.tracks : StateOK(u.commands, s, u.tracks[s])
      /\ \A d \in 1 .. Len(u.commands) : u.commands[d].trackName \in DOMAIN u.tracks
  BY StoreParts
<1>2. u \in [commands : Seq(Command), rows : SUBSET Nat, marked : SUBSET Nat, tracks : States]
  BY DEF StoreOK
<1>3. /\ state \in State /\ state.head \in u.rows
      /\ state.current \in u.rows \/ state.current = 0
  <2>1. state.current \in 0 .. Len(u.commands)
    BY <1>1, StateFacts
  <2> QED
    BY <1>1, <2>1 DEF StateOK
<1>4. [state EXCEPT !.current = IF @ \in u.rows THEN @ ELSE 0] = state
  <2>1. (IF state.current \in u.rows THEN state.current ELSE 0) = state.current
    BY <1>3
  <2>2. [state EXCEPT !.current = state.current] = state
    BY <1>3 DEF State
  <2> QED
    BY <2>1, <2>2
<1>5. u2 = [u EXCEPT !.tracks = Put(u.tracks, t, state)]
  BY <1>3, <1>4 DEF SetTrackState
<1>6. /\ Put(u.tracks, t, state) \in States
      /\ PutIs(u.tracks, t, state, Put(u.tracks, t, state))
  BY <1>1, <1>3, PutState
<1>7. /\ u2 \in [commands : Seq(Command), rows : SUBSET Nat, marked : SUBSET Nat, tracks : States]
      /\ u2.commands = u.commands /\ u2.rows = u.rows /\ u2.marked = u.marked
      /\ u2.tracks = Put(u.tracks, t, state)
  BY <1>2, <1>5, <1>6
<1>8. /\ DOMAIN u2.tracks = DOMAIN u.tracks /\ u2.tracks[t] = state
      /\ \A s \in DOMAIN u.tracks \ {t} : u2.tracks[s] = u.tracks[s]
  BY <1>6, <1>7 DEF PutIs
<1>9. StoreOK(u2)
  BY <1>1, <1>7, <1>8 DEF StoreOK, KeepsRows
<1> QED
  BY <1>7, <1>8, <1>9

(* The operation a step carries out, and the command it makes current. *)
StepOperation(cs, step) ==
  IF step.inverse THEN Inversed(cs[step.command].operation) ELSE cs[step.command].operation

StepCurrent(cs, step) == IF step.inverse THEN cs[step.command].parent ELSE step.command

(* A step of a track object: a command it shows. *)
StepOK(i, m, u, step) ==
  /\ step.command \in DOMAIN m.parents /\ step.inverse \in BOOLEAN
  /\ u.commands[step.command].trackName \in Names(i, u)

(* d2 is d after the step: in the undo store only the track's state differs. *)
Stepped(d, step, d2) ==
  LET cs == d.u.commands
      t == cs[step.command].trackName
      current == StepCurrent(cs, step)
  IN /\ d2.o = AddToStoreTransaction(d.o, cs[step.command].root, StepOperation(cs, step))
     /\ d2.u.commands = cs /\ DOMAIN d2.u.tracks = DOMAIN d.u.tracks
     /\ d2.u.tracks[t].current = current
     /\ d2.u.tracks[t].head = IF current \in {0} \cup Anc(cs, d.u.tracks[t].head)
                              THEN d.u.tracks[t].head ELSE current
     /\ \A s \in DOMAIN d.u.tracks \ {t} : d2.u.tracks[s] = d.u.tracks[s]
     /\ d2.m.parents = d.m.parents /\ d2.m.nodes = d.m.nodes

(* The operations of all commands have their revisions. *)
CommandsFit(o, u) ==
  \A c \in 1 .. Len(u.commands) : OpFits(o, u.commands[c].root, u.commands[c].operation)

(* What holds of the stores and of the memory between two steps. *)
MoveOK(i, d) ==
  /\ ObjectsOK(d.o) /\ StoreOK(d.u) /\ CommandsFit(d.o, d.u)
  /\ Remembers(i, d.m, d.u) /\ ShowsStates(i, d.m, d.u)

StateSet(m, t, state, v) == v = [m EXCEPT !.states[t] = state]

(* A memory with another state of a track.                                 *)
LEMMA StateEdit ==
  ASSUME NEW m \in [states : States, parents : ParentMaps, nodes : Seq(Nat)],
         NEW t \in DOMAIN m.states, NEW state \in State,
         NEW v, StateSet(m, t, state, v)
  PROVE  /\ v \in [states : States, parents : ParentMaps, nodes : Seq(Nat)]
         /\ v.parents = m.parents /\ v.nodes = m.nodes
         /\ DOMAIN v.states = DOMAIN m.states /\ v.states[t] = state
         /\ \A s \in DOMAIN m.states \ {t} : v.states[s] = m.states[s]
<1>1. DOMAIN m.states \subseteq TrackName /\ m.states \in [DOMAIN m.states -> State]
  BY StatesAreFunctions
<1>2. [m.states EXCEPT ![t] = state] \in [DOMAIN m.states -> State]
  BY <1>1
<1>3. [m.states EXCEPT ![t] = state] \in States
  BY <1>1, <1>2 DEF States
<1>4. v = [m EXCEPT !.states = [m.states EXCEPT ![t] = state]]
  BY DEF StateSet
<1>5. /\ v \in [states : States, parents : ParentMaps, nodes : Seq(Nat)]
      /\ v.parents = m.parents /\ v.nodes = m.nodes
      /\ v.states = [m.states EXCEPT ![t] = state]
  BY <1>3, <1>4, MemoryEdits
<1> QED
  BY <1>1, <1>5

(* One step of a move.                                                     *)
LEMMA StepMoves ==
  ASSUME NEW i \in Track, NEW d, MoveOK(i, d), NEW step, StepOK(i, d.m, d.u, step),
         NEW d2, d2 = DoCommand(d, step)
  PROVE  /\ MoveOK(i, d2) /\ Stepped(d, step, d2)
         /\ Changed(d.o, d.u.commands[step.command].root, d2.o)
<1> DEFINE u == d.u
           m == d.m
           cs == d.u.commands
           n == step.command
           c == cs[n]
           t == c.trackName
           current == StepCurrent(cs, step)
           head == u.tracks[t].head
           newHead == IF current \in {0} \cup Anc(cs, head) THEN head ELSE current
           op == StepOperation(cs, step)
<1>1. /\ Ordered(cs) /\ Len(cs) \in Nat /\ KeepsRows(u)
      /\ \A s \in DOMAIN u.tracks : StateOK(cs, s, u.tracks[s])
  BY StoreParts DEF MoveOK
<1>2. /\ m \in [states : States, parents : ParentMaps, nodes : Seq(Nat)]
      /\ KnowsParents(m, u) /\ m.states = [s \in Names(i, u) |-> u.tracks[s]]
      /\ \A a \in DOMAIN m.parents : cs[a].trackName \in NamesOf[i]
  BY DEF MoveOK, Remembers, ShowsStates
<1>3. /\ n \in 1 .. Len(cs) /\ n \in DOMAIN m.parents /\ m.parents[n] = c.parent
      /\ t \in Names(i, u) /\ t \in DOMAIN u.tracks
  BY <1>2 DEF StepOK, KnowsParents, Names
<1>4. m.states[t] = u.tracks[t] /\ DOMAIN m.states = Names(i, u)
  BY <1>2, <1>3
<1>5. /\ c \in Command /\ c.parent \in 0 .. Len(cs) /\ c.root \in PersistentRoot
      /\ c.parent # 0 => cs[c.parent].trackName = t
      /\ c.operation \in Operation
  BY <1>1, <1>3, CommandTree DEF Command
<1>6. Lineage(m, u, head) = Anc(cs, head)
  BY <1>1, <1>2, LineageIsAnc
<1>7. current \in 0 .. Len(cs) /\ (current # 0 => cs[current].trackName = t)
  BY <1>3, <1>5 DEF StepCurrent
<1> PICK state : state = [current |-> current, head |-> newHead]
  OBVIOUS
<1>8. StateOK(cs, t, state)
  <2>1. StateOK(cs, t, u.tracks[t])
    BY <1>1, <1>3
  <2>2. CASE current \in {0} \cup Anc(cs, head)
    <3> HIDE DEF current
    <3>1. state.current = current /\ state.head = head
      BY <2>2
    <3>2. state \in State
      <4>1. head \in Nat /\ current \in Nat
        <5>1. head \in 1 .. Len(cs)
          BY <2>1 DEF StateOK
        <5>2. Len(cs) \in Nat
          BY <1>1
        <5> HIDE DEF head, cs
        <5> QED
          BY <1>7, <5>1, <5>2
      <4> QED
        BY <2>2, <4>1 DEF State
    <3> QED
      BY <2>1, <2>2, <3>1, <3>2 DEF StateOK
  <2>3. CASE current \notin {0} \cup Anc(cs, head)
    <3> HIDE DEF current
    <3>1. state.current = current /\ state.head = current
      BY <2>3
    <3>2. current \in 1 .. Len(cs)
      BY <1>7, <2>3
    <3>3. current \in Anc(cs, current)
      BY <1>1, <3>2, AncFacts
    <3>4. state \in State
      BY SMTT(30), <3>2, <3>1, <2>3 DEF State
    <3> QED
      BY <1>7, <2>3, <3>1, <3>2, <3>3, <3>4 DEF StateOK
  <2> QED
    BY <2>2, <2>3
<1>9. /\ d2.o = AddToStoreTransaction(d.o, c.root, op)
      /\ d2.u = SetTrackState(u, t, state)
      /\ StateSet(m, t, state, d2.m)
  BY <1>3, <1>4, <1>6 DEF DoCommand, StepOperation, StepCurrent, HeadAfter, StateSet
<1>10. state.current = current /\ state.head = newHead /\ state \in State
  BY <1>8 DEF StateOK
<1> HIDE DEF op, current, newHead, head
<1>11. /\ StoreOK(d2.u) /\ d2.u.commands = cs /\ DOMAIN d2.u.tracks = DOMAIN u.tracks
       /\ d2.u.tracks[t] = state
       /\ \A s \in DOMAIN u.tracks \ {t} : d2.u.tracks[s] = u.tracks[s]
  <2>1. StoreOK(u)
    BY DEF MoveOK
  <2>2. PICK u2 : u2 = d2.u
    OBVIOUS
  <2>3. u2 = SetTrackState(u, t, state)
    BY <1>9, <2>2
  <2>4. t \in DOMAIN u.tracks /\ StateOK(u.commands, t, state)
    BY <1>3, <1>8
  <2>5. /\ StoreOK(u2) /\ u2.commands = u.commands /\ DOMAIN u2.tracks = DOMAIN u.tracks
        /\ u2.tracks[t] = state
        /\ \A s \in DOMAIN u.tracks \ {t} : u2.tracks[s] = u.tracks[s]
    <3> HIDE DEF u, t
    <3> QED
      BY <2>1, <2>3, <2>4, SetStateStore
  <2> QED
    BY <2>2, <2>5
<1>12. /\ d2.m \in [states : States, parents : ParentMaps, nodes : Seq(Nat)]
       /\ d2.m.parents = m.parents /\ d2.m.nodes = m.nodes
       /\ DOMAIN d2.m.states = DOMAIN m.states /\ d2.m.states[t] = state
       /\ \A s \in DOMAIN m.states \ {t} : d2.m.states[s] = m.states[s]
  BY SMTT(30), <1>2, <1>3, <1>4, <1>9, <1>10, StateEdit
<1>13. OpFits(d.o, c.root, op)
  <2>1. OpFits(d.o, c.root, c.operation)
    BY <1>3 DEF MoveOK, CommandsFit
  <2>2. op = c.operation \/ op = Inversed(c.operation)
    BY DEF op, StepOperation
  <2> QED
    BY <2>1, <2>2, InverseFits
<1>14. Changed(d.o, c.root, d2.o)
  <2> HIDE DEF op
  <2> QED
    BY <1>5, <1>9, <1>13, AddChanges DEF MoveOK
<1>15. CommandsFit(d2.o, d2.u)
  <2> SUFFICES ASSUME NEW a \in 1 .. Len(cs)
               PROVE  OpFits(d2.o, cs[a].root, cs[a].operation)
    BY <1>11 DEF CommandsFit
  <2>1. OpFits(d.o, cs[a].root, cs[a].operation)
    BY DEF MoveOK, CommandsFit
  <2>2. cs[a].root \in PersistentRoot
    BY <1>1, CommandTree DEF Command
  <2> QED
    BY <1>14, <2>1, <2>2, LaterKeeps DEF Changed, MoveOK
<1>16. Remembers(i, d2.m, d2.u)
  BY <1>2, <1>11, <1>12 DEF Remembers, KnowsParents
<1>17. ShowsStates(i, d2.m, d2.u)
  <2>1. Names(i, d2.u) = Names(i, u)
    BY <1>11 DEF Names
  <2>2. d2.m.states = [s \in DOMAIN d2.m.states |-> d2.m.states[s]]
    BY <1>12, StatesAreFunctions
  <2>3. \A s \in Names(i, u) : d2.m.states[s] = d2.u.tracks[s]
    <3> TAKE s \in Names(i, u)
    <3>1. s \in DOMAIN u.tracks /\ s \in DOMAIN m.states /\ m.states[s] = u.tracks[s]
      BY <1>2, <1>4 DEF Names
    <3>2. CASE s = t
      BY <1>11, <1>12, <3>2
    <3>3. CASE s # t
      BY <1>11, <1>12, <3>1, <3>3
    <3> QED
      BY <3>2, <3>3
  <2> QED
    BY <1>4, <1>12, <2>1, <2>2, <2>3 DEF ShowsStates
<1>18. MoveOK(i, d2)
  BY <1>11, <1>14, <1>15, <1>16, <1>17 DEF MoveOK, Changed
<1>19. Stepped(d, step, d2)
  BY <1>9, <1>10, <1>11, <1>12 DEF Stepped, op, current, newHead, head
<1> QED
  BY <1>14, <1>18, <1>19

StepsOK(i, steps) ==
  Len(steps) \in Nat /\ \A k \in 1 .. Len(steps) : StepOK(i, memory[i], undoStore, steps[k])

(* No step leaves the branches of the tracks. *)
StayOnBranches(steps) ==
  \A k \in 1 .. Len(steps) :
    LET c == undoStore.commands[steps[k].command]
    IN StepCurrent(undoStore.commands, steps[k])
         \in {0} \cup Anc(undoStore.commands, undoStore.tracks[c.trackName].head)

(* What the first k steps leave. *)
AfterSteps(i, steps, k, d) ==
  /\ MoveOK(i, d) /\ Later(objectStore, d.o)
  /\ d.u.commands = undoStore.commands /\ DOMAIN d.u.tracks = DOMAIN undoStore.tracks
  /\ d.m.parents = memory[i].parents /\ d.m.nodes = memory[i].nodes
  /\ \A t \in DOMAIN undoStore.tracks :
       \/ d.u.tracks[t] = undoStore.tracks[t]
       \/ \E j \in 1 .. k : undoStore.commands[steps[j].command].trackName = t
  /\ StayOnBranches(steps) =>
       \A t \in DOMAIN undoStore.tracks : d.u.tracks[t].head = undoStore.tracks[t].head

(* What holds of the stores and of the track objects between two actions. *)
StoresOK ==
  /\ ObjectsOK(objectStore) /\ StoreOK(undoStore) /\ CommandsFit(objectStore, undoStore)
  /\ AllShow

(* The step after k others.                                                *)
LEMMA NextStep ==
  ASSUME StoresOK, NEW i \in Track, NEW steps, StepsOK(i, steps), NEW k \in 1 .. Len(steps),
         NEW d, AfterSteps(i, steps, k - 1, d), NEW d2, d2 = DoCommand(d, steps[k])
  PROVE  /\ AfterSteps(i, steps, k, d2) /\ Stepped(d, steps[k], d2)
         /\ Changed(d.o, undoStore.commands[steps[k].command].root, d2.o)
<1> DEFINE cs == undoStore.commands
<1>1. PICK step : step = steps[k]
  OBVIOUS
<1>2. PICK t : t = cs[step.command].trackName
  OBVIOUS
<1>3. /\ Len(steps) \in Nat /\ k \in 1 .. Len(steps)
      /\ StepOK(i, memory[i], undoStore, step)
  BY <1>1 DEF StepsOK
<1>4. /\ MoveOK(i, d) /\ Later(objectStore, d.o)
      /\ d.u.commands = cs /\ DOMAIN d.u.tracks = DOMAIN undoStore.tracks
      /\ d.m.parents = memory[i].parents /\ d.m.nodes = memory[i].nodes
  BY DEF AfterSteps
<1>5. StepOK(i, d.m, d.u, step) /\ t \in DOMAIN undoStore.tracks
  BY <1>2, <1>3, <1>4 DEF StepOK, Names
<1>6. /\ MoveOK(i, d2) /\ Stepped(d, step, d2)
      /\ Changed(d.o, d.u.commands[step.command].root, d2.o)
  BY <1>1, <1>4, <1>5, StepMoves
<1>7. /\ d2.u.commands = cs /\ DOMAIN d2.u.tracks = DOMAIN undoStore.tracks
      /\ d2.m.parents = memory[i].parents /\ d2.m.nodes = memory[i].nodes
      /\ d2.u.tracks[t].head = IF StepCurrent(cs, step) \in {0} \cup Anc(cs, d.u.tracks[t].head)
                               THEN d.u.tracks[t].head ELSE StepCurrent(cs, step)
      /\ \A s \in DOMAIN undoStore.tracks \ {t} : d2.u.tracks[s] = d.u.tracks[s]
  BY <1>2, <1>4, <1>6 DEF Stepped
<1>8. Later(objectStore, d2.o)
  <2>1. ObjectsOK(objectStore) /\ ObjectsOK(d.o) /\ ObjectsOK(d2.o) /\ Later(d.o, d2.o)
    BY <1>4, <1>6 DEF StoresOK, MoveOK, Changed
  <2> QED
    BY <1>4, <2>1, LaterTransitive
<1>9. \A s \in DOMAIN undoStore.tracks :
        \/ d2.u.tracks[s] = undoStore.tracks[s]
        \/ \E j \in 1 .. k : cs[steps[j].command].trackName = s
  <2> TAKE s \in DOMAIN undoStore.tracks
  <2>1. CASE s = t
    BY <1>1, <1>2, <1>3, <2>1
  <2>2. CASE s # t
    <3>1. d2.u.tracks[s] = d.u.tracks[s]
      BY <1>7, <2>2
    <3>2. \/ d.u.tracks[s] = undoStore.tracks[s]
          \/ \E j \in 1 .. k - 1 : cs[steps[j].command].trackName = s
      BY DEF AfterSteps
    <3>3. \A j \in 1 .. k - 1 : j \in 1 .. k
      BY <1>3
    <3> QED
      BY <3>1, <3>2, <3>3
  <2> QED
    BY <2>1, <2>2
<1>10. ASSUME StayOnBranches(steps), NEW s \in DOMAIN undoStore.tracks
       PROVE  d2.u.tracks[s].head = undoStore.tracks[s].head
  <2>1. d.u.tracks[s].head = undoStore.tracks[s].head
    BY <1>10 DEF AfterSteps
  <2>2. CASE s = t
    <3>1. StepCurrent(cs, step) \in {0} \cup Anc(cs, undoStore.tracks[t].head)
      BY <1>1, <1>2, <1>3, <1>10 DEF StayOnBranches
    <3> QED
      BY <1>7, <2>1, <2>2, <3>1
  <2>3. CASE s # t
    BY <1>7, <2>1, <2>3
  <2> QED
    BY <2>2, <2>3
<1>11. AfterSteps(i, steps, k, d2)
  BY <1>6, <1>7, <1>8, <1>9, <1>10 DEF AfterSteps
<1> QED
  BY <1>1, <1>4, <1>6, <1>11

(* A move, step by step.                                                   *)
LEMMA MoveSteps ==
  ASSUME StoresOK, NEW i \in Track, NEW steps, StepsOK(i, steps)
  PROVE  /\ \A k \in 0 .. Len(steps) : AfterSteps(i, steps, k, DoneAfter(i, steps)[k])
         /\ \A k \in 1 .. Len(steps) :
              /\ Stepped(DoneAfter(i, steps)[k - 1], steps[k], DoneAfter(i, steps)[k])
              /\ Changed(DoneAfter(i, steps)[k - 1].o,
                         undoStore.commands[steps[k].command].root, DoneAfter(i, steps)[k].o)
<1>1. PICK f : f = DoneAfter(i, steps)
  OBVIOUS
<1>2. /\ Len(steps) \in Nat /\ f[0] = StartOfMove(i)
      /\ \A k \in 1 .. Len(steps) : f[k] = DoCommand(f[k - 1], steps[k])
  BY <1>1, DoneSteps DEF StepsOK
<1>3. AfterSteps(i, steps, 0, f[0])
  <2>1. f[0].o = objectStore /\ f[0].u = undoStore /\ f[0].m = memory[i]
    BY <1>2 DEF StartOfMove
  <2>2. MoveOK(i, f[0])
    BY <2>1 DEF StoresOK, AllShow, Shows, MoveOK
  <2>3. Later(objectStore, objectStore)
    BY LaterTransitive DEF StoresOK
  <2> QED
    BY <2>1, <2>2, <2>3 DEF AfterSteps
<1> DEFINE Bad == {k \in 0 .. Len(steps) : ~ AfterSteps(i, steps, k, f[k])}
<1>4. Bad = {}
  <2> SUFFICES ASSUME Bad # {}
               PROVE  FALSE
    OBVIOUS
  <2>1. PICK k \in Bad : \A j \in Bad : k <= j
    <3>1. Bad \in SUBSET Nat
      BY <1>2
    <3> HIDE DEF Bad
    <3> QED
      BY <3>1, LeastNumber
  <2>2. k \in 0 .. Len(steps) /\ ~ AfterSteps(i, steps, k, f[k])
    OBVIOUS
  <2>3. k \in 1 .. Len(steps) /\ k - 1 \in 0 .. Len(steps) /\ ~ (k <= k - 1)
    <3>1. k # 0
      BY <1>3, <2>2
    <3> QED
      BY <1>2, <2>2, <3>1
  <2>4. AfterSteps(i, steps, k - 1, f[k - 1])
    <3>1. k - 1 \notin Bad
      <4> HIDE DEF Bad
      <4> QED
        BY <2>1, <2>3
    <3> QED
      BY <2>3, <3>1
  <2>5. f[k] = DoCommand(f[k - 1], steps[k])
    BY <1>2, <2>3
  <2>6. AfterSteps(i, steps, k, f[k])
    <3> HIDE DEF Bad
    <3> QED
      BY <2>3, <2>4, <2>5, NextStep
  <2> QED
    BY <2>2, <2>6
<1>5. \A k \in 0 .. Len(steps) : AfterSteps(i, steps, k, f[k])
  BY <1>4
<1>6. ASSUME NEW k \in 1 .. Len(steps)
      PROVE  /\ Stepped(f[k - 1], steps[k], f[k])
             /\ Changed(f[k - 1].o, undoStore.commands[steps[k].command].root, f[k].o)
  <2>1. k - 1 \in 0 .. Len(steps)
    BY <1>2
  <2>2. AfterSteps(i, steps, k - 1, f[k - 1]) /\ f[k] = DoCommand(f[k - 1], steps[k])
    BY <1>2, <1>5, <2>1
  <2> QED
    BY <2>2, NextStep
<1> QED
  BY <1>1, <1>5, <1>6

-----------------------------------------------------------------------------
(* The order of the nodes *)

(* c is the sequence a and then b. *)
IsConcat(a, b, c) == c = a \o b

ConcatParts(S, a, b, c) ==
  /\ c \in Seq(S) /\ Len(c) = Len(a) + Len(b)
  /\ \A j \in 1 .. Len(a) : c[j] = a[j]
  /\ \A j \in 1 .. Len(b) : c[Len(a) + j] = b[j]

(* Its length and its elements.                                            *)
LEMMA Concatenated ==
  ASSUME NEW S, NEW a \in Seq(S), NEW b \in Seq(S), NEW c, IsConcat(a, b, c)
  PROVE  ConcatParts(S, a, b, c)
<1>1. Len(a) \in Nat /\ Len(b) \in Nat
  OBVIOUS
<1>2. /\ a \o b \in Seq(S) /\ Len(a \o b) = Len(a) + Len(b)
      /\ \A j \in 1 .. Len(a) + Len(b) :
           (a \o b)[j] = IF j <= Len(a) THEN a[j] ELSE b[j - Len(a)]
  OBVIOUS
<1> DEFINE ab == a \o b
<1>3. c = ab
  BY DEF IsConcat
<1> HIDE DEF ab
<1>4. \A j \in 1 .. Len(a) + Len(b) : ab[j] = IF j <= Len(a) THEN a[j] ELSE b[j - Len(a)]
  BY <1>2 DEF ab
<1>5. \A j \in 1 .. Len(a) : ab[j] = a[j]
  <2> TAKE j \in 1 .. Len(a)
  <2>1. j \in 1 .. Len(a) + Len(b) /\ j <= Len(a)
    BY <1>1
  <2> QED
    BY <1>4, <2>1
<1>6. \A j \in 1 .. Len(b) : ab[Len(a) + j] = b[j]
  <2> TAKE j \in 1 .. Len(b)
  <2>1. Len(a) + j \in 1 .. Len(a) + Len(b) /\ ~ (Len(a) + j <= Len(a)) /\ (Len(a) + j) - Len(a) = j
    BY <1>1
  <2> QED
    BY <1>4, <2>1
<1>7. ab \in Seq(S) /\ Len(ab) = Len(a) + Len(b)
  BY <1>2 DEF ab
<1> QED
  BY <1>3, <1>5, <1>6, <1>7 DEF ConcatParts

(* s is 0, the sequence q and the sequence r. *)
Joined(s, q, r) == s = <<0>> \o q \o r

(* It has the members of C up to k, in the order of q, and then those of D. *)
JoinedAt(s, q, r, C, D, k) ==
  /\ Len(q) \in Nat /\ Len(r) \in Nat /\ Len(s) = k + Len(r) /\ k = 1 + Len(q)
  /\ DOMAIN s = 1 .. Len(s) /\ s[1] = 0
  /\ \A j \in 2 .. k : j - 1 \in 1 .. Len(q) /\ s[j] = q[j - 1] /\ s[j] \in C
  /\ \A j \in k + 1 .. Len(s) : j - k \in 1 .. Len(r) /\ s[j] = r[j - k] /\ s[j] \in D
  /\ \A c \in C : \E j \in 2 .. k : s[j] = c
  /\ \A c \in D : \E j \in k + 1 .. Len(s) : s[j] = c

(* Where the parts of it are.                                              *)
LEMMA JoinedParts ==
  ASSUME NEW C \in SUBSET Nat, NEW q, InOrder(q, C), NEW D \in SUBSET Nat, NEW r, InOrder(r, D),
         NEW s, Joined(s, q, r)
  PROVE  JoinedAt(s, q, r, C, D, 1 + Len(q))
<1>1. /\ q \in Seq(C) /\ Range(q) = C /\ r \in Seq(D) /\ Range(r) = D
  BY DEF InOrder
<1>2. q \in Seq(Nat) /\ r \in Seq(Nat) /\ <<0>> \in Seq(Nat)
  <2>1. q \in Seq(Nat)
    BY <1>1, SeqMonotonic
  <2>2. r \in Seq(Nat)
    BY <1>1, SeqMonotonic
  <2> QED
    BY <2>1, <2>2
<1>3. Len(q) \in Nat /\ Len(r) \in Nat /\ DOMAIN q = 1 .. Len(q) /\ DOMAIN r = 1 .. Len(r)
  BY <1>1
<1>4. PICK z : z = <<0>> \o q
  OBVIOUS
<1>5. /\ z \in Seq(Nat) /\ Len(z) = 1 + Len(q) /\ z[1] = 0
      /\ \A j \in 2 .. 1 + Len(q) : z[j] = q[j - 1]
  BY <1>2, <1>4
<1>6. s = z \o r
  BY <1>4 DEF Joined
<1>7. /\ s \in Seq(Nat) /\ Len(s) = 1 + Len(q) + Len(r) /\ DOMAIN s = 1 .. Len(s)
      /\ \A j \in 1 .. 1 + Len(q) : s[j] = z[j]
      /\ \A j \in 2 + Len(q) .. Len(s) : s[j] = r[j - 1 - Len(q)]
  <2>1. IsConcat(z, r, s)
    BY <1>6 DEF IsConcat
  <2>2. /\ s \in Seq(Nat) /\ Len(s) = Len(z) + Len(r)
        /\ \A j \in 1 .. Len(z) : s[j] = z[j]
        /\ \A j \in 1 .. Len(r) : s[Len(z) + j] = r[j]
    <3>1. ConcatParts(Nat, z, r, s)
      BY <1>2, <1>5, <2>1, Concatenated
    <3> QED
      BY <3>1 DEF ConcatParts
  <2>3. Len(s) = 1 + Len(q) + Len(r) /\ DOMAIN s = 1 .. Len(s)
    BY <1>3, <1>5, <2>2
  <2>4. ASSUME NEW j \in 2 + Len(q) .. Len(s)
        PROVE  s[j] = r[j - 1 - Len(q)]
    <3>1. j - 1 - Len(q) \in 1 .. Len(r) /\ j = Len(z) + (j - 1 - Len(q))
      BY <1>3, <1>5, <2>3
    <3> QED
      BY <2>2, <3>1
  <2> QED
    BY <1>5, <2>2, <2>3, <2>4
<1>8. s[1] = 0
  BY <1>3, <1>5, <1>7
<1>9. PICK k : k = 1 + Len(q)
  OBVIOUS
<1>10. ASSUME NEW j \in 2 .. k
      PROVE  j - 1 \in 1 .. Len(q) /\ s[j] = q[j - 1] /\ s[j] \in C
  <2>1. j - 1 \in 1 .. Len(q) /\ j \in 1 .. 1 + Len(q) /\ j \in 2 .. 1 + Len(q)
    BY <1>3, <1>9
  <2>2. q[j - 1] \in C
    BY <1>1, <2>1, ElementOfSeq
  <2> QED
    BY <1>5, <1>7, <2>1, <2>2
<1>11. ASSUME NEW j \in k + 1 .. Len(s)
       PROVE  j - k \in 1 .. Len(r) /\ s[j] = r[j - k] /\ s[j] \in D
  <2>1. /\ j - k \in 1 .. Len(r) /\ j - 1 - Len(q) = j - k
        /\ j \in 2 + Len(q) .. Len(s)
    BY <1>3, <1>7, <1>9
  <2>2. r[j - k] \in D
    BY <1>1, <2>1, ElementOfSeq
  <2> QED
    BY <1>7, <2>1, <2>2
<1>12. ASSUME NEW c \in C
       PROVE  \E j \in 2 .. k : s[j] = c
  <2>1. PICK j \in 1 .. Len(q) : q[j] = c
    BY <1>1, <1>3 DEF Range
  <2>2. j + 1 \in 2 .. k /\ (j + 1) - 1 = j
    BY <1>3, <1>9
  <2> QED
    BY <1>10, <2>1, <2>2
<1>13. ASSUME NEW c \in D
       PROVE  \E j \in k + 1 .. Len(s) : s[j] = c
  <2>1. PICK j \in 1 .. Len(r) : r[j] = c
    BY <1>1, <1>3 DEF Range
  <2>2. k + j \in k + 1 .. Len(s) /\ (k + j) - k = j
    BY <1>3, <1>7, <1>9
  <2> QED
    BY <1>11, <2>1, <2>2
<1>14. JoinedAt(s, q, r, C, D, k)
  BY <1>3, <1>7, <1>8, <1>9, <1>10, <1>11, <1>12, <1>13 DEF JoinedAt
<1> QED
  BY <1>9, <1>14

(* The branches of tracks, each to a command of the track, and what is     *)
(* applied of each.                                                        *)
BranchesOK(cs, names, h, a) ==
  \A t \in names : /\ h[t] \in 1 .. Len(cs) /\ cs[h[t]].trackName = t
                   /\ a[t] \in {0} \cup Anc(cs, h[t])

Applied(cs, names, a) == UNION {Anc(cs, a[t]) : t \in names}

Redo(cs, names, h, a) == UNION {Anc(cs, h[t]) \ Anc(cs, a[t]) : t \in names}

(* The nodes of the first k positions, but the placeholder. *)
Frontier(s, k) == {s[j] : j \in 2 .. k}

(* In a line of nodes, a command comes after the ones it was recorded on.  *)
(* k is the position up to which they are applied.                         *)
InLine(cs, names, h, a, s, k) ==
  /\ Len(s) \in Nat /\ DOMAIN s = 1 .. Len(s) /\ k \in 1 .. Len(s) /\ s[1] = 0
  /\ \A j \in 2 .. Len(s) : /\ s[j] \in 1 .. Len(cs) /\ cs[s[j]].trackName \in names
                            /\ s[j] \in Anc(cs, h[cs[s[j]].trackName])
  /\ \A j, l \in 1 .. Len(s) : s[j] = s[l] => j = l
  /\ \A j \in 2 .. Len(s) : \A b \in Anc(cs, s[j]) : \E l \in 2 .. j : s[l] = b
  /\ \A t \in names : \A b \in Anc(cs, h[t]) : \E j \in 2 .. Len(s) : s[j] = b
  /\ Frontier(s, k) = Applied(cs, names, a)
  /\ \A b \in Applied(cs, names, a) : b <= s[k]
  /\ s[k] \in {0} \cup Applied(cs, names, a)

(* The applied commands, each on the branch of its track.                  *)
LEMMA BranchFacts ==
  ASSUME NEW cs, Ordered(cs), NEW names, NEW h, NEW a, BranchesOK(cs, names, h, a)
  PROVE  /\ Applied(cs, names, a) \subseteq 1 .. Len(cs)
         /\ Redo(cs, names, h, a) \subseteq 1 .. Len(cs)
         /\ \A t \in names : /\ Anc(cs, h[t]) \subseteq 1 .. Len(cs)
                             /\ Anc(cs, a[t]) \subseteq Anc(cs, h[t])
                             /\ Anc(cs, a[t]) = {b \in Anc(cs, h[t]) : b <= a[t]}
                             /\ a[t] \in 0 .. Len(cs)
                             /\ \A b \in Anc(cs, h[t]) : cs[b].trackName = t
         /\ \A b \in Applied(cs, names, a) :
              cs[b].trackName \in names /\ b \in Anc(cs, a[cs[b].trackName])
         /\ \A b \in Redo(cs, names, h, a) :
              /\ cs[b].trackName \in names /\ b \in Anc(cs, h[cs[b].trackName])
              /\ b \notin Anc(cs, a[cs[b].trackName])
<1>1. Len(cs) \in Nat
  BY CommandTree
<1>2. ASSUME NEW t \in names
      PROVE  /\ Anc(cs, h[t]) \subseteq 1 .. Len(cs)
             /\ Anc(cs, a[t]) \subseteq Anc(cs, h[t])
             /\ Anc(cs, a[t]) = {b \in Anc(cs, h[t]) : b <= a[t]}
             /\ a[t] \in 0 .. Len(cs)
             /\ \A b \in Anc(cs, h[t]) : cs[b].trackName = t
  <2>1. h[t] \in 1 .. Len(cs) /\ cs[h[t]].trackName = t /\ a[t] \in {0} \cup Anc(cs, h[t])
    BY DEF BranchesOK
  <2>2. Anc(cs, h[t]) \subseteq 1 .. h[t]
    BY <2>1, AncFacts
  <2>3. Anc(cs, h[t]) \subseteq 1 .. Len(cs)
    BY <1>1, <2>1, <2>2
  <2>4. \A b \in Anc(cs, h[t]) : cs[b].trackName = t
    BY <2>1, AncestorsOfTrack
  <2>5. CASE a[t] = 0
    <3>1. Anc(cs, a[t]) = {}
      BY <2>5, AncFacts
    <3>2. \A b \in Anc(cs, h[t]) : ~ (b <= a[t])
      BY <1>1, <2>3, <2>5
    <3> QED
      BY <1>1, <2>3, <2>4, <2>5, <3>1, <3>2
  <2>6. CASE a[t] \in Anc(cs, h[t])
    <3>1. Anc(cs, a[t]) = {b \in Anc(cs, h[t]) : b <= a[t]}
      BY <2>1, <2>6, AncFacts
    <3> QED
      BY <1>1, <2>3, <2>4, <2>6, <3>1
  <2> QED
    BY <2>1, <2>5, <2>6
<1>3. ASSUME NEW b \in Applied(cs, names, a)
      PROVE  /\ b \in 1 .. Len(cs) /\ cs[b].trackName \in names
             /\ b \in Anc(cs, a[cs[b].trackName])
  <2>1. PICK t \in names : b \in Anc(cs, a[t])
    BY DEF Applied
  <2> QED
    BY <1>2, <2>1
<1>4. ASSUME NEW b \in Redo(cs, names, h, a)
      PROVE  /\ b \in 1 .. Len(cs) /\ cs[b].trackName \in names
             /\ b \in Anc(cs, h[cs[b].trackName]) /\ b \notin Anc(cs, a[cs[b].trackName])
  <2>1. PICK t \in names : b \in Anc(cs, h[t]) \ Anc(cs, a[t])
    BY DEF Redo
  <2> QED
    BY <1>2, <2>1
<1> QED
  BY <1>2, <1>3, <1>4

(* The applied commands in their order, then those to redo in theirs, are  *)
(* in line.                                                                *)
LEMMA NodesInLine ==
  ASSUME NEW cs, Ordered(cs), NEW names, NEW h, NEW a, BranchesOK(cs, names, h, a),
         NEW s, Joined(s, Ascending(Applied(cs, names, a)), Ascending(Redo(cs, names, h, a)))
  PROVE  InLine(cs, names, h, a, s, 1 + Len(Ascending(Applied(cs, names, a))))
<1>1. PICK C : C = Applied(cs, names, a)
  OBVIOUS
<1>2. PICK D : D = Redo(cs, names, h, a)
  OBVIOUS
<1>3. PICK q : q = Ascending(C)
  OBVIOUS
<1>4. PICK r : r = Ascending(D)
  OBVIOUS
<1>5. /\ Len(cs) \in Nat /\ C \subseteq 1 .. Len(cs) /\ D \subseteq 1 .. Len(cs)
      /\ C \in SUBSET Nat /\ D \in SUBSET Nat
  <2>1. Len(cs) \in Nat
    BY CommandTree
  <2>2. C \subseteq 1 .. Len(cs) /\ D \subseteq 1 .. Len(cs)
    BY <1>1, <1>2, BranchFacts
  <2> QED
    BY <2>1, <2>2
<1>6. \A t \in names : /\ Anc(cs, h[t]) \subseteq 1 .. Len(cs)
                       /\ Anc(cs, a[t]) \subseteq Anc(cs, h[t])
                       /\ \A b \in Anc(cs, h[t]) : cs[b].trackName = t
  BY BranchFacts
<1>7. \A b \in C : cs[b].trackName \in names /\ b \in Anc(cs, a[cs[b].trackName])
  BY <1>1, BranchFacts
<1>8. \A b \in D : /\ cs[b].trackName \in names /\ b \in Anc(cs, h[cs[b].trackName])
                   /\ b \notin Anc(cs, a[cs[b].trackName])
  BY <1>2, BranchFacts
<1>9. InOrder(q, C) /\ InOrder(r, D)
  BY <1>3, <1>4, <1>5, AscendingInOrder
<1>10. Joined(s, q, r)
  BY <1>1, <1>2, <1>3, <1>4
<1>11. PICK k : k = 1 + Len(q)
  OBVIOUS
<1>12. /\ Len(q) \in Nat /\ Len(r) \in Nat /\ Len(s) = k + Len(r) /\ k = 1 + Len(q)
       /\ DOMAIN s = 1 .. Len(s) /\ s[1] = 0
       /\ \A j \in 2 .. k : j - 1 \in 1 .. Len(q) /\ s[j] = q[j - 1] /\ s[j] \in C
       /\ \A j \in k + 1 .. Len(s) : j - k \in 1 .. Len(r) /\ s[j] = r[j - k] /\ s[j] \in D
       /\ \A c \in C : \E j \in 2 .. k : s[j] = c
       /\ \A c \in D : \E j \in k + 1 .. Len(s) : s[j] = c
  <2>1. JoinedAt(s, q, r, C, D, k)
    BY <1>5, <1>9, <1>10, <1>11, JoinedParts
  <2> QED
    BY <2>1 DEF JoinedAt
<1>13. /\ \A j, l \in 1 .. Len(q) : j < l => q[j] < q[l]
       /\ \A j, l \in 1 .. Len(r) : j < l => r[j] < r[l]
  BY <1>9 DEF InOrder
<1>14. k \in 1 .. Len(s) /\ \A j \in 2 .. Len(s) : j \in 2 .. k \/ j \in k + 1 .. Len(s)
  BY <1>11, <1>12
<1>15. ASSUME NEW j \in 2 .. Len(s)
       PROVE  /\ s[j] \in 1 .. Len(cs) /\ cs[s[j]].trackName \in names
              /\ s[j] \in Anc(cs, h[cs[s[j]].trackName])
  <2>1. s[j] \in C \/ s[j] \in D
    BY <1>12, <1>14
  <2> QED
    BY <1>5, <1>6, <1>7, <1>8, <2>1
(* Of two of the same part the earlier is smaller. *)
<1>16. ASSUME NEW j \in 2 .. k, NEW l \in 2 .. k, j < l
       PROVE  s[j] < s[l]
  <2>1. j - 1 \in 1 .. Len(q) /\ l - 1 \in 1 .. Len(q) /\ j - 1 < l - 1
    BY <1>12, <1>16
  <2> QED
    BY <1>12, <1>13, <2>1
<1>17. ASSUME NEW j \in k + 1 .. Len(s), NEW l \in k + 1 .. Len(s), j < l
       PROVE  s[j] < s[l]
  <2>1. j - k \in 1 .. Len(r) /\ l - k \in 1 .. Len(r)
    BY <1>12
  <2>2. j - k < l - k
    BY <1>14, <1>17
  <2> QED
    BY <1>12, <1>13, <2>1, <2>2
<1>18. C \cap D = {}
  BY <1>7, <1>8
<1>19. ASSUME NEW j \in 1 .. Len(s), NEW l \in 1 .. Len(s), j < l
       PROVE  s[j] # s[l]
  <2>1. l \in 2 .. Len(s)
    BY <1>12, <1>19
  <2>2. CASE j = 1
    <3>1. s[l] \in 1 .. Len(cs) /\ s[j] = 0
      BY <1>12, <1>15, <2>1, <2>2
    <3> QED
      BY <1>5, <3>1
  <2>3. CASE j # 1
    <3>1. j \in 2 .. Len(s)
      BY <2>3
    <3>2. CASE l \in 2 .. k
      <4>1. j \in 2 .. k
        BY <1>14, <1>19, <3>1, <3>2
      <4>2. s[j] < s[l]
        BY <1>16, <1>19, <3>2, <4>1
      <4> QED
        BY <1>5, <1>15, <2>1, <3>1, <4>2
    <3>3. CASE j \in k + 1 .. Len(s)
      <4>1. l \in k + 1 .. Len(s)
        BY <1>14, <1>19, <2>1, <3>3
      <4>2. s[j] < s[l]
        BY <1>17, <1>19, <3>3, <4>1
      <4> QED
        BY <1>5, <1>15, <2>1, <3>1, <4>2
    <3>4. CASE j \in 2 .. k /\ l \in k + 1 .. Len(s)
      BY <1>12, <1>18, <3>4
    <3> QED
      BY <1>14, <2>1, <3>1, <3>2, <3>3, <3>4
  <2> QED
    BY <2>2, <2>3
<1>20. ASSUME NEW j \in 1 .. Len(s), NEW l \in 1 .. Len(s), s[j] = s[l]
       PROVE  j = l
  <2>1. ~ (j < l) /\ ~ (l < j)
    BY <1>19, <1>20
  <2> QED
    BY <2>1
(* Ancestors are earlier. *)
<1>21. ASSUME NEW j \in 2 .. Len(s), NEW b \in Anc(cs, s[j])
       PROVE  \E l \in 2 .. j : s[l] = b
  <2>1. /\ s[j] \in 1 .. Len(cs) /\ b \in 1 .. Len(cs) /\ b <= s[j]
        /\ Anc(cs, s[j]) \subseteq 1 .. s[j]
    <3>1. s[j] \in 1 .. Len(cs)
      BY <1>15
    <3>2. Anc(cs, s[j]) \subseteq 1 .. s[j]
      BY <3>1, AncFacts
    <3> QED
      BY <1>5, <1>21, <3>1, <3>2
  <2>2. PICK t \in names : t = cs[s[j]].trackName
    BY <1>15
  <2>3. b \in Anc(cs, h[t])
    <3>1. h[t] \in 1 .. Len(cs) /\ s[j] \in Anc(cs, h[t])
      BY <1>15, <2>2 DEF BranchesOK
    <3>2. Anc(cs, s[j]) = {e \in Anc(cs, h[t]) : e <= s[j]}
      BY <3>1, AncFacts
    <3> QED
      BY <1>21, <3>2
  <2>4. CASE b \in C
    <3>1. PICK l \in 2 .. k : s[l] = b
      BY <1>12, <2>4
    <3>2. l <= j
      <4> SUFFICES ASSUME j < l
                   PROVE  FALSE
        BY <1>12
      <4>1. j \in 2 .. k
        BY <1>14
      <4>2. s[j] < s[l]
        BY <1>16, <4>1
      <4> QED
        BY <1>5, <2>1, <3>1, <4>2
    <3> QED
      BY <3>1, <3>2
  <2>5. CASE b \notin C
    <3>1. b \in D
      <4>1. b \notin Anc(cs, a[t])
        BY <1>1, <2>5 DEF Applied
      <4> QED
        BY <1>2, <2>3, <4>1 DEF Redo
    <3>2. PICK l \in k + 1 .. Len(s) : s[l] = b
      BY <1>12, <3>1
    <3>3. s[j] \notin C
      <4> SUFFICES ASSUME s[j] \in C
                   PROVE  FALSE
        OBVIOUS
      <4>1. s[j] \in Anc(cs, a[t])
        BY <1>7, <2>2
      <4>2. a[t] \in 0 .. Len(cs) /\ Anc(cs, a[t]) = {e \in Anc(cs, h[t]) : e <= a[t]}
        BY BranchFacts
      <4>3. b <= a[t]
        BY <1>5, <2>1, <4>1, <4>2
      <4>4. b \in Anc(cs, a[t])
        BY <2>3, <4>2, <4>3
      <4> QED
        BY <1>1, <2>5, <4>4 DEF Applied
    <3>4. j \in k + 1 .. Len(s)
      BY <1>12, <1>14, <3>3
    <3>5. l <= j
      <4> SUFFICES ASSUME j < l
                   PROVE  FALSE
        BY <1>12, <1>14, <3>4
      <4>1. s[j] < s[l]
        BY <1>17, <3>4
      <4> QED
        BY <1>5, <2>1, <3>2, <4>1
    <3>6. l \in 2 .. j
      BY <1>11, <1>12, <3>4, <3>5
    <3> QED
      BY <3>2, <3>6
  <2> QED
    BY <2>4, <2>5
<1>22. ASSUME NEW t \in names, NEW b \in Anc(cs, h[t])
       PROVE  \E j \in 2 .. Len(s) : s[j] = b
  <2>1. CASE b \in C
    <3>1. PICK l \in 2 .. k : s[l] = b
      BY <1>12, <2>1
    <3> QED
      BY <1>14, <3>1
  <2>2. CASE b \notin C
    <3>1. b \in D
      BY <1>1, <1>2, <1>22, <2>2 DEF Applied, Redo
    <3>2. PICK l \in k + 1 .. Len(s) : s[l] = b
      BY <1>12, <3>1
    <3> QED
      BY <1>14, <3>2
  <2> QED
    BY <2>1, <2>2
<1>23. Frontier(s, k) = C
  BY <1>12 DEF Frontier
<1>24. s[k] \in {0} \cup C /\ \A b \in C : b <= s[k]
  <2>1. CASE k = 1
    <3>1. C = {} /\ s[k] = 0
      BY <1>12, <2>1
    <3> QED
      BY <3>1
  <2>2. CASE k # 1
    <3>1. k \in 2 .. k
      BY <1>14, <2>2
    <3>2. s[k] \in C
      BY <1>12, <3>1
    <3>3. ASSUME NEW b \in C
          PROVE  b <= s[k]
      <4>1. PICK l \in 2 .. k : s[l] = b
        BY <1>12
      <4>2. l < k => s[l] < s[k]
        BY <1>16, <3>1
      <4>3. l < k \/ l = k
        BY <1>14
      <4>4. s[k] \in Nat /\ b \in Nat
        BY <1>5, <3>2
      <4>5. CASE l = k
        BY <4>1, <4>4, <4>5
      <4>6. CASE l < k
        BY <4>1, <4>2, <4>4, <4>6
      <4> QED
        BY <4>3, <4>5, <4>6
    <3> QED
      BY <3>2, <3>3
  <2> QED
    BY <2>1, <2>2
<1>25. InLine(cs, names, h, a, s, k)
  BY <1>1, <1>12, <1>14, <1>15, <1>20, <1>21, <1>22, <1>23, <1>24 DEF InLine
<1> QED
  BY <1>1, <1>3, <1>11, <1>25

Heads(u, names) == [t \in names |-> u.tracks[t].head]

Currents(u, names) == [t \in names |-> u.tracks[t].current]

(* The nodes a track object shows are in line, up to the current one.      *)
LEMMA ShownInLine ==
  ASSUME NEW u, StoreOK(u), NEW i \in Track, NEW m, Shows(i, m, u),
         NEW names, names = Names(i, u)
  PROVE  /\ BranchesOK(u.commands, names, Heads(u, names), Currents(u, names))
         /\ \E k : /\ InLine(u.commands, names, Heads(u, names), Currents(u, names), m.nodes, k)
                   /\ m.nodes[k] = CurrentNode(m, u)
<1> DEFINE cs == u.commands
<1>1. PICK h : h = Heads(u, names)
  OBVIOUS
<1>2. PICK a : a = Currents(u, names)
  OBVIOUS
<1>3. /\ Ordered(cs) /\ Len(cs) \in Nat /\ KeepsRows(u)
      /\ \A t \in DOMAIN u.tracks : StateOK(cs, t, u.tracks[t])
      /\ names \subseteq DOMAIN u.tracks
  BY StoreParts DEF Names
<1>4. \A t \in names : h[t] = u.tracks[t].head /\ a[t] = u.tracks[t].current
  BY <1>1, <1>2 DEF Heads, Currents
<1>5. BranchesOK(cs, names, h, a)
  BY <1>3, <1>4 DEF BranchesOK, StateOK
<1>6. Applied(cs, names, a) = AppliedOn(u, names) /\ Redo(cs, names, h, a) = RedoOn(u, names)
  BY <1>4 DEF Applied, AppliedOn, Redo, RedoOn
<1>7. PICK s : s = m.nodes
  OBVIOUS
<1>8. Joined(s, Ascending(Applied(cs, names, a)), Ascending(Redo(cs, names, h, a)))
  BY <1>6, <1>7 DEF Joined, Shows, Nodes
<1>9. PICK k : InLine(cs, names, h, a, s, k)
  BY <1>3, <1>5, <1>8, NodesInLine
<1>10. /\ Applied(cs, names, a) \subseteq 1 .. Len(cs)
       /\ \A t \in names : /\ a[t] \in 0 .. Len(cs)
                           /\ Anc(cs, a[t]) = {b \in Anc(cs, h[t]) : b <= a[t]}
       /\ \A b \in Applied(cs, names, a) :
            cs[b].trackName \in names /\ b \in Anc(cs, a[cs[b].trackName])
  BY <1>3, <1>5, BranchFacts
<1> DEFINE S == {0} \cup ({m.states[t].current : t \in DOMAIN m.states} \cap Known(m, u))
<1>11. CurrentNode(m, u) = Max(S)
  BY DEF CurrentNode
<1>12. S = {0} \cup {a[t] : t \in names}
  <2>1. KnowsParents(m, u) /\ m.states = [t \in names |-> u.tracks[t]]
    BY DEF Shows, Remembers, ShowsStates
  <2>2. Known(m, u) = 1 .. Len(cs)
    BY <1>3, <2>1, LineageIsAnc
  <2>3. DOMAIN m.states = names /\ \A t \in names : m.states[t].current = a[t]
    BY <1>4, <2>1
  <2>4. {m.states[t].current : t \in DOMAIN m.states} = {a[t] : t \in names}
    BY <2>3
  <2>5. \A t \in names : a[t] = 0 \/ a[t] \in 1 .. Len(cs)
    BY <1>3, <1>10
  <2> QED
    BY <2>2, <2>4, <2>5
<1>13. S \in SUBSET (0 .. Len(cs)) /\ S # {}
  <2>1. 0 \in 0 .. Len(cs)
    BY <1>3
  <2> QED
    BY <1>10, <1>12, <2>1
<1> HIDE DEF S
<1>14. Max(S) \in S /\ \A b \in S : b <= Max(S)
  BY <1>3, <1>13, MaxIsGreatest
<1>15. /\ s[k] \in {0} \cup Applied(cs, names, a)
       /\ \A b \in Applied(cs, names, a) : b <= s[k]
  BY <1>9 DEF InLine
<1>16. \A t \in names : a[t] # 0 => a[t] \in Applied(cs, names, a)
  <2> TAKE t \in names
  <2>1. a[t] # 0 => a[t] \in 1 .. Len(cs)
    BY <1>3, <1>10
  <2>2. a[t] # 0 => a[t] \in Anc(cs, a[t])
    BY <1>3, <2>1, AncFacts
  <2> QED
    BY <2>2 DEF Applied
<1>17. s[k] \in S
  <2>1. CASE s[k] = 0
    BY <1>12, <2>1
  <2>2. CASE s[k] # 0
    <3>1. PICK t \in names : s[k] \in Anc(cs, a[t]) /\ s[k] \in 1 .. Len(cs)
      BY <1>10, <1>15, <2>2
    <3>2. s[k] <= a[t] /\ a[t] \in 0 .. Len(cs)
      BY <1>10, <3>1
    <3>3. a[t] # 0
      BY <1>3, <3>1, <3>2
    <3>4. a[t] <= s[k]
      BY <1>15, <1>16, <3>3
    <3>5. a[t] = s[k]
      BY <1>3, <3>1, <3>2, <3>4
    <3> QED
      BY <1>12, <3>5
  <2> QED
    BY <2>1, <2>2
<1>18. \A b \in S : b <= s[k]
  <2>1. s[k] \in 0 .. Len(cs)
    BY <1>13, <1>17
  <2>2. 0 <= s[k]
    BY <1>3, <2>1
  <2>3. \A t \in names : a[t] <= s[k]
    BY <1>15, <1>16, <2>2
  <2> QED
    BY <1>12, <2>2, <2>3
<1>19. s[k] = Max(S)
  <2>1. s[k] <= Max(S) /\ Max(S) <= s[k] /\ s[k] \in 0 .. Len(cs) /\ Max(S) \in 0 .. Len(cs)
    BY <1>13, <1>14, <1>17, <1>18
  <2> QED
    BY <1>3, <2>1
<1> QED
  BY <1>1, <1>2, <1>5, <1>7, <1>9, <1>11, <1>19

(* The steps from x on walk along s, up to y; p are the positions. *)
Walk(s, steps, x, y, p) ==
  /\ x \in Nat /\ y \in Nat /\ x <= y
  /\ \A z \in x .. y : p[z] \in 1 .. Len(s)
  /\ \A z \in x + 1 .. y :
       \/ /\ steps[z].inverse = TRUE /\ p[z] = p[z - 1] - 1
          /\ steps[z].command = s[p[z - 1]]
       \/ /\ steps[z].inverse = FALSE /\ p[z] = p[z - 1] + 1
          /\ steps[z].command = s[p[z]]

(* Every step of a walk is of a command in the line.                       *)
LEMMA WalkSteps ==
  ASSUME NEW s, Len(s) \in Nat, NEW steps, NEW x, NEW y, NEW p, Walk(s, steps, x, y, p),
         NEW z \in x + 1 .. y
  PROVE  steps[z].inverse \in BOOLEAN /\ \E j \in 2 .. Len(s) : steps[z].command = s[j]
<1>1. x \in Nat /\ y \in Nat /\ z \in x .. y /\ z - 1 \in x .. y
  <2>1. x \in Nat /\ y \in Nat
    BY DEF Walk
  <2> QED
    BY <2>1
<1>2. p[z] \in 1 .. Len(s) /\ p[z - 1] \in 1 .. Len(s)
  BY <1>1 DEF Walk
<1>3. CASE /\ steps[z].inverse = TRUE /\ p[z] = p[z - 1] - 1
           /\ steps[z].command = s[p[z - 1]]
  <2>1. p[z - 1] \in 2 .. Len(s)
    BY <1>2, <1>3
  <2> QED
    BY <1>3, <2>1
<1>4. CASE /\ steps[z].inverse = FALSE /\ p[z] = p[z - 1] + 1
           /\ steps[z].command = s[p[z]]
  <2>1. p[z] \in 2 .. Len(s)
    BY <1>2, <1>4
  <2> QED
    BY <1>4, <2>1
<1> QED
  BY <1>3, <1>4 DEF Walk

StepRecord == [command : Nat, inverse : BOOLEAN]

(* A function of the first numbers is a sequence.                          *)
LEMMA MakesSequence ==
  ASSUME NEW S, NEW n \in Nat, NEW f \in [1 .. n -> S]
  PROVE  f \in Seq(S) /\ Len(f) = n
<1>1. f \in Seq(S)
  BY SeqDef
<1> QED
  BY <1>1

(* The steps along the nodes are a walk.                                   *)
LEMMA AlongIsWalk ==
  ASSUME NEW m, m.nodes \in Seq(Nat), NEW from \in 1 .. Len(m.nodes), NEW to \in 1 .. Len(m.nodes),
         NEW steps, steps = StepsAlong(m, from, to)
  PROVE  /\ steps \in Seq(StepRecord)
         /\ \E p : /\ Walk(m.nodes, steps, 0, Len(steps), p)
                   /\ p[0] = from /\ p[Len(steps)] = to
<1>1. PICK s : s = m.nodes
  OBVIOUS
<1>2. s \in Seq(Nat) /\ from \in 1 .. Len(s) /\ to \in 1 .. Len(s) /\ Len(s) \in Nat
  BY <1>1
<1>3. \A j \in 1 .. Len(s) : s[j] \in Nat
  BY <1>2, ElementOfSeq
<1>4. CASE to < from
  <2>1. steps = [k \in 1 .. from - to |-> [command |-> s[from - k + 1], inverse |-> TRUE]]
    BY <1>1, <1>4 DEF StepsAlong
  <2>2. from - to \in Nat /\ \A k \in 1 .. from - to : from - k + 1 \in 1 .. Len(s)
    BY <1>2, <1>4
  <2>3. steps \in Seq(StepRecord) /\ Len(steps) = from - to
    <3>1. \A k \in 1 .. from - to :
            [command |-> s[from - k + 1], inverse |-> TRUE] \in StepRecord
      BY <1>3, <2>2 DEF StepRecord
    <3>2. steps \in [1 .. from - to -> StepRecord]
      BY <2>1, <3>1
    <3> QED
      BY <2>2, <3>2, MakesSequence
  <2> DEFINE p == [z \in 0 .. Len(steps) |-> from - z]
  <2>4. Walk(s, steps, 0, Len(steps), p)
    <3>1. \A z \in 0 .. Len(steps) : p[z] \in 1 .. Len(s)
      BY <1>2, <2>3
    <3>2. ASSUME NEW z \in 0 + 1 .. Len(steps)
          PROVE  /\ steps[z].inverse = TRUE /\ p[z] = p[z - 1] - 1
                 /\ steps[z].command = s[p[z - 1]]
      <4>1. z \in 1 .. from - to /\ z \in 0 .. Len(steps) /\ z - 1 \in 0 .. Len(steps)
        BY <1>2, <2>3
      <4>2. p[z] = from - z /\ p[z - 1] = from - z + 1
        BY <1>2, <4>1
      <4>3. steps[z] = [command |-> s[from - z + 1], inverse |-> TRUE]
        BY <2>1, <4>1
      <4> HIDE DEF p
      <4>4. p[z] = p[z - 1] - 1
        BY <1>2, <4>1, <4>2
      <4> QED
        BY <4>2, <4>3, <4>4
    <3> HIDE DEF p
    <3>3. 0 \in Nat /\ Len(steps) \in Nat /\ 0 <= Len(steps)
      BY <2>2, <2>3
    <3> QED
      BY <3>1, <3>2, <3>3 DEF Walk
  <2>5. p[0] = from /\ p[Len(steps)] = to
    BY <1>2, <2>3
  <2> HIDE DEF p
  <2> QED
    BY <1>1, <2>3, <2>4, <2>5
<1>5. CASE ~ (to < from)
  <2>1. steps = [k \in 1 .. to - from |-> [command |-> s[from + k], inverse |-> FALSE]]
    BY <1>1, <1>5 DEF StepsAlong
  <2>2. to - from \in Nat /\ \A k \in 1 .. to - from : from + k \in 1 .. Len(s)
    BY <1>2, <1>5
  <2>3. steps \in Seq(StepRecord) /\ Len(steps) = to - from
    <3>1. \A k \in 1 .. to - from :
            [command |-> s[from + k], inverse |-> FALSE] \in StepRecord
      BY <1>3, <2>2 DEF StepRecord
    <3>2. steps \in [1 .. to - from -> StepRecord]
      BY <2>1, <3>1
    <3> QED
      BY <2>2, <3>2, MakesSequence
  <2> DEFINE p == [z \in 0 .. Len(steps) |-> from + z]
  <2>4. Walk(s, steps, 0, Len(steps), p)
    <3>1. \A z \in 0 .. Len(steps) : p[z] \in 1 .. Len(s)
      BY <1>2, <2>3
    <3>2. ASSUME NEW z \in 0 + 1 .. Len(steps)
          PROVE  /\ steps[z].inverse = FALSE /\ p[z] = p[z - 1] + 1
                 /\ steps[z].command = s[p[z]]
      <4>1. z \in 1 .. to - from /\ z \in 0 .. Len(steps) /\ z - 1 \in 0 .. Len(steps)
        BY <1>2, <2>3
      <4>2. p[z] = from + z /\ p[z - 1] = from + z - 1
        BY <1>2, <4>1
      <4>3. steps[z] = [command |-> s[from + z], inverse |-> FALSE]
        BY <2>1, <4>1
      <4> HIDE DEF p
      <4>4. p[z] = p[z - 1] + 1
        BY <1>2, <4>1, <4>2
      <4> QED
        BY <4>2, <4>3, <4>4
    <3> HIDE DEF p
    <3>3. 0 \in Nat /\ Len(steps) \in Nat /\ 0 <= Len(steps)
      BY <2>2, <2>3
    <3> QED
      BY <3>1, <3>2, <3>3 DEF Walk
  <2>5. p[0] = from /\ p[Len(steps)] = to
    BY <1>2, <2>3
  <2> HIDE DEF p
  <2> QED
    BY <1>1, <2>3, <2>4, <2>5
<1> QED
  BY <1>4, <1>5

(* A node's position is one where it is.                                   *)
LEMMA PositionIs ==
  ASSUME NEW m, m.nodes \in Seq(Nat), NEW n \in Range(m.nodes)
  PROVE  Position(m, n) \in 1 .. Len(m.nodes) /\ m.nodes[Position(m, n)] = n
<1>1. \E k \in DOMAIN m.nodes : m.nodes[k] = n
  BY DEF Range
<1>2. Position(m, n) \in DOMAIN m.nodes /\ m.nodes[Position(m, n)] = n
  BY <1>1 DEF Position
<1> QED
  BY <1>2

(* A move to a node that is shown walks along the nodes.                   *)
LEMMA StraightMove ==
  ASSUME NEW u, StoreOK(u), NEW i \in Track, NEW m, Shows(i, m, u),
         NEW n, MayMoveTo(i, m, u, n), ~ IsDivergent(m, n),
         NEW steps, steps = StepsTo(m, u, n), NEW names, names = Names(i, u)
  PROVE  /\ steps \in Seq(StepRecord)
         /\ \E k, p : /\ InLine(u.commands, names, Heads(u, names), Currents(u, names), m.nodes, k)
                      /\ Walk(m.nodes, steps, 0, Len(steps), p) /\ p[0] = k
<1>1. m.nodes \in Seq(Nat)
  BY DEF Shows, Remembers
<1>2. PICK k : /\ InLine(u.commands, names, Heads(u, names), Currents(u, names), m.nodes, k)
               /\ m.nodes[k] = CurrentNode(m, u)
  BY ShownInLine
<1>3. PICK from : from = Position(m, CurrentNode(m, u))
  OBVIOUS
<1>4. PICK to : to = Position(m, n)
  OBVIOUS
<1>5. /\ from \in 1 .. Len(m.nodes) /\ m.nodes[from] = CurrentNode(m, u)
      /\ to \in 1 .. Len(m.nodes)
  <2>1. CurrentNode(m, u) \in Range(m.nodes) /\ n \in Range(m.nodes)
    BY DEF MayMoveTo, IsDivergent
  <2> QED
    BY <1>1, <1>3, <1>4, <2>1, PositionIs
<1>6. from = k
  BY <1>2, <1>5 DEF InLine
<1>7. steps = StepsAlong(m, from, to)
  BY <1>3, <1>4 DEF StepsTo
<1>8. /\ steps \in Seq(StepRecord)
      /\ \E p : Walk(m.nodes, steps, 0, Len(steps), p) /\ p[0] = from
  BY SMTT(30), <1>1, <1>5, <1>7, AlongIsWalk
<1> QED
  BY <1>2, <1>6, <1>8

(* The branch of t that ends at the command h, applied up to a. *)
OneBranch(cs, t, h, a, s, k) == InLine(cs, {t}, [r \in {t} |-> h], [r \in {t} |-> a], s, k)

(* The steps are those of A, and others that walk along t's branch to n. *)
Descends(cs, t, n, a, A, steps) ==
  /\ steps \in Seq(StepRecord) /\ Len(A) <= Len(steps) /\ Len(A) \in Nat
  /\ \A z \in 1 .. Len(A) : steps[z] = A[z]
  /\ \E s, k, p : /\ OneBranch(cs, t, n, a, s, k)
                  /\ Walk(s, steps, Len(A), Len(steps), p) /\ p[Len(A)] = k

(* The steps to a command from one it was recorded on walk along its       *)
(* branch.                                                                 *)
LEMMA DescentIsWalk ==
  ASSUME NEW u, StoreOK(u), NEW m, KnowsParents(m, u), NEW n \in 1 .. Len(u.commands),
         NEW a \in {0} \cup Anc(u.commands, n),
         NEW A \in Seq(StepRecord),
         NEW steps, IsConcat(A, StepsToDescendant(m, u, a, n), steps)
  PROVE  Descends(u.commands, u.commands[n].trackName, n, a, A, steps)
<1>1. PICK cs : cs = u.commands
  OBVIOUS
<1>2. Ordered(cs) /\ Len(cs) \in Nat /\ KeepsRows(u) /\ n \in 1 .. Len(cs)
  BY <1>1, StoreParts
<1>3. PICK t : t = cs[n].trackName
  OBVIOUS
<1>4. PICK h : h = [r \in {t} |-> n]
  OBVIOUS
<1>5. PICK b : b = [r \in {t} |-> a]
  OBVIOUS
<1>6. BranchesOK(cs, {t}, h, b)
  BY <1>1, <1>2, <1>3, <1>4, <1>5 DEF BranchesOK
<1>7. PICK C : C = Applied(cs, {t}, b)
  OBVIOUS
<1>8. PICK D : D = Redo(cs, {t}, h, b)
  OBVIOUS
<1>9. C = Anc(cs, a) /\ D = Anc(cs, n) \ Anc(cs, a)
  BY <1>4, <1>5, <1>7, <1>8 DEF Applied, Redo
<1>10. PICK q : q = Ascending(C)
  OBVIOUS
<1>11. PICK r : r = Ascending(D)
  OBVIOUS
<1>12. /\ C \in SUBSET (1 .. Len(cs)) /\ D \in SUBSET (1 .. Len(cs))
       /\ C \in SUBSET Nat /\ D \in SUBSET Nat
  <2>1. C \subseteq 1 .. Len(cs) /\ D \subseteq 1 .. Len(cs)
    BY <1>2, <1>6, <1>7, <1>8, BranchFacts
  <2> QED
    BY <1>2, <2>1
<1>13. InOrder(q, C) /\ InOrder(r, D)
  BY <1>2, <1>10, <1>11, <1>12, AscendingInOrder
<1>14. PICK s : Joined(s, q, r)
  BY DEF Joined
<1>15. PICK k : k = 1 + Len(q)
  OBVIOUS
<1>16. OneBranch(cs, t, n, a, s, k)
  <2>1. Joined(s, Ascending(Applied(cs, {t}, b)), Ascending(Redo(cs, {t}, h, b)))
    BY <1>7, <1>8, <1>10, <1>11, <1>14
  <2>2. InLine(cs, {t}, h, b, s, k)
    BY <1>2, <1>6, <1>7, <1>10, <1>15, <2>1, NodesInLine
  <2> QED
    BY <1>4, <1>5, <2>2 DEF OneBranch
<1>17. JoinedAt(s, q, r, C, D, k)
  BY <1>12, <1>13, <1>14, <1>15, JoinedParts
<1>18. /\ Len(r) \in Nat /\ Len(s) = k + Len(r) /\ k \in Nat /\ k >= 1
       /\ \A j \in k + 1 .. Len(s) : s[j] = r[j - k]
  <2>1. /\ Len(q) \in Nat /\ Len(r) \in Nat /\ Len(s) = k + Len(r) /\ k = 1 + Len(q)
        /\ \A j \in k + 1 .. Len(s) : s[j] = r[j - k]
    BY <1>17 DEF JoinedAt
  <2> QED
    BY <2>1
<1>19. r \in Seq(Nat) /\ DOMAIN r = 1 .. Len(r)
  <2>1. r \in Seq(D)
    BY <1>13 DEF InOrder
  <2> QED
    <3>1. D \subseteq Nat
      BY <1>12
    <3>2. r \in Seq(Nat)
      BY <2>1, <3>1, SeqMonotonic
    <3> QED
      BY <3>2
<1>20. PICK B : B = StepsToDescendant(m, u, a, n)
  OBVIOUS
<1>21. /\ B \in Seq(StepRecord) /\ Len(B) = Len(r)
       /\ \A z \in 1 .. Len(r) : B[z].command = r[z] /\ B[z].inverse = FALSE
  <2>1. Chain(m, u, n) = Anc(cs, n) /\ Chain(m, u, a) = Anc(cs, a)
    <3>1. a \in 0 .. Len(u.commands) /\ n \in 0 .. Len(u.commands)
      <4>1. Anc(cs, n) \subseteq 1 .. n
        BY <1>2, AncFacts
      <4> QED
        BY <1>1, <1>2, <4>1
    <3> QED
      BY <1>1, <1>2, <3>1, LineageIsAnc
  <2>2. r = Ascending(Chain(m, u, n) \ Chain(m, u, a))
    BY <1>9, <1>11, <2>1
  <2>3. B = [z \in DOMAIN r |-> [command |-> r[z], inverse |-> FALSE]]
    BY <1>20, <2>2 DEF StepsToDescendant
  <2>4. \A z \in 1 .. Len(r) : r[z] \in Nat
    BY <1>19, ElementOfSeq
  <2>5. \A z \in 1 .. Len(r) : [command |-> r[z], inverse |-> FALSE] \in StepRecord
    BY <2>4 DEF StepRecord
  <2>6. B \in [1 .. Len(r) -> StepRecord]
    BY <1>19, <2>3, <2>5
  <2>7. B \in Seq(StepRecord) /\ Len(B) = Len(r)
    BY <1>18, <2>6, MakesSequence
  <2>8. \A z \in 1 .. Len(r) : B[z].command = r[z] /\ B[z].inverse = FALSE
    BY <1>19, <2>3
  <2> QED
    BY <2>7, <2>8
<1>22. PICK x : x = Len(A)
  OBVIOUS
<1>23. /\ steps \in Seq(StepRecord) /\ x \in Nat /\ Len(steps) = x + Len(r)
       /\ \A z \in 1 .. x : steps[z] = A[z]
       /\ \A z \in 1 .. Len(r) : steps[x + z] = B[z]
  <2>1. IsConcat(A, B, steps)
    BY <1>20
  <2>2. /\ steps \in Seq(StepRecord) /\ Len(steps) = Len(A) + Len(B)
        /\ \A z \in 1 .. Len(A) : steps[z] = A[z]
        /\ \A z \in 1 .. Len(B) : steps[Len(A) + z] = B[z]
    <3>1. ConcatParts(StepRecord, A, B, steps)
      BY <1>21, <2>1, Concatenated
    <3> QED
      BY <3>1 DEF ConcatParts
  <2>3. x \in Nat
    BY <1>22
  <2> QED
    BY <1>21, <1>22, <2>2, <2>3
<1> DEFINE p == [z \in x .. Len(steps) |-> k + (z - x)]
<1>24. Walk(s, steps, x, Len(steps), p)
  <2>1. x \in Nat /\ Len(steps) \in Nat /\ x <= Len(steps)
    BY <1>18, <1>23
  <2>2. \A z \in x .. Len(steps) : p[z] \in 1 .. Len(s)
    BY <1>18, <1>23
  <2>3. ASSUME NEW z \in x + 1 .. Len(steps)
        PROVE  /\ steps[z].inverse = FALSE /\ p[z] = p[z - 1] + 1
               /\ steps[z].command = s[p[z]]
    <3>1. /\ z \in x .. Len(steps) /\ z - 1 \in x .. Len(steps) /\ z - x \in 1 .. Len(r)
          /\ x + (z - x) = z
      BY <1>18, <1>23
    <3>2. p[z] = k + (z - x) /\ p[z - 1] = k + (z - 1 - x)
      BY <3>1
    <3> HIDE DEF p
    <3>3. p[z] = p[z - 1] + 1
      BY <1>18, <1>23, <3>1, <3>2
    <3>4. steps[z] = B[z - x]
      BY <1>23, <3>1
    <3>5. s[p[z]] = r[z - x]
      <4>1. k + (z - x) \in k + 1 .. Len(s) /\ (k + (z - x)) - k = z - x
        BY <1>18, <3>1
      <4> QED
        BY <1>18, <3>2, <4>1
    <3> QED
      BY <1>21, <3>1, <3>3, <3>4, <3>5
  <2> HIDE DEF p
  <2> QED
    BY <2>1, <2>2, <2>3 DEF Walk
<1>25. p[x] = k
  BY <1>18, <1>23
<1> HIDE DEF p
<1>26. \E z, j, o : /\ OneBranch(cs, t, n, a, z, j)
                    /\ Walk(z, steps, x, Len(steps), o) /\ o[x] = j
  BY <1>16, <1>24, <1>25
<1>27. x <= Len(steps)
  BY <1>18, <1>23
<1> QED
  BY <1>1, <1>3, <1>22, <1>23, <1>26, <1>27 DEF Descends

(* The steps walk along the nodes back to the command a of the track's     *)
(* branch, and from there along another branch to n.                       *)
WalksOver(u, m, names, n, steps, a) ==
  LET t == u.commands[n].trackName
  IN /\ n \in 1 .. Len(u.commands) /\ names = {t}
     /\ a \in {0} \cup Anc(u.commands, n)
     /\ \E x :
          /\ \E k, p :
               /\ InLine(u.commands, names, Heads(u, names), Currents(u, names), m.nodes, k)
               /\ Walk(m.nodes, steps, 0, x, p) /\ p[0] = k /\ m.nodes[p[x]] = a
          /\ \E s, k, p : /\ OneBranch(u.commands, t, n, a, s, k)
                          /\ Walk(s, steps, x, Len(steps), p) /\ p[x] = k

(* A move to a node of another branch goes over the common ancestor.       *)
LEMMA DivergentMove ==
  ASSUME NEW u, StoreOK(u), NEW i \in Track, NEW m, Shows(i, m, u),
         NEW n \in {0} \cup DOMAIN m.parents, MayMoveTo(i, m, u, n), IsDivergent(m, n),
         NEW steps, steps = StepsTo(m, u, n), NEW names, names = Names(i, u)
  PROVE  /\ i \notin PatternTrack /\ steps \in Seq(StepRecord)
         /\ \E a : WalksOver(u, m, names, n, steps, a)
<1>1. PICK cs : cs = u.commands
  OBVIOUS
<1>2. /\ Ordered(cs) /\ Len(cs) \in Nat /\ KeepsRows(u)
      /\ \A c \in 1 .. Len(cs) : cs[c].trackName \in DOMAIN u.tracks
  BY <1>1, StoreParts
<1>3. /\ m.nodes \in Seq(Nat) /\ KnowsParents(m, u)
      /\ \A c \in DOMAIN m.parents : c \in 1 .. Len(cs) /\ cs[c].trackName \in NamesOf[i]
  BY <1>1 DEF Shows, Remembers, KnowsParents
<1>4. PICK k : /\ InLine(cs, names, Heads(u, names), Currents(u, names), m.nodes, k)
               /\ m.nodes[k] = CurrentNode(m, u)
  BY <1>1, ShownInLine
<1>5. /\ k \in 1 .. Len(m.nodes) /\ DOMAIN m.nodes = 1 .. Len(m.nodes) /\ m.nodes[1] = 0
      /\ \A j \in 2 .. Len(m.nodes) : m.nodes[j] \in 1 .. Len(cs)
      /\ \A j, l \in 1 .. Len(m.nodes) : m.nodes[j] = m.nodes[l] => j = l
      /\ \A j \in 2 .. Len(m.nodes) :
           \A b \in Anc(cs, m.nodes[j]) : \E l \in 2 .. j : m.nodes[l] = b
      /\ Len(m.nodes) \in Nat
  BY <1>4 DEF InLine
<1>6. n # 0
  <2>1. 1 \in DOMAIN m.nodes
    BY <1>5
  <2>2. 0 \in Range(m.nodes)
    BY <1>5, <2>1 DEF Range
  <2> QED
    BY <2>2 DEF IsDivergent
<1>7. n \in DOMAIN m.parents /\ n \in 1 .. Len(cs) /\ cs[n].trackName \in NamesOf[i]
  BY <1>3, <1>6
<1>8. i \notin PatternTrack
  BY DEF MayMoveTo
<1>9. names = {cs[n].trackName}
  <2>1. PICK t \in TrackName : NamesOf[i] = {t}
    BY <1>8
  <2>2. cs[n].trackName \in DOMAIN u.tracks
    BY <1>2, <1>7
  <2> QED
    BY <1>7, <2>1, <2>2 DEF Names
<1>10. PICK c : c = CurrentNode(m, u)
  OBVIOUS
<1>11. PICK a : a = CommonAncestor(m, u, c, n)
  OBVIOUS
<1>12. c \in 0 .. Len(cs)
  <2>1. k = 1 \/ k \in 2 .. Len(m.nodes)
    BY <1>5
  <2> QED
    BY <1>2, <1>4, <1>5, <1>10, <2>1
<1>13. a \in {0} \cup (Anc(cs, c) \cap Anc(cs, n))
  <2>1. Chain(m, u, c) = Anc(cs, c) /\ Chain(m, u, n) = Anc(cs, n)
    <3>1. c \in 0 .. Len(u.commands) /\ n \in 0 .. Len(u.commands)
      BY <1>1, <1>2, <1>7, <1>12
    <3> QED
      BY <1>1, <1>2, <1>3, <3>1, LineageIsAnc
  <2> DEFINE S == {0} \cup (Anc(cs, c) \cap Anc(cs, n))
  <2>2. a = Max(S)
    BY <1>11, <2>1 DEF CommonAncestor
  <2>3. S \in SUBSET (0 .. Len(cs)) /\ S # {}
    <3>1. Anc(cs, n) \subseteq 1 .. n
      BY <1>2, <1>7, AncFacts
    <3>2. 0 \in 0 .. Len(cs) /\ Anc(cs, n) \subseteq 0 .. Len(cs)
      BY <1>2, <1>7, <3>1
    <3> QED
      BY <3>2
  <2> HIDE DEF S
  <2>4. Max(S) \in S
    BY <1>2, <2>3, MaxIsGreatest
  <2> QED
    BY <2>2, <2>4 DEF S
<1>14. a \in Range(m.nodes)
  <2>1. CASE a = 0
    <3>1. 1 \in DOMAIN m.nodes
      BY <1>5
    <3> QED
      BY <1>5, <2>1, <3>1 DEF Range
  <2>2. CASE a # 0
    <3>1. a \in Anc(cs, c)
      BY <1>13, <2>2
    <3>2. k # 1
      <4>1. c # 0
        BY <1>2, <3>1, AncFacts
      <4> QED
        BY <1>4, <1>5, <1>10, <4>1
    <3>3. k \in 2 .. Len(m.nodes)
      BY <1>5, <3>2
    <3>4. PICK l \in 2 .. k : m.nodes[l] = a
      BY <1>4, <1>5, <1>10, <3>1, <3>3
    <3>5. l \in DOMAIN m.nodes
      BY <1>5
    <3> QED
      BY <3>4, <3>5 DEF Range
  <2> QED
    BY <2>1, <2>2
<1>15. PICK from : from = Position(m, c)
  OBVIOUS
<1>16. PICK to : to = Position(m, a)
  OBVIOUS
<1>17. /\ from \in 1 .. Len(m.nodes) /\ m.nodes[from] = c
       /\ to \in 1 .. Len(m.nodes) /\ m.nodes[to] = a
  <2>1. c \in Range(m.nodes)
    BY <1>10 DEF MayMoveTo
  <2> QED
    BY <1>3, <1>14, <1>15, <1>16, <2>1, PositionIs
<1>18. from = k
  BY <1>4, <1>5, <1>10, <1>17
<1>19. PICK A : A = StepsAlong(m, from, to)
  OBVIOUS
<1>20. A \in Seq(StepRecord)
  BY <1>3, <1>17, <1>19, AlongIsWalk
<1>21. PICK p : Walk(m.nodes, A, 0, Len(A), p) /\ p[0] = from /\ p[Len(A)] = to
  BY <1>3, <1>17, <1>19, AlongIsWalk
<1>22. IsConcat(A, StepsToDescendant(m, u, a, n), steps)
  BY <1>10, <1>11, <1>15, <1>16, <1>19 DEF StepsTo, IsConcat
<1>23. n \in 1 .. Len(u.commands) /\ a \in {0} \cup Anc(u.commands, n)
  BY <1>1, <1>7, <1>13
<1>24. /\ steps \in Seq(StepRecord) /\ Len(A) \in Nat
       /\ \A z \in 1 .. Len(A) : steps[z] = A[z]
  <2>1. Descends(u.commands, u.commands[n].trackName, n, a, A, steps)
    BY <1>3, <1>20, <1>22, <1>23, DescentIsWalk
  <2> QED
    BY <2>1 DEF Descends
<1>25. \E s, l, q : /\ OneBranch(u.commands, u.commands[n].trackName, n, a, s, l)
                    /\ Walk(s, steps, Len(A), Len(steps), q) /\ q[Len(A)] = l
  <2>1. Descends(u.commands, u.commands[n].trackName, n, a, A, steps)
    BY <1>3, <1>20, <1>22, <1>23, DescentIsWalk
  <2> QED
    BY <2>1 DEF Descends
<1>26. Walk(m.nodes, steps, 0, Len(A), p)
  <2>1. \A z \in 0 + 1 .. Len(A) : steps[z] = A[z]
    BY <1>24
  <2> QED
    BY <1>21, <2>1 DEF Walk
<1>27. \E j, q : /\ InLine(u.commands, names, Heads(u, names), Currents(u, names), m.nodes, j)
                 /\ Walk(m.nodes, steps, 0, Len(A), q) /\ q[0] = j /\ m.nodes[q[Len(A)]] = a
  BY <1>1, <1>4, <1>17, <1>18, <1>21, <1>26
<1>28. WalksOver(u, m, names, n, steps, a)
  BY <1>1, <1>9, <1>23, <1>25, <1>27 DEF WalksOver
<1> QED
  BY <1>8, <1>24, <1>28

(* The steps of a move are of commands the track object shows, and only    *)
(* those to a node of another branch leave the branches.                   *)
LEMMA MoveStepsOK ==
  ASSUME StoresOK, NEW i \in Track, NEW n \in {0} \cup DOMAIN memory[i].parents,
         MayMoveTo(i, memory[i], undoStore, n),
         NEW steps, steps = StepsTo(memory[i], undoStore, n)
  PROVE  /\ StepsOK(i, steps) /\ steps \in Seq(StepRecord)
         /\ ~ IsDivergent(memory[i], n) => StayOnBranches(steps)
         /\ i \in PatternTrack => ~ IsDivergent(memory[i], n)
<1>1. PICK u : u = undoStore
  OBVIOUS
<1>2. PICK m : m = memory[i]
  OBVIOUS
<1>3. PICK cs : cs = u.commands
  OBVIOUS
<1>4. PICK names : names = Names(i, u)
  OBVIOUS
<1>5. StoreOK(u) /\ Shows(i, m, u)
  BY <1>1, <1>2 DEF StoresOK, AllShow
<1>6. Ordered(cs) /\ Len(cs) \in Nat /\ \A t \in DOMAIN u.tracks : StateOK(cs, t, u.tracks[t])
  BY <1>3, <1>5, StoreParts
<1>7. /\ OnBranches(u, names) \subseteq DOMAIN m.parents
      /\ i \notin PatternTrack =>
           \A c \in 1 .. Len(cs) : cs[c].trackName \in NamesOf[i] => c \in DOMAIN m.parents
  BY <1>3, <1>4, <1>5 DEF Shows
<1>8. ASSUME NEW k, InLine(cs, names, Heads(u, names), Currents(u, names), m.nodes, k),
             NEW j \in 2 .. Len(m.nodes), NEW c, c = m.nodes[j]
      PROVE  /\ c \in 1 .. Len(cs) /\ cs[c].trackName \in names
             /\ c \in Anc(cs, u.tracks[cs[c].trackName].head) /\ c \in DOMAIN m.parents
  <2>1. /\ c \in 1 .. Len(cs) /\ cs[c].trackName \in names
        /\ c \in Anc(cs, Heads(u, names)[cs[c].trackName])
    BY <1>8 DEF InLine
  <2>2. c \in Anc(cs, u.tracks[cs[c].trackName].head)
    BY <2>1 DEF Heads
  <2>3. c \in OnBranches(u, names)
    BY <1>3, <2>1, <2>2 DEF OnBranches
  <2> QED
    BY <1>7, <2>1, <2>2, <2>3
<1>9. CASE ~ IsDivergent(m, n)
  <2>1. /\ steps \in Seq(StepRecord)
        /\ \E k, p : /\ InLine(cs, names, Heads(u, names), Currents(u, names), m.nodes, k)
                     /\ Walk(m.nodes, steps, 0, Len(steps), p) /\ p[0] = k
    <3>1. MayMoveTo(i, m, u, n) /\ steps = StepsTo(m, u, n)
      BY <1>1, <1>2
    <3> QED
      BY <1>3, <1>4, <1>5, <1>9, <3>1, StraightMove
  <2>2. PICK k, p : /\ InLine(cs, names, Heads(u, names), Currents(u, names), m.nodes, k)
                    /\ Walk(m.nodes, steps, 0, Len(steps), p)
    BY <2>1
  <2>3. Len(steps) \in Nat /\ Len(m.nodes) \in Nat
    BY <2>1, <2>2 DEF InLine
  <2>4. ASSUME NEW z \in 1 .. Len(steps)
        PROVE  /\ StepOK(i, m, u, steps[z])
               /\ StepCurrent(cs, steps[z])
                    \in {0} \cup Anc(cs, u.tracks[cs[steps[z].command].trackName].head)
    <3>1. z \in 0 + 1 .. Len(steps)
      BY <2>3
    <3>2. /\ steps[z].inverse \in BOOLEAN
          /\ \E j \in 2 .. Len(m.nodes) : steps[z].command = m.nodes[j]
      BY <2>2, <2>3, <3>1, WalkSteps
    <3>3. PICK c : c = steps[z].command
      OBVIOUS
    <3>4. /\ c \in 1 .. Len(cs) /\ cs[c].trackName \in names
          /\ c \in Anc(cs, u.tracks[cs[c].trackName].head) /\ c \in DOMAIN m.parents
      BY <1>8, <2>2, <3>2, <3>3
    <3>5. StepOK(i, m, u, steps[z])
      BY <1>3, <1>4, <3>2, <3>3, <3>4 DEF StepOK
    <3>6. cs[c].parent \in {0} \cup Anc(cs, u.tracks[cs[c].trackName].head)
      <4>1. u.tracks[cs[c].trackName].head \in 1 .. Len(cs)
        BY <1>4, <1>6, <3>4 DEF Names, StateOK
      <4> QED
        BY <1>6, <3>4, <4>1, AncFacts
    <3> QED
      BY <3>3, <3>4, <3>5, <3>6 DEF StepCurrent
  <2>5. StepsOK(i, steps) /\ StayOnBranches(steps)
    BY <1>1, <1>2, <1>3, <2>3, <2>4 DEF StepsOK, StayOnBranches
  <2> QED
    BY <1>2, <1>9, <2>1, <2>5
<1>10. CASE IsDivergent(m, n)
  <2>1. /\ i \notin PatternTrack /\ steps \in Seq(StepRecord)
        /\ \E a : WalksOver(u, m, names, n, steps, a)
    <3>1. MayMoveTo(i, m, u, n) /\ steps = StepsTo(m, u, n) /\ n \in {0} \cup DOMAIN m.parents
      BY <1>1, <1>2
    <3> QED
      BY <1>4, <1>5, <1>10, <3>1, DivergentMove
  <2>2. PICK a : WalksOver(u, m, names, n, steps, a)
    BY <2>1
  <2>3. PICK t : t = cs[n].trackName
    OBVIOUS
  <2>4. n \in 1 .. Len(cs) /\ names = {t} /\ a \in {0} \cup Anc(cs, n)
    BY <1>3, <2>2, <2>3 DEF WalksOver
  <2>5. PICK x :
          /\ \E k, p : /\ InLine(cs, names, Heads(u, names), Currents(u, names), m.nodes, k)
                       /\ Walk(m.nodes, steps, 0, x, p)
          /\ \E s, k, p : OneBranch(cs, t, n, a, s, k) /\ Walk(s, steps, x, Len(steps), p)
    BY <1>3, <2>2, <2>3 DEF WalksOver
  <2>6. PICK k, p : /\ InLine(cs, names, Heads(u, names), Currents(u, names), m.nodes, k)
                    /\ Walk(m.nodes, steps, 0, x, p)
    BY <2>5
  <2>7. PICK s, l, q : OneBranch(cs, t, n, a, s, l) /\ Walk(s, steps, x, Len(steps), q)
    BY <2>5
  <2>8. Len(steps) \in Nat /\ Len(m.nodes) \in Nat /\ Len(s) \in Nat /\ x \in Nat
    BY <2>1, <2>6, <2>7 DEF InLine, OneBranch, Walk
  <2>9. ASSUME NEW z \in 1 .. Len(steps)
        PROVE  StepOK(i, m, u, steps[z])
    <3>1. PICK c : c = steps[z].command
      OBVIOUS
    <3>2. CASE z \in 0 + 1 .. x
      <4>1. /\ steps[z].inverse \in BOOLEAN
            /\ \E j \in 2 .. Len(m.nodes) : steps[z].command = m.nodes[j]
        BY SMTT(30), <2>6, <2>8, <3>2, WalkSteps
      <4>2. cs[c].trackName \in names /\ c \in DOMAIN m.parents
        BY <1>8, <2>6, <3>1, <4>1
      <4> QED
        BY <1>3, <1>4, <3>1, <4>1, <4>2 DEF StepOK
    <3>3. CASE z \in x + 1 .. Len(steps)
      <4>1. steps[z].inverse \in BOOLEAN /\ \E j \in 2 .. Len(s) : steps[z].command = s[j]
        BY <2>7, <2>8, <3>3, WalkSteps
      <4>2. c \in 1 .. Len(cs) /\ cs[c].trackName \in {t}
        BY <2>7, <3>1, <4>1 DEF OneBranch, InLine
      <4>3. cs[c].trackName \in NamesOf[i]
        BY <1>4, <2>4, <4>2 DEF Names
      <4>4. c \in DOMAIN m.parents
        BY <1>7, <2>1, <4>2, <4>3
      <4> QED
        BY <1>3, <1>4, <2>4, <3>1, <4>1, <4>2, <4>4 DEF StepOK
    <3> QED
      BY <2>8, <3>2, <3>3
  <2> QED
    BY <1>1, <1>2, <1>10, <2>1, <2>8, <2>9 DEF StepsOK
<1> QED
  BY <1>9, <1>10

(* Three sequences, one after the other.                                   *)
LEMMA Associative ==
  ASSUME NEW a \in Seq(Nat), NEW b \in Seq(Nat), NEW c \in Seq(Nat)
  PROVE  a \o b \o c = a \o (b \o c)
BY SMTT(30), ConcatAssociative

(* A move leaves a plain track's line of nodes as it is.                   *)
LEMMA NodesStay ==
  ASSUME NEW u, StoreOK(u), NEW u2, StoreOK(u2), u2.commands = u.commands,
         DOMAIN u2.tracks = DOMAIN u.tracks,
         NEW t \in DOMAIN u.tracks, u2.tracks[t].head = u.tracks[t].head
  PROVE  Nodes(u2, {t}) = Nodes(u, {t})
<1> DEFINE all == Ascending(Anc(u.commands, u.tracks[t].head))
<1>1. ASSUME NEW v, StoreOK(v), v.commands = u.commands, t \in DOMAIN v.tracks,
             v.tracks[t].head = u.tracks[t].head
      PROVE  Nodes(v, {t}) = <<0>> \o all
  <2>1. PICK cs : cs = v.commands
    OBVIOUS
  <2>2. Ordered(cs) /\ Len(cs) \in Nat /\ StateOK(cs, t, v.tracks[t])
    BY <1>1, <2>1, StoreParts
  <2>3. PICK h : h = v.tracks[t].head
    OBVIOUS
  <2>4. PICK a : a = v.tracks[t].current
    OBVIOUS
  <2>5. /\ Anc(cs, h) \subseteq 1 .. Len(cs) /\ Anc(cs, a) = {c \in Anc(cs, h) : c <= a}
        /\ a \in 0 .. Len(cs)
    <3>1. PICK w : w = v.tracks[t]
      OBVIOUS
    <3>2. StateOK(cs, t, w) /\ w.head = h /\ w.current = a
      BY <2>2, <2>3, <2>4, <3>1
    <3>3. /\ Anc(cs, w.head) \subseteq 1 .. Len(cs)
          /\ Anc(cs, w.current) = {c \in Anc(cs, w.head) : c <= w.current}
          /\ w.current \in 0 .. Len(cs)
      BY <2>2, <3>2, StateFacts
    <3> QED
      BY <3>2, <3>3
  <2>6. PICK C : C = Anc(cs, a)
    OBVIOUS
  <2>7. PICK D : D = Anc(cs, h) \ Anc(cs, a)
    OBVIOUS
  <2>8. /\ C \in SUBSET (1 .. Len(cs)) /\ D \in SUBSET (1 .. Len(cs)) /\ C \cup D = Anc(cs, h)
        /\ \A c \in C, d \in D : c < d
    <3>1. C \subseteq 1 .. Len(cs) /\ D \subseteq 1 .. Len(cs) /\ C \cup D = Anc(cs, h)
      BY <2>5, <2>6, <2>7
    <3>2. ASSUME NEW c \in C, NEW d \in D
          PROVE  c < d
      <4>1. c <= a /\ ~ (d <= a)
        BY <2>5, <2>6, <2>7
      <4> QED
        BY <2>2, <2>5, <3>1, <4>1
    <3> QED
      BY <3>1, <3>2
  <2>9. Ascending(C) \o Ascending(D) = Ascending(C \cup D)
    BY <2>2, <2>8, AscendingOfBoth
  <2>10. Ascending(C) \in Seq(Nat) /\ Ascending(D) \in Seq(Nat)
    <3>1. InOrder(Ascending(C), C) /\ InOrder(Ascending(D), D)
      BY <2>2, <2>8, AscendingInOrder
    <3>2. Ascending(C) \in Seq(C) /\ Ascending(D) \in Seq(D) /\ C \subseteq Nat /\ D \subseteq Nat
      BY <2>2, <2>8, <3>1 DEF InOrder
    <3>3. Ascending(C) \in Seq(Nat)
      BY <3>2, SeqMonotonic
    <3>4. Ascending(D) \in Seq(Nat)
      BY <3>2, SeqMonotonic
    <3> QED
      BY <3>3, <3>4
  <2>11. AppliedOn(v, {t}) = C /\ RedoOn(v, {t}) = D
    BY <2>1, <2>3, <2>4, <2>6, <2>7 DEF AppliedOn, RedoOn
  <2>12. Nodes(v, {t}) = <<0>> \o Ascending(C) \o Ascending(D)
    BY <2>11 DEF Nodes
  <2>13. <<0>> \o Ascending(C) \o Ascending(D) = <<0>> \o (Ascending(C) \o Ascending(D))
    <3>1. <<0>> \in Seq(Nat)
      OBVIOUS
    <3> QED
      BY <2>10, <3>1, Associative
  <2>14. Ascending(C \cup D) = all
    BY <1>1, <2>1, <2>3, <2>8
  <2> HIDE DEF all
  <2> QED
    BY <2>9, <2>12, <2>13, <2>14
<1> HIDE DEF all
<1>2. Nodes(u, {t}) = <<0>> \o all
  BY <1>1
<1>3. Nodes(u2, {t}) = <<0>> \o all
  BY <1>1
<1> QED
  BY <1>2, <1>3

(* After a move the track object shows the store it is to commit.          *)
LEMMA MovedShows ==
  ASSUME StoresOK, NEW i \in Track, NEW n \in {0} \cup DOMAIN memory[i].parents,
         MayMoveTo(i, memory[i], undoStore, n),
         NEW steps, steps = StepsTo(memory[i], undoStore, n),
         NEW d, AfterSteps(i, steps, Len(steps), d)
  PROVE  Shows(i, NodesAfterMove(i, d, n), d.u) /\ Grows(undoStore, d.u)
<1>1. PICK u : u = undoStore
  OBVIOUS
<1>2. PICK m : m = memory[i]
  OBVIOUS
<1>3. PICK u2 : u2 = d.u
  OBVIOUS
<1>4. PICK m2 : m2 = d.m
  OBVIOUS
<1>5. /\ StoreOK(u) /\ Shows(i, m, u) /\ StoreOK(u2)
      /\ Remembers(i, m2, u2) /\ ShowsStates(i, m2, u2)
      /\ u2.commands = u.commands /\ DOMAIN u2.tracks = DOMAIN u.tracks
      /\ m2.parents = m.parents /\ m2.nodes = m.nodes
      /\ StayOnBranches(steps) => \A t \in DOMAIN u.tracks : u2.tracks[t].head = u.tracks[t].head
  BY <1>1, <1>2, <1>3, <1>4 DEF AfterSteps, MoveOK, StoresOK, AllShow
<1>6. Grows(u, u2)
  BY <1>5, StoreParts DEF Grows
<1>7. CASE i \in PatternTrack \/ IsDivergent(m2, n)
  <2>1. NodesAfterMove(i, d, n) = ReloadNodes(i, m2, u2)
    BY <1>3, <1>4, <1>7 DEF NodesAfterMove
  <2> QED
    BY <1>1, <1>3, <1>5, <1>6, <2>1, ReloadNodesShows
<1>8. CASE i \notin PatternTrack /\ ~ IsDivergent(m2, n)
  <2>1. NodesAfterMove(i, d, n) = m2
    BY <1>4, <1>8 DEF NodesAfterMove
  <2>2. ~ IsDivergent(m, n)
    BY <1>5, <1>8 DEF IsDivergent
  <2>3. \A t \in DOMAIN u.tracks : u2.tracks[t].head = u.tracks[t].head
    BY <1>2, <1>5, <2>2, MoveStepsOK
  <2>4. PICK names : names = Names(i, u)
    OBVIOUS
  <2>5. Names(i, u2) = names /\ names \subseteq DOMAIN u.tracks
    BY <1>5, <2>4 DEF Names
  <2>6. OnBranches(u2, names) = OnBranches(u, names)
    BY <1>5, <2>3, <2>5 DEF OnBranches
  <2>7. Nodes(u2, names) = Nodes(u, names)
    <3>1. PICK t : NamesOf[i] = {t}
      BY <1>8
    <3>2. CASE t \in DOMAIN u.tracks
      <4>1. names = {t}
        BY <2>4, <3>1, <3>2 DEF Names
      <4> QED
        BY <1>5, <2>3, <3>2, <4>1, NodesStay
    <3>3. CASE t \notin DOMAIN u.tracks
      <4>1. names = {}
        BY <2>4, <3>1, <3>3 DEF Names
      <4>2. /\ AppliedOn(u, names) = {} /\ RedoOn(u, names) = {}
            /\ AppliedOn(u2, names) = {} /\ RedoOn(u2, names) = {}
        BY <4>1 DEF AppliedOn, RedoOn
      <4> QED
        BY <4>2 DEF Nodes
    <3> QED
      BY <3>2, <3>3
  <2>8. /\ OnBranches(u, names) \subseteq DOMAIN m.parents /\ m.nodes = Nodes(u, names)
        /\ \A c \in 1 .. Len(u.commands) :
             u.commands[c].trackName \in NamesOf[i] => c \in DOMAIN m.parents
    BY <1>5, <1>8, <2>4 DEF Shows
  <2>9. Shows(i, m2, u2)
    BY <1>5, <2>5, <2>6, <2>7, <2>8 DEF Shows
  <2> QED
    BY <1>1, <1>3, <1>6, <2>1, <2>9
<1> QED
  BY <1>7, <1>8

(* A move along a track: the object store commits, and then the undo store *)
(* or the process ends.                                                    *)
LEMMA MoveCommits ==
  ASSUME StoresOK, NEW i \in Track, NEW n \in {0} \cup DOMAIN memory[i].parents,
         SetCurrentNode(i, n),
         NEW steps, steps = StepsTo(memory[i], undoStore, n),
         NEW d, d = DoneAfter(i, steps)[Len(steps)]
  PROVE  /\ StepsOK(i, steps) /\ AfterSteps(i, steps, Len(steps), d)
         /\ objectStore' = d.o /\ undoStore'.commands = undoStore.commands
         /\ \/ undoStore' = d.u
            \/ undoStore' = undoStore /\ CommandsOf(steps) \subseteq interrupted'
         /\ StoreOK(undoStore)' /\ AllShow'
<1>1. MayMoveTo(i, memory[i], undoStore, n)
  BY DEF SetCurrentNode
<1>2. StepsOK(i, steps)
  BY <1>1, MoveStepsOK
<1>3. Done(i, steps) = d
  BY <1>2, DoneSteps DEF StepsOK
<1>4. AfterSteps(i, steps, Len(steps), d)
  <2>1. Len(steps) \in 0 .. Len(steps)
    BY <1>2 DEF StepsOK
  <2> QED
    BY <1>2, <2>1, MoveSteps
<1>5. objectStore' = d.o /\ (CommitMove(i, n, steps, d) \/ CrashInMove(steps))
  BY <1>3 DEF SetCurrentNode
<1>6. CASE CommitMove(i, n, steps, d)
  <2>1. PICK u : u = d.u
    OBVIOUS
  <2>2. PICK m : m = NodesAfterMove(i, d, n)
    OBVIOUS
  <2>3. PICK changed :
          changed = [t \in {undoStore.commands[c].trackName : c \in CommandsOf(steps)} |->
                       d.m.states[t]]
    OBVIOUS
  <2>4. CommitUndoStore(i, m, u, changed)
    BY <1>6, <2>1, <2>2, <2>3 DEF CommitMove
  <2>5. Shows(i, m, u) /\ Grows(undoStore, u)
    BY <1>1, <1>4, <2>1, <2>2, MovedShows
  <2>6. /\ StoreOK(u) /\ u.commands = undoStore.commands
        /\ DOMAIN u.tracks = DOMAIN undoStore.tracks
        /\ d.m.states = [t \in Names(i, u) |-> u.tracks[t]]
        /\ \A t \in DOMAIN undoStore.tracks :
             \/ u.tracks[t] = undoStore.tracks[t]
             \/ \E j \in 1 .. Len(steps) : undoStore.commands[steps[j].command].trackName = t
    BY <1>4, <2>1 DEF AfterSteps, MoveOK, ShowsStates
  <2>7. DOMAIN steps = 1 .. Len(steps)
    <3>1. steps \in Seq(StepRecord)
      BY <1>1, MoveStepsOK
    <3> QED
      BY <3>1
  <2>8. DOMAIN changed = {undoStore.commands[steps[j].command].trackName : j \in 1 .. Len(steps)}
    BY <2>3, <2>7 DEF CommandsOf
  <2>9. \A t \in DOMAIN changed : t \in Names(i, u) /\ changed[t] = u.tracks[t]
    <3> TAKE t \in DOMAIN changed
    <3>1. PICK j \in 1 .. Len(steps) : undoStore.commands[steps[j].command].trackName = t
      BY <2>8
    <3>2. t \in Names(i, u)
      BY <1>2, <2>6, <3>1 DEF StepsOK, StepOK, Names
    <3>3. changed[t] = d.m.states[t]
      BY <2>3
    <3> QED
      BY <2>6, <3>2, <3>3
  <2>10. \A t \in DOMAIN changed : t \in DOMAIN u.tracks /\ changed[t] = u.tracks[t]
    BY <2>9 DEF Names
  <2>11. \A t \in DOMAIN u.tracks \ DOMAIN changed :
           t \in DOMAIN undoStore.tracks /\ u.tracks[t] = undoStore.tracks[t]
    BY SMTT(30), <2>6, <2>8
  <2>12. /\ Remembers(i, m, u) /\ DOMAIN m.states = Names(i, u)
         /\ \A t \in Names(i, u) : m.states[t] = u.tracks[t]
    BY <2>5 DEF Shows, ShowsStates
  <2>13. undoStore' = u /\ AllShow'
    <3>1. StoreOK(undoStore) /\ AllShow
      BY DEF StoresOK
    <3>2. /\ DOMAIN m.states \subseteq Names(i, u)
          /\ ShowsStates(i, m, u) => Shows(i, m, u)
          /\ \A t \in Names(i, u) \ DOMAIN changed :
               t \in DOMAIN m.states /\ m.states[t] = u.tracks[t]
      BY <2>5, <2>12
    <3> QED
      BY <2>4, <2>5, <2>6, <2>10, <2>11, <2>12, <3>1, <3>2, CommitShows
  <2>14. StoreOK(undoStore)'
    BY <2>6, <2>13
  <2> QED
    BY <1>2, <1>4, <1>5, <2>1, <2>6, <2>13, <2>14
<1>7. CASE CrashInMove(steps)
  <2>1. /\ undoStore' = undoStore /\ CommandsOf(steps) \subseteq interrupted'
        /\ memory' = [j \in Track |-> Loaded(j, undoStore')]
    BY <1>7 DEF CrashInMove, Crash
  <2>2. StoreOK(undoStore')
    BY <2>1 DEF StoresOK
  <2>3. \A j \in Track : Shows(j, memory'[j], undoStore')
    BY <2>1, <2>2, LoadedShows
  <2>4. AllShow'
    BY <2>1, <2>3 DEF AllShow
  <2> QED
    BY <1>2, <1>4, <1>5, <2>1, <2>2, <2>4
<1> QED
  BY <1>5, <1>6, <1>7

-----------------------------------------------------------------------------
(* The invariant *)

UndoInv ==
  /\ StoresOK
  /\ \A p \in PersistentRoot : LastRevid(objectStore, p) <= MaxRevid
  /\ baseline \in [PersistentRoot -> SUBSET Nat]
  /\ \A p \in PersistentRoot : baseline[p] \subseteq 1 .. LastRevid(objectStore, p)
  /\ interrupted \subseteq 1 .. Len(undoStore.commands)
  /\ crashes \in 0 .. MaxCrashes

(* It holds of the empty stores.                                           *)
LEMMA UndoInit ==
  Init => UndoInv
<1> SUFFICES ASSUME Init
             PROVE  UndoInv
  OBVIOUS
<1>1. /\ objectStore.rows = [p \in PersistentRoot |-> [current |-> 1, head |-> 1, deleted |-> FALSE]]
      /\ objectStore.revisions = [p \in PersistentRoot |-> <<[parent |-> 0, edits |-> {}]>>]
      /\ objectStore.stored = [p \in PersistentRoot |-> {1}]
      /\ objectStore.misapplied = [p \in PersistentRoot |-> {}]
  BY DEF Init
<1>2. \A p \in PersistentRoot :
        /\ Len(objectStore.revisions[p]) = 1 /\ objectStore.revisions[p][1] = [parent |-> 0, edits |-> {}]
        /\ objectStore.revisions[p] \in Seq([parent : Nat, edits : SUBSET Nat])
  <2>1. [parent |-> 0, edits |-> {}] \in [parent : Nat, edits : SUBSET Nat]
    OBVIOUS
  <2> QED
    BY <1>1, <2>1
<1>3. ObjectsOK(objectStore) /\ \A p \in PersistentRoot : LastRevid(objectStore, p) = 1
  <2>1. objectStore \in [rows : [PersistentRoot -> [current : Nat, head : Nat, deleted : BOOLEAN]],
                         revisions : [PersistentRoot -> Seq([parent : Nat, edits : SUBSET Nat])],
                         stored : [PersistentRoot -> SUBSET Nat],
                         misapplied : [PersistentRoot -> SUBSET Nat]]
    <3>1. \A p \in PersistentRoot :
            <<[parent |-> 0, edits |-> {}]>> \in Seq([parent : Nat, edits : SUBSET Nat])
      BY <1>1, <1>2
    <3>2. [p \in PersistentRoot |-> <<[parent |-> 0, edits |-> {}]>>]
            \in [PersistentRoot -> Seq([parent : Nat, edits : SUBSET Nat])]
      BY <3>1
    <3>3. [p \in PersistentRoot |-> [current |-> 1, head |-> 1, deleted |-> FALSE]]
            \in [PersistentRoot -> [current : Nat, head : Nat, deleted : BOOLEAN]]
      <4>1. [current |-> 1, head |-> 1, deleted |-> FALSE]
              \in [current : Nat, head : Nat, deleted : BOOLEAN]
        OBVIOUS
      <4> QED
        BY <4>1
    <3>4. /\ [p \in PersistentRoot |-> {1}] \in [PersistentRoot -> SUBSET Nat]
          /\ [p \in PersistentRoot |-> {}] \in [PersistentRoot -> SUBSET Nat]
      OBVIOUS
    <3> QED
      BY <3>2, <3>3, <3>4 DEF Init
  <2>2. \A r \in 1 .. 1 : r = 1
    OBVIOUS
  <2>3. \A p \in PersistentRoot :
          /\ objectStore.rows[p].current = 1 /\ objectStore.rows[p].head = 1
          /\ objectStore.stored[p] = {1} /\ objectStore.misapplied[p] = {}
    BY <1>1
  <2>4. \A p \in PersistentRoot :
          /\ objectStore.revisions[p][1].parent = 0 /\ objectStore.revisions[p][1].edits = {}
    BY <1>2
  <2> QED
    BY <1>2, <2>1, <2>2, <2>3, <2>4 DEF ObjectsOK, LastRevid, Edits
<1>4. /\ undoStore.commands = << >> /\ undoStore.rows = {} /\ undoStore.marked = {}
      /\ undoStore.tracks = << >>
  BY DEF Init
<1>5. StoreOK(undoStore)
  <2>1. DOMAIN << >> = {} /\ << >> \in Seq(Command) /\ Len(<< >>) = 0 /\ 1 .. 0 = {}
    OBVIOUS
  <2>2. undoStore.tracks \in States
    <3>1. << >> \in [{} -> State]
      BY <2>1
    <3>2. << >> \in States
      BY <2>1, <3>1, StatesAreFunctions
    <3> QED
      BY <1>4, <3>2
  <2>3. undoStore \in [commands : Seq(Command), rows : SUBSET Nat, marked : SUBSET Nat,
                       tracks : States]
    BY <1>4, <2>2 DEF Init
  <2>4. KeepsRows(undoStore)
    BY <1>4, <2>1 DEF KeepsRows, Ordered
  <2> QED
    BY <1>4, <2>1, <2>3, <2>4 DEF StoreOK
<1>6. CommandsFit(objectStore, undoStore)
  BY <1>4 DEF CommandsFit
<1>7. AllShow
  BY <1>5, LoadedShows DEF AllShow, Init
<1>8. \A p \in PersistentRoot : LastRevid(objectStore, p) <= MaxRevid
  BY <1>3
<1>9. /\ baseline \in [PersistentRoot -> SUBSET Nat]
      /\ \A p \in PersistentRoot : baseline[p] \subseteq 1 .. LastRevid(objectStore, p)
      /\ interrupted \subseteq 1 .. Len(undoStore.commands)
      /\ crashes \in 0 .. MaxCrashes
  BY DEF Init
<1> QED
  BY <1>3, <1>5, <1>6, <1>7, <1>8, <1>9 DEF UndoInv, StoresOK

(* Commands still fit a later object store, and the new one fits it too.   *)
LEMMA CommandsStillFit ==
  ASSUME NEW o, ObjectsOK(o), NEW o2, ObjectsOK(o2), Later(o, o2),
         NEW u, StoreOK(u), CommandsFit(o, u), NEW u2, u2.commands = u.commands
  PROVE  CommandsFit(o2, u2)
<1> SUFFICES ASSUME NEW c \in 1 .. Len(u.commands)
             PROVE  OpFits(o2, u.commands[c].root, u.commands[c].operation)
  BY DEF CommandsFit
<1>1. OpFits(o, u.commands[c].root, u.commands[c].operation)
  BY DEF CommandsFit
<1>2. u.commands[c].root \in PersistentRoot
  BY StoreParts
<1> QED
  BY <1>1, <1>2, LaterKeeps

(* A commit that no track hears of.                                        *)
LEMMA UnrecordedKeeps ==
  ASSUME UndoInv, NEW p \in PersistentRoot, CommitUnrecorded(p)
  PROVE  UndoInv'
<1>1. ObjectsOK(objectStore) /\ StoreOK(undoStore) /\ CommandsFit(objectStore, undoStore) /\ AllShow
  BY DEF UndoInv, StoresOK
<1>2. PICK o2 : o2 = NewEdit(objectStore, p)
  OBVIOUS
<1>3. Recordable(objectStore, p, o2) /\ LastRevid(o2, p) = LastRevid(objectStore, p) + 1
  BY <1>1, <1>2, NewEditRecordable
<1>4. /\ objectStore' = o2 /\ undoStore' = undoStore /\ memory' = memory
      /\ LastRevid(objectStore, p) < MaxRevid
      /\ baseline' = [baseline EXCEPT ![p] = @ \cup {LastRevid(objectStore, p) + 1}]
      /\ interrupted' = interrupted /\ crashes' = crashes
  BY <1>2 DEF CommitUnrecorded
<1>5. /\ ObjectsOK(o2) /\ Later(objectStore, o2)
      /\ \A q \in PersistentRoot \ {p} : LastRevid(o2, q) = LastRevid(objectStore, q)
  BY <1>3 DEF Recordable, Changed, LastRevid
<1>6. CommandsFit(o2, undoStore)
  BY <1>1, <1>5, CommandsStillFit
<1>7. AllShow'
  BY <1>1, <1>4 DEF AllShow
<1>8. \A q \in PersistentRoot : LastRevid(objectStore, q) \in Nat /\ LastRevid(objectStore, q) <= MaxRevid
  BY <1>1, ObjectParts DEF UndoInv
<1>9. \A q \in PersistentRoot : LastRevid(o2, q) <= MaxRevid
  <2> TAKE q \in PersistentRoot
  <2>1. CASE q = p
    BY <1>3, <1>4, <1>8, <2>1
  <2>2. CASE q # p
    BY <1>5, <1>8, <2>2
  <2> QED
    BY <2>1, <2>2
<1>10. baseline' \in [PersistentRoot -> SUBSET Nat]
  <2>1. baseline \in [PersistentRoot -> SUBSET Nat] /\ LastRevid(objectStore, p) + 1 \in Nat
    BY <1>8 DEF UndoInv
  <2> QED
    BY <1>4, <2>1
<1>11. \A q \in PersistentRoot : baseline'[q] \subseteq 1 .. LastRevid(o2, q)
  <2> TAKE q \in PersistentRoot
  <2>1. baseline \in [PersistentRoot -> SUBSET Nat] /\ baseline[q] \subseteq 1 .. LastRevid(objectStore, q)
    BY DEF UndoInv
  <2>2. CASE q = p
    <3>1. baseline'[q] = baseline[q] \cup {LastRevid(objectStore, q) + 1}
      BY <1>4, <2>1, <2>2
    <3> QED
      BY <1>3, <1>8, <2>1, <2>2, <3>1
  <2>3. CASE q # p
    BY <1>4, <1>5, <2>1, <2>3
  <2> QED
    BY <2>2, <2>3
<1>12. interrupted' \subseteq 1 .. Len(undoStore'.commands) /\ crashes' \in 0 .. MaxCrashes
  BY <1>4 DEF UndoInv
<1> QED
  BY <1>1, <1>4, <1>5, <1>6, <1>7, <1>9, <1>10, <1>11, <1>12 DEF UndoInv, StoresOK

(* A commit that is recorded: of the command that says what it did.        *)
LEMMA RecordedKeeps ==
  ASSUME UndoInv, NEW i \in Track, NEW p \in PersistentRoot,
         NEW o2, Recordable(objectStore, p, o2), RecordedCommit(i, p, o2)
  PROVE  /\ UndoInv'
         /\ LastRevid(o2, p) <= MaxRevid
         /\ RecordsCommand(p, CommandFor(p, objectStore.rows[p], o2.rows[p]))
<1>1. ObjectsOK(objectStore) /\ StoreOK(undoStore) /\ CommandsFit(objectStore, undoStore) /\ AllShow
  BY DEF UndoInv, StoresOK
<1>2. PICK op : op = CommandFor(p, objectStore.rows[p], o2.rows[p])
  OBVIOUS
<1>3. /\ MayRecord(i) /\ LastRevid(o2, p) <= MaxRevid /\ objectStore' = o2
      /\ RecordCommand(i, p, op)
      /\ baseline' = baseline /\ interrupted' = interrupted /\ crashes' = crashes
  BY <1>2 DEF RecordedCommit, ghosts
<1>4. OpFits(o2, p, op)
  BY <1>1, <1>2, <1>3, CommandForFits
<1>5. RecordsCommand(p, op) /\ StoreOK(undoStore)' /\ AllShow'
  BY <1>1, <1>3, <1>4, RecordCommandShows DEF OpFits
<1>6. PICK c \in Command :
        /\ c.root = p /\ c.operation = op
        /\ c.parent = StateForTrackName(undoStore, c.trackName).current
        /\ Recorded(undoStore, c, undoStore')
  BY <1>5 DEF RecordsCommand
<1>7. /\ ObjectsOK(o2) /\ Later(objectStore, o2)
      /\ \A q \in PersistentRoot \ {p} : LastRevid(o2, q) = LastRevid(objectStore, q)
  BY DEF Recordable, Changed, LastRevid
<1>8. Len(undoStore.commands) < MaxSequenceNumber
  BY <1>3 DEF MayRecord
<1>9. PICK u2 : u2 = undoStore'
  OBVIOUS
<1>10. /\ Grows(undoStore, u2) /\ u2.commands[Len(undoStore.commands) + 1] = c
       /\ Len(u2.commands) = Len(undoStore.commands) + 1
  <2>1. PICK u : u = undoStore
    OBVIOUS
  <2>2. /\ StoreOK(u) /\ Len(u.commands) < MaxSequenceNumber
        /\ c.parent = StateForTrackName(u, c.trackName).current /\ Recorded(u, c, u2)
    BY <1>1, <1>6, <1>8, <1>9, <2>1
  <2>3. Grows(u, u2) /\ RecordedIs(u, c, u2)
    BY <2>2, RecordedStore
  <2> QED
    BY <2>1, <2>3 DEF RecordedIs
<1>11. Len(undoStore.commands) \in Nat
  BY <1>1, StoreParts
<1>12. CommandsFit(o2, u2)
  <2> SUFFICES ASSUME NEW d \in 1 .. Len(u2.commands)
               PROVE  OpFits(o2, u2.commands[d].root, u2.commands[d].operation)
    BY DEF CommandsFit
  <2>1. CASE d = Len(undoStore.commands) + 1
    BY <1>4, <1>6, <1>10, <2>1
  <2>2. CASE d # Len(undoStore.commands) + 1
    <3>1. d \in 1 .. Len(undoStore.commands)
      BY <1>10, <1>11, <2>2
    <3>2. u2.commands[d] = undoStore.commands[d] /\ undoStore.commands[d].root \in PersistentRoot
      BY <1>1, <1>10, <3>1, StoreParts DEF Grows
    <3>3. OpFits(objectStore, undoStore.commands[d].root, undoStore.commands[d].operation)
      BY <1>1, <3>1 DEF CommandsFit
    <3> QED
      BY <1>1, <1>7, <3>2, <3>3, LaterKeeps
  <2> QED
    BY <2>1, <2>2
<1>13. \A q \in PersistentRoot : LastRevid(o2, q) <= MaxRevid
  BY <1>3, <1>7 DEF UndoInv
<1>14. \A q \in PersistentRoot : baseline[q] \subseteq 1 .. LastRevid(o2, q)
  <2> TAKE q \in PersistentRoot
  <2>1. LastRevid(objectStore, q) \in Nat /\ LastRevid(o2, q) \in Nat
    BY <1>1, <1>7, ObjectParts
  <2>2. LastRevid(objectStore, q) <= LastRevid(o2, q) /\ baseline[q] \subseteq 1 .. LastRevid(objectStore, q)
    BY <1>7 DEF Later, UndoInv
  <2> QED
    BY <2>1, <2>2
<1>15. interrupted \subseteq 1 .. Len(u2.commands)
  BY <1>10, <1>11 DEF UndoInv
<1>16. baseline \in [PersistentRoot -> SUBSET Nat] /\ crashes \in 0 .. MaxCrashes
  BY DEF UndoInv
<1>17. UndoInv'
  BY <1>3, <1>5, <1>7, <1>9, <1>12, <1>13, <1>14, <1>15, <1>16 DEF UndoInv, StoresOK
<1> QED
  BY <1>2, <1>3, <1>5, <1>17

(* A move along a track.                                                   *)
LEMMA MoveKeeps ==
  ASSUME UndoInv, NEW i \in Track, NEW n \in {0} \cup DOMAIN memory[i].parents,
         SetCurrentNode(i, n)
  PROVE  UndoInv'
<1>1. StoresOK /\ ObjectsOK(objectStore) /\ StoreOK(undoStore) /\ CommandsFit(objectStore, undoStore)
  BY DEF UndoInv, StoresOK
<1>2. PICK steps : steps = StepsTo(memory[i], undoStore, n)
  OBVIOUS
<1>3. PICK d : d = DoneAfter(i, steps)[Len(steps)]
  OBVIOUS
<1>4. /\ StepsOK(i, steps) /\ AfterSteps(i, steps, Len(steps), d)
      /\ objectStore' = d.o /\ undoStore'.commands = undoStore.commands
      /\ StoreOK(undoStore)' /\ AllShow'
  BY <1>1, <1>2, <1>3, MoveCommits
<1>5. ObjectsOK(d.o) /\ Later(objectStore, d.o)
  BY <1>4 DEF AfterSteps, MoveOK
<1>6. CommandsFit(d.o, undoStore')
  BY <1>1, <1>4, <1>5, CommandsStillFit
<1>7. Done(i, steps) = d
  BY <1>3, <1>4, DoneSteps DEF StepsOK
<1>8. /\ MayCommit(d.o, CommandsOf(steps))
      /\ CommitMove(i, n, steps, d) \/ CrashInMove(steps)
      /\ baseline' = baseline
  BY <1>2, <1>7 DEF SetCurrentNode
<1>9. \A p \in PersistentRoot : LastRevid(d.o, p) <= MaxRevid
  BY <1>8 DEF MayCommit
<1>10. \A q \in PersistentRoot : baseline[q] \subseteq 1 .. LastRevid(d.o, q)
  <2> TAKE q \in PersistentRoot
  <2>1. LastRevid(objectStore, q) \in Nat /\ LastRevid(d.o, q) \in Nat
    BY <1>1, <1>5, ObjectParts
  <2>2. LastRevid(objectStore, q) <= LastRevid(d.o, q) /\ baseline[q] \subseteq 1 .. LastRevid(objectStore, q)
    BY <1>5 DEF Later, UndoInv
  <2> QED
    BY <2>1, <2>2
<1>11. interrupted' \subseteq interrupted \cup CommandsOf(steps)
  BY <1>8 DEF CommitMove, CrashInMove
<1>12. CommandsOf(steps) \subseteq 1 .. Len(undoStore.commands)
  <2>1. MayMoveTo(i, memory[i], undoStore, n)
    BY DEF SetCurrentNode
  <2>2. DOMAIN steps = 1 .. Len(steps)
    <3>1. steps \in Seq(StepRecord)
      BY <1>1, <1>2, <2>1, MoveStepsOK
    <3> QED
      BY <3>1
  <2>3. DOMAIN memory[i].parents \subseteq 1 .. Len(undoStore.commands)
    BY <1>1 DEF StoresOK, AllShow, Shows, Remembers, KnowsParents
  <2> QED
    BY <1>4, <2>2, <2>3 DEF CommandsOf, StepsOK, StepOK
<1>13. interrupted' \subseteq 1 .. Len(undoStore'.commands)
  BY <1>4, <1>11, <1>12 DEF UndoInv
<1>14. crashes' \in 0 .. MaxCrashes
  <2>1. crashes \in 0 .. MaxCrashes
    BY DEF UndoInv
  <2>2. crashes' = crashes \/ (crashes < MaxCrashes /\ crashes' = crashes + 1)
    BY <1>8 DEF CommitMove, CrashInMove, Crash
  <2> QED
    BY <2>1, <2>2
<1>15. baseline \in [PersistentRoot -> SUBSET Nat]
  BY DEF UndoInv
<1> QED
  BY <1>4, <1>5, <1>6, <1>8, <1>9, <1>10, <1>13, <1>14, <1>15 DEF UndoInv, StoresOK

-----------------------------------------------------------------------------
(* The actions *)

(* Recorded commits. *)
LEMMA CommitKeeps ==
  ASSUME UndoInv, NEW i \in Track, NEW p \in PersistentRoot, Commit(i, p)
  PROVE  UndoInv'
<1>1. PICK o2 : o2 = NewEdit(objectStore, p)
  OBVIOUS
<1>2. ObjectsOK(objectStore)
  BY DEF UndoInv, StoresOK
<1>3. Recordable(objectStore, p, o2)
  BY <1>1, <1>2, NewEditRecordable
<1>4. RecordedCommit(i, p, o2)
  BY <1>1 DEF Commit
<1> QED
  BY <1>3, <1>4, RecordedKeeps

(* A branch that is set to another revision. *)
LEMMA RevertKeeps ==
  ASSUME UndoInv, NEW i \in Track, NEW p \in PersistentRoot, NEW r \in Revid, Revert(i, p, r)
  PROVE  UndoInv'
<1>1. PICK o2 : o2 = AtRevision(objectStore, p, r)
  OBVIOUS
<1>2. ObjectsOK(objectStore)
  BY DEF UndoInv, StoresOK
<1>3. r \in objectStore.stored[p]
  BY DEF Revert
<1>4. r \in 1 .. LastRevid(objectStore, p)
  BY <1>2, <1>3, ObjectParts
<1>5. Recordable(objectStore, p, o2)
  <2>1. Changed(objectStore, p, o2) /\ o2.rows[p].deleted = objectStore.rows[p].deleted
    BY <1>1, <1>2, <1>4, AtRevisionChanges
  <2> QED
    BY <2>1 DEF Recordable
<1>6. RecordedCommit(i, p, o2)
  BY <1>1 DEF Revert
<1> QED
  BY <1>5, <1>6, RecordedKeeps

(* A root that is deleted or undeleted. *)
LEMMA SetDeletedKeeps ==
  ASSUME UndoInv, NEW i \in Track, NEW p \in PersistentRoot, NEW b \in BOOLEAN,
         SetDeleted(i, p, b)
  PROVE  UndoInv'
<1>1. PICK o2 : o2 = [objectStore EXCEPT !.rows[p].deleted = b]
  OBVIOUS
<1>2. ObjectsOK(objectStore)
  BY DEF UndoInv, StoresOK
<1>3. DeletedSet(objectStore, p, b, o2)
  BY <1>1 DEF DeletedSet
<1>4. Recordable(objectStore, p, o2)
  <2>1. Changed(objectStore, p, o2) /\ Held(o2, p) = Held(objectStore, p)
    BY <1>2, <1>3, DeletionChanges
  <2> QED
    BY <2>1 DEF Recordable
<1>5. RecordedCommit(i, p, o2)
  BY <1>1 DEF SetDeleted
<1> QED
  BY <1>4, <1>5, RecordedKeeps

(* What a track object remembers are commands. *)
LEMMA RememberedAreCommands ==
  ASSUME UndoInv, NEW i \in Track
  PROVE  DOMAIN memory[i].parents \subseteq 1 .. Len(undoStore.commands)
BY DEF UndoInv, StoresOK, AllShow, Shows, Remembers, KnowsParents

(* A command that is undone or redone in the context. *)
LEMMA SelectiveApplyKeeps ==
  ASSUME UndoInv, NEW i \in Track, NEW c \in DOMAIN memory[i].parents,
         UndoNode(i, c) \/ RedoNode(i, c)
  PROVE  UndoInv'
<1>1. ObjectsOK(objectStore) /\ StoreOK(undoStore) /\ CommandsFit(objectStore, undoStore)
  BY DEF UndoInv, StoresOK
<1>2. c \in 1 .. Len(undoStore.commands)
  BY RememberedAreCommands
<1>3. PICK p : p = undoStore.commands[c].root
  OBVIOUS
<1>4. p \in PersistentRoot
  BY <1>1, <1>2, <1>3, StoreParts
<1>5. OpFits(objectStore, p, undoStore.commands[c].operation)
  BY <1>1, <1>2, <1>3 DEF CommandsFit
<1>6. ASSUME NEW op, OpFits(objectStore, p, op), SelectiveApply(i, c, op)
      PROVE  UndoInv'
  <2>1. PICK o2 : o2 = AppliedToContext(objectStore, p, op)
    OBVIOUS
  <2>2. Recordable(objectStore, p, o2)
    BY <1>1, <1>4, <1>6, <2>1, AppliedToContextRecordable
  <2>3. RecordedCommit(i, p, o2)
    BY <1>3, <1>6, <2>1 DEF SelectiveApply
  <2> QED
    BY <1>4, <2>2, <2>3, RecordedKeeps
<1>7. CASE UndoNode(i, c)
  <2>1. PICK op : op = Inversed(undoStore.commands[c].operation)
    OBVIOUS
  <2>2. OpFits(objectStore, p, op)
    BY <1>5, <2>1, InverseFits
  <2> QED
    BY <1>6, <1>7, <2>1, <2>2 DEF UndoNode
<1>8. CASE RedoNode(i, c)
  BY <1>5, <1>6, <1>8 DEF RedoNode
<1> QED
  BY <1>7, <1>8

(* Nothing happens. *)
LEMMA StutterKeeps ==
  ASSUME UndoInv, UNCHANGED vars
  PROVE  UndoInv'
BY DEF vars, ghosts, UndoInv, StoresOK, AllShow

(* Every step keeps the invariant. *)
LEMMA UndoNext ==
  UndoInv /\ [Next]_vars => UndoInv'
<1> SUFFICES ASSUME UndoInv, [Next]_vars
             PROVE  UndoInv'
  OBVIOUS
<1>1. ASSUME NEW p \in PersistentRoot, CommitUnrecorded(p)
      PROVE  UndoInv'
  BY <1>1, UnrecordedKeeps
<1>2. ASSUME NEW i \in Track, NEW p \in PersistentRoot, Commit(i, p)
      PROVE  UndoInv'
  BY <1>2, CommitKeeps
<1>3. ASSUME NEW i \in Track, NEW p \in PersistentRoot, NEW r \in Revid, Revert(i, p, r)
      PROVE  UndoInv'
  BY <1>3, RevertKeeps
<1>4. ASSUME NEW i \in Track, NEW p \in PersistentRoot, NEW b \in BOOLEAN, SetDeleted(i, p, b)
      PROVE  UndoInv'
  BY <1>4, SetDeletedKeeps
<1>5. ASSUME NEW i \in Track, NEW c \in DOMAIN memory[i].parents,
             UndoNode(i, c) \/ RedoNode(i, c)
      PROVE  UndoInv'
  BY <1>5, SelectiveApplyKeeps
<1>6. ASSUME NEW i \in Track, NEW n \in {0} \cup DOMAIN memory[i].parents,
             SetCurrentNode(i, n)
      PROVE  UndoInv'
  BY <1>6, MoveKeeps
<1>7. CASE UNCHANGED vars
  BY <1>7, StutterKeeps
<1> QED
  BY <1>1, <1>2, <1>3, <1>4, <1>5, <1>6, <1>7 DEF Next, Placeholder

(* The two stores, and what the track objects have in memory, fit.         *)
THEOREM UndoInvariant == Spec => []UndoInv
BY UndoInit, UndoNext, PTL DEF Spec

-----------------------------------------------------------------------------
(* What follows *)

(* The track objects show the store. *)
LEMMA ShownIsFresh ==
  UndoInv => TracksShowTheStore
<1> SUFFICES ASSUME UndoInv, NEW i \in Track
             PROVE  LET m == memory[i]
                        fresh == Loaded(i, undoStore)
                    IN /\ m.nodes = fresh.nodes
                       /\ CurrentNode(m, undoStore) = CurrentNode(fresh, undoStore)
                       /\ i \notin PatternTrack => DOMAIN m.parents = DOMAIN fresh.parents
  BY DEF TracksShowTheStore
<1>1. PICK u : u = undoStore
  OBVIOUS
<1>2. PICK m : m = memory[i]
  OBVIOUS
<1>3. PICK f : f = Loaded(i, u)
  OBVIOUS
<1>4. StoreOK(u) /\ Shows(i, m, u)
  BY <1>1, <1>2 DEF UndoInv, StoresOK, AllShow
<1>5. Shows(i, f, u)
  BY <1>3, <1>4, LoadedShows
<1>6. m.states = f.states /\ m.nodes = f.nodes
  BY <1>4, <1>5 DEF Shows, ShowsStates
<1>7. KeepsRows(u) /\ KnowsParents(m, u) /\ KnowsParents(f, u)
  BY <1>4, <1>5, StoreParts DEF Shows, Remembers
<1>8. Known(m, u) = Known(f, u)
  BY <1>7, LineageIsAnc
<1>9. CurrentNode(m, u) = CurrentNode(f, u)
  BY <1>6, <1>8 DEF CurrentNode
<1>10. ASSUME i \notin PatternTrack
       PROVE  DOMAIN m.parents = DOMAIN f.parents
  <2>1. ASSUME NEW w, Shows(i, w, u)
        PROVE  DOMAIN w.parents = {c \in 1 .. Len(u.commands) :
                                     u.commands[c].trackName \in NamesOf[i]}
    BY <1>10, <2>1 DEF Shows, Remembers, KnowsParents
  <2> QED
    BY <1>4, <1>5, <2>1
<1> QED
  BY <1>1, <1>2, <1>3, <1>6, <1>9, <1>10

(* A track's current command is on its branch. *)
LEMMA RowsHold ==
  UndoInv => TrackRowsHold
<1> SUFFICES ASSUME UndoInv, NEW t \in DOMAIN undoStore.tracks
             PROVE  /\ undoStore.tracks[t].head \in undoStore.rows
                    /\ undoStore.tracks[t].current \in {0} \cup
                         (undoStore.rows \cap AncestorsAndSelf(undoStore, undoStore.tracks[t].head))
  BY DEF TrackRowsHold
<1>1. PICK u : u = undoStore
  OBVIOUS
<1>2. StoreOK(u) /\ t \in DOMAIN u.tracks
  BY <1>1 DEF UndoInv, StoresOK
<1>3. Ordered(u.commands) /\ u.rows = 1 .. Len(u.commands) /\ StateOK(u.commands, t, u.tracks[t])
  BY <1>2, StoreParts
<1>4. /\ u.tracks[t].head \in 1 .. Len(u.commands)
      /\ u.tracks[t].current \in {0} \cup Anc(u.commands, u.tracks[t].head)
  BY <1>3 DEF StateOK
<1>5. Anc(u.commands, u.tracks[t].head) \subseteq 1 .. Len(u.commands)
  BY <1>3, StateFacts
<1>6. AncestorsAndSelf(u, u.tracks[t].head) = Anc(u.commands, u.tracks[t].head)
  BY <1>3, AncestorsAreAnc
<1> QED
  BY <1>1, <1>3, <1>4, <1>5, <1>6

(* The object store's types. *)
LEMMA ObjectStoreTyped ==
  ASSUME NEW o, ObjectsOK(o), \A p \in PersistentRoot : LastRevid(o, p) <= MaxRevid
  PROVE  IsObjectStore(o)
<1>1. ASSUME NEW p \in PersistentRoot
      PROVE  /\ o.rows[p] \in [current : Revid, head : Revid, deleted : BOOLEAN]
             /\ o.revisions[p] \in Seq([parent : 0 .. MaxRevid, edits : SUBSET Revid])
             /\ {o.rows[p].current, o.rows[p].head} \cup o.stored[p] \cup o.misapplied[p]
                  \subseteq DOMAIN o.revisions[p]
  <2>1. /\ LastRevid(o, p) \in Nat /\ LastRevid(o, p) <= MaxRevid /\ MaxRevid \in Nat
        /\ DOMAIN o.revisions[p] = 1 .. LastRevid(o, p)
        /\ o.rows[p] \in [current : Nat, head : Nat, deleted : BOOLEAN]
        /\ o.rows[p].current \in 1 .. LastRevid(o, p) /\ o.rows[p].head \in 1 .. LastRevid(o, p)
        /\ o.stored[p] \subseteq 1 .. LastRevid(o, p)
        /\ o.misapplied[p] \subseteq 1 .. LastRevid(o, p)
    BY <1>1, ObjectParts, UndoTrackAssumption
  <2>2. 1 .. LastRevid(o, p) \subseteq Revid /\ 0 .. LastRevid(o, p) \subseteq 0 .. MaxRevid
    BY <2>1 DEF Revid
  <2>3. o.rows[p] \in [current : Revid, head : Revid, deleted : BOOLEAN]
    BY <2>1, <2>2
  <2> DEFINE S == [parent : 0 .. MaxRevid, edits : SUBSET Revid]
  <2>4. \A r \in 1 .. LastRevid(o, p) : o.revisions[p][r] \in S
    <3> TAKE r \in 1 .. LastRevid(o, p)
    <3>1. /\ o.revisions[p][r] \in [parent : Nat, edits : SUBSET Nat]
          /\ o.revisions[p][r].parent \in 0 .. LastRevid(o, p)
          /\ Edits(o, p, r) \subseteq 1 .. LastRevid(o, p)
      BY <1>1, ObjectParts
    <3> QED
      BY <2>2, <3>1 DEF Edits
  <2>5. o.revisions[p] \in Seq([parent : Nat, edits : SUBSET Nat])
    BY <1>1, ObjectParts
  <2> HIDE DEF S
  <2>6. o.revisions[p] \in [1 .. LastRevid(o, p) -> S]
    BY <2>1, <2>4, <2>5
  <2>7. o.revisions[p] \in Seq(S)
    BY <2>1, <2>6, MakesSequence
  <2> QED
    BY <2>1, <2>3, <2>7 DEF S
<1>2. /\ o.rows \in [PersistentRoot -> [current : Nat, head : Nat, deleted : BOOLEAN]]
      /\ o.revisions \in [PersistentRoot -> Seq([parent : Nat, edits : SUBSET Nat])]
  BY DEF ObjectsOK
<1>3. o.rows \in [PersistentRoot -> [current : Revid, head : Revid, deleted : BOOLEAN]]
  BY <1>1, <1>2
<1>4. o.revisions \in [PersistentRoot -> Seq([parent : 0 .. MaxRevid, edits : SUBSET Revid])]
  <2> DEFINE S == [parent : 0 .. MaxRevid, edits : SUBSET Revid]
             V == Seq([parent : Nat, edits : SUBSET Nat])
  <2>1. \A p \in PersistentRoot : o.revisions[p] \in Seq(S)
    BY <1>1
  <2>2. o.revisions \in [PersistentRoot -> V]
    BY <1>2
  <2> HIDE DEF S, V
  <2>3. o.revisions \in [PersistentRoot -> Seq(S)]
    BY <2>1, <2>2
  <2> QED
    BY <2>3 DEF S
<1> QED
  BY <1>1, <1>3, <1>4 DEF IsObjectStore

(* The undo store's types. *)
LEMMA UndoStoreTyped ==
  ASSUME NEW u, StoreOK(u)
  PROVE  IsUndoStore(u)
<1>1. /\ u.commands \in Seq(Command) /\ u.rows = 1 .. Len(u.commands) /\ u.marked = {}
      /\ DOMAIN u.tracks \subseteq TrackName
      /\ u.tracks \in [DOMAIN u.tracks -> State]
      /\ Len(u.commands) \in Nat /\ Len(u.commands) <= MaxSequenceNumber
      /\ Ordered(u.commands)
  BY StoreParts DEF StoreOK
<1>2. \A t \in DOMAIN u.tracks : u.tracks[t] \in TrackState
  <2> TAKE t \in DOMAIN u.tracks
  <2>1. StateOK(u.commands, t, u.tracks[t])
    BY StoreParts
  <2>2. /\ u.tracks[t].head \in 1 .. Len(u.commands)
        /\ u.tracks[t].current \in 0 .. Len(u.commands)
    BY <1>1, <2>1, StateFacts
  <2>3. u.tracks[t] \in [head : Nat, current : Nat]
    BY <2>1 DEF StateOK, State
  <2>4. MaxSequenceNumber \in Nat
    BY UndoTrackAssumption
  <2> QED
    BY <1>1, <2>2, <2>3, <2>4 DEF TrackState
<1>3. u.tracks \in [DOMAIN u.tracks -> TrackState]
  BY <1>1, <1>2
<1> QED
  BY <1>1, <1>3 DEF IsUndoStore

(* The types of what a track object has in memory. *)
LEMMA MemoryTyped ==
  ASSUME NEW u, StoreOK(u), NEW i \in Track, NEW m, Shows(i, m, u)
  PROVE  IsMemory(m)
<1>1. /\ DOMAIN u.tracks \subseteq TrackName
      /\ Len(u.commands) \in Nat /\ Len(u.commands) <= MaxSequenceNumber
      /\ Ordered(u.commands) /\ MaxSequenceNumber \in Nat
  BY StoreParts, UndoTrackAssumption
<1>2. IsUndoStore(u)
  BY UndoStoreTyped
<1>3. /\ DOMAIN m.states \subseteq TrackName
      /\ m.states \in [DOMAIN m.states -> TrackState]
  <2>1. m.states = [t \in Names(i, u) |-> u.tracks[t]]
    BY DEF Shows, ShowsStates
  <2>2. Names(i, u) \subseteq DOMAIN u.tracks
    BY DEF Names
  <2> QED
    BY <1>1, <1>2, <2>1, <2>2 DEF IsUndoStore
<1>4. /\ DOMAIN m.parents \subseteq 1 .. Len(u.commands)
      /\ \A c \in DOMAIN m.parents : m.parents[c] = u.commands[c].parent
      /\ m.parents \in ParentMaps
  BY DEF Shows, Remembers, KnowsParents
<1>5. DOMAIN m.parents \subseteq SequenceNumber
  BY <1>1, <1>4 DEF SequenceNumber
<1>6. m.parents \in [DOMAIN m.parents -> 0 .. MaxSequenceNumber]
  <2>1. m.parents = [c \in DOMAIN m.parents |-> m.parents[c]]
    BY <1>4, ParentMapsAreFunctions
  <2>2. \A c \in DOMAIN m.parents : m.parents[c] \in 0 .. MaxSequenceNumber
    <3> TAKE c \in DOMAIN m.parents
    <3>1. u.commands[c] \in Command
      BY <1>4, StoreParts
    <3> QED
      BY <1>4, <3>1 DEF Command
  <2> QED
    BY <2>1, <2>2
<1>7. m.nodes \in Seq(0 .. MaxSequenceNumber)
  <2>1. Names(i, u) \in SUBSET DOMAIN u.tracks
    BY DEF Names
  <2>2. m.nodes \in Seq(0 .. Len(u.commands))
    <3>1. m.nodes = Nodes(u, Names(i, u))
      BY DEF Shows
    <3> QED
      BY <2>1, <3>1, NodesAreCommands
  <2>3. 0 .. Len(u.commands) \subseteq 0 .. MaxSequenceNumber
    BY <1>1
  <2> QED
    BY <2>2, <2>3, SeqMonotonic
<1> QED
  BY <1>3, <1>5, <1>6, <1>7 DEF IsMemory

(* Init and the actions leave a memory to every track object.             *)
LEMMA MemoryIsOfTracks ==
  Spec => [](DOMAIN memory = Track)
<1>1. Init => DOMAIN memory = Track
  BY DEF Init
<1>2. DOMAIN memory = Track /\ [Next]_vars => (DOMAIN memory = Track)'
  <2> SUFFICES ASSUME DOMAIN memory = Track, [Next]_vars
               PROVE  DOMAIN memory' = Track
    OBVIOUS
  <2>1. ASSUME NEW i, NEW m, NEW u, NEW changed, CommitUndoStore(i, m, u, changed)
        PROVE  DOMAIN memory' = Track
    BY <2>1 DEF CommitUndoStore
  <2>2. ASSUME NEW i, NEW p, NEW o2, RecordedCommit(i, p, o2)
        PROVE  DOMAIN memory' = Track
    BY <2>1, <2>2 DEF RecordedCommit, RecordCommand
  <2>3. ASSUME NEW i, NEW n, SetCurrentNode(i, n)
        PROVE  DOMAIN memory' = Track
    BY <2>1, <2>3 DEF SetCurrentNode, CommitMove, CrashInMove, Crash
  <2>4. ASSUME NEW p, CommitUnrecorded(p)
        PROVE  DOMAIN memory' = Track
    BY <2>4 DEF CommitUnrecorded
  <2> QED
    BY <2>2, <2>3, <2>4 DEF Next, vars, Commit, Revert, SetDeleted, UndoNode, RedoNode, SelectiveApply
<1> QED
  BY <1>1, <1>2, PTL DEF Spec

(* The types of all variables. *)
LEMMA AllTyped ==
  UndoInv /\ DOMAIN memory = Track => UndoTypeOK
<1> SUFFICES ASSUME UndoInv, DOMAIN memory = Track
             PROVE  UndoTypeOK
  OBVIOUS
<1>1. ObjectsOK(objectStore) /\ StoreOK(undoStore) /\ AllShow
  BY DEF UndoInv, StoresOK
<1>2. IsObjectStore(objectStore) /\ IsUndoStore(undoStore)
  BY <1>1, ObjectStoreTyped, UndoStoreTyped DEF UndoInv
<1>3. \A i \in Track : IsMemory(memory[i])
  BY <1>1, MemoryTyped DEF AllShow
<1>4. baseline \in [PersistentRoot -> SUBSET Revid]
  <2>1. \A p \in PersistentRoot : baseline[p] \subseteq Revid
    <3> TAKE p \in PersistentRoot
    <3>1. LastRevid(objectStore, p) \in Nat /\ LastRevid(objectStore, p) <= MaxRevid
      BY <1>1, ObjectParts DEF UndoInv
    <3>2. 1 .. LastRevid(objectStore, p) \subseteq Revid
      BY <3>1, UndoTrackAssumption DEF Revid
    <3> QED
      BY <3>2 DEF UndoInv
  <2> QED
    BY <2>1 DEF UndoInv
<1> QED
  BY <1>2, <1>3, <1>4 DEF UndoTypeOK, UndoInv

(* The two databases and the memory of the track objects have their types. *)
THEOREM UndoTypes == Spec => []UndoTypeOK
BY UndoInvariant, MemoryIsOfTracks, AllTyped, PTL

(* Whatever the commits, moves and crashes, every loaded track object      *)
(* shows what one that is loaded from the store now would show: the same   *)
(* nodes in the same order, the same current node, and, on a plain track,  *)
(* every command of the track.                                             *)
THEOREM TracksAlwaysShowTheStore == Spec => []TracksShowTheStore
BY UndoInvariant, ShownIsFresh, PTL

(* The head of a track is a row, and the current command is on its branch. *)
THEOREM TrackRowsAlwaysHold == Spec => []TrackRowsHold
BY UndoInvariant, RowsHold, PTL

-----------------------------------------------------------------------------
(* What commands say of an edit *)

(* The commands that made or took back the edit e of the root p. *)
Touching(o, cs, p, e) ==
  {c \in 1 .. Len(cs) : cs[c].root = p /\ e \in TouchedBy(o, p, cs[c].operation)}

(* The edit is there after the command c. *)
Says(o, cs, p, e, c) == e \in Edits(o, p, cs[c].operation.new)

(* It is there after the commands of C, the last of which decides. *)
Tells(o, cs, b, p, e, C) ==
  LET touching == C \cap Touching(o, cs, p, e)
  IN IF touching = {} THEN e \in b[p] ELSE Says(o, cs, p, e, Max(touching))

(* No crash cut short a command that touches the edit, one track has all   *)
(* of those commands, and no move misapplied the edit.                     *)
Clean(o, cs, I, p, e) ==
  /\ e \notin o.misapplied[p]
  /\ I \cap Touching(o, cs, p, e) = {}
  /\ \A c, d \in Touching(o, cs, p, e) : cs[c].trackName = cs[d].trackName

Current(u) == AppliedOn(u, DOMAIN u.tracks)

(* What was there before a command was what its ancestors say. *)
RecordedOver(o, u, b, p, e) ==
  \A c \in Touching(o, u.commands, p, e) :
    e \in Edits(o, p, u.commands[c].operation.old)
      <=> Tells(o, u.commands, b, p, e, Anc(u.commands, c) \ {c})

HeldAsTold(o, u, b, p, e) == e \in Held(o, p) <=> Tells(o, u.commands, b, p, e, Current(u))

FollowsAt(o, u, b, p, e) == HeldAsTold(o, u, b, p, e) /\ RecordedOver(o, u, b, p, e)

Follows(o, u, b, I) ==
  \A p \in PersistentRoot : \A e \in Nat :
    Clean(o, u.commands, I, p, e) => FollowsAt(o, u, b, p, e)

(* A command that touches an edit has it in one of its two revisions.      *)
LEMMA TouchParts ==
  ASSUME NEW o, ObjectsOK(o), NEW u, StoreOK(u), CommandsFit(o, u),
         NEW p \in PersistentRoot, NEW e
  PROVE  /\ Touching(o, u.commands, p, e) \subseteq 1 .. Len(u.commands)
         /\ \A c \in Touching(o, u.commands, p, e) :
              /\ u.commands[c].root = p /\ u.commands[c].operation.kind = "set"
              /\ OpFits(o, p, u.commands[c].operation)
              /\ u.commands[c].operation.old \in 1 .. LastRevid(o, p)
              /\ u.commands[c].operation.new \in 1 .. LastRevid(o, p)
              /\ Says(o, u.commands, p, e, c)
                   <=> e \notin Edits(o, p, u.commands[c].operation.old)
<1>1. Touching(o, u.commands, p, e) \subseteq 1 .. Len(u.commands)
  BY DEF Touching
<1>2. ASSUME NEW c \in Touching(o, u.commands, p, e)
      PROVE  /\ u.commands[c].root = p /\ u.commands[c].operation.kind = "set"
             /\ OpFits(o, p, u.commands[c].operation)
             /\ u.commands[c].operation.old \in 1 .. LastRevid(o, p)
             /\ u.commands[c].operation.new \in 1 .. LastRevid(o, p)
             /\ Says(o, u.commands, p, e, c)
                  <=> e \notin Edits(o, p, u.commands[c].operation.old)
  <2>1. /\ c \in 1 .. Len(u.commands) /\ u.commands[c].root = p
        /\ e \in TouchedBy(o, p, u.commands[c].operation)
    BY DEF Touching
  <2>2. OpFits(o, p, u.commands[c].operation)
    BY <2>1 DEF CommandsFit
  <2>3. u.commands[c].operation.kind = "set"
    BY <2>1 DEF TouchedBy
  <2>4. e \in SymDiff(Edits(o, p, u.commands[c].operation.old),
                      Edits(o, p, u.commands[c].operation.new))
    BY <2>1, <2>3 DEF TouchedBy
  <2> QED
    BY <2>1, <2>2, <2>3, <2>4 DEF OpFits, SymDiff, Says
<1> QED
  BY <1>1, <1>2

(* What was recorded stays as it is when revisions are written.            *)
LEMMA LaterTouching ==
  ASSUME NEW o, ObjectsOK(o), NEW o2, ObjectsOK(o2), Later(o, o2),
         NEW u, StoreOK(u), CommandsFit(o, u), NEW p \in PersistentRoot, NEW e
  PROVE  /\ Touching(o2, u.commands, p, e) = Touching(o, u.commands, p, e)
         /\ \A c \in Touching(o, u.commands, p, e) :
              /\ Says(o2, u.commands, p, e, c) <=> Says(o, u.commands, p, e, c)
              /\ Edits(o2, p, u.commands[c].operation.old)
                   = Edits(o, p, u.commands[c].operation.old)
<1>1. \A c \in 1 .. Len(u.commands) :
        u.commands[c].root = p =>
          TouchedBy(o2, p, u.commands[c].operation) = TouchedBy(o, p, u.commands[c].operation)
  BY LaterKeeps DEF CommandsFit
<1>2. Touching(o2, u.commands, p, e) = Touching(o, u.commands, p, e)
  BY <1>1 DEF Touching
<1>3. ASSUME NEW c \in Touching(o, u.commands, p, e)
      PROVE  /\ Says(o2, u.commands, p, e, c) <=> Says(o, u.commands, p, e, c)
             /\ Edits(o2, p, u.commands[c].operation.old)
                  = Edits(o, p, u.commands[c].operation.old)
  <2>1. /\ u.commands[c].operation.old \in 1 .. LastRevid(o, p)
        /\ u.commands[c].operation.new \in 1 .. LastRevid(o, p)
    BY TouchParts
  <2> QED
    BY <2>1, LaterKeeps DEF Says
<1> QED
  BY <1>2, <1>3

(* The last of some commands decides.                                      *)
LEMMA LastTells ==
  ASSUME NEW o, NEW u, StoreOK(u), NEW b, NEW p, NEW e, NEW C,
         NEW c \in C \cap Touching(o, u.commands, p, e),
         \A d \in C \cap Touching(o, u.commands, p, e) : d <= c
  PROVE  Tells(o, u.commands, b, p, e, C) <=> Says(o, u.commands, p, e, c)
<1> DEFINE S == C \cap Touching(o, u.commands, p, e)
<1>1. Len(u.commands) \in Nat
  BY StoreParts
<1>2. S \in SUBSET (0 .. Len(u.commands)) /\ S # {}
  BY <1>1 DEF Touching
<1> HIDE DEF S
<1>3. Max(S) \in S /\ \A n \in S : n <= Max(S)
  BY <1>1, <1>2, MaxIsGreatest
<1>4. Max(S) = c
  <2>1. Max(S) <= c /\ c <= Max(S)
    BY <1>3 DEF S
  <2>2. c \in 0 .. Len(u.commands) /\ Max(S) \in 0 .. Len(u.commands)
    BY <1>2, <1>3 DEF S
  <2> QED
    BY <1>1, <2>1, <2>2
<1> QED
  BY <1>2, <1>4 DEF Tells, S

(* Only the commands that touch the edit count.                            *)
LEMMA SameTells ==
  ASSUME NEW o, NEW cs, NEW b, NEW p, NEW e, NEW C, NEW D,
         C \cap Touching(o, cs, p, e) = D \cap Touching(o, cs, p, e)
  PROVE  Tells(o, cs, b, p, e, C) <=> Tells(o, cs, b, p, e, D)
BY DEF Tells

(* Nothing told changes when revisions are written.                        *)
LEMMA LaterTells ==
  ASSUME NEW o, ObjectsOK(o), NEW o2, ObjectsOK(o2), Later(o, o2),
         NEW u, StoreOK(u), CommandsFit(o, u), NEW p \in PersistentRoot, NEW e, NEW b, NEW C
  PROVE  Tells(o2, u.commands, b, p, e, C) <=> Tells(o, u.commands, b, p, e, C)
<1> DEFINE S == C \cap Touching(o, u.commands, p, e)
<1>1. Touching(o2, u.commands, p, e) = Touching(o, u.commands, p, e)
  BY LaterTouching
<1>2. CASE S = {}
  BY <1>1, <1>2 DEF Tells
<1>3. CASE S # {}
  <2>1. Len(u.commands) \in Nat
    BY StoreParts
  <2>2. S \in SUBSET (0 .. Len(u.commands))
    BY <2>1 DEF Touching
  <2> HIDE DEF S
  <2>3. Max(S) \in S
    BY <1>3, <2>1, <2>2, MaxIsGreatest
  <2>4. Says(o2, u.commands, p, e, Max(S)) <=> Says(o, u.commands, p, e, Max(S))
    <3>1. Max(S) \in Touching(o, u.commands, p, e)
      BY <2>3 DEF S
    <3> QED
      BY <3>1, LaterTouching
  <2> QED
    BY <1>1, <1>3, <2>4 DEF Tells, S
<1> QED
  BY <1>2, <1>3

(* ... and what commands were recorded over neither.                       *)
LEMMA LaterRecordedOver ==
  ASSUME NEW o, ObjectsOK(o), NEW o2, ObjectsOK(o2), Later(o, o2),
         NEW u, StoreOK(u), CommandsFit(o, u), NEW p \in PersistentRoot, NEW e, NEW b,
         RecordedOver(o, u, b, p, e)
  PROVE  RecordedOver(o2, u, b, p, e)
<1> SUFFICES ASSUME NEW c \in Touching(o2, u.commands, p, e)
             PROVE  e \in Edits(o2, p, u.commands[c].operation.old)
                      <=> Tells(o2, u.commands, b, p, e, Anc(u.commands, c) \ {c})
  BY DEF RecordedOver
<1>1. c \in Touching(o, u.commands, p, e)
  BY LaterTouching
<1>2. Edits(o2, p, u.commands[c].operation.old) = Edits(o, p, u.commands[c].operation.old)
  BY <1>1, LaterTouching
<1>3. PICK C : C = Anc(u.commands, c) \ {c}
  OBVIOUS
<1>4. Tells(o2, u.commands, b, p, e, C) <=> Tells(o, u.commands, b, p, e, C)
  BY LaterTells
<1> QED
  BY <1>1, <1>2, <1>3, <1>4 DEF RecordedOver

-----------------------------------------------------------------------------
(* One step of a move *)

(* A command is applied when it is up to the current one of its track.     *)
LEMMA CurrentParts ==
  ASSUME NEW u, StoreOK(u)
  PROVE  /\ \A s \in DOMAIN u.tracks : \A d \in Anc(u.commands, u.tracks[s].current) :
              d \in 1 .. Len(u.commands) /\ u.commands[d].trackName = s
         /\ \A d : d \in Current(u) <=>
                     /\ d \in 1 .. Len(u.commands)
                     /\ d \in Anc(u.commands, u.tracks[u.commands[d].trackName].current)
<1>1. /\ Ordered(u.commands)
      /\ \A t \in DOMAIN u.tracks : StateOK(u.commands, t, u.tracks[t])
      /\ \A c \in 1 .. Len(u.commands) : u.commands[c].trackName \in DOMAIN u.tracks
  BY StoreParts
<1>2. ASSUME NEW s \in DOMAIN u.tracks, NEW d \in Anc(u.commands, u.tracks[s].current)
      PROVE  d \in 1 .. Len(u.commands) /\ u.commands[d].trackName = s
  <2>1. PICK cs : cs = u.commands
    OBVIOUS
  <2>2. PICK state : state = u.tracks[s]
    OBVIOUS
  <2>3. Ordered(cs) /\ StateOK(cs, s, state)
    BY <1>1, <2>1, <2>2
  <2>4. /\ Anc(cs, state.head) \subseteq 1 .. Len(cs)
        /\ Anc(cs, state.current) = {c \in Anc(cs, state.head) : c <= state.current}
        /\ \A c \in Anc(cs, state.head) : cs[c].trackName = s
    BY <2>3, StateFacts
  <2> QED
    BY <2>1, <2>2, <2>4
<1> QED
  BY <1>1, <1>2 DEF Current, AppliedOn

(* The edits of a root whose row and revisions are the same.               *)
LEMMA OtherHeld ==
  ASSUME NEW o, NEW o2, NEW p, Changed(o, p, o2), NEW q \in PersistentRoot \ {p}
  PROVE  Held(o2, q) = Held(o, q)
<1>1. o2.rows[q] = o.rows[q] /\ o2.revisions[q] = o.revisions[q]
  BY DEF Changed
<1> QED
  BY <1>1 DEF Held, Edits

(* An operation changes what it touches: to what its new revision has.     *)
LEMMA HeldAfterOperation ==
  ASSUME NEW o, NEW p, NEW op, NEW e
  PROVE  /\ e \notin TouchedBy(o, p, op) => (e \in HeldAfter(o, p, op) <=> e \in Held(o, p))
         /\ e \in TouchedBy(o, p, op) => (e \in HeldAfter(o, p, op) <=> e \in Edits(o, p, op.new))
BY DEF HeldAfter, TouchedBy, SelectivelyApplied, SymDiff, Held

(* The inverse touches the same edits.                                     *)
LEMMA InverseTouches ==
  ASSUME NEW o, NEW p, NEW op \in Operation
  PROVE  /\ TouchedBy(o, p, Inversed(op)) = TouchedBy(o, p, op)
         /\ op.kind = "set" => Inversed(op).new = op.old
<1>1. /\ Inversed(op).kind = "set" <=> op.kind = "set"
      /\ op.kind = "set" => Inversed(op).old = op.new /\ Inversed(op).new = op.old
  BY Operations
<1>2. CASE op.kind = "set"
  BY <1>1, <1>2 DEF TouchedBy, SymDiff
<1>3. CASE op.kind # "set"
  BY <1>1, <1>3 DEF TouchedBy
<1> QED
  BY <1>1, <1>2, <1>3

(* A step takes the command at the end of what its track has applied, or   *)
(* the next one.                                                           *)
Legal(cs, tracks, step) ==
  Anc(cs, tracks[cs[step.command].trackName].current)
    = IF step.inverse THEN Anc(cs, step.command) ELSE Anc(cs, step.command) \ {step.command}

(* What is applied changes by the command of the step.                     *)
LEMMA StepApplies ==
  ASSUME NEW d, StoreOK(d.u), NEW d2, StoreOK(d2.u), NEW step,
         step.command \in 1 .. Len(d.u.commands), step.inverse \in BOOLEAN,
         Stepped(d, step, d2), Legal(d.u.commands, d.u.tracks, step)
  PROVE  /\ \A x : x # step.command => (x \in Current(d2.u) <=> x \in Current(d.u))
         /\ step.command \in Current(d2.u) <=> ~ step.inverse
         /\ Anc(d.u.commands, d2.u.tracks[d.u.commands[step.command].trackName].current)
              = IF step.inverse THEN Anc(d.u.commands, step.command) \ {step.command}
                ELSE Anc(d.u.commands, step.command)
<1>1. PICK u : u = d.u
  OBVIOUS
<1>2. PICK u2 : u2 = d2.u
  OBVIOUS
<1>3. PICK cs : cs = u.commands
  OBVIOUS
<1>4. PICK c : c = step.command
  OBVIOUS
<1>5. PICK t : t = cs[c].trackName
  OBVIOUS
<1>6. /\ Ordered(cs) /\ c \in 1 .. Len(cs) /\ t \in DOMAIN u.tracks
      /\ \A x \in 1 .. Len(cs) : cs[x].trackName \in DOMAIN u.tracks
  BY <1>1, <1>3, <1>4, <1>5, StoreParts
<1>7. /\ u2.commands = cs /\ u2.tracks[t].current = StepCurrent(cs, step)
      /\ \A s \in DOMAIN u.tracks \ {t} : u2.tracks[s] = u.tracks[s]
  BY <1>1, <1>2, <1>3, <1>4, <1>5 DEF Stepped
<1>8. c \in Anc(cs, c) /\ Anc(cs, cs[c].parent) = Anc(cs, c) \ {c}
  BY <1>6, AncFacts
<1>9. Anc(cs, u.tracks[t].current) = IF step.inverse THEN Anc(cs, c) ELSE Anc(cs, c) \ {c}
  BY <1>1, <1>3, <1>4, <1>5 DEF Legal
<1>10. Anc(cs, u2.tracks[t].current) = IF step.inverse THEN Anc(cs, c) \ {c} ELSE Anc(cs, c)
  BY <1>4, <1>7, <1>8 DEF StepCurrent
<1>11. \A x : x \in Current(u) <=>
                x \in 1 .. Len(cs) /\ x \in Anc(cs, u.tracks[cs[x].trackName].current)
  BY <1>1, <1>3, CurrentParts
<1>12. \A x : x \in Current(u2) <=>
                x \in 1 .. Len(cs) /\ x \in Anc(cs, u2.tracks[cs[x].trackName].current)
  BY <1>2, <1>7, CurrentParts
<1>13. ASSUME NEW x, x # c
       PROVE  x \in Current(u2) <=> x \in Current(u)
  <2>1. CASE x \notin 1 .. Len(cs)
    BY <1>11, <1>12, <2>1
  <2>2. CASE x \in 1 .. Len(cs) /\ cs[x].trackName = t
    BY <1>9, <1>10, <1>11, <1>12, <1>13, <2>2
  <2>3. CASE x \in 1 .. Len(cs) /\ cs[x].trackName # t
    <3>1. u2.tracks[cs[x].trackName] = u.tracks[cs[x].trackName]
      BY <1>6, <1>7, <2>3
    <3> QED
      BY <1>11, <1>12, <2>3, <3>1
  <2> QED
    BY <2>1, <2>2, <2>3
<1>14. c \in Current(u2) <=> ~ step.inverse
  BY <1>5, <1>6, <1>8, <1>10, <1>12
<1> QED
  BY <1>1, <1>2, <1>3, <1>4, <1>5, <1>10, <1>13, <1>14

(* The edits of a root after a step, and those that the step does not      *)
(* touch, but for what was misapplied.                                     *)
LEMMA StepHolds ==
  ASSUME NEW d, ObjectsOK(d.o), StoreOK(d.u), CommandsFit(d.o, d.u), NEW d2, NEW step,
         step.command \in 1 .. Len(d.u.commands), step.inverse \in BOOLEAN,
         Stepped(d, step, d2), Changed(d.o, d.u.commands[step.command].root, d2.o),
         NEW p \in PersistentRoot, NEW e, e \notin d2.o.misapplied[p]
  PROVE  /\ step.command \notin Touching(d.o, d.u.commands, p, e) =>
              (e \in Held(d2.o, p) <=> e \in Held(d.o, p))
         /\ step.command \in Touching(d.o, d.u.commands, p, e) =>
              (e \in Held(d2.o, p)
                 <=> IF step.inverse
                     THEN e \in Edits(d.o, p, d.u.commands[step.command].operation.old)
                     ELSE Says(d.o, d.u.commands, p, e, step.command))
<1>1. PICK o : o = d.o
  OBVIOUS
<1>2. PICK o2 : o2 = d2.o
  OBVIOUS
<1>3. PICK cs : cs = d.u.commands
  OBVIOUS
<1>4. PICK c : c = step.command
  OBVIOUS
<1>5. PICK q : q = cs[c].root
  OBVIOUS
<1>6. PICK op : op = StepOperation(cs, step)
  OBVIOUS
<1>7. q \in PersistentRoot
  BY <1>3, <1>4, <1>5, StoreParts
<1>8. OpFits(o, q, cs[c].operation)
  BY <1>1, <1>3, <1>4, <1>5 DEF CommandsFit
<1>9. OpFits(o, q, op)
  BY <1>4, <1>6, <1>8, InverseFits DEF StepOperation
<1>10. o2 = AddToStoreTransaction(o, q, op)
  BY <1>1, <1>2, <1>3, <1>4, <1>5, <1>6 DEF Stepped
<1>11. HeldBut(o, q, op, o2)
  BY <1>1, <1>7, <1>9, <1>10, AddChanges
<1>12. /\ TouchedBy(o, q, op) = TouchedBy(o, q, cs[c].operation)
       /\ cs[c].operation.kind = "set" =>
            op.new = IF step.inverse THEN cs[c].operation.old ELSE cs[c].operation.new
  <2>1. cs[c].operation \in Operation
    BY <1>8 DEF OpFits
  <2> QED
    BY <1>4, <1>6, <2>1, InverseTouches DEF StepOperation
<1>13. Changed(o, q, o2)
  BY <1>1, <1>2, <1>3, <1>4, <1>5
<1>14. CASE p # q
  <2>1. Held(o2, p) = Held(o, p)
    BY <1>13, <1>14, OtherHeld
  <2>2. c \notin Touching(o, cs, p, e)
    BY <1>5, <1>14 DEF Touching
  <2> QED
    BY <1>1, <1>2, <1>3, <1>4, <2>1, <2>2
<1>15. CASE p = q
  <2>1. c \in Touching(o, cs, p, e) <=> e \in TouchedBy(o, p, op)
    BY <1>3, <1>4, <1>5, <1>12, <1>15 DEF Touching
  <2>2. c \in Touching(o, cs, p, e) => cs[c].operation.kind = "set"
    BY <1>12, <1>15, <2>1 DEF TouchedBy
  <2>3. /\ e \notin TouchedBy(o, p, op) => (e \in Held(o2, p) <=> e \in Held(o, p))
        /\ e \in TouchedBy(o, p, op) => (e \in Held(o2, p) <=> e \in Edits(o, p, op.new))
    <3>1. e \in Held(o2, p) <=> e \in HeldAfter(o, p, op)
      BY <1>2, <1>11, <1>15 DEF HeldBut
    <3> QED
      BY <3>1, HeldAfterOperation
  <2> QED
    BY <1>1, <1>2, <1>3, <1>4, <1>12, <2>1, <2>2, <2>3 DEF Says
<1> QED
  BY <1>14, <1>15

(* On one track, what is applied of an edit's commands.                    *)
LEMMA AppliedOfTrack ==
  ASSUME NEW u, StoreOK(u), NEW o, NEW p, NEW e, NEW t \in DOMAIN u.tracks,
         \A c \in Touching(o, u.commands, p, e) : u.commands[c].trackName = t
  PROVE  Current(u) \cap Touching(o, u.commands, p, e)
           = Anc(u.commands, u.tracks[t].current) \cap Touching(o, u.commands, p, e)
<1>1. \A d : d \in Current(u) <=>
               /\ d \in 1 .. Len(u.commands)
               /\ d \in Anc(u.commands, u.tracks[u.commands[d].trackName].current)
  BY CurrentParts
<1>2. Touching(o, u.commands, p, e) \subseteq 1 .. Len(u.commands)
  BY DEF Touching
<1> QED
  BY <1>1, <1>2

(* A step of a move keeps roots at what the tracks say.                    *)
LEMMA StepFollows ==
  ASSUME NEW d, ObjectsOK(d.o), StoreOK(d.u), CommandsFit(d.o, d.u),
         NEW d2, ObjectsOK(d2.o), StoreOK(d2.u), NEW step,
         step.command \in 1 .. Len(d.u.commands), step.inverse \in BOOLEAN,
         Stepped(d, step, d2), Changed(d.o, d.u.commands[step.command].root, d2.o),
         Legal(d.u.commands, d.u.tracks, step), NEW b, NEW I, Follows(d.o, d.u, b, I)
  PROVE  Follows(d2.o, d2.u, b, I)
<1>1. PICK o : o = d.o
  OBVIOUS
<1>2. PICK o2 : o2 = d2.o
  OBVIOUS
<1>3. PICK u : u = d.u
  OBVIOUS
<1>4. PICK u2 : u2 = d2.u
  OBVIOUS
<1>5. PICK cs : cs = u.commands
  OBVIOUS
<1>6. PICK c : c = step.command
  OBVIOUS
<1>7. PICK t : t = cs[c].trackName
  OBVIOUS
<1>8. /\ ObjectsOK(o) /\ ObjectsOK(o2) /\ StoreOK(u) /\ StoreOK(u2) /\ CommandsFit(o, u)
      /\ Follows(o, u, b, I) /\ Later(o, o2) /\ c \in 1 .. Len(cs) /\ step.inverse \in BOOLEAN
  BY <1>1, <1>2, <1>3, <1>4, <1>5, <1>6 DEF Changed
<1>9. u2.commands = cs /\ DOMAIN u2.tracks = DOMAIN u.tracks
  BY <1>3, <1>4, <1>5 DEF Stepped
<1>10. t \in DOMAIN u.tracks /\ Ordered(cs)
  BY <1>5, <1>7, <1>8, StoreParts
<1>11. c \in Anc(cs, c) /\ Anc(cs, c) \subseteq 1 .. c
  BY <1>8, <1>10, AncFacts
<1>12. /\ \A x : x # c => (x \in Current(u2) <=> x \in Current(u))
       /\ c \in Current(u2) <=> ~ step.inverse
       /\ Anc(cs, u2.tracks[t].current) = IF step.inverse THEN Anc(cs, c) \ {c} ELSE Anc(cs, c)
  BY <1>3, <1>4, <1>5, <1>6, <1>7, StepApplies
<1> SUFFICES ASSUME NEW p \in PersistentRoot, NEW e \in Nat, Clean(o2, u2.commands, I, p, e)
             PROVE  FollowsAt(o2, u2, b, p, e)
  BY <1>2, <1>4 DEF Follows
<1>20. e \notin d2.o.misapplied[p]
  BY <1>2 DEF Clean
<1>13. PICK T : T = Touching(o, cs, p, e)
  OBVIOUS
<1>14. Touching(o2, cs, p, e) = T
  <2>1. ObjectsOK(o) /\ ObjectsOK(o2) /\ Later(o, o2) /\ StoreOK(u) /\ CommandsFit(o, u)
    BY <1>8
  <2>2. Touching(o2, u.commands, p, e) = Touching(o, u.commands, p, e)
    BY <2>1, LaterTouching
  <2> QED
    BY <1>5, <1>13, <2>2
<1>15. FollowsAt(o, u, b, p, e)
  <2>1. e \notin o.misapplied[p]
    BY <1>8 DEF Later, Clean
  <2> QED
    BY <1>5, <1>8, <1>9, <1>13, <1>14, <2>1 DEF Follows, Clean
<1>16. RecordedOver(o2, u2, b, p, e)
  <2>1. RecordedOver(o2, u, b, p, e)
    BY <1>8, <1>15, LaterRecordedOver DEF FollowsAt
  <2> QED
    BY <1>5, <1>9, <2>1 DEF RecordedOver
<1>17. \A C : Tells(o2, cs, b, p, e, C) <=> Tells(o, cs, b, p, e, C)
  BY <1>5, <1>8, LaterTells
<1>18. CASE c \notin T
  <2>1. Current(u2) \cap T = Current(u) \cap T
    BY <1>12, <1>18
  <2>2. Tells(o, cs, b, p, e, Current(u2)) <=> Tells(o, cs, b, p, e, Current(u))
    BY <1>13, <2>1, SameTells
  <2>3. e \in Held(o2, p) <=> e \in Held(o, p)
    BY <1>1, <1>2, <1>3, <1>5, <1>6, <1>13, <1>18, <1>20, StepHolds
  <2>4. HeldAsTold(o2, u2, b, p, e)
    BY <1>5, <1>9, <1>15, <1>17, <2>2, <2>3 DEF FollowsAt, HeldAsTold
  <2> QED
    BY <1>16, <2>4 DEF FollowsAt
<1>19. CASE c \in T
  <2>1. \A x \in T : cs[x].trackName = t
    BY <1>7, <1>9, <1>14, <1>19 DEF Clean
  <2>2. Current(u2) \cap T = Anc(cs, u2.tracks[t].current) \cap T
    <3>1. /\ t \in DOMAIN u2.tracks
          /\ \A x \in Touching(o2, u2.commands, p, e) : u2.commands[x].trackName = t
      BY <1>9, <1>10, <1>14, <2>1
    <3>2. Current(u2) \cap Touching(o2, u2.commands, p, e)
            = Anc(u2.commands, u2.tracks[t].current) \cap Touching(o2, u2.commands, p, e)
      BY <1>8, <3>1, AppliedOfTrack
    <3> QED
      BY <1>9, <1>14, <3>2
  <2>3. e \in Held(o2, p)
          <=> IF step.inverse THEN e \in Edits(o, p, cs[c].operation.old) ELSE Says(o, cs, p, e, c)
    BY <1>1, <1>2, <1>3, <1>5, <1>6, <1>13, <1>19, <1>20, StepHolds
  <2>4. CASE step.inverse
    <3>1. PICK C : C = Anc(cs, c) \ {c}
      OBVIOUS
    <3>2. e \in Edits(o, p, cs[c].operation.old) <=> Tells(o, cs, b, p, e, C)
      BY <1>5, <1>13, <1>15, <1>19, <3>1 DEF FollowsAt, RecordedOver
    <3>3. Current(u2) \cap T = C \cap T
      BY <1>12, <2>2, <2>4, <3>1
    <3>4. Tells(o, cs, b, p, e, Current(u2)) <=> Tells(o, cs, b, p, e, C)
      BY <1>13, <3>3, SameTells
    <3>5. HeldAsTold(o2, u2, b, p, e)
      BY <1>9, <1>17, <2>3, <2>4, <3>2, <3>4 DEF HeldAsTold
    <3> QED
      BY <1>16, <3>5 DEF FollowsAt
  <2>5. CASE ~ step.inverse
    <3>1. c \in Current(u2) \cap T
      BY <1>12, <1>19, <2>5
    <3>2. \A x \in Current(u2) \cap T : x <= c
      BY <1>11, <1>12, <2>2, <2>5
    <3>3. Tells(o, cs, b, p, e, Current(u2)) <=> Says(o, cs, p, e, c)
      BY <1>5, <1>8, <1>13, <3>1, <3>2, LastTells
    <3>4. HeldAsTold(o2, u2, b, p, e)
      BY <1>9, <1>17, <2>3, <2>5, <3>3 DEF HeldAsTold
    <3> QED
      BY <1>16, <3>4 DEF FollowsAt
  <2> QED
    BY <1>8, <2>4, <2>5
<1> QED
  BY <1>18, <1>19

-----------------------------------------------------------------------------
(* Moves *)

(* Between two steps of a walk, the commands of a track that are applied   *)
(* are those up to the position.                                           *)
At(cs, tracks, names, s, k) ==
  \A t \in names :
    Anc(cs, tracks[t].current) = {b \in Frontier(s, k) : cs[b].trackName = t}

(* Up to a command, the line has of its track what it was recorded on.     *)
LEMMA LineOrder ==
  ASSUME NEW cs, Ordered(cs), NEW names, NEW h, NEW a, BranchesOK(cs, names, h, a),
         NEW s, NEW k, InLine(cs, names, h, a, s, k), NEW j \in 2 .. Len(s)
  PROVE  /\ {b \in Frontier(s, j) : cs[b].trackName = cs[s[j]].trackName} = Anc(cs, s[j])
         /\ Frontier(s, j) = Frontier(s, j - 1) \cup {s[j]}
         /\ s[j] \notin Frontier(s, j - 1)
         /\ s[j] \in 1 .. Len(cs) /\ cs[s[j]].trackName \in names
<1> DEFINE c == s[j]
           t == cs[s[j]].trackName
<1>1. Len(s) \in Nat /\ \A x, y \in 1 .. Len(s) : s[x] = s[y] => x = y
  BY DEF InLine
<1>2. /\ \A x \in 2 .. Len(s) : /\ s[x] \in 1 .. Len(cs) /\ cs[s[x]].trackName \in names
                                /\ s[x] \in Anc(cs, h[cs[s[x]].trackName])
      /\ \A x \in 2 .. Len(s) : \A b \in Anc(cs, s[x]) : \E l \in 2 .. x : s[l] = b
  BY DEF InLine
<1>3. c \in 1 .. Len(cs) /\ t \in names /\ c \in Anc(cs, h[t])
  BY <1>2
<1>4. h[t] \in 1 .. Len(cs)
  BY <1>3 DEF BranchesOK
<1>5. \A x \in Anc(cs, h[t]) : x \in 1 .. Len(cs) /\ Anc(cs, x) = {b \in Anc(cs, h[t]) : b <= x}
  BY <1>4, AncFacts
<1>6. Frontier(s, j) = Frontier(s, j - 1) \cup {c}
  <2>1. 2 .. j = (2 .. j - 1) \cup {j}
    BY <1>1
  <2> QED
    BY <2>1 DEF Frontier
<1>7. c \notin Frontier(s, j - 1)
  <2> SUFFICES ASSUME NEW l \in 2 .. j - 1, s[l] = c
               PROVE  FALSE
    BY DEF Frontier
  <2>1. l \in 1 .. Len(s) /\ j \in 1 .. Len(s) /\ l # j
    BY <1>1
  <2> QED
    BY <1>1, <2>1
<1>8. ASSUME NEW b \in Anc(cs, c)
      PROVE  b \in Frontier(s, j) /\ cs[b].trackName = t
  <2>1. b \in Frontier(s, j)
    BY <1>2 DEF Frontier
  <2> QED
    BY <1>3, <2>1, AncestorsOfTrack
<1>9. ASSUME NEW b \in Frontier(s, j), cs[b].trackName = t
      PROVE  b \in Anc(cs, c)
  <2>1. PICK l \in 2 .. j : s[l] = b
    BY DEF Frontier
  <2>2. l \in 2 .. Len(s) /\ l \in 1 .. Len(s) /\ j \in 1 .. Len(s)
    BY <1>1
  <2>3. b \in 1 .. Len(cs) /\ b \in Anc(cs, h[t])
    BY <1>2, <1>9, <2>1, <2>2
  <2>4. CASE b <= c
    BY <1>3, <1>5, <2>3, <2>4
  <2>5. CASE ~ (b <= c)
    <3>1. c <= b
      BY <1>3, <1>5, <2>3, <2>5
    <3>2. c \in Anc(cs, b)
      BY <1>3, <1>5, <2>3, <3>1
    <3>3. PICK x \in 2 .. l : s[x] = c
      BY <1>2, <2>1, <2>2, <3>2
    <3>4. x \in 1 .. Len(s) /\ x <= l /\ l <= j
      BY <1>1, <2>1, <2>2
    <3>5. x = j
      BY <1>1, <2>2, <3>3, <3>4
    <3>6. l = j
      BY <2>2, <3>4, <3>5
    <3> QED
      BY <1>3, <2>1, <3>6, AncFacts
  <2> QED
    BY <2>4, <2>5
<1> QED
  BY <1>3, <1>6, <1>7, <1>8, <1>9

(* The first position of a walk is one at which the current commands are.  *)
LEMMA StartsAt ==
  ASSUME NEW cs, Ordered(cs), NEW names, NEW h, NEW a, BranchesOK(cs, names, h, a),
         NEW s, NEW k, InLine(cs, names, h, a, s, k),
         NEW tracks, \A t \in names : Anc(cs, tracks[t].current) = Anc(cs, a[t])
  PROVE  At(cs, tracks, names, s, k)
<1>1. Frontier(s, k) = Applied(cs, names, a)
  BY DEF InLine
<1>2. \A t \in names : \A b \in Anc(cs, a[t]) : cs[b].trackName = t
  BY BranchFacts
<1> QED
  BY <1>1, <1>2 DEF At, Applied

(* The track of the step, having applied what the step leaves, is at y.    *)
LeadsTo(cs, tracks, step, names, s, y) ==
  \A tracks2 :
    /\ \A t \in names \ {cs[step.command].trackName} : tracks2[t] = tracks[t]
    /\ Anc(cs, tracks2[cs[step.command].trackName].current)
         = IF step.inverse THEN Anc(cs, step.command) \ {step.command}
           ELSE Anc(cs, step.command)
    => At(cs, tracks2, names, s, y)

(* The step is from the position x of the line to y. *)
StepsBy(s, step, x, y) ==
  /\ x \in 1 .. Len(s) /\ y \in 1 .. Len(s)
  /\ \/ step.inverse = TRUE /\ y = x - 1 /\ step.command = s[x]
     \/ step.inverse = FALSE /\ y = x + 1 /\ step.command = s[y]

(* A step from one position of the line to the next is legal, and leads    *)
(* there.                                                                  *)
LEMMA WalkIsLegal ==
  ASSUME NEW cs, Ordered(cs), NEW names, NEW h, NEW a, BranchesOK(cs, names, h, a),
         NEW s, NEW k, InLine(cs, names, h, a, s, k),
         NEW tracks, NEW x, At(cs, tracks, names, s, x), NEW y, NEW step, StepsBy(s, step, x, y)
  PROVE  /\ step.command \in 1 .. Len(cs) /\ step.inverse \in BOOLEAN
         /\ cs[step.command].trackName \in names
         /\ Legal(cs, tracks, step)
         /\ LeadsTo(cs, tracks, step, names, s, y)
<1>1. Len(s) \in Nat /\ x \in 1 .. Len(s) /\ y \in 1 .. Len(s)
  BY DEF InLine, StepsBy
<1>2. PICK c : c = step.command
  OBVIOUS
<1>3. PICK t : t = cs[c].trackName
  OBVIOUS
<1>4. CASE step.inverse = TRUE /\ y = x - 1 /\ c = s[x]
  <2>1. x \in 2 .. Len(s)
    BY <1>1, <1>4
  <2>2. /\ {b \in Frontier(s, x) : cs[b].trackName = t} = Anc(cs, c)
        /\ Frontier(s, x) = Frontier(s, y) \cup {c} /\ c \notin Frontier(s, y)
        /\ c \in 1 .. Len(cs) /\ t \in names
    <3>1. /\ {b \in Frontier(s, x) : cs[b].trackName = cs[s[x]].trackName} = Anc(cs, s[x])
          /\ Frontier(s, x) = Frontier(s, x - 1) \cup {s[x]} /\ s[x] \notin Frontier(s, x - 1)
          /\ s[x] \in 1 .. Len(cs) /\ cs[s[x]].trackName \in names
      BY <2>1, LineOrder
    <3> QED
      BY <1>3, <1>4, <3>1
  <2>3. Legal(cs, tracks, step)
    BY <1>2, <1>3, <1>4, <2>2 DEF Legal, At
  <2>4. ASSUME NEW tracks2, \A r \in names \ {t} : tracks2[r] = tracks[r],
               Anc(cs, tracks2[t].current) = Anc(cs, c) \ {c}
        PROVE  At(cs, tracks2, names, s, y)
    <3> SUFFICES ASSUME NEW r \in names
                 PROVE  Anc(cs, tracks2[r].current) = {b \in Frontier(s, y) : cs[b].trackName = r}
      BY DEF At
    <3>1. CASE r = t
      BY <2>2, <2>4, <3>1
    <3>2. CASE r # t
      BY <1>3, <2>2, <2>4, <3>2 DEF At
    <3> QED
      BY <3>1, <3>2
  <2> QED
    <3>1. LeadsTo(cs, tracks, step, names, s, y)
      BY <1>2, <1>3, <1>4, <2>4 DEF LeadsTo
    <3> QED
      BY <1>2, <1>3, <1>4, <2>2, <2>3, <3>1
<1>5. CASE step.inverse = FALSE /\ y = x + 1 /\ c = s[y]
  <2>1. y \in 2 .. Len(s) /\ y - 1 = x
    BY <1>1, <1>5
  <2>2. /\ {b \in Frontier(s, y) : cs[b].trackName = t} = Anc(cs, c)
        /\ Frontier(s, y) = Frontier(s, x) \cup {c} /\ c \notin Frontier(s, x)
        /\ c \in 1 .. Len(cs) /\ t \in names
    <3>1. /\ {b \in Frontier(s, y) : cs[b].trackName = cs[s[y]].trackName} = Anc(cs, s[y])
          /\ Frontier(s, y) = Frontier(s, y - 1) \cup {s[y]} /\ s[y] \notin Frontier(s, y - 1)
          /\ s[y] \in 1 .. Len(cs) /\ cs[s[y]].trackName \in names
      BY <2>1, LineOrder
    <3> QED
      BY <1>3, <1>5, <2>1, <3>1
  <2>3. Legal(cs, tracks, step)
    <3>1. Anc(cs, tracks[t].current) = {b \in Frontier(s, x) : cs[b].trackName = t}
      BY <2>2 DEF At
    <3>2. {b \in Frontier(s, x) : cs[b].trackName = t} = Anc(cs, c) \ {c}
      BY <2>2
    <3>3. Anc(cs, tracks[t].current) = Anc(cs, c) \ {c} /\ ~ step.inverse
      BY <1>5, <3>1, <3>2
    <3> QED
      BY <1>2, <1>3, <3>3 DEF Legal
  <2>4. ASSUME NEW tracks2, \A r \in names \ {t} : tracks2[r] = tracks[r],
               Anc(cs, tracks2[t].current) = Anc(cs, c)
        PROVE  At(cs, tracks2, names, s, y)
    <3> SUFFICES ASSUME NEW r \in names
                 PROVE  Anc(cs, tracks2[r].current) = {b \in Frontier(s, y) : cs[b].trackName = r}
      BY DEF At
    <3>1. CASE r = t
      BY <2>2, <2>4, <3>1
    <3>2. CASE r # t
      BY <1>3, <2>2, <2>4, <3>2 DEF At
    <3> QED
      BY <3>1, <3>2
  <2> QED
    <3>1. LeadsTo(cs, tracks, step, names, s, y)
      BY <1>2, <1>3, <1>5, <2>4 DEF LeadsTo
    <3> QED
      BY <1>2, <1>3, <1>5, <2>2, <2>3, <3>1
<1> QED
  BY <1>2, <1>4, <1>5 DEF StepsBy

(* After z steps the position is p[z], and roots hold what the tracks say. *)
GoneTo(cs, f, names, s, p, b, I, z) ==
  At(cs, f[z].u.tracks, names, s, p[z]) /\ Follows(f[z].o, f[z].u, b, I)

(* A walk along a line keeps roots at what the tracks say.                 *)
LEMMA WalkFollows ==
  ASSUME StoresOK, NEW i \in Track, NEW steps, StepsOK(i, steps),
         NEW f, f = DoneAfter(i, steps), NEW cs, cs = undoStore.commands,
         NEW names, names \subseteq DOMAIN undoStore.tracks,
         NEW h, NEW a, BranchesOK(cs, names, h, a),
         NEW s, NEW k, InLine(cs, names, h, a, s, k),
         NEW x, NEW y, NEW p, Walk(s, steps, x, y, p), y <= Len(steps),
         NEW b, NEW I, GoneTo(cs, f, names, s, p, b, I, x)
  PROVE  GoneTo(cs, f, names, s, p, b, I, y)
<1> DEFINE P(z) == GoneTo(cs, f, names, s, p, b, I, z)
<1>1. Len(steps) \in Nat /\ x \in Nat /\ y \in Nat /\ x <= y
  BY DEF StepsOK, Walk
<1>2. Ordered(cs)
  BY StoreParts DEF StoresOK
<1>3. ASSUME NEW z \in x + 1 .. y, P(z - 1)
      PROVE  P(z)
  <2>1. z \in 1 .. Len(steps) /\ z - 1 \in 0 .. Len(steps) /\ z \in 0 .. Len(steps)
    BY <1>1
  <2>2. PICK step : step = steps[z]
    OBVIOUS
  <2>3. PICK d : d = f[z - 1]
    OBVIOUS
  <2>4. PICK d2 : d2 = f[z]
    OBVIOUS
  <2>5. /\ AfterSteps(i, steps, z - 1, d) /\ AfterSteps(i, steps, z, d2)
        /\ Stepped(d, step, d2)
        /\ Changed(d.o, undoStore.commands[step.command].root, d2.o)
    BY <2>1, <2>2, <2>3, <2>4, MoveSteps
  <2>6. /\ ObjectsOK(d.o) /\ StoreOK(d.u) /\ CommandsFit(d.o, d.u)
        /\ ObjectsOK(d2.o) /\ StoreOK(d2.u)
        /\ d.u.commands = cs /\ names \subseteq DOMAIN d.u.tracks
    BY <2>5 DEF AfterSteps, MoveOK
  <2>7. PICK v : v = p[z - 1]
    OBVIOUS
  <2>8. PICK w : w = p[z]
    OBVIOUS
  <2>9. StepsBy(s, step, v, w)
    <3>1. z - 1 \in x .. y /\ z \in x .. y
      BY <1>1
    <3> QED
      BY <2>2, <2>7, <2>8, <3>1 DEF Walk, StepsBy
  <2>10. PICK tracks : tracks = d.u.tracks
    OBVIOUS
  <2>11. At(cs, tracks, names, s, v) /\ Follows(d.o, d.u, b, I)
    BY <1>3, <2>3, <2>7, <2>10 DEF GoneTo
  <2>12. /\ step.command \in 1 .. Len(cs) /\ step.inverse \in BOOLEAN
         /\ cs[step.command].trackName \in names
         /\ Legal(cs, tracks, step)
         /\ LeadsTo(cs, tracks, step, names, s, w)
    BY <1>2, <2>9, <2>11, WalkIsLegal
  <2>13. /\ step.command \in 1 .. Len(d.u.commands)
         /\ Changed(d.o, d.u.commands[step.command].root, d2.o)
         /\ Legal(d.u.commands, d.u.tracks, step)
    BY <2>5, <2>6, <2>10, <2>12
  <2>14. Follows(d2.o, d2.u, b, I)
    BY <2>5, <2>6, <2>11, <2>12, <2>13, StepFollows
  <2>15. Anc(d.u.commands, d2.u.tracks[d.u.commands[step.command].trackName].current)
           = IF step.inverse THEN Anc(d.u.commands, step.command) \ {step.command}
             ELSE Anc(d.u.commands, step.command)
    BY <2>5, <2>6, <2>12, <2>13, StepApplies
  <2>16. \A t \in names \ {cs[step.command].trackName} : d2.u.tracks[t] = tracks[t]
    BY <2>5, <2>6, <2>10 DEF Stepped
  <2>17. At(cs, d2.u.tracks, names, s, w)
    BY <2>6, <2>12, <2>15, <2>16 DEF LeadsTo
  <2> QED
    BY <2>4, <2>8, <2>14, <2>17 DEF GoneTo
<1> SUFFICES P(y)
  OBVIOUS
<1>4. P(x)
  OBVIOUS
<1> HIDE DEF P
<1>5. SUFFICES ASSUME ~ P(y)
               PROVE  FALSE
  OBVIOUS
<1>6. PICK S : S = {z \in x .. y : ~ P(z)}
  OBVIOUS
<1>7. S \in SUBSET Nat /\ S # {}
  BY <1>1, <1>5, <1>6
<1>8. PICK z \in S : \A w \in S : z <= w
  BY <1>7, LeastNumber
<1>9. z \in x .. y /\ ~ P(z) /\ z # x
  BY <1>4, <1>6, <1>8
<1>10. z \in x + 1 .. y /\ z - 1 \in x .. y
  BY <1>1, <1>9
<1>11. P(z - 1)
  <2>1. ~ (z <= z - 1)
    BY <1>1, <1>10
  <2> QED
    BY <1>6, <1>8, <1>10, <2>1
<1> QED
  BY <1>3, <1>9, <1>10, <1>11

(* Where a walk ends at the command a, its track has applied what a was    *)
(* recorded on.                                                            *)
LEMMA AtCommand ==
  ASSUME NEW cs, Ordered(cs), NEW t, NEW h, NEW c, BranchesOK(cs, {t}, h, c),
         NEW s, NEW k, InLine(cs, {t}, h, c, s, k), NEW x \in 1 .. Len(s),
         NEW tracks, At(cs, tracks, {t}, s, x)
  PROVE  Anc(cs, tracks[t].current) = Anc(cs, s[x])
<1>1. Len(s) \in Nat /\ s[1] = 0
  BY DEF InLine
<1>2. Anc(cs, tracks[t].current) = {b \in Frontier(s, x) : cs[b].trackName = t}
  BY DEF At
<1>3. CASE x = 1
  <2>1. Frontier(s, x) = {}
    BY <1>3 DEF Frontier
  <2> QED
    BY <1>1, <1>2, <1>3, <2>1, AncFacts
<1>4. CASE x # 1
  <2>1. x \in 2 .. Len(s)
    BY <1>1, <1>4
  <2>2. /\ {b \in Frontier(s, x) : cs[b].trackName = cs[s[x]].trackName} = Anc(cs, s[x])
        /\ cs[s[x]].trackName \in {t}
    BY <2>1, LineOrder
  <2> QED
    BY <1>2, <2>2
<1> QED
  BY <1>3, <1>4

(* Before a move the positions are those of the current commands. *)
LEMMA MoveStarts ==
  ASSUME NEW u, StoreOK(u), NEW names \in SUBSET DOMAIN u.tracks, NEW s, NEW k,
         BranchesOK(u.commands, names, Heads(u, names), Currents(u, names)),
         InLine(u.commands, names, Heads(u, names), Currents(u, names), s, k)
  PROVE  At(u.commands, u.tracks, names, s, k)
<1>1. PICK a : a = Currents(u, names)
  OBVIOUS
<1>2. PICK h : h = Heads(u, names)
  OBVIOUS
<1>3. PICK cs : cs = u.commands
  OBVIOUS
<1>4. PICK tracks : tracks = u.tracks
  OBVIOUS
<1>5. \A t \in names : Anc(cs, tracks[t].current) = Anc(cs, a[t])
  BY <1>1, <1>4 DEF Currents
<1>6. Ordered(cs) /\ BranchesOK(cs, names, h, a) /\ InLine(cs, names, h, a, s, k)
  BY <1>1, <1>2, <1>3, StoreParts
<1>7. At(cs, tracks, names, s, k)
  BY <1>5, <1>6, StartsAt
<1> QED
  BY <1>3, <1>4, <1>7

(* A move that reaches the undo store keeps roots at what the tracks say.  *)
LEMMA MoveFollows ==
  ASSUME StoresOK, NEW i \in Track, NEW n \in {0} \cup DOMAIN memory[i].parents,
         MayMoveTo(i, memory[i], undoStore, n),
         NEW steps, steps = StepsTo(memory[i], undoStore, n),
         NEW d, d = DoneAfter(i, steps)[Len(steps)],
         NEW b, NEW I, Follows(objectStore, undoStore, b, I)
  PROVE  Follows(d.o, d.u, b, I)
<1>1. PICK u : u = undoStore
  OBVIOUS
<1>2. PICK m : m = memory[i]
  OBVIOUS
<1>3. PICK cs : cs = u.commands
  OBVIOUS
<1>4. PICK names : names = Names(i, u)
  OBVIOUS
<1>5. PICK f : f = DoneAfter(i, steps)
  OBVIOUS
<1>6. PICK h : h = Heads(u, names)
  OBVIOUS
<1>7. PICK c : c = Currents(u, names)
  OBVIOUS
<1>8. /\ StoreOK(u) /\ Shows(i, m, u) /\ Ordered(cs)
      /\ n \in {0} \cup DOMAIN m.parents
      /\ MayMoveTo(i, m, u, n) /\ steps = StepsTo(m, u, n)
  BY <1>1, <1>2, <1>3, StoreParts DEF StoresOK, AllShow
<1>9. StepsOK(i, steps)
  BY MoveStepsOK
<1>10. names \subseteq DOMAIN undoStore.tracks /\ names \in SUBSET DOMAIN u.tracks
  BY <1>1, <1>4 DEF Names
<1>11. /\ BranchesOK(cs, names, h, c)
       /\ BranchesOK(u.commands, names, Heads(u, names), Currents(u, names))
  BY <1>3, <1>4, <1>6, <1>7, <1>8, ShownInLine
<1>12. f[0].o = objectStore /\ f[0].u = u /\ Follows(f[0].o, f[0].u, b, I)
  <2>1. f[0] = StartOfMove(i)
    BY <1>5, <1>9, DoneSteps DEF StepsOK
  <2> QED
    BY <1>1, <2>1 DEF StartOfMove
<1>13. cs = undoStore.commands /\ Len(steps) \in Nat /\ Len(steps) <= Len(steps)
  BY <1>1, <1>3, <1>9 DEF StepsOK
<1>14. ASSUME NEW k, InLine(u.commands, names, Heads(u, names), Currents(u, names), m.nodes, k)
       PROVE  InLine(cs, names, h, c, m.nodes, k) /\ At(cs, f[0].u.tracks, names, m.nodes, k)
  <2>1. PICK s : s = m.nodes
    OBVIOUS
  <2>2. At(u.commands, u.tracks, names, s, k)
    BY <1>8, <1>10, <1>11, <1>14, <2>1, MoveStarts
  <2> QED
    BY <1>3, <1>6, <1>7, <1>12, <1>14, <2>1, <2>2
<1>15. CASE ~ IsDivergent(m, n)
  <2>1. PICK k, p : /\ InLine(u.commands, names, Heads(u, names), Currents(u, names), m.nodes, k)
                    /\ Walk(m.nodes, steps, 0, Len(steps), p) /\ p[0] = k
    BY <1>4, <1>8, <1>15, StraightMove
  <2>2. PICK s : s = m.nodes
    OBVIOUS
  <2>3. /\ InLine(cs, names, h, c, s, k) /\ GoneTo(cs, f, names, s, p, b, I, 0)
        /\ Walk(s, steps, 0, Len(steps), p)
    BY <1>12, <1>14, <2>1, <2>2 DEF GoneTo
  <2>4. PICK y : y = Len(steps)
    OBVIOUS
  <2>5. Walk(s, steps, 0, y, p) /\ y <= Len(steps)
    BY <1>13, <2>3, <2>4
  <2>6. GoneTo(cs, f, names, s, p, b, I, y)
    BY <1>5, <1>9, <1>10, <1>11, <1>13, <2>3, <2>5, WalkFollows
  <2> QED
    BY <1>5, <2>4, <2>6 DEF GoneTo
<1>16. CASE IsDivergent(m, n)
  <2>1. PICK a : WalksOver(u, m, names, n, steps, a)
    BY <1>4, <1>8, <1>16, DivergentMove
  <2>2. PICK t : t = cs[n].trackName
    OBVIOUS
  <2>3. /\ n \in 1 .. Len(cs) /\ names = {t} /\ a \in {0} \cup Anc(cs, n)
        /\ \E x :
             /\ \E k, p :
                  /\ InLine(u.commands, names, Heads(u, names), Currents(u, names), m.nodes, k)
                  /\ Walk(m.nodes, steps, 0, x, p) /\ p[0] = k /\ m.nodes[p[x]] = a
             /\ \E s, k, p : /\ OneBranch(cs, t, n, a, s, k)
                             /\ Walk(s, steps, x, Len(steps), p) /\ p[x] = k
    BY <1>3, <2>1, <2>2 DEF WalksOver
  <2>4. PICK x :
          /\ \E k, p :
               /\ InLine(u.commands, names, Heads(u, names), Currents(u, names), m.nodes, k)
               /\ Walk(m.nodes, steps, 0, x, p) /\ p[0] = k /\ m.nodes[p[x]] = a
          /\ \E s, k, p : /\ OneBranch(cs, t, n, a, s, k)
                          /\ Walk(s, steps, x, Len(steps), p) /\ p[x] = k
    BY <2>3
  <2>5. PICK k, p :
          /\ InLine(u.commands, names, Heads(u, names), Currents(u, names), m.nodes, k)
          /\ Walk(m.nodes, steps, 0, x, p) /\ p[0] = k /\ m.nodes[p[x]] = a
    BY <2>4
  <2>6. PICK s2, k2, p2 : /\ OneBranch(cs, t, n, a, s2, k2)
                          /\ Walk(s2, steps, x, Len(steps), p2) /\ p2[x] = k2
    BY <2>4
  <2>7. PICK s : s = m.nodes
    OBVIOUS
  <2>8. /\ InLine(cs, names, h, c, s, k) /\ GoneTo(cs, f, names, s, p, b, I, 0)
        /\ Walk(s, steps, 0, x, p) /\ s[p[x]] = a
    BY <1>12, <1>14, <2>5, <2>7 DEF GoneTo
  <2>9. x \in Nat /\ x <= Len(steps)
    BY <2>6 DEF Walk
  <2>10. GoneTo(cs, f, names, s, p, b, I, x)
    BY <1>5, <1>9, <1>10, <1>11, <1>13, <2>8, <2>9, WalkFollows
  <2>11. PICK tracks : tracks = f[x].u.tracks
    OBVIOUS
  <2>12. PICK px : px = p[x]
    OBVIOUS
  <2>13. px \in 1 .. Len(s)
    <3>1. x \in 0 .. x
      BY <2>9
    <3> QED
      BY <2>8, <2>12, <3>1 DEF Walk
  <2>14. Anc(cs, tracks[t].current) = Anc(cs, a)
    <3>1. /\ BranchesOK(cs, {t}, h, c) /\ InLine(cs, {t}, h, c, s, k)
          /\ At(cs, tracks, {t}, s, px)
      BY <1>11, <2>3, <2>8, <2>10, <2>11, <2>12 DEF GoneTo
    <3>2. Anc(cs, tracks[t].current) = Anc(cs, s[px])
      BY <1>8, <2>13, <3>1, AtCommand
    <3> QED
      BY <2>8, <2>12, <3>2
  <2>15. PICK h2 : h2 = [r \in {t} |-> n]
    OBVIOUS
  <2>16. PICK c2 : c2 = [r \in {t} |-> a]
    OBVIOUS
  <2>17. BranchesOK(cs, {t}, h2, c2) /\ InLine(cs, {t}, h2, c2, s2, k2)
    BY <2>2, <2>3, <2>6, <2>15, <2>16 DEF BranchesOK, OneBranch
  <2>18. \A r \in {t} : Anc(cs, tracks[r].current) = Anc(cs, c2[r])
    BY <2>14, <2>16
  <2>19. At(cs, tracks, {t}, s2, k2)
    BY <1>8, <2>17, <2>18, StartsAt
  <2>20. PICK y : y = Len(steps)
    OBVIOUS
  <2>21. /\ Walk(s2, steps, x, y, p2) /\ y <= Len(steps)
         /\ GoneTo(cs, f, {t}, s2, p2, b, I, x)
         /\ {t} \subseteq DOMAIN undoStore.tracks
    BY <1>10, <1>13, <2>3, <2>6, <2>10, <2>11, <2>19, <2>20 DEF GoneTo
  <2>22. GoneTo(cs, f, {t}, s2, p2, b, I, y)
    BY <1>5, <1>9, <1>13, <2>17, <2>21, WalkFollows
  <2> QED
    BY <1>5, <2>20, <2>22 DEF GoneTo
<1> QED
  BY <1>15, <1>16

-----------------------------------------------------------------------------
(* Moves that a crash cuts short *)

(* Edits that no command of a move touches are as before it, unless they   *)
(* were misapplied.                                                        *)
LEMMA UntouchedStay ==
  ASSUME StoresOK, NEW i \in Track, NEW steps, StepsOK(i, steps), NEW f, f = DoneAfter(i, steps),
         NEW p \in PersistentRoot, NEW e,
         \A k \in 1 .. Len(steps) :
           steps[k].command \notin Touching(objectStore, undoStore.commands, p, e),
         e \notin f[Len(steps)].o.misapplied[p]
  PROVE  e \in Held(f[Len(steps)].o, p) <=> e \in Held(objectStore, p)
<1> DEFINE P(z) == e \notin f[z].o.misapplied[p] =>
                     (e \in Held(f[z].o, p) <=> e \in Held(objectStore, p))
<1>1. Len(steps) \in Nat
  BY DEF StepsOK
<1>2. P(0)
  <2>1. f[0] = StartOfMove(i)
    BY <1>1, DoneSteps
  <2>2. f[0].o = objectStore
    BY <2>1 DEF StartOfMove
  <2> QED
    BY <2>2
<1>3. ASSUME NEW z \in 1 .. Len(steps), P(z - 1)
      PROVE  P(z)
  <2>1. z - 1 \in 0 .. Len(steps) /\ z \in 0 .. Len(steps)
    BY <1>1
  <2>2. PICK step : step = steps[z]
    OBVIOUS
  <2>3. PICK d : d = f[z - 1]
    OBVIOUS
  <2>4. PICK d2 : d2 = f[z]
    OBVIOUS
  <2>5. /\ AfterSteps(i, steps, z - 1, d) /\ Stepped(d, step, d2)
        /\ Changed(d.o, undoStore.commands[step.command].root, d2.o)
    BY <2>1, <2>2, <2>3, <2>4, MoveSteps
  <2>6. /\ ObjectsOK(d.o) /\ StoreOK(d.u) /\ CommandsFit(d.o, d.u) /\ Later(objectStore, d.o)
        /\ d.u.commands = undoStore.commands
    BY <2>5 DEF AfterSteps, MoveOK
  <2>7. step.command \in 1 .. Len(undoStore.commands) /\ step.inverse \in BOOLEAN
    BY <2>2 DEF StoresOK, StepsOK, StepOK, AllShow, Shows, Remembers, KnowsParents
  <2>8. ObjectsOK(objectStore) /\ StoreOK(undoStore) /\ CommandsFit(objectStore, undoStore)
    BY DEF StoresOK
  <2>9. PICK o : o = objectStore
    OBVIOUS
  <2>10. PICK u : u = undoStore
    OBVIOUS
  <2>11. PICK o1 : o1 = d.o
    OBVIOUS
  <2>12. Touching(o1, u.commands, p, e) = Touching(o, u.commands, p, e)
    BY <2>6, <2>8, <2>9, <2>10, <2>11, LaterTouching
  <2>13. step.command \notin Touching(d.o, d.u.commands, p, e)
    BY <2>2, <2>6, <2>9, <2>10, <2>11, <2>12
  <2> SUFFICES ASSUME e \notin d2.o.misapplied[p]
               PROVE  e \in Held(d2.o, p) <=> e \in Held(objectStore, p)
    BY <2>4
  <2>15. e \notin d.o.misapplied[p]
    BY <2>5 DEF Changed, Later
  <2>14. e \in Held(d2.o, p) <=> e \in Held(d.o, p)
    <3>1. /\ step.command \in 1 .. Len(d.u.commands)
          /\ Changed(d.o, d.u.commands[step.command].root, d2.o)
      BY <2>5, <2>6, <2>7
    <3> QED
      BY <2>5, <2>6, <2>7, <2>13, <3>1, StepHolds
  <2> QED
    BY <1>3, <2>3, <2>14, <2>15
<1> SUFFICES P(Len(steps))
  OBVIOUS
<1> HIDE DEF P
<1>4. SUFFICES ASSUME ~ P(Len(steps))
               PROVE  FALSE
  OBVIOUS
<1>5. PICK S : S = {z \in 0 .. Len(steps) : ~ P(z)}
  OBVIOUS
<1>6. S \in SUBSET Nat /\ S # {}
  BY <1>1, <1>4, <1>5
<1>7. PICK z \in S : \A w \in S : z <= w
  BY <1>6, LeastNumber
<1>8. z \in 0 .. Len(steps) /\ ~ P(z) /\ z # 0
  BY <1>2, <1>5, <1>7
<1>9. z \in 1 .. Len(steps) /\ z - 1 \in 0 .. Len(steps) /\ ~ (z <= z - 1)
  BY <1>1, <1>8
<1>10. P(z - 1)
  BY <1>5, <1>7, <1>9
<1> QED
  BY <1>3, <1>8, <1>9, <1>10

(* More commands cut short leave fewer edits to speak of.                  *)
LEMMA MoreInterrupted ==
  ASSUME NEW o, NEW u, NEW b, NEW I, NEW J, I \subseteq J, Follows(o, u, b, I)
  PROVE  Follows(o, u, b, J)
BY DEF Follows, Clean

(* Where no edit of the ones that matter changed, nothing did.             *)
LEMMA SameHeldFollows ==
  ASSUME NEW o, ObjectsOK(o), NEW o2, ObjectsOK(o2), Later(o, o2),
         NEW u, StoreOK(u), CommandsFit(o, u), NEW b, NEW p \in PersistentRoot, NEW e,
         FollowsAt(o, u, b, p, e), e \in Held(o2, p) <=> e \in Held(o, p)
  PROVE  FollowsAt(o2, u, b, p, e)
<1>1. HeldAsTold(o, u, b, p, e) /\ RecordedOver(o, u, b, p, e)
  BY DEF FollowsAt
<1>2. RecordedOver(o2, u, b, p, e)
  BY <1>1, LaterRecordedOver
<1>3. PICK C : C = Current(u)
  OBVIOUS
<1>4. Tells(o2, u.commands, b, p, e, C) <=> Tells(o, u.commands, b, p, e, C)
  BY LaterTells
<1>5. HeldAsTold(o2, u, b, p, e)
  BY <1>1, <1>3, <1>4 DEF HeldAsTold
<1> QED
  BY <1>2, <1>5 DEF FollowsAt

(* A move keeps roots at what the tracks say, of the edits of no command   *)
(* that a crash cut short.                                                 *)
LEMMA MoveKeepsFollows ==
  ASSUME UndoInv, Follows(objectStore, undoStore, baseline, interrupted),
         NEW i \in Track, NEW n \in {0} \cup DOMAIN memory[i].parents, SetCurrentNode(i, n)
  PROVE  Follows(objectStore, undoStore, baseline, interrupted)'
<1>1. StoresOK /\ MayMoveTo(i, memory[i], undoStore, n)
  BY DEF UndoInv, SetCurrentNode
<1>2. PICK steps : steps = StepsTo(memory[i], undoStore, n)
  OBVIOUS
<1>3. PICK f : f = DoneAfter(i, steps)
  OBVIOUS
<1>4. PICK d : d = f[Len(steps)]
  OBVIOUS
<1>5. /\ StepsOK(i, steps) /\ AfterSteps(i, steps, Len(steps), d)
      /\ objectStore' = d.o
      /\ \/ undoStore' = d.u
         \/ undoStore' = undoStore /\ CommandsOf(steps) \subseteq interrupted'
  BY <1>1, <1>2, <1>3, <1>4, MoveCommits
<1>6. Done(i, steps) = d
  BY <1>3, <1>4, <1>5, DoneSteps DEF StepsOK
<1>7. CommitMove(i, n, steps, d) \/ CrashInMove(steps)
  BY <1>2, <1>6 DEF SetCurrentNode
<1>8. baseline' = baseline
  BY DEF SetCurrentNode
<1>9. interrupted \subseteq interrupted'
  BY <1>7 DEF CommitMove, CrashInMove
<1>10. PICK b : b = baseline
  OBVIOUS
<1>11. PICK I : I = interrupted
  OBVIOUS
<1>12. PICK J : J = interrupted'
  OBVIOUS
<1>13. PICK u2 : u2 = undoStore'
  OBVIOUS
<1>14. SUFFICES Follows(d.o, u2, b, J)
  BY <1>5, <1>8, <1>10, <1>12, <1>13
<1>15. I \subseteq J /\ Follows(objectStore, undoStore, b, I)
  BY <1>9, <1>10, <1>11, <1>12
<1>16. CASE u2 = d.u
  <2>1. Follows(d.o, d.u, b, I)
    BY <1>1, <1>2, <1>3, <1>4, <1>15, MoveFollows
  <2>2. PICK o2 : o2 = d.o
    OBVIOUS
  <2>3. Follows(o2, u2, b, I)
    BY <1>16, <2>1, <2>2
  <2>4. Follows(o2, u2, b, J)
    BY <1>15, <2>3, MoreInterrupted
  <2> QED
    BY <2>2, <2>4
<1>17. CASE u2 = undoStore /\ CommandsOf(steps) \subseteq J
  <2>1. PICK o : o = objectStore
    OBVIOUS
  <2>2. PICK o2 : o2 = d.o
    OBVIOUS
  <2>3. /\ ObjectsOK(o) /\ StoreOK(u2) /\ CommandsFit(o, u2)
        /\ ObjectsOK(o2) /\ Later(o, o2)
    BY <1>1, <1>5, <1>17, <2>1, <2>2 DEF StoresOK, AfterSteps, MoveOK
  <2> SUFFICES ASSUME NEW p \in PersistentRoot, NEW e \in Nat, Clean(o2, u2.commands, J, p, e)
               PROVE  FollowsAt(o2, u2, b, p, e)
    BY <2>2 DEF Follows
  <2>4. Touching(o2, u2.commands, p, e) = Touching(o, u2.commands, p, e)
    BY <2>3, LaterTouching
  <2>5. FollowsAt(o, u2, b, p, e)
    <3>1. e \notin o.misapplied[p]
      BY <2>3 DEF Later, Clean
    <3> QED
      BY <1>15, <1>17, <2>1, <2>4, <3>1 DEF Follows, Clean
  <2>6. DOMAIN steps = 1 .. Len(steps)
    <3>1. steps \in Seq(StepRecord)
      BY <1>1, <1>2, MoveStepsOK
    <3> QED
      BY <3>1
  <2>7. \A k \in 1 .. Len(steps) :
          steps[k].command \notin Touching(objectStore, undoStore.commands, p, e)
    BY <1>17, <2>1, <2>4, <2>6 DEF Clean, CommandsOf
  <2>8. e \in Held(f[Len(steps)].o, p) <=> e \in Held(objectStore, p)
    <3>1. e \notin f[Len(steps)].o.misapplied[p]
      BY <1>4, <2>2 DEF Clean
    <3> QED
      BY <1>1, <1>3, <1>5, <2>7, <3>1, UntouchedStay
  <2>9. e \in Held(o2, p) <=> e \in Held(o, p)
    BY <1>4, <2>1, <2>2, <2>8
  <2> QED
    BY <2>3, <2>5, <2>9, SameHeldFollows
<1> QED
  BY <1>5, <1>12, <1>13, <1>16, <1>17

-----------------------------------------------------------------------------
(* Commits that are recorded *)

(* The command that is recorded touches the edits that the commit changed. *)
LEMMA CommandTouches ==
  ASSUME NEW o, ObjectsOK(o), NEW p \in PersistentRoot, NEW o2, Recordable(o, p, o2),
         LastRevid(o2, p) <= MaxRevid, NEW op, op = CommandFor(p, o.rows[p], o2.rows[p]), NEW e
  PROVE  /\ e \in TouchedBy(o2, p, op) <=> ~ (e \in Held(o2, p) <=> e \in Held(o, p))
         /\ e \in TouchedBy(o2, p, op) =>
              /\ e \in Edits(o2, p, op.old) <=> e \in Held(o, p)
              /\ e \in Edits(o2, p, op.new) <=> e \in Held(o2, p)
<1>1. /\ op.kind = "set" => op.old = o.rows[p].current /\ op.new = o2.rows[p].current
      /\ op.kind # "set" => Held(o2, p) = Held(o, p)
  BY CommandForFits
<1>2. CASE op.kind = "set"
  <2>1. ObjectsOK(o2) /\ Later(o, o2)
    BY DEF Recordable, Changed
  <2>2. o.rows[p].current \in 1 .. LastRevid(o, p)
    BY ObjectParts
  <2>3. Edits(o2, p, op.old) = Held(o, p)
    BY <1>1, <1>2, <2>1, <2>2, LaterKeeps DEF Held
  <2>4. Edits(o2, p, op.new) = Held(o2, p)
    BY <1>1, <1>2 DEF Held
  <2>5. TouchedBy(o2, p, op) = SymDiff(Held(o, p), Held(o2, p))
    BY <1>2, <2>3, <2>4 DEF TouchedBy
  <2> QED
    BY <2>3, <2>4, <2>5 DEF SymDiff
<1>3. CASE op.kind # "set"
  BY <1>1, <1>3 DEF TouchedBy
<1> QED
  BY <1>2, <1>3

(* More commands tell the same, of sets of which the same ones touch the   *)
(* edit, and the old ones were recorded over the same.                     *)
TellAlike(o, cs, o2, cs2, b, p, e) ==
  /\ Touching(o2, cs2, p, e) \cap (1 .. Len(cs)) = Touching(o, cs, p, e)
  /\ \A c \in Touching(o, cs, p, e) :
       Edits(o2, p, cs2[c].operation.old) = Edits(o, p, cs[c].operation.old)
  /\ \A C, D : C \cap Touching(o2, cs2, p, e) = D \cap Touching(o, cs, p, e)
               => (Tells(o2, cs2, b, p, e, C) <=> Tells(o, cs, b, p, e, D))

(* What commands tell that were there before another was recorded.         *)
LEMMA GrownTells ==
  ASSUME NEW o, ObjectsOK(o), NEW o2, ObjectsOK(o2), Later(o, o2),
         NEW u, StoreOK(u), CommandsFit(o, u), NEW u2, StoreOK(u2), Grows(u, u2),
         NEW p \in PersistentRoot, NEW e, NEW b
  PROVE  TellAlike(o, u.commands, o2, u2.commands, b, p, e)
<1>1. PICK cs : cs = u.commands
  OBVIOUS
<1>2. PICK cs2 : cs2 = u2.commands
  OBVIOUS
<1>3. PICK T : T = Touching(o, cs, p, e)
  OBVIOUS
<1>4. PICK T2 : T2 = Touching(o2, cs2, p, e)
  OBVIOUS
<1>5. /\ Len(cs) \in Nat /\ Len(cs2) \in Nat /\ Len(cs) <= Len(cs2)
      /\ \A c \in 1 .. Len(cs) : cs2[c] = cs[c]
  BY <1>1, <1>2, StoreParts DEF Grows
<1>6. /\ Touching(o2, cs, p, e) = T
      /\ \A c \in T : /\ Says(o2, cs, p, e, c) <=> Says(o, cs, p, e, c)
                      /\ Edits(o2, p, cs[c].operation.old) = Edits(o, p, cs[c].operation.old)
  BY <1>1, <1>3, LaterTouching
<1>7. T \subseteq 1 .. Len(cs) /\ T2 \subseteq 1 .. Len(cs2)
  BY <1>3, <1>4 DEF Touching
<1>8. T2 \cap (1 .. Len(cs)) = T
  <2>1. \A c \in 1 .. Len(cs) : c \in T2 <=> c \in Touching(o2, cs, p, e)
    BY <1>4, <1>5 DEF Touching
  <2> QED
    BY <1>6, <1>7, <2>1
<1>9. \A c \in T : /\ Says(o2, cs2, p, e, c) <=> Says(o, cs, p, e, c)
                   /\ Edits(o2, p, cs2[c].operation.old) = Edits(o, p, cs[c].operation.old)
  BY <1>5, <1>6, <1>7 DEF Says
<1>10. ASSUME NEW C, NEW D, C \cap T2 = D \cap T
       PROVE  Tells(o2, cs2, b, p, e, C) <=> Tells(o, cs, b, p, e, D)
  <2>1. PICK S : S = D \cap T
    OBVIOUS
  <2>2. CASE S = {}
    BY <1>3, <1>4, <1>10, <2>1, <2>2 DEF Tells
  <2>3. CASE S # {}
    <3>1. S \in SUBSET (0 .. Len(cs))
      <4>1. \A x \in S : x \in 1 .. Len(cs)
        BY <1>7, <2>1
      <4>2. \A x \in 1 .. Len(cs) : x \in 0 .. Len(cs)
        BY <1>5
      <4> QED
        BY <4>1, <4>2
    <3>2. Max(S) \in S
      BY <1>5, <2>3, <3>1, MaxIsGreatest
    <3>3. Says(o2, cs2, p, e, Max(S)) <=> Says(o, cs, p, e, Max(S))
      BY <1>9, <2>1, <3>2
    <3> QED
      BY <1>3, <1>4, <1>10, <2>1, <2>3, <3>3 DEF Tells
  <2> QED
    BY <2>2, <2>3
<1>11. TellAlike(o, cs, o2, cs2, b, p, e)
  BY <1>3, <1>4, <1>8, <1>9, <1>10 DEF TellAlike
<1> QED
  BY <1>1, <1>2, <1>11

(* The new command is applied, and what was applied before.                *)
LEMMA RecordedCurrent ==
  ASSUME NEW u, StoreOK(u), NEW c \in Command, NEW u2, StoreOK(u2), Grows(u, u2),
         RecordedIs(u, c, u2)
  PROVE  Current(u2) = Current(u) \cup {Len(u.commands) + 1}
<1>1. PICK cs : cs = u.commands
  OBVIOUS
<1>2. PICK cs2 : cs2 = u2.commands
  OBVIOUS
<1>3. PICK n : n = Len(cs) + 1
  OBVIOUS
<1>4. PICK t : t = c.trackName
  OBVIOUS
<1>5. /\ Len(cs) \in Nat /\ Len(cs2) = n /\ Ordered(cs)
      /\ \A x \in 1 .. Len(cs) : cs[x].trackName \in DOMAIN u.tracks
  BY <1>1, <1>2, <1>3, StoreParts DEF RecordedIs
<1>6. /\ cs2[n] = c /\ Anc(cs2, n) = {n} \cup Anc(cs, c.parent)
      /\ c.parent = (IF t \in DOMAIN u.tracks THEN u.tracks[t].current ELSE 0)
      /\ u2.tracks[t] = [head |-> n, current |-> n]
      /\ \A s \in DOMAIN u.tracks \ {t} : u2.tracks[s] = u.tracks[s]
  BY <1>1, <1>2, <1>3, <1>4 DEF RecordedIs
<1>7. /\ \A x \in 1 .. Len(cs) : cs2[x] = cs[x]
      /\ \A x \in 0 .. Len(cs) : Anc(cs2, x) = Anc(cs, x)
  BY <1>1, <1>2 DEF Grows
<1>8. \A x : x \in Current(u) <=>
               x \in 1 .. Len(cs) /\ x \in Anc(cs, u.tracks[cs[x].trackName].current)
  BY <1>1, CurrentParts
<1>9. \A x : x \in Current(u2) <=>
               x \in 1 .. Len(cs2) /\ x \in Anc(cs2, u2.tracks[cs2[x].trackName].current)
  BY <1>2, CurrentParts
<1>10. n \in Current(u2)
  <2>1. n \in 1 .. Len(cs2) /\ u2.tracks[cs2[n].trackName].current = n
    BY <1>3, <1>4, <1>5, <1>6
  <2> QED
    BY <1>6, <1>9, <2>1
<1>11. ASSUME NEW x \in 1 .. Len(cs)
       PROVE  x \in Current(u2) <=> x \in Current(u)
  <2>1. cs2[x] = cs[x] /\ x \in 1 .. Len(cs2) /\ x # n /\ cs[x].trackName \in DOMAIN u.tracks
    BY <1>3, <1>5, <1>7
  <2>2. CASE cs[x].trackName = t
    <3>1. u2.tracks[t].current = n /\ c.parent = u.tracks[t].current
      BY <1>6, <2>1, <2>2
    <3> QED
      BY <1>6, <1>8, <1>9, <2>1, <2>2, <3>1
  <2>3. CASE cs[x].trackName # t
    <3>1. u2.tracks[cs[x].trackName] = u.tracks[cs[x].trackName]
      BY <1>6, <2>1, <2>3
    <3>2. u.tracks[cs[x].trackName].current \in 0 .. Len(cs)
      <4>1. PICK s : s = cs[x].trackName
        OBVIOUS
      <4>2. PICK state : state = u.tracks[s]
        OBVIOUS
      <4>3. StateOK(cs, s, state)
        BY <1>1, <2>1, <4>1, <4>2, StoreParts
      <4>4. state.current \in 0 .. Len(cs)
        BY <1>5, <4>3, StateFacts
      <4> QED
        BY <4>1, <4>2, <4>4
    <3> QED
      BY <1>7, <1>8, <1>9, <2>1, <3>1, <3>2
  <2> QED
    BY <2>2, <2>3
<1>12. \A x \in Current(u) : x \in 1 .. Len(cs)
  BY <1>8
<1>13. \A x \in Current(u2) : x = n \/ x \in 1 .. Len(cs)
  BY <1>3, <1>5, <1>9
<1> QED
  BY <1>1, <1>3, <1>10, <1>11, <1>12, <1>13

(* A commit that is recorded keeps roots at what the tracks say.           *)
LEMMA RecordedFollows ==
  ASSUME NEW o, ObjectsOK(o), NEW u, StoreOK(u), CommandsFit(o, u),
         NEW p \in PersistentRoot, NEW o2, Recordable(o, p, o2), LastRevid(o2, p) <= MaxRevid,
         NEW c \in Command, c.root = p, c.operation = CommandFor(p, o.rows[p], o2.rows[p]),
         NEW u2, StoreOK(u2), Grows(u, u2), RecordedIs(u, c, u2),
         NEW b, NEW I, Follows(o, u, b, I)
  PROVE  Follows(o2, u2, b, I)
<1>1. PICK cs : cs = u.commands
  OBVIOUS
<1>2. PICK cs2 : cs2 = u2.commands
  OBVIOUS
<1>3. PICK n : n = Len(cs) + 1
  OBVIOUS
<1>4. PICK t : t = c.trackName
  OBVIOUS
<1>5. PICK op : op = c.operation
  OBVIOUS
<1>6. ObjectsOK(o2) /\ Later(o, o2) /\ Changed(o, p, o2)
  BY DEF Recordable, Changed
<1>7. /\ Len(cs) \in Nat /\ Len(cs2) = n /\ Ordered(cs)
      /\ \A x \in 1 .. Len(cs) : cs[x].trackName \in DOMAIN u.tracks
  BY <1>1, <1>2, <1>3, StoreParts DEF RecordedIs
<1>8. /\ cs2[n] = c /\ Anc(cs2, n) = {n} \cup Anc(cs, c.parent) /\ c.parent \in 0 .. Len(cs)
      /\ c.parent = (IF t \in DOMAIN u.tracks THEN u.tracks[t].current ELSE 0)
  BY <1>1, <1>2, <1>3, <1>4 DEF RecordedIs
<1>9. /\ \A x \in 1 .. Len(cs) : cs2[x] = cs[x]
      /\ \A x \in 0 .. Len(cs) : Anc(cs2, x) = Anc(cs, x)
  BY <1>1, <1>2 DEF Grows
<1>10. Current(u2) = Current(u) \cup {n}
  BY <1>1, <1>3, RecordedCurrent
<1> SUFFICES ASSUME NEW q \in PersistentRoot, NEW e \in Nat, Clean(o2, u2.commands, I, q, e)
             PROVE  FollowsAt(o2, u2, b, q, e)
  BY DEF Follows
<1>11. PICK T : T = Touching(o, cs, q, e)
  OBVIOUS
<1>12. PICK T2 : T2 = Touching(o2, cs2, q, e)
  OBVIOUS
<1>13. /\ T2 \cap (1 .. Len(cs)) = T
       /\ \A x \in T : Edits(o2, q, cs2[x].operation.old) = Edits(o, q, cs[x].operation.old)
       /\ \A C, D : C \cap T2 = D \cap T
                    => (Tells(o2, cs2, b, q, e, C) <=> Tells(o, cs, b, q, e, D))
  <2>1. TellAlike(o, u.commands, o2, u2.commands, b, q, e)
    BY <1>6, GrownTells
  <2> QED
    BY <1>1, <1>2, <1>11, <1>12, <2>1 DEF TellAlike
<1>14. T \subseteq 1 .. Len(cs) /\ T2 \subseteq T \cup {n}
  <2>1. T2 \subseteq 1 .. Len(cs2)
    BY <1>12 DEF Touching
  <2>2. \A x \in 1 .. Len(cs2) : x \in 1 .. Len(cs) \/ x = n
    BY <1>3, <1>7
  <2> QED
    BY <1>13, <2>1, <2>2
<1>15. n \in T2 <=> q = p /\ e \in TouchedBy(o2, p, op)
  <2>1. n \in 1 .. Len(cs2)
    BY <1>3, <1>7
  <2> QED
    BY <1>5, <1>8, <1>12, <2>1 DEF Touching
<1>16. n \notin 1 .. Len(cs)
  BY <1>3, <1>7
<1>17. \A x, y \in T2 : cs2[x].trackName = cs2[y].trackName
  BY <1>2, <1>12 DEF Clean
<1>18. FollowsAt(o, u, b, q, e)
  <2>1. \A x, y \in T : cs[x].trackName = cs[y].trackName
    <3>1. \A x \in T : x \in T2 /\ cs2[x].trackName = cs[x].trackName
      BY <1>9, <1>13
    <3> QED
      BY <1>17, <3>1
  <2>2. I \cap T = {}
    BY <1>2, <1>12, <1>13 DEF Clean
  <2>3. e \notin o.misapplied[q]
    BY <1>6 DEF Later, Clean
  <2> QED
    BY <1>1, <1>11, <2>1, <2>2, <2>3 DEF Follows, Clean
<1>19. /\ e \in Held(o, q) <=> Tells(o, cs, b, q, e, Current(u))
       /\ \A x \in T : e \in Edits(o, q, cs[x].operation.old)
                         <=> Tells(o, cs, b, q, e, Anc(cs, x) \ {x})
  BY <1>1, <1>11, <1>18 DEF FollowsAt, HeldAsTold, RecordedOver
<1>20. /\ e \in TouchedBy(o2, p, op) <=> ~ (e \in Held(o2, p) <=> e \in Held(o, p))
       /\ e \in TouchedBy(o2, p, op) =>
            /\ e \in Edits(o2, p, op.old) <=> e \in Held(o, p)
            /\ e \in Edits(o2, p, op.new) <=> e \in Held(o2, p)
  BY <1>5, CommandTouches
<1>21. ASSUME NEW x \in T
       PROVE  e \in Edits(o2, q, cs2[x].operation.old)
                <=> Tells(o2, cs2, b, q, e, Anc(cs2, x) \ {x})
  <2>1. x \in 1 .. Len(cs) /\ x \in 0 .. Len(cs)
    BY <1>7, <1>14
  <2>2. PICK C : C = Anc(cs, x) \ {x}
    OBVIOUS
  <2>3. Anc(cs2, x) \ {x} = C /\ C \subseteq 1 .. Len(cs)
    <3>1. \A y \in Anc(cs, x) : y \in 1 .. Len(cs)
      BY <1>7, <2>1, AncFacts
    <3> QED
      BY <1>9, <2>1, <2>2, <3>1
  <2>4. C \cap T2 = C \cap T
    BY <1>13, <2>3
  <2> QED
    BY <1>13, <1>19, <2>2, <2>3, <2>4
<1>22. CASE n \notin T2
  <2>1. T2 = T
    BY <1>13, <1>14, <1>22
  <2>2. e \in Held(o2, q) <=> e \in Held(o, q)
    <3>1. CASE q = p
      BY <1>15, <1>20, <1>22, <3>1
    <3>2. CASE q # p
      BY <1>6, <3>2, OtherHeld
    <3> QED
      BY <3>1, <3>2
  <2>3. Current(u2) \cap T2 = Current(u) \cap T
    BY <1>10, <1>22, <2>1
  <2>4. HeldAsTold(o2, u2, b, q, e)
    BY <1>2, <1>13, <1>19, <2>2, <2>3 DEF HeldAsTold
  <2>5. RecordedOver(o2, u2, b, q, e)
    BY <1>2, <1>12, <1>21, <2>1 DEF RecordedOver
  <2> QED
    BY <2>4, <2>5 DEF FollowsAt
<1>23. CASE n \in T2
  <2>1. q = p /\ e \in TouchedBy(o2, p, op)
    BY <1>15, <1>23
  <2>2. \A x \in T : cs[x].trackName = t
    <3>1. \A x \in T : x \in T2 /\ cs2[x].trackName = cs[x].trackName
      BY <1>9, <1>13
    <3> QED
      BY <1>4, <1>8, <1>17, <1>23, <3>1
  <2>3. Anc(cs, c.parent) \cap T = Current(u) \cap T
    <3>1. CASE t \in DOMAIN u.tracks
      <4>1. \A x \in Touching(o, u.commands, q, e) : u.commands[x].trackName = t
        BY <1>1, <1>11, <2>2
      <4>2. Current(u) \cap Touching(o, u.commands, q, e)
              = Anc(u.commands, u.tracks[t].current) \cap Touching(o, u.commands, q, e)
        BY <3>1, <4>1, AppliedOfTrack
      <4> QED
        BY <1>1, <1>8, <1>11, <3>1, <4>2
    <3>2. CASE t \notin DOMAIN u.tracks
      <4>1. T = {}
        BY <1>7, <1>14, <2>2, <3>2
      <4> QED
        BY <4>1
    <3> QED
      BY <3>1, <3>2
  <2>4. Anc(cs2, n) \ {n} = Anc(cs, c.parent) /\ Anc(cs, c.parent) \subseteq 1 .. Len(cs)
    <3>1. Anc(cs, c.parent) \subseteq 1 .. Len(cs)
      <4>1. CASE c.parent = 0
        BY <1>7, <4>1, AncFacts
      <4>2. CASE c.parent # 0
        <5>1. c.parent \in 1 .. Len(cs)
          BY <1>7, <1>8, <4>2
        <5> QED
          BY <1>7, <5>1, AncFacts
      <4> QED
        BY <4>1, <4>2
    <3> QED
      BY <1>8, <1>16, <3>1
  <2>5. e \in Edits(o2, q, cs2[n].operation.old) <=> Tells(o2, cs2, b, q, e, Anc(cs2, n) \ {n})
    <3>1. PICK C : C = Anc(cs, c.parent)
      OBVIOUS
    <3>2. C \cap T2 = Current(u) \cap T
      BY <1>13, <2>3, <2>4, <3>1
    <3>3. Tells(o2, cs2, b, q, e, C) <=> Tells(o, cs, b, q, e, Current(u))
      BY <1>13, <3>2
    <3>4. e \in Edits(o2, q, op.old) <=> e \in Held(o, q)
      BY <1>20, <2>1
    <3> QED
      BY <1>5, <1>8, <1>19, <2>4, <3>1, <3>3, <3>4
  <2>6. RecordedOver(o2, u2, b, q, e)
    BY <1>2, <1>12, <1>14, <1>21, <2>5 DEF RecordedOver
  <2>7. HeldAsTold(o2, u2, b, q, e)
    <3>1. n \in Current(u2) \cap T2 /\ \A x \in Current(u2) \cap T2 : x <= n
      <4>1. \A x \in T2 : x <= n
        BY <1>3, <1>7, <1>14
      <4> QED
        BY <1>10, <1>23, <4>1
    <3>2. Tells(o2, cs2, b, q, e, Current(u2)) <=> Says(o2, cs2, q, e, n)
      <4>1. PICK C : C = Current(u2)
        OBVIOUS
      <4>2. /\ n \in C \cap Touching(o2, u2.commands, q, e)
            /\ \A x \in C \cap Touching(o2, u2.commands, q, e) : x <= n
        BY <1>2, <1>12, <3>1, <4>1
      <4>3. Tells(o2, u2.commands, b, q, e, C) <=> Says(o2, u2.commands, q, e, n)
        BY <4>2, LastTells
      <4> QED
        BY <1>2, <4>1, <4>3
    <3>3. Says(o2, cs2, q, e, n) <=> e \in Held(o2, q)
      BY <1>5, <1>8, <1>20, <2>1 DEF Says
    <3> QED
      BY <1>2, <3>2, <3>3 DEF HeldAsTold
  <2> QED
    BY <2>6, <2>7 DEF FollowsAt
<1> QED
  BY <1>22, <1>23

(* A step that records a commit keeps roots at what the tracks say.        *)
LEMMA RecordedKeepsFollows ==
  ASSUME UndoInv, Follows(objectStore, undoStore, baseline, interrupted),
         NEW i \in Track, NEW p \in PersistentRoot,
         NEW o2, Recordable(objectStore, p, o2), RecordedCommit(i, p, o2)
  PROVE  Follows(objectStore, undoStore, baseline, interrupted)'
<1>1. PICK o : o = objectStore
  OBVIOUS
<1>2. PICK u : u = undoStore
  OBVIOUS
<1>3. PICK u2 : u2 = undoStore'
  OBVIOUS
<1>4. PICK b : b = baseline
  OBVIOUS
<1>5. PICK I : I = interrupted
  OBVIOUS
<1>6. /\ UndoInv' /\ LastRevid(o2, p) <= MaxRevid
      /\ RecordsCommand(p, CommandFor(p, objectStore.rows[p], o2.rows[p]))
  BY RecordedKeeps
<1>7. /\ MayRecord(i) /\ objectStore' = o2 /\ baseline' = b /\ interrupted' = I
  BY <1>4, <1>5 DEF RecordedCommit, ghosts
<1>8. PICK c \in Command :
        /\ c.root = p /\ c.operation = CommandFor(p, o.rows[p], o2.rows[p])
        /\ c.parent = StateForTrackName(u, c.trackName).current
        /\ Recorded(u, c, u2)
  BY <1>1, <1>2, <1>3, <1>6 DEF RecordsCommand
<1>9. /\ ObjectsOK(o) /\ StoreOK(u) /\ CommandsFit(o, u) /\ Recordable(o, p, o2)
      /\ Len(u.commands) < MaxSequenceNumber
  BY <1>1, <1>2, <1>7 DEF UndoInv, StoresOK, MayRecord
<1>10. StoreOK(u2) /\ Grows(u, u2) /\ RecordedIs(u, c, u2)
  BY <1>8, <1>9, RecordedStore
<1>11. Follows(o, u, b, I)
  BY <1>1, <1>2, <1>4, <1>5
<1>12. Follows(o2, u2, b, I)
  BY <1>6, <1>8, <1>9, <1>10, <1>11, RecordedFollows
<1> QED
  BY <1>3, <1>7, <1>12

-----------------------------------------------------------------------------
(* Commits that are not recorded *)

(* Baselines that agree on an edit say the same of it.                     *)
LEMMA SameBaseline ==
  ASSUME NEW o, NEW u, NEW b, NEW b2, NEW p, NEW e, e \in b2[p] <=> e \in b[p],
         FollowsAt(o, u, b, p, e)
  PROVE  FollowsAt(o, u, b2, p, e)
<1>1. \A C : Tells(o, u.commands, b2, p, e, C) <=> Tells(o, u.commands, b, p, e, C)
  BY DEF Tells
<1>2. HeldAsTold(o, u, b, p, e) /\ RecordedOver(o, u, b, p, e)
  BY DEF FollowsAt
<1>3. HeldAsTold(o, u, b2, p, e)
  BY <1>1, <1>2 DEF HeldAsTold
<1>4. RecordedOver(o, u, b2, p, e)
  BY <1>1, <1>2 DEF RecordedOver
<1> QED
  BY <1>3, <1>4 DEF FollowsAt

(* No command touches an edit that no revision has.                        *)
LEMMA NewIsUntouched ==
  ASSUME NEW o, ObjectsOK(o), NEW u, StoreOK(u), CommandsFit(o, u), NEW p \in PersistentRoot,
         NEW e, e \notin 1 .. LastRevid(o, p)
  PROVE  Touching(o, u.commands, p, e) = {}
<1> SUFFICES ASSUME NEW c \in Touching(o, u.commands, p, e)
             PROVE  FALSE
  OBVIOUS
<1>1. /\ u.commands[c].operation.old \in 1 .. LastRevid(o, p)
      /\ u.commands[c].operation.new \in 1 .. LastRevid(o, p)
      /\ Says(o, u.commands, p, e, c) <=> e \notin Edits(o, p, u.commands[c].operation.old)
  BY TouchParts
<1>2. \A r \in 1 .. LastRevid(o, p) : Edits(o, p, r) \subseteq 1 .. LastRevid(o, p)
  BY ObjectParts
<1> QED
  BY <1>1, <1>2 DEF Says

(* A commit that no track hears of keeps roots at what the tracks say.     *)
LEMMA UnrecordedFollows ==
  ASSUME UndoInv, Follows(objectStore, undoStore, baseline, interrupted),
         NEW p \in PersistentRoot, CommitUnrecorded(p)
  PROVE  Follows(objectStore, undoStore, baseline, interrupted)'
<1>1. PICK o : o = objectStore
  OBVIOUS
<1>2. PICK u : u = undoStore
  OBVIOUS
<1>3. PICK b : b = baseline
  OBVIOUS
<1>4. PICK I : I = interrupted
  OBVIOUS
<1>5. PICK r : r = LastRevid(o, p) + 1
  OBVIOUS
<1>6. PICK o2 : o2 = NewEdit(o, p)
  OBVIOUS
<1>7. PICK b2 : b2 = [b EXCEPT ![p] = @ \cup {r}]
  OBVIOUS
<1>8. /\ objectStore' = o2 /\ undoStore' = u /\ interrupted' = I
      /\ baseline' = b2
  BY <1>1, <1>2, <1>3, <1>4, <1>5, <1>6, <1>7 DEF CommitUnrecorded
<1>9. /\ ObjectsOK(o) /\ StoreOK(u) /\ CommandsFit(o, u) /\ Follows(o, u, b, I)
      /\ b \in [PersistentRoot -> SUBSET Nat]
  BY <1>1, <1>2, <1>3, <1>4 DEF UndoInv, StoresOK
<1>10. Changed(o, p, o2) /\ Held(o2, p) = Held(o, p) \cup {r}
  BY <1>5, <1>6, <1>9, NewEditRecordable DEF Recordable
<1>11. ObjectsOK(o2) /\ Later(o, o2)
  BY <1>10 DEF Changed
<1>12. b2[p] = b[p] \cup {r} /\ \A q \in PersistentRoot \ {p} : b2[q] = b[q]
  BY <1>7, <1>9
<1>13. SUFFICES Follows(o2, u, b2, I)
  BY <1>8
<1> SUFFICES ASSUME NEW q \in PersistentRoot, NEW e \in Nat, Clean(o2, u.commands, I, q, e)
             PROVE  FollowsAt(o2, u, b2, q, e)
  BY DEF Follows
<1>14. Touching(o2, u.commands, q, e) = Touching(o, u.commands, q, e)
  BY <1>9, <1>11, LaterTouching
<1>15. FollowsAt(o, u, b, q, e)
  <2>1. e \notin o.misapplied[q]
    BY <1>11 DEF Later, Clean
  <2> QED
    BY <1>9, <1>14, <2>1 DEF Follows, Clean
<1>16. CASE ~ (q = p /\ e = r)
  <2>1. e \in b2[q] <=> e \in b[q]
    BY <1>12, <1>16
  <2>2. e \in Held(o2, q) <=> e \in Held(o, q)
    <3>1. CASE q = p
      BY <1>10, <1>16, <3>1
    <3>2. CASE q # p
      BY <1>10, <3>2, OtherHeld
    <3> QED
      BY <3>1, <3>2
  <2>3. FollowsAt(o, u, b2, q, e)
    BY <1>15, <2>1, SameBaseline
  <2> QED
    BY <1>9, <1>11, <2>2, <2>3, SameHeldFollows
<1>17. CASE q = p /\ e = r
  <2>1. e \notin 1 .. LastRevid(o, q)
    <3>1. LastRevid(o, p) \in Nat
      BY <1>9, ObjectParts
    <3> QED
      BY <1>5, <1>17, <3>1
  <2>2. Touching(o2, u.commands, q, e) = {}
    BY <1>9, <1>14, <2>1, NewIsUntouched
  <2>3. HeldAsTold(o2, u, b2, q, e)
    BY <1>10, <1>12, <1>17, <2>2 DEF HeldAsTold, Tells
  <2>4. RecordedOver(o2, u, b2, q, e)
    BY <2>2 DEF RecordedOver
  <2> QED
    BY <2>3, <2>4 DEF FollowsAt
<1> QED
  BY <1>16, <1>17

-----------------------------------------------------------------------------
(* The invariant *)

FollowsInv == UndoInv /\ Follows(objectStore, undoStore, baseline, interrupted)

(* Empty roots are what no commands say.                                   *)
LEMMA FollowsInit ==
  Init => FollowsInv
<1> SUFFICES ASSUME Init
             PROVE  FollowsInv
  OBVIOUS
<1>1. UndoInv
  BY UndoInit
<1>2. \A p \in PersistentRoot : Held(objectStore, p) = {} /\ baseline[p] = {}
  BY DEF Init, Held, Edits
<1>3. undoStore.commands = << >>
  BY DEF Init
<1>4. \A p \in PersistentRoot : \A e \in Nat :
        Touching(objectStore, undoStore.commands, p, e) = {}
  BY <1>3 DEF Touching
<1>5. \A p \in PersistentRoot : \A e \in Nat :
        FollowsAt(objectStore, undoStore, baseline, p, e)
  BY <1>2, <1>4 DEF FollowsAt, HeldAsTold, RecordedOver, Tells
<1> QED
  BY <1>1, <1>5 DEF FollowsInv, Follows

(* Every step keeps the invariant. *)
LEMMA FollowsNext ==
  FollowsInv /\ [Next]_vars => FollowsInv'
<1> DEFINE F == Follows(objectStore, undoStore, baseline, interrupted)
<1> SUFFICES ASSUME UndoInv, F, [Next]_vars
             PROVE  F'
  BY UndoNext DEF FollowsInv
<1>1. ObjectsOK(objectStore) /\ StoreOK(undoStore) /\ CommandsFit(objectStore, undoStore)
  BY DEF UndoInv, StoresOK
<1>2. ASSUME NEW p \in PersistentRoot, CommitUnrecorded(p)
      PROVE  F'
  BY <1>2, UnrecordedFollows
<1>3. ASSUME NEW i \in Track, NEW p \in PersistentRoot, Commit(i, p)
      PROVE  F'
  <2>1. PICK o2 : o2 = NewEdit(objectStore, p)
    OBVIOUS
  <2>2. Recordable(objectStore, p, o2)
    BY <1>1, <2>1, NewEditRecordable
  <2>3. RecordedCommit(i, p, o2)
    BY <1>3, <2>1 DEF Commit
  <2> QED
    BY <2>2, <2>3, RecordedKeepsFollows
<1>4. ASSUME NEW i \in Track, NEW p \in PersistentRoot, NEW r \in Revid, Revert(i, p, r)
      PROVE  F'
  <2>1. PICK o2 : o2 = AtRevision(objectStore, p, r)
    OBVIOUS
  <2>2. r \in 1 .. LastRevid(objectStore, p)
    BY <1>1, <1>4, ObjectParts DEF Revert
  <2>3. Changed(objectStore, p, o2) /\ o2.rows[p].deleted = objectStore.rows[p].deleted
    BY <1>1, <2>1, <2>2, AtRevisionChanges
  <2>4. RecordedCommit(i, p, o2)
    BY <1>4, <2>1 DEF Revert
  <2> QED
    BY <2>3, <2>4, RecordedKeepsFollows DEF Recordable
<1>5. ASSUME NEW i \in Track, NEW p \in PersistentRoot, NEW b \in BOOLEAN, SetDeleted(i, p, b)
      PROVE  F'
  <2>1. PICK o2 : o2 = [objectStore EXCEPT !.rows[p].deleted = b]
    OBVIOUS
  <2>2. DeletedSet(objectStore, p, b, o2)
    BY <2>1 DEF DeletedSet
  <2>3. Changed(objectStore, p, o2) /\ Held(o2, p) = Held(objectStore, p)
    BY <1>1, <2>2, DeletionChanges
  <2>4. RecordedCommit(i, p, o2)
    BY <1>5, <2>1 DEF SetDeleted
  <2> QED
    BY <2>3, <2>4, RecordedKeepsFollows DEF Recordable
<1>6. ASSUME NEW i \in Track, NEW c \in DOMAIN memory[i].parents,
             UndoNode(i, c) \/ RedoNode(i, c)
      PROVE  F'
  <2>1. c \in 1 .. Len(undoStore.commands)
    BY RememberedAreCommands
  <2>2. PICK p : p = undoStore.commands[c].root
    OBVIOUS
  <2>3. p \in PersistentRoot
    BY <1>1, <2>1, <2>2, StoreParts
  <2>4. PICK op : /\ op \in {undoStore.commands[c].operation,
                             Inversed(undoStore.commands[c].operation)}
                  /\ SelectiveApply(i, c, op)
    BY <1>6 DEF UndoNode, RedoNode
  <2>5. OpFits(objectStore, p, undoStore.commands[c].operation)
    BY <1>1, <2>1, <2>2 DEF CommandsFit
  <2>6. OpFits(objectStore, p, op)
    BY <2>4, <2>5, InverseFits
  <2>7. PICK o2 : o2 = AppliedToContext(objectStore, p, op)
    OBVIOUS
  <2>8. Recordable(objectStore, p, o2)
    BY <1>1, <2>3, <2>6, <2>7, AppliedToContextRecordable
  <2>9. RecordedCommit(i, p, o2)
    BY <2>2, <2>4, <2>7 DEF SelectiveApply
  <2> QED
    BY <2>3, <2>8, <2>9, RecordedKeepsFollows
<1>7. ASSUME NEW i \in Track, NEW n \in {0} \cup DOMAIN memory[i].parents,
             SetCurrentNode(i, n)
      PROVE  F'
  BY <1>7, MoveKeepsFollows
<1>8. CASE UNCHANGED vars
  BY <1>8 DEF vars, ghosts
<1> QED
  BY <1>2, <1>3, <1>4, <1>5, <1>6, <1>7, <1>8 DEF Next, Placeholder

(* What a root holds, and what each command was recorded over, is what the *)
(* tracks say of every edit that no crash and no second track is about.    *)
THEOREM FollowsInvariant == Spec => []FollowsInv
BY FollowsInit, FollowsNext, PTL DEF Spec

(* The edits after the applied commands are those that they tell.          *)
LEMMA EditsAfterTell ==
  ASSUME NEW o, NEW u, NEW C, C \subseteq 1 .. Len(u.commands), NEW p, NEW e
  PROVE  e \in EditsAfter(o, u, C, p) <=> Tells(o, u.commands, baseline, p, e, C)
<1> DEFINE S == C \cap Touching(o, u.commands, p, e)
<1>1. {c \in CommandsOn(u, C, p) : e \in TouchedBy(o, p, u.commands[c].operation)} = S
  BY DEF CommandsOn, Touching
<1>2. e \in Touched(o, u, C, p) <=> S # {}
  BY <1>1 DEF Touched
<1>3. e \in EditsAfter(o, u, C, p)
        <=> \/ e \in baseline[p] /\ e \notin Touched(o, u, C, p)
            \/ e \in Touched(o, u, C, p) /\ e \in Edits(o, p, u.commands[Max(S)].operation.new)
  BY <1>1 DEF EditsAfter
<1> QED
  BY <1>2, <1>3 DEF Tells, Says

(* The property follows.                                                   *)
LEMMA RootsFollow ==
  FollowsInv => StoreFollowsTracks
<1> SUFFICES ASSUME FollowsInv, NEW p \in PersistentRoot
             PROVE  Astray(p) \subseteq objectStore.misapplied[p]
  BY DEF StoreFollowsTracks
<1>1. PICK o : o = objectStore
  OBVIOUS
<1>2. PICK u : u = undoStore
  OBVIOUS
<1>3. PICK C : C = Current(u)
  OBVIOUS
<1>4. ObjectsOK(o) /\ StoreOK(u) /\ CommandsFit(o, u) /\ Follows(o, u, baseline, interrupted)
  BY <1>1, <1>2 DEF FollowsInv, UndoInv, StoresOK
<1>5. /\ Ordered(u.commands) /\ LiveRows(u) = 1 .. Len(u.commands)
      /\ Len(u.commands) \in Nat /\ DOMAIN u.commands = 1 .. Len(u.commands)
  BY <1>4, StoreParts, CommandTree
<1>6. C \subseteq 1 .. Len(u.commands)
  BY <1>3, <1>4, CurrentParts
<1>7. AppliedCommands(u) \cap LiveRows(u) = C
  <2>1. AppliedCommands(u) = C
    BY <1>3, <1>5, AncestorsAreAnc DEF AppliedCommands, Current, AppliedOn
  <2> QED
    BY <1>5, <1>6, <2>1
<1> SUFFICES ASSUME NEW e \in SymDiff(Held(o, p), EditsAfter(o, u, C, p)),
                    e \notin Touched(o, u, interrupted, p), e \notin o.misapplied[p]
             PROVE  e \in Contested(p)
  BY <1>1, <1>2, <1>7 DEF Held, Astray
<1>8. ~ (e \in Held(o, p) <=> Tells(o, u.commands, baseline, p, e, C))
  BY <1>6, EditsAfterTell DEF SymDiff
<1>9. e \in 1 .. LastRevid(o, p)
  <2>1. /\ Held(o, p) \subseteq 1 .. LastRevid(o, p)
        /\ \A r \in 1 .. LastRevid(o, p) : Edits(o, p, r) \subseteq 1 .. LastRevid(o, p)
    BY <1>4, ObjectParts DEF Held
  <2>2. baseline[p] \subseteq 1 .. LastRevid(o, p)
    BY <1>1 DEF FollowsInv, UndoInv
  <2>3. CASE Touching(o, u.commands, p, e) = {}
    BY <1>8, <2>1, <2>2, <2>3 DEF Tells
  <2>4. CASE Touching(o, u.commands, p, e) # {}
    BY <1>4, <2>4, NewIsUntouched
  <2> QED
    BY <2>3, <2>4
<1>10. e \in Revid /\ e \in Nat
  <2>1. LastRevid(o, p) \in Nat /\ LastRevid(o, p) <= MaxRevid
    BY <1>1, <1>4, ObjectParts DEF FollowsInv, UndoInv
  <2> QED
    BY <1>9, <2>1, UndoTrackAssumption DEF Revid
<1>11. ~ Clean(o, u.commands, interrupted, p, e)
  BY <1>3, <1>4, <1>8, <1>10 DEF Follows, FollowsAt, HeldAsTold
<1>12. interrupted \cap Touching(o, u.commands, p, e) = {}
  BY DEF Touched, CommandsOn, Touching
<1>13. PICK c, d \in Touching(o, u.commands, p, e) :
         u.commands[c].trackName # u.commands[d].trackName
  BY <1>11, <1>12 DEF Clean
<1>14. Unordered(c, d)
  BY <1>2, <1>13 DEF Unordered
<1>15. /\ c \in DOMAIN u.commands /\ u.commands[c].root = p
       /\ d \in DOMAIN u.commands /\ u.commands[d].root = p
       /\ e \in TouchedBy(o, p, u.commands[c].operation)
       /\ e \in TouchedBy(o, p, u.commands[d].operation)
  BY <1>5 DEF Touching
<1> DEFINE on == CommandsOn(undoStore, DOMAIN undoStore.commands, p)
           touched(x) == TouchedBy(objectStore, p, undoStore.commands[x].operation)
           pairs == {q \in on \X on : Unordered(q[1], q[2])}
<1>16. c \in on /\ d \in on
  BY <1>2, <1>15 DEF CommandsOn
<1>17. <<c, d>> \in pairs
  BY <1>14, <1>16
<1>18. e \in touched(c) \cap touched(d)
  BY <1>1, <1>2, <1>15
<1>19. e \in UNION {touched(q[1]) \cap touched(q[2]) : q \in pairs}
  BY <1>17, <1>18
<1> QED
  BY <1>19 DEF Contested

(* Roots hold what the undo tracks say, whichever commands are undone and  *)
(* redone, in whatever order, on whichever tracks and patterns, beside     *)
(* commits no track knows, and after crashes between the two databases,    *)
(* but for the edits that a move misapplied, which OneMergeIsAlwaysRight   *)
(* below confines to moves that merge into one root again.                 *)
THEOREM StoreAlwaysFollowsTracks == Spec => []StoreFollowsTracks
BY FollowsInvariant, RootsFollow, PTL

-----------------------------------------------------------------------------
(* Only second merges go wrong *)

(* Without compactions, every revision stays in the store. *)
Complete(o) == \A p \in PersistentRoot : o.stored[p] = 1 .. LastRevid(o, p)

(* A revision is written, or no revision and no merge is. *)
Recording(o, o2) ==
  \/ \E p \in PersistentRoot : \E edits : o2 = WriteRevision(o, p, edits)
  \/ /\ o2.stored = o.stored /\ o2.revisions = o.revisions
     /\ o2.misapplied = o.misapplied

(* The parts of a store with a revision more.                              *)
LEMMA WrittenParts ==
  ASSUME NEW o, ObjectsOK(o), NEW p \in PersistentRoot, NEW edits,
         NEW o2, o2 = WriteRevision(o, p, edits)
  PROVE  /\ o2.misapplied = o.misapplied
         /\ LastRevid(o2, p) = LastRevid(o, p) + 1
         /\ o2.stored[p] = o.stored[p] \cup {LastRevid(o, p) + 1}
         /\ o2.rows[p].current = LastRevid(o, p) + 1
         /\ \A q \in PersistentRoot \ {p} :
              /\ LastRevid(o2, q) = LastRevid(o, q) /\ o2.stored[q] = o.stored[q]
              /\ o2.rows[q] = o.rows[q]
         /\ o2 = [rows |-> o2.rows, revisions |-> o2.revisions, stored |-> o2.stored,
                  misapplied |-> o2.misapplied]
         /\ DOMAIN o2.misapplied = PersistentRoot
<1> DEFINE r == LastRevid(o, p) + 1
           rev == [parent |-> o.rows[p].current, edits |-> edits]
           row == [o.rows[p] EXCEPT !.current = r, !.head = r]
<1>1. /\ o.rows[p] \in [current : Nat, head : Nat, deleted : BOOLEAN]
      /\ o.revisions[p] \in Seq([parent : Nat, edits : SUBSET Nat])
  BY ObjectParts
<1>2. row.current = r
  <2> HIDE DEF r
  <2> QED
    BY <1>1
<1>3. Len(Append(o.revisions[p], rev)) = r
  <2> HIDE DEF rev
  <2> QED
    BY <1>1 DEF LastRevid
<1>4. /\ o2.rows = [o.rows EXCEPT ![p] = row]
      /\ o2.revisions = [o.revisions EXCEPT ![p] = Append(o.revisions[p], rev)]
      /\ o2.stored = [o.stored EXCEPT ![p] = o.stored[p] \cup {r}]
      /\ o2.misapplied = o.misapplied
      /\ o2 = [rows |-> o2.rows, revisions |-> o2.revisions, stored |-> o2.stored,
               misapplied |-> o2.misapplied]
  BY DEF WriteRevision, ObjectsOK
<1> HIDE DEF r, rev, row
<1>5. /\ DOMAIN o.rows = PersistentRoot /\ DOMAIN o.revisions = PersistentRoot
      /\ DOMAIN o.stored = PersistentRoot /\ DOMAIN o.misapplied = PersistentRoot
  BY DEF ObjectsOK
<1>6. /\ o2.rows[p] = row /\ o2.revisions[p] = Append(o.revisions[p], rev)
      /\ o2.stored[p] = o.stored[p] \cup {r}
      /\ \A q \in PersistentRoot \ {p} :
           /\ o2.rows[q] = o.rows[q] /\ o2.revisions[q] = o.revisions[q]
           /\ o2.stored[q] = o.stored[q]
  BY <1>4, <1>5
<1> QED
  BY <1>2, <1>3, <1>4, <1>5, <1>6 DEF LastRevid, r

(* A commit leaves a complete store complete, and misapplies nothing.      *)
LEMMA RecordingCompletes ==
  ASSUME NEW o, ObjectsOK(o), Complete(o), NEW o2, Recording(o, o2)
  PROVE  Complete(o2) /\ o2.misapplied = o.misapplied
<1>1. CASE \E p \in PersistentRoot : \E edits : o2 = WriteRevision(o, p, edits)
  <2>1. PICK p \in PersistentRoot : \E edits : o2 = WriteRevision(o, p, edits)
    BY <1>1
  <2>2. PICK edits : o2 = WriteRevision(o, p, edits)
    BY <2>1
  <2>3. /\ o2.misapplied = o.misapplied
        /\ LastRevid(o2, p) = LastRevid(o, p) + 1
        /\ o2.stored[p] = o.stored[p] \cup {LastRevid(o, p) + 1}
        /\ \A q \in PersistentRoot \ {p} :
             LastRevid(o2, q) = LastRevid(o, q) /\ o2.stored[q] = o.stored[q]
    BY <2>2, WrittenParts
  <2>4. o2.stored[p] = 1 .. LastRevid(o2, p)
    <3>1. PICK n : n = LastRevid(o, p)
      OBVIOUS
    <3>2. n \in Nat /\ o.stored[p] = 1 .. n
      BY <3>1, ObjectParts DEF Complete
    <3>3. (1 .. n) \cup {n + 1} = 1 .. n + 1
      BY <3>2
    <3> QED
      BY <2>3, <3>1, <3>2, <3>3
  <2> QED
    BY <2>3, <2>4 DEF Complete
<1>2. CASE /\ o2.stored = o.stored /\ o2.revisions = o.revisions
           /\ o2.misapplied = o.misapplied
  BY <1>2 DEF Complete, LastRevid
<1> QED
  BY <1>1, <1>2 DEF Recording

(* Everything but moves is such a commit.                                  *)
LEMMA CommitsRecord ==
  ASSUME ObjectsOK(objectStore)
  PROVE  /\ \A p \in PersistentRoot : CommitUnrecorded(p) => Recording(objectStore, objectStore')
         /\ \A i \in Track : \A p \in PersistentRoot :
              /\ Commit(i, p) => Recording(objectStore, objectStore')
              /\ \A r \in Revid : Revert(i, p, r) => Recording(objectStore, objectStore')
              /\ \A b \in BOOLEAN : SetDeleted(i, p, b) => Recording(objectStore, objectStore')
         /\ \A i \in Track : \A c, op :
              undoStore.commands[c].root \in PersistentRoot /\ SelectiveApply(i, c, op)
                => Recording(objectStore, objectStore')
<1>0. PICK o : o = objectStore
  OBVIOUS
<1>1. \A p \in PersistentRoot : Recording(o, NewEdit(o, p))
  BY DEF NewEdit, Recording
<1>2. \A p, row, o2 : RowSet(o, p, row, o2) => Recording(o, o2)
  BY <1>0 DEF Recording, ObjectsOK, RowSet
<1>3. \A p, r : Recording(o, AtRevision(o, p, r))
  <2> TAKE p, r
  <2>1. PICK row : row = [o.rows[p] EXCEPT !.current = r,
                            !.head = IF IsEqualToOrParent(o, p, r, o.rows[p].head)
                                     THEN o.rows[p].head ELSE r]
    OBVIOUS
  <2>2. RowSet(o, p, row, AtRevision(o, p, r))
    BY <2>1 DEF AtRevision, RowSet
  <2> QED
    BY <1>2, <2>2
<1>4. ASSUME NEW p, NEW b
      PROVE  Recording(o, [o EXCEPT !.rows[p].deleted = b])
  <2>1. PICK row : row = [o.rows[p] EXCEPT !.deleted = b]
    OBVIOUS
  <2>2. RowSet(o, p, row, [o EXCEPT !.rows[p].deleted = b])
    BY <2>1 DEF RowSet
  <2> QED
    BY <1>2, <2>2
<1>5. ASSUME NEW p \in PersistentRoot, NEW op
      PROVE  Recording(o, AppliedToContext(o, p, op))
  <2>1. PICK o2 : o2 = AppliedToContext(o, p, op)
    OBVIOUS
  <2>2. CASE op.kind # "set"
    <3>1. o2 = [o EXCEPT !.rows[p].deleted = (op.kind = "delete")]
      BY <2>1, <2>2 DEF AppliedToContext
    <3> QED
      BY <1>4, <2>1, <3>1
  <2>3. CASE op.kind = "set" /\ o.rows[p].current = op.old /\ KeepsHead(o, p, op)
    <3>1. o2 = AtRevision(o, p, op.new)
      BY <2>1, <2>3 DEF AppliedToContext
    <3> QED
      BY <1>3, <2>1, <3>1
  <2>4. CASE op.kind = "set" /\ o.rows[p].current = op.old /\ ~ KeepsHead(o, p, op)
    <3>1. PICK row : row = [o.rows[p] EXCEPT !.current = op.new, !.head = op.newHead]
      OBVIOUS
    <3>2. RowSet(o, p, row, o2)
      BY <2>1, <2>4, <3>1 DEF AppliedToContext, RowSet
    <3> QED
      BY <1>2, <2>1, <3>2
  <2>5. CASE op.kind = "set" /\ o.rows[p].current # op.old
    <3>1. PICK edits : edits = SelectivelyApplied(o, p, op)
      OBVIOUS
    <3>2. o2 = o \/ o2 = WriteRevision(o, p, edits)
      BY <2>1, <2>5, <3>1 DEF AppliedToContext
    <3>3. Recording(o, o2)
      BY ONLY p \in PersistentRoot, <3>2 DEF Recording
    <3> QED
      BY <2>1, <3>3
  <2> QED
    BY <2>2, <2>3, <2>4, <2>5
<1>6. \A i, p, o2 : RecordedCommit(i, p, o2) => objectStore' = o2
  BY DEF RecordedCommit
<1>7. \A p \in PersistentRoot : CommitUnrecorded(p) => Recording(objectStore, objectStore')
  BY <1>0, <1>1 DEF CommitUnrecorded
<1>8. \A i \in Track : \A p \in PersistentRoot :
        Commit(i, p) => Recording(objectStore, objectStore')
  BY <1>0, <1>1, <1>6 DEF Commit
<1>9. \A i \in Track : \A p \in PersistentRoot : \A r \in Revid :
        Revert(i, p, r) => Recording(objectStore, objectStore')
  BY <1>0, <1>3, <1>6 DEF Revert
<1>10. \A i \in Track : \A p \in PersistentRoot : \A b \in BOOLEAN :
         SetDeleted(i, p, b) => Recording(objectStore, objectStore')
  BY <1>0, <1>4, <1>6 DEF SetDeleted
<1>11. \A i \in Track : \A c, op :
         undoStore.commands[c].root \in PersistentRoot /\ SelectiveApply(i, c, op)
           => Recording(objectStore, objectStore')
  BY <1>0, <1>5, <1>6 DEF SelectiveApply
<1> QED
  BY <1>7, <1>8, <1>9, <1>10, <1>11

(* How far a move came from the store b: a root's current revision is one  *)
(* of b's or the move's own, and what the move misapplied it wrote twice.  *)
RootWalked(b, o, q) ==
  /\ o.stored[q] = 1 .. LastRevid(o, q)
  /\ LastRevid(b, q) <= LastRevid(o, q)
  /\ \/ o.rows[q].current \in b.stored[q]
     \/ LastRevid(o, q) >= LastRevid(b, q) + 1
  /\ \/ o.misapplied[q] = b.misapplied[q]
     \/ LastRevid(o, q) >= LastRevid(b, q) + 2

Walked(b, o) == \A q \in PersistentRoot : RootWalked(b, o, q)

(* A row that is set, to a revision of b.                                  *)
LEMMA RowWalks ==
  ASSUME NEW b, NEW o, ObjectsOK(o), Walked(b, o), NEW p \in PersistentRoot, NEW row,
         row.current \in b.stored[p] \cup {o.rows[p].current},
         NEW o2, RowSet(o, p, row, o2)
  PROVE  Walked(b, o2)
<1>1. /\ o2.rows[p] = row /\ \A q \in PersistentRoot \ {p} : o2.rows[q] = o.rows[q]
      /\ o2.revisions = o.revisions /\ o2.stored = o.stored /\ o2.misapplied = o.misapplied
  BY DEF RowSet, ObjectsOK
<1>2. ASSUME NEW q \in PersistentRoot
      PROVE  RootWalked(b, o2, q)
  <2>1. RootWalked(b, o, q)
    BY DEF Walked
  <2>2. LastRevid(o2, q) = LastRevid(o, q)
    BY <1>1 DEF LastRevid
  <2>3. o2.rows[q].current \in b.stored[q] \cup {o.rows[q].current}
    BY <1>1
  <2> QED
    BY <1>1, <2>1, <2>2, <2>3 DEF RootWalked
<1> QED
  BY <1>2 DEF Walked

(* A merge: right the first time.                                          *)
LEMMA MergeWalks ==
  ASSUME ObjectsOK(objectStore), NEW o, ObjectsOK(o), Walked(objectStore, o),
         NEW p \in PersistentRoot, NEW op, NEW o2, o2 = WriteMerge(o, p, op)
  PROVE  Walked(objectStore, o2)
<1>1. PICK merged : merged = Merged(o, p, op)
  OBVIOUS
<1>2. PICK E : E = SymDiff(merged, SelectivelyApplied(o, p, op))
  OBVIOUS
<1>3. PICK w : w = WriteRevision(o, p, merged)
  OBVIOUS
<1>4. MisappliedSet(w, p, E, o2)
  BY <1>1, <1>2, <1>3 DEF WriteMerge, MisappliedSet
<1>5. /\ w.misapplied = o.misapplied
      /\ LastRevid(w, p) = LastRevid(o, p) + 1
      /\ w.stored[p] = o.stored[p] \cup {LastRevid(o, p) + 1}
      /\ w.rows[p].current = LastRevid(o, p) + 1
      /\ \A q \in PersistentRoot \ {p} :
           /\ LastRevid(w, q) = LastRevid(o, q) /\ w.stored[q] = o.stored[q]
           /\ w.rows[q] = o.rows[q]
      /\ w = [rows |-> w.rows, revisions |-> w.revisions, stored |-> w.stored,
              misapplied |-> w.misapplied]
      /\ DOMAIN w.misapplied = PersistentRoot
  BY <1>3, WrittenParts
<1>6. /\ o2.rows = w.rows /\ o2.revisions = w.revisions /\ o2.stored = w.stored
      /\ o2.misapplied[p] = o.misapplied[p] \cup E
      /\ \A q \in PersistentRoot \ {p} : o2.misapplied[q] = o.misapplied[q]
  BY <1>4, <1>5 DEF MisappliedSet
<1>7. \A q \in PersistentRoot : LastRevid(o2, q) = LastRevid(w, q)
  BY <1>6 DEF LastRevid
<1>8. o.rows[p].current \in objectStore.stored[p] => E = {}
  BY <1>1, <1>2 DEF Merged, SymDiff
<1>9. PICK n : n = LastRevid(o, p)
  OBVIOUS
<1>10. PICK base : base = LastRevid(objectStore, p)
  OBVIOUS
<1>11. n \in Nat /\ base \in Nat
  BY <1>9, <1>10, ObjectParts
<1>12. /\ o.stored[p] = 1 .. n /\ base <= n
       /\ o.rows[p].current \in objectStore.stored[p] \/ n >= base + 1
       /\ o.misapplied[p] = objectStore.misapplied[p] \/ n >= base + 2
  BY <1>9, <1>10 DEF Walked, RootWalked
<1>13. /\ 1 .. n \cup {n + 1} = 1 .. n + 1 /\ base <= n + 1 /\ n + 1 >= base + 1
       /\ n >= base + 1 => n + 1 >= base + 2
       /\ n >= base + 2 => n + 1 >= base + 2
  BY <1>11, <1>12
<1>14. LastRevid(o2, p) = n + 1 /\ o2.stored[p] = 1 .. n + 1
  BY <1>5, <1>6, <1>7, <1>9, <1>12, <1>13
<1>15. o2.misapplied[p] = objectStore.misapplied[p] \/ n + 1 >= base + 2
  <2>1. CASE o.rows[p].current \in objectStore.stored[p]
    BY <1>6, <1>8, <1>12, <1>13, <2>1
  <2>2. CASE o.rows[p].current \notin objectStore.stored[p]
    BY <1>12, <1>13, <2>2
  <2> QED
    BY <2>1, <2>2
<1>16. RootWalked(objectStore, o2, p)
  BY <1>10, <1>13, <1>14, <1>15 DEF RootWalked
<1>17. ASSUME NEW q \in PersistentRoot \ {p}
       PROVE  RootWalked(objectStore, o2, q)
  <2>1. RootWalked(objectStore, o, q)
    BY DEF Walked
  <2>2. /\ LastRevid(o2, q) = LastRevid(o, q) /\ o2.stored[q] = o.stored[q]
        /\ o2.rows[q] = o.rows[q] /\ o2.misapplied[q] = o.misapplied[q]
    BY <1>5, <1>6, <1>7
  <2> QED
    BY <2>1, <2>2 DEF RootWalked
<1> QED
  BY <1>16, <1>17 DEF Walked

(* An operation of the transaction, whose revisions the store has.         *)
LEMMA OperationWalks ==
  ASSUME ObjectsOK(objectStore), Complete(objectStore),
         NEW o, ObjectsOK(o), Walked(objectStore, o),
         NEW p \in PersistentRoot, NEW op, OpFits(objectStore, p, op),
         NEW o2, o2 = AddToStoreTransaction(o, p, op)
  PROVE  Walked(objectStore, o2)
<1>1. o.rows[p] \in [current : Nat, head : Nat, deleted : BOOLEAN]
  BY ObjectParts
<1>2. CASE op.kind # "set"
  <2>1. PICK row : row = [o.rows[p] EXCEPT !.deleted = (op.kind = "delete")]
    OBVIOUS
  <2>2. RowSet(o, p, row, o2)
    BY <1>2, <2>1 DEF AddToStoreTransaction, RowSet
  <2>3. row.current = o.rows[p].current
    BY <1>1, <2>1
  <2> QED
    BY <2>2, <2>3, RowWalks
<1>3. CASE op.kind = "set" /\ o.rows[p].current = op.old
  <2>1. PICK h : h = IF KeepsHead(o, p, op) THEN o.rows[p].head ELSE op.newHead
    OBVIOUS
  <2>2. PICK row : row = [o.rows[p] EXCEPT !.current = op.new, !.head = h]
    OBVIOUS
  <2>3. RowSet(o, p, row, o2)
    BY <1>3, <2>1, <2>2 DEF AddToStoreTransaction, RowSet
  <2>4. row.current = op.new
    BY <1>1, <2>2
  <2>5. op.new \in objectStore.stored[p]
    BY <1>3 DEF OpFits, Complete
  <2> QED
    BY <2>3, <2>4, <2>5, RowWalks
<1>4. CASE op.kind = "set" /\ o.rows[p].current # op.old
  <2>1. o2 = WriteMerge(o, p, op)
    BY <1>4 DEF AddToStoreTransaction
  <2> QED
    BY <2>1, MergeWalks
<1> QED
  BY <1>2, <1>3, <1>4

(* A whole move.                                                           *)
LEMMA MoveWalks ==
  ASSUME StoresOK, Complete(objectStore), NEW i \in Track, NEW steps, StepsOK(i, steps),
         NEW f, f = DoneAfter(i, steps)
  PROVE  Walked(objectStore, f[Len(steps)].o)
<1> DEFINE P(z) == Walked(objectStore, f[z].o)
<1>1. Len(steps) \in Nat
  BY DEF StepsOK
<1>2. P(0)
  <2>1. f[0] = StartOfMove(i)
    BY <1>1, DoneSteps
  <2>2. f[0].o = objectStore
    BY <2>1 DEF StartOfMove
  <2>3. ASSUME NEW q \in PersistentRoot
        PROVE  RootWalked(objectStore, objectStore, q)
    <3>1. PICK n : n = LastRevid(objectStore, q)
      OBVIOUS
    <3>2. n \in Nat /\ objectStore.rows[q].current \in 1 .. n
      BY <3>1, ObjectParts DEF StoresOK
    <3>3. objectStore.stored[q] = 1 .. n /\ n <= n
      BY <3>1, <3>2 DEF Complete
    <3> QED
      BY <3>1, <3>2, <3>3 DEF RootWalked
  <2> QED
    BY <2>2, <2>3 DEF Walked
<1>3. ASSUME NEW z \in 1 .. Len(steps), P(z - 1)
      PROVE  P(z)
  <2>1. z - 1 \in 0 .. Len(steps)
    BY <1>1
  <2>2. PICK step : step = steps[z]
    OBVIOUS
  <2>3. PICK d : d = f[z - 1]
    OBVIOUS
  <2>4. PICK d2 : d2 = f[z]
    OBVIOUS
  <2>5. AfterSteps(i, steps, z - 1, d) /\ Stepped(d, step, d2)
    BY <2>1, <2>2, <2>3, <2>4, MoveSteps
  <2>6. ObjectsOK(d.o) /\ d.u.commands = undoStore.commands
    BY <2>5 DEF AfterSteps, MoveOK
  <2>7. step.command \in 1 .. Len(undoStore.commands)
    BY <2>2 DEF StoresOK, StepsOK, StepOK, AllShow, Shows, Remembers, KnowsParents
  <2>8. PICK c : c = undoStore.commands[step.command]
    OBVIOUS
  <2>9. PICK op : op = StepOperation(undoStore.commands, step)
    OBVIOUS
  <2>10. c.root \in PersistentRoot /\ OpFits(objectStore, c.root, c.operation)
    BY <2>7, <2>8, StoreParts DEF StoresOK, CommandsFit
  <2>11. OpFits(objectStore, c.root, op)
    <3>1. op = c.operation \/ op = Inversed(c.operation)
      BY <2>8, <2>9 DEF StepOperation
    <3> QED
      BY <2>10, <3>1, InverseFits
  <2>12. d2.o = AddToStoreTransaction(d.o, c.root, op)
    BY <2>5, <2>6, <2>8, <2>9 DEF Stepped
  <2>13. Walked(objectStore, d.o)
    BY <1>3, <2>3
  <2>14. Walked(objectStore, d2.o)
    <3>1. ObjectsOK(objectStore)
      BY DEF StoresOK
    <3> QED
      BY ONLY <3>1, <2>6, <2>10, <2>11, <2>12, <2>13, Complete(objectStore), OperationWalks
  <2> QED
    BY <2>4, <2>14
<1> SUFFICES P(Len(steps))
  OBVIOUS
<1> HIDE DEF P
<1>4. SUFFICES ASSUME ~ P(Len(steps))
               PROVE  FALSE
  OBVIOUS
<1>5. PICK S : S = {z \in 0 .. Len(steps) : ~ P(z)}
  OBVIOUS
<1>6. S \in SUBSET Nat /\ S # {}
  BY <1>1, <1>4, <1>5
<1>7. PICK z \in S : \A w \in S : z <= w
  BY <1>6, LeastNumber
<1>8. z \in 0 .. Len(steps) /\ ~ P(z) /\ z # 0
  BY <1>2, <1>5, <1>7
<1>9. z \in 1 .. Len(steps) /\ z - 1 \in 0 .. Len(steps) /\ ~ (z <= z - 1)
  BY <1>1, <1>8
<1>10. P(z - 1)
  BY <1>5, <1>7, <1>9
<1> QED
  BY <1>3, <1>8, <1>9, <1>10

(* A move leaves the store complete, and misapplies nothing the first time. *)
LEMMA MovesMisapply ==
  ASSUME UndoInv, Complete(objectStore),
         NEW i \in Track, NEW n \in {0} \cup DOMAIN memory[i].parents, SetCurrentNode(i, n)
  PROVE  Walked(objectStore, objectStore')
<1>1. StoresOK
  BY DEF UndoInv
<1>2. PICK steps : steps = StepsTo(memory[i], undoStore, n)
  OBVIOUS
<1>3. PICK f : f = DoneAfter(i, steps)
  OBVIOUS
<1>4. PICK d : d = f[Len(steps)]
  OBVIOUS
<1>5. StepsOK(i, steps) /\ objectStore' = d.o
  BY <1>1, <1>2, <1>3, <1>4, MoveCommits
<1> QED
  BY <1>1, <1>3, <1>4, <1>5, MoveWalks

(* Every action records a commit or is a move.                             *)
LEMMA RecordsOrMoves ==
  ASSUME UndoInv, [Next]_vars
  PROVE  \/ Recording(objectStore, objectStore')
         \/ \E i \in Track : \E n \in {0} \cup DOMAIN memory[i].parents : SetCurrentNode(i, n)
<1>1. ObjectsOK(objectStore) /\ StoreOK(undoStore)
  BY DEF UndoInv, StoresOK
<1>2. ASSUME NEW i \in Track, NEW c \in DOMAIN memory[i].parents,
             UndoNode(i, c) \/ RedoNode(i, c)
      PROVE  Recording(objectStore, objectStore')
  <2>1. PICK op : SelectiveApply(i, c, op)
    BY <1>2 DEF UndoNode, RedoNode
  <2>2. undoStore.commands[c].root \in PersistentRoot
    BY <1>1, RememberedAreCommands, StoreParts
  <2> QED
    BY <1>1, <2>1, <2>2, CommitsRecord
<1>3. CASE UNCHANGED vars
  BY <1>3 DEF vars, Recording
<1>4. CASE \E p \in PersistentRoot : CommitUnrecorded(p)
  BY <1>1, <1>4, CommitsRecord
<1>5. CASE \E i \in Track : \E p \in PersistentRoot :
             \/ Commit(i, p)
             \/ \E r \in Revid : Revert(i, p, r)
             \/ \E b \in BOOLEAN : SetDeleted(i, p, b)
  BY <1>1, <1>5, CommitsRecord
<1> QED
  BY <1>2, <1>3, <1>4, <1>5 DEF Next, Placeholder

CompleteInv == UndoInv /\ Complete(objectStore)

(* No action takes a revision out of the store.                            *)
LEMMA CompleteNext ==
  CompleteInv /\ [Next]_vars => CompleteInv'
<1> SUFFICES ASSUME UndoInv, Complete(objectStore), [Next]_vars
             PROVE  Complete(objectStore')
  BY UndoNext DEF CompleteInv
<1>1. ObjectsOK(objectStore)
  BY DEF UndoInv, StoresOK
<1>2. CASE Recording(objectStore, objectStore')
  BY <1>1, <1>2, RecordingCompletes
<1>3. ASSUME NEW i \in Track, NEW n \in {0} \cup DOMAIN memory[i].parents, SetCurrentNode(i, n)
      PROVE  Complete(objectStore')
  BY <1>3, MovesMisapply DEF Walked, RootWalked, Complete
<1> QED
  BY <1>2, <1>3, RecordsOrMoves

(* The store begins with every revision there is.                          *)
LEMMA CompleteInit ==
  Init => CompleteInv
<1> SUFFICES ASSUME Init
             PROVE  Complete(objectStore)
  BY UndoInit DEF CompleteInv
<1> QED
  BY DEF Init, Complete, LastRevid

(* No action misapplies edits with the first merge into a root.            *)
LEMMA OneMergeStep ==
  ASSUME CompleteInv, [Next]_vars
  PROVE  [\A p \in PersistentRoot :
            objectStore'.misapplied[p] # objectStore.misapplied[p]
              => LastRevid(objectStore', p) >= LastRevid(objectStore, p) + 2]_vars
<1>1. UndoInv /\ Complete(objectStore) /\ ObjectsOK(objectStore)
  BY DEF CompleteInv, UndoInv, StoresOK
<1>2. CASE Recording(objectStore, objectStore')
  BY <1>1, <1>2, RecordingCompletes
<1>3. ASSUME NEW i \in Track, NEW n \in {0} \cup DOMAIN memory[i].parents, SetCurrentNode(i, n)
      PROVE  \A p \in PersistentRoot :
               objectStore'.misapplied[p] # objectStore.misapplied[p]
                 => LastRevid(objectStore', p) >= LastRevid(objectStore, p) + 2
  BY <1>1, <1>3, MovesMisapply DEF Walked, RootWalked
<1> QED
  BY <1>1, <1>2, <1>3, RecordsOrMoves

(* A merge misapplies edits only when the same move merged into the root   *)
(* before: one merge per root and move keeps everybody's changes.          *)
THEOREM OneMergeIsAlwaysRight == Spec => OneMergeIsRight
BY CompleteInit, CompleteNext, OneMergeStep, PTL DEF Spec, OneMergeIsRight, CompleteInv

=============================================================================
