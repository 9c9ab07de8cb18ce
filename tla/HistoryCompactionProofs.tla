----------------------- MODULE HistoryCompactionProofs -----------------------
(***************************************************************************)
(* Proofs about HistoryCompaction, for any number of tracks, patterns,     *)
(* roots, commands, compactions and crashes.                               *)
(*                                                                         *)
(* Where UndoTrackProofs has every recorded command as a row, rows go away *)
(* here, and track objects may remember commands that are gone.  What is   *)
(* left: a track object only has parents that were recorded (MemoryFits),  *)
(* so that what it walks up are ancestors, as far as they are known; and   *)
(* what it shows is closed under that walk, so that it finds the way to    *)
(* any node it moves to.                                                   *)
(***************************************************************************)
EXTENDS HistoryCompaction, UndoTrackProofs

USE UndoTrackAssumption, HistoryCompactionAssumption DEF Placeholder

-----------------------------------------------------------------------------
(* The undo store, and what track objects have of it *)

StoreFits(u) ==
  /\ u \in [commands : Seq(Command), rows : SUBSET Nat, marked : SUBSET Nat, tracks : States]
  /\ Ordered(u.commands) /\ Len(u.commands) <= MaxSequenceNumber
  /\ u.rows \subseteq 1 .. Len(u.commands) /\ u.marked \subseteq u.rows
  /\ \A t \in DOMAIN u.tracks :
       /\ u.tracks[t].head \in u.rows /\ u.commands[u.tracks[t].head].trackName = t
       /\ u.tracks[t].current \in {0} \cup (u.rows \cap Anc(u.commands, u.tracks[t].head))

(* A command of the track, or none. *)
OfTrack(cs, t, c) == c = 0 \/ (c \in 1 .. Len(cs) /\ cs[c].trackName = t)

StatesFit(i, cs, states) ==
  /\ states \in States /\ DOMAIN states \subseteq NamesOf[i]
  /\ \A t \in DOMAIN states :
       OfTrack(cs, t, states[t].head) /\ OfTrack(cs, t, states[t].current)

(* Every parent is the one recorded, or none. *)
ParentsFit(cs, names, parents) ==
  /\ parents \in ParentMaps /\ DOMAIN parents \subseteq 1 .. Len(cs)
  /\ \A c \in DOMAIN parents : /\ parents[c] \in {0, cs[c].parent}
                               /\ cs[c].trackName \in names

(* The nodes are the placeholder and commands the object has, with all of  *)
(* their ancestors up to one that nobody has.                              *)
NodesFit(m, u) ==
  /\ m.nodes \in Seq(Nat) /\ Len(m.nodes) >= 1 /\ m.nodes[1] = 0
  /\ \A k \in 2 .. Len(m.nodes) :
       /\ m.nodes[k] \in DOMAIN m.parents
       /\ m.parents[m.nodes[k]] \in Known(m, u) => m.parents[m.nodes[k]] \in Range(m.nodes)

(* A plain track's object that was loaded has all rows of the track. *)
HasAll(i, m, u) ==
  i \notin PatternTrack /\ DOMAIN m.states # {} =>
    \A c \in LiveRows(u) : u.commands[c].trackName \in NamesOf[i] => c \in DOMAIN m.parents

(* What ReloadNodes starts from, and what it leaves. *)
MemoryParts(i, m, u) ==
  /\ m \in [states : States, parents : ParentMaps, nodes : Seq(Nat)]
  /\ StatesFit(i, u.commands, m.states)
  /\ ParentsFit(u.commands, DOMAIN m.states, m.parents)

MemoryFits(i, m, u) == MemoryParts(i, m, u) /\ NodesFit(m, u) /\ HasAll(i, m, u)

(* The parts of the undo store.                                            *)
LEMMA StoreFitsParts ==
  ASSUME NEW u, StoreFits(u)
  PROVE  /\ Ordered(u.commands) /\ Len(u.commands) \in Nat /\ DOMAIN u.commands = 1 .. Len(u.commands)
         /\ Len(u.commands) <= MaxSequenceNumber
         /\ u.rows \subseteq 1 .. Len(u.commands) /\ u.marked \subseteq u.rows
         /\ LiveRows(u) \subseteq u.rows /\ LiveRows(u) \subseteq 1 .. Len(u.commands)
         /\ u.tracks \in States /\ DOMAIN u.tracks \subseteq TrackName
         /\ \A t \in DOMAIN u.tracks :
              /\ u.tracks[t] \in State
              /\ u.tracks[t].head \in u.rows /\ u.commands[u.tracks[t].head].trackName = t
              /\ OfTrack(u.commands, t, u.tracks[t].head)
              /\ OfTrack(u.commands, t, u.tracks[t].current)
<1>1. /\ Ordered(u.commands) /\ Len(u.commands) <= MaxSequenceNumber
      /\ u.rows \subseteq 1 .. Len(u.commands) /\ u.marked \subseteq u.rows
      /\ u.tracks \in States
  BY DEF StoreFits
<1>2. Len(u.commands) \in Nat /\ DOMAIN u.commands = 1 .. Len(u.commands)
  BY <1>1, CommandTree
<1>3. LiveRows(u) \subseteq u.rows
  BY DEF LiveRows
<1>4. DOMAIN u.tracks \subseteq TrackName /\ \A t \in DOMAIN u.tracks : u.tracks[t] \in State
  BY <1>1, StatesAreFunctions
<1>5. ASSUME NEW t \in DOMAIN u.tracks
      PROVE  /\ u.tracks[t].head \in u.rows /\ u.commands[u.tracks[t].head].trackName = t
             /\ OfTrack(u.commands, t, u.tracks[t].head)
             /\ OfTrack(u.commands, t, u.tracks[t].current)
  <2>1. /\ u.tracks[t].head \in u.rows /\ u.commands[u.tracks[t].head].trackName = t
        /\ u.tracks[t].current \in {0} \cup (u.rows \cap Anc(u.commands, u.tracks[t].head))
    BY DEF StoreFits
  <2>2. u.tracks[t].head \in 1 .. Len(u.commands)
    BY <1>1, <2>1
  <2>3. \A a \in Anc(u.commands, u.tracks[t].head) : u.commands[a].trackName = t
    BY <1>1, <2>1, <2>2, AncestorsOfTrack
  <2> QED
    BY <1>1, <2>1, <2>2, <2>3 DEF OfTrack
<1> QED
  BY <1>1, <1>2, <1>3, <1>4, <1>5

-----------------------------------------------------------------------------
(* What a track object walks up *)

(* The parents it finds, none for a command it does not know. *)
Found(m, u) ==
  [n \in 1 .. Len(u.commands) |-> IF n \in Known(m, u) THEN ParentOf(m, u, n) ELSE 0]

(* They are parents that were recorded, or none: a tree.                   *)
LEMMA FoundIsTree ==
  ASSUME NEW u, StoreFits(u), NEW names, NEW m, ParentsFit(u.commands, names, m.parents)
  PROVE  /\ IsTree(Len(u.commands), Found(m, u))
         /\ Known(m, u) \subseteq 1 .. Len(u.commands)
         /\ \A n \in 1 .. Len(u.commands) :
              /\ ParentOf(m, u, n) \in {0, u.commands[n].parent}
              /\ Found(m, u)[n] \in {0, u.commands[n].parent}
<1> DEFINE N == Len(u.commands)
<1>1. /\ Ordered(u.commands) /\ N \in Nat /\ LiveRows(u) \subseteq 1 .. N
      /\ \A n \in 1 .. N : u.commands[n].parent \in 0 .. N /\ u.commands[n].parent < n
  BY StoreFitsParts, CommandTree
<1>2. DOMAIN m.parents \subseteq 1 .. N /\ \A c \in DOMAIN m.parents : m.parents[c] \in {0, u.commands[c].parent}
  BY DEF ParentsFit
<1>3. Known(m, u) \subseteq 1 .. N
  BY <1>1, <1>2 DEF Known
<1>4. ASSUME NEW n \in 1 .. N
      PROVE  /\ ParentOf(m, u, n) \in {0, u.commands[n].parent}
             /\ Found(m, u)[n] \in {0, u.commands[n].parent}
  <2>1. ParentOf(m, u, n) \in {0, u.commands[n].parent}
    <3>1. CASE n \in DOMAIN m.parents
      BY <1>2, <3>1 DEF ParentOf
    <3>2. CASE n \notin DOMAIN m.parents /\ u.commands[n].parent \in u.rows
      BY <3>2 DEF ParentOf
    <3>3. CASE n \notin DOMAIN m.parents /\ u.commands[n].parent \notin u.rows
      BY <3>3 DEF ParentOf
    <3> QED
      BY <3>1, <3>2, <3>3
  <2>2. Found(m, u)[n] = IF n \in Known(m, u) THEN ParentOf(m, u, n) ELSE 0
    BY DEF Found
  <2> QED
    BY <2>1, <2>2
<1>5. \A n \in 1 .. N : Found(m, u)[n] \in 0 .. N /\ Found(m, u)[n] < n
  BY <1>1, <1>4
<1>6. DOMAIN Found(m, u) = 1 .. N /\ Found(m, u) = [n \in 1 .. N |-> Found(m, u)[n]]
  BY DEF Found
<1>7. Found(m, u) \in [1 .. N -> 0 .. N]
  BY <1>5, <1>6
<1> QED
  BY <1>1, <1>3, <1>4, <1>5, <1>7 DEF IsTree

(* A lineage is what that tree has above a command.                        *)
LEMMA LineageIsUp ==
  ASSUME NEW u, StoreFits(u), NEW names, NEW m, ParentsFit(u.commands, names, m.parents), NEW c
  PROVE  Lineage(m, u, c) = Up(Len(u.commands), Found(m, u), c)
<1> DEFINE N == Len(u.commands)
           Is(f) == f = [n \in 0 .. N |->
                           IF n = 0 THEN {}
                           ELSE {n} \cup (IF n \in Known(m, u) THEN f[ParentOf(m, u, n)] ELSE {})]
<1>1. IsTree(N, Found(m, u)) /\ N \in Nat
  BY FoundIsTree, StoreFitsParts
<1>2. \A n \in 1 .. N : Found(m, u)[n] = IF n \in Known(m, u) THEN ParentOf(m, u, n) ELSE 0
  BY DEF Found
<1>3. ASSUME NEW f, f[0] = {}
      PROVE  Is(f) <=> Ascends(N, Found(m, u), f)
  <2>1. \A n \in 0 .. N :
          (IF n = 0 THEN {} ELSE {n} \cup (IF n \in Known(m, u) THEN f[ParentOf(m, u, n)] ELSE {}))
            = (IF n = 0 THEN {} ELSE {n} \cup f[Found(m, u)[n]])
    <3> TAKE n \in 0 .. N
    <3>1. n # 0 => n \in 1 .. N
      BY <1>1
    <3> QED
      BY <1>2, <1>3, <3>1
  <2> QED
    BY <2>1 DEF Ascends
<1>4. \A f : Is(f) => f[0] = {}
  <2>1. 0 \in 0 .. N
    BY <1>1
  <2> QED
    BY <2>1
<1>5. \A f : Ascends(N, Found(m, u), f) => f[0] = {}
  <2>1. 0 \in 0 .. N
    BY <1>1
  <2> QED
    BY <2>1 DEF Ascends
<1>6. Lineage(m, u, c) = (CHOOSE f : Is(f))[c]
  BY DEF Lineage
<1> HIDE DEF Is
<1>7. (CHOOSE f : Is(f)) = CHOOSE f : Ascends(N, Found(m, u), f)
  BY <1>3, <1>4, <1>5
<1> QED
  BY <1>6, <1>7 DEF Up

(* What is in a lineage, and in the chain of it that is known: ancestors,  *)
(* of which each has those before it above it.                             *)
LineageFacts(m, u, c) ==
  /\ Lineage(m, u, c) \subseteq Anc(u.commands, c) /\ Lineage(m, u, c) \subseteq 1 .. c
  /\ Chain(m, u, c) \subseteq Known(m, u) /\ Chain(m, u, c) \subseteq Lineage(m, u, c)
  /\ c \in Known(m, u) => c \in Chain(m, u, c)
  /\ c \notin Known(m, u) => Chain(m, u, c) = {}
  /\ c \in Known(m, u) => Chain(m, u, c) = {c} \cup Chain(m, u, ParentOf(m, u, c))
  /\ \A a \in Chain(m, u, c) :
       /\ Chain(m, u, a) \subseteq Chain(m, u, c)
       /\ ParentOf(m, u, a) \in Known(m, u) => ParentOf(m, u, a) \in Chain(m, u, c)

(* A lineage is ancestors, and its chain what is known of it.              *)
LEMMA LineageLemma ==
  ASSUME NEW u, StoreFits(u), NEW names, NEW m, ParentsFit(u.commands, names, m.parents)
  PROVE  \A c \in 0 .. Len(u.commands) : LineageFacts(m, u, c)
<1> DEFINE N == Len(u.commands)
           F == Found(m, u)
           up(c) == Lineage(m, u, c)
           Bad == {n \in 0 .. N : ~ (up(n) \subseteq Anc(u.commands, n))}
<1>1. /\ IsTree(N, F) /\ N \in Nat /\ Ordered(u.commands) /\ Known(m, u) \subseteq 1 .. N
      /\ \A n \in 1 .. N : F[n] \in {0, u.commands[n].parent}
  BY FoundIsTree, StoreFitsParts
<1>2. \A n \in 1 .. N : F[n] = IF n \in Known(m, u) THEN ParentOf(m, u, n) ELSE 0
  BY DEF Found
<1>3. \A c : up(c) = Up(N, F, c)
  BY LineageIsUp
<1> HIDE DEF F
<1>4. up(0) = {} /\ \A n \in 1 .. N : up(n) = {n} \cup up(F[n])
  BY <1>1, <1>3, UpRecursion
<1>5. \A c \in 0 .. N :
        /\ up(c) \subseteq 1 .. c
        /\ c # 0 => c \in up(c)
        /\ \A a \in up(c) : up(a) = {b \in up(c) : b <= a} /\ F[a] \in {0} \cup up(c)
  BY <1>1, <1>3, UpIsChain DEF UpFacts
<1> HIDE DEF up
<1>6. /\ Anc(u.commands, 0) = {}
      /\ \A n \in 1 .. N : Anc(u.commands, n) = {n} \cup Anc(u.commands, u.commands[n].parent)
  BY <1>1, AncFacts
<1>7. \A n \in 1 .. N : u.commands[n].parent \in 0 .. N /\ u.commands[n].parent < n
  BY <1>1, CommandTree
<1>8. Bad = {}
  <2> SUFFICES ASSUME Bad # {}
               PROVE  FALSE
    OBVIOUS
  <2>1. PICK n \in Bad : \A k \in Bad : n <= k
    <3>1. Bad \in SUBSET Nat
      BY <1>1
    <3> HIDE DEF Bad
    <3> QED
      BY <3>1, LeastNumber
  <2>2. n \in 0 .. N /\ ~ (up(n) \subseteq Anc(u.commands, n))
    OBVIOUS
  <2>3. n \in 1 .. N
    BY <1>1, <1>4, <2>2
  <2>4. up(F[n]) \subseteq Anc(u.commands, u.commands[n].parent)
    <3>1. CASE F[n] = 0
      BY <1>4, <3>1
    <3>2. CASE F[n] = u.commands[n].parent
      <4>1. ~ (n <= u.commands[n].parent) /\ u.commands[n].parent \in 0 .. N
        BY <1>1, <1>7, <2>3
      <4>2. u.commands[n].parent \notin Bad
        <5> HIDE DEF Bad
        <5> QED
          BY <2>1, <4>1
      <4> QED
        BY <3>2, <4>1, <4>2
    <3> QED
      BY <1>1, <2>3, <3>1, <3>2
  <2> QED
    BY <1>4, <1>6, <2>2, <2>3, <2>4
<1>9. ASSUME NEW c \in 0 .. N
      PROVE  LineageFacts(m, u, c)
  <2>1. \A x : Chain(m, u, x) = up(x) \cap Known(m, u)
    BY DEF Chain, up
  <2>2. up(c) \subseteq Anc(u.commands, c) /\ up(c) \subseteq 1 .. c
    BY <1>5, <1>8
  <2>3. c \in Known(m, u) => c \in Chain(m, u, c)
    BY <1>1, <1>5, <2>1
  <2>4. c \notin Known(m, u) => Chain(m, u, c) = {}
    <3> SUFFICES ASSUME c \notin Known(m, u)
                 PROVE  Chain(m, u, c) = {}
      OBVIOUS
    <3>1. CASE c = 0
      BY <1>4, <2>1, <3>1
    <3>2. CASE c \in 1 .. N
      <4>1. up(c) = {c} \cup up(0)
        BY <1>2, <1>4, <3>2
      <4> QED
        BY <1>4, <2>1, <4>1
    <3> QED
      BY <1>1, <3>1, <3>2
  <2>5. c \in Known(m, u) => Chain(m, u, c) = {c} \cup Chain(m, u, ParentOf(m, u, c))
    <3> SUFFICES ASSUME c \in Known(m, u)
                 PROVE  Chain(m, u, c) = {c} \cup Chain(m, u, ParentOf(m, u, c))
      OBVIOUS
    <3>1. c \in 1 .. N /\ F[c] = ParentOf(m, u, c)
      BY <1>1, <1>2
    <3>2. up(c) = {c} \cup up(ParentOf(m, u, c))
      BY <1>4, <3>1
    <3> QED
      BY <2>1, <3>2
  <2>6. ASSUME NEW a \in Chain(m, u, c)
        PROVE  /\ Chain(m, u, a) \subseteq Chain(m, u, c)
               /\ ParentOf(m, u, a) \in Known(m, u) => ParentOf(m, u, a) \in Chain(m, u, c)
    <3>1. a \in up(c) /\ a \in Known(m, u) /\ a \in 1 .. N
      BY <1>1, <2>1
    <3>2. up(a) \subseteq up(c) /\ F[a] \in {0} \cup up(c) /\ F[a] = ParentOf(m, u, a)
      BY <1>2, <1>5, <3>1
    <3>3. 0 \notin Known(m, u)
      BY <1>1
    <3> QED
      BY <2>1, <3>2, <3>3
  <2> QED
    BY <2>1, <2>2, <2>3, <2>4, <2>5, <2>6 DEF LineageFacts, up
<1> QED
  BY <1>9

-----------------------------------------------------------------------------
(* Loading and reloading *)

(* The branches of a track object, down from its heads. *)
Branches(m, u) == UNION {Chain(m, u, m.states[t].head) : t \in DOMAIN m.states}

(* m2 is m with the commands on its branches loaded, and on plain tracks   *)
(* all commands.                                                           *)
LoadedFrom(i, m, m2, u) ==
  /\ m2.states = m.states
  /\ DOMAIN m.parents \subseteq DOMAIN m2.parents
  /\ DOMAIN m2.parents \subseteq DOMAIN m.parents \cup LiveRows(u)

(* The branches are of commands that are known.                            *)
LEMMA BranchesFit ==
  ASSUME NEW u, StoreFits(u), NEW i \in Track, NEW m, MemoryParts(i, m, u)
  PROVE  /\ \A t \in DOMAIN m.states : m.states[t].head \in 0 .. Len(u.commands)
         /\ Branches(m, u) \subseteq Known(m, u)
         /\ \A c \in Branches(m, u) :
              /\ u.commands[c].trackName \in DOMAIN m.states
              /\ ParentOf(m, u, c) \in Known(m, u) => ParentOf(m, u, c) \in Branches(m, u)
<1>1. /\ StatesFit(i, u.commands, m.states)
      /\ ParentsFit(u.commands, DOMAIN m.states, m.parents)
  BY DEF MemoryParts
<1>2. /\ Ordered(u.commands) /\ Len(u.commands) \in Nat
  BY StoreFitsParts
<1>3. \A c \in 0 .. Len(u.commands) : LineageFacts(m, u, c)
  BY <1>1, LineageLemma
<1>4. \A t \in DOMAIN m.states : OfTrack(u.commands, t, m.states[t].head)
  BY <1>1 DEF StatesFit
<1>5. \A t \in DOMAIN m.states : m.states[t].head \in 0 .. Len(u.commands)
  BY <1>2, <1>4 DEF OfTrack
<1>6. ASSUME NEW c \in Branches(m, u)
      PROVE  /\ c \in Known(m, u)
             /\ u.commands[c].trackName \in DOMAIN m.states
             /\ ParentOf(m, u, c) \in Known(m, u) => ParentOf(m, u, c) \in Branches(m, u)
  <2>1. PICK t \in DOMAIN m.states : c \in Chain(m, u, m.states[t].head)
    BY DEF Branches
  <2>2. LineageFacts(m, u, m.states[t].head)
    BY <1>3, <1>5
  <2>3. m.states[t].head # 0
    <3>1. Lineage(m, u, m.states[t].head) \subseteq 1 .. m.states[t].head
      BY <2>2 DEF LineageFacts
    <3>2. c \in 1 .. m.states[t].head
      BY <2>1, <2>2, <3>1 DEF LineageFacts
    <3> QED
      BY <3>2
  <2>4. m.states[t].head \in 1 .. Len(u.commands) /\ u.commands[m.states[t].head].trackName = t
    BY <1>4, <2>3 DEF OfTrack
  <2>5. c \in Anc(u.commands, m.states[t].head) /\ c \in Known(m, u)
    BY <2>1, <2>2 DEF LineageFacts
  <2>6. u.commands[c].trackName = t
    BY <1>2, <2>4, <2>5, AncestorsOfTrack
  <2>7. ParentOf(m, u, c) \in Known(m, u) => ParentOf(m, u, c) \in Chain(m, u, m.states[t].head)
    BY <2>1, <2>2 DEF LineageFacts
  <2> QED
    BY <2>5, <2>6, <2>7 DEF Branches
<1> QED
  BY <1>5, <1>6

(* The nodes on the current branch, reloaded: the memory fits.             *)
LEMMA ReloadNodesFits ==
  ASSUME NEW u, StoreFits(u), NEW i \in Track, NEW m, MemoryParts(i, m, u),
         NEW m2, m2 = ReloadNodes(i, m, u)
  PROVE  MemoryFits(i, m2, u) /\ LoadedFrom(i, m, m2, u)
<1> DEFINE N       == Len(u.commands)
           names   == DOMAIN m.states
           branch  == [t \in names |-> Chain(m, u, m.states[t].head)]
           applied == [t \in names |-> IF m.states[t].current \in branch[t]
                                       THEN Chain(m, u, m.states[t].current) ELSE {}]
           walked  == UNION {branch[t] : t \in names}
           undo    == UNION {applied[t] : t \in names}
           redo    == UNION {branch[t] \ applied[t] : t \in names}
           all     == IF i \in PatternTrack \/ names = {} THEN {}
                      ELSE {c \in LiveRows(u) : u.commands[c].trackName \in NamesOf[i]}
           parents == [c \in DOMAIN m.parents \cup walked \cup all |-> ParentOf(m, u, c)]
           nodes   == <<Placeholder>> \o Ascending(undo) \o Ascending(redo)
<1>1. m2 = [m EXCEPT !.parents = parents, !.nodes = nodes]
  BY DEF ReloadNodes
<1>2. /\ Ordered(u.commands) /\ N \in Nat /\ LiveRows(u) \subseteq 1 .. N
      /\ \A c \in 1 .. N : u.commands[c].parent \in 0 .. N
  BY StoreFitsParts, CommandTree
<1>3. /\ m \in [states : States, parents : ParentMaps, nodes : Seq(Nat)]
      /\ StatesFit(i, u.commands, m.states)
      /\ ParentsFit(u.commands, names, m.parents)
  BY DEF MemoryParts
<1>4. /\ DOMAIN m.parents \subseteq 1 .. N
      /\ \A c \in DOMAIN m.parents : u.commands[c].trackName \in names
      /\ names \subseteq NamesOf[i]
  BY <1>3 DEF ParentsFit, StatesFit
<1>5. Known(m, u) \subseteq 1 .. N /\ \A c \in 1 .. N : ParentOf(m, u, c) \in {0, u.commands[c].parent}
  BY <1>3, FoundIsTree
<1>6. \A c \in 0 .. N : LineageFacts(m, u, c)
  BY <1>3, LineageLemma
<1>7. /\ walked = Branches(m, u)
      /\ walked \subseteq Known(m, u) /\ walked \subseteq 1 .. N
      /\ \A c \in walked : /\ u.commands[c].trackName \in names
                           /\ ParentOf(m, u, c) \in Known(m, u) => ParentOf(m, u, c) \in walked
  <2>1. walked = Branches(m, u)
    BY DEF Branches
  <2> HIDE DEF walked
  <2> QED
    BY <1>5, <2>1, BranchesFit
<1>8. \A t \in names : applied[t] \subseteq branch[t]
  <2> SUFFICES ASSUME NEW t \in names
               PROVE  applied[t] \subseteq branch[t]
    OBVIOUS
  <2>1. m.states[t].head \in 0 .. N
    BY BranchesFit
  <2>2. LineageFacts(m, u, m.states[t].head)
    BY <1>6, <2>1
  <2>3. \A a \in Chain(m, u, m.states[t].head) : Chain(m, u, a) \subseteq Chain(m, u, m.states[t].head)
    BY <2>2 DEF LineageFacts
  <2> QED
    BY <2>3
<1>9. undo \cup redo = walked
  <2> HIDE DEF branch, applied
  <2> QED
    BY <1>8
<1> HIDE DEF branch, applied, walked, undo, redo
<1>10. undo \in SUBSET (1 .. N) /\ redo \in SUBSET (1 .. N)
  BY <1>7, <1>9
<1>11. all \subseteq LiveRows(u) /\ \A c \in all : u.commands[c].trackName \in names
  <2> SUFFICES ASSUME NEW c \in all
               PROVE  c \in LiveRows(u) /\ u.commands[c].trackName \in names
    OBVIOUS
  <2>1. /\ i \notin PatternTrack /\ names # {}
        /\ c \in LiveRows(u) /\ u.commands[c].trackName \in NamesOf[i]
    OBVIOUS
  <2>2. PICK t \in TrackName : NamesOf[i] = {t}
    BY <2>1
  <2> QED
    BY <1>4, <2>1, <2>2
<1>12. i \notin PatternTrack /\ names # {} =>
         \A c \in LiveRows(u) : u.commands[c].trackName \in NamesOf[i] => c \in all
  OBVIOUS
<1> HIDE DEF all
<1>13. /\ DOMAIN parents = DOMAIN m.parents \cup walked \cup all
       /\ \A c \in DOMAIN parents : parents[c] = ParentOf(m, u, c)
       /\ parents = [c \in DOMAIN parents |-> parents[c]]
  OBVIOUS
<1> HIDE DEF parents
<1>14. /\ DOMAIN parents \subseteq 1 .. N
       /\ \A c \in DOMAIN parents : /\ parents[c] \in {0, u.commands[c].parent}
                                    /\ u.commands[c].trackName \in names
  <2>1. DOMAIN parents \subseteq 1 .. N
    BY <1>2, <1>4, <1>7, <1>11, <1>13
  <2> QED
    BY <1>4, <1>5, <1>7, <1>11, <1>13, <2>1
<1>15. parents \in ParentMaps
  <2>1. \A c \in DOMAIN parents : parents[c] \in Nat
    BY <1>2, <1>14
  <2>2. parents \in [DOMAIN parents -> Nat]
    BY <1>13, <2>1
  <2>3. DOMAIN parents \subseteq Nat
    BY <1>2, <1>14
  <2> QED
    BY <2>2, <2>3, ParentMapsAreFunctions
<1>16. /\ InOrder(Ascending(undo), undo) /\ InOrder(Ascending(redo), redo)
  BY <1>2, <1>10, AscendingInOrder
<1>17. Joined(nodes, Ascending(undo), Ascending(redo))
  BY DEF Joined
<1>18. nodes \in Seq(Nat)
  <2>1. Ascending(undo) \in Seq(Nat) /\ Ascending(redo) \in Seq(Nat)
    <3>1. undo \subseteq Nat /\ redo \subseteq Nat
      BY <1>2, <1>10
    <3>2. Ascending(undo) \in Seq(undo) /\ Ascending(redo) \in Seq(redo)
      BY <1>16 DEF InOrder
    <3>3. Ascending(undo) \in Seq(Nat)
      BY <3>1, <3>2, SeqMonotonic
    <3>4. Ascending(redo) \in Seq(Nat)
      BY <3>1, <3>2, SeqMonotonic
    <3> QED
      BY <3>3, <3>4
  <2> QED
    BY <2>1
<1> HIDE DEF nodes
<1>19. JoinedAt(nodes, Ascending(undo), Ascending(redo), undo, redo, 1 + Len(Ascending(undo)))
  <2>1. undo \in SUBSET Nat /\ redo \in SUBSET Nat
    BY <1>2, <1>10
  <2> QED
    BY <1>16, <1>17, <2>1, JoinedParts
<1>20. /\ Len(nodes) \in Nat /\ Len(nodes) >= 1 /\ nodes[1] = 0 /\ DOMAIN nodes = 1 .. Len(nodes)
       /\ \A k \in 2 .. Len(nodes) : nodes[k] \in walked
       /\ \A c \in walked : c \in Range(nodes)
  <2> DEFINE k == 1 + Len(Ascending(undo))
  <2>1. /\ Len(Ascending(undo)) \in Nat /\ Len(Ascending(redo)) \in Nat
        /\ Len(nodes) = k + Len(Ascending(redo))
        /\ DOMAIN nodes = 1 .. Len(nodes) /\ nodes[1] = 0
    BY <1>19 DEF JoinedAt
  <2>2. /\ \A j \in 2 .. k : nodes[j] \in undo
        /\ \A j \in k + 1 .. Len(nodes) : nodes[j] \in redo
        /\ \A c \in undo : \E j \in 2 .. k : nodes[j] = c
        /\ \A c \in redo : \E j \in k + 1 .. Len(nodes) : nodes[j] = c
    BY <1>19 DEF JoinedAt
  <2>3. k \in Nat \ {0} /\ k <= Len(nodes) /\ Len(nodes) \in Nat
    BY <2>1
  <2> HIDE DEF k
  <2>4. \A j \in 2 .. Len(nodes) : nodes[j] \in walked
    <3> TAKE j \in 2 .. Len(nodes)
    <3>1. j \in 2 .. k \/ j \in k + 1 .. Len(nodes)
      BY <2>3
    <3> QED
      BY <1>9, <2>2, <3>1
  <2>5. \A c \in walked : c \in Range(nodes)
    <3> TAKE c \in walked
    <3>1. \E j \in DOMAIN nodes : nodes[j] = c
      <4>1. CASE c \in undo
        <5>1. PICK j \in 2 .. k : nodes[j] = c
          BY <2>2, <4>1
        <5>2. j \in DOMAIN nodes
          BY <2>1, <2>3
        <5> QED
          BY <5>1, <5>2
      <4>2. CASE c \in redo
        <5>1. PICK j \in k + 1 .. Len(nodes) : nodes[j] = c
          BY <2>2, <4>2
        <5>2. j \in DOMAIN nodes
          BY <2>1, <2>3
        <5> QED
          BY <5>1, <5>2
      <4> QED
        BY <1>9, <4>1, <4>2
    <3> QED
      BY <3>1 DEF Range
  <2> QED
    BY <2>1, <2>3, <2>4, <2>5
<1>21. /\ m2 \in [states : States, parents : ParentMaps, nodes : Seq(Nat)]
       /\ m2.states = m.states /\ m2.parents = parents /\ m2.nodes = nodes
  BY <1>1, <1>3, <1>15, <1>18, MemoryEdits
<1>22. Known(m2, u) = Known(m, u)
  BY <1>7, <1>11, <1>13, <1>21 DEF Known
<1>23. MemoryParts(i, m2, u)
  BY <1>3, <1>14, <1>15, <1>21 DEF MemoryParts, ParentsFit
<1>24. NodesFit(m2, u)
  <2>1. ASSUME NEW k \in 2 .. Len(nodes)
        PROVE  /\ nodes[k] \in DOMAIN parents
               /\ parents[nodes[k]] \in Known(m, u) => parents[nodes[k]] \in Range(nodes)
    <3>1. nodes[k] \in walked
      BY <1>20
    <3>2. nodes[k] \in DOMAIN parents /\ parents[nodes[k]] = ParentOf(m, u, nodes[k])
      BY <1>13, <3>1
    <3> QED
      BY <1>7, <1>20, <3>1, <3>2
  <2> QED
    BY <1>18, <1>20, <1>21, <1>22, <2>1 DEF NodesFit
<1>25. HasAll(i, m2, u)
  BY <1>12, <1>13, <1>21 DEF HasAll
<1>26. LoadedFrom(i, m, m2, u)
  <2>1. walked \subseteq DOMAIN m.parents \cup LiveRows(u)
    BY <1>7 DEF Known
  <2> QED
    BY <1>11, <1>13, <1>21, <2>1 DEF LoadedFrom
<1> QED
  BY <1>23, <1>24, <1>25, <1>26 DEF MemoryFits

(* A state that is read from the store is of the track.                    *)
LEMMA StateReadFits ==
  ASSUME NEW u, StoreFits(u), NEW t, NEW s, s = StateForTrackName(u, t)
  PROVE  /\ s \in State
         /\ OfTrack(u.commands, t, s.head) /\ OfTrack(u.commands, t, s.current)
         /\ s.current \in {0} \cup LiveRows(u)
<1>1. CASE t \in DOMAIN u.tracks /\ u.tracks[t].head \in LiveRows(u)
  <2>1. /\ u.tracks[t] \in State
        /\ OfTrack(u.commands, t, u.tracks[t].head) /\ OfTrack(u.commands, t, u.tracks[t].current)
    BY <1>1, StoreFitsParts
  <2> DEFINE c == IF u.tracks[t].current \in LiveRows(u) THEN u.tracks[t].current ELSE 0
  <2>2. s = [u.tracks[t] EXCEPT !.current = c]
    BY <1>1 DEF StateForTrackName
  <2>3. c \in Nat /\ c \in {0} \cup LiveRows(u) /\ OfTrack(u.commands, t, c)
    BY <2>1 DEF State, OfTrack
  <2> HIDE DEF c
  <2>4. s \in State /\ s.head = u.tracks[t].head /\ s.current = c
    BY <2>1, <2>2, <2>3 DEF State
  <2> QED
    BY <2>1, <2>3, <2>4
<1>2. CASE ~ (t \in DOMAIN u.tracks /\ u.tracks[t].head \in LiveRows(u))
  <2>1. s = NoState
    BY <1>2 DEF StateForTrackName
  <2> QED
    BY <2>1 DEF NoState, State, OfTrack
<1> QED
  BY <1>1, <1>2

(* A reload makes the memory fit, and loads only rows that are live.       *)
LEMMA ReloadFits ==
  ASSUME NEW u, StoreFits(u), NEW i \in Track, NEW m, MemoryParts(i, m, u),
         NEW m2, m2 = Reload(i, m, u)
  PROVE  /\ MemoryFits(i, m2, u)
         /\ DOMAIN m2.parents \subseteq DOMAIN m.parents \cup LiveRows(u)
         /\ DOMAIN m2.states = DOMAIN m.states \cup Names(i, u)
<1> DEFINE names == NamesOf[i] \cap DOMAIN u.tracks
           states == [t \in names \cup DOMAIN m.states |->
                        IF t \in names THEN StateForTrackName(u, t) ELSE m.states[t]]
           v == [m EXCEPT !.states = states]
<1>1. m2 = ReloadNodes(i, v, u)
  BY DEF Reload
<1>2. /\ m \in [states : States, parents : ParentMaps, nodes : Seq(Nat)]
      /\ StatesFit(i, u.commands, m.states)
      /\ ParentsFit(u.commands, DOMAIN m.states, m.parents)
  BY DEF MemoryParts
<1>3. /\ m.states \in States /\ DOMAIN m.states \subseteq NamesOf[i]
      /\ \A t \in DOMAIN m.states :
           OfTrack(u.commands, t, m.states[t].head) /\ OfTrack(u.commands, t, m.states[t].current)
  BY <1>2 DEF StatesFit
<1>4. DOMAIN m.states \subseteq TrackName /\ \A t \in DOMAIN m.states : m.states[t] \in State
  BY <1>3, StatesAreFunctions
<1>5. DOMAIN u.tracks \subseteq TrackName
  BY StoreFitsParts
<1>6. /\ DOMAIN states = names \cup DOMAIN m.states
      /\ states = [t \in DOMAIN states |-> states[t]]
      /\ \A t \in DOMAIN states : states[t] = IF t \in names THEN StateForTrackName(u, t)
                                              ELSE m.states[t]
  OBVIOUS
<1> HIDE DEF states
<1>7. ASSUME NEW t \in DOMAIN states
      PROVE  /\ states[t] \in State
             /\ OfTrack(u.commands, t, states[t].head) /\ OfTrack(u.commands, t, states[t].current)
  <2>1. CASE t \in names
    <3>1. states[t] = StateForTrackName(u, t)
      BY <1>6, <2>1
    <3> QED
      BY <3>1, StateReadFits
  <2>2. CASE t \notin names
    BY <1>3, <1>4, <1>6, <2>2
  <2> QED
    BY <2>1, <2>2
<1>8. states \in States
  <2>1. states \in [DOMAIN states -> State]
    BY <1>6, <1>7
  <2>2. DOMAIN states \subseteq TrackName
    BY <1>4, <1>5, <1>6
  <2> QED
    BY <2>1, <2>2, StatesAreFunctions
<1>9. /\ v \in [states : States, parents : ParentMaps, nodes : Seq(Nat)]
      /\ v.states = states /\ v.parents = m.parents
  BY <1>2, <1>8, MemoryEdits
<1> HIDE DEF v
<1>10. MemoryParts(i, v, u)
  <2>1. StatesFit(i, u.commands, v.states)
    BY <1>3, <1>6, <1>7, <1>8, <1>9 DEF StatesFit
  <2>2. ParentsFit(u.commands, DOMAIN v.states, v.parents)
    BY <1>2, <1>6, <1>9 DEF ParentsFit
  <2> QED
    BY <1>9, <2>1, <2>2 DEF MemoryParts
<1>11. MemoryFits(i, m2, u) /\ LoadedFrom(i, v, m2, u)
  BY <1>1, <1>10, ReloadNodesFits
<1> QED
  BY <1>6, <1>9, <1>11 DEF LoadedFrom, Names

(* A track object that is loaded for the first time.                       *)
LEMMA LoadedFits ==
  ASSUME NEW u, StoreFits(u), NEW i \in Track
  PROVE  MemoryFits(i, Loaded(i, u), u) /\ DOMAIN Loaded(i, u).parents \subseteq LiveRows(u)
<1>1. PICK m : m = [states |-> << >>, parents |-> << >>, nodes |-> << >>]
  OBVIOUS
<1>2. DOMAIN << >> = {}
  OBVIOUS
<1>3. << >> \in States /\ << >> \in ParentMaps /\ << >> \in Seq(Nat)
  <2>1. << >> \in [{} -> State] /\ << >> \in [{} -> Nat] /\ << >> \in Seq(Nat)
    BY <1>2
  <2> QED
    BY <1>2, <2>1, StatesAreFunctions, ParentMapsAreFunctions
<1>4. m.states = << >> /\ m.parents = << >> /\ m.nodes = << >>
  BY <1>1
<1>5. m \in [states : States, parents : ParentMaps, nodes : Seq(Nat)]
  BY <1>1, <1>3
<1>6. MemoryParts(i, m, u)
  BY <1>2, <1>3, <1>4, <1>5 DEF MemoryParts, StatesFit, ParentsFit
<1>7. Loaded(i, u) = Reload(i, m, u)
  BY <1>1 DEF Loaded
<1>8. /\ MemoryFits(i, Loaded(i, u), u)
      /\ DOMAIN Loaded(i, u).parents \subseteq DOMAIN m.parents \cup LiveRows(u)
  BY <1>6, <1>7, ReloadFits
<1> QED
  BY <1>2, <1>4, <1>8

-----------------------------------------------------------------------------
(* What another commit leaves of a memory *)

(* u2 has the commands of u, maybe more, and no row of u comes to life. *)
GoesOn(u, u2) ==
  /\ Len(u.commands) <= Len(u2.commands)
  /\ \A n \in 1 .. Len(u.commands) : u2.commands[n] = u.commands[n]
  /\ LiveRows(u2) \subseteq LiveRows(u) \cup (Len(u.commands) + 1 .. Len(u2.commands))

(* What is remembered still fits the store.                                *)
LEMMA MemoryStays ==
  ASSUME NEW u, StoreFits(u), NEW u2, StoreFits(u2), GoesOn(u, u2),
         NEW i \in Track, NEW m, MemoryParts(i, m, u)
  PROVE  /\ MemoryParts(i, m, u2)
         /\ NodesFit(m, u) => NodesFit(m, u2)
         /\ \A t : \A c : OfTrack(u.commands, t, c) => OfTrack(u2.commands, t, c)
<1>1. /\ m \in [states : States, parents : ParentMaps, nodes : Seq(Nat)]
      /\ StatesFit(i, u.commands, m.states)
      /\ ParentsFit(u.commands, DOMAIN m.states, m.parents)
  BY DEF MemoryParts
<1>2. Len(u.commands) \in Nat /\ Len(u2.commands) \in Nat /\ Ordered(u.commands)
  BY StoreFitsParts
<1>3. \A n \in 1 .. Len(u.commands) : n \in 1 .. Len(u2.commands) /\ u2.commands[n] = u.commands[n]
  BY <1>2 DEF GoesOn
<1>4. \A t : \A c : OfTrack(u.commands, t, c) => OfTrack(u2.commands, t, c)
  BY <1>3 DEF OfTrack
<1>5. StatesFit(i, u2.commands, m.states)
  BY <1>1, <1>4 DEF StatesFit
<1>6. ParentsFit(u2.commands, DOMAIN m.states, m.parents)
  <2>1. /\ m.parents \in ParentMaps /\ DOMAIN m.parents \subseteq 1 .. Len(u.commands)
        /\ \A c \in DOMAIN m.parents : /\ m.parents[c] \in {0, u.commands[c].parent}
                                       /\ u.commands[c].trackName \in DOMAIN m.states
    BY <1>1 DEF ParentsFit
  <2> QED
    BY <1>3, <2>1 DEF ParentsFit
<1>7. ASSUME NodesFit(m, u)
      PROVE  NodesFit(m, u2)
  <2>1. /\ m.nodes \in Seq(Nat) /\ Len(m.nodes) >= 1 /\ m.nodes[1] = 0
        /\ \A k \in 2 .. Len(m.nodes) :
             /\ m.nodes[k] \in DOMAIN m.parents
             /\ m.parents[m.nodes[k]] \in Known(m, u) => m.parents[m.nodes[k]] \in Range(m.nodes)
    BY <1>7 DEF NodesFit
  <2>2. ASSUME NEW k \in 2 .. Len(m.nodes), m.parents[m.nodes[k]] \in Known(m, u2)
        PROVE  m.parents[m.nodes[k]] \in Range(m.nodes)
    <3>1. PICK c : c = m.nodes[k]
      OBVIOUS
    <3>2. c \in DOMAIN m.parents /\ c \in 1 .. Len(u.commands) /\ m.parents[c] \in {0, u.commands[c].parent}
      BY <1>1, <2>1, <3>1 DEF ParentsFit
    <3>3. m.parents[c] \in 0 .. Len(u.commands)
      BY <1>2, <3>2, CommandTree
    <3>4. m.parents[c] \notin Len(u.commands) + 1 .. Len(u2.commands)
      BY <1>2, <3>3
    <3>5. m.parents[c] \in Known(m, u)
      BY <2>2, <3>1, <3>4 DEF GoesOn, Known
    <3> QED
      BY <2>1, <3>1, <3>5
  <2> QED
    BY <2>1, <2>2 DEF NodesFit
<1> QED
  BY <1>1, <1>4, <1>5, <1>6, <1>7 DEF MemoryParts

(* After a notification the memory fits, if it has all rows or is reloaded *)
(* by it; and what comes in is live.                                       *)
LEMMA NotifiedFits ==
  ASSUME NEW u, StoreFits(u), NEW i \in Track, NEW m, MemoryParts(i, m, u), NodesFit(m, u),
         NEW changed,
         \/ HasAll(i, m, u)
         \/ \E t \in DOMAIN changed \cap NamesOf[i] :
              t \notin DOMAIN m.states \/ m.states[t] # changed[t],
         NEW m2, m2 = StoreTrackDidChange(i, m, u, changed)
  PROVE  /\ MemoryFits(i, m2, u)
         /\ DOMAIN m2.parents \subseteq DOMAIN m.parents \cup LiveRows(u)
<1>1. CASE m2 = Reload(i, m, u)
  BY <1>1, ReloadFits
<1>2. CASE m2 = m /\ HasAll(i, m, u)
  BY <1>2 DEF MemoryFits
<1> QED
  BY <1>1, <1>2 DEF StoreTrackDidChange

(* All track objects' memories fit. *)
AllFit ==
  /\ DOMAIN memory = Track
  /\ \A j \in Track : MemoryFits(j, memory[j], undoStore)

(* The commands that track objects have come from m, from before, or are   *)
(* live rows.                                                              *)
ParentsFrom(i, m, m0, u, m2) ==
  \A j \in Track :
    DOMAIN m2[j].parents \subseteq DOMAIN m.parents \cup DOMAIN m0[j].parents \cup LiveRows(u)

(* The notification reaches every object that lacks a command of its track.*)
Reaches(u, u2, ms, changed) ==
  \A j \in Track : \A c \in LiveRows(u2) \ LiveRows(u) :
    u2.commands[c].trackName \in NamesOf[j] =>
      \E t \in DOMAIN changed \cap NamesOf[j] :
        t \notin DOMAIN ms[j].states \/ ms[j].states[t] # changed[t]

(* The undo store commits, and every track object's memory fits it.        *)
LEMMA CommitFits ==
  ASSUME StoreFits(undoStore), AllFit, NEW u, StoreFits(u), GoesOn(undoStore, u),
         NEW i \in Track, NEW m, MemoryFits(i, m, u),
         NEW changed, Reaches(undoStore, u, memory, changed),
         CommitUndoStore(i, m, u, changed)
  PROVE  undoStore' = u /\ AllFit' /\ ParentsFrom(i, m, memory, u, memory')
<1>1. /\ undoStore' = u
      /\ memory' = [j \in Track |->
                      StoreTrackDidChange(j, IF j = i THEN m ELSE memory[j], u, changed)]
  BY DEF CommitUndoStore
<1>2. ASSUME NEW j \in Track
      PROVE  /\ MemoryFits(j, memory'[j], u)
             /\ DOMAIN memory'[j].parents
                  \subseteq DOMAIN m.parents \cup DOMAIN memory[j].parents \cup LiveRows(u)
  <2>1. PICK v : v = IF j = i THEN m ELSE memory[j]
    OBVIOUS
  <2>2. memory'[j] = StoreTrackDidChange(j, v, u, changed)
    BY <1>1, <2>1
  <2>3. CASE j = i
    <3>1. v = m /\ MemoryParts(j, v, u) /\ NodesFit(v, u) /\ HasAll(j, v, u)
      BY <2>1, <2>3 DEF MemoryFits
    <3> QED
      BY <2>2, <3>1, NotifiedFits
  <2>4. CASE j # i
    <3>1. v = memory[j] /\ MemoryFits(j, v, undoStore)
      BY <2>1, <2>4 DEF AllFit
    <3>2. /\ MemoryParts(j, v, undoStore) /\ NodesFit(v, undoStore) /\ HasAll(j, v, undoStore)
      BY <3>1 DEF MemoryFits
    <3>3. MemoryParts(j, v, u) /\ NodesFit(v, u)
      BY <3>2, MemoryStays
    <3>4. \/ HasAll(j, v, u)
          \/ \E t \in DOMAIN changed \cap NamesOf[j] :
               t \notin DOMAIN v.states \/ v.states[t] # changed[t]
      <4> SUFFICES ASSUME ~ \E t \in DOMAIN changed \cap NamesOf[j] :
                            t \notin DOMAIN v.states \/ v.states[t] # changed[t]
                   PROVE  HasAll(j, v, u)
        OBVIOUS
      <4>1. \A c \in LiveRows(u) : u.commands[c].trackName \in NamesOf[j] => c \in LiveRows(undoStore)
        BY <3>1 DEF Reaches
      <4>2. \A c \in LiveRows(undoStore) : u.commands[c] = undoStore.commands[c]
        <5>1. LiveRows(undoStore) \subseteq 1 .. Len(undoStore.commands)
          BY StoreFitsParts
        <5> QED
          BY <5>1 DEF GoesOn
      <4> QED
        BY <3>2, <4>1, <4>2 DEF HasAll
    <3>5. /\ MemoryFits(j, memory'[j], u)
          /\ DOMAIN memory'[j].parents \subseteq DOMAIN v.parents \cup LiveRows(u)
      BY <2>2, <3>3, <3>4, NotifiedFits
    <3> QED
      BY <3>1, <3>5
  <2> QED
    BY <2>3, <2>4
<1>3. DOMAIN memory' = Track
  BY <1>1
<1>4. AllFit'
  BY <1>1, <1>2, <1>3 DEF AllFit
<1>5. ParentsFrom(i, m, memory, u, memory')
  BY <1>2 DEF ParentsFrom
<1> QED
  BY <1>1, <1>4, <1>5

-----------------------------------------------------------------------------
(* Changes of the undo store *)

(* Only tracks differ. *)
OnlyTracks(u, u2) == u2.commands = u.commands /\ u2.rows = u.rows /\ u2.marked = u.marked

(* A track's state is set; a head that is gone leaves the state.           *)
LEMMA SetStateFits ==
  ASSUME NEW u, StoreFits(u), NEW t \in TrackName, NEW state \in State,
         OfTrack(u.commands, t, state.head),
         state.current \in {0} \cup Anc(u.commands, state.head),
         NEW u2, u2 = SetTrackState(u, t, state)
  PROVE  StoreFits(u2) /\ OnlyTracks(u, u2)
<1>1. CASE state.head \notin u.rows
  <2>1. u2 = u
    BY <1>1 DEF SetTrackState
  <2> QED
    BY <2>1 DEF OnlyTracks
<1>2. CASE state.head \in u.rows
  <2> DEFINE c == IF state.current \in u.rows THEN state.current ELSE 0
             s == [state EXCEPT !.current = c]
  <2>1. u2 = [u EXCEPT !.tracks = Put(u.tracks, t, s)]
    BY <1>2 DEF SetTrackState
  <2>2. c \in Nat /\ c \in {0} \cup (u.rows \cap Anc(u.commands, state.head))
    BY DEF State
  <2> HIDE DEF c
  <2>3. s \in State /\ s.head = state.head /\ s.current = c
    BY <2>2 DEF State
  <2> HIDE DEF s
  <2>4. /\ u \in [commands : Seq(Command), rows : SUBSET Nat, marked : SUBSET Nat, tracks : States]
        /\ Ordered(u.commands) /\ Len(u.commands) <= MaxSequenceNumber
        /\ u.rows \subseteq 1 .. Len(u.commands) /\ u.marked \subseteq u.rows
        /\ \A x \in DOMAIN u.tracks :
             /\ u.tracks[x].head \in u.rows /\ u.commands[u.tracks[x].head].trackName = x
             /\ u.tracks[x].current \in {0} \cup (u.rows \cap Anc(u.commands, u.tracks[x].head))
    BY DEF StoreFits
  <2>5. Put(u.tracks, t, s) \in States /\ PutIs(u.tracks, t, s, Put(u.tracks, t, s))
    BY <2>3, <2>4, PutState
  <2>6. /\ u2 \in [commands : Seq(Command), rows : SUBSET Nat, marked : SUBSET Nat, tracks : States]
        /\ OnlyTracks(u, u2) /\ u2.tracks = Put(u.tracks, t, s)
    BY <2>1, <2>4, <2>5 DEF OnlyTracks
  <2>7. /\ DOMAIN u2.tracks = DOMAIN u.tracks \cup {t} /\ u2.tracks[t] = s
        /\ \A x \in DOMAIN u.tracks \ {t} : u2.tracks[x] = u.tracks[x]
    BY <2>5, <2>6 DEF PutIs
  <2>8. state.head # 0
    <3>1. 0 \notin 1 .. Len(u.commands)
      BY StoreFitsParts
    <3> QED
      BY <1>2, <2>4, <3>1
  <2>9. s.head \in u.rows /\ u.commands[s.head].trackName = t
    BY <1>2, <2>3, <2>8 DEF OfTrack
  <2>10. s.current \in {0} \cup (u.rows \cap Anc(u.commands, s.head))
    BY <2>2, <2>3
  <2>11. ASSUME NEW x \in DOMAIN u2.tracks
         PROVE  /\ u2.tracks[x].head \in u.rows /\ u.commands[u2.tracks[x].head].trackName = x
                /\ u2.tracks[x].current \in {0} \cup (u.rows \cap Anc(u.commands, u2.tracks[x].head))
    <3>1. CASE x = t
      BY <2>7, <2>9, <2>10, <3>1
    <3>2. CASE x # t
      <4>1. x \in DOMAIN u.tracks /\ u2.tracks[x] = u.tracks[x]
        BY <2>7, <3>2
      <4> QED
        BY <2>4, <4>1
    <3> QED
      BY <3>1, <3>2
  <2>12. u2.commands = u.commands /\ u2.rows = u.rows /\ u2.marked = u.marked
    BY <2>6 DEF OnlyTracks
  <2> QED
    BY <2>4, <2>6, <2>11, <2>12 DEF StoreFits
<1> QED
  BY <1>1, <1>2

(* The undo store with the command c at its end. *)
AppendedTo(u, c, v) ==
  v = [u EXCEPT !.commands = Append(@, c), !.rows = @ \cup {Len(u.commands) + 1}]

(* A command is appended.                                                  *)
LEMMA AppendFits ==
  ASSUME NEW u, StoreFits(u), Len(u.commands) < MaxSequenceNumber, NEW c \in Command,
         OfTrack(u.commands, c.trackName, c.parent), NEW v, AppendedTo(u, c, v)
  PROVE  /\ StoreFits(v) /\ GoesOn(u, v)
         /\ v.commands = Append(u.commands, c) /\ Len(v.commands) = Len(u.commands) + 1
         /\ v.commands[Len(u.commands) + 1] = c
         /\ LiveRows(v) = LiveRows(u) \cup {Len(u.commands) + 1}
<1> DEFINE n == Len(u.commands) + 1
<1>1. /\ u \in [commands : Seq(Command), rows : SUBSET Nat, marked : SUBSET Nat, tracks : States]
      /\ Ordered(u.commands) /\ Len(u.commands) \in Nat
      /\ u.rows \subseteq 1 .. Len(u.commands) /\ u.marked \subseteq u.rows
      /\ \A x \in DOMAIN u.tracks :
           /\ u.tracks[x].head \in u.rows /\ u.commands[u.tracks[x].head].trackName = x
           /\ u.tracks[x].current \in {0} \cup (u.rows \cap Anc(u.commands, u.tracks[x].head))
  BY StoreFitsParts DEF StoreFits
<1>2. c.parent \in 0 .. Len(u.commands) /\ (c.parent # 0 => u.commands[c.parent].trackName = c.trackName)
  BY <1>1 DEF OfTrack
<1>3. /\ Ordered(Append(u.commands, c)) /\ Len(Append(u.commands, c)) = n
      /\ \A k \in 1 .. Len(u.commands) : Append(u.commands, c)[k] = u.commands[k]
      /\ Append(u.commands, c)[n] = c
      /\ \A k \in 0 .. Len(u.commands) : Anc(Append(u.commands, c), k) = Anc(u.commands, k)
  BY <1>1, <1>2, AncAppend
<1>4. Append(u.commands, c) \in Seq(Command) /\ n \in Nat
  BY <1>1
<1>5. /\ v \in [commands : Seq(Command), rows : SUBSET Nat, marked : SUBSET Nat, tracks : States]
      /\ v.commands = Append(u.commands, c) /\ v.rows = u.rows \cup {n}
      /\ v.marked = u.marked /\ v.tracks = u.tracks
  BY <1>1, <1>4 DEF AppendedTo
<1>6. n \notin u.marked /\ n <= MaxSequenceNumber
  BY <1>1
<1>7. LiveRows(v) = LiveRows(u) \cup {n}
  BY <1>5, <1>6 DEF LiveRows
<1>8. v.rows \subseteq 1 .. Len(v.commands) /\ v.marked \subseteq v.rows
  BY <1>1, <1>3, <1>5
<1>9. ASSUME NEW x \in DOMAIN v.tracks
      PROVE  /\ v.tracks[x].head \in v.rows /\ v.commands[v.tracks[x].head].trackName = x
             /\ v.tracks[x].current \in {0} \cup (v.rows \cap Anc(v.commands, v.tracks[x].head))
  <2>1. /\ v.tracks[x] = u.tracks[x] /\ x \in DOMAIN u.tracks
        /\ u.tracks[x].head \in 1 .. Len(u.commands)
    BY <1>1, <1>5
  <2>2. Anc(v.commands, u.tracks[x].head) = Anc(u.commands, u.tracks[x].head)
    BY <1>1, <1>3, <1>5, <2>1
  <2> QED
    BY <1>1, <1>3, <1>5, <2>1, <2>2
<1>10. StoreFits(v)
  BY <1>3, <1>5, <1>6, <1>8, <1>9 DEF StoreFits
<1>11. GoesOn(u, v)
  <2>1. n \in Len(u.commands) + 1 .. Len(v.commands) /\ Len(u.commands) <= Len(v.commands)
    BY <1>1, <1>3, <1>5
  <2> QED
    BY <1>3, <1>5, <1>7, <2>1 DEF GoesOn
<1> QED
  BY <1>3, <1>5, <1>7, <1>10, <1>11

(* The commands that are live, or that a track object has. *)
InUse(u, ms) == LiveRows(u) \cup UNION {DOMAIN ms[j].parents : j \in Track}

(* A command of the operation on the root is at the end of the store. *)
EndsWith(u, p, op, u2) ==
  \E c \in Command :
    /\ c.root = p /\ c.operation = op
    /\ Len(u2.commands) = Len(u.commands) + 1 /\ u2.commands[Len(u.commands) + 1] = c
    /\ \A n \in 1 .. Len(u.commands) : u2.commands[n] = u.commands[n]

(* A command is recorded.                                                  *)
LEMMA RecordCommandFits ==
  ASSUME StoreFits(undoStore), AllFit, NEW i \in Track, MayRecord(i),
         NEW p \in PersistentRoot, NEW op \in Operation, RecordCommand(i, p, op)
  PROVE  /\ StoreFits(undoStore)' /\ AllFit'
         /\ EndsWith(undoStore, p, op, undoStore')
         /\ InUse(undoStore, memory)'
              \subseteq InUse(undoStore, memory) \cup {Len(undoStore.commands) + 1}
<1> DEFINE u == undoStore
           n == Len(u.commands) + 1
<1>1. PICK t \in TrackName : NamesOf[i] = {t}
  BY DEF MayRecord
<1>2. Len(u.commands) < MaxSequenceNumber /\ Len(u.commands) \in Nat
  BY StoreFitsParts DEF MayRecord
<1> DEFINE parent == StateForTrackName(u, t).current
           c == [parent |-> parent, trackName |-> t, root |-> p, operation |-> op]
           state == [head |-> n, current |-> n]
           added == [u EXCEPT !.commands = Append(@, c), !.rows = @ \cup {n}]
           stored == SetTrackState(added, t, state)
           held == [memory[i] EXCEPT !.states = Put(@, t, state), !.parents = Put(@, n, parent)]
           changed == [s \in {t} |-> state]
<1>3. (CHOOSE s \in NamesOf[i] : TRUE) = t
  BY <1>1
<1>4. CommitUndoStore(i, ReloadNodes(i, held, stored), stored, changed)
  BY <1>3 DEF RecordCommand
<1>5. OfTrack(u.commands, t, parent)
  BY StateReadFits
<1> HIDE DEF parent
<1>6. /\ c \in Command /\ c.parent = parent /\ c.trackName = t /\ c.root = p /\ c.operation = op
  <2>1. parent \in 0 .. MaxSequenceNumber
    BY <1>2, <1>5 DEF OfTrack
  <2> QED
    BY <2>1 DEF Command
<1>7. AppendedTo(u, c, added)
  BY DEF AppendedTo
<1> HIDE DEF c, added
<1>8. /\ StoreFits(added) /\ GoesOn(u, added)
      /\ Len(added.commands) = n /\ added.commands[n] = c
      /\ LiveRows(added) = LiveRows(u) \cup {n}
  BY <1>2, <1>5, <1>6, <1>7, AppendFits
<1>9. state \in State /\ state.head = n /\ state.current = n
  BY <1>2 DEF State
<1> HIDE DEF state
<1>10. OfTrack(added.commands, t, n) /\ n \in Anc(added.commands, n)
  <2>1. n \in 1 .. Len(added.commands)
    BY <1>2, <1>8
  <2>2. Ordered(added.commands)
    BY <1>8, StoreFitsParts
  <2> QED
    BY <1>6, <1>8, <2>1, <2>2, AncFacts DEF OfTrack
<1>11. StoreFits(stored) /\ OnlyTracks(added, stored)
  <2>1. state.current \in {0} \cup Anc(added.commands, state.head)
    BY <1>9, <1>10
  <2>2. OfTrack(added.commands, t, state.head)
    BY <1>9, <1>10
  <2> HIDE DEF n
  <2> QED
    BY <1>8, <1>9, <2>1, <2>2, SetStateFits
<1> HIDE DEF stored
<1>12. /\ stored.commands = added.commands /\ LiveRows(stored) = LiveRows(u) \cup {n}
       /\ GoesOn(u, stored)
  BY <1>8, <1>11 DEF OnlyTracks, LiveRows, GoesOn
<1>13. PICK w : w = memory[i]
  OBVIOUS
<1>14. MemoryParts(i, w, stored)
  <2>1. MemoryParts(i, w, u)
    BY <1>13 DEF AllFit, MemoryFits
  <2> QED
    BY <1>11, <1>12, <2>1, MemoryStays
<1>15. /\ w \in [states : States, parents : ParentMaps, nodes : Seq(Nat)]
       /\ StatesFit(i, stored.commands, w.states)
       /\ ParentsFit(stored.commands, DOMAIN w.states, w.parents)
       /\ parent \in Nat /\ n \in Nat
  BY <1>2, <1>5, <1>14 DEF MemoryParts, OfTrack
<1>16. Put(w.states, t, state) \in States /\ PutIs(w.states, t, state, Put(w.states, t, state))
  BY <1>9, <1>15, PutState
<1>17. Put(w.parents, n, parent) \in ParentMaps /\ PutIs(w.parents, n, parent, Put(w.parents, n, parent))
  <2> HIDE DEF n
  <2> QED
    BY <1>15, PutParent
<1>18. /\ held \in [states : States, parents : ParentMaps, nodes : Seq(Nat)]
       /\ held.states = Put(w.states, t, state) /\ held.parents = Put(w.parents, n, parent)
  <2> HIDE DEF n
  <2> QED
    BY <1>13, <1>15, <1>16, <1>17
<1> HIDE DEF held
<1>19. /\ DOMAIN held.states = DOMAIN w.states \cup {t} /\ held.states[t] = state
       /\ \A s \in DOMAIN w.states \ {t} : held.states[s] = w.states[s]
       /\ DOMAIN held.parents = DOMAIN w.parents \cup {n} /\ held.parents[n] = parent
       /\ \A d \in DOMAIN w.parents \ {n} : held.parents[d] = w.parents[d]
  BY <1>16, <1>17, <1>18 DEF PutIs
<1>20. MemoryParts(i, held, stored)
  <2>1. n \in 1 .. Len(stored.commands) /\ stored.commands[n] = c
    BY <1>2, <1>8, <1>12
  <2>2. StatesFit(i, stored.commands, held.states)
    <3>1. OfTrack(stored.commands, t, state.head) /\ OfTrack(stored.commands, t, state.current)
      BY <1>9, <1>10, <1>12
    <3>2. /\ DOMAIN w.states \subseteq NamesOf[i]
          /\ \A s \in DOMAIN w.states : /\ OfTrack(stored.commands, s, w.states[s].head)
                                        /\ OfTrack(stored.commands, s, w.states[s].current)
      BY <1>15 DEF StatesFit
    <3> QED
      BY <1>1, <1>16, <1>18, <1>19, <3>1, <3>2 DEF StatesFit
  <2>3. ParentsFit(stored.commands, DOMAIN held.states, held.parents)
    <3>1. /\ DOMAIN w.parents \subseteq 1 .. Len(stored.commands)
          /\ \A d \in DOMAIN w.parents : /\ w.parents[d] \in {0, stored.commands[d].parent}
                                         /\ stored.commands[d].trackName \in DOMAIN w.states
      BY <1>15 DEF ParentsFit
    <3>2. stored.commands[n].parent = parent /\ stored.commands[n].trackName = t
      BY <1>6, <2>1
    <3> HIDE DEF n
    <3> QED
      BY <1>17, <1>18, <1>19, <2>1, <3>1, <3>2 DEF ParentsFit
  <2> QED
    BY <1>18, <2>2, <2>3 DEF MemoryParts
<1>21. PICK m : m = ReloadNodes(i, held, stored)
  OBVIOUS
<1>22. MemoryFits(i, m, stored) /\ LoadedFrom(i, held, m, stored)
  BY <1>11, <1>20, <1>21, ReloadNodesFits
<1>23. Reaches(u, stored, memory, changed)
  <2>1. SUFFICES ASSUME NEW j \in Track, NEW d \in LiveRows(stored) \ LiveRows(u),
                        stored.commands[d].trackName \in NamesOf[j]
                 PROVE  \E s \in DOMAIN changed \cap NamesOf[j] :
                          s \notin DOMAIN memory[j].states \/ memory[j].states[s] # changed[s]
    BY DEF Reaches
  <2>2. d = n /\ t \in NamesOf[j]
    BY <1>6, <1>8, <1>12, <2>1
  <2>3. t \in DOMAIN changed /\ changed[t] = state
    OBVIOUS
  <2>4. PICK v : v = memory[j]
    OBVIOUS
  <2>5. t \in DOMAIN v.states => v.states[t] # state
    <3> SUFFICES ASSUME t \in DOMAIN v.states
                 PROVE  v.states[t].head # n
      BY <1>9
    <3>1. OfTrack(u.commands, t, v.states[t].head)
      BY <2>4 DEF AllFit, MemoryFits, MemoryParts, StatesFit
    <3> QED
      BY <1>2, <3>1 DEF OfTrack
  <2> QED
    BY <2>2, <2>3, <2>4, <2>5
<1>24. CommitUndoStore(i, m, stored, changed)
  BY <1>4, <1>21
<1> HIDE DEF changed
<1>25. undoStore' = stored /\ AllFit' /\ ParentsFrom(i, m, memory, stored, memory')
  BY <1>11, <1>12, <1>22, <1>23, <1>24, CommitFits
<1>26. StoreFits(undoStore)'
  BY <1>11, <1>25
<1>27. EndsWith(u, p, op, undoStore')
  <2>1. /\ Len(stored.commands) = Len(u.commands) + 1 /\ stored.commands[Len(u.commands) + 1] = c
        /\ \A k \in 1 .. Len(u.commands) : stored.commands[k] = u.commands[k]
    BY <1>8, <1>12 DEF GoesOn
  <2> QED
    BY <1>6, <1>25, <2>1 DEF EndsWith
<1>28. InUse(u, memory)' \subseteq InUse(u, memory) \cup {n}
  <2>1. LiveRows(stored) \subseteq InUse(u, memory) \cup {n}
    BY <1>12 DEF InUse
  <2>2. DOMAIN m.parents \subseteq InUse(u, memory) \cup {n}
    BY <1>12, <1>13, <1>19, <1>22 DEF LoadedFrom, InUse
  <2>3. \A j \in Track : DOMAIN memory'[j].parents \subseteq InUse(u, memory) \cup {n}
    BY <1>25, <2>1, <2>2 DEF ParentsFrom, InUse
  <2>4. InUse(u, memory)' = LiveRows(stored) \cup UNION {DOMAIN memory'[j].parents : j \in Track}
    BY <1>25 DEF InUse
  <2> QED
    BY <2>1, <2>3, <2>4
<1> QED
  BY <1>25, <1>26, <1>27, <1>28

-----------------------------------------------------------------------------
(* The way to a node *)

(* What is above a node is shown too.                                      *)
LEMMA NodesAreClosed ==
  ASSUME NEW u, StoreFits(u), NEW i \in Track, NEW m, MemoryParts(i, m, u), NodesFit(m, u)
  PROVE  \A c \in Range(m.nodes) : Chain(m, u, c) \subseteq Range(m.nodes) /\ c \in 0 .. Len(u.commands)
<1> DEFINE N == Len(u.commands)
           Bad == {c \in Range(m.nodes) : ~ (Chain(m, u, c) \subseteq Range(m.nodes))}
<1>1. /\ ParentsFit(u.commands, DOMAIN m.states, m.parents)
      /\ DOMAIN m.parents \subseteq 1 .. N
      /\ \A c \in DOMAIN m.parents : m.parents[c] \in {0, u.commands[c].parent}
  BY DEF MemoryParts, ParentsFit
<1>2. /\ N \in Nat /\ \A c \in 1 .. N : u.commands[c].parent \in 0 .. N /\ u.commands[c].parent < c
  BY StoreFitsParts, CommandTree
<1>3. \A c \in 0 .. N : LineageFacts(m, u, c)
  BY <1>1, LineageLemma
<1>4. /\ m.nodes \in Seq(Nat) /\ Len(m.nodes) \in Nat /\ m.nodes[1] = 0
      /\ \A k \in 2 .. Len(m.nodes) :
           /\ m.nodes[k] \in DOMAIN m.parents
           /\ m.parents[m.nodes[k]] \in Known(m, u) => m.parents[m.nodes[k]] \in Range(m.nodes)
  BY DEF NodesFit
<1>5. ASSUME NEW c \in Range(m.nodes), c # 0
      PROVE  /\ c \in DOMAIN m.parents
             /\ m.parents[c] \in Known(m, u) => m.parents[c] \in Range(m.nodes)
  <2>1. PICK k \in 1 .. Len(m.nodes) : m.nodes[k] = c
    BY <1>4 DEF Range
  <2>2. k \in 2 .. Len(m.nodes)
    BY <1>4, <1>5, <2>1
  <2> QED
    BY <1>4, <2>1, <2>2
<1>6. \A c \in Range(m.nodes) : c \in 0 .. N
  BY <1>1, <1>2, <1>5
<1>7. Bad = {}
  <2> SUFFICES ASSUME Bad # {}
               PROVE  FALSE
    OBVIOUS
  <2>1. PICK c \in Bad : \A d \in Bad : c <= d
    <3>1. Bad \in SUBSET Nat
      BY <1>2, <1>6
    <3> HIDE DEF Bad
    <3> QED
      BY <3>1, LeastNumber
  <2>2. c \in Range(m.nodes) /\ c \in 0 .. N /\ ~ (Chain(m, u, c) \subseteq Range(m.nodes))
    BY <1>6
  <2>3. c # 0
    <3>1. LineageFacts(m, u, 0)
      BY <1>2, <1>3
    <3>2. Chain(m, u, 0) = {}
      BY <3>1 DEF LineageFacts
    <3> QED
      BY <2>2, <3>2
  <2>4. c \in DOMAIN m.parents /\ ParentOf(m, u, c) = m.parents[c] /\ c \in Known(m, u)
    <3>1. c \in DOMAIN m.parents
      <4> HIDE DEF Bad
      <4> QED
        BY <1>5, <2>2, <2>3
    <3>2. c \in Known(m, u)
      BY <3>1 DEF Known
    <3>3. ParentOf(m, u, c) = m.parents[c]
      <4> HIDE DEF Bad
      <4> QED
        BY <3>1 DEF ParentOf
    <3> QED
      BY <3>1, <3>2, <3>3
  <2>5. Chain(m, u, c) = {c} \cup Chain(m, u, m.parents[c])
    BY <1>3, <2>2, <2>4 DEF LineageFacts
  <2>6. m.parents[c] \in 0 .. N /\ m.parents[c] < c
    <3>1. c \in 1 .. N
      BY <1>1, <2>4
    <3>2. CASE m.parents[c] = 0
      BY <1>2, <3>1, <3>2
    <3>3. CASE m.parents[c] = u.commands[c].parent
      BY <1>2, <3>1, <3>3
    <3> QED
      BY <1>1, <2>4, <3>2, <3>3
  <2>7. Chain(m, u, m.parents[c]) \subseteq Range(m.nodes)
    <3>1. CASE m.parents[c] \in Known(m, u)
      <4>1. m.parents[c] \in Range(m.nodes) /\ ~ (c <= m.parents[c])
        BY <1>2, <1>5, <2>2, <2>3, <2>6, <3>1
      <4>2. m.parents[c] \notin Bad
        <5> HIDE DEF Bad
        <5> QED
          BY <2>1, <4>1
      <4> QED
        BY <4>1, <4>2
    <3>2. CASE m.parents[c] \notin Known(m, u)
      <4>1. Chain(m, u, m.parents[c]) = {}
        BY <1>3, <2>6, <3>2 DEF LineageFacts
      <4> QED
        BY <4>1
    <3> QED
      BY <3>1, <3>2
  <2> QED
    BY <2>2, <2>5, <2>7
<1> QED
  BY <1>6, <1>7

(* A step the track object can take. *)
StepFits(m, u, step) ==
  /\ step.inverse \in BOOLEAN /\ step.command \in Known(m, u)
  /\ step.inverse = TRUE => step.command \in DOMAIN m.parents
  /\ u.commands[step.command].trackName \in DOMAIN m.states

(* Steps along the nodes fit.                                              *)
LEMMA AlongFits ==
  ASSUME NEW u, StoreFits(u), NEW i \in Track, NEW m, MemoryParts(i, m, u), NodesFit(m, u),
         NEW from \in Range(m.nodes), NEW to \in Range(m.nodes),
         NEW steps, steps = StepsAlong(m, Position(m, from), Position(m, to))
  PROVE  /\ steps \in Seq(StepRecord)
         /\ \A z \in 1 .. Len(steps) : StepFits(m, u, steps[z])
<1>1. /\ m.nodes \in Seq(Nat) /\ Len(m.nodes) \in Nat
      /\ \A k \in 2 .. Len(m.nodes) : m.nodes[k] \in DOMAIN m.parents
  BY DEF NodesFit
<1>2. \A c \in DOMAIN m.parents : u.commands[c].trackName \in DOMAIN m.states
  BY DEF MemoryParts, ParentsFit
<1>3. Position(m, from) \in 1 .. Len(m.nodes) /\ Position(m, to) \in 1 .. Len(m.nodes)
  BY <1>1, PositionIs
<1>4. /\ steps \in Seq(StepRecord)
      /\ \E p : Walk(m.nodes, steps, 0, Len(steps), p)
  BY <1>1, <1>3, AlongIsWalk
<1>5. PICK p : Walk(m.nodes, steps, 0, Len(steps), p) /\ Len(steps) \in Nat
  BY <1>4
<1>6. ASSUME NEW z \in 1 .. Len(steps)
      PROVE  StepFits(m, u, steps[z])
  <2>1. z \in 0 + 1 .. Len(steps)
    OBVIOUS
  <2>2. steps[z].inverse \in BOOLEAN /\ \E j \in 2 .. Len(m.nodes) : steps[z].command = m.nodes[j]
    <3>1. PICK s : s = m.nodes
      OBVIOUS
    <3>2. Walk(s, steps, 0, Len(steps), p) /\ Len(s) \in Nat
      BY <1>1, <1>5, <3>1
    <3>3. steps[z].inverse \in BOOLEAN /\ \E j \in 2 .. Len(s) : steps[z].command = s[j]
      BY <1>5, <2>1, <3>2, WalkSteps
    <3> QED
      BY <3>1, <3>3
  <2>3. steps[z].command \in DOMAIN m.parents
    BY <1>1, <2>2
  <2> QED
    BY <1>2, <2>2, <2>3 DEF StepFits, Known
<1> QED
  BY <1>4, <1>6

(* Steps down to a command of a track the object has fit.                  *)
LEMMA DescentFits ==
  ASSUME NEW u, StoreFits(u), NEW i \in Track, NEW m, MemoryParts(i, m, u),
         NEW n \in DOMAIN m.parents, NEW from,
         NEW steps, steps = StepsToDescendant(m, u, from, n)
  PROVE  /\ steps \in Seq(StepRecord)
         /\ \A z \in 1 .. Len(steps) : StepFits(m, u, steps[z])
<1> DEFINE C == Chain(m, u, n) \ Chain(m, u, from)
<1>1. /\ ParentsFit(u.commands, DOMAIN m.states, m.parents)
      /\ n \in 1 .. Len(u.commands) /\ u.commands[n].trackName \in DOMAIN m.states
  BY DEF MemoryParts, ParentsFit
<1>2. Ordered(u.commands) /\ Len(u.commands) \in Nat
  BY StoreFitsParts
<1>3. /\ Known(m, u) \subseteq 1 .. Len(u.commands)
      /\ Chain(m, u, n) \subseteq Known(m, u) /\ Chain(m, u, n) \subseteq Anc(u.commands, n)
  <2>1. LineageFacts(m, u, n)
    <3>1. \A c \in 0 .. Len(u.commands) : LineageFacts(m, u, c)
      BY <1>1, LineageLemma
    <3> QED
      BY <1>1, <1>2, <3>1
  <2>2. Known(m, u) \subseteq 1 .. Len(u.commands)
    BY <1>1, FoundIsTree
  <2> QED
    BY <2>1, <2>2 DEF LineageFacts
<1>4. C \in SUBSET (1 .. Len(u.commands))
  BY <1>3
<1>5. PICK r : r = Ascending(C)
  OBVIOUS
<1>6. r \in Seq(C) /\ DOMAIN r = 1 .. Len(r) /\ Len(r) \in Nat
  <2> HIDE DEF C
  <2>1. InOrder(r, C)
    BY <1>2, <1>4, <1>5, AscendingInOrder
  <2>2. r \in Seq(C)
    BY <2>1 DEF InOrder
  <2> QED
    BY <2>2
<1>7. \A z \in 1 .. Len(r) : r[z] \in C
  <2> HIDE DEF C
  <2> QED
    BY <1>6, ElementOfSeq
<1>8. steps = [z \in DOMAIN r |-> [command |-> r[z], inverse |-> FALSE]]
  BY <1>5 DEF StepsToDescendant
<1>9. \A z \in 1 .. Len(r) : [command |-> r[z], inverse |-> FALSE] \in StepRecord
  BY <1>4, <1>7 DEF StepRecord
<1>10. steps \in [1 .. Len(r) -> StepRecord]
  BY <1>6, <1>8, <1>9
<1>11. steps \in Seq(StepRecord) /\ Len(steps) = Len(r)
  BY <1>6, <1>10, MakesSequence
<1>12. ASSUME NEW z \in 1 .. Len(steps)
       PROVE  StepFits(m, u, steps[z])
  <2>1. steps[z].command = r[z] /\ steps[z].inverse = FALSE
    BY <1>6, <1>8, <1>11
  <2>2. r[z] \in Known(m, u) /\ r[z] \in Anc(u.commands, n)
    BY <1>3, <1>7, <1>11
  <2>3. u.commands[r[z]].trackName = u.commands[n].trackName
    BY <1>1, <1>2, <2>2, AncestorsOfTrack
  <2> QED
    BY <1>1, <2>1, <2>2, <2>3 DEF StepFits
<1> QED
  BY <1>11, <1>12

(* The steps of a move fit: what it goes back over and down to, the object *)
(* has.                                                                    *)
LEMMA MoveStepsFit ==
  ASSUME NEW u, StoreFits(u), NEW i \in Track, NEW m, MemoryFits(i, m, u),
         NEW n \in {0} \cup DOMAIN m.parents, MayMoveTo(i, m, u, n),
         NEW steps, steps = StepsTo(m, u, n)
  PROVE  /\ steps \in Seq(StepRecord)
         /\ \A z \in 1 .. Len(steps) : StepFits(m, u, steps[z])
<1>1. MemoryParts(i, m, u) /\ NodesFit(m, u)
  BY DEF MemoryFits
<1>2. PICK c : c = CurrentNode(m, u)
  OBVIOUS
<1>3. c \in Range(m.nodes)
  BY <1>2 DEF MayMoveTo
<1>4. CASE ~ IsDivergent(m, n)
  <2>1. n \in Range(m.nodes)
    BY <1>4 DEF IsDivergent
  <2>2. steps = StepsAlong(m, Position(m, c), Position(m, n))
    BY <1>2, <1>4 DEF StepsTo
  <2> QED
    BY <1>1, <1>3, <2>1, <2>2, AlongFits
<1>5. CASE IsDivergent(m, n)
  <2>1. n \in DOMAIN m.parents
    BY <1>5 DEF MayMoveTo
  <2>2. PICK a : a = CommonAncestor(m, u, c, n)
    OBVIOUS
  <2>3. a \in Range(m.nodes)
    <3>1. Chain(m, u, c) \subseteq Range(m.nodes) /\ c \in 0 .. Len(u.commands)
      BY <1>1, <1>3, NodesAreClosed
    <3>2. Chain(m, u, n) \subseteq 1 .. Len(u.commands) /\ Len(u.commands) \in Nat
      <4>1. ParentsFit(u.commands, DOMAIN m.states, m.parents) /\ n \in 1 .. Len(u.commands)
        BY <1>1, <2>1 DEF MemoryParts, ParentsFit
      <4>2. Len(u.commands) \in Nat /\ n \in 0 .. Len(u.commands)
        BY <4>1, StoreFitsParts
      <4>3. LineageFacts(m, u, n)
        BY <4>1, <4>2, LineageLemma
      <4>4. Known(m, u) \subseteq 1 .. Len(u.commands)
        BY <4>1, FoundIsTree
      <4> QED
        BY <4>2, <4>3, <4>4 DEF LineageFacts
    <3> DEFINE S == {0} \cup (Chain(m, u, c) \cap Chain(m, u, n))
    <3>3. a = Max(S)
      BY <2>2 DEF CommonAncestor
    <3>4. S \in SUBSET (0 .. Len(u.commands)) /\ S # {}
      BY <3>2
    <3>5. Max(S) \in S
      <4> HIDE DEF S
      <4> QED
        BY <3>2, <3>4, MaxIsGreatest
    <3>6. 0 \in Range(m.nodes)
      <4>1. 1 \in DOMAIN m.nodes /\ m.nodes[1] = 0
        BY <1>1 DEF NodesFit
      <4> QED
        BY <4>1 DEF Range
    <3> QED
      BY <3>1, <3>3, <3>5, <3>6
  <2>4. PICK A : A = StepsAlong(m, Position(m, c), Position(m, a))
    OBVIOUS
  <2>5. PICK B : B = StepsToDescendant(m, u, a, n)
    OBVIOUS
  <2>6. A \in Seq(StepRecord) /\ \A z \in 1 .. Len(A) : StepFits(m, u, A[z])
    BY <1>1, <1>3, <2>3, <2>4, AlongFits
  <2>7. B \in Seq(StepRecord) /\ \A z \in 1 .. Len(B) : StepFits(m, u, B[z])
    BY <1>1, <2>1, <2>5, DescentFits
  <2>8. IsConcat(A, B, steps)
    BY <1>2, <1>5, <2>2, <2>4, <2>5 DEF StepsTo, IsConcat
  <2>9. ConcatParts(StepRecord, A, B, steps)
    BY <2>6, <2>7, <2>8, Concatenated
  <2>10. /\ steps \in Seq(StepRecord) /\ Len(steps) = Len(A) + Len(B)
         /\ \A z \in 1 .. Len(A) : steps[z] = A[z]
         /\ \A z \in 1 .. Len(B) : steps[Len(A) + z] = B[z]
         /\ Len(A) \in Nat /\ Len(B) \in Nat
    BY <2>6, <2>7, <2>9 DEF ConcatParts
  <2>11. ASSUME NEW z \in 1 .. Len(steps)
         PROVE  StepFits(m, u, steps[z])
    <3>1. CASE z \in 1 .. Len(A)
      BY <2>6, <2>10, <3>1
    <3>2. CASE z \notin 1 .. Len(A)
      <4>1. PICK y : y = z - Len(A)
        OBVIOUS
      <4>2. y \in 1 .. Len(B) /\ z = Len(A) + y
        BY <2>10, <3>2, <4>1
      <4> QED
        BY <2>7, <2>10, <4>2
    <3> QED
      BY <3>1, <3>2
  <2> QED
    BY <2>10, <2>11
<1> QED
  BY <1>4, <1>5

-----------------------------------------------------------------------------
(* What stays in the object store *)

(* A root has its current revision and its head, or is gone for good. *)
RootKept(o, p) ==
  IF o.stored[p] = {} THEN o.rows[p].deleted
  ELSE o.rows[p].current \in o.stored[p] /\ o.rows[p].head \in o.stored[p]

Kept(o) == \A p \in PersistentRoot : RootKept(o, p)

(* The root and the revisions of an operation are there. *)
OpKept(o, p, op) == o.stored[p] # {} /\ RevisionsOf(op) \subseteq o.stored[p]

Grown(o, o2) == \A p \in PersistentRoot : o.stored[p] \subseteq o2.stored[p]

(* What was there stays, and the roots have what they show. *)
KeptFrom(o, o2) == Kept(o2) /\ Grown(o, o2)

(* Operations stay kept, and are when their inverses are.                  *)
LEMMA OpsStayKept ==
  /\ \A o, o2 : \A p \in PersistentRoot : \A op :
       Grown(o, o2) /\ OpKept(o, p, op) => OpKept(o2, p, op)
  /\ \A o, p : \A op \in Operation : OpKept(o, p, op) => OpKept(o, p, Inversed(op))
  /\ \A o, o2, o3 : Grown(o, o2) /\ Grown(o2, o3) => Grown(o, o3)
  /\ \A o : Grown(o, o)
<1>1. ASSUME NEW o, NEW o2, NEW p \in PersistentRoot, NEW op, Grown(o, o2), OpKept(o, p, op)
      PROVE  OpKept(o2, p, op)
  BY <1>1 DEF Grown, OpKept
<1>2. ASSUME NEW o, NEW p, NEW op \in Operation, OpKept(o, p, op)
      PROVE  OpKept(o, p, Inversed(op))
  <2>1. /\ Inversed(op).kind = "set" <=> op.kind = "set"
        /\ op.kind = "set" => /\ Inversed(op).old = op.new /\ Inversed(op).new = op.old
                              /\ Inversed(op).oldHead = op.newHead
                              /\ Inversed(op).newHead = op.oldHead
    BY Operations
  <2>2. RevisionsOf(Inversed(op)) = RevisionsOf(op)
    BY <2>1 DEF RevisionsOf
  <2> QED
    BY <1>2, <2>2 DEF OpKept
<1> QED
  BY <1>1, <1>2 DEF Grown

(* A new revision is there.                                                *)
LEMMA WriteKeeps ==
  ASSUME NEW o, ObjectsOK(o), Kept(o), NEW p \in PersistentRoot, NEW edits,
         NEW o2, o2 = WriteRevision(o, p, edits)
  PROVE  KeptFrom(o, o2)
<1> DEFINE r == LastRevid(o, p) + 1
           row == [o.rows[p] EXCEPT !.current = r, !.head = r]
<1>1. /\ o.rows \in [PersistentRoot -> [current : Nat, head : Nat, deleted : BOOLEAN]]
      /\ o.stored \in [PersistentRoot -> SUBSET Nat]
  BY DEF ObjectsOK
<1>2. /\ o2.rows = [o.rows EXCEPT ![p] = row]
      /\ o2.stored = [o.stored EXCEPT ![p] = o.stored[p] \cup {r}]
  BY DEF WriteRevision, ObjectsOK
<1>3. row.current = r /\ row.head = r
  <2> HIDE DEF r
  <2> QED
    BY <1>1
<1> HIDE DEF r, row
<1>4. /\ o2.rows[p] = row /\ o2.stored[p] = o.stored[p] \cup {r}
      /\ \A q \in PersistentRoot \ {p} : o2.rows[q] = o.rows[q] /\ o2.stored[q] = o.stored[q]
  BY <1>1, <1>2
<1>5. ASSUME NEW q \in PersistentRoot
      PROVE  RootKept(o2, q) /\ o.stored[q] \subseteq o2.stored[q]
  <2>1. CASE q = p
    BY <1>3, <1>4, <2>1 DEF RootKept
  <2>2. CASE q # p
    BY <1>4, <2>2 DEF RootKept, Kept
  <2> QED
    BY <2>1, <2>2
<1> QED
  BY <1>5 DEF KeptFrom, Kept, Grown

(* A merge writes one.                                                     *)
LEMMA MergeKeeps ==
  ASSUME NEW o, ObjectsOK(o), Kept(o), NEW p \in PersistentRoot, NEW op,
         NEW o2, o2 = WriteMerge(o, p, op)
  PROVE  KeptFrom(o, o2)
<1>1. PICK w : w = WriteRevision(o, p, Merged(o, p, op))
  OBVIOUS
<1>2. KeptFrom(o, w)
  BY <1>1, WriteKeeps
<1>3. o2.rows = w.rows /\ o2.stored = w.stored
  BY <1>1 DEF WriteMerge, WriteRevision, ObjectsOK
<1> QED
  BY <1>2, <1>3 DEF KeptFrom, Kept, RootKept, Grown

(* A row that is set to revisions that are there.                          *)
LEMMA RowKeeps ==
  ASSUME NEW o, ObjectsOK(o), Kept(o), NEW p \in PersistentRoot, NEW row,
         row.current \in o.stored[p], row.head \in o.stored[p],
         NEW o2, RowSet(o, p, row, o2)
  PROVE  KeptFrom(o, o2)
<1>1. o.rows \in [PersistentRoot -> [current : Nat, head : Nat, deleted : BOOLEAN]]
  BY DEF ObjectsOK
<1>2. o2.rows = [o.rows EXCEPT ![p] = row] /\ o2.stored = o.stored
  BY DEF ObjectsOK, RowSet
<1>3. o2.rows[p] = row /\ \A q \in PersistentRoot \ {p} : o2.rows[q] = o.rows[q]
  BY <1>1, <1>2
<1>4. ASSUME NEW q \in PersistentRoot
      PROVE  RootKept(o2, q)
  <2>1. CASE q = p
    BY <1>2, <1>3, <2>1 DEF RootKept
  <2>2. CASE q # p
    BY <1>2, <1>3, <2>2 DEF RootKept, Kept
  <2> QED
    BY <2>1, <2>2
<1> QED
  BY <1>2, <1>4 DEF KeptFrom, Kept, Grown

(* A root that is there is deleted or undeleted.                           *)
LEMMA DeletionKeeps ==
  ASSUME NEW o, ObjectsOK(o), Kept(o), NEW p \in PersistentRoot, o.stored[p] # {},
         NEW b \in BOOLEAN, NEW o2, DeletedSet(o, p, b, o2)
  PROVE  KeptFrom(o, o2)
<1> DEFINE row == [o.rows[p] EXCEPT !.deleted = b]
<1>1. o.rows[p] \in [current : Nat, head : Nat, deleted : BOOLEAN]
  BY ObjectParts
<1>2. RowSet(o, p, row, o2)
  BY DEF RowSet, DeletedSet
<1>3. row.current = o.rows[p].current /\ row.head = o.rows[p].head
  BY <1>1, RowEdits
<1> HIDE DEF row
<1>4. o.rows[p].current \in o.stored[p] /\ o.rows[p].head \in o.stored[p]
  BY DEF Kept, RootKept
<1> QED
  BY <1>2, <1>3, <1>4, RowKeeps

(* A root is set to a revision that is there.                              *)
LEMMA AtRevisionKeeps ==
  ASSUME NEW o, ObjectsOK(o), Kept(o), NEW p \in PersistentRoot, NEW r \in o.stored[p],
         NEW o2, o2 = AtRevision(o, p, r)
  PROVE  KeptFrom(o, o2)
<1> DEFINE h == IF IsEqualToOrParent(o, p, r, o.rows[p].head) THEN o.rows[p].head ELSE r
           row == [o.rows[p] EXCEPT !.current = r, !.head = h]
<1>1. RowSet(o, p, row, o2)
  BY DEF AtRevision, RowSet
<1>2. o.rows[p].head \in o.stored[p] /\ o.stored[p] \subseteq Nat
  BY ObjectParts DEF Kept, RootKept
<1>3. h \in o.stored[p]
  BY <1>2
<1> HIDE DEF h
<1>4. o.rows[p] \in [current : Nat, head : Nat, deleted : BOOLEAN] /\ h \in Nat /\ r \in Nat
  BY <1>2, <1>3, ObjectParts
<1>5. row.current = r /\ row.head = h
  BY <1>4, RowEdits
<1> HIDE DEF row
<1> QED
  BY <1>1, <1>3, <1>5, RowKeeps

(* An operation whose revisions are there is carried out.                  *)
LEMMA AddKeeps ==
  ASSUME NEW o, ObjectsOK(o), Kept(o), NEW p \in PersistentRoot, NEW op, OpKept(o, p, op),
         NEW o2, o2 = AddToStoreTransaction(o, p, op) \/ o2 = AppliedToContext(o, p, op)
  PROVE  KeptFrom(o, o2)
<1>1. /\ o.stored[p] # {} /\ o.stored[p] \subseteq Nat
      /\ o.rows[p].current \in o.stored[p] /\ o.rows[p].head \in o.stored[p]
      /\ o.rows[p] \in [current : Nat, head : Nat, deleted : BOOLEAN]
  BY ObjectParts DEF OpKept, Kept, RootKept
<1>2. CASE op.kind # "set"
  <2> DEFINE b == (op.kind = "delete")
  <2>1. DeletedSet(o, p, b, o2)
    BY <1>2 DEF AddToStoreTransaction, AppliedToContext, DeletedSet
  <2>2. b \in BOOLEAN
    OBVIOUS
  <2> HIDE DEF b
  <2> QED
    BY <1>1, <2>1, <2>2, DeletionKeeps
<1>3. CASE op.kind = "set"
  <2>1. op.new \in o.stored[p] /\ op.newHead \in o.stored[p]
    BY <1>3 DEF OpKept, RevisionsOf
  <2>2. \/ o2 = AtRevision(o, p, op.new)
        \/ o2 = WriteRevision(o, p, SelectivelyApplied(o, p, op)) \/ o2 = WriteMerge(o, p, op)
        \/ o2 = o
        \/ \E h \in {o.rows[p].head, op.newHead} :
             RowSet(o, p, [o.rows[p] EXCEPT !.current = op.new, !.head = h], o2)
    <3>1. CASE o2 = AddToStoreTransaction(o, p, op)
      BY <1>3, <3>1 DEF AddToStoreTransaction, RowSet
    <3>2. CASE o2 = AppliedToContext(o, p, op)
      BY <1>3, <3>2 DEF AppliedToContext, RowSet
    <3> QED
      BY <3>1, <3>2
  <2>3. CASE o2 = AtRevision(o, p, op.new)
    BY <2>1, <2>3, AtRevisionKeeps
  <2>4. CASE o2 = WriteRevision(o, p, SelectivelyApplied(o, p, op))
    BY <2>4, WriteKeeps
  <2>7. CASE o2 = WriteMerge(o, p, op)
    BY <2>7, MergeKeeps
  <2>5. CASE o2 = o
    BY <2>5 DEF KeptFrom, Grown
  <2>6. CASE \E h \in {o.rows[p].head, op.newHead} :
               RowSet(o, p, [o.rows[p] EXCEPT !.current = op.new, !.head = h], o2)
    <3>1. PICK h \in {o.rows[p].head, op.newHead} :
                 RowSet(o, p, [o.rows[p] EXCEPT !.current = op.new, !.head = h], o2)
      BY <2>6
    <3>2. PICK row : row = [o.rows[p] EXCEPT !.current = op.new, !.head = h]
      OBVIOUS
    <3>3. h \in o.stored[p] /\ op.new \in Nat /\ h \in Nat
      BY <1>1, <2>1
    <3>4. row.current = op.new /\ row.head = h
      BY <1>1, <3>2, <3>3, RowEdits
    <3>5. RowSet(o, p, row, o2)
      BY <3>1, <3>2
    <3> QED
      BY <2>1, <3>3, <3>4, <3>5, RowKeeps
  <2> QED
    BY <2>2, <2>3, <2>4, <2>5, <2>6, <2>7
<1> QED
  BY <1>2, <1>3

(* The command for a change has its revisions.                             *)
LEMMA CommandForKept ==
  ASSUME NEW o, Kept(o), NEW o2, KeptFrom(o, o2), NEW p \in PersistentRoot, o.stored[p] # {},
         NEW op, op = CommandFor(p, o.rows[p], o2.rows[p])
  PROVE  OpKept(o2, p, op)
<1>1. /\ o.rows[p].current \in o.stored[p] /\ o.rows[p].head \in o.stored[p]
      /\ o.stored[p] \subseteq o2.stored[p]
  BY DEF Kept, KeptFrom, RootKept, Grown
<1>2. o2.rows[p].current \in o2.stored[p] /\ o2.rows[p].head \in o2.stored[p]
  BY <1>1 DEF KeptFrom, Kept, RootKept
<1>3. RevisionsOf(op) \subseteq
        {o.rows[p].current, o.rows[p].head, o2.rows[p].current, o2.rows[p].head}
  BY DEF CommandFor, RevisionsOf
<1> QED
  BY <1>1, <1>2, <1>3 DEF OpKept

-----------------------------------------------------------------------------
(* Moving *)

(* What holds of the stores and of the memory between two steps. *)
MoveFits(i, d) ==
  /\ ObjectsOK(d.o) /\ StoreFits(d.u) /\ CommandsFit(d.o, d.u)
  /\ MemoryFits(i, d.m, d.u)

(* Only states differ in the memory, and only tracks in the undo store. *)
OnlyStates(d, d2) ==
  /\ OnlyTracks(d.u, d2.u)
  /\ d2.m.parents = d.m.parents /\ d2.m.nodes = d.m.nodes
  /\ DOMAIN d2.m.states = DOMAIN d.m.states

StepKept(o, u, step) ==
  OpKept(o, u.commands[step.command].root, u.commands[step.command].operation)

(* A memory with other states fits, if they are of its tracks.             *)
LEMMA OnlyStatesFits ==
  ASSUME NEW i \in Track, NEW d, MemoryFits(i, d.m, d.u), NEW d2, OnlyStates(d, d2),
         d2.m \in [states : States, parents : ParentMaps, nodes : Seq(Nat)],
         StatesFit(i, d2.u.commands, d2.m.states)
  PROVE  MemoryFits(i, d2.m, d2.u)
<1>1. /\ d2.u.commands = d.u.commands /\ LiveRows(d2.u) = LiveRows(d.u)
      /\ d2.m.parents = d.m.parents /\ d2.m.nodes = d.m.nodes
      /\ DOMAIN d2.m.states = DOMAIN d.m.states
  BY DEF OnlyStates, OnlyTracks, LiveRows
<1>2. Known(d2.m, d2.u) = Known(d.m, d.u)
  BY <1>1 DEF Known
<1>3. MemoryParts(i, d2.m, d2.u)
  BY <1>1 DEF MemoryFits, MemoryParts
<1>4. NodesFit(d2.m, d2.u)
  BY <1>1, <1>2 DEF MemoryFits, NodesFit
<1>5. HasAll(i, d2.m, d2.u)
  BY <1>1 DEF MemoryFits, HasAll
<1> QED
  BY <1>3, <1>4, <1>5 DEF MemoryFits

(* One step of a move.                                                     *)
LEMMA StepStays ==
  ASSUME NEW i \in Track, NEW d, MoveFits(i, d), NEW step, StepFits(d.m, d.u, step),
         NEW d2, d2 = DoCommand(d, step)
  PROVE  /\ MoveFits(i, d2) /\ OnlyStates(d, d2) /\ Later(d.o, d2.o)
         /\ Kept(d.o) /\ StepKept(d.o, d.u, step) => KeptFrom(d.o, d2.o)
<1> DEFINE u == d.u
           m == d.m
           cs == d.u.commands
           n == step.command
           c == cs[n]
           t == c.trackName
           current == IF step.inverse THEN m.parents[n] ELSE n
           head == m.states[t].head
           newHead == HeadAfter(m, u, head, current)
           op == StepOperation(cs, step)
<1>1. Ordered(cs) /\ Len(cs) \in Nat
  BY StoreFitsParts DEF MoveFits
<1>2. /\ m \in [states : States, parents : ParentMaps, nodes : Seq(Nat)]
      /\ StatesFit(i, cs, m.states) /\ ParentsFit(cs, DOMAIN m.states, m.parents)
  BY DEF MoveFits, MemoryFits, MemoryParts
<1>3. /\ n \in 1 .. Len(cs) /\ t \in DOMAIN m.states /\ t \in TrackName
      /\ step.inverse \in BOOLEAN
  <2>1. Known(m, u) \subseteq 1 .. Len(cs)
    BY <1>2, FoundIsTree DEF MoveFits
  <2>2. DOMAIN m.states \subseteq TrackName
    BY <1>2, StatesAreFunctions
  <2> QED
    BY <2>1, <2>2 DEF StepFits
<1>4. /\ c \in Command /\ c.root \in PersistentRoot /\ c.operation \in Operation
      /\ OfTrack(cs, t, c.parent)
  BY <1>1, <1>3, CommandTree DEF Command, OfTrack
<1>5. OfTrack(cs, t, current)
  <2>1. CASE step.inverse = TRUE
    <3>1. n \in DOMAIN m.parents
      BY <2>1 DEF StepFits
    <3>2. m.parents[n] \in {0, c.parent}
      BY <1>2, <3>1 DEF ParentsFit
    <3> QED
      BY <1>4, <2>1, <3>2 DEF OfTrack
  <2>2. CASE step.inverse = FALSE
    BY <1>3, <2>2 DEF OfTrack
  <2> QED
    BY <1>3, <2>1, <2>2
<1>6. OfTrack(cs, t, head)
  BY <1>2, <1>3 DEF StatesFit
<1> PICK state : state = [current |-> current, head |-> newHead]
  OBVIOUS
<1>7. /\ d2.o = AddToStoreTransaction(d.o, c.root, op)
      /\ d2.u = SetTrackState(u, t, state)
      /\ StateSet(m, t, state, d2.m)
  BY DEF DoCommand, StepOperation, StateSet
<1>8. state.current = current /\ state.head = newHead
  OBVIOUS
<1> HIDE DEF op, current, head
<1>9. /\ state \in State /\ OfTrack(cs, t, state.head) /\ OfTrack(cs, t, state.current)
      /\ state.current \in {0} \cup Anc(cs, state.head)
  <2>1. current \in Nat /\ head \in Nat /\ current \in 0 .. Len(cs) /\ head \in 0 .. Len(cs)
    BY <1>1, <1>5, <1>6 DEF OfTrack
  <2>2. CASE current \in {0} \cup Lineage(m, u, head)
    <3>1. state.head = head
      BY <1>8, <2>2 DEF HeadAfter
    <3>2. Lineage(m, u, head) \subseteq Anc(cs, head)
      <4>1. \A x \in 0 .. Len(cs) : LineageFacts(m, u, x)
        BY <1>2, LineageLemma DEF MoveFits
      <4> QED
        BY <2>1, <4>1 DEF LineageFacts
    <3>3. state \in State
      BY <1>8, <2>1, <3>1 DEF State
    <3> QED
      BY <1>5, <1>6, <1>8, <2>2, <3>1, <3>2, <3>3
  <2>3. CASE current \notin {0} \cup Lineage(m, u, head)
    <3>1. state.head = current
      BY <1>8, <2>3 DEF HeadAfter
    <3>2. current \in Anc(cs, current)
      <4>1. current \in 1 .. Len(cs)
        BY <1>5, <2>3 DEF OfTrack
      <4> QED
        BY <1>1, <4>1, AncFacts
    <3>3. state \in State
      BY <1>8, <2>1, <3>1 DEF State
    <3> QED
      BY <1>5, <1>8, <3>1, <3>2, <3>3
  <2> QED
    BY <2>2, <2>3
<1> HIDE DEF newHead
<1>10. StoreFits(d2.u) /\ OnlyTracks(u, d2.u)
  <2>1. PICK u2 : u2 = d2.u
    OBVIOUS
  <2>2. PICK v : v = u
    OBVIOUS
  <2>3. PICK s : s = t
    OBVIOUS
  <2>4. /\ StoreFits(v) /\ s \in TrackName /\ state \in State
        /\ OfTrack(v.commands, s, state.head)
        /\ state.current \in {0} \cup Anc(v.commands, state.head)
        /\ u2 = SetTrackState(v, s, state)
    BY <1>3, <1>7, <1>9, <2>1, <2>2, <2>3 DEF MoveFits
  <2>5. StoreFits(u2) /\ OnlyTracks(v, u2)
    <3> HIDE DEF u, t
    <3> QED
      BY <2>4, SetStateFits
  <2> QED
    BY <2>1, <2>2, <2>5
<1>11. /\ d2.m \in [states : States, parents : ParentMaps, nodes : Seq(Nat)]
       /\ d2.m.parents = m.parents /\ d2.m.nodes = m.nodes
       /\ DOMAIN d2.m.states = DOMAIN m.states /\ d2.m.states[t] = state
       /\ \A s \in DOMAIN m.states \ {t} : d2.m.states[s] = m.states[s]
  BY <1>2, <1>3, <1>7, <1>9, StateEdit
<1>12. OnlyStates(d, d2)
  BY <1>10, <1>11 DEF OnlyStates
<1>13. d2.u.commands = cs
  BY <1>10 DEF OnlyTracks
<1>14. StatesFit(i, d2.u.commands, d2.m.states)
  <2>1. /\ DOMAIN m.states \subseteq NamesOf[i]
        /\ \A s \in DOMAIN m.states :
             OfTrack(cs, s, m.states[s].head) /\ OfTrack(cs, s, m.states[s].current)
    BY <1>2 DEF StatesFit
  <2>2. d2.m.states \in States
    BY <1>11
  <2>3. ASSUME NEW s \in DOMAIN d2.m.states
        PROVE  OfTrack(cs, s, d2.m.states[s].head) /\ OfTrack(cs, s, d2.m.states[s].current)
    BY <1>9, <1>11, <2>1
  <2> QED
    BY <1>11, <1>13, <2>1, <2>2, <2>3 DEF StatesFit
<1>15. MemoryFits(i, d2.m, d2.u)
  BY <1>11, <1>12, <1>14, OnlyStatesFits DEF MoveFits
<1>16. OpFits(d.o, c.root, op)
  <2>1. OpFits(d.o, c.root, c.operation)
    BY <1>3 DEF MoveFits, CommandsFit
  <2>2. op = c.operation \/ op = Inversed(c.operation)
    BY DEF op, StepOperation
  <2> QED
    BY <2>1, <2>2, InverseFits
<1>17. ObjectsOK(d2.o) /\ Later(d.o, d2.o)
  <2>1. Changed(d.o, c.root, d2.o)
    <3> HIDE DEF c
    <3> QED
      BY <1>4, <1>7, <1>16, AddChanges DEF MoveFits
  <2> QED
    BY <2>1 DEF Changed
<1>18. CommandsFit(d2.o, d2.u)
  <2> SUFFICES ASSUME NEW a \in 1 .. Len(cs)
               PROVE  OpFits(d2.o, cs[a].root, cs[a].operation)
    BY <1>13 DEF CommandsFit
  <2>1. OpFits(d.o, cs[a].root, cs[a].operation)
    BY DEF MoveFits, CommandsFit
  <2>2. cs[a].root \in PersistentRoot
    BY <1>1, CommandTree DEF Command
  <2> QED
    BY <1>17, <2>1, <2>2, LaterKeeps DEF MoveFits
<1>19. ASSUME Kept(d.o), StepKept(d.o, d.u, step)
       PROVE  KeptFrom(d.o, d2.o)
  <2>1. OpKept(d.o, c.root, c.operation)
    BY <1>19 DEF StepKept
  <2>2. OpKept(d.o, c.root, op)
    BY <1>4, <2>1, OpsStayKept DEF op, StepOperation
  <2> HIDE DEF c
  <2> QED
    BY <1>4, <1>7, <1>19, <2>2, AddKeeps DEF MoveFits
<1>20. MoveFits(i, d2)
  BY <1>10, <1>15, <1>17, <1>18 DEF MoveFits
<1> QED
  BY <1>12, <1>17, <1>19, <1>20

(* The stores, and what track objects have of them, between two actions. *)
StoresFit ==
  /\ ObjectsOK(objectStore) /\ StoreFits(undoStore) /\ CommandsFit(objectStore, undoStore)
  /\ AllFit

StepsFit(i, steps) ==
  Len(steps) \in Nat /\ \A z \in 1 .. Len(steps) : StepFits(memory[i], undoStore, steps[z])

AllStepsKept(o, steps) == \A z \in 1 .. Len(steps) : StepKept(o, undoStore, steps[z])

(* What some steps leave. *)
AfterFits(i, steps, d) ==
  /\ MoveFits(i, d) /\ OnlyStates(StartOfMove(i), d) /\ Later(objectStore, d.o)
  /\ Kept(objectStore) /\ AllStepsKept(objectStore, steps) => KeptFrom(objectStore, d.o)

(* The step after others.                                                  *)
LEMMA NextStepFits ==
  ASSUME StoresFit, NEW i \in Track, NEW steps, StepsFit(i, steps), NEW k \in 1 .. Len(steps),
         NEW d, AfterFits(i, steps, d), NEW d2, d2 = DoCommand(d, steps[k])
  PROVE  AfterFits(i, steps, d2)
<1>1. PICK step : step = steps[k]
  OBVIOUS
<1>2. /\ MoveFits(i, d) /\ OnlyStates(StartOfMove(i), d) /\ Later(objectStore, d.o)
      /\ StepFits(memory[i], undoStore, step)
  BY <1>1 DEF AfterFits, StepsFit
<1>3. /\ StartOfMove(i).u = undoStore /\ StartOfMove(i).m = memory[i]
  BY DEF StartOfMove
<1>4. /\ d.u.commands = undoStore.commands /\ LiveRows(d.u) = LiveRows(undoStore)
      /\ d.m.parents = memory[i].parents /\ DOMAIN d.m.states = DOMAIN memory[i].states
  BY <1>2, <1>3 DEF OnlyStates, OnlyTracks, LiveRows
<1>5. StepFits(d.m, d.u, step)
  BY <1>2, <1>4 DEF StepFits, Known
<1>6. /\ MoveFits(i, d2) /\ OnlyStates(d, d2) /\ Later(d.o, d2.o)
      /\ Kept(d.o) /\ StepKept(d.o, d.u, step) => KeptFrom(d.o, d2.o)
  BY <1>1, <1>2, <1>5, StepStays
<1>7. OnlyStates(StartOfMove(i), d2)
  BY <1>2, <1>6 DEF OnlyStates, OnlyTracks
<1>8. Later(objectStore, d2.o)
  <2>1. ObjectsOK(objectStore) /\ ObjectsOK(d.o) /\ ObjectsOK(d2.o)
    BY <1>2, <1>6 DEF StoresFit, MoveFits
  <2> QED
    BY <1>2, <1>6, <2>1, LaterTransitive
<1>9. ASSUME Kept(objectStore), AllStepsKept(objectStore, steps)
      PROVE  KeptFrom(objectStore, d2.o)
  <2>1. KeptFrom(objectStore, d.o)
    BY <1>9 DEF AfterFits
  <2>2. StepKept(objectStore, undoStore, step)
    BY <1>1, <1>9 DEF AllStepsKept
  <2>3. undoStore.commands[step.command].root \in PersistentRoot
    <3>1. step.command \in 1 .. Len(undoStore.commands)
      <4>1. ParentsFit(undoStore.commands, DOMAIN memory[i].states, memory[i].parents)
        BY DEF StoresFit, AllFit, MemoryFits, MemoryParts
      <4>2. Known(memory[i], undoStore) \subseteq 1 .. Len(undoStore.commands)
        <5>1. PICK m : m = memory[i]
          OBVIOUS
        <5> QED
          BY <4>1, <5>1, FoundIsTree DEF StoresFit
      <4> QED
        BY <1>2, <4>2 DEF StepFits
    <3>2. Ordered(undoStore.commands)
      BY StoreFitsParts DEF StoresFit
    <3> QED
      BY <3>1, <3>2, CommandTree DEF Command
  <2>4. StepKept(d.o, d.u, step)
    BY <1>4, <2>1, <2>2, <2>3, OpsStayKept DEF StepKept, KeptFrom
  <2>5. KeptFrom(d.o, d2.o)
    BY <1>6, <2>1, <2>4 DEF KeptFrom
  <2> QED
    BY <2>1, <2>5, OpsStayKept DEF KeptFrom
<1> QED
  BY <1>6, <1>7, <1>8, <1>9 DEF AfterFits

(* What a move leaves.                                                     *)
LEMMA MoveLeaves ==
  ASSUME StoresFit, NEW i \in Track, NEW steps, StepsFit(i, steps)
  PROVE  AfterFits(i, steps, Done(i, steps))
<1>1. PICK f : f = DoneAfter(i, steps)
  OBVIOUS
<1>2. /\ Len(steps) \in Nat /\ f[0] = StartOfMove(i) /\ Done(i, steps) = f[Len(steps)]
      /\ \A k \in 1 .. Len(steps) : f[k] = DoCommand(f[k - 1], steps[k])
  BY <1>1, DoneSteps DEF StepsFit
<1>3. AfterFits(i, steps, f[0])
  <2>1. f[0].o = objectStore /\ f[0].u = undoStore /\ f[0].m = memory[i]
    BY <1>2 DEF StartOfMove
  <2>2. MoveFits(i, f[0])
    BY <2>1 DEF StoresFit, AllFit, MoveFits
  <2>3. Later(objectStore, objectStore)
    BY LaterTransitive DEF StoresFit
  <2>4. OnlyStates(StartOfMove(i), f[0])
    BY <1>2 DEF OnlyStates, OnlyTracks
  <2> QED
    BY <2>1, <2>2, <2>3, <2>4, OpsStayKept DEF AfterFits, KeptFrom
<1> DEFINE Bad == {k \in 0 .. Len(steps) : ~ AfterFits(i, steps, f[k])}
<1>4. Bad = {}
  <2> SUFFICES ASSUME Bad # {}
               PROVE  FALSE
    OBVIOUS
  <2>1. PICK k \in Bad : \A j \in Bad : k <= j
    <3>1. Bad \in SUBSET Nat
      BY <1>2
    <3> HIDE DEF Bad
    <3> QED
      BY <3>1, LeastNumber
  <2>2. k \in 0 .. Len(steps) /\ ~ AfterFits(i, steps, f[k])
    OBVIOUS
  <2>3. k \in 1 .. Len(steps) /\ k - 1 \in 0 .. Len(steps) /\ ~ (k <= k - 1)
    <3>1. k # 0
      BY <1>3, <2>2
    <3> QED
      BY <1>2, <2>2, <3>1
  <2>4. AfterFits(i, steps, f[k - 1])
    <3>1. k - 1 \notin Bad
      <4> HIDE DEF Bad
      <4> QED
        BY <2>1, <2>3
    <3> QED
      BY <2>3, <3>1
  <2>5. f[k] = DoCommand(f[k - 1], steps[k])
    BY <1>2, <2>3
  <2>6. AfterFits(i, steps, f[k])
    <3> HIDE DEF Bad
    <3> QED
      BY <2>3, <2>4, <2>5, NextStepFits
  <2> QED
    BY <2>2, <2>6
<1>5. Len(steps) \in 0 .. Len(steps)
  BY <1>2
<1> QED
  BY <1>2, <1>4, <1>5

(* The memory a move commits.                                              *)
LEMMA AfterMoveFits ==
  ASSUME NEW i \in Track, NEW d, MoveFits(i, d), NEW n, NEW m, m = NodesAfterMove(i, d, n)
  PROVE  /\ MemoryFits(i, m, d.u)
         /\ DOMAIN m.parents \subseteq DOMAIN d.m.parents \cup LiveRows(d.u)
<1>1. PICK u : u = d.u
  OBVIOUS
<1>2. PICK w : w = d.m
  OBVIOUS
<1>3. StoreFits(u) /\ MemoryFits(i, w, u) /\ MemoryParts(i, w, u)
  BY <1>1, <1>2 DEF MoveFits, MemoryFits
<1>4. CASE m = ReloadNodes(i, w, u)
  <2>1. MemoryFits(i, m, u) /\ LoadedFrom(i, w, m, u)
    BY <1>3, <1>4, ReloadNodesFits
  <2> QED
    BY <1>1, <1>2, <2>1 DEF LoadedFrom
<1>5. CASE m = w
  BY <1>1, <1>2, <1>3, <1>5
<1> QED
  BY <1>1, <1>2, <1>4, <1>5 DEF NodesAfterMove

(* A move along a track: the object store commits, and then the undo store *)
(* or the process ends.  Of the commands it has one uses no other.         *)
LEMMA MoveCommitsFit ==
  ASSUME StoresFit, NEW i \in Track, NEW n \in {0} \cup DOMAIN memory[i].parents,
         SetCurrentNode(i, n),
         NEW steps, steps = StepsTo(memory[i], undoStore, n),
         NEW d, d = Done(i, steps)
  PROVE  /\ AfterFits(i, steps, d) /\ objectStore' = d.o
         /\ undoStore'.commands = undoStore.commands
         /\ CommandsOf(steps) \subseteq InUse(undoStore, memory)
         /\ \A z \in 1 .. Len(steps) : steps[z].command \in CommandsOf(steps)
         /\ StoreFits(undoStore)' /\ AllFit'
         /\ InUse(undoStore, memory)' \subseteq InUse(undoStore, memory)
<1> PICK u : u = undoStore
  OBVIOUS
<1>1. StoreFits(u) /\ StoreFits(undoStore) /\ AllFit /\ MemoryFits(i, memory[i], u)
  BY DEF StoresFit, AllFit
<1>2. MayMoveTo(i, memory[i], u, n)
  BY DEF SetCurrentNode
<1>3. /\ steps \in Seq(StepRecord)
      /\ \A z \in 1 .. Len(steps) : StepFits(memory[i], u, steps[z])
  <2>1. PICK m : m = memory[i]
    OBVIOUS
  <2>2. n \in {0} \cup DOMAIN m.parents /\ MayMoveTo(i, m, u, n) /\ steps = StepsTo(m, u, n)
    BY <1>2, <2>1
  <2>3. /\ steps \in Seq(StepRecord)
        /\ \A z \in 1 .. Len(steps) : StepFits(m, u, steps[z])
    BY <1>1, <2>1, <2>2, MoveStepsFit
  <2> QED
    BY <2>1, <2>3
<1>4. DOMAIN steps = 1 .. Len(steps) /\ Len(steps) \in Nat
  BY <1>3
<1>5. AfterFits(i, steps, d)
  <2>1. StepsFit(i, steps)
    BY <1>3, <1>4 DEF StepsFit
  <2> QED
    BY <2>1, MoveLeaves
<1>6. /\ MoveFits(i, d) /\ OnlyTracks(u, d.u) /\ d.m.parents = memory[i].parents
  BY <1>5 DEF AfterFits, OnlyStates, StartOfMove
<1>7. objectStore' = d.o /\ (CommitMove(i, n, steps, d) \/ CrashInMove(steps))
  BY DEF SetCurrentNode
<1>8. /\ CommandsOf(steps) \subseteq InUse(undoStore, memory)
      /\ \A z \in 1 .. Len(steps) : steps[z].command \in CommandsOf(steps)
  BY <1>3, <1>4 DEF CommandsOf, StepFits, Known, InUse
<1>9. CASE CommitMove(i, n, steps, d)
  <2>1. PICK u2 : u2 = d.u
    OBVIOUS
  <2>2. PICK m : m = NodesAfterMove(i, d, n)
    OBVIOUS
  <2>3. PICK changed :
          changed = [t \in {undoStore.commands[c].trackName : c \in CommandsOf(steps)} |->
                       d.m.states[t]]
    OBVIOUS
  <2>4. CommitUndoStore(i, m, u2, changed)
    BY <1>9, <2>1, <2>2, <2>3 DEF CommitMove
  <2>5. /\ MemoryFits(i, m, u2)
        /\ DOMAIN m.parents \subseteq DOMAIN d.m.parents \cup LiveRows(u2)
    BY <1>6, <2>1, <2>2, AfterMoveFits
  <2>6. /\ StoreFits(u2) /\ u2.commands = u.commands /\ LiveRows(u2) = LiveRows(u)
    BY <1>6, <2>1 DEF MoveFits, OnlyTracks, LiveRows
  <2>7. GoesOn(u, u2)
    <3>1. Len(u.commands) \in Nat
      BY <1>1, StoreFitsParts
    <3> QED
      BY <2>6, <3>1 DEF GoesOn
  <2>8. Reaches(undoStore, u2, memory, changed)
    BY <2>6 DEF Reaches
  <2>9. undoStore' = u2 /\ AllFit' /\ ParentsFrom(i, m, memory, u2, memory')
    BY <1>1, <2>4, <2>5, <2>6, <2>7, <2>8, CommitFits
  <2>10. InUse(undoStore, memory)' \subseteq InUse(undoStore, memory)
    <3>1. LiveRows(undoStore') = LiveRows(undoStore)
      BY <2>6, <2>9
    <3>2. ASSUME NEW j \in Track
          PROVE  DOMAIN memory'[j].parents \subseteq InUse(undoStore, memory)
      <4>1. DOMAIN memory'[j].parents
              \subseteq DOMAIN m.parents \cup DOMAIN memory[j].parents \cup LiveRows(u2)
        BY <2>9 DEF ParentsFrom
      <4>2. DOMAIN m.parents \subseteq DOMAIN memory[i].parents \cup LiveRows(u2)
        BY <1>6, <2>5
      <4> QED
        BY <2>6, <4>1, <4>2 DEF InUse
    <3> QED
      BY <3>1, <3>2 DEF InUse
  <2>11. StoreFits(undoStore)' /\ undoStore'.commands = undoStore.commands
    BY <2>6, <2>9
  <2> QED
    BY <1>5, <1>7, <1>8, <2>9, <2>10, <2>11
<1>10. CASE CrashInMove(steps)
  <2>1. undoStore' = u /\ memory' = [j \in Track |-> Loaded(j, u)]
    BY <1>10 DEF CrashInMove, Crash
  <2>2. AllFit' /\ InUse(undoStore, memory)' \subseteq LiveRows(u)
    <3>1. \A j \in Track : /\ MemoryFits(j, memory'[j], u)
                           /\ DOMAIN memory'[j].parents \subseteq LiveRows(u)
      BY <1>1, <2>1, LoadedFits
    <3> QED
      BY <2>1, <3>1 DEF AllFit, InUse
  <2>3. InUse(undoStore, memory)' \subseteq InUse(undoStore, memory)
    BY <2>2 DEF InUse
  <2>4. StoreFits(undoStore)' /\ undoStore'.commands = undoStore.commands
    BY <1>1, <2>1
  <2> QED
    BY <1>5, <1>7, <1>8, <2>2, <2>3, <2>4
<1> QED
  BY <1>7, <1>9, <1>10

-----------------------------------------------------------------------------
(* The invariant: what fits, and what is kept *)

FitsInv ==
  /\ StoresFit
  /\ \A p \in PersistentRoot : LastRevid(objectStore, p) <= MaxRevid
  /\ baseline \in [PersistentRoot -> SUBSET Nat]
  /\ \A p \in PersistentRoot : baseline[p] \subseteq 1 .. LastRevid(objectStore, p)
  /\ interrupted \subseteq 1 .. Len(undoStore.commands)
  /\ crashes \in 0 .. MaxCrashes

(* Every root has what it shows, and the commands in use what they set. *)
AllKept(o) ==
  /\ Kept(o)
  /\ \A c \in InUse(undoStore, memory) :
       OpKept(o, undoStore.commands[c].root, undoStore.commands[c].operation)

(* The commands in use are commands.                                       *)
LEMMA InUseAreCommands ==
  ASSUME StoreFits(undoStore), AllFit
  PROVE  /\ InUse(undoStore, memory) \subseteq 1 .. Len(undoStore.commands)
         /\ \A c \in 1 .. Len(undoStore.commands) :
              /\ undoStore.commands[c] \in Command
              /\ undoStore.commands[c].root \in PersistentRoot
              /\ undoStore.commands[c].operation \in Operation
<1>1. LiveRows(undoStore) \subseteq 1 .. Len(undoStore.commands) /\ Ordered(undoStore.commands)
  BY StoreFitsParts
<1>2. \A j \in Track : DOMAIN memory[j].parents \subseteq 1 .. Len(undoStore.commands)
  BY DEF AllFit, MemoryFits, MemoryParts, ParentsFit
<1>3. \A c \in 1 .. Len(undoStore.commands) : undoStore.commands[c] \in Command
  BY <1>1, CommandTree
<1> QED
  BY <1>1, <1>2, <1>3 DEF InUse, Command

(* Commands still fit a later object store.                                *)
LEMMA CommandsFitLater ==
  ASSUME NEW o, ObjectsOK(o), NEW o2, ObjectsOK(o2), Later(o, o2),
         NEW u, StoreFits(u), CommandsFit(o, u), NEW u2, u2.commands = u.commands
  PROVE  CommandsFit(o2, u2)
<1> SUFFICES ASSUME NEW c \in 1 .. Len(u.commands)
             PROVE  OpFits(o2, u.commands[c].root, u.commands[c].operation)
  BY DEF CommandsFit
<1>1. OpFits(o, u.commands[c].root, u.commands[c].operation)
  BY DEF CommandsFit
<1>2. u.commands[c].root \in PersistentRoot
  <2>1. Ordered(u.commands)
    BY StoreFitsParts
  <2> QED
    BY <2>1, CommandTree DEF Command
<1> QED
  BY <1>1, <1>2, LaterKeeps

(* A step keeps the invariant, and what is kept. *)
Stays == FitsInv' /\ (AllKept(objectStore) => AllKept(objectStore)')

(* It holds of the empty stores.                                           *)
LEMMA FitsInit ==
  Init => FitsInv /\ AllKept(objectStore)
<1> SUFFICES ASSUME Init
             PROVE  FitsInv /\ AllKept(objectStore)
  OBVIOUS
<1>1. UndoInv
  BY UndoInit
<1>2. /\ undoStore.commands = << >> /\ undoStore.rows = {} /\ undoStore.marked = {}
      /\ undoStore.tracks = << >> /\ memory = [i \in Track |-> Loaded(i, undoStore)]
  BY DEF Init
<1>3. /\ DOMAIN << >> = {} /\ Len(<< >>) = 0
  OBVIOUS
<1>4. StoreFits(undoStore)
  <2>1. /\ undoStore \in [commands : Seq(Command), rows : SUBSET Nat, marked : SUBSET Nat,
                          tracks : States]
        /\ Ordered(undoStore.commands)
    BY <1>1 DEF UndoInv, StoresOK, StoreOK, KeepsRows
  <2> QED
    BY <1>2, <1>3, <2>1 DEF StoreFits
<1>5. \A j \in Track : MemoryFits(j, memory[j], undoStore) /\ DOMAIN memory[j].parents = {}
  <2> TAKE j \in Track
  <2>1. /\ MemoryFits(j, Loaded(j, undoStore), undoStore)
        /\ DOMAIN Loaded(j, undoStore).parents \subseteq LiveRows(undoStore)
    BY <1>4, LoadedFits
  <2>2. LiveRows(undoStore) = {} /\ memory[j] = Loaded(j, undoStore)
    BY <1>2 DEF LiveRows
  <2> QED
    BY <2>1, <2>2
<1>6. StoresFit
  BY <1>1, <1>2, <1>4, <1>5 DEF UndoInv, StoresOK, StoresFit, AllFit
<1>7. FitsInv
  BY <1>1, <1>6 DEF UndoInv, FitsInv
<1>8. InUse(undoStore, memory) = {}
  BY <1>2, <1>5 DEF InUse, LiveRows
<1>9. Kept(objectStore)
  <2>1. \A p \in PersistentRoot :
          /\ objectStore.rows[p].current = 1 /\ objectStore.rows[p].head = 1
          /\ objectStore.stored[p] = {1}
    BY DEF Init
  <2> QED
    BY <2>1 DEF Kept, RootKept
<1> QED
  BY <1>7, <1>8, <1>9 DEF AllKept

(* What is kept, after an object store that has at least as much.          *)
LEMMA GrownKeeps ==
  ASSUME StoreFits(undoStore), AllFit, NEW o, AllKept(o), NEW o2, KeptFrom(o, o2)
  PROVE  AllKept(o2)
<1>1. ASSUME NEW c \in InUse(undoStore, memory)
      PROVE  OpKept(o2, undoStore.commands[c].root, undoStore.commands[c].operation)
  <2>1. undoStore.commands[c].root \in PersistentRoot
    BY InUseAreCommands
  <2>2. OpKept(o, undoStore.commands[c].root, undoStore.commands[c].operation) /\ Grown(o, o2)
    BY DEF AllKept, KeptFrom
  <2> QED
    BY <2>1, <2>2, OpsStayKept
<1> QED
  BY <1>1 DEF AllKept, KeptFrom

(* Baselines stay within the revisions. *)
LEMMA BaselineFits ==
  ASSUME FitsInv, NEW o2, ObjectsOK(o2), Later(objectStore, o2)
  PROVE  /\ baseline \in [PersistentRoot -> SUBSET Nat]
         /\ \A q \in PersistentRoot : baseline[q] \subseteq 1 .. LastRevid(o2, q)
<1> SUFFICES ASSUME NEW q \in PersistentRoot
             PROVE  baseline[q] \subseteq 1 .. LastRevid(o2, q)
  BY DEF FitsInv
<1>1. LastRevid(objectStore, q) \in Nat /\ LastRevid(o2, q) \in Nat
  BY ObjectParts DEF FitsInv, StoresFit
<1>2. LastRevid(objectStore, q) <= LastRevid(o2, q) /\ baseline[q] \subseteq 1 .. LastRevid(objectStore, q)
  BY DEF Later, FitsInv
<1> QED
  BY <1>1, <1>2

(* A commit that no track hears of.                                        *)
LEMMA UnrecordedStays ==
  ASSUME FitsInv, NEW p \in PersistentRoot, CommitUnrecorded(p)
  PROVE  Stays
<1>1. /\ ObjectsOK(objectStore) /\ StoreFits(undoStore) /\ CommandsFit(objectStore, undoStore)
      /\ AllFit
  BY DEF FitsInv, StoresFit
<1>2. PICK o2 : o2 = NewEdit(objectStore, p)
  OBVIOUS
<1>3. Recordable(objectStore, p, o2) /\ LastRevid(o2, p) = LastRevid(objectStore, p) + 1
  BY <1>1, <1>2, NewEditRecordable
<1>4. /\ objectStore' = o2 /\ undoStore' = undoStore /\ memory' = memory
      /\ LastRevid(objectStore, p) < MaxRevid
      /\ baseline' = [baseline EXCEPT ![p] = @ \cup {LastRevid(objectStore, p) + 1}]
      /\ interrupted' = interrupted /\ crashes' = crashes
  BY <1>2 DEF CommitUnrecorded
<1>5. /\ ObjectsOK(o2) /\ Later(objectStore, o2)
      /\ \A q \in PersistentRoot \ {p} : LastRevid(o2, q) = LastRevid(objectStore, q)
  BY <1>3 DEF Recordable, Changed, LastRevid
<1>6. CommandsFit(o2, undoStore)
  BY <1>1, <1>5, CommandsFitLater
<1>7. AllFit'
  BY <1>1, <1>4 DEF AllFit
<1>8. \A q \in PersistentRoot : LastRevid(objectStore, q) \in Nat /\ LastRevid(objectStore, q) <= MaxRevid
  BY <1>1, ObjectParts DEF FitsInv
<1>9. \A q \in PersistentRoot : LastRevid(o2, q) <= MaxRevid
  <2> TAKE q \in PersistentRoot
  <2>1. CASE q = p
    BY <1>3, <1>4, <1>8, <2>1
  <2>2. CASE q # p
    BY <1>5, <1>8, <2>2
  <2> QED
    BY <2>1, <2>2
<1>10. baseline' \in [PersistentRoot -> SUBSET Nat]
  <2>1. baseline \in [PersistentRoot -> SUBSET Nat] /\ LastRevid(objectStore, p) + 1 \in Nat
    BY <1>8 DEF FitsInv
  <2> QED
    BY <1>4, <2>1
<1>11. \A q \in PersistentRoot : baseline'[q] \subseteq 1 .. LastRevid(o2, q)
  <2> TAKE q \in PersistentRoot
  <2>1. baseline \in [PersistentRoot -> SUBSET Nat] /\ baseline[q] \subseteq 1 .. LastRevid(objectStore, q)
    BY DEF FitsInv
  <2>2. CASE q = p
    <3>1. baseline'[q] = baseline[q] \cup {LastRevid(objectStore, q) + 1}
      BY <1>4, <2>1, <2>2
    <3> QED
      BY <1>3, <1>8, <2>1, <2>2, <3>1
  <2>3. CASE q # p
    BY <1>4, <1>5, <2>1, <2>3
  <2> QED
    BY <2>2, <2>3
<1>12. interrupted' \subseteq 1 .. Len(undoStore'.commands) /\ crashes' \in 0 .. MaxCrashes
  BY <1>4 DEF FitsInv
<1>13. FitsInv'
  BY <1>1, <1>4, <1>5, <1>6, <1>7, <1>9, <1>10, <1>11, <1>12 DEF FitsInv, StoresFit
<1>14. ASSUME AllKept(objectStore)
       PROVE  AllKept(objectStore)'
  <2>1. KeptFrom(objectStore, o2)
    <3>1. PICK edits : o2 = WriteRevision(objectStore, p, edits)
      BY <1>2 DEF NewEdit
    <3>2. Kept(objectStore)
      BY <1>14 DEF AllKept
    <3> QED
      BY <1>1, <3>1, <3>2, WriteKeeps
  <2>2. AllKept(o2)
    BY <1>1, <1>14, <2>1, GrownKeeps
  <2> QED
    BY <1>4, <2>2 DEF AllKept
<1> QED
  BY <1>13, <1>14 DEF Stays

(* A commit that is recorded: of the command that says what it did.        *)
LEMMA RecordedStays ==
  ASSUME FitsInv, NEW i \in Track, NEW p \in PersistentRoot,
         NEW o2, Recordable(objectStore, p, o2), RecordedCommit(i, p, o2),
         AllKept(objectStore) => objectStore.stored[p] # {} /\ KeptFrom(objectStore, o2)
  PROVE  Stays
<1>1. /\ ObjectsOK(objectStore) /\ StoreFits(undoStore) /\ CommandsFit(objectStore, undoStore)
      /\ AllFit
  BY DEF FitsInv, StoresFit
<1>2. PICK op : op = CommandFor(p, objectStore.rows[p], o2.rows[p])
  OBVIOUS
<1>3. /\ MayRecord(i) /\ LastRevid(o2, p) <= MaxRevid /\ objectStore' = o2
      /\ RecordCommand(i, p, op)
      /\ baseline' = baseline /\ interrupted' = interrupted /\ crashes' = crashes
  BY <1>2 DEF RecordedCommit, ghosts
<1>4. OpFits(o2, p, op)
  BY <1>1, <1>2, <1>3, CommandForFits
<1>5. /\ StoreFits(undoStore)' /\ AllFit'
      /\ EndsWith(undoStore, p, op, undoStore')
      /\ InUse(undoStore, memory)'
           \subseteq InUse(undoStore, memory) \cup {Len(undoStore.commands) + 1}
  BY <1>1, <1>3, <1>4, RecordCommandFits DEF OpFits
<1>6. PICK u2 : u2 = undoStore'
  OBVIOUS
<1>7. PICK c \in Command :
        /\ c.root = p /\ c.operation = op
        /\ Len(u2.commands) = Len(undoStore.commands) + 1
        /\ u2.commands[Len(undoStore.commands) + 1] = c
        /\ \A n \in 1 .. Len(undoStore.commands) : u2.commands[n] = undoStore.commands[n]
  BY <1>5, <1>6 DEF EndsWith
<1>8. /\ ObjectsOK(o2) /\ Later(objectStore, o2)
      /\ \A q \in PersistentRoot \ {p} : LastRevid(o2, q) = LastRevid(objectStore, q)
  BY DEF Recordable, Changed, LastRevid
<1>9. Len(undoStore.commands) \in Nat
  BY <1>1, StoreFitsParts
<1>10. CommandsFit(o2, u2)
  <2> SUFFICES ASSUME NEW e \in 1 .. Len(u2.commands)
               PROVE  OpFits(o2, u2.commands[e].root, u2.commands[e].operation)
    BY DEF CommandsFit
  <2>1. CASE e = Len(undoStore.commands) + 1
    BY <1>4, <1>7, <2>1
  <2>2. CASE e # Len(undoStore.commands) + 1
    <3>1. e \in 1 .. Len(undoStore.commands)
      BY <1>7, <1>9, <2>2
    <3>2. u2.commands[e] = undoStore.commands[e] /\ undoStore.commands[e].root \in PersistentRoot
      BY <1>1, <1>7, <3>1, InUseAreCommands
    <3>3. OpFits(objectStore, undoStore.commands[e].root, undoStore.commands[e].operation)
      BY <1>1, <3>1 DEF CommandsFit
    <3> QED
      BY <1>1, <1>8, <3>2, <3>3, LaterKeeps
  <2> QED
    BY <2>1, <2>2
<1>11. \A q \in PersistentRoot : LastRevid(o2, q) <= MaxRevid
  BY <1>3, <1>8 DEF FitsInv
<1>12. /\ baseline \in [PersistentRoot -> SUBSET Nat]
       /\ \A q \in PersistentRoot : baseline[q] \subseteq 1 .. LastRevid(o2, q)
  BY <1>8, BaselineFits
<1>13. interrupted \subseteq 1 .. Len(u2.commands) /\ crashes \in 0 .. MaxCrashes
  BY <1>7, <1>9 DEF FitsInv
<1>14. FitsInv'
  BY <1>3, <1>5, <1>6, <1>8, <1>10, <1>11, <1>12, <1>13 DEF FitsInv, StoresFit
<1>15. ASSUME AllKept(objectStore)
       PROVE  AllKept(objectStore)'
  <2>1. /\ objectStore.stored[p] # {} /\ KeptFrom(objectStore, o2)
        /\ Kept(objectStore)
    BY <1>15 DEF AllKept
  <2>2. AllKept(o2)
    BY <1>1, <1>15, <2>1, GrownKeeps
  <2>3. OpKept(o2, p, op)
    BY <1>2, <2>1, CommandForKept
  <2>4. ASSUME NEW e \in InUse(undoStore, memory)'
        PROVE  OpKept(o2, u2.commands[e].root, u2.commands[e].operation)
    <3>1. CASE e = Len(undoStore.commands) + 1
      BY <1>7, <2>3, <3>1
    <3>2. CASE e # Len(undoStore.commands) + 1
      <4>1. e \in InUse(undoStore, memory) /\ e \in 1 .. Len(undoStore.commands)
        BY <1>1, <1>5, <2>4, <3>2, InUseAreCommands
      <4>2. OpKept(o2, undoStore.commands[e].root, undoStore.commands[e].operation)
        BY <2>2, <4>1 DEF AllKept
      <4> QED
        BY <1>7, <4>1, <4>2
    <3> QED
      BY <3>1, <3>2
  <2> QED
    BY <1>3, <1>6, <2>2, <2>4 DEF AllKept
<1> QED
  BY <1>14, <1>15 DEF Stays

(* Recorded commits.                                                       *)
LEMMA CommitStays ==
  ASSUME FitsInv, NEW i \in Track, NEW p \in PersistentRoot, Commit(i, p)
  PROVE  Stays
<1>1. PICK o2 : o2 = NewEdit(objectStore, p)
  OBVIOUS
<1>2. ObjectsOK(objectStore)
  BY DEF FitsInv, StoresFit
<1>3. Recordable(objectStore, p, o2)
  BY <1>1, <1>2, NewEditRecordable
<1>4. RecordedCommit(i, p, o2) /\ ~ objectStore.rows[p].deleted
  BY <1>1 DEF Commit
<1>5. ASSUME AllKept(objectStore)
      PROVE  objectStore.stored[p] # {} /\ KeptFrom(objectStore, o2)
  <2>1. PICK edits : o2 = WriteRevision(objectStore, p, edits)
    BY <1>1 DEF NewEdit
  <2>2. Kept(objectStore)
    BY <1>5 DEF AllKept
  <2> QED
    BY <1>2, <1>4, <2>1, <2>2, WriteKeeps DEF Kept, RootKept
<1> QED
  BY <1>3, <1>4, <1>5, RecordedStays

(* A branch that is set to another revision.                               *)
LEMMA RevertStays ==
  ASSUME FitsInv, NEW i \in Track, NEW p \in PersistentRoot, NEW r \in Revid, Revert(i, p, r)
  PROVE  Stays
<1>1. PICK o2 : o2 = AtRevision(objectStore, p, r)
  OBVIOUS
<1>2. ObjectsOK(objectStore)
  BY DEF FitsInv, StoresFit
<1>3. r \in objectStore.stored[p] /\ RecordedCommit(i, p, o2)
  BY <1>1 DEF Revert
<1>4. r \in 1 .. LastRevid(objectStore, p)
  BY <1>2, <1>3, ObjectParts
<1>5. Recordable(objectStore, p, o2)
  <2>1. Changed(objectStore, p, o2) /\ o2.rows[p].deleted = objectStore.rows[p].deleted
    BY <1>1, <1>2, <1>4, AtRevisionChanges
  <2> QED
    BY <2>1 DEF Recordable
<1>6. AllKept(objectStore) => objectStore.stored[p] # {} /\ KeptFrom(objectStore, o2)
  BY <1>1, <1>2, <1>3, AtRevisionKeeps DEF AllKept
<1> QED
  BY <1>3, <1>5, <1>6, RecordedStays

(* A root that is deleted or undeleted.                                    *)
LEMMA SetDeletedStays ==
  ASSUME FitsInv, NEW i \in Track, NEW p \in PersistentRoot, NEW b \in BOOLEAN,
         SetDeleted(i, p, b)
  PROVE  Stays
<1>1. PICK o2 : o2 = [objectStore EXCEPT !.rows[p].deleted = b]
  OBVIOUS
<1>2. ObjectsOK(objectStore)
  BY DEF FitsInv, StoresFit
<1>3. DeletedSet(objectStore, p, b, o2)
  BY <1>1 DEF DeletedSet
<1>4. Recordable(objectStore, p, o2)
  <2>1. Changed(objectStore, p, o2) /\ Held(o2, p) = Held(objectStore, p)
    BY <1>2, <1>3, DeletionChanges
  <2> QED
    BY <2>1 DEF Recordable
<1>5. RecordedCommit(i, p, o2) /\ objectStore.stored[p] # {}
  BY <1>1 DEF SetDeleted, Exists
<1>6. AllKept(objectStore) => objectStore.stored[p] # {} /\ KeptFrom(objectStore, o2)
  BY <1>2, <1>3, <1>5, DeletionKeeps DEF AllKept
<1> QED
  BY <1>4, <1>5, <1>6, RecordedStays

(* A command that is undone or redone in the context.                      *)
LEMMA SelectiveApplyStays ==
  ASSUME FitsInv, NEW i \in Track, NEW c \in DOMAIN memory[i].parents,
         UndoNode(i, c) \/ RedoNode(i, c)
  PROVE  Stays
<1>1. /\ ObjectsOK(objectStore) /\ StoreFits(undoStore) /\ CommandsFit(objectStore, undoStore)
      /\ AllFit
  BY DEF FitsInv, StoresFit
<1>2. c \in InUse(undoStore, memory) /\ c \in 1 .. Len(undoStore.commands)
  BY <1>1, InUseAreCommands DEF InUse
<1>3. PICK p : p = undoStore.commands[c].root
  OBVIOUS
<1>4. PICK operation : operation = undoStore.commands[c].operation
  OBVIOUS
<1>5. p \in PersistentRoot /\ operation \in Operation /\ OpFits(objectStore, p, operation)
  BY <1>1, <1>2, <1>3, <1>4, InUseAreCommands DEF CommandsFit
<1>6. AllKept(objectStore) => OpKept(objectStore, p, operation)
  BY <1>2, <1>3, <1>4 DEF AllKept
<1>7. ASSUME NEW op, OpFits(objectStore, p, op), SelectiveApply(i, c, op),
             AllKept(objectStore) => OpKept(objectStore, p, op)
      PROVE  Stays
  <2>1. PICK o2 : o2 = AppliedToContext(objectStore, p, op)
    OBVIOUS
  <2>2. Recordable(objectStore, p, o2)
    BY <1>1, <1>5, <1>7, <2>1, AppliedToContextRecordable
  <2>3. RecordedCommit(i, p, o2)
    BY <1>3, <1>7, <2>1 DEF SelectiveApply
  <2>4. ASSUME AllKept(objectStore)
        PROVE  objectStore.stored[p] # {} /\ KeptFrom(objectStore, o2)
    <3>1. Kept(objectStore) /\ OpKept(objectStore, p, op)
      BY <1>7, <2>4 DEF AllKept
    <3> QED
      BY <1>1, <1>5, <2>1, <3>1, AddKeeps DEF OpKept
  <2> QED
    BY <1>5, <2>2, <2>3, <2>4, RecordedStays
<1>8. CASE UndoNode(i, c)
  <2>1. PICK op : op = Inversed(operation)
    OBVIOUS
  <2>2. OpFits(objectStore, p, op)
    BY <1>5, <2>1, InverseFits
  <2>3. AllKept(objectStore) => OpKept(objectStore, p, op)
    BY <1>5, <1>6, <2>1, OpsStayKept
  <2> QED
    BY <1>4, <1>7, <1>8, <2>1, <2>2, <2>3 DEF UndoNode
<1>9. CASE RedoNode(i, c)
  BY <1>4, <1>5, <1>6, <1>7, <1>9 DEF RedoNode
<1> QED
  BY <1>8, <1>9

(* A move along a track.                                                   *)
LEMMA MoveStays ==
  ASSUME FitsInv, NEW i \in Track, NEW n \in {0} \cup DOMAIN memory[i].parents,
         SetCurrentNode(i, n)
  PROVE  Stays
<1>1. /\ StoresFit /\ ObjectsOK(objectStore) /\ StoreFits(undoStore)
      /\ CommandsFit(objectStore, undoStore) /\ AllFit
  BY DEF FitsInv, StoresFit
<1>2. PICK steps : steps = StepsTo(memory[i], undoStore, n)
  OBVIOUS
<1>3. PICK d : d = Done(i, steps)
  OBVIOUS
<1>4. /\ AfterFits(i, steps, d) /\ objectStore' = d.o
      /\ undoStore'.commands = undoStore.commands
      /\ CommandsOf(steps) \subseteq InUse(undoStore, memory)
      /\ \A z \in 1 .. Len(steps) : steps[z].command \in CommandsOf(steps)
      /\ StoreFits(undoStore)' /\ AllFit'
      /\ InUse(undoStore, memory)' \subseteq InUse(undoStore, memory)
  BY <1>1, <1>2, <1>3, MoveCommitsFit
<1>5. ObjectsOK(d.o) /\ Later(objectStore, d.o)
  BY <1>4 DEF AfterFits, MoveFits
<1>6. CommandsFit(d.o, undoStore')
  BY <1>1, <1>4, <1>5, CommandsFitLater
<1>7. /\ MayCommit(d.o, CommandsOf(steps))
      /\ CommitMove(i, n, steps, d) \/ CrashInMove(steps)
      /\ baseline' = baseline
  BY <1>2, <1>3 DEF SetCurrentNode
<1>8. \A p \in PersistentRoot : LastRevid(d.o, p) <= MaxRevid
  BY <1>7 DEF MayCommit
<1>9. /\ baseline \in [PersistentRoot -> SUBSET Nat]
      /\ \A q \in PersistentRoot : baseline[q] \subseteq 1 .. LastRevid(d.o, q)
  BY <1>5, BaselineFits
<1>10. interrupted' \subseteq 1 .. Len(undoStore'.commands)
  <2>1. interrupted' \subseteq interrupted \cup CommandsOf(steps)
    BY <1>7 DEF CommitMove, CrashInMove
  <2>2. InUse(undoStore, memory) \subseteq 1 .. Len(undoStore.commands)
    BY <1>1, InUseAreCommands
  <2> QED
    BY <1>4, <2>1, <2>2 DEF FitsInv
<1>11. crashes' \in 0 .. MaxCrashes
  <2>1. crashes \in 0 .. MaxCrashes
    BY DEF FitsInv
  <2>2. crashes' = crashes \/ (crashes < MaxCrashes /\ crashes' = crashes + 1)
    BY <1>7 DEF CommitMove, CrashInMove, Crash
  <2> QED
    BY <2>1, <2>2
<1>12. FitsInv'
  BY <1>4, <1>5, <1>6, <1>7, <1>8, <1>9, <1>10, <1>11 DEF FitsInv, StoresFit
<1>13. ASSUME AllKept(objectStore)
       PROVE  AllKept(objectStore)'
  <2>1. AllStepsKept(objectStore, steps)
    BY <1>4, <1>13 DEF AllKept, AllStepsKept, StepKept
  <2>2. KeptFrom(objectStore, d.o)
    BY <1>4, <1>13, <2>1 DEF AfterFits, AllKept
  <2>3. AllKept(d.o)
    BY <1>1, <1>13, <2>2, GrownKeeps
  <2> QED
    BY <1>4, <2>3 DEF AllKept
<1> QED
  BY <1>12, <1>13 DEF Stays

(* Nothing happens.                                                        *)
LEMMA StutterStays ==
  ASSUME FitsInv, UNCHANGED vars
  PROVE  Stays
<1>1. FitsInv'
  BY DEF vars, ghosts, FitsInv, StoresFit, AllFit
<1>2. AllKept(objectStore) => AllKept(objectStore)'
  BY DEF vars, AllKept, InUse
<1> QED
  BY <1>1, <1>2 DEF Stays

(* The actions of the tracks.                                              *)
LEMMA TracksStay ==
  FitsInv /\ [Next]_vars => Stays
<1> SUFFICES ASSUME FitsInv, [Next]_vars
             PROVE  Stays
  OBVIOUS
<1>1. ASSUME NEW p \in PersistentRoot, CommitUnrecorded(p)
      PROVE  Stays
  BY <1>1, UnrecordedStays
<1>2. ASSUME NEW i \in Track, NEW p \in PersistentRoot, Commit(i, p)
      PROVE  Stays
  BY <1>2, CommitStays
<1>3. ASSUME NEW i \in Track, NEW p \in PersistentRoot, NEW r \in Revid, Revert(i, p, r)
      PROVE  Stays
  BY <1>3, RevertStays
<1>4. ASSUME NEW i \in Track, NEW p \in PersistentRoot, NEW b \in BOOLEAN, SetDeleted(i, p, b)
      PROVE  Stays
  BY <1>4, SetDeletedStays
<1>5. ASSUME NEW i \in Track, NEW c \in DOMAIN memory[i].parents,
             UndoNode(i, c) \/ RedoNode(i, c)
      PROVE  Stays
  BY <1>5, SelectiveApplyStays
<1>6. ASSUME NEW i \in Track, NEW n \in {0} \cup DOMAIN memory[i].parents,
             SetCurrentNode(i, n)
      PROVE  Stays
  BY <1>6, MoveStays
<1>7. CASE UNCHANGED vars
  BY <1>7, StutterStays
<1> QED
  BY <1>1, <1>2, <1>3, <1>4, <1>5, <1>6, <1>7 DEF Next, Placeholder

-----------------------------------------------------------------------------
(* What -compute chooses *)

(* Types of the strategy. *)
CompactionFits ==
  /\ compaction = [phase |-> compaction.phase, finalizable |-> compaction.finalizable,
                   live |-> compaction.live]
  /\ compaction.phase \in {"idle", "begun", "collected"}
  /\ compaction.finalizable \subseteq PersistentRoot
  /\ DOMAIN compaction.live \subseteq PersistentRoot \ compaction.finalizable
  /\ \A p \in DOMAIN compaction.live : compaction.live[p] \in (SUBSET Revid) \ {{}}

(* A set of numbers has a least one, which Min chooses.                    *)
LEMMA MinIsLeast ==
  ASSUME NEW S \in SUBSET Nat, S # {}
  PROVE  Min(S) \in S /\ \A n \in S : Min(S) <= n
<1>1. \E x \in S : \A y \in S : x <= y
  BY LeastNumber
<1> QED
  BY <1>1 DEF Min

(* The live revisions: all of those that the live commands have, and else  *)
(* one that a dead command has.                                            *)
LEMMA LiveRevisionsAre ==
  ASSUME StoreFits(undoStore), AllFit, NEW C \in SUBSET (1 .. Len(undoStore.commands)),
         NEW D \in SUBSET C, NEW p, Sets(C, p) # {}
  PROVE  /\ LiveRevisions(C, D, p) # {}
         /\ \A c \in Sets(C \ D, p) : RevisionsOf(OperationOf(c)) \subseteq LiveRevisions(C, D, p)
         /\ \A r \in LiveRevisions(C, D, p) : \E c \in Sets(C, p) : r \in RevisionsOf(OperationOf(c))
<1> DEFINE live == UNION {RevisionsOf(OperationOf(c)) : c \in Sets(C \ D, p)}
<1>1. /\ Sets(C, p) = Sets(C \ D, p) \cup Sets(D, p)
      /\ Sets(C, p) \subseteq C
      /\ \A c \in Sets(C, p) : OperationOf(c).kind = "set"
  BY DEF Sets, CommandsOn
<1>2. \A c \in Sets(C, p) : OperationOf(c).new \in RevisionsOf(OperationOf(c))
  BY <1>1 DEF RevisionsOf
<1>3. LiveRevisions(C, D, p) = IF live = {} THEN {OperationOf(Max(Sets(D, p))).new} ELSE live
  BY DEF LiveRevisions
<1>4. /\ \A c \in Sets(C \ D, p) : RevisionsOf(OperationOf(c)) \subseteq live
      /\ \A r \in live : \E c \in Sets(C \ D, p) : r \in RevisionsOf(OperationOf(c))
  OBVIOUS
<1> HIDE DEF live
<1>5. CASE Sets(C \ D, p) # {}
  <2>1. PICK c \in Sets(C \ D, p) : TRUE
    BY <1>5
  <2>2. OperationOf(c).new \in live
    BY <1>1, <1>2, <1>4
  <2>3. LiveRevisions(C, D, p) = live
    BY <1>3, <2>2
  <2> QED
    BY <1>1, <1>4, <2>2, <2>3
<1>6. CASE Sets(C \ D, p) = {}
  <2>1. live = {} /\ Sets(D, p) # {} /\ Sets(D, p) \subseteq C
    BY <1>1, <1>4, <1>6
  <2>2. Max(Sets(D, p)) \in Sets(D, p)
    <3>1. PICK S : S = Sets(D, p)
      OBVIOUS
    <3>2. PICK N : N = Len(undoStore.commands)
      OBVIOUS
    <3>3. N \in Nat /\ S \in SUBSET (0 .. N) /\ S # {}
      <4>1. N \in Nat
        BY <3>2, StoreFitsParts
      <4>2. 1 .. N \subseteq 0 .. N
        BY <4>1
      <4> QED
        BY <2>1, <3>1, <3>2, <4>1, <4>2
    <3>4. Max(S) \in S
      BY <3>3, MaxIsGreatest
    <3> QED
      BY <3>1, <3>4
  <2>3. LiveRevisions(C, D, p) = {OperationOf(Max(Sets(D, p))).new}
    BY <1>3, <2>1
  <2>4. Max(Sets(D, p)) \in Sets(C, p)
    BY <1>1, <2>2
  <2> QED
    BY <1>2, <1>6, <2>3, <2>4
<1> QED
  BY <1>5, <1>6

-----------------------------------------------------------------------------
(* Marking commands as deleted *)

MarkedIn(u, D, u2) == u2 = [u EXCEPT !.marked = u.marked \cup (D \cap u.rows)]

(* Marks make rows dead.                                                   *)
LEMMA MarkFits ==
  ASSUME NEW u, StoreFits(u), NEW D, NEW u2, MarkedIn(u, D, u2)
  PROVE  /\ StoreFits(u2) /\ GoesOn(u, u2)
         /\ u2.commands = u.commands /\ u2.marked = u.marked \cup (D \cap u.rows)
         /\ LiveRows(u2) = LiveRows(u) \ D
<1>1. /\ u \in [commands : Seq(Command), rows : SUBSET Nat, marked : SUBSET Nat, tracks : States]
      /\ Ordered(u.commands) /\ Len(u.commands) <= MaxSequenceNumber
      /\ u.rows \subseteq 1 .. Len(u.commands) /\ u.marked \subseteq u.rows
      /\ \A t \in DOMAIN u.tracks :
           /\ u.tracks[t].head \in u.rows /\ u.commands[u.tracks[t].head].trackName = t
           /\ u.tracks[t].current \in {0} \cup (u.rows \cap Anc(u.commands, u.tracks[t].head))
  BY DEF StoreFits
<1>2. u.marked \cup (D \cap u.rows) \in SUBSET Nat
  BY <1>1
<1>3. /\ u2 \in [commands : Seq(Command), rows : SUBSET Nat, marked : SUBSET Nat, tracks : States]
      /\ u2.commands = u.commands /\ u2.rows = u.rows /\ u2.tracks = u.tracks
      /\ u2.marked = u.marked \cup (D \cap u.rows)
  BY <1>1, <1>2 DEF MarkedIn
<1>4. StoreFits(u2)
  BY <1>1, <1>3 DEF StoreFits
<1>5. LiveRows(u2) = LiveRows(u) \ D
  BY <1>3 DEF LiveRows
<1>6. Len(u.commands) \in Nat
  BY StoreFitsParts
<1>7. GoesOn(u, u2)
  BY <1>3, <1>5, <1>6 DEF GoesOn
<1> QED
  BY <1>3, <1>4, <1>5, <1>7

(* A memory fits on when no row comes to life.                             *)
LEMMA MemoryFitsOn ==
  ASSUME NEW u, StoreFits(u), NEW u2, StoreFits(u2), GoesOn(u, u2),
         u2.commands = u.commands, LiveRows(u2) \subseteq LiveRows(u),
         NEW i \in Track, NEW m, MemoryFits(i, m, u)
  PROVE  MemoryFits(i, m, u2)
<1>1. MemoryParts(i, m, u) /\ NodesFit(m, u) /\ HasAll(i, m, u)
  BY DEF MemoryFits
<1>2. MemoryParts(i, m, u2) /\ NodesFit(m, u2)
  BY <1>1, MemoryStays
<1>3. HasAll(i, m, u2)
  BY <1>1 DEF HasAll
<1> QED
  BY <1>2, <1>3 DEF MemoryFits

(* Commands are marked, and the track objects that have any of their       *)
(* tracks have live rows only.                                             *)
LEMMA MarkCommandsFit ==
  ASSUME StoreFits(undoStore), AllFit, NEW D, MarkCommandsAsDeleted(D)
  PROVE  /\ StoreFits(undoStore)' /\ AllFit'
         /\ undoStore'.commands = undoStore.commands
         /\ LiveRows(undoStore') = LiveRows(undoStore) \ D
         /\ undoStore'.marked = undoStore.marked \cup (D \cap undoStore.rows)
         /\ \A j \in Track :
              IF NamesOf[j] \cap CompactedTracks(undoStore') = {}
              THEN memory'[j] = memory[j]
              ELSE DOMAIN memory'[j].parents \subseteq LiveRows(undoStore')
<1>1. PICK u : u = undoStore
  OBVIOUS
<1>2. PICK u2 : u2 = [u EXCEPT !.marked = u.marked \cup (D \cap u.rows)]
  OBVIOUS
<1>3. /\ undoStore' = u2
      /\ memory' = [i \in Track |->
                      IF NamesOf[i] \cap CompactedTracks(u2) = {} THEN memory[i]
                      ELSE Reload(i, [memory[i] EXCEPT !.parents = << >>], u2)]
  BY <1>1, <1>2 DEF MarkCommandsAsDeleted, CompactedTracks
<1>4. /\ StoreFits(u) /\ StoreFits(u2) /\ GoesOn(u, u2) /\ u2.commands = u.commands
      /\ LiveRows(u2) = LiveRows(u) \ D /\ u2.marked = u.marked \cup (D \cap u.rows)
  BY <1>1, <1>2, MarkFits DEF MarkedIn
<1>5. ASSUME NEW j \in Track
      PROVE  /\ MemoryFits(j, memory'[j], u2)
             /\ IF NamesOf[j] \cap CompactedTracks(u2) = {}
                THEN memory'[j] = memory[j]
                ELSE DOMAIN memory'[j].parents \subseteq LiveRows(u2)
  <2>1. MemoryFits(j, memory[j], u)
    BY <1>1 DEF AllFit
  <2>2. CASE NamesOf[j] \cap CompactedTracks(u2) = {}
    <3>1. memory'[j] = memory[j]
      BY <1>3, <2>2
    <3>2. MemoryFits(j, memory[j], u2)
      BY <1>4, <2>1, MemoryFitsOn
    <3> QED
      BY <2>2, <3>1, <3>2
  <2>3. CASE NamesOf[j] \cap CompactedTracks(u2) # {}
    <3>1. PICK m : m = memory[j]
      OBVIOUS
    <3>2. MemoryParts(j, m, u2)
      BY <1>4, <2>1, <3>1, MemoryStays DEF MemoryFits
    <3>3. PICK w : w = [m EXCEPT !.parents = << >>]
      OBVIOUS
    <3>4. << >> \in ParentMaps /\ DOMAIN << >> = {}
      <4>1. << >> \in [{} -> Nat] /\ DOMAIN << >> = {}
        OBVIOUS
      <4> QED
        BY <4>1, ParentMapsAreFunctions
    <3>5. /\ w \in [states : States, parents : ParentMaps, nodes : Seq(Nat)]
          /\ w.states = m.states /\ w.parents = << >>
      BY <3>2, <3>3, <3>4 DEF MemoryParts
    <3>6. MemoryParts(j, w, u2)
      BY <3>2, <3>4, <3>5 DEF MemoryParts, ParentsFit
    <3>7. memory'[j] = Reload(j, w, u2)
      BY <1>3, <2>3, <3>1, <3>3
    <3>8. /\ MemoryFits(j, memory'[j], u2)
          /\ DOMAIN memory'[j].parents \subseteq DOMAIN w.parents \cup LiveRows(u2)
      BY <1>4, <3>6, <3>7, ReloadFits
    <3> QED
      BY <2>3, <3>4, <3>5, <3>8
  <2> QED
    BY <2>2, <2>3
<1>6. AllFit'
  <2>1. DOMAIN memory' = Track
    BY <1>3
  <2> QED
    BY <1>3, <1>5, <2>1 DEF AllFit
<1> QED
  BY <1>1, <1>3, <1>4, <1>5, <1>6

(* The edits some commands leave are of revisions.                         *)
LEMMA EditsAfterFit ==
  ASSUME FitsInv, NEW C \in SUBSET (1 .. Len(undoStore.commands)), NEW p \in PersistentRoot
  PROVE  EditsAfter(objectStore, undoStore, C, p) \subseteq 1 .. LastRevid(objectStore, p)
<1>1. /\ ObjectsOK(objectStore) /\ CommandsFit(objectStore, undoStore)
      /\ baseline[p] \subseteq 1 .. LastRevid(objectStore, p)
  BY DEF FitsInv, StoresFit
<1>2. Touched(objectStore, undoStore, C, p) \subseteq 1 .. LastRevid(objectStore, p)
  <2> SUFFICES ASSUME NEW c \in CommandsOn(undoStore, C, p)
               PROVE  TouchedBy(objectStore, p, undoStore.commands[c].operation)
                        \subseteq 1 .. LastRevid(objectStore, p)
    BY DEF Touched
  <2>1. PICK op : op = undoStore.commands[c].operation
    OBVIOUS
  <2>2. OpFits(objectStore, p, op)
    BY <1>1, <2>1 DEF CommandsOn, CommandsFit
  <2>3. CASE op.kind = "set"
    <3>1. op.old \in 1 .. LastRevid(objectStore, p) /\ op.new \in 1 .. LastRevid(objectStore, p)
      BY <2>2, <2>3 DEF OpFits
    <3>2. /\ Edits(objectStore, p, op.old) \subseteq 1 .. LastRevid(objectStore, p)
          /\ Edits(objectStore, p, op.new) \subseteq 1 .. LastRevid(objectStore, p)
      BY <1>1, <3>1, ObjectParts
    <3> QED
      BY <2>1, <3>2 DEF TouchedBy, SymDiff
  <2>4. CASE op.kind # "set"
    BY <2>1, <2>4 DEF TouchedBy
  <2> QED
    BY <2>3, <2>4
<1>3. EditsAfter(objectStore, undoStore, C, p)
        \subseteq baseline[p] \cup Touched(objectStore, undoStore, C, p)
  BY DEF EditsAfter
<1> QED
  BY <1>1, <1>2, <1>3

(* What a compaction starts from: commands of the track, and those of them *)
(* to discard.                                                             *)
Computed(i, C, D) ==
  /\ i \in Compacted /\ C = DOMAIN memory[i].parents
  /\ C \subseteq LiveRows(undoStore) /\ D \subseteq C /\ D # {}
  /\ IsComputable(C, D) /\ (CollectsCurrentRevision \/ KeepsCurrentRevisions(C, D))
  /\ compaction.phase = "idle"
  /\ compaction' = [phase |-> "begun", finalizable |-> FinalizableRoots(C, D),
                    live |-> [p \in CompactableRoots(C, D) |-> LiveRevisions(C, D, p)]]
  /\ MarkCommandsAsDeleted(D)
  /\ baseline' = [p \in PersistentRoot |->
                    EditsAfter(objectStore, undoStore, AppliedCommands(undoStore) \cap D, p)]
  /\ UNCHANGED <<objectStore, interrupted, crashes>>

(* A compaction begins with some command to discard.                       *)
LEMMA BeginComputes ==
  ASSUME FitsInv, NEW i \in Compacted, NEW c \in DOMAIN memory[i].parents, BeginCompaction(i, c)
  PROVE  \E C, D : Computed(i, C, D)
<1> DEFINE C == DOMAIN memory[i].parents
           newest == NewestCommandToDiscard(i, c)
           D == {d \in C : d <= newest}
<1>1. newest # 0 /\ newest \in Range(memory[i].nodes)
  BY DEF BeginCompaction
<1>2. i \in Track
  BY HistoryCompactionAssumption
<1>3. MemoryFits(i, memory[i], undoStore)
  BY <1>2 DEF FitsInv, StoresFit, AllFit
<1>4. newest \in C /\ newest \in Nat
  <2>1. PICK m : m = memory[i]
    OBVIOUS
  <2>2. /\ m.nodes \in Seq(Nat) /\ m.nodes[1] = 0 /\ Len(m.nodes) \in Nat
        /\ \A k \in 2 .. Len(m.nodes) : m.nodes[k] \in DOMAIN m.parents
    BY <1>3, <2>1 DEF MemoryFits, NodesFit
  <2>3. PICK k \in 1 .. Len(m.nodes) : newest = m.nodes[k]
    <3>1. \E k \in DOMAIN m.nodes : newest = m.nodes[k]
      BY <1>1, <2>1 DEF Range
    <3> QED
      BY <2>2, <3>1
  <2>4. k # 1
    BY <1>1, <2>2, <2>3
  <2>5. newest \in DOMAIN m.parents
    BY <2>2, <2>3, <2>4
  <2>6. DOMAIN m.parents \subseteq 1 .. Len(undoStore.commands)
    BY <1>3, <2>1 DEF MemoryFits, MemoryParts, ParentsFit
  <2> QED
    BY <2>1, <2>5, <2>6
<1>5. newest \in D
  BY <1>4
<1>6. /\ C \subseteq LiveRows(undoStore)
      /\ IsComputable(C, D) /\ (CollectsCurrentRevision \/ KeepsCurrentRevisions(C, D))
      /\ compaction.phase = "idle"
      /\ compaction' = [phase |-> "begun", finalizable |-> FinalizableRoots(C, D),
                        live |-> [p \in CompactableRoots(C, D) |-> LiveRevisions(C, D, p)]]
      /\ MarkCommandsAsDeleted(D)
      /\ baseline' = [p \in PersistentRoot |->
                        EditsAfter(objectStore, undoStore, AppliedCommands(undoStore) \cap D, p)]
      /\ UNCHANGED <<objectStore, interrupted, crashes>>
  BY DEF BeginCompaction
<1>7. Computed(i, C, D)
  <2>1. D \subseteq C
    OBVIOUS
  <2> HIDE DEF D, newest
  <2> QED
    BY <1>5, <1>6, <2>1 DEF Computed
<1> QED
  BY <1>7

(* What it chose has its types.                                            *)
LEMMA ComputedFits ==
  ASSUME FitsInv, NEW i, NEW C, NEW D, Computed(i, C, D)
  PROVE  /\ FitsInv' /\ CompactionFits'
         /\ C \subseteq 1 .. Len(undoStore.commands)
         /\ compaction'.phase = "begun"
         /\ compaction'.finalizable = FinalizableRoots(C, D)
         /\ DOMAIN compaction'.live = CompactableRoots(C, D)
         /\ \A p \in CompactableRoots(C, D) : compaction'.live[p] = LiveRevisions(C, D, p)
<1>1. /\ ObjectsOK(objectStore) /\ StoreFits(undoStore) /\ CommandsFit(objectStore, undoStore)
      /\ AllFit
  BY DEF FitsInv, StoresFit
<1>2. /\ C \subseteq LiveRows(undoStore) /\ D \subseteq C
      /\ IsComputable(C, D)
      /\ MarkCommandsAsDeleted(D)
      /\ baseline' = [p \in PersistentRoot |->
                        EditsAfter(objectStore, undoStore, AppliedCommands(undoStore) \cap D, p)]
      /\ objectStore' = objectStore /\ interrupted' = interrupted /\ crashes' = crashes
  BY DEF Computed
<1>3. C \subseteq 1 .. Len(undoStore.commands)
  BY <1>1, <1>2, StoreFitsParts
<1>4. /\ compaction'.phase = "begun"
      /\ compaction'.finalizable = FinalizableRoots(C, D)
      /\ compaction'.live = [p \in CompactableRoots(C, D) |-> LiveRevisions(C, D, p)]
      /\ compaction' = [phase |-> compaction'.phase, finalizable |-> compaction'.finalizable,
                        live |-> compaction'.live]
  BY DEF Computed
<1>5. /\ StoreFits(undoStore)' /\ AllFit' /\ undoStore'.commands = undoStore.commands
  BY <1>1, <1>2, MarkCommandsFit
<1>6. FitsInv'
  <2>1. \A p \in PersistentRoot : baseline'[p] \subseteq 1 .. LastRevid(objectStore, p)
    <3> TAKE p \in PersistentRoot
    <3>1. AppliedCommands(undoStore) \cap D \in SUBSET (1 .. Len(undoStore.commands))
      BY <1>2, <1>3
    <3> QED
      BY <1>2, <3>1, EditsAfterFit
  <2>2. baseline' \in [PersistentRoot -> SUBSET Nat]
    <3>1. \A p \in PersistentRoot : 1 .. LastRevid(objectStore, p) \subseteq Nat
      BY <1>1, ObjectParts
    <3>2. \A p \in PersistentRoot : baseline'[p] \in SUBSET Nat
      BY <2>1, <3>1
    <3>3. DOMAIN baseline' = PersistentRoot /\ baseline' = [p \in PersistentRoot |-> baseline'[p]]
      BY <1>2
    <3> QED
      BY <3>2, <3>3
  <2>3. CommandsFit(objectStore, undoStore')
    BY <1>1, <1>5 DEF CommandsFit
  <2>4. /\ \A p \in PersistentRoot : LastRevid(objectStore, p) <= MaxRevid
        /\ interrupted \subseteq 1 .. Len(undoStore'.commands)
        /\ crashes \in 0 .. MaxCrashes
    BY <1>5 DEF FitsInv
  <2> QED
    BY <1>1, <1>2, <1>5, <2>1, <2>2, <2>3, <2>4 DEF FitsInv, StoresFit
<1>7. RootsOf(C) \subseteq PersistentRoot /\ RootsOf(D) \subseteq PersistentRoot
  <2>1. \A c \in 1 .. Len(undoStore.commands) : undoStore.commands[c].root \in PersistentRoot
    BY <1>1, InUseAreCommands
  <2> QED
    BY <1>2, <1>3, <2>1 DEF RootsOf
<1>8. ASSUME NEW p \in CompactableRoots(C, D)
      PROVE  LiveRevisions(C, D, p) \in (SUBSET Revid) \ {{}}
  <2>1. Sets(C, p) # {}
    BY <1>2 DEF IsComputable
  <2>2. /\ LiveRevisions(C, D, p) # {}
        /\ \A r \in LiveRevisions(C, D, p) :
             \E c \in Sets(C, p) : r \in RevisionsOf(OperationOf(c))
    BY <1>1, <1>2, <1>3, <2>1, LiveRevisionsAre
  <2>3. ASSUME NEW r \in LiveRevisions(C, D, p)
        PROVE  r \in Revid
    <3>1. PICK c \in Sets(C, p) : r \in RevisionsOf(OperationOf(c))
      BY <2>2
    <3>2. c \in 1 .. Len(undoStore.commands)
      BY <1>3 DEF Sets, CommandsOn
    <3>3. PICK op : op = OperationOf(c)
      OBVIOUS
    <3>4. op \in Operation
      BY <1>1, <3>2, <3>3, InUseAreCommands DEF OperationOf
    <3>5. op.kind = "set" /\ r \in {op.old, op.new, op.oldHead, op.newHead}
      BY <3>1, <3>3 DEF RevisionsOf
    <3>6. op \in [kind : {"set"}, old : Revid, new : Revid, oldHead : Revid, newHead : Revid]
      BY <3>4, <3>5 DEF Operation
    <3> QED
      BY <3>5, <3>6
  <2> QED
    BY <2>2, <2>3
<1>9. CompactionFits'
  BY <1>4, <1>7, <1>8 DEF CompactionFits, CompactableRoots, FinalizableRoots
<1> QED
  BY <1>3, <1>4, <1>6, <1>9

-----------------------------------------------------------------------------
(* Collecting *)

(* A revision is equal to or a parent of itself, however the revisions are *)
(* ordered: the largest set that leads to it is what -isEqualToOrParent    *)
(* walks.                                                                  *)
LEMMA ReachesItself ==
  ASSUME NEW o, ObjectsOK(o), NEW p \in PersistentRoot, NEW a \in 1 .. LastRevid(o, p)
  PROVE  IsEqualToOrParent(o, p, a, a)
<1> DEFINE N == LastRevid(o, p)
           par(r) == o.revisions[p][r].parent
           Leads(T) == \A r \in T : r = a \/ par(r) \in T
           S == UNION {T \in SUBSET (1 .. N) : Leads(T)}
           Is(f) == f = [r \in 0 .. N |-> r # 0 /\ (r = a \/ f[par(r)])]
           g == [r \in 0 .. N |-> r \in S]
<1>1. N \in Nat /\ \A r \in 1 .. N : par(r) \in 0 .. N
  BY ObjectParts
<1> HIDE DEF N, par
<1>2. S \subseteq 1 .. N /\ Leads(S)
  OBVIOUS
<1>3. \A T \in SUBSET (1 .. N) : Leads(T) => T \subseteq S
  OBVIOUS
<1> HIDE DEF S
<1>4. a \in S
  <2>1. {a} \in SUBSET (1 .. N) /\ Leads({a})
    BY DEF N
  <2> QED
    BY <1>3, <2>1
<1>5. ASSUME NEW r \in 1 .. N, par(r) \in S
      PROVE  r \in S
  <2>1. S \cup {r} \in SUBSET (1 .. N) /\ Leads(S \cup {r})
    BY <1>2, <1>5
  <2> QED
    BY <1>3, <2>1
<1>6. \A r \in 0 .. N : r \in S <=> r # 0 /\ (r = a \/ par(r) \in S)
  <2> TAKE r \in 0 .. N
  <2>1. CASE r = 0
    BY <1>2, <2>1
  <2>2. CASE r # 0
    <3>1. r \in 1 .. N
      BY <1>1, <2>2
    <3> QED
      BY <1>2, <1>4, <1>5, <2>2, <3>1
  <2> QED
    BY <2>1, <2>2
<1>7. \A r \in 0 .. N : r # 0 => (g[par(r)] <=> par(r) \in S)
  <2> TAKE r \in 0 .. N
  <2>1. r # 0 => par(r) \in 0 .. N
    BY <1>1
  <2> QED
    BY <2>1
<1>8. Is(g)
  <2>1. \A r \in 0 .. N : (r \in S) = (r # 0 /\ (r = a \/ g[par(r)]))
    <3> HIDE DEF g
    <3> QED
      BY <1>6, <1>7
  <2> HIDE DEF Leads
  <2> QED
    BY <2>1
<1>9. IsEqualToOrParent(o, p, a, a) = (CHOOSE f : Is(f))[a]
  BY DEF IsEqualToOrParent, N, par
<1>10. PICK h : h = CHOOSE f : Is(f)
  OBVIOUS
<1>11. h = [r \in 0 .. N |-> r # 0 /\ (r = a \/ h[par(r)])]
  <2>1. \E f : Is(f)
    <3> HIDE DEF Is, g
    <3> QED
      BY <1>8
  <2>2. Is(h)
    <3> HIDE DEF Is
    <3> QED
      BY <1>10, <2>1
  <2> QED
    BY <2>2
<1>12. a \in 0 .. N /\ a # 0
  BY <1>1, <1>2, <1>4
<1>13. h[a] = TRUE
  <2>1. h[a] = (a # 0 /\ (a = a \/ h[par(a)]))
    BY <1>11, <1>12
  <2> QED
    BY <1>12, <2>1
<1> HIDE DEF Is
<1> QED
  BY <1>9, <1>10, <1>13

(* What CompactHistory leaves of the object store. *)
CollectedFrom(p) ==
  CASE p \in FinalizedRoots -> {}
    [] p \in (compaction.finalizable \ FinalizedRoots) \cup DOMAIN compaction.live ->
         objectStore.stored[p] \cap KeptRevisions(p)
    [] OTHER -> objectStore.stored[p]

Collected == [objectStore EXCEPT !.stored = [p \in PersistentRoot |-> CollectedFrom(p)]]

(* Its parts.                                                              *)
LEMMA CollectedParts ==
  ASSUME ObjectsOK(objectStore), CompactionFits
  PROVE  /\ ObjectsOK(Collected) /\ Collected.rows = objectStore.rows
         /\ \A p \in PersistentRoot :
              /\ LastRevid(Collected, p) = LastRevid(objectStore, p)
              /\ Collected.stored[p] =
                   IF p \in FinalizedRoots THEN {}
                   ELSE IF p \in compaction.finalizable \cup DOMAIN compaction.live
                   THEN objectStore.stored[p] \cap KeptRevisions(p)
                   ELSE objectStore.stored[p]
<1>1. /\ objectStore \in [rows : [PersistentRoot -> [current : Nat, head : Nat, deleted : BOOLEAN]],
                          revisions : [PersistentRoot -> Seq([parent : Nat, edits : SUBSET Nat])],
                          stored : [PersistentRoot -> SUBSET Nat],
                          misapplied : [PersistentRoot -> SUBSET Nat]]
  BY DEF ObjectsOK
<1>2. /\ FinalizedRoots \subseteq compaction.finalizable
      /\ DOMAIN compaction.live \cap compaction.finalizable = {}
  BY DEF FinalizedRoots, CompactionFits
<1>3. \A p : CollectedFrom(p) =
               IF p \in FinalizedRoots THEN {}
               ELSE IF p \in compaction.finalizable \cup DOMAIN compaction.live
               THEN objectStore.stored[p] \cap KeptRevisions(p)
               ELSE objectStore.stored[p]
  BY <1>2 DEF CollectedFrom
<1>4. \A p \in PersistentRoot : CollectedFrom(p) \subseteq objectStore.stored[p]
  BY <1>3
<1>5. [p \in PersistentRoot |-> CollectedFrom(p)] \in [PersistentRoot -> SUBSET Nat]
  BY <1>1, <1>4
<1>6. /\ Collected \in [rows : [PersistentRoot -> [current : Nat, head : Nat, deleted : BOOLEAN]],
                        revisions : [PersistentRoot -> Seq([parent : Nat, edits : SUBSET Nat])],
                        stored : [PersistentRoot -> SUBSET Nat],
                        misapplied : [PersistentRoot -> SUBSET Nat]]
      /\ Collected.rows = objectStore.rows /\ Collected.revisions = objectStore.revisions
      /\ Collected.misapplied = objectStore.misapplied
      /\ Collected.stored = [p \in PersistentRoot |-> CollectedFrom(p)]
  BY <1>1, <1>5 DEF Collected
<1>7. \A p \in PersistentRoot : Collected.stored[p] = CollectedFrom(p)
  BY <1>6
<1>8. \A p \in PersistentRoot :
        /\ LastRevid(Collected, p) = LastRevid(objectStore, p)
        /\ \A r : Edits(Collected, p, r) = Edits(objectStore, p, r)
  BY <1>6 DEF LastRevid, Edits
<1>9. ObjectsOK(Collected)
  <2>1. ASSUME NEW p \in PersistentRoot
        PROVE  /\ Collected.stored[p] \subseteq 1 .. LastRevid(Collected, p)
               /\ Collected.misapplied[p] \subseteq 1 .. LastRevid(Collected, p)
    BY <1>4, <1>6, <1>7, <1>8 DEF ObjectsOK
  <2> QED
    BY <1>6, <1>8, <2>1 DEF ObjectsOK
<1> QED
  BY <1>3, <1>6, <1>7, <1>8, <1>9

(* The object store collects, and the stores fit on.                       *)
LEMMA CollectingFits ==
  ASSUME FitsInv, CompactionFits, CompactHistory
  PROVE  FitsInv' /\ CompactionFits' /\ objectStore' = Collected
<1>1. /\ ObjectsOK(objectStore) /\ StoreFits(undoStore) /\ CommandsFit(objectStore, undoStore)
      /\ AllFit
  BY DEF FitsInv, StoresFit
<1>2. objectStore' = Collected
  BY DEF CompactHistory, Collected, CollectedFrom
<1>3. /\ compaction' = [compaction EXCEPT !.phase = "collected"]
      /\ undoStore' = undoStore /\ memory' = memory /\ baseline' = baseline
      /\ interrupted' = interrupted /\ crashes' = crashes
  BY DEF CompactHistory, ghosts
<1>4. /\ ObjectsOK(Collected)
      /\ \A p \in PersistentRoot : LastRevid(Collected, p) = LastRevid(objectStore, p)
  BY <1>1, CollectedParts
<1>5. CommandsFit(Collected, undoStore)
  <2> SUFFICES ASSUME NEW c \in 1 .. Len(undoStore.commands)
               PROVE  OpFits(Collected, undoStore.commands[c].root, undoStore.commands[c].operation)
    BY DEF CommandsFit
  <2>1. undoStore.commands[c].root \in PersistentRoot
    BY <1>1, InUseAreCommands
  <2> QED
    BY <1>1, <1>4, <2>1 DEF CommandsFit, OpFits
<1>6. FitsInv'
  <2>1. AllFit'
    BY <1>1, <1>3 DEF AllFit
  <2> QED
    BY <1>1, <1>2, <1>3, <1>4, <1>5, <2>1 DEF FitsInv, StoresFit
<1>7. /\ compaction'.phase = "collected"
      /\ compaction'.finalizable = compaction.finalizable /\ compaction'.live = compaction.live
      /\ compaction' = [phase |-> compaction'.phase, finalizable |-> compaction'.finalizable,
                        live |-> compaction'.live]
  BY <1>3 DEF CompactionFits
<1>8. CompactionFits'
  BY <1>7 DEF CompactionFits
<1> QED
  BY <1>2, <1>6, <1>8

-----------------------------------------------------------------------------
(* Deleting the marked commands *)

(* Rows and tracks go; the tracks that stay have their head.               *)
LEMMA FinalizeFits ==
  ASSUME NEW u, StoreFits(u), NEW blocked \in BOOLEAN, NEW u2, u2 = FinalizeDeletions(u, blocked)
  PROVE  /\ StoreFits(u2) /\ GoesOn(u, u2)
         /\ u2.commands = u.commands /\ LiveRows(u2) \subseteq LiveRows(u)
<1> DEFINE emptied == {c \in u.rows : u.commands[c].trackName \in EmptyTracks(u)}
           kept == CompactedTracks(u) \ EmptyTracks(u)
           deleted == emptied \cup (IF kept = {} \/ blocked THEN {} ELSE u.marked)
           tracks == [t \in DOMAIN u.tracks \ EmptyTracks(u) |->
                        IF t \in kept THEN StateForTrackName(u, t) ELSE u.tracks[t]]
<1>1. /\ u \in [commands : Seq(Command), rows : SUBSET Nat, marked : SUBSET Nat, tracks : States]
      /\ Ordered(u.commands) /\ Len(u.commands) <= MaxSequenceNumber
      /\ u.rows \subseteq 1 .. Len(u.commands) /\ u.marked \subseteq u.rows
      /\ \A t \in DOMAIN u.tracks :
           /\ u.tracks[t].head \in u.rows /\ u.commands[u.tracks[t].head].trackName = t
           /\ u.tracks[t].current \in {0} \cup (u.rows \cap Anc(u.commands, u.tracks[t].head))
  BY DEF StoreFits
<1>2. /\ DOMAIN u.tracks \subseteq TrackName /\ \A t \in DOMAIN u.tracks : u.tracks[t] \in State
      /\ Len(u.commands) \in Nat
  BY StoreFitsParts
<1>3. u2 = [u EXCEPT !.rows = u.rows \ deleted, !.marked = u.marked \ deleted, !.tracks = tracks]
  BY DEF FinalizeDeletions
<1>4. /\ deleted \subseteq emptied \cup u.marked
      /\ \A c \in emptied : c \in u.rows /\ u.commands[c].trackName \in EmptyTracks(u)
      /\ \A c \in u.marked : u.commands[c].trackName \in CompactedTracks(u)
      /\ EmptyTracks(u) \subseteq CompactedTracks(u)
      /\ kept = CompactedTracks(u) \ EmptyTracks(u)
  BY DEF CompactedTracks, EmptyTracks
<1>5. \A t \in kept : StateForTrackName(u, t).head # 0
  BY DEF EmptyTracks
<1>6. /\ DOMAIN tracks = DOMAIN u.tracks \ EmptyTracks(u)
      /\ \A t \in DOMAIN tracks :
           tracks[t] = IF t \in kept THEN StateForTrackName(u, t) ELSE u.tracks[t]
  OBVIOUS
<1> HIDE DEF emptied, deleted, kept, tracks
<1>7. ASSUME NEW t \in DOMAIN tracks
      PROVE  /\ tracks[t] \in State
             /\ tracks[t].head = u.tracks[t].head
             /\ tracks[t].current \in {0} \cup {u.tracks[t].current}
             /\ t \in CompactedTracks(u) =>
                  /\ tracks[t].head \in LiveRows(u)
                  /\ tracks[t].current \in {0} \cup LiveRows(u)
  <2>1. t \in DOMAIN u.tracks /\ u.tracks[t] \in State
    BY <1>2, <1>6
  <2>2. CASE t \in kept
    <3>1. tracks[t] = StateForTrackName(u, t) /\ StateForTrackName(u, t).head # 0
      BY <1>5, <1>6, <2>2
    <3>2. u.tracks[t].head \in LiveRows(u)
      BY <2>1, <3>1 DEF StateForTrackName, NoState
    <3>3. tracks[t] = [u.tracks[t] EXCEPT !.current =
                         IF u.tracks[t].current \in LiveRows(u) THEN u.tracks[t].current ELSE 0]
      BY <2>1, <3>1, <3>2 DEF StateForTrackName
    <3> QED
      BY <2>1, <3>2, <3>3 DEF State
  <2>3. CASE t \notin kept
    <3>1. t \notin CompactedTracks(u)
      BY <1>4, <1>6, <2>3
    <3> QED
      BY <1>6, <2>1, <2>3, <3>1
  <2> QED
    BY <2>2, <2>3
<1>8. ASSUME NEW t \in DOMAIN tracks, NEW c \in u.rows, u.commands[c].trackName = t,
             t \in CompactedTracks(u) => c \in LiveRows(u)
      PROVE  c \in u.rows \ deleted
  BY <1>4, <1>6, <1>8 DEF LiveRows
<1>9. ASSUME NEW t \in DOMAIN tracks
      PROVE  /\ tracks[t].head \in u.rows \ deleted
             /\ u.commands[tracks[t].head].trackName = t
             /\ tracks[t].current
                  \in {0} \cup ((u.rows \ deleted) \cap Anc(u.commands, tracks[t].head))
  <2>1. /\ u.tracks[t].head \in u.rows /\ u.commands[u.tracks[t].head].trackName = t
        /\ u.tracks[t].current \in {0} \cup (u.rows \cap Anc(u.commands, u.tracks[t].head))
    BY <1>1, <1>6
  <2>2. \A a \in Anc(u.commands, u.tracks[t].head) : u.commands[a].trackName = t
    <3>1. u.tracks[t].head \in 1 .. Len(u.commands)
      BY <1>1, <2>1
    <3> QED
      BY <1>1, <2>1, <3>1, AncestorsOfTrack
  <2>3. tracks[t].head \in u.rows \ deleted
    BY <1>7, <1>8, <2>1
  <2>4. ASSUME tracks[t].current # 0
        PROVE  tracks[t].current \in (u.rows \ deleted) \cap Anc(u.commands, tracks[t].head)
    <3>1. tracks[t].current = u.tracks[t].current
      BY <1>7, <2>4
    <3>2. tracks[t].current \in u.rows /\ tracks[t].current \in Anc(u.commands, tracks[t].head)
      BY <1>7, <2>1, <2>4, <3>1
    <3>3. u.commands[tracks[t].current].trackName = t
      BY <2>1, <2>2, <2>4, <3>1
    <3> QED
      BY <1>7, <1>8, <2>4, <3>2, <3>3
  <2> QED
    BY <1>7, <2>1, <2>3, <2>4
<1>10. tracks \in States
  <2>1. DOMAIN tracks \subseteq TrackName /\ tracks \in [DOMAIN tracks -> State]
    <3>1. tracks = [t \in DOMAIN tracks |-> tracks[t]]
      BY DEF tracks
    <3> QED
      BY <1>2, <1>6, <1>7, <3>1
  <2> QED
    BY <2>1, StatesAreFunctions
<1>11. /\ u2 \in [commands : Seq(Command), rows : SUBSET Nat, marked : SUBSET Nat, tracks : States]
       /\ u2.commands = u.commands /\ u2.rows = u.rows \ deleted
       /\ u2.marked = u.marked \ deleted /\ u2.tracks = tracks
  <2>1. u.rows \ deleted \in SUBSET Nat /\ u.marked \ deleted \in SUBSET Nat
    BY <1>1
  <2> QED
    BY <1>1, <1>3, <1>10, <2>1
<1>12. StoreFits(u2)
  BY <1>1, <1>9, <1>11 DEF StoreFits
<1>13. LiveRows(u2) \subseteq LiveRows(u)
  BY <1>11 DEF LiveRows
<1>14. GoesOn(u, u2)
  BY <1>2, <1>11, <1>13 DEF GoesOn
<1> QED
  BY <1>11, <1>12, <1>13, <1>14

(* The marked commands go, and everything fits on.                         *)
LEMMA EndingFits ==
  ASSUME FitsInv, EndCompaction
  PROVE  /\ FitsInv' /\ compaction' = Idle
         /\ InUse(undoStore', memory') \subseteq InUse(undoStore, memory)
         /\ objectStore' = objectStore /\ undoStore'.commands = undoStore.commands
<1>1. /\ compaction' = Idle /\ objectStore' = objectStore /\ memory' = memory
      /\ baseline' = baseline /\ interrupted' = interrupted /\ crashes' = crashes
  BY DEF EndCompaction, ghosts
<1>2. PICK blocked \in BOOLEAN : undoStore' = FinalizeDeletions(undoStore, blocked)
  BY DEF EndCompaction
<1>3. /\ ObjectsOK(objectStore) /\ StoreFits(undoStore) /\ CommandsFit(objectStore, undoStore)
      /\ AllFit
  BY DEF FitsInv, StoresFit
<1>4. PICK u : u = undoStore
  OBVIOUS
<1>5. PICK u2 : u2 = FinalizeDeletions(u, blocked)
  OBVIOUS
<1>6. /\ StoreFits(u) /\ StoreFits(u2) /\ GoesOn(u, u2)
      /\ u2.commands = u.commands /\ LiveRows(u2) \subseteq LiveRows(u)
  BY <1>3, <1>4, <1>5, FinalizeFits
<1>7. undoStore' = u2
  BY <1>2, <1>4, <1>5
<1>8. AllFit'
  <2>1. \A j \in Track : MemoryFits(j, memory[j], u2)
    BY <1>3, <1>4, <1>6, MemoryFitsOn DEF AllFit
  <2> QED
    BY <1>1, <1>3, <1>7, <2>1 DEF AllFit
<1>9. FitsInv'
  <2>1. CommandsFit(objectStore, u2)
    BY <1>3, <1>4, <1>6 DEF CommandsFit
  <2> QED
    BY <1>1, <1>3, <1>4, <1>6, <1>7, <1>8, <2>1 DEF FitsInv, StoresFit
<1>10. InUse(u2, memory) \subseteq InUse(u, memory)
  BY <1>6 DEF InUse
<1> QED
  BY <1>1, <1>4, <1>6, <1>7, <1>9, <1>10

(* A crash: the track objects are loaded anew.                             *)
LEMMA CrashingFits ==
  ASSUME FitsInv, CrashInCompaction
  PROVE  /\ FitsInv' /\ compaction' = Idle
         /\ InUse(undoStore', memory') \subseteq InUse(undoStore, memory)
         /\ objectStore' = objectStore /\ undoStore' = undoStore
<1>1. /\ compaction' = Idle /\ objectStore' = objectStore /\ undoStore' = undoStore
      /\ baseline' = baseline /\ interrupted' = interrupted
      /\ crashes < MaxCrashes /\ crashes' = crashes + 1
      /\ memory' = [i \in Track |-> Loaded(i, undoStore)]
  BY DEF CrashInCompaction, Crash, ghosts
<1>2. /\ ObjectsOK(objectStore) /\ StoreFits(undoStore) /\ CommandsFit(objectStore, undoStore)
      /\ crashes \in 0 .. MaxCrashes
  BY DEF FitsInv, StoresFit
<1>3. \A j \in Track : /\ MemoryFits(j, memory'[j], undoStore)
                       /\ DOMAIN memory'[j].parents \subseteq LiveRows(undoStore)
  BY <1>1, <1>2, LoadedFits
<1>4. AllFit'
  BY <1>1, <1>3 DEF AllFit
<1>5. FitsInv'
  <2>1. crashes + 1 \in 0 .. MaxCrashes
    BY <1>1, <1>2, UndoTrackAssumption
  <2>2. StoreFits(undoStore') /\ CommandsFit(objectStore', undoStore') /\ ObjectsOK(objectStore')
    BY <1>1, <1>2
  <2>3. /\ \A p \in PersistentRoot : LastRevid(objectStore', p) <= MaxRevid
        /\ baseline' \in [PersistentRoot -> SUBSET Nat]
        /\ \A p \in PersistentRoot : baseline'[p] \subseteq 1 .. LastRevid(objectStore', p)
        /\ interrupted' \subseteq 1 .. Len(undoStore'.commands)
    BY <1>1 DEF FitsInv
  <2> QED
    BY <1>1, <1>4, <2>1, <2>2, <2>3 DEF FitsInv, StoresFit
<1>6. InUse(undoStore', memory') \subseteq InUse(undoStore, memory)
  BY <1>1, <1>3 DEF InUse
<1> QED
  BY <1>1, <1>5, <1>6

-----------------------------------------------------------------------------
(* Every step *)

CompactInv == FitsInv /\ CompactionFits

(* What no compaction is under way has its types.                          *)
LEMMA IdleFits ==
  ASSUME compaction = Idle
  PROVE  CompactionFits
<1>1. DOMAIN << >> = {}
  OBVIOUS
<1>2. /\ compaction.phase = "idle" /\ compaction.finalizable = {} /\ compaction.live = << >>
      /\ compaction = [phase |-> compaction.phase, finalizable |-> compaction.finalizable,
                       live |-> compaction.live]
  BY DEF Idle
<1> QED
  BY <1>1, <1>2 DEF CompactionFits

(* The steps, by what they do to a compaction.                             *)
LEMMA CompactionSteps ==
  ASSUME CompactInv, [CompactionNext]_compactionVars
  PROVE  \/ [Next]_vars /\ compaction' = compaction /\ (compaction.phase = "idle" \/ UNCHANGED vars)
         \/ \E i, C, D : Computed(i, C, D)
         \/ CompactHistory
         \/ EndCompaction
         \/ CrashInCompaction
<1>1. ASSUME NEW i \in Compacted, NEW c \in DOMAIN memory[i].parents, BeginCompaction(i, c)
      PROVE  \E j, C, D : Computed(j, C, D)
  BY <1>1, BeginComputes DEF CompactInv
<1>2. CASE UNCHANGED compactionVars
  BY <1>2 DEF compactionVars
<1>3. CASE CompactionNext
  BY <1>1, <1>3 DEF CompactionNext
<1> QED
  BY <1>2, <1>3

(* The invariant is inductive.                                             *)
LEMMA CompactInductive ==
  /\ CompactionInit => CompactInv
  /\ CompactInv /\ [CompactionNext]_compactionVars => CompactInv'
<1>1. CompactionInit => CompactInv
  BY FitsInit, IdleFits DEF CompactionInit, CompactInv
<1>2. ASSUME CompactInv, [CompactionNext]_compactionVars
      PROVE  CompactInv'
  <2>1. ASSUME [Next]_vars, compaction' = compaction
        PROVE  CompactInv'
    <3>1. FitsInv'
      BY <1>2, <2>1, TracksStay DEF Stays, CompactInv
    <3>2. CompactionFits'
      BY <1>2, <2>1 DEF CompactInv, CompactionFits
    <3> QED
      BY <3>1, <3>2 DEF CompactInv
  <2>2. ASSUME NEW i, NEW C, NEW D, Computed(i, C, D)
        PROVE  CompactInv'
    BY <1>2, <2>2, ComputedFits DEF CompactInv
  <2>3. ASSUME CompactHistory
        PROVE  CompactInv'
    BY <1>2, <2>3, CollectingFits DEF CompactInv
  <2>4. ASSUME compaction' = Idle
        PROVE  CompactionFits'
  <3>1. CompactionFits'
      <4>1. DOMAIN << >> = {}
        OBVIOUS
      <4>2. /\ compaction'.phase = "idle" /\ compaction'.finalizable = {}
            /\ compaction'.live = << >>
            /\ compaction' = [phase |-> compaction'.phase, live |-> compaction'.live,
                              finalizable |-> compaction'.finalizable]
        BY <2>4 DEF Idle
      <4> QED
        BY <4>1, <4>2 DEF CompactionFits
  <3> QED
    BY <3>1
  <2>5. ASSUME EndCompaction
        PROVE  CompactInv'
    BY <1>2, <2>4, <2>5, EndingFits DEF CompactInv
  <2>6. ASSUME CrashInCompaction
        PROVE  CompactInv'
    BY <1>2, <2>4, <2>6, CrashingFits DEF CompactInv
  <2> QED
    BY <1>2, <2>1, <2>2, <2>3, <2>5, <2>6, CompactionSteps
<1> QED
  BY <1>1, <1>2

(* It holds throughout.                                                    *)
LEMMA CompactInvariant == CompactionSpec => []CompactInv
BY CompactInductive, PTL DEF CompactionSpec

-----------------------------------------------------------------------------
(* Types *)

(* The undo store's types.                                                 *)
LEMMA FitStoreTyped ==
  ASSUME NEW u, StoreFits(u)
  PROVE  IsUndoStore(u)
<1>1. /\ u.commands \in Seq(Command) /\ u.rows \subseteq 1 .. Len(u.commands)
      /\ u.marked \subseteq u.rows
      /\ DOMAIN u.tracks \subseteq TrackName
      /\ Len(u.commands) \in Nat /\ Len(u.commands) <= MaxSequenceNumber
      /\ Ordered(u.commands) /\ u.tracks \in States /\ MaxSequenceNumber \in Nat
  BY StoreFitsParts, UndoTrackAssumption DEF StoreFits
<1>2. \A t \in DOMAIN u.tracks : u.tracks[t] \in TrackState
  <2> TAKE t \in DOMAIN u.tracks
  <2>1. /\ u.tracks[t] \in State
        /\ OfTrack(u.commands, t, u.tracks[t].head) /\ OfTrack(u.commands, t, u.tracks[t].current)
    BY StoreFitsParts
  <2> QED
    BY <1>1, <2>1 DEF OfTrack, State, TrackState
<1>3. u.tracks \in [DOMAIN u.tracks -> State]
  BY <1>1, StatesAreFunctions
<1>4. u.tracks \in [DOMAIN u.tracks -> TrackState]
  BY <1>2, <1>3
<1> QED
  BY <1>1, <1>4 DEF IsUndoStore

(* The types of what a track object has in memory.                         *)
LEMMA FitMemoryTyped ==
  ASSUME NEW u, StoreFits(u), NEW i \in Track, NEW m, MemoryFits(i, m, u)
  PROVE  IsMemory(m)
<1>1. /\ Len(u.commands) \in Nat /\ Len(u.commands) <= MaxSequenceNumber
      /\ Ordered(u.commands) /\ MaxSequenceNumber \in Nat
  BY StoreFitsParts, UndoTrackAssumption
<1>2. StatesFit(i, u.commands, m.states) /\ ParentsFit(u.commands, DOMAIN m.states, m.parents)
  BY DEF MemoryFits, MemoryParts
<1>3. /\ DOMAIN m.states \subseteq TrackName
      /\ m.states \in [DOMAIN m.states -> TrackState]
  <2>1. m.states \in States /\ m.states \in [DOMAIN m.states -> State]
    BY <1>2, StatesAreFunctions DEF StatesFit
  <2>2. \A t \in DOMAIN m.states : m.states[t] \in TrackState
    <3> TAKE t \in DOMAIN m.states
    <3>1. /\ m.states[t] \in State
          /\ OfTrack(u.commands, t, m.states[t].head) /\ OfTrack(u.commands, t, m.states[t].current)
      BY <1>2, <2>1 DEF StatesFit
    <3> QED
      BY <1>1, <3>1 DEF OfTrack, State, TrackState
  <2> QED
    BY <2>1, <2>2, StatesAreFunctions
<1>4. /\ DOMAIN m.parents \subseteq 1 .. Len(u.commands)
      /\ \A c \in DOMAIN m.parents : m.parents[c] \in {0, u.commands[c].parent}
      /\ m.parents \in ParentMaps
  BY <1>2 DEF ParentsFit
<1>5. DOMAIN m.parents \subseteq SequenceNumber
  BY <1>1, <1>4 DEF SequenceNumber
<1>6. m.parents \in [DOMAIN m.parents -> 0 .. MaxSequenceNumber]
  <2>1. m.parents \in [DOMAIN m.parents -> Nat]
    BY <1>4, ParentMapsAreFunctions
  <2>2. \A c \in DOMAIN m.parents : m.parents[c] \in 0 .. MaxSequenceNumber
    <3> TAKE c \in DOMAIN m.parents
    <3>1. u.commands[c] \in Command
      BY <1>1, <1>4, CommandTree
    <3> QED
      BY <1>1, <1>4, <3>1 DEF Command
  <2> QED
    BY <2>1, <2>2
<1>7. m.nodes \in Seq(0 .. MaxSequenceNumber)
  <2>1. /\ m.nodes \in Seq(Nat) /\ Len(m.nodes) \in Nat /\ m.nodes[1] = 0
        /\ \A k \in 2 .. Len(m.nodes) : m.nodes[k] \in DOMAIN m.parents
    BY DEF MemoryFits, NodesFit
  <2>2. ASSUME NEW k \in 1 .. Len(m.nodes)
        PROVE  m.nodes[k] \in 0 .. MaxSequenceNumber
    <3>1. k = 1 \/ k \in 2 .. Len(m.nodes)
      BY <2>1
    <3>2. k \in 2 .. Len(m.nodes) => m.nodes[k] \in 1 .. Len(u.commands)
      BY <1>4, <2>1
    <3> QED
      BY <1>1, <2>1, <3>1, <3>2
  <2> QED
    BY <2>1, <2>2
<1> QED
  BY <1>3, <1>5, <1>6, <1>7 DEF IsMemory

(* The types of all variables.                                             *)
LEMMA CompactTyped ==
  CompactInv => CompactionTypeOK
<1> SUFFICES ASSUME CompactInv
             PROVE  CompactionTypeOK
  OBVIOUS
<1>1. /\ ObjectsOK(objectStore) /\ StoreFits(undoStore) /\ AllFit
      /\ \A p \in PersistentRoot : LastRevid(objectStore, p) <= MaxRevid
  BY DEF CompactInv, FitsInv, StoresFit
<1>2. IsObjectStore(objectStore) /\ IsUndoStore(undoStore)
  BY <1>1, ObjectStoreTyped, FitStoreTyped
<1>3. DOMAIN memory = Track /\ \A i \in Track : IsMemory(memory[i])
  BY <1>1, FitMemoryTyped DEF AllFit
<1>4. baseline \in [PersistentRoot -> SUBSET Revid]
  <2>1. \A p \in PersistentRoot : baseline[p] \subseteq Revid
    <3> TAKE p \in PersistentRoot
    <3>1. LastRevid(objectStore, p) \in Nat /\ LastRevid(objectStore, p) <= MaxRevid
      BY <1>1, ObjectParts
    <3>2. 1 .. LastRevid(objectStore, p) \subseteq Revid
      BY <3>1, UndoTrackAssumption DEF Revid
    <3> QED
      BY <3>2 DEF CompactInv, FitsInv
  <2> QED
    BY <2>1 DEF CompactInv, FitsInv
<1>5. interrupted \subseteq 1 .. Len(undoStore.commands) /\ crashes \in 0 .. MaxCrashes
  BY DEF CompactInv, FitsInv
<1>6. UndoTypeOK
  BY <1>2, <1>3, <1>4, <1>5 DEF UndoTypeOK
<1> QED
  BY <1>6 DEF CompactionTypeOK, CompactInv, CompactionFits

(* A track's head is a row, and its current command is on its branch.      *)
LEMMA CompactRowsHold ==
  CompactInv => TrackRowsHold
<1> SUFFICES ASSUME CompactInv, NEW t \in DOMAIN undoStore.tracks
             PROVE  /\ undoStore.tracks[t].head \in undoStore.rows
                    /\ undoStore.tracks[t].current \in {0} \cup
                         (undoStore.rows \cap AncestorsAndSelf(undoStore, undoStore.tracks[t].head))
  BY DEF TrackRowsHold
<1>1. PICK u : u = undoStore
  OBVIOUS
<1>2. StoreFits(u) /\ t \in DOMAIN u.tracks
  BY <1>1 DEF CompactInv, FitsInv, StoresFit
<1>3. /\ Ordered(u.commands) /\ u.tracks[t].head \in u.rows
      /\ u.tracks[t].current \in {0} \cup (u.rows \cap Anc(u.commands, u.tracks[t].head))
  BY <1>2 DEF StoreFits
<1>4. AncestorsAndSelf(u, u.tracks[t].head) = Anc(u.commands, u.tracks[t].head)
  BY <1>3, AncestorsAreAnc
<1> QED
  BY <1>1, <1>3, <1>4

(* Whatever is recorded, undone, redone and compacted, in whatever order   *)
(* and with whatever crashes, the databases, the memory of the track       *)
(* objects and the strategy of the compaction have their types.            *)
THEOREM CompactionTypes == CompactionSpec => []CompactionTypeOK
BY CompactInvariant, CompactTyped, PTL

(* A compaction leaves no track with a head or a current command that is   *)
(* no row any more, whichever rows and tracks it deletes.                  *)
THEOREM TrackRowsHoldCompacted == CompactionSpec => []TrackRowsHold
BY CompactInvariant, CompactRowsHold, PTL

-----------------------------------------------------------------------------
(* What a compaction keeps *)

(* The histories that are compacted are the whole of the undo store.  (The *)
(* commands of other tracks have no say in what -compute keeps.)           *)
OnlyTrack == \A i \in Compacted : i \notin PatternTrack /\ NamesOf[i] = TrackName

(* What CompactHistory leaves of what is stored. *)
CollectedIs ==
  /\ Collected.rows = objectStore.rows
  /\ \A p \in PersistentRoot :
       Collected.stored[p] =
         IF p \in FinalizedRoots THEN {}
         ELSE IF p \in compaction.finalizable \cup DOMAIN compaction.live
         THEN objectStore.stored[p] \cap KeptRevisions(p)
         ELSE objectStore.stored[p]

(* It leaves that now,                                                     *)
LEMMA CollectedIsNow ==
  ObjectsOK(objectStore) /\ CompactionFits => CollectedIs
BY CollectedParts DEF CollectedIs

(* and after a step.                                                       *)
LEMMA CollectedIsLater ==
  ObjectsOK(objectStore)' /\ CompactionFits' => CollectedIs'
<1>1. (ObjectsOK(objectStore) /\ CompactionFits => CollectedIs)'
  BY CollectedIsNow, PTL
<1> QED
  BY <1>1

(* On the only track, a compaction chooses among all that is live, and     *)
(* leaves what it does not discard.                                        *)
LEMMA ComputedUses ==
  ASSUME OnlyTrack, FitsInv, NEW i, NEW C, NEW D, Computed(i, C, D)
  PROVE  InUse(undoStore', memory') \subseteq C \ D
<1>1. StoreFits(undoStore) /\ AllFit
  BY DEF FitsInv, StoresFit
<1>2. /\ i \in Track /\ i \notin PatternTrack /\ NamesOf[i] = TrackName
      /\ C = DOMAIN memory[i].parents /\ C \subseteq LiveRows(undoStore) /\ D \subseteq C
      /\ D # {} /\ MarkCommandsAsDeleted(D)
  BY HistoryCompactionAssumption DEF OnlyTrack, Computed
<1>3. PICK X : TrackName = {X}
  BY <1>2, UndoTrackAssumption
<1>4. \A c \in 1 .. Len(undoStore.commands) : undoStore.commands[c].trackName = X
  <2>1. Ordered(undoStore.commands)
    BY <1>1, StoreFitsParts
  <2> QED
    BY <1>3, <2>1, CommandTree DEF Command
<1>5. LiveRows(undoStore) \subseteq 1 .. Len(undoStore.commands)
      /\ LiveRows(undoStore) \subseteq undoStore.rows
  BY <1>1, StoreFitsParts
<1>6. LiveRows(undoStore) \subseteq C
  <2>1. PICK m : m = memory[i]
    OBVIOUS
  <2>2. HasAll(i, m, undoStore) /\ ParentsFit(undoStore.commands, DOMAIN m.states, m.parents)
    BY <1>1, <1>2, <2>1 DEF AllFit, MemoryFits, MemoryParts
  <2>3. DOMAIN m.states # {}
    <3>1. PICK d \in D : TRUE
      BY <1>2
    <3>2. d \in DOMAIN m.parents
      BY <1>2, <2>1, <3>1
    <3> QED
      BY <2>2, <3>2 DEF ParentsFit
  <2>4. ASSUME NEW c \in LiveRows(undoStore)
        PROVE  c \in DOMAIN m.parents
    <3>1. undoStore.commands[c].trackName \in NamesOf[i]
      BY <1>2, <1>3, <1>4, <1>5
    <3> QED
      BY <1>2, <2>2, <2>3, <3>1 DEF HasAll
  <2> QED
    BY <1>2, <2>1, <2>4
<1>7. /\ undoStore'.commands = undoStore.commands
      /\ LiveRows(undoStore') = LiveRows(undoStore) \ D
      /\ undoStore'.marked = undoStore.marked \cup (D \cap undoStore.rows)
      /\ \A j \in Track :
           IF NamesOf[j] \cap CompactedTracks(undoStore') = {}
           THEN memory'[j] = memory[j]
           ELSE DOMAIN memory'[j].parents \subseteq LiveRows(undoStore')
  BY <1>1, <1>2, MarkCommandsFit
<1>8. X \in CompactedTracks(undoStore')
  <2>1. PICK d \in D : TRUE
    BY <1>2
  <2>2. d \in undoStore'.marked /\ undoStore'.commands[d].trackName = X
    BY <1>2, <1>4, <1>5, <1>7, <2>1
  <2> QED
    BY <2>2 DEF CompactedTracks
<1>9. ASSUME NEW j \in Track
      PROVE  DOMAIN memory'[j].parents \subseteq LiveRows(undoStore')
  <2>1. CASE NamesOf[j] \cap CompactedTracks(undoStore') = {}
    <3>1. NamesOf[j] = {}
      <4>1. NamesOf[j] \subseteq {X}
        BY <1>3, UndoTrackAssumption
      <4> QED
        BY <1>8, <2>1, <4>1
    <3>2. /\ StatesFit(j, undoStore.commands, memory[j].states)
          /\ ParentsFit(undoStore.commands, DOMAIN memory[j].states, memory[j].parents)
      BY <1>1 DEF AllFit, MemoryFits, MemoryParts
    <3>3. DOMAIN memory[j].states = {}
      BY <3>1, <3>2 DEF StatesFit
    <3>4. DOMAIN memory[j].parents = {}
      BY <3>2, <3>3 DEF ParentsFit
    <3>5. memory'[j] = memory[j]
      BY <1>7, <2>1
    <3> QED
      BY <3>4, <3>5
  <2>2. CASE NamesOf[j] \cap CompactedTracks(undoStore') # {}
    BY <1>7, <2>2
  <2> QED
    BY <2>1, <2>2
<1>10. LiveRows(undoStore') \subseteq C \ D
  BY <1>6, <1>7
<1> QED
  BY <1>9, <1>10 DEF InUse

(* What collecting leaves of a root that -compute chose to compact or to   *)
(* finalize: what it shows, and the revisions of the commands left.        *)
LEMMA ComputedKeeps ==
  ASSUME OnlyTrack, ~CollectsCurrentRevision, FitsInv, AllKept(objectStore),
         NEW i, NEW C, NEW D, Computed(i, C, D)
  PROVE  AllKept(objectStore)' /\ AllKept(Collected)'
<1>1. /\ ObjectsOK(objectStore) /\ StoreFits(undoStore) /\ AllFit
      /\ \A p \in PersistentRoot : LastRevid(objectStore, p) <= MaxRevid
  BY DEF FitsInv, StoresFit
<1>2. /\ C \subseteq LiveRows(undoStore) /\ D \subseteq C
      /\ KeepsCurrentRevisions(C, D) /\ IsComputable(C, D)
      /\ MarkCommandsAsDeleted(D) /\ objectStore' = objectStore
  BY DEF Computed
<1>3. /\ CompactionFits' /\ C \subseteq 1 .. Len(undoStore.commands)
      /\ compaction'.finalizable = FinalizableRoots(C, D)
      /\ DOMAIN compaction'.live = CompactableRoots(C, D)
      /\ \A p \in CompactableRoots(C, D) : compaction'.live[p] = LiveRevisions(C, D, p)
  BY ComputedFits
<1>4. undoStore'.commands = undoStore.commands
  BY <1>1, <1>2, MarkCommandsFit
<1>5. InUse(undoStore', memory') \subseteq C \ D
  BY ComputedUses
<1>6. \A c \in C : OpKept(objectStore, undoStore.commands[c].root, undoStore.commands[c].operation)
  BY <1>2 DEF AllKept, InUse
<1>7. AllKept(objectStore)'
  BY <1>2, <1>4, <1>5, <1>6 DEF AllKept
<1>8. PICK o : o = objectStore
  OBVIOUS
<1>9. CollectedIs'
  BY <1>1, <1>2, <1>3, CollectedIsLater
<1>10. PICK o2 : o2 = Collected'
  OBVIOUS
<1>11. /\ o2.rows = o.rows
       /\ \A p \in PersistentRoot :
            o2.stored[p] =
              IF p \in FinalizableRoots(C, D) /\ o.rows[p].deleted THEN {}
              ELSE IF p \in FinalizableRoots(C, D) \cup CompactableRoots(C, D)
              THEN o.stored[p] \cap KeptRevisions(p)'
              ELSE o.stored[p]
  <2>1. FinalizedRoots' = {p \in FinalizableRoots(C, D) : o.rows[p].deleted}
    BY <1>2, <1>3, <1>8 DEF FinalizedRoots
  <2> QED
    BY <1>2, <1>3, <1>8, <1>9, <1>10, <2>1 DEF CollectedIs
<1>12. ASSUME NEW p \in PersistentRoot
       PROVE  /\ o.rows[p].current \in Revid /\ o.rows[p].head \in Revid
              /\ o.rows[p].head \in 1 .. LastRevid(o, p)
              /\ RootKept(o, p)
  <2>1. /\ o.rows[p].current \in 1 .. LastRevid(o, p) /\ o.rows[p].head \in 1 .. LastRevid(o, p)
        /\ LastRevid(o, p) \in Nat /\ LastRevid(o, p) <= MaxRevid
    BY <1>1, <1>8, ObjectParts DEF ObjectsOK
  <2>2. RootKept(o, p)
    BY <1>8 DEF AllKept, Kept
  <2> QED
    BY <2>1, <2>2, UndoTrackAssumption DEF Revid
<1>13. ASSUME NEW p \in CompactableRoots(C, D)
       PROVE  /\ KeptRevisions(p)' = {r \in Revid : r >= Min(LiveRevisions(C, D, p))}
              /\ o.rows[p].current >= Min(LiveRevisions(C, D, p))
              /\ o.rows[p].head >= Min(LiveRevisions(C, D, p))
              /\ \A c \in Sets(C \ D, p) : \A r \in RevisionsOf(OperationOf(c)) :
                   r \in Revid /\ r >= Min(LiveRevisions(C, D, p))
  <2>1. compaction'.live[p] = LiveRevisions(C, D, p) /\ p \in DOMAIN compaction'.live
    BY <1>3
  <2>2. KeptRevisions(p)' = {r \in Revid : r >= Min(LiveRevisions(C, D, p))}
    BY <2>1 DEF KeptRevisions
  <2>3. LiveRevisions(C, D, p) \in (SUBSET Revid) \ {{}}
    BY <1>3, <2>1 DEF CompactionFits
  <2>4. PICK L : L = LiveRevisions(C, D, p)
    OBVIOUS
  <2>5. L \in SUBSET Nat /\ L # {} /\ L \subseteq Revid
    BY <2>3, <2>4 DEF Revid
  <2>6. Min(L) \in Nat /\ \A n \in L : Min(L) <= n
    BY <2>5, MinIsLeast
  <2>7. Sets(C, p) # {}
    BY <1>2 DEF IsComputable
  <2>8. \A c \in Sets(C \ D, p) : RevisionsOf(OperationOf(c)) \subseteq L
    BY <1>1, <1>2, <1>3, <2>4, <2>7, LiveRevisionsAre
  <2>9. o.rows[p].current >= Min(L) /\ o.rows[p].head >= Min(L)
    BY <1>2, <1>8, <2>4 DEF KeepsCurrentRevisions
  <2>10. ASSUME NEW c \in Sets(C \ D, p), NEW r \in RevisionsOf(OperationOf(c))
         PROVE  r \in Revid /\ r >= Min(L)
    BY <2>5, <2>6, <2>8 DEF Revid
  <2> QED
    BY <2>2, <2>4, <2>9, <2>10
<1>14. ASSUME NEW p \in FinalizableRoots(C, D), p \in PersistentRoot, ~o.rows[p].deleted
       PROVE  o.rows[p].current \in KeptRevisions(p)' /\ o.rows[p].head \in KeptRevisions(p)'
  <2>1. p \notin DOMAIN compaction'.live
    BY <1>3 DEF CompactableRoots
  <2>2. KeptRevisions(p)' = {r \in Revid : IsEqualToOrParent(o, p, r, o.rows[p].head)}
    BY <1>2, <1>8, <2>1 DEF KeptRevisions
  <2>3. IsEqualToOrParent(o, p, o.rows[p].current, o.rows[p].head)
    BY <1>2, <1>8, <1>14 DEF KeepsCurrentRevisions
  <2>4. IsEqualToOrParent(o, p, o.rows[p].head, o.rows[p].head)
    BY <1>1, <1>8, <1>12, <1>14, ReachesItself
  <2> QED
    BY <1>12, <1>14, <2>2, <2>3, <2>4
<1>15. ASSUME NEW p \in PersistentRoot
       PROVE  RootKept(o2, p)
  <2>1. CASE p \in FinalizableRoots(C, D) /\ o.rows[p].deleted
    BY <1>11, <2>1 DEF RootKept
  <2>2. CASE p \in FinalizableRoots(C, D) /\ ~o.rows[p].deleted
    <3>1. /\ o2.stored[p] = o.stored[p] \cap KeptRevisions(p)'
          /\ o.rows[p].current \in KeptRevisions(p)' /\ o.rows[p].head \in KeptRevisions(p)'
          /\ o2.rows = o.rows
      BY <1>11, <1>14, <2>2
    <3>2. o.rows[p].current \in o.stored[p] /\ o.rows[p].head \in o.stored[p]
      BY <1>12, <2>2 DEF RootKept
    <3> QED
      BY <3>1, <3>2 DEF RootKept
  <2>3. CASE p \in CompactableRoots(C, D)
    <3>1. p \notin FinalizableRoots(C, D)
      BY <2>3 DEF CompactableRoots
    <3>2. /\ o2.stored[p] = o.stored[p] \cap KeptRevisions(p)' /\ o2.rows = o.rows
          /\ o.rows[p].current \in KeptRevisions(p)' /\ o.rows[p].head \in KeptRevisions(p)'
      BY <1>11, <1>12, <1>13, <2>3, <3>1
    <3>3. RootKept(o, p)
      BY <1>12
    <3> QED
      BY <3>2, <3>3 DEF RootKept
  <2>4. CASE p \notin FinalizableRoots(C, D) \cup CompactableRoots(C, D)
    <3>1. o2.stored[p] = o.stored[p] /\ o2.rows = o.rows /\ RootKept(o, p)
      BY <1>11, <1>12, <2>4
    <3> QED
      BY <3>1 DEF RootKept
  <2> QED
    BY <2>1, <2>2, <2>3, <2>4
<1>16. ASSUME NEW c \in C \ D
       PROVE  OpKept(o2, undoStore.commands[c].root, undoStore.commands[c].operation)
  <2>1. PICK p : p = undoStore.commands[c].root
    OBVIOUS
  <2>2. PICK op : op = undoStore.commands[c].operation
    OBVIOUS
  <2>3. p \in PersistentRoot
    BY <1>1, <1>3, <2>1, InUseAreCommands
  <2>4. p \in CompactableRoots(C, D) /\ p \notin FinalizableRoots(C, D)
    BY <1>2, <2>1 DEF CompactableRoots, FinalizableRoots, RootsOf
  <2>5. o2.stored[p] = o.stored[p] \cap KeptRevisions(p)'
    BY <1>11, <2>3, <2>4
  <2>6. OpKept(o, p, op)
    BY <1>6, <1>8, <2>1, <2>2
  <2>7. RevisionsOf(op) \subseteq KeptRevisions(p)'
    <3>1. CASE op.kind = "set"
      <4>1. c \in Sets(C \ D, p) /\ OperationOf(c) = op
        BY <2>1, <2>2, <3>1 DEF Sets, CommandsOn, OperationOf
      <4> QED
        BY <1>13, <2>4, <4>1
    <3>2. CASE op.kind # "set"
      BY <3>2 DEF RevisionsOf
    <3> QED
      BY <3>1, <3>2
  <2>8. o2.stored[p] # {}
    <3>1. /\ o.rows[p].current \in KeptRevisions(p)'
          /\ o.stored[p] # {}
      BY <1>12, <1>13, <2>3, <2>4, <2>6 DEF OpKept
    <3>2. o.rows[p].current \in o.stored[p]
      BY <1>12, <2>3, <3>1 DEF RootKept
    <3> QED
      BY <2>5, <3>1, <3>2
  <2> QED
    BY <2>1, <2>2, <2>5, <2>6, <2>7, <2>8 DEF OpKept
<1>17. AllKept(Collected)'
  <2>1. Kept(o2)
    BY <1>15 DEF Kept
  <2> QED
    BY <1>4, <1>5, <1>10, <1>16, <2>1 DEF AllKept
<1> QED
  BY <1>7, <1>17

(* What is kept while a compaction goes on: also what it will leave. *)
KeepsInv ==
  /\ CompactInv /\ AllKept(objectStore)
  /\ compaction.phase = "begun" => AllKept(Collected)

(* What is kept of fewer commands in use.                                  *)
LEMMA FewerKept ==
  ASSUME AllKept(objectStore), objectStore' = objectStore,
         undoStore'.commands = undoStore.commands,
         InUse(undoStore', memory') \subseteq InUse(undoStore, memory)
  PROVE  AllKept(objectStore)'
BY DEF AllKept

(* The invariant is inductive, on the only track, when a compaction that   *)
(* would collect a current revision or a head does not begin.              *)
LEMMA KeepsInductive ==
  ASSUME OnlyTrack, ~CollectsCurrentRevision
  PROVE  /\ CompactionInit => KeepsInv
         /\ KeepsInv /\ [CompactionNext]_compactionVars => KeepsInv'
<1>1. CompactionInit => KeepsInv
  BY FitsInit, CompactInductive DEF CompactionInit, KeepsInv, Idle
<1>2. ASSUME KeepsInv, [CompactionNext]_compactionVars
      PROVE  KeepsInv'
  <2>1. /\ FitsInv /\ CompactionFits /\ CompactInv /\ AllKept(objectStore)
        /\ compaction.phase = "begun" => AllKept(Collected)
    BY <1>2 DEF KeepsInv, CompactInv
  <2>2. CompactInv'
    BY <1>2, <2>1, CompactInductive
  <2>3. ASSUME [Next]_vars, compaction' = compaction, compaction.phase = "idle" \/ UNCHANGED vars
        PROVE  AllKept(objectStore)' /\ (compaction'.phase = "begun" => AllKept(Collected)')
    <3>1. AllKept(objectStore)'
      BY <2>1, <2>3, TracksStay DEF Stays
    <3>2. ASSUME UNCHANGED vars, AllKept(Collected)
          PROVE  AllKept(Collected)'
      <4>1. objectStore' = objectStore /\ undoStore' = undoStore /\ memory' = memory
        BY <3>2 DEF vars
      <4>2. Collected' = Collected
        BY <2>3, <4>1 DEF Collected, CollectedFrom, FinalizedRoots, KeptRevisions
      <4>3. InUse(undoStore', memory') = InUse(undoStore, memory)
        BY <4>1
      <4> QED
        BY <3>2, <4>1, <4>2, <4>3 DEF AllKept
    <3> QED
      BY <2>1, <2>3, <3>1, <3>2
  <2>4. ASSUME NEW i, NEW C, NEW D, Computed(i, C, D)
        PROVE  AllKept(objectStore)' /\ (compaction'.phase = "begun" => AllKept(Collected)')
    BY <2>1, <2>4, ComputedKeeps
  <2>5. ASSUME CompactHistory
        PROVE  AllKept(objectStore)' /\ (compaction'.phase = "begun" => AllKept(Collected)')
    <3>1. /\ objectStore' = Collected /\ undoStore' = undoStore /\ memory' = memory
          /\ compaction.phase = "begun"
      BY <2>1, <2>5, CollectingFits DEF CompactHistory
    <3>2. compaction'.phase = "collected"
      BY <2>1, <2>5 DEF CompactHistory, CompactionFits
    <3>3. InUse(undoStore', memory') = InUse(undoStore, memory)
      BY <3>1
    <3>4. AllKept(Collected)
      BY <2>1, <3>1
    <3>5. AllKept(objectStore)'
      <4>1. PICK o : o = Collected
        OBVIOUS
      <4> QED
        BY <3>1, <3>3, <3>4, <4>1 DEF AllKept
    <3> QED
      BY <3>2, <3>5
  <2>6. ASSUME EndCompaction \/ CrashInCompaction
        PROVE  AllKept(objectStore)' /\ (compaction'.phase = "begun" => AllKept(Collected)')
    <3>1. /\ InUse(undoStore', memory') \subseteq InUse(undoStore, memory)
          /\ objectStore' = objectStore /\ undoStore'.commands = undoStore.commands
          /\ compaction' = Idle
      BY <2>1, <2>6, EndingFits, CrashingFits
    <3>2. AllKept(objectStore)'
      BY <2>1, <3>1, FewerKept
    <3> QED
      BY <3>1, <3>2 DEF Idle
  <2>7. AllKept(objectStore)' /\ (compaction'.phase = "begun" => AllKept(Collected)')
    BY <1>2, <2>1, <2>3, <2>4, <2>5, <2>6, CompactionSteps
  <2> QED
    BY <2>2, <2>7 DEF KeepsInv
<1> QED
  BY <1>1, <1>2

(* What is kept, said of the property.                                     *)
LEMMA KeptSays ==
  KeepsInv => LiveRevisionsKept
<1> SUFFICES ASSUME KeepsInv
             PROVE  LiveRevisionsKept
  OBVIOUS
<1>1. \A c \in LiveRows(undoStore) :
        OpKept(objectStore, undoStore.commands[c].root, undoStore.commands[c].operation)
  BY DEF KeepsInv, AllKept, InUse
<1> QED
  BY <1>1 DEF LiveRevisionsKept, OpKept, OperationOf

(* Whatever can still be undone or redone finds its root and its revisions *)
(* in the store, in every phase of a compaction and after a crash in any   *)
(* of them: for one track that every compacted object is of, and as long   *)
(* as a compaction that would collect what a root is at does not begin.    *)
THEOREM LiveRevisionsAlwaysKept ==
  ASSUME OnlyTrack, ~CollectsCurrentRevision
  PROVE  CompactionSpec => []LiveRevisionsKept
<1>1. CompactionInit => KeepsInv
  BY KeepsInductive
<1>2. KeepsInv /\ [CompactionNext]_compactionVars => KeepsInv'
  BY KeepsInductive
<1>3. KeepsInv => LiveRevisionsKept
  BY KeptSays
<1> QED
  BY <1>1, <1>2, <1>3, PTL DEF CompactionSpec

=============================================================================
