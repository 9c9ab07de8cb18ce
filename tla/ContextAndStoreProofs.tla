------------------------ MODULE ContextAndStoreProofs -----------------------
(***************************************************************************)
(* Proofs about BackingStore, and about ObjectGraphContext that commits to *)
(* it.                                                                     *)
(*                                                                         *)
(* The store, for any items, revisions, delta run limit and bound on row   *)
(* ids: its types, that its rows form deltas over snapshots, that it       *)
(* implements RevisionStore, and that the partial graphs it answers        *)
(* suffice.                                                                *)
(*                                                                         *)
(* The argument.  A complete graph decides what is reachable in any graph  *)
(* that holds it (CompleteGraphDecides), so the garbage a scan drags along *)
(* cannot matter.  A delta reads back as its items over what its parent    *)
(* reads back as (ReadBackIsWhole), however far the scan goes down.  By    *)
(* induction along the run (a least row that would go wrong, LeastRow), a  *)
(* step that keeps deltas, and makes of other rows snapshots of what they  *)
(* read back as, changes nothing that can be read (KeptRowsReadBack).      *)
(*                                                                         *)
(* The context: types for any interval between two collections of objects, *)
(* and, with a collection at every commit, that change tracking hands the  *)
(* store all it needs to give back what was in memory.                     *)
(***************************************************************************)
EXTENDS ObjectGraphContext, TLAPS, WellFoundedInduction

USE ItemGraphAssumption, BackingStoreAssumption

-----------------------------------------------------------------------------
(* Extrema of sets of row ids *)

(* Every set of row ids has a least element, so RebuildRevid is defined.   *)
LEMMA LeastOfIsLeast ==
  ASSUME NEW S \in SUBSET Nat, S # {}
  PROVE  LeastOf(S) \in S /\ \A n \in S : LeastOf(S) <= n
<1> DEFINE Less == {p \in Nat \X Nat : p[1] < p[2]}
<1>1. OpToRel(<, Nat) = Less
  BY DEF OpToRel
<1>2. IsWellFoundedOn(Less, Nat)
  BY <1>1, NatLessThanWellFounded
<1>3. PICK m \in S : \A n \in S : <<n, m>> \notin Less
  <2> HIDE DEF Less
  <2> QED
    BY <1>2, WFMin
<1>4. \A n \in S : m <= n
  <2> SUFFICES ASSUME NEW n \in S
               PROVE  ~ (n < m)
    OBVIOUS
  <2>1. <<n, m>> \in Nat \X Nat /\ <<n, m>>[1] = n /\ <<n, m>>[2] = m
    OBVIOUS
  <2> QED
    BY <1>3, <2>1
<1> QED
  BY <1>4 DEF LeastOf

(* A bounded set of row ids has a greatest one, so NextRowid is defined.   *)
LEMMA GreatestOfIsGreatest ==
  ASSUME NEW N \in Nat, NEW S \in SUBSET (0 .. N), S # {}
  PROVE  GreatestOf(S) \in S /\ \A n \in S : n <= GreatestOf(S)
<1> DEFINE T == {N - n : n \in S}
<1>1. T \in SUBSET Nat /\ T # {}
  <2>1. \A n \in S : N - n \in Nat
    OBVIOUS
  <2> QED
    BY <2>1
<1>2. PICK m \in T : \A n \in T : m <= n
  BY <1>1, LeastOfIsLeast
<1>3. PICK k \in S : m = N - k
  OBVIOUS
<1>4. \A n \in S : n <= k
  <2> TAKE n \in S
  <2>1. N - n \in T
    OBVIOUS
  <2> QED
    BY <1>2, <1>3, <2>1
<1> QED
  BY <1>4 DEF GreatestOf

-----------------------------------------------------------------------------
(* Item graphs *)

AnyGraph == [root : Item \cup {NoItem}, items : Items]

(* The items of a graph may be any function from item UUIDs to data.       *)
LEMMA ItemsIntro ==
  ASSUME NEW S \in SUBSET Item, NEW f \in [S -> Data]
  PROVE  f \in Items
BY DEF Items

(* An item graph's items are such a function.                              *)
LEMMA ItemsElim ==
  ASSUME NEW f \in Items
  PROVE  DOMAIN f \in SUBSET Item /\ f \in [DOMAIN f -> Data]
BY DEF Items

(* Overlaying one item graph on another gives an item graph.               *)
LEMMA AddItemGraphType ==
  ASSUME NEW g \in AnyGraph, NEW h \in AnyGraph
  PROVE  AddItemGraph(g, h) \in AnyGraph
<1> DEFINE S == DOMAIN g.items \cup DOMAIN h.items
           f == [i \in S |-> IF i \in DOMAIN h.items THEN h.items[i] ELSE g.items[i]]
<1>1. g.items \in Items /\ h.items \in Items /\ h.root \in Item \cup {NoItem}
  BY DEF AnyGraph
<1>2. S \in SUBSET Item /\ f \in [S -> Data]
  BY <1>1, ItemsElim
<1>3. f \in Items
  BY <1>2, ItemsIntro
<1> QED
  BY <1>1, <1>3 DEF AddItemGraph, AnyGraph

(* Collecting the garbage of an item graph leaves an item graph, with the  *)
(* data of its reachable items unchanged.                                  *)
LEMMA RemoveUnreachableItemsType ==
  ASSUME NEW g \in AnyGraph
  PROVE  /\ RemoveUnreachableItems[g] \in AnyGraph
         /\ RemoveUnreachableItems[g].root = g.root
         /\ RemoveUnreachableItems[g].items = [i \in Reachable(g) |-> g.items[i]]
<1> DEFINE f == [i \in Reachable(g) |-> g.items[i]]
<1>1. RemoveUnreachableItems[g] = [root |-> g.root, items |-> f]
  BY DEF RemoveUnreachableItems, AnyGraph
<1>2. g.items \in Items /\ g.root \in Item \cup {NoItem}
  BY DEF AnyGraph
<1>3. Reachable(g) \subseteq DOMAIN g.items
  BY DEF Reachable
<1>4. Reachable(g) \in SUBSET Item /\ f \in [Reachable(g) -> Data]
  BY <1>2, <1>3, ItemsElim
<1>5. f \in Items
  BY <1>4, ItemsIntro
<1> QED
  BY <1>1, <1>2, <1>5 DEF AnyGraph

-----------------------------------------------------------------------------
(* Reading and allocating rows *)

(* A row id found for a revision is the id of a row that holds it.         *)
LEMMA RevidForUUIDIsRow ==
  ASSUME TypeOK, NEW u
  PROVE  /\ RevidForUUID(u) \in DOMAIN commits \cup {-1}
         /\ RevidForUUID(u) # -1 => commits[RevidForUUID(u)].uuid = u
         /\ u \in UUIDs => RevidForUUID(u) \in DOMAIN commits
BY DEF RevidForUUID, UUIDs, TypeOK, Revids

(* The row id of a new commit is above every row id in use.                *)
LEMMA NextRowidIsNew ==
  ASSUME TypeOK
  PROVE  /\ NextRowid \in Nat
         /\ \A r \in DOMAIN commits : r < NextRowid
<1>1. CASE commits = << >>
  BY <1>1 DEF NextRowid
<1>2. CASE commits # << >>
  <2>1. DOMAIN commits \in SUBSET (0 .. MaxRevid)
    BY DEF TypeOK, Revids
  <2>2. DOMAIN commits # {}
    BY <1>2 DEF TypeOK
  <2>3. /\ GreatestOf(DOMAIN commits) \in DOMAIN commits
        /\ \A r \in DOMAIN commits : r <= GreatestOf(DOMAIN commits)
    BY <2>1, <2>2, GreatestOfIsGreatest
  <2> QED
    BY <1>2, <2>1, <2>3 DEF NextRowid
<1> QED
  BY <1>1, <1>2

(* Whatever rows a scan takes, the items it collects are an item graph.    *)
LEMMA PartialItemGraphType ==
  ASSUME TypeOK, NEW base, NEW r
  PROVE  PartialItemGraph(base, r) \in AnyGraph
<1> DEFINE chain == IF r \in DOMAIN commits THEN Chain(base, r) ELSE {}
           Holders(i) == {q \in chain : i \in DOMAIN commits[q].contents}
           D == UNION {DOMAIN commits[q].contents : q \in chain}
           f == [i \in D |-> commits[GreatestOf(Holders(i))].contents[i]]
<1>1. chain \subseteq DOMAIN commits
  BY DEF Chain, DeltaRun
<1>2. \A q \in chain : commits[q].contents \in Items
  BY <1>1 DEF TypeOK, Row
<1>3. D \in SUBSET Item
  BY <1>2, ItemsElim
<1>4. ASSUME NEW i \in D
      PROVE  commits[GreatestOf(Holders(i))].contents[i] \in Data
  <2> HIDE DEF chain
  <2>1. Holders(i) # {} /\ Holders(i) \subseteq chain
    OBVIOUS
  <2>2. Holders(i) \in SUBSET (0 .. MaxRevid)
    BY <1>1, <2>1 DEF TypeOK, Revids
  <2>3. GreatestOf(Holders(i)) \in Holders(i)
    BY <2>1, <2>2, GreatestOfIsGreatest
  <2> QED
    BY <1>2, <2>3, ItemsElim
<1>5. f \in [D -> Data]
  BY <1>4
<1>6. f \in Items
  BY <1>3, <1>5, ItemsIntro
<1>7. RootUUID \in Item \cup {NoItem}
  BY DEF RootUUID, TypeOK
<1>8. PartialItemGraph(base, r) = [root |-> RootUUID, items |-> f]
  BY DEF PartialItemGraph
<1> QED
  BY <1>6, <1>7, <1>8 DEF AnyGraph

(* What a commit would write is a row, in the run of a lower parent's row  *)
(* or a snapshot of its own.                                               *)
LEMMA NewRowType ==
  ASSUME BackingStoreInv, NextRowid <= MaxRevid,
         NEW u \in Revision, NEW p, NEW g \in ItemGraphs
  PROVE  /\ NewRow(u, p, g) \in Row
         /\ NewRow(u, p, g).uuid = u
         /\ ~ NewRow(u, p, g).garbage
         /\ NewRow(u, p, g).parent < NextRowid
         /\ NewRow(u, p, g).deltabase # NextRowid =>
              /\ NewRow(u, p, g).parent \in DOMAIN commits
              /\ NewRow(u, p, g).deltabase = commits[NewRow(u, p, g).parent].deltabase
<1> DEFINE parent == RevidForUUID(p)
           base   == DeltabaseForRowid(parent)
           isDelta == base # -1 /\ NextRowid - base < MaxNumberOfDeltaCommits
           merged == AddItemGraph(ItemGraphForRevid(parent), g)
           n == NewRow(u, p, g)
<1>1. TypeOK /\ DeltaRunsUnbroken
  BY DEF BackingStoreInv
<1>2. parent \in DOMAIN commits \cup {-1} /\ DOMAIN commits \subseteq Revids
  BY <1>1, RevidForUUIDIsRow DEF TypeOK
<1>3. NextRowid \in Revids /\ \A r \in DOMAIN commits : r < NextRowid
  BY <1>1, NextRowidIsNew DEF Revids
<1>4. parent \in Revids \cup {-1} /\ parent < NextRowid
  BY <1>2, <1>3 DEF Revids
<1>5. isDelta => /\ parent \in DOMAIN commits
                 /\ base = commits[parent].deltabase
                 /\ base \in Revids
  BY <1>1 DEF DeltabaseForRowid, TypeOK, Row
<1>6. g \in AnyGraph /\ g.items \in Items
  BY DEF AnyGraph, ItemGraphs
<1>7. RemoveUnreachableItems[merged].items \in Items
  <2>1. merged \in AnyGraph
    BY <1>1, <1>6, PartialItemGraphType, AddItemGraphType DEF ItemGraphForRevid
  <2> QED
    BY <2>1, RemoveUnreachableItemsType DEF AnyGraph
<1>8. n = [uuid |-> u, parent |-> parent,
           deltabase |-> IF isDelta THEN base ELSE NextRowid,
           contents |-> IF isDelta THEN g.items
                        ELSE RemoveUnreachableItems[merged].items,
           garbage |-> FALSE]
  BY DEF NewRow
<1> HIDE DEF n, isDelta, base, parent, merged
<1>9. n \in Row
  BY <1>3, <1>4, <1>5, <1>6, <1>7, <1>8 DEF Row
<1> QED
  BY <1>4, <1>5, <1>8, <1>9 DEF n

-----------------------------------------------------------------------------
(* Every step keeps the invariant *)

(* An empty store satisfies the invariant.                                 *)
LEMMA InitInv ==
  ASSUME Init
  PROVE  BackingStoreInv
<1>1. commits = << >> /\ DOMAIN commits = {} /\ rebuildRevids = {}
  BY DEF Init
<1>2. TypeOK
  <2>1. commits \in [DOMAIN commits -> Row]
    BY <1>1
  <2> QED
    BY <1>1, <2>1 DEF Init, TypeOK
<1> QED
  BY <1>1, <1>2 DEF Init, BackingStoreInv, UUIDsUnique, DeltaRunsUnbroken, RebuildsPending,
                    RootCached

(* -writeItemGraph:... that is accepted.                                   *)
LEMMA WriteItemGraphInv ==
  ASSUME BackingStoreInv,
         NEW u \in Revision, NEW p \in Revision \cup {NoRevision}, NEW g \in ItemGraphs,
         WriteItemGraph(u, p, g)
  PROVE  BackingStoreInv'
<1> DEFINE n == NewRow(u, p, g)
           N == NextRowid
<1>1. /\ TypeOK /\ UUIDsUnique /\ DeltaRunsUnbroken /\ RebuildsPending
      /\ ~Deleting /\ u \notin UUIDs /\ N <= MaxRevid
      /\ commits' = [r \in DOMAIN commits \cup {N} |-> IF r = N THEN n ELSE commits[r]]
      /\ metadata' = IF RootUUID = NoItem THEN g.root ELSE metadata
      /\ rootObjectUUID' = RootUUID
      /\ rebuildRevids' = rebuildRevids
  BY DEF BackingStoreInv, WriteItemGraph, WriteAccepted
<1>2. /\ n \in Row /\ n.uuid = u /\ ~n.garbage /\ n.parent < N
      /\ n.deltabase # N => /\ n.parent \in DOMAIN commits
                            /\ n.deltabase = commits[n.parent].deltabase
  BY <1>1, NewRowType
<1>3. N \in Revids /\ \A r \in DOMAIN commits : r < N
  BY <1>1, NextRowidIsNew DEF Revids
<1>4. /\ DOMAIN commits \subseteq Revids
      /\ \A r \in DOMAIN commits : commits[r] \in Row
  BY <1>1 DEF TypeOK
<1> HIDE DEF n, N
<1>5. /\ DOMAIN commits' = DOMAIN commits \cup {N}
      /\ commits'[N] = n
      /\ \A r \in DOMAIN commits : commits'[r] = commits[r]
  BY <1>1, <1>3, <1>4 DEF Revids
<1>6. TypeOK'
  <2>1. metadata' \in Item \cup {NoItem} /\ rootObjectUUID' \in Item \cup {NoItem}
    BY <1>1 DEF TypeOK, RootUUID, ItemGraphs
  <2>2. commits' \in [DOMAIN commits' -> Row]
    BY <1>1, <1>2, <1>4
  <2> QED
    BY <1>1, <1>3, <1>4, <1>5, <2>1, <2>2 DEF TypeOK
<1>7. UUIDsUnique'
  BY <1>1, <1>2, <1>5 DEF UUIDsUnique, UUIDs
<1>8. DeltaRunsUnbroken'
  <2> SUFFICES ASSUME NEW r \in DOMAIN commits'
               PROVE  LET q == commits'[r].parent
                          b == commits'[r].deltabase
                      IN /\ q < r /\ b <= r
                         /\ b < r => /\ q \in DOMAIN commits'
                                     /\ b <= q
                                     /\ commits'[q].deltabase \in {b, q}
    BY DEF DeltaRunsUnbroken
  <2>1. CASE r \in DOMAIN commits
    BY <1>1, <1>5, <2>1 DEF DeltaRunsUnbroken
  <2>2. CASE r = N /\ n.deltabase = N
    BY <1>2, <1>3, <1>5, <2>2 DEF Revids
  <2>3. CASE r = N /\ n.deltabase # N
    <3>1. n.deltabase <= n.parent /\ n.parent < N /\ n.deltabase \in Int /\ n.parent \in Int
      BY <1>1, <1>2, <1>4, <2>3 DEF DeltaRunsUnbroken, Revids, Row
    <3> QED
      BY <1>2, <1>3, <1>5, <2>3, <3>1 DEF Revids
  <2> QED
    BY <1>5, <2>1, <2>2, <2>3
<1>9. RebuildsPending'
  BY <1>1, <1>2, <1>5 DEF RebuildsPending, Deleting
<1>10. RootCached'
  BY <1>1 DEF BackingStoreInv, RootCached, RootUUID
<1> QED
  BY <1>6, <1>7, <1>8, <1>9, <1>10 DEF BackingStoreInv

(* The first pass of -deleteRevids: chooses every delta that is about to   *)
(* lose its parent.                                                        *)
LEMMA MarkGarbageInv ==
  ASSUME BackingStoreInv, NEW R, MarkGarbage(R)
  PROVE  BackingStoreInv'
<1> DEFINE G == R \cap DOMAIN commits
<1>1. /\ TypeOK /\ UUIDsUnique /\ DeltaRunsUnbroken
      /\ ~Deleting /\ G # {}
      /\ commits' = [r \in DOMAIN commits |->
                       IF r \in G THEN [commits[r] EXCEPT !.garbage = TRUE]
                       ELSE commits[r]]
      /\ rebuildRevids' = {r \in DOMAIN commits \ G :
                             commits[r].parent \in G /\ commits[r].deltabase # r}
      /\ metadata' = metadata /\ rootObjectUUID' = rootObjectUUID
  BY DEF BackingStoreInv, MarkGarbage
<1>2. \A r \in DOMAIN commits : commits[r] \in Row
  BY <1>1 DEF TypeOK
<1>3. /\ DOMAIN commits' = DOMAIN commits
      /\ \A r \in DOMAIN commits :
           /\ commits'[r] \in Row
           /\ commits'[r].uuid = commits[r].uuid
           /\ commits'[r].parent = commits[r].parent
           /\ commits'[r].deltabase = commits[r].deltabase
           /\ commits'[r].garbage <=> r \in G
  <2> HIDE DEF G
  <2> SUFFICES ASSUME NEW r \in DOMAIN commits
               PROVE  /\ commits'[r] \in Row
                      /\ commits'[r].uuid = commits[r].uuid
                      /\ commits'[r].parent = commits[r].parent
                      /\ commits'[r].deltabase = commits[r].deltabase
                      /\ commits'[r].garbage <=> r \in G
    BY <1>1
  <2>1. CASE r \in G
    BY <1>1, <1>2, <2>1 DEF Row
  <2>2. CASE r \notin G
    BY <1>1, <1>2, <2>2 DEF Deleting
  <2> QED
    BY <2>1, <2>2
<1> HIDE DEF G
<1>4. TypeOK'
  <2>1. commits' \in [DOMAIN commits' -> Row]
    BY <1>1, <1>3
  <2> QED
    BY <1>1, <1>3, <2>1 DEF TypeOK
<1>5. UUIDsUnique'
  BY <1>1, <1>3 DEF UUIDsUnique
<1>6. DeltaRunsUnbroken'
  BY <1>1, <1>3 DEF DeltaRunsUnbroken
<1>7. RebuildsPending'
  <2>1. \E r \in DOMAIN commits : r \in G
    BY <1>1 DEF G
  <2> QED
    BY <1>1, <1>3, <2>1 DEF RebuildsPending, Deleting
<1>8. RootCached'
  BY <1>1 DEF BackingStoreInv, RootCached
<1> QED
  BY <1>4, <1>5, <1>6, <1>7, <1>8 DEF BackingStoreInv

(* The second pass turns the lowest chosen delta into a snapshot.          *)
LEMMA RebuildRevidInv ==
  ASSUME BackingStoreInv, RebuildRevid
  PROVE  BackingStoreInv'
<1> DEFINE k == LeastOf(rebuildRevids)
           c == RemoveUnreachableItems[ItemGraphForRevid(k)].items
<1>1. /\ TypeOK /\ UUIDsUnique /\ DeltaRunsUnbroken /\ RebuildsPending
      /\ rebuildRevids # {}
      /\ commits' = [commits EXCEPT ![k].contents = c, ![k].deltabase = k]
      /\ rebuildRevids' = rebuildRevids \ {k}
      /\ metadata' = metadata /\ rootObjectUUID' = RootUUID
  BY DEF BackingStoreInv, RebuildRevid
<1>2. k \in rebuildRevids /\ k \in DOMAIN commits
  <2>1. rebuildRevids \in SUBSET Nat /\ rebuildRevids \subseteq DOMAIN commits
    BY <1>1 DEF TypeOK, Revids
  <2> QED
    BY <1>1, <2>1, LeastOfIsLeast
<1>3. c \in Items
  BY <1>1, PartialItemGraphType, RemoveUnreachableItemsType
     DEF ItemGraphForRevid, AnyGraph
<1> HIDE DEF k, c
<1>4. \A r \in DOMAIN commits : r \in Revids /\ commits[r] \in Row
  BY <1>1 DEF TypeOK
<1>5. /\ DOMAIN commits' = DOMAIN commits
      /\ \A r \in DOMAIN commits :
           /\ commits'[r] \in Row
           /\ commits'[r].uuid = commits[r].uuid
           /\ commits'[r].parent = commits[r].parent
           /\ commits'[r].garbage <=> commits[r].garbage
           /\ commits'[r].deltabase = IF r = k THEN k ELSE commits[r].deltabase
  BY <1>1, <1>2, <1>3, <1>4 DEF Row
<1>6. TypeOK'
  <2>1. commits' \in [DOMAIN commits' -> Row]
    BY <1>1, <1>5
  <2> QED
    BY <1>1, <1>5, <2>1 DEF TypeOK, RootUUID
<1>7. UUIDsUnique'
  BY <1>1, <1>5 DEF UUIDsUnique
<1>8. DeltaRunsUnbroken'
  BY <1>1, <1>2, <1>4, <1>5 DEF DeltaRunsUnbroken, Revids
<1>9. RebuildsPending'
  <2>1. Deleting /\ Deleting'
    BY <1>1, <1>5 DEF RebuildsPending, Deleting
  <2> QED
    BY <1>1, <1>2, <1>5, <2>1 DEF RebuildsPending, TypeOK
<1>10. RootCached'
  BY <1>1 DEF BackingStoreInv, RootCached, RootUUID
<1> QED
  BY <1>6, <1>7, <1>8, <1>9, <1>10 DEF BackingStoreInv

(* The last pass deletes no row a delta that stays is read from.           *)
LEMMA DeleteGarbageInv ==
  ASSUME BackingStoreInv, DeleteGarbage
  PROVE  BackingStoreInv'
<1>1. /\ TypeOK /\ UUIDsUnique /\ DeltaRunsUnbroken /\ RebuildsPending
      /\ rebuildRevids = {}
      /\ commits' = [r \in {q \in DOMAIN commits : ~commits[q].garbage} |-> commits[r]]
      /\ metadata' = metadata /\ rootObjectUUID' = rootObjectUUID
      /\ rebuildRevids' = {}
  BY DEF BackingStoreInv, DeleteGarbage
<1>2. /\ DOMAIN commits' = {q \in DOMAIN commits : ~commits[q].garbage}
      /\ \A r \in DOMAIN commits' : commits'[r] = commits[r]
  BY <1>1
<1>3. TypeOK'
  <2>1. commits' \in [DOMAIN commits' -> Row]
    BY <1>1, <1>2 DEF TypeOK
  <2> QED
    BY <1>1, <1>2, <2>1 DEF TypeOK
<1>4. UUIDsUnique'
  BY <1>1, <1>2 DEF UUIDsUnique
<1>5. DeltaRunsUnbroken'
  <2>1. \A r \in DOMAIN commits : commits[r].deltabase <= r
                                  /\ r \in Int /\ commits[r].deltabase \in Int
    BY <1>1 DEF DeltaRunsUnbroken, TypeOK, Row, Revids
  <2>2. ASSUME NEW r \in DOMAIN commits', commits[r].deltabase < r
        PROVE  commits[r].parent \in DOMAIN commits'
    <3>1. commits[r].parent \in DOMAIN commits /\ ~commits[r].garbage
      BY <1>1, <1>2, <2>2 DEF DeltaRunsUnbroken
    <3>2. commits[r].deltabase # r
      BY <1>2, <2>1, <2>2
    <3> QED
      BY <1>1, <1>2, <3>1, <3>2 DEF RebuildsPending
  <2> QED
    BY <1>1, <1>2, <2>2 DEF DeltaRunsUnbroken
<1>6. RebuildsPending'
  BY <1>1, <1>2 DEF RebuildsPending
<1>7. RootCached'
  BY <1>1 DEF BackingStoreInv, RootCached
<1> QED
  BY <1>3, <1>4, <1>5, <1>6, <1>7 DEF BackingStoreInv

(* The steps that leave the table alone: a rejected write, another         *)
(* instance, or none of them.                                              *)
LEMMA TableUnchangedInv ==
  ASSUME BackingStoreInv, UNCHANGED <<commits, metadata, rebuildRevids>>,
         rootObjectUUID' \in {rootObjectUUID, metadata, NoItem}
  PROVE  BackingStoreInv'
BY DEF BackingStoreInv, TypeOK, UUIDsUnique, DeltaRunsUnbroken,
       RebuildsPending, Deleting, RootCached

(* -clearBackingStore empties the tables.                                  *)
LEMMA ClearBackingStoreInv ==
  ASSUME BackingStoreInv, ClearBackingStore
  PROVE  BackingStoreInv'
<1>1. /\ DOMAIN commits' = {} /\ commits' \in [{} -> Row]
      /\ rebuildRevids' = {}
      /\ metadata' = NoItem /\ rootObjectUUID' = NoItem
  BY DEF BackingStoreInv, RebuildsPending, ClearBackingStore
<1> QED
  BY <1>1 DEF BackingStoreInv, TypeOK, UUIDsUnique, DeltaRunsUnbroken, RebuildsPending,
              RootCached

-----------------------------------------------------------------------------
(* The invariance theorems *)

(* Type correctness, unique revision UUIDs, unbroken delta runs and the    *)
(* bookkeeping of a deletion hold in every state of a backing store.       *)
THEOREM BackingStoreInvariant == Spec => []BackingStoreInv
<1>1. ASSUME BackingStoreInv, [Next]_vars
      PROVE  BackingStoreInv'
  <2>1. ASSUME NEW p \in Revision \cup {NoRevision}, NEW g \in ItemGraphs,
               NEW u \in Revision, WriteItemGraph(u, p, g)
        PROVE  BackingStoreInv'
    BY <1>1, <2>1, WriteItemGraphInv
  <2>2. CASE RejectItemGraph \/ Reopen \/ UNCHANGED vars
    BY <1>1, <2>2, TableUnchangedInv DEF RejectItemGraph, Reopen, RootUUID, vars
  <2>3. CASE \E R \in SUBSET Revids : MarkGarbage(R)
    BY <1>1, <2>3, MarkGarbageInv
  <2>4. CASE RebuildRevid
    BY <1>1, <2>4, RebuildRevidInv
  <2>5. CASE DeleteGarbage
    BY <1>1, <2>5, DeleteGarbageInv
  <2>6. CASE ClearBackingStore
    BY <1>1, <2>6, ClearBackingStoreInv
  <2> QED
    BY <1>1, <2>1, <2>2, <2>3, <2>4, <2>5, <2>6 DEF Next
<1> QED
  BY <1>1, InitInv, PTL DEF Spec

(* The variables of a backing store keep their types.                      *)
THEOREM TypeCorrect == Spec => []TypeOK
<1>1. BackingStoreInv => TypeOK
  BY DEF BackingStoreInv
<1> QED
  BY <1>1, BackingStoreInvariant, PTL

(* No write, deletion or crash-free interleaving of the two ever leaves a  *)
(* delta whose parent row is missing or outside its run.                   *)
THEOREM DeltaRunsNeverBreak == Spec => []DeltaRunsUnbroken
<1>1. BackingStoreInv => DeltaRunsUnbroken
  BY DEF BackingStoreInv
<1> QED
  BY <1>1, BackingStoreInvariant, PTL

-----------------------------------------------------------------------------
(* Graphs and their reachable parts *)

(* h holds all that g holds, and has the same root. *)
Holds(h, g) ==
  /\ h.root = g.root
  /\ \A i \in DOMAIN g.items : i \in DOMAIN h.items /\ h.items[i] = g.items[i]

(* The fields of an item graph.                                            *)
LEMMA AnyGraphFields ==
  ASSUME NEW g \in AnyGraph
  PROVE  /\ g.root \in Item \cup {NoItem}
         /\ g.items \in Items
         /\ DOMAIN g.items \in SUBSET Item
         /\ g.items \in [DOMAIN g.items -> Data]
BY ItemsElim DEF AnyGraph

(* Two item graphs are equal if their roots and their items are.           *)
LEMMA AnyGraphEquality ==
  ASSUME NEW g \in AnyGraph, NEW h \in AnyGraph, g.root = h.root, g.items = h.items
  PROVE  g = h
BY DEF AnyGraph

(* What COItemGraphReachableUUIDs() collects holds the root, if it is      *)
(* there, and every item present that a collected item refers to.          *)
LEMMA ReachableIsClosed ==
  ASSUME NEW g
  PROVE  /\ Reachable(g) \subseteq DOMAIN g.items
         /\ g.root \in DOMAIN g.items => g.root \in Reachable(g)
         /\ IsClosed(Reachable(g), g)
<1>1. Reachable(g) \subseteq DOMAIN g.items
  BY DEF Reachable
<1>2. g.root \in DOMAIN g.items => g.root \in Reachable(g)
  BY DEF Reachable
<1>3. ASSUME NEW i \in Reachable(g), NEW j \in References[g.items[i]] \cap DOMAIN g.items
      PROVE  j \in Reachable(g)
  <2>1. g.root \in DOMAIN g.items
    BY DEF Reachable
  <2>2. ASSUME NEW S \in SUBSET DOMAIN g.items, g.root \in S, IsClosed(S, g)
        PROVE  j \in S
    <3>1. i \in S
      BY <2>2 DEF Reachable
    <3> QED
      BY <2>2, <3>1 DEF IsClosed
  <2> QED
    BY <2>1, <2>2 DEF Reachable
<1> QED
  BY <1>1, <1>2, <1>3 DEF IsClosed

(* ... and nothing that a set closed in this way leaves out.               *)
LEMMA ReachableIsLeast ==
  ASSUME NEW g, NEW S \in SUBSET DOMAIN g.items, g.root \in S, IsClosed(S, g)
  PROVE  Reachable(g) \subseteq S
BY DEF Reachable

(* A complete graph decides what is reachable in every graph that agrees   *)
(* with it on its reachable items, whatever else the other graph holds.    *)
LEMMA CompleteGraphDecides ==
  ASSUME NEW g \in AnyGraph, NEW h \in AnyGraph, IsComplete(g), h.root = g.root,
         \A i \in Reachable(g) : i \in DOMAIN h.items /\ h.items[i] = g.items[i]
  PROVE  /\ Reachable(h) = Reachable(g)
         /\ RemoveUnreachableItems[h] = RemoveUnreachableItems[g]
         /\ IsComplete(h)
<1>1. /\ Reachable(g) \subseteq DOMAIN g.items
      /\ g.root \in Reachable(g)
      /\ IsClosed(Reachable(g), g)
      /\ \A i \in Reachable(g) : References[g.items[i]] \subseteq DOMAIN g.items
  BY ReachableIsClosed DEF IsComplete
<1>2. /\ Reachable(h) \subseteq DOMAIN h.items
      /\ h.root \in Reachable(h)
      /\ IsClosed(Reachable(h), h)
  BY <1>1, ReachableIsClosed
<1>3. Reachable(h) \subseteq Reachable(g)
  <2>1. IsClosed(Reachable(g), h)
    BY <1>1 DEF IsClosed
  <2> QED
    BY <1>1, <2>1, ReachableIsLeast
<1>4. Reachable(g) \subseteq Reachable(h)
  <2> DEFINE S == Reachable(h)
  <2>1. \A i \in S : i \in Reachable(g) /\ h.items[i] = g.items[i]
    BY <1>3
  <2>2. ASSUME NEW i \in S, NEW j \in References[g.items[i]] \cap DOMAIN g.items
        PROVE  j \in S
    <3>1. j \in Reachable(g)
      BY <1>1, <2>1, <2>2 DEF IsClosed
    <3> QED
      BY <1>2, <2>1, <2>2, <3>1 DEF IsClosed
  <2>3. S \in SUBSET DOMAIN g.items /\ g.root \in S
    BY <1>1, <1>2, <2>1
  <2> HIDE DEF S
  <2>4. IsClosed(S, g)
    BY <2>2 DEF IsClosed
  <2>5. Reachable(g) \subseteq S
    BY <2>3, <2>4, ReachableIsLeast
  <2> QED
    BY <2>5 DEF S
<1>5. Reachable(h) = Reachable(g)
  BY <1>3, <1>4
<1>6. RemoveUnreachableItems[h] = RemoveUnreachableItems[g]
  <2>1. [i \in Reachable(h) |-> h.items[i]] = [i \in Reachable(g) |-> g.items[i]]
    BY <1>5
  <2>2. /\ RemoveUnreachableItems[h] \in AnyGraph
        /\ RemoveUnreachableItems[h].root = h.root
        /\ RemoveUnreachableItems[h].items = [i \in Reachable(h) |-> h.items[i]]
    BY RemoveUnreachableItemsType
  <2>3. /\ RemoveUnreachableItems[g] \in AnyGraph
        /\ RemoveUnreachableItems[g].root = g.root
        /\ RemoveUnreachableItems[g].items = [i \in Reachable(g) |-> g.items[i]]
    BY RemoveUnreachableItemsType
  <2> QED
    BY <2>1, <2>2, <2>3, AnyGraphEquality
<1>7. IsComplete(h)
  <2>1. \A i \in Reachable(h) : References[h.items[i]] \subseteq Reachable(g)
    BY <1>1, <1>5 DEF IsClosed
  <2> QED
    BY <1>1, <1>2, <1>5, <2>1 DEF IsComplete
<1> QED
  BY <1>5, <1>6, <1>7

(* In particular in a graph that holds all of it.                          *)
LEMMA CompleteGraphHeld ==
  ASSUME NEW g \in AnyGraph, NEW h \in AnyGraph, IsComplete(g), Holds(h, g)
  PROVE  /\ RemoveUnreachableItems[h] = RemoveUnreachableItems[g]
         /\ IsComplete(h)
<1>1. Reachable(g) \subseteq DOMAIN g.items
  BY ReachableIsClosed
<1> QED
  BY <1>1, CompleteGraphDecides DEF Holds

(* Collecting the garbage of a complete graph leaves a complete graph      *)
(* without garbage, that the graph holds.                                  *)
LEMMA ReducedGraph ==
  ASSUME NEW g \in AnyGraph
  PROVE  /\ RemoveUnreachableItems[g] \in AnyGraph
         /\ RemoveUnreachableItems[g].root = g.root
         /\ Holds(g, RemoveUnreachableItems[g])
         /\ IsComplete(g) =>
              /\ IsComplete(RemoveUnreachableItems[g])
              /\ RemoveUnreachableItems[RemoveUnreachableItems[g]]
                   = RemoveUnreachableItems[g]
<1> DEFINE h == RemoveUnreachableItems[g]
<1>1. /\ h \in AnyGraph /\ h.root = g.root
      /\ h.items = [i \in Reachable(g) |-> g.items[i]]
  BY RemoveUnreachableItemsType
<1>2. Holds(g, h)
  BY <1>1, ReachableIsClosed DEF Holds
<1>3. \A i \in Reachable(g) : i \in DOMAIN h.items /\ h.items[i] = g.items[i]
  BY <1>1
<1> QED
  BY <1>1, <1>2, <1>3, CompleteGraphDecides

(* A graph overlaid with another one holds the other one.                  *)
LEMMA OverlayHolds ==
  ASSUME NEW g \in AnyGraph, NEW h \in AnyGraph
  PROVE  /\ AddItemGraph(g, h) \in AnyGraph
         /\ AddItemGraph(g, h).root = h.root
         /\ Holds(AddItemGraph(g, h), h)
         /\ DOMAIN AddItemGraph(g, h).items = DOMAIN g.items \cup DOMAIN h.items
         /\ \A i \in DOMAIN g.items \cup DOMAIN h.items :
              AddItemGraph(g, h).items[i] =
                IF i \in DOMAIN h.items THEN h.items[i] ELSE g.items[i]
<1>1. AddItemGraph(g, h) \in AnyGraph
  BY AddItemGraphType
<1> QED
  BY <1>1 DEF AddItemGraph, Holds

(* Overlaying the same items on a graph that holds more gives a graph that *)
(* holds more.                                                             *)
LEMMA OverlayMonotone ==
  ASSUME NEW g \in AnyGraph, NEW f \in AnyGraph, NEW h \in AnyGraph,
         \A i \in DOMAIN g.items : i \in DOMAIN f.items /\ f.items[i] = g.items[i]
  PROVE  Holds(AddItemGraph(f, h), AddItemGraph(g, h))
BY DEF AddItemGraph, Holds

-----------------------------------------------------------------------------
(* What a scan of -partialItemGraphFromRevid:toRevid: takes *)

(* Row ids, as numbers. *)
LEMMA RowNumbers ==
  ASSUME BackingStoreInv, NEW r \in DOMAIN commits
  PROVE  /\ r \in Nat /\ r <= MaxRevid
         /\ commits[r] \in Row
         /\ commits[r].parent \in Int /\ commits[r].parent < r
         /\ commits[r].deltabase \in Nat /\ commits[r].deltabase <= r
         /\ commits[r].contents \in Items
         /\ commits[r].deltabase # r =>
              /\ commits[r].parent \in DOMAIN commits
              /\ commits[r].parent \in Nat
              /\ commits[r].parent # -1
              /\ commits[r].deltabase <= commits[r].parent
              /\ commits[commits[r].parent].deltabase
                   \in {commits[r].deltabase, commits[r].parent}
<1>1. TypeOK /\ DeltaRunsUnbroken
  BY DEF BackingStoreInv
<1>2. /\ r \in Revids /\ commits[r] \in Row
      /\ DOMAIN commits \subseteq Revids
  BY <1>1 DEF TypeOK
<1>3. /\ commits[r].parent \in Revids \cup {-1} /\ commits[r].deltabase \in Revids
      /\ commits[r].contents \in Items
  BY <1>2 DEF Row
<1>4. /\ commits[r].parent < r /\ commits[r].deltabase <= r
      /\ commits[r].deltabase < r =>
           /\ commits[r].parent \in DOMAIN commits
           /\ commits[r].deltabase <= commits[r].parent
           /\ commits[commits[r].parent].deltabase
                \in {commits[r].deltabase, commits[r].parent}
  BY <1>1 DEF DeltaRunsUnbroken
<1> QED
  BY <1>2, <1>3, <1>4 DEF Revids

RowsNumbered == BackingStoreInv => \A r \in DOMAIN commits : r \in Nat

(* Row ids are numbers, before a step ...                                  *)
LEMMA RowsNumberedNow == RowsNumbered
BY RowNumbers DEF RowsNumbered

(* ... and after a step.                                                   *)
LEMMA RowNumbersNext ==
  ASSUME BackingStoreInv'
  PROVE  \A r \in DOMAIN commits' : r \in Nat
<1>1. RowsNumbered'
  BY RowsNumberedNow, PTL
<1> QED
  BY <1>1 DEF RowsNumbered

(* The rows taken are rows of the run, the asked one among them, and with  *)
(* a row all those that may be taken after it.                             *)
LEMMA ChainIsClosed ==
  ASSUME NEW base, NEW r, r \in DeltaRun(r)
  PROVE  /\ Chain(base, r) \subseteq DeltaRun(r)
         /\ r \in Chain(base, r)
         /\ \A q \in Chain(base, r) :
              TakenAfter(q, base, DeltaRun(r)) \subseteq Chain(base, r)
<1> DEFINE run == DeltaRun(r)
           Closed(S) == \A s \in S : TakenAfter(s, base, run) \subseteq S
<1>1. Chain(base, r) = {q \in run : \A S \in SUBSET run : r \in S /\ Closed(S) => q \in S}
  BY DEF Chain
<1>2. \A q : TakenAfter(q, base, run) \subseteq run
  BY DEF TakenAfter
<1>3. ASSUME NEW q \in Chain(base, r), NEW n \in TakenAfter(q, base, run)
      PROVE  n \in Chain(base, r)
  <2>1. ASSUME NEW S \in SUBSET run, r \in S, Closed(S)
        PROVE  n \in S
    <3>1. q \in S
      BY <1>1, <2>1
    <3> QED
      BY <1>3, <2>1, <3>1
  <2> QED
    BY <1>1, <1>2, <1>3, <2>1
<1> QED
  BY <1>1, <1>3

(* ... and no others.                                                      *)
LEMMA ChainIsLeast ==
  ASSUME NEW base, NEW r, NEW S \in SUBSET DeltaRun(r), r \in S,
         \A s \in S : TakenAfter(s, base, DeltaRun(r)) \subseteq S
  PROVE  Chain(base, r) \subseteq S
BY DEF Chain

(* The rows of a run are numbers between its ends.                         *)
LEMMA DeltaRunRows ==
  ASSUME BackingStoreInv, NEW r \in DOMAIN commits
  PROVE  /\ r \in DeltaRun(r)
         /\ DeltaRun(r) \in SUBSET (0 .. MaxRevid)
         /\ \A q \in DeltaRun(r) :
              q \in DOMAIN commits /\ commits[r].deltabase <= q /\ q <= r
<1>1. \A q \in DOMAIN commits : q \in Nat /\ q <= MaxRevid
  BY RowNumbers
<1> QED
  BY <1>1, RowNumbers DEF DeltaRun

(* The scan of a snapshot, or of a delta to its parent, is the row alone.  *)
LEMMA ChainAlone ==
  ASSUME BackingStoreInv, NEW base, NEW r \in DOMAIN commits,
         commits[r].deltabase = r \/ commits[r].parent = base
  PROVE  Chain(base, r) = {r}
<1>1. /\ r \in DeltaRun(r)
      /\ \A q \in DeltaRun(r) : q \in Nat /\ commits[r].deltabase <= q /\ q <= r
  BY DeltaRunRows
<1>2. TakenAfter(r, base, DeltaRun(r)) = {}
  BY <1>1, RowNumbers DEF TakenAfter
<1>3. Chain(base, r) \subseteq {r}
  <2> DEFINE S == {r}
  <2>1. S \subseteq DeltaRun(r) /\ r \in S
    BY <1>1
  <2>2. \A s \in S : TakenAfter(s, base, DeltaRun(r)) \subseteq S
    BY <1>2
  <2> HIDE DEF S
  <2>3. Chain(base, r) \subseteq S
    BY <2>1, <2>2, ChainIsLeast
  <2> QED
    BY <2>3 DEF S
<1> QED
  BY <1>1, <1>3, ChainIsClosed

(* The scan of any other delta goes on with the parent's row: it takes     *)
(* what the parent's scan takes, when they share the run, ...              *)
LEMMA ChainThroughParent ==
  ASSUME BackingStoreInv, NEW base, NEW r \in DOMAIN commits,
         commits[r].deltabase # r, commits[r].parent # base,
         commits[commits[r].parent].deltabase = commits[r].deltabase
  PROVE  /\ Chain(base, r) = {r} \cup Chain(base, commits[r].parent)
         /\ \A q \in Chain(base, commits[r].parent) : q < r
<1> DEFINE p == commits[r].parent
           run == DeltaRun(r)
           below == DeltaRun(p)
<1>1. /\ p \in DOMAIN commits /\ p \in Nat /\ p # -1 /\ r \in Nat /\ p < r
      /\ commits[r].deltabase \in Nat /\ commits[r].deltabase <= p
      /\ commits[p].deltabase = commits[r].deltabase
  BY RowNumbers
<1>2. /\ r \in run /\ p \in below
      /\ \A q \in run : q \in Nat
      /\ \A q \in below : q \in Nat /\ q <= p
  BY <1>1, DeltaRunRows
<1>3. below = {q \in run : q <= p}
  <2>1. \A q \in DOMAIN commits : q \in Nat
    BY RowNumbers
  <2> QED
    BY <1>1, <2>1 DEF DeltaRun
<1> HIDE DEF run, below
<1>4. p \in run
  BY <1>2, <1>3
<1>5. TakenAfter(r, base, run) = {p}
  BY <1>1, <1>4 DEF TakenAfter
<1>6. ASSUME NEW q \in below
      PROVE  TakenAfter(q, base, run) = TakenAfter(q, base, below)
  <2>1. q \in Nat /\ q <= p
    BY <1>2
  <2>2. \A n \in run : n < q => n \in below
    BY <1>1, <1>2, <1>3, <2>1
  <2>3. \A n \in below : n \in run
    BY <1>3
  <2>4. \A n : (\A m \in run : m < q => m <= n) <=> (\A m \in below : m < q => m <= n)
    BY <2>2, <2>3
  <2> QED
    BY <2>2, <2>3, <2>4 DEF TakenAfter
<1>7. /\ Chain(base, p) \subseteq below /\ p \in Chain(base, p)
      /\ \A q \in Chain(base, p) : TakenAfter(q, base, below) \subseteq Chain(base, p)
  BY <1>2, ChainIsClosed DEF below
<1>8. Chain(base, r) \subseteq {r} \cup Chain(base, p)
  <2> DEFINE S == {r} \cup Chain(base, p)
  <2>1. S \subseteq run
    BY <1>2, <1>3, <1>7
  <2>2. \A s \in S : TakenAfter(s, base, run) \subseteq S
    BY <1>5, <1>6, <1>7
  <2>3. r \in S
    OBVIOUS
  <2> HIDE DEF S
  <2>4. Chain(base, r) \subseteq S
    BY <2>1, <2>2, <2>3, ChainIsLeast DEF run
  <2> QED
    BY <2>4 DEF S
<1>9. {r} \cup Chain(base, p) \subseteq Chain(base, r)
  <2> DEFINE S == Chain(base, r) \cap below
  <2>1. /\ Chain(base, r) \subseteq run /\ r \in Chain(base, r)
        /\ \A q \in Chain(base, r) : TakenAfter(q, base, run) \subseteq Chain(base, r)
    BY <1>2, ChainIsClosed DEF run
  <2>2. p \in S
    BY <1>2, <1>5, <2>1
  <2>3. ASSUME NEW s \in S
        PROVE  TakenAfter(s, base, below) \subseteq S
    <3>1. TakenAfter(s, base, below) \subseteq below
      BY DEF TakenAfter
    <3> QED
      BY <1>6, <2>1, <2>3, <3>1
  <2>4. S \subseteq below
    OBVIOUS
  <2>5. S \subseteq Chain(base, r)
    OBVIOUS
  <2> HIDE DEF S
  <2>6. Chain(base, p) \subseteq S
    BY <2>2, <2>3, <2>4, ChainIsLeast DEF below
  <2> QED
    BY <2>1, <2>5, <2>6
<1>10. \A q \in Chain(base, p) : q < r
  BY <1>1, <1>2, <1>7
<1> QED
  BY <1>8, <1>9, <1>10

(* ... and in any case the parent's row and older ones.                    *)
LEMMA ChainHoldsParent ==
  ASSUME BackingStoreInv, NEW base, NEW r \in DOMAIN commits,
         commits[r].deltabase # r, commits[r].parent # base
  PROVE  /\ r \in Chain(base, r) /\ commits[r].parent \in Chain(base, r)
         /\ \A q \in Chain(base, r) : q = r \/ q <= commits[r].parent
<1> DEFINE p == commits[r].parent
           run == DeltaRun(r)
           S == {r} \cup {q \in run : q <= p}
<1>1. /\ p \in DOMAIN commits /\ p \in Nat /\ p # -1 /\ r \in Nat /\ p < r
      /\ commits[r].deltabase \in Nat /\ commits[r].deltabase <= p
  BY RowNumbers
<1>2. r \in run /\ \A q \in run : q \in Nat
  BY <1>1, DeltaRunRows
<1>3. p \in run
  BY <1>1 DEF DeltaRun
<1> HIDE DEF run
<1>4. TakenAfter(r, base, run) = {p}
  BY <1>1, <1>3 DEF TakenAfter
<1>5. \A s \in S : TakenAfter(s, base, run) \subseteq S
  <2> SUFFICES ASSUME NEW s \in S, NEW n \in TakenAfter(s, base, run)
               PROVE  n \in S
    OBVIOUS
  <2>1. CASE s = r
    BY <1>1, <1>3, <1>4, <2>1
  <2>2. CASE s # r
    <3>1. s \in Nat /\ s <= p /\ n \in run /\ n < s /\ n \in Nat
      BY <1>2, <2>2 DEF TakenAfter
    <3> QED
      BY <1>1, <3>1
  <2> QED
    BY <2>1, <2>2
<1>6. S \subseteq run /\ r \in S
  BY <1>2
<1>7. \A q \in S : q = r \/ q <= p
  OBVIOUS
<1> HIDE DEF S
<1>8. Chain(base, r) \subseteq S
  BY <1>5, <1>6, ChainIsLeast DEF run
<1>9. r \in Chain(base, r) /\ TakenAfter(r, base, run) \subseteq Chain(base, r)
  BY <1>2, ChainIsClosed DEF run
<1> QED
  BY <1>4, <1>7, <1>8, <1>9

-----------------------------------------------------------------------------
(* What a scan reads *)

(* The items collected are those of the rows taken, each as in the newest  *)
(* row that has it.                                                        *)
LEMMA ScanReads ==
  ASSUME BackingStoreInv, NEW base, NEW r \in DOMAIN commits
  PROVE  /\ PartialItemGraph(base, r) \in AnyGraph
         /\ PartialItemGraph(base, r).root = RootUUID
         /\ \A i : i \in DOMAIN PartialItemGraph(base, r).items <=>
                   \E q \in Chain(base, r) : i \in DOMAIN commits[q].contents
         /\ \A q \in Chain(base, r) : \A i \in DOMAIN commits[q].contents :
              (\A m \in Chain(base, r) : i \in DOMAIN commits[m].contents => m <= q)
                => PartialItemGraph(base, r).items[i] = commits[q].contents[i]
<1> DEFINE C == Chain(base, r)
           H(i) == {q \in C : i \in DOMAIN commits[q].contents}
           D == UNION {DOMAIN commits[q].contents : q \in C}
           f == [i \in D |-> commits[GreatestOf(H(i))].contents[i]]
<1>1. PartialItemGraph(base, r) = [root |-> RootUUID, items |-> f]
  BY DEF PartialItemGraph
<1>2. PartialItemGraph(base, r) \in AnyGraph
  BY PartialItemGraphType DEF BackingStoreInv
<1>3. C \subseteq 0 .. MaxRevid
  BY ChainIsClosed, DeltaRunRows
<1>4. ASSUME NEW q \in C, NEW i \in DOMAIN commits[q].contents,
             \A m \in C : i \in DOMAIN commits[m].contents => m <= q
      PROVE  f[i] = commits[q].contents[i]
  <2> HIDE DEF C
  <2>1. q \in H(i) /\ H(i) \in SUBSET (0 .. MaxRevid) /\ \A m \in H(i) : m <= q
    BY <1>3, <1>4
  <2>2. GreatestOf(H(i)) \in H(i) /\ \A m \in H(i) : m <= GreatestOf(H(i))
    <3> HIDE DEF H
    <3> QED
      BY <2>1, GreatestOfIsGreatest
  <2>3. GreatestOf(H(i)) = q
    <3> HIDE DEF H
    <3> QED
      BY <2>1, <2>2
  <2>4. i \in D
    BY <1>4
  <2> QED
    BY <2>3, <2>4
<1>5. \A i : i \in D <=> \E q \in C : i \in DOMAIN commits[q].contents
  OBVIOUS
<1>6. DOMAIN f = D
  OBVIOUS
<1> HIDE DEF f, D, C
<1>7. /\ PartialItemGraph(base, r).root = RootUUID
      /\ PartialItemGraph(base, r).items = f
  BY <1>1
<1> QED
  BY <1>2, <1>4, <1>5, <1>6, <1>7 DEF C

(* A scan that takes one row reads its contents.                           *)
LEMMA ReadAlone ==
  ASSUME BackingStoreInv, NEW base, NEW r \in DOMAIN commits,
         commits[r].deltabase = r \/ commits[r].parent = base
  PROVE  PartialItemGraph(base, r).items = commits[r].contents
<1> DEFINE g == PartialItemGraph(base, r)
<1>1. Chain(base, r) = {r}
  BY ChainAlone
<1>2. g.items \in [DOMAIN g.items -> Data]
  BY ScanReads, AnyGraphFields
<1>3. commits[r].contents \in [DOMAIN commits[r].contents -> Data] /\ r \in Nat
  BY RowNumbers, ItemsElim
<1>4. \A i : i \in DOMAIN g.items <=> i \in DOMAIN commits[r].contents
  BY <1>1, ScanReads
<1>5. \A i \in DOMAIN commits[r].contents : g.items[i] = commits[r].contents[i]
  BY <1>1, <1>3, ScanReads
<1> HIDE DEF g
<1>6. DOMAIN g.items = DOMAIN commits[r].contents
  BY <1>4
<1> QED
  BY <1>2, <1>3, <1>5, <1>6 DEF g

(* A scan through a parent in the same run reads the row's contents over   *)
(* what the parent's scan reads.                                           *)
LEMMA ReadOverParent ==
  ASSUME BackingStoreInv, NEW base, NEW r \in DOMAIN commits,
         commits[r].deltabase # r, commits[r].parent # base,
         commits[commits[r].parent].deltabase = commits[r].deltabase
  PROVE  LET g == PartialItemGraph(base, r).items
             below == PartialItemGraph(base, commits[r].parent).items
             own == commits[r].contents
         IN /\ DOMAIN g = DOMAIN own \cup DOMAIN below
            /\ \A i \in DOMAIN g :
                 g[i] = IF i \in DOMAIN own THEN own[i] ELSE below[i]
<1> DEFINE p == commits[r].parent
           g == PartialItemGraph(base, r).items
           below == PartialItemGraph(base, p).items
           own == commits[r].contents
<1>1. /\ Chain(base, r) = {r} \cup Chain(base, p)
      /\ \A q \in Chain(base, p) : q < r
  BY ChainThroughParent
<1>2. p \in DOMAIN commits /\ r \in Nat
  BY RowNumbers
<1>3. Chain(base, p) \subseteq 0 .. MaxRevid
  BY <1>2, ChainIsClosed, DeltaRunRows
<1>4. /\ \A i : i \in DOMAIN g <=>
                 \E q \in Chain(base, r) : i \in DOMAIN commits[q].contents
      /\ \A q \in Chain(base, r) : \A i \in DOMAIN commits[q].contents :
           (\A m \in Chain(base, r) : i \in DOMAIN commits[m].contents => m <= q)
             => g[i] = commits[q].contents[i]
  BY ScanReads
<1>5. /\ \A i : i \in DOMAIN below <=>
                 \E q \in Chain(base, p) : i \in DOMAIN commits[q].contents
      /\ \A q \in Chain(base, p) : \A i \in DOMAIN commits[q].contents :
           (\A m \in Chain(base, p) : i \in DOMAIN commits[m].contents => m <= q)
             => below[i] = commits[q].contents[i]
  BY <1>2, ScanReads
<1> HIDE DEF g, below, p
<1>6. DOMAIN g = DOMAIN own \cup DOMAIN below
  BY <1>1, <1>4, <1>5
<1>7. ASSUME NEW i \in DOMAIN own
      PROVE  g[i] = own[i]
  BY <1>1, <1>2, <1>3, <1>4, <1>7
<1>8. ASSUME NEW i \in DOMAIN below, i \notin DOMAIN own
      PROVE  g[i] = below[i]
  <2> DEFINE S == {q \in Chain(base, p) : i \in DOMAIN commits[q].contents}
  <2>1. S # {} /\ S \in SUBSET (0 .. MaxRevid)
    BY <1>3, <1>5, <1>8
  <2>2. PICK q \in S : \A m \in S : m <= q
    <3> HIDE DEF S
    <3> QED
      BY <2>1, GreatestOfIsGreatest
  <2>3. /\ q \in Chain(base, p) /\ i \in DOMAIN commits[q].contents
        /\ \A m \in Chain(base, p) : i \in DOMAIN commits[m].contents => m <= q
    BY <2>2
  <2>4. below[i] = commits[q].contents[i]
    BY <1>5, <2>3
  <2>5. /\ q \in Chain(base, r)
        /\ \A m \in Chain(base, r) : i \in DOMAIN commits[m].contents => m <= q
    BY <1>1, <1>8, <2>3
  <2>6. g[i] = commits[q].contents[i]
    BY <1>4, <2>3, <2>5
  <2> QED
    BY <2>4, <2>6
<1>9. \A i \in DOMAIN g : g[i] = IF i \in DOMAIN own THEN own[i] ELSE below[i]
  BY <1>6, <1>7, <1>8
<1> QED
  BY <1>6, <1>9 DEF g, below, p

(* A scan through a parent reads at least the row's contents over the      *)
(* parent's.                                                               *)
LEMMA ReadHoldsParent ==
  ASSUME BackingStoreInv, NEW base, NEW r \in DOMAIN commits,
         commits[r].deltabase # r, commits[r].parent # base
  PROVE  LET g == PartialItemGraph(base, r).items
             below == commits[commits[r].parent].contents
             own == commits[r].contents
         IN \A i \in DOMAIN own \cup DOMAIN below :
              /\ i \in DOMAIN g
              /\ g[i] = IF i \in DOMAIN own THEN own[i] ELSE below[i]
<1> DEFINE p == commits[r].parent
           g == PartialItemGraph(base, r).items
           C == Chain(base, r)
<1>1. /\ r \in C /\ p \in C
      /\ \A q \in C : q = r \/ q <= p
  BY ChainHoldsParent
<1>2. /\ \A i : i \in DOMAIN g <=> \E q \in C : i \in DOMAIN commits[q].contents
      /\ \A q \in C : \A i \in DOMAIN commits[q].contents :
           (\A m \in C : i \in DOMAIN commits[m].contents => m <= q)
             => g[i] = commits[q].contents[i]
  BY ScanReads
<1>3. r \in Nat /\ p \in Nat /\ p < r /\ C \subseteq 0 .. MaxRevid
  BY RowNumbers, ChainIsClosed, DeltaRunRows
<1> HIDE DEF g, p, C
<1>4. ASSUME NEW i \in DOMAIN commits[r].contents
      PROVE  i \in DOMAIN g /\ g[i] = commits[r].contents[i]
  <2>1. \A m \in C : m <= r
    BY <1>1, <1>3
  <2> QED
    BY <1>1, <1>2, <2>1
<1>5. ASSUME NEW i \in DOMAIN commits[p].contents, i \notin DOMAIN commits[r].contents
      PROVE  i \in DOMAIN g /\ g[i] = commits[p].contents[i]
  <2>1. \A m \in C : i \in DOMAIN commits[m].contents => m <= p
    BY <1>1, <1>5
  <2> QED
    BY <1>1, <1>2, <1>5, <2>1
<1> QED
  BY <1>4, <1>5 DEF g, p

-----------------------------------------------------------------------------
(* What a revision reads back as *)

Own(r) == [root |-> metadata, items |-> commits[r].contents]

(* A revision as a reload keeps it. *)
ReadBack(r) == RemoveUnreachableItems[ItemGraphForRevid(r)]

(* What the row gives over what its parent reads back as. *)
Whole(r) ==
  IF commits[r].deltabase = r THEN Own(r)
  ELSE AddItemGraph(ReadBack(commits[r].parent), Own(r))

(* The root that reads answer is the one stored.                           *)
LEMMA RootIsMetadata ==
  ASSUME BackingStoreInv
  PROVE  RootUUID = metadata /\ metadata \in Item \cup {NoItem}
BY DEF BackingStoreInv, RootCached, RootUUID, TypeOK

(* The graphs of a row.                                                    *)
LEMMA RowGraphs ==
  ASSUME BackingStoreInv, NEW r \in DOMAIN commits
  PROVE  /\ Own(r) \in AnyGraph
         /\ Own(r).root = metadata /\ Own(r).items = commits[r].contents
         /\ ItemGraphForRevid(r) \in AnyGraph
         /\ ItemGraphForRevid(r).root = metadata
         /\ ReadBack(r) \in AnyGraph /\ ReadBack(r).root = metadata
         /\ Whole(r) \in AnyGraph /\ Whole(r).root = metadata
<1>1. Own(r) \in AnyGraph /\ Own(r).root = metadata /\ Own(r).items = commits[r].contents
  BY RootIsMetadata, RowNumbers DEF Own, AnyGraph
<1>2. \A q \in DOMAIN commits :
        /\ ItemGraphForRevid(q) \in AnyGraph
        /\ ItemGraphForRevid(q).root = metadata
  BY ScanReads, RootIsMetadata DEF ItemGraphForRevid
<1>3. \A q \in DOMAIN commits : ReadBack(q) \in AnyGraph /\ ReadBack(q).root = metadata
  BY <1>2, ReducedGraph DEF ReadBack
<1>4. Whole(r) \in AnyGraph /\ Whole(r).root = metadata
  <2>1. CASE commits[r].deltabase = r
    BY <1>1, <2>1 DEF Whole
  <2>2. CASE commits[r].deltabase # r
    <3>1. commits[r].parent \in DOMAIN commits
      BY <2>2, RowNumbers
    <3> QED
      BY <1>1, <1>3, <2>2, <3>1, OverlayHolds DEF Whole
  <2> QED
    BY <2>1, <2>2
<1> QED
  BY <1>1, <1>2, <1>3, <1>4

(* A revision is read back from its whole graph: what the scan reads holds *)
(* that graph, so the garbage the scan may add to it does not matter.      *)
LEMMA ReadBackIsWhole ==
  ASSUME BackingStoreInv, NEW r \in DOMAIN commits, IsComplete(Whole(r))
  PROVE  /\ ReadBack(r) = RemoveUnreachableItems[Whole(r)]
         /\ IsComplete(ItemGraphForRevid(r))
         /\ IsComplete(ReadBack(r))
         /\ RemoveUnreachableItems[ReadBack(r)] = ReadBack(r)
<1> DEFINE p == commits[r].parent
           g == ItemGraphForRevid(r)
<1>1. g \in AnyGraph /\ g.root = metadata /\ Whole(r) \in AnyGraph /\ Whole(r).root = metadata
  BY RowGraphs
<1>2. Holds(g, Whole(r))
  <2>1. CASE commits[r].deltabase = r
    <3>1. g.items = commits[r].contents
      BY <2>1, ReadAlone DEF ItemGraphForRevid
    <3> QED
      BY <1>1, <2>1, <3>1, RowGraphs DEF Whole, Holds
  <2>2. CASE commits[r].deltabase # r
    <3>1. /\ p \in DOMAIN commits /\ p # -1 /\ commits[r].deltabase \in Nat /\ p \in Nat
          /\ commits[p].deltabase \in {commits[r].deltabase, p}
      BY <2>2, RowNumbers
    <3>2. /\ ReadBack(p) \in AnyGraph /\ Own(r) \in AnyGraph
          /\ Own(r).root = metadata /\ Own(r).items = commits[r].contents
          /\ ItemGraphForRevid(p) \in AnyGraph
      BY <3>1, RowGraphs
    <3>3. \A i \in DOMAIN ReadBack(p).items :
            /\ i \in DOMAIN ItemGraphForRevid(p).items
            /\ ItemGraphForRevid(p).items[i] = ReadBack(p).items[i]
      BY <3>2, ReducedGraph DEF ReadBack, Holds
    <3>4. Whole(r) = AddItemGraph(ReadBack(p), Own(r))
      BY <2>2 DEF Whole
    <3>5. /\ DOMAIN Whole(r).items = DOMAIN ReadBack(p).items \cup DOMAIN Own(r).items
          /\ \A i \in DOMAIN ReadBack(p).items \cup DOMAIN Own(r).items :
               Whole(r).items[i] =
                 IF i \in DOMAIN Own(r).items THEN Own(r).items[i] ELSE ReadBack(p).items[i]
      BY <3>2, <3>4, OverlayHolds
    <3>6. CASE commits[p].deltabase = commits[r].deltabase
      <4>1. /\ DOMAIN g.items = DOMAIN commits[r].contents \cup DOMAIN ItemGraphForRevid(p).items
            /\ \A i \in DOMAIN g.items :
                 g.items[i] = IF i \in DOMAIN commits[r].contents THEN commits[r].contents[i]
                              ELSE ItemGraphForRevid(p).items[i]
        BY <2>2, <3>1, <3>6, ReadOverParent DEF ItemGraphForRevid
      <4> HIDE DEF g
      <4> QED
        BY <1>1, <3>2, <3>3, <3>5, <4>1 DEF Holds
    <3>7. CASE commits[p].deltabase = p
      <4>1. \A i \in DOMAIN commits[r].contents \cup DOMAIN commits[p].contents :
              /\ i \in DOMAIN g.items
              /\ g.items[i] = IF i \in DOMAIN commits[r].contents THEN commits[r].contents[i]
                              ELSE commits[p].contents[i]
        BY <2>2, <3>1, ReadHoldsParent DEF ItemGraphForRevid
      <4>2. ItemGraphForRevid(p).items = commits[p].contents
        BY <3>1, <3>7, ReadAlone DEF ItemGraphForRevid
      <4> HIDE DEF g
      <4> QED
        BY <1>1, <3>2, <3>3, <3>5, <4>1, <4>2 DEF Holds
    <3> QED
      BY <3>1, <3>6, <3>7
  <2> QED
    BY <2>1, <2>2
<1>3. RemoveUnreachableItems[g] = RemoveUnreachableItems[Whole(r)] /\ IsComplete(g)
  <2> HIDE DEF g
  <2> QED
    BY <1>1, <1>2, CompleteGraphHeld
<1> QED
  BY <1>1, <1>3, ReducedGraph DEF ReadBack

RowsReadBack ==
  BackingStoreInv =>
    \A r \in DOMAIN commits :
      /\ Own(r) \in AnyGraph /\ Own(r).root = metadata /\ Own(r).items = commits[r].contents
      /\ ReadBack(r) \in AnyGraph /\ ReadBack(r).root = metadata
      /\ IsComplete(Whole(r)) =>
           /\ ReadBack(r) = RemoveUnreachableItems[Whole(r)]
           /\ IsComplete(ReadBack(r))
           /\ RemoveUnreachableItems[ReadBack(r)] = ReadBack(r)

(* Every row of the state before a step reads back so ...                  *)
LEMMA RowsReadBackNow == RowsReadBack
BY RowGraphs, ReadBackIsWhole DEF RowsReadBack

(* ... and so does every row of the state after it.                        *)
LEMMA RowsReadBackNext == RowsReadBack'
BY RowsReadBackNow, PTL

-----------------------------------------------------------------------------
(* Every step keeps the graphs whole *)

(* The induction along a delta run, as the least row that would go wrong.  *)
LEMMA LeastRow ==
  ASSUME BackingStoreInv, NEW W \in SUBSET DOMAIN commits, W # {}
  PROVE  \E r \in W : \A q \in W : ~ (q < r)
<1>1. W \in SUBSET Nat
  BY RowNumbers
<1>2. LeastOf(W) \in W /\ \A q \in W : LeastOf(W) <= q
  BY <1>1, LeastOfIsLeast
<1> QED
  BY <1>1, <1>2

(* The rows of W that a step leaves deltas of the same parent, itself in   *)
(* W, or makes or leaves snapshots of what they read back as, read back as *)
(* before.                                                                 *)
LEMMA KeptRowsReadBack ==
  ASSUME BackingStoreInv, StoredGraphsComplete, BackingStoreInv', metadata' = metadata,
         NEW W \in SUBSET DOMAIN commits, W \subseteq DOMAIN commits',
         \A r \in W :
           \/ /\ commits'[r].deltabase = r
              /\ IsComplete(Own(r)')
              /\ RemoveUnreachableItems[Own(r)'] = ReadBack(r)
           \/ /\ commits'[r].deltabase # r /\ commits[r].deltabase # r
              /\ commits'[r].parent = commits[r].parent
              /\ commits'[r].contents = commits[r].contents
              /\ commits[r].parent \in W
  PROVE  \A r \in W : IsComplete(Whole(r)') /\ ReadBack(r)' = ReadBack(r)
<1> DEFINE Wrong == {r \in W : ~ (IsComplete(Whole(r)') /\ ReadBack(r)' = ReadBack(r))}
<1>1. SUFFICES ASSUME Wrong # {}
               PROVE  FALSE
  OBVIOUS
<1>2. PICK r \in Wrong : \A q \in Wrong : ~ (q < r)
  <2>1. Wrong \in SUBSET DOMAIN commits
    OBVIOUS
  <2> HIDE DEF Wrong
  <2> QED
    BY <1>1, <2>1, LeastRow
<1>3. /\ r \in W /\ r \in DOMAIN commits /\ r \in DOMAIN commits'
      /\ ~ (IsComplete(Whole(r)') /\ ReadBack(r)' = ReadBack(r))
  OBVIOUS
<1>4. IsComplete(Whole(r)') => ReadBack(r)' = RemoveUnreachableItems[Whole(r)']
  BY <1>3, RowsReadBackNext DEF RowsReadBack
<1>5. IsComplete(Whole(r)) /\ ReadBack(r) = RemoveUnreachableItems[Whole(r)]
  <2>1. IsComplete(Whole(r))
    BY <1>3 DEF StoredGraphsComplete, Whole, Own, ReadBack
  <2> QED
    BY <1>3, <2>1, RowsReadBackNow DEF RowsReadBack
<1>6. CASE /\ commits'[r].deltabase = r
           /\ IsComplete(Own(r)')
           /\ RemoveUnreachableItems[Own(r)'] = ReadBack(r)
  <2>1. Whole(r)' = Own(r)'
    BY <1>6 DEF Whole
  <2> QED
    BY <1>3, <1>4, <1>6, <2>1
<1>7. CASE /\ commits'[r].deltabase # r /\ commits[r].deltabase # r
           /\ commits'[r].parent = commits[r].parent
           /\ commits'[r].contents = commits[r].contents
           /\ commits[r].parent \in W
  <2> PICK p \in W : p = commits[r].parent
    BY <1>7
  <2>1. p < r
    BY <1>3, RowNumbers
  <2>2. ReadBack(p)' = ReadBack(p)
    BY <1>2, <2>1
  <2>3. Own(r)' = Own(r)
    BY <1>7 DEF Own
  <2>4. Whole(r)' = AddItemGraph(ReadBack(p)', Own(r)')
    BY <1>7 DEF Whole, ReadBack
  <2>5. Whole(r) = AddItemGraph(ReadBack(p), Own(r))
    BY <1>7 DEF Whole
  <2>6. Whole(r)' = Whole(r)
    BY <2>2, <2>3, <2>4, <2>5
  <2> QED
    BY <1>3, <1>4, <1>5, <2>6
<1> QED
  BY <1>3, <1>6, <1>7

StoredGraphsInv == BackingStoreInv /\ StoredGraphsComplete

(* The invariant, in the terms of this section.                            *)
LEMMA StoredGraphsAreWhole ==
  StoredGraphsComplete <=> \A r \in DOMAIN commits : IsComplete(Whole(r))
BY DEF StoredGraphsComplete, Whole, Own, ReadBack

(* ... after a step.                                                       *)
LEMMA StoredGraphsAreWholeNext ==
  StoredGraphsComplete' <=> \A r \in DOMAIN commits' : IsComplete(Whole(r)')
BY DEF StoredGraphsComplete, Whole, Own, ReadBack

(* A row whose contents, parent and delta base stay is kept, as a snapshot *)
(* or as a delta.                                                          *)
LEMMA KeptSnapshot ==
  ASSUME StoredGraphsInv, metadata' = metadata, NEW r \in DOMAIN commits,
         commits[r].deltabase = r, commits'[r].contents = commits[r].contents
  PROVE  IsComplete(Own(r)') /\ RemoveUnreachableItems[Own(r)'] = ReadBack(r)
<1>1. IsComplete(Whole(r)) /\ Whole(r) = Own(r)
  BY StoredGraphsAreWhole DEF StoredGraphsInv, Whole
<1>2. ReadBack(r) = RemoveUnreachableItems[Own(r)]
  BY <1>1, RowsReadBackNow DEF RowsReadBack, StoredGraphsInv
<1>3. Own(r)' = Own(r)
  BY DEF Own
<1> QED
  BY <1>1, <1>2, <1>3

(* The three passes of -deleteRevids: change what no surviving revision    *)
(* reads back as: marking, ...                                             *)
LEMMA MarkGarbageKeeps ==
  ASSUME StoredGraphsInv, BackingStoreInv', NEW R, MarkGarbage(R)
  PROVE  /\ DOMAIN commits' = DOMAIN commits
         /\ \A r \in DOMAIN commits :
              /\ IsComplete(Whole(r)') /\ ReadBack(r)' = ReadBack(r)
              /\ commits'[r].uuid = commits[r].uuid
              /\ commits'[r].parent = commits[r].parent
<1> DEFINE G == R \cap DOMAIN commits
<1>1. /\ commits' = [r \in DOMAIN commits |->
                       IF r \in G THEN [commits[r] EXCEPT !.garbage = TRUE]
                       ELSE commits[r]]
      /\ metadata' = metadata
  BY DEF MarkGarbage
<1>2. BackingStoreInv /\ StoredGraphsComplete
  BY DEF StoredGraphsInv
<1>3. DOMAIN commits' = DOMAIN commits
  BY <1>1
<1>4. ASSUME NEW r \in DOMAIN commits
      PROVE  /\ commits'[r].uuid = commits[r].uuid
             /\ commits'[r].parent = commits[r].parent
             /\ commits'[r].deltabase = commits[r].deltabase
             /\ commits'[r].contents = commits[r].contents
  <2>1. commits[r] \in Row
    BY <1>2, RowNumbers
  <2> QED
    BY <1>1, <2>1 DEF Row
<1>5. \A r \in DOMAIN commits : commits[r].deltabase = r =>
        IsComplete(Own(r)') /\ RemoveUnreachableItems[Own(r)'] = ReadBack(r)
  BY <1>1, <1>4, KeptSnapshot
<1>6. \A r \in DOMAIN commits : commits[r].deltabase # r =>
        commits[r].parent \in DOMAIN commits
  BY <1>2, RowNumbers
<1> HIDE DEF G
<1> DEFINE W == DOMAIN commits
<1>7. \A r \in W : IsComplete(Whole(r)') /\ ReadBack(r)' = ReadBack(r)
  BY <1>1, <1>2, <1>3, <1>4, <1>5, <1>6, KeptRowsReadBack
<1> QED
  BY <1>3, <1>4, <1>7

(* ... rebuilding one row from what it reads as, ...                       *)
LEMMA RebuildRevidKeeps ==
  ASSUME StoredGraphsInv, BackingStoreInv', RebuildRevid
  PROVE  /\ DOMAIN commits' = DOMAIN commits
         /\ \A r \in DOMAIN commits :
              /\ IsComplete(Whole(r)') /\ ReadBack(r)' = ReadBack(r)
              /\ commits'[r].uuid = commits[r].uuid
              /\ commits'[r].parent = commits[r].parent
<1>2. BackingStoreInv /\ StoredGraphsComplete /\ TypeOK
  BY DEF StoredGraphsInv, BackingStoreInv
<1>3. PICK k \in DOMAIN commits : k = LeastOf(rebuildRevids)
  <2>1. rebuildRevids \in SUBSET Nat /\ rebuildRevids \subseteq DOMAIN commits
    BY <1>2 DEF TypeOK, Revids
  <2>2. rebuildRevids # {}
    BY DEF RebuildRevid
  <2> QED
    BY <2>1, <2>2, LeastOfIsLeast
<1>4. PICK c : c = ReadBack(k).items
  OBVIOUS
<1>1. /\ commits' = [commits EXCEPT ![k].contents = c, ![k].deltabase = k]
      /\ metadata' = metadata
  BY <1>3, <1>4 DEF RebuildRevid, ReadBack
<1>5. DOMAIN commits' = DOMAIN commits
  BY <1>1
<1>6. \A r \in DOMAIN commits :
        /\ commits'[r].uuid = commits[r].uuid
        /\ commits'[r].parent = commits[r].parent
        /\ r # k => commits'[r] = commits[r]
  <2> SUFFICES ASSUME NEW r \in DOMAIN commits
               PROVE  /\ commits'[r].uuid = commits[r].uuid
                      /\ commits'[r].parent = commits[r].parent
                      /\ r # k => commits'[r] = commits[r]
    OBVIOUS
  <2>1. commits[r] \in Row
    BY <1>2, RowNumbers
  <2> QED
    BY <1>1, <2>1 DEF Row
<1>7. commits'[k].contents = c /\ commits'[k].deltabase = k
  <2>1. commits[k] \in Row
    BY <1>2, <1>3, RowNumbers
  <2> QED
    BY <1>1, <1>3, <2>1 DEF Row
<1>8. IsComplete(Own(k)') /\ RemoveUnreachableItems[Own(k)'] = ReadBack(k)
  <2>1. /\ ReadBack(k) \in AnyGraph /\ ReadBack(k).root = metadata
        /\ IsComplete(ReadBack(k)) /\ RemoveUnreachableItems[ReadBack(k)] = ReadBack(k)
    BY <1>2, <1>3, StoredGraphsAreWhole, RowsReadBackNow DEF RowsReadBack
  <2>2. /\ Own(k)' \in AnyGraph
        /\ Own(k)'.root = metadata' /\ Own(k)'.items = commits'[k].contents
    BY <1>3, <1>5, RowsReadBackNext DEF RowsReadBack
  <2>3. Own(k)' = ReadBack(k)
    BY <1>1, <1>4, <1>7, <2>1, <2>2, AnyGraphEquality
  <2> QED
    BY <2>1, <2>3
<1>9. \A r \in DOMAIN commits : commits[r].deltabase = r /\ r # k =>
        IsComplete(Own(r)') /\ RemoveUnreachableItems[Own(r)'] = ReadBack(r)
  BY <1>1, <1>6, KeptSnapshot
<1>10. \A r \in DOMAIN commits : commits[r].deltabase # r =>
        commits[r].parent \in DOMAIN commits
  BY <1>2, RowNumbers
<1>11. PICK W \in SUBSET DOMAIN commits : W = DOMAIN commits
  OBVIOUS
<1>12. \A r \in W :
        \/ /\ commits'[r].deltabase = r
           /\ IsComplete(Own(r)')
           /\ RemoveUnreachableItems[Own(r)'] = ReadBack(r)
        \/ /\ commits'[r].deltabase # r /\ commits[r].deltabase # r
           /\ commits'[r].parent = commits[r].parent
           /\ commits'[r].contents = commits[r].contents
           /\ commits[r].parent \in W
  BY <1>6, <1>7, <1>8, <1>9, <1>10, <1>11
<1>13. \A r \in W : IsComplete(Whole(r)') /\ ReadBack(r)' = ReadBack(r)
  BY <1>1, <1>2, <1>5, <1>11, <1>12, KeptRowsReadBack
<1> QED
  BY <1>5, <1>6, <1>11, <1>13

(* ... and deleting the rows marked.                                       *)
LEMMA DeleteGarbageKeeps ==
  ASSUME StoredGraphsInv, BackingStoreInv', DeleteGarbage
  PROVE  /\ DOMAIN commits' = {r \in DOMAIN commits : ~commits[r].garbage}
         /\ \A r \in DOMAIN commits' :
              /\ IsComplete(Whole(r)') /\ ReadBack(r)' = ReadBack(r)
              /\ commits'[r] = commits[r]
<1>1. /\ rebuildRevids = {}
      /\ commits' = [r \in {q \in DOMAIN commits : ~commits[q].garbage} |-> commits[r]]
      /\ metadata' = metadata
  BY DEF DeleteGarbage
<1>2. BackingStoreInv /\ StoredGraphsComplete /\ RebuildsPending
  BY DEF StoredGraphsInv, BackingStoreInv
<1> DEFINE W == {r \in DOMAIN commits : ~commits[r].garbage}
<1>3. DOMAIN commits' = W /\ \A r \in W : commits'[r] = commits[r]
  BY <1>1
<1>4. \A r \in W : commits[r].deltabase = r =>
        IsComplete(Own(r)') /\ RemoveUnreachableItems[Own(r)'] = ReadBack(r)
  BY <1>1, <1>3, KeptSnapshot
<1>5. \A r \in W : commits[r].deltabase # r => commits[r].parent \in W
  BY <1>1, <1>2, RowNumbers DEF RebuildsPending
<1>6. W \in SUBSET DOMAIN commits
  OBVIOUS
<1> HIDE DEF W
<1>7. \A r \in W : IsComplete(Whole(r)') /\ ReadBack(r)' = ReadBack(r)
  BY <1>1, <1>2, <1>3, <1>4, <1>5, <1>6, KeptRowsReadBack
<1> QED
  BY <1>3, <1>7 DEF W

(* A store that holds a revision has its root, an item.                    *)
LEMMA RootOfRows ==
  ASSUME StoredGraphsInv, NEW r \in DOMAIN commits
  PROVE  metadata \in Item
<1>1. IsComplete(ReadBack(r)) /\ ReadBack(r) \in AnyGraph /\ ReadBack(r).root = metadata
  BY StoredGraphsAreWhole, RowsReadBackNow DEF RowsReadBack, StoredGraphsInv
<1> QED
  BY <1>1, AnyGraphFields DEF IsComplete

(* The items a caller's delta is to be combined with. *)
ItemsBefore(p) ==
  IF RevidForUUID(p) \in DOMAIN commits THEN ReadBack(RevidForUUID(p)).items ELSE << >>

CombinedGraph(p, g) == AddItemGraph([root |-> g.root, items |-> ItemsBefore(p)], g)

(* A caller that covers its changes gives the store the items that make,   *)
(* with those it reads back, a complete graph; and reading the parent      *)
(* without collecting its garbage gives a graph that holds it.             *)
LEMMA CombinedIsComplete ==
  ASSUME StoredGraphsInv, NEW p, NEW g \in ItemGraphs,
         metadata \in {NoItem, g.root}, CoversChanges(p, g)
  PROVE  /\ CombinedGraph(p, g) \in AnyGraph /\ CombinedGraph(p, g).root = g.root
         /\ IsComplete(CombinedGraph(p, g))
         /\ AddItemGraph(ItemGraphForRevid(RevidForUUID(p)), g) \in AnyGraph
         /\ Holds(AddItemGraph(ItemGraphForRevid(RevidForUUID(p)), g), CombinedGraph(p, g))
<1>1. BackingStoreInv /\ TypeOK
  BY DEF StoredGraphsInv, BackingStoreInv
<1>2. g \in AnyGraph /\ g.root \in Item
  BY DEF AnyGraph, ItemGraphs
<1>3. PICK q : q = RevidForUUID(p)
  OBVIOUS
<1>4. PICK f : f = ItemGraphForRevid(q)
  OBVIOUS
<1>5. f \in AnyGraph /\ f.root = metadata
  <2>1. f \in AnyGraph
    BY <1>1, <1>4, PartialItemGraphType DEF ItemGraphForRevid
  <2> QED
    BY <1>1, <1>4, <2>1, RootIsMetadata DEF ItemGraphForRevid, PartialItemGraph
<1>6. PICK old : old = [f EXCEPT !.root = g.root]
  OBVIOUS
<1>7. old \in AnyGraph /\ old.root = g.root /\ old.items = f.items
  BY <1>2, <1>5, <1>6 DEF AnyGraph
<1>8. IsComplete(AddItemGraph(RemoveUnreachableItems[old], g))
  BY <1>3, <1>4, <1>6 DEF CoversChanges
<1>9. /\ RemoveUnreachableItems[old] \in AnyGraph
      /\ RemoveUnreachableItems[old].root = g.root
      /\ Holds(old, RemoveUnreachableItems[old])
  BY <1>7, ReducedGraph
<1>10. CombinedGraph(p, g) = AddItemGraph(RemoveUnreachableItems[old], g)
  <2>1. CASE q \in DOMAIN commits
    <3>1. metadata = g.root
      BY <2>1, RootOfRows
    <3>2. old = f
      BY <1>5, <1>7, <3>1, AnyGraphEquality
    <3>3. ReadBack(q) = RemoveUnreachableItems[old]
      BY <1>4, <3>2 DEF ReadBack
    <3>4. ItemsBefore(p) = RemoveUnreachableItems[old].items
      BY <1>3, <2>1, <3>3 DEF ItemsBefore
    <3> QED
      BY <3>4 DEF CombinedGraph, AddItemGraph
  <2>2. CASE q \notin DOMAIN commits
    <3>1. DOMAIN f.items = {}
      BY <1>4, <2>2 DEF ItemGraphForRevid, PartialItemGraph
    <3>2. DOMAIN RemoveUnreachableItems[old].items = {}
      BY <1>7, <1>9, <3>1 DEF Holds
    <3>3. DOMAIN << >> = {}
      OBVIOUS
    <3>4. DOMAIN ItemsBefore(p) = {}
      BY <1>3, <2>2, <3>3 DEF ItemsBefore
    <3>5. DOMAIN ItemsBefore(p) \cup DOMAIN g.items = DOMAIN g.items
      BY <3>4
    <3>6. DOMAIN RemoveUnreachableItems[old].items \cup DOMAIN g.items = DOMAIN g.items
      BY <3>2
    <3>7. CombinedGraph(p, g) = [root |-> g.root, items |-> [i \in DOMAIN g.items |-> g.items[i]]]
      BY <3>5 DEF CombinedGraph, AddItemGraph
    <3>8. AddItemGraph(RemoveUnreachableItems[old], g)
            = [root |-> g.root, items |-> [i \in DOMAIN g.items |-> g.items[i]]]
      BY <3>6 DEF AddItemGraph
    <3> QED
      BY <3>7, <3>8
  <2> QED
    BY <2>1, <2>2
<1>11. /\ AddItemGraph(RemoveUnreachableItems[old], g) \in AnyGraph
       /\ AddItemGraph(RemoveUnreachableItems[old], g).root = g.root
       /\ AddItemGraph(f, g) \in AnyGraph
  BY <1>2, <1>5, <1>9, OverlayHolds
<1>12. Holds(AddItemGraph(f, g), AddItemGraph(RemoveUnreachableItems[old], g))
  <2>1. \A i \in DOMAIN RemoveUnreachableItems[old].items :
          i \in DOMAIN f.items /\ f.items[i] = RemoveUnreachableItems[old].items[i]
    BY <1>7, <1>9 DEF Holds
  <2> QED
    BY <1>2, <1>5, <1>9, <2>1, OverlayMonotone
<1> QED
  BY <1>3, <1>4, <1>8, <1>10, <1>11, <1>12

(* N is the row of a new revision u, which reads back as the items written *)
(* over those of its parent; every other row is as it was.                 *)
Written(u, p, g, N) ==
  /\ N \notin DOMAIN commits /\ DOMAIN commits' = DOMAIN commits \cup {N}
  /\ \A r \in DOMAIN commits : r < N
  /\ \A r \in DOMAIN commits :
       /\ IsComplete(Whole(r)') /\ ReadBack(r)' = ReadBack(r)
       /\ commits'[r] = commits[r]
  /\ commits'[N].uuid = u /\ commits'[N].parent = RevidForUUID(p)
  /\ IsComplete(Whole(N)')
  /\ ReadBack(N)' = RemoveUnreachableItems[CombinedGraph(p, g)]

(* -writeItemGraph:... stores a revision that reads back as its items over *)
(* its parent's, whether it writes a delta or a snapshot, and leaves the   *)
(* others as they were.                                                    *)
LEMMA WriteItemGraphKeeps ==
  ASSUME StoredGraphsInv, BackingStoreInv',
         NEW u \in Revision, NEW p \in Revision \cup {NoRevision}, NEW g \in ItemGraphs,
         CoversChanges(p, g), WriteItemGraph(u, p, g)
  PROVE  /\ metadata \in {NoItem, g.root} /\ metadata' = g.root /\ u \notin UUIDs
         /\ \E N : Written(u, p, g, N)
<1>1. BackingStoreInv /\ StoredGraphsComplete /\ TypeOK
  BY DEF StoredGraphsInv, BackingStoreInv
<1>2. PICK N : N = NextRowid
  OBVIOUS
<1>3. PICK n : n = NewRow(u, p, g)
  OBVIOUS
<1>4. /\ u \notin UUIDs /\ RootUUID \in {NoItem, g.root}
      /\ commits' = [r \in DOMAIN commits \cup {N} |-> IF r = N THEN n ELSE commits[r]]
      /\ metadata' = IF RootUUID = NoItem THEN g.root ELSE metadata
      /\ N <= MaxRevid
  BY <1>2, <1>3 DEF WriteItemGraph, WriteAccepted
<1>5. metadata \in {NoItem, g.root} /\ metadata' = g.root /\ RootUUID = metadata
  BY <1>1, <1>4, RootIsMetadata
<1>6. N \in Nat /\ \A r \in DOMAIN commits : r < N /\ r \in Nat
  BY <1>1, <1>2, NextRowidIsNew, RowNumbers
<1>7. /\ N \notin DOMAIN commits
      /\ DOMAIN commits' = DOMAIN commits \cup {N}
      /\ commits'[N] = n
      /\ \A r \in DOMAIN commits : commits'[r] = commits[r]
  BY <1>4, <1>6
<1>8. g \in AnyGraph /\ g.root \in Item /\ g = [root |-> g.root, items |-> g.items]
  BY DEF AnyGraph, ItemGraphs
<1>9. \A r \in DOMAIN commits : IsComplete(Whole(r)') /\ ReadBack(r)' = ReadBack(r)
  <2>1. CASE DOMAIN commits = {}
    BY <2>1
  <2>2. CASE DOMAIN commits # {}
    <3>1. metadata' = metadata
      BY <1>5, <2>2, RootOfRows
    <3>2. \A r \in DOMAIN commits : commits[r].deltabase = r =>
            IsComplete(Own(r)') /\ RemoveUnreachableItems[Own(r)'] = ReadBack(r)
      BY <1>7, <3>1, KeptSnapshot
    <3>3. \A r \in DOMAIN commits : commits[r].deltabase # r =>
            commits[r].parent \in DOMAIN commits
      BY <1>1, RowNumbers
    <3>4. PICK W \in SUBSET DOMAIN commits : W = DOMAIN commits
      OBVIOUS
    <3>5. \A r \in W :
            \/ /\ commits'[r].deltabase = r
               /\ IsComplete(Own(r)')
               /\ RemoveUnreachableItems[Own(r)'] = ReadBack(r)
            \/ /\ commits'[r].deltabase # r /\ commits[r].deltabase # r
               /\ commits'[r].parent = commits[r].parent
               /\ commits'[r].contents = commits[r].contents
               /\ commits[r].parent \in W
      BY <1>7, <3>2, <3>3, <3>4
    <3>6. W \subseteq DOMAIN commits'
      BY <1>7
    <3>7. \A r \in W : IsComplete(Whole(r)') /\ ReadBack(r)' = ReadBack(r)
      BY <1>1, <3>1, <3>5, <3>6, KeptRowsReadBack
    <3> QED
      BY <3>4, <3>7
  <2> QED
    BY <2>1, <2>2
<1>10. PICK q : q = RevidForUUID(p)
  OBVIOUS
<1>11. PICK G : G = CombinedGraph(p, g)
  OBVIOUS
<1>12. PICK merged : merged = AddItemGraph(ItemGraphForRevid(q), g)
  OBVIOUS
<1>13. /\ G \in AnyGraph /\ G.root = g.root /\ IsComplete(G)
       /\ merged \in AnyGraph /\ merged.root = g.root
       /\ RemoveUnreachableItems[merged] = RemoveUnreachableItems[G]
  <2>1. /\ G \in AnyGraph /\ G.root = g.root /\ IsComplete(G)
        /\ merged \in AnyGraph /\ Holds(merged, G)
    BY <1>5, <1>10, <1>11, <1>12, CombinedIsComplete
  <2> QED
    BY <2>1, CompleteGraphHeld DEF Holds
<1>14. n.uuid = u /\ n.parent = q
  BY <1>3, <1>10 DEF NewRow
<1>15. /\ Own(N)' \in AnyGraph
       /\ Own(N)'.root = metadata' /\ Own(N)'.items = n.contents
       /\ IsComplete(Whole(N)') => ReadBack(N)' = RemoveUnreachableItems[Whole(N)']
  BY <1>7, RowsReadBackNext DEF RowsReadBack
<1>16. CASE n.deltabase = N
  <2>1. n.contents = RemoveUnreachableItems[merged].items
    <3>1. q \in DOMAIN commits => commits[q].deltabase # N
      BY <1>1, <1>6, RowNumbers
    <3> QED
      BY <1>2, <1>3, <1>6, <1>10, <1>12, <1>16, <3>1 DEF NewRow, DeltabaseForRowid
  <2>2. /\ RemoveUnreachableItems[G] \in AnyGraph
        /\ RemoveUnreachableItems[G].root = g.root
        /\ IsComplete(RemoveUnreachableItems[G])
        /\ RemoveUnreachableItems[RemoveUnreachableItems[G]] = RemoveUnreachableItems[G]
    BY <1>13, ReducedGraph
  <2>3. Own(N)' = RemoveUnreachableItems[G]
    BY <1>5, <1>13, <1>15, <2>1, <2>2, AnyGraphEquality
  <2>4. Whole(N)' = Own(N)'
    BY <1>7, <1>16 DEF Whole
  <2>5. IsComplete(Whole(N)') /\ ReadBack(N)' = RemoveUnreachableItems[G]
    BY <1>15, <2>2, <2>3, <2>4
  <2> QED
    BY <1>4, <1>5, <1>6, <1>7, <1>9, <1>10, <1>11, <1>14, <2>5 DEF Written
<1>17. CASE n.deltabase # N
  <2>1. n.contents = g.items /\ q \in DOMAIN commits
    <3>1. n.contents = g.items
      BY <1>2, <1>3, <1>17 DEF NewRow
    <3>2. n.parent \in DOMAIN commits
      BY <1>1, <1>2, <1>3, <1>4, <1>17, NewRowType
    <3> QED
      BY <1>14, <3>1, <3>2
  <2>2. Own(N)' = g
    BY <1>5, <1>8, <1>15, <2>1, AnyGraphEquality
  <2>3. ReadBack(q)' = ReadBack(q) /\ ReadBack(q) \in AnyGraph
    BY <1>1, <1>9, <2>1, RowGraphs
  <2>4. Whole(N)' = AddItemGraph(ReadBack(q)', Own(N)')
    BY <1>7, <1>14, <1>17 DEF Whole, ReadBack
  <2>5. G = AddItemGraph(ReadBack(q), g)
    BY <1>10, <1>11, <2>1 DEF CombinedGraph, ItemsBefore, AddItemGraph
  <2>6. IsComplete(Whole(N)') /\ ReadBack(N)' = RemoveUnreachableItems[G]
    BY <1>13, <1>15, <2>2, <2>3, <2>4, <2>5
  <2> QED
    BY <1>4, <1>5, <1>6, <1>7, <1>9, <1>10, <1>11, <1>14, <2>6 DEF Written
<1> QED
  BY <1>16, <1>17

(* What leaves the table alone leaves its revisions as they read back.     *)
LEMMA TableUnchangedKeeps ==
  ASSUME StoredGraphsInv, BackingStoreInv', UNCHANGED <<commits, metadata>>
  PROVE  \A r \in DOMAIN commits : IsComplete(Whole(r)') /\ ReadBack(r)' = ReadBack(r)
<1>1. BackingStoreInv /\ StoredGraphsComplete
  BY DEF StoredGraphsInv
<1>2. \A r \in DOMAIN commits : commits[r].deltabase = r =>
        IsComplete(Own(r)') /\ RemoveUnreachableItems[Own(r)'] = ReadBack(r)
  BY KeptSnapshot
<1>3. \A r \in DOMAIN commits : commits[r].deltabase # r =>
        commits[r].parent \in DOMAIN commits
  BY <1>1, RowNumbers
<1>4. PICK W \in SUBSET DOMAIN commits : W = DOMAIN commits
  OBVIOUS
<1>5. \A r \in W :
        \/ /\ commits'[r].deltabase = r
           /\ IsComplete(Own(r)')
           /\ RemoveUnreachableItems[Own(r)'] = ReadBack(r)
        \/ /\ commits'[r].deltabase # r /\ commits[r].deltabase # r
           /\ commits'[r].parent = commits[r].parent
           /\ commits'[r].contents = commits[r].contents
           /\ commits[r].parent \in W
  BY <1>2, <1>3, <1>4
<1>6. \A r \in W : IsComplete(Whole(r)') /\ ReadBack(r)' = ReadBack(r)
  BY <1>1, <1>4, <1>5, KeptRowsReadBack
<1> QED
  BY <1>4, <1>6

(* Every step keeps the stored graphs whole.                               *)
LEMMA StoredGraphsStep ==
  ASSUME StoredGraphsInv, BackingStoreInv', [Next]_vars
  PROVE  StoredGraphsComplete'
<1>1. ASSUME NEW p \in Revision \cup {NoRevision}, NEW g \in ItemGraphs,
             CoversChanges(p, g), NEW u \in Revision, WriteItemGraph(u, p, g)
      PROVE  StoredGraphsComplete'
  <2>1. PICK N : /\ DOMAIN commits' = DOMAIN commits \cup {N}
                 /\ \A r \in DOMAIN commits : IsComplete(Whole(r)')
                 /\ IsComplete(Whole(N)')
    BY <1>1, WriteItemGraphKeeps DEF Written
  <2>2. \A r \in DOMAIN commits' : IsComplete(Whole(r)')
    BY <2>1
  <2> QED
    BY <2>2, StoredGraphsAreWholeNext
<1>2. CASE RejectItemGraph \/ Reopen \/ UNCHANGED vars
  <2>1. UNCHANGED <<commits, metadata>>
    BY <1>2 DEF RejectItemGraph, Reopen, vars
  <2>2. \A r \in DOMAIN commits' : IsComplete(Whole(r)')
    BY <2>1, TableUnchangedKeeps
  <2> QED
    BY <2>2, StoredGraphsAreWholeNext
<1>3. ASSUME NEW R \in SUBSET Revids, MarkGarbage(R)
      PROVE  StoredGraphsComplete'
  BY <1>3, MarkGarbageKeeps, StoredGraphsAreWholeNext
<1>4. CASE RebuildRevid
  BY <1>4, RebuildRevidKeeps, StoredGraphsAreWholeNext
<1>5. CASE DeleteGarbage
  BY <1>5, DeleteGarbageKeeps, StoredGraphsAreWholeNext
<1>6. CASE ClearBackingStore
  <2>1. DOMAIN commits' = {}
    BY <1>6 DEF ClearBackingStore
  <2> QED
    BY <2>1, StoredGraphsAreWholeNext
<1> QED
  BY <1>1, <1>2, <1>3, <1>4, <1>5, <1>6 DEF Next

(* Whatever mix of deltas, snapshots, rebuilt and reused rows a backing    *)
(* store comes to hold, every revision in it is a complete graph.          *)
THEOREM StoredGraphsInvariant == Spec => []StoredGraphsInv
<1>1. Init => StoredGraphsInv
  <2> SUFFICES ASSUME Init
               PROVE  StoredGraphsInv
    OBVIOUS
  <2>1. DOMAIN commits = {}
    BY DEF Init
  <2> QED
    BY <2>1, InitInv DEF StoredGraphsInv, StoredGraphsComplete
<1>2. StoredGraphsInv /\ BackingStoreInv' /\ [Next]_vars => StoredGraphsInv'
  BY StoredGraphsStep DEF StoredGraphsInv
<1> QED
  BY <1>1, <1>2, BackingStoreInvariant, PTL DEF Spec

(* ... a delta with the reachable part of its parent, a snapshot alone.    *)
THEOREM StoredGraphsStayComplete == Spec => []StoredGraphsComplete
<1>1. StoredGraphsInv => StoredGraphsComplete
  BY DEF StoredGraphsInv
<1> QED
  BY <1>1, StoredGraphsInvariant, PTL

-----------------------------------------------------------------------------
(* Partial graphs *)

(* The partial graph to a revision, over the graph of the revision it is   *)
(* asked from, holds the whole graph of the revision if the same is true   *)
(* of its parent.                                                          *)
LEMMA PartialGraphHolds ==
  ASSUME StoredGraphsInv, NEW base \in DOMAIN commits, NEW r \in DOMAIN commits, r # base,
         commits[r].deltabase # r /\ commits[r].parent # base =>
           RemoveUnreachableItems[AddItemGraph(ItemGraphForRevid(base),
                                    PartialItemGraph(base, commits[r].parent))]
             = ReadBack(commits[r].parent)
  PROVE  RemoveUnreachableItems[AddItemGraph(ItemGraphForRevid(base), PartialItemGraph(base, r))]
           = ReadBack(r)
<1>1. BackingStoreInv /\ StoredGraphsComplete
  BY DEF StoredGraphsInv
<1>2. PICK f : f = ItemGraphForRevid(base)
  OBVIOUS
<1>3. PICK h : h = PartialItemGraph(base, r)
  OBVIOUS
<1>4. PICK X : X = AddItemGraph(f, h)
  OBVIOUS
<1>5. PICK own : own = commits[r].contents
  OBVIOUS
<1>6. /\ f \in AnyGraph /\ f.root = metadata
      /\ h \in AnyGraph /\ h.root = metadata
  BY <1>1, <1>2, <1>3, RowGraphs, ScanReads, RootIsMetadata
<1>7. /\ X \in AnyGraph /\ X.root = metadata
      /\ DOMAIN X.items = DOMAIN f.items \cup DOMAIN h.items
      /\ \A i \in DOMAIN f.items \cup DOMAIN h.items :
           X.items[i] = IF i \in DOMAIN h.items THEN h.items[i] ELSE f.items[i]
  BY <1>4, <1>6, OverlayHolds
<1>8. /\ Own(r) \in AnyGraph /\ Own(r).items = own
      /\ Whole(r) \in AnyGraph /\ Whole(r).root = metadata
      /\ IsComplete(Whole(r)) /\ ReadBack(r) = RemoveUnreachableItems[Whole(r)]
  BY <1>1, <1>5, RowGraphs, StoredGraphsAreWhole, ReadBackIsWhole
<1>9. ASSUME NEW q \in DOMAIN commits, q = commits[r].parent, commits[r].deltabase # r
      PROVE  /\ ReadBack(q) \in AnyGraph
             /\ DOMAIN Whole(r).items = DOMAIN ReadBack(q).items \cup DOMAIN own
             /\ \A i \in DOMAIN ReadBack(q).items \cup DOMAIN own :
                  Whole(r).items[i] = IF i \in DOMAIN own THEN own[i] ELSE ReadBack(q).items[i]
             /\ \A i \in DOMAIN ReadBack(q).items :
                  /\ i \in DOMAIN ItemGraphForRevid(q).items
                  /\ ItemGraphForRevid(q).items[i] = ReadBack(q).items[i]
  <2>1. ReadBack(q) \in AnyGraph /\ ItemGraphForRevid(q) \in AnyGraph
    BY <1>1, RowGraphs
  <2>2. Whole(r) = AddItemGraph(ReadBack(q), Own(r))
    BY <1>9 DEF Whole
  <2>3. Holds(ItemGraphForRevid(q), ReadBack(q))
    BY <2>1, ReducedGraph DEF ReadBack
  <2> QED
    BY <1>8, <2>1, <2>2, <2>3, OverlayHolds DEF Holds
<1>10. Holds(X, Whole(r))
  <2>1. CASE commits[r].deltabase = r
    <3>1. h.items = own
      BY <1>1, <1>3, <1>5, <2>1, ReadAlone
    <3>2. Whole(r).items = own
      BY <1>8, <2>1 DEF Whole
    <3> QED
      BY <1>7, <1>8, <3>1, <3>2 DEF Holds
  <2>2. CASE commits[r].deltabase # r /\ commits[r].parent = base
    <3>1. h.items = own
      BY <1>1, <1>3, <1>5, <2>2, ReadAlone
    <3> QED
      BY <1>2, <1>7, <1>8, <1>9, <2>2, <3>1 DEF Holds
  <2>3. CASE commits[r].deltabase # r /\ commits[r].parent # base
    <3>1. PICK p \in DOMAIN commits : p = commits[r].parent
      BY <1>1, <2>3, RowNumbers
    <3>2. CASE commits[p].deltabase = commits[r].deltabase
      <4>1. PICK below : below = PartialItemGraph(base, p)
        OBVIOUS
      <4>2. PICK Y : Y = AddItemGraph(f, below)
        OBVIOUS
      <4>3. /\ DOMAIN h.items = DOMAIN own \cup DOMAIN below.items
            /\ \A i \in DOMAIN h.items :
                 h.items[i] = IF i \in DOMAIN own THEN own[i] ELSE below.items[i]
        BY <1>1, <1>3, <1>5, <2>3, <3>1, <3>2, <4>1, ReadOverParent
      <4>4. below \in AnyGraph
        BY <1>1, <4>1, ScanReads
      <4>5. /\ Y \in AnyGraph
            /\ DOMAIN Y.items = DOMAIN f.items \cup DOMAIN below.items
            /\ \A i \in DOMAIN f.items \cup DOMAIN below.items :
                 Y.items[i] = IF i \in DOMAIN below.items THEN below.items[i] ELSE f.items[i]
        BY <1>6, <4>2, <4>4, OverlayHolds
      <4>6. RemoveUnreachableItems[Y] = ReadBack(p)
        BY <1>2, <2>3, <3>1, <4>1, <4>2
      <4>7. Holds(Y, ReadBack(p))
        BY <4>5, <4>6, ReducedGraph
      <4>8. /\ DOMAIN Whole(r).items = DOMAIN ReadBack(p).items \cup DOMAIN own
            /\ \A i \in DOMAIN ReadBack(p).items \cup DOMAIN own :
                 Whole(r).items[i] = IF i \in DOMAIN own THEN own[i] ELSE ReadBack(p).items[i]
        BY <1>9, <2>3, <3>1
      <4> QED
        BY <1>7, <1>8, <4>3, <4>5, <4>7, <4>8 DEF Holds
    <3>3. CASE commits[p].deltabase = p
      <4>1. \A i \in DOMAIN own \cup DOMAIN commits[p].contents :
              /\ i \in DOMAIN h.items
              /\ h.items[i] = IF i \in DOMAIN own THEN own[i] ELSE commits[p].contents[i]
        BY <1>1, <1>3, <1>5, <2>3, <3>1, ReadHoldsParent
      <4>2. ItemGraphForRevid(p).items = commits[p].contents
        BY <1>1, <3>3, ReadAlone DEF ItemGraphForRevid
      <4>3. /\ DOMAIN Whole(r).items = DOMAIN ReadBack(p).items \cup DOMAIN own
            /\ \A i \in DOMAIN ReadBack(p).items \cup DOMAIN own :
                 Whole(r).items[i] = IF i \in DOMAIN own THEN own[i] ELSE ReadBack(p).items[i]
            /\ \A i \in DOMAIN ReadBack(p).items :
                 /\ i \in DOMAIN commits[p].contents
                 /\ commits[p].contents[i] = ReadBack(p).items[i]
        BY <1>9, <2>3, <3>1, <4>2
      <4> QED
        BY <1>7, <1>8, <4>1, <4>3 DEF Holds
    <3>4. commits[p].deltabase \in {commits[r].deltabase, p}
      BY <1>1, <2>3, <3>1, RowNumbers
    <3> QED
      BY <3>2, <3>3, <3>4
  <2> QED
    BY <2>1, <2>2, <2>3
<1>11. RemoveUnreachableItems[X] = RemoveUnreachableItems[Whole(r)]
  BY <1>7, <1>8, <1>10, CompleteGraphHeld
<1> QED
  BY <1>2, <1>3, <1>4, <1>8, <1>11

(* ... so it does for every revision, along its delta run.                 *)
LEMMA PartialGraphReadBack ==
  ASSUME StoredGraphsInv, NEW base \in DOMAIN commits
  PROVE  \A r \in DOMAIN commits \ {base} :
           RemoveUnreachableItems[AddItemGraph(ItemGraphForRevid(base), PartialItemGraph(base, r))]
             = ReadBack(r)
<1> DEFINE Right(r) ==
             RemoveUnreachableItems[AddItemGraph(ItemGraphForRevid(base), PartialItemGraph(base, r))]
               = ReadBack(r)
           Wrong == {r \in DOMAIN commits \ {base} : ~ Right(r)}
<1>1. SUFFICES ASSUME Wrong # {}
               PROVE  FALSE
  OBVIOUS
<1>2. BackingStoreInv
  BY DEF StoredGraphsInv
<1>3. PICK r \in Wrong : \A q \in Wrong : ~ (q < r)
  <2>1. Wrong \in SUBSET DOMAIN commits
    OBVIOUS
  <2> HIDE DEF Wrong
  <2> QED
    BY <1>1, <1>2, <2>1, LeastRow
<1>4. r \in DOMAIN commits /\ r # base /\ ~ Right(r)
  OBVIOUS
<1>5. ASSUME commits[r].deltabase # r, commits[r].parent # base
      PROVE  Right(commits[r].parent)
  <2>1. commits[r].parent \in DOMAIN commits /\ commits[r].parent < r
    BY <1>2, <1>4, <1>5, RowNumbers
  <2> HIDE DEF Right
  <2> QED
    BY <1>3, <1>5, <2>1
<1> QED
  BY <1>4, <1>5, PartialGraphHolds

(* A client that holds one revision and is sent the delta to another has   *)
(* the other one: what the server leaves out of the delta is either in the *)
(* client's graph or not reachable.                                        *)
THEOREM PartialGraphsAlwaysSuffice == Spec => []PartialGraphsSuffice
<1>1. ASSUME StoredGraphsInv
      PROVE  PartialGraphsSuffice
  BY <1>1, PartialGraphReadBack DEF PartialGraphsSuffice, ReadBack
<1> QED
  BY <1>1, StoredGraphsInvariant, PTL

-----------------------------------------------------------------------------
(* The refinement mapping *)

MappingReadsRows ==
  BackingStoreInv =>
    /\ DOMAIN StoredGraph = UUIDs /\ StoredGraph = [u \in UUIDs |-> StoredGraph[u]]
    /\ DOMAIN StoredParent = UUIDs /\ StoredParent = [u \in UUIDs |-> StoredParent[u]]
    /\ \A u : u \in UUIDs <=> \E r \in DOMAIN commits : commits[r].uuid = u
    /\ UUIDs \subseteq Revision
    /\ \A r \in DOMAIN commits :
         /\ StoredGraph[commits[r].uuid] = ReadBack(r).items
         /\ StoredParent[commits[r].uuid] = RevisionUUIDForRevid(commits[r].parent)

(* The abstract graph and parent of a revision are what its row reads back *)
(* as and the revision of its parent's row.                                *)
LEMMA MappingReadsRowsNow == MappingReadsRows
<1> SUFFICES ASSUME BackingStoreInv
             PROVE  MappingReadsRows
  BY DEF MappingReadsRows
<1>1. TypeOK /\ UUIDsUnique
  BY DEF BackingStoreInv
<1>2. \A u : u \in UUIDs <=> \E r \in DOMAIN commits : commits[r].uuid = u
  BY DEF UUIDs
<1>3. UUIDs \subseteq Revision
  BY RowNumbers DEF UUIDs, Row
<1>4. ASSUME NEW r \in DOMAIN commits
      PROVE  /\ RevidForUUID(commits[r].uuid) = r
             /\ commits[r].uuid \in UUIDs
  <2>1. commits[r].uuid \in UUIDs
    BY <1>2
  <2> QED
    BY <1>1, <2>1, RevidForUUIDIsRow DEF UUIDsUnique, RevidForUUID
<1>5. /\ DOMAIN StoredGraph = UUIDs /\ StoredGraph = [u \in UUIDs |-> StoredGraph[u]]
      /\ DOMAIN StoredParent = UUIDs /\ StoredParent = [u \in UUIDs |-> StoredParent[u]]
  BY DEF StoredGraph, StoredParent
<1>6. \A r \in DOMAIN commits :
         /\ StoredGraph[commits[r].uuid] = ReadBack(r).items
         /\ StoredParent[commits[r].uuid] = RevisionUUIDForRevid(commits[r].parent)
  BY <1>4 DEF StoredGraph, StoredParent, ReadBack
<1> QED
  BY <1>2, <1>3, <1>5, <1>6 DEF MappingReadsRows

(* ... in the state after a step, too.                                     *)
LEMMA MappingReadsRowsNext == MappingReadsRows'
BY MappingReadsRowsNow, PTL

(* A step after which every row reads back as before is no abstract step.  *)
LEMMA KeptRowsStutter ==
  ASSUME BackingStoreInv, BackingStoreInv', metadata' = metadata,
         DOMAIN commits' = DOMAIN commits,
         \A r \in DOMAIN commits :
           /\ ReadBack(r)' = ReadBack(r)
           /\ commits'[r].uuid = commits[r].uuid
           /\ commits'[r].parent = commits[r].parent
  PROVE  UNCHANGED <<StoredGraph, StoredParent, metadata>>
<1>1. /\ DOMAIN StoredGraph = UUIDs /\ StoredGraph = [u \in UUIDs |-> StoredGraph[u]]
      /\ DOMAIN StoredParent = UUIDs /\ StoredParent = [u \in UUIDs |-> StoredParent[u]]
      /\ \A u : u \in UUIDs <=> \E r \in DOMAIN commits : commits[r].uuid = u
      /\ \A r \in DOMAIN commits :
           /\ StoredGraph[commits[r].uuid] = ReadBack(r).items
           /\ StoredParent[commits[r].uuid] = RevisionUUIDForRevid(commits[r].parent)
  BY MappingReadsRowsNow DEF MappingReadsRows
<1>2. /\ DOMAIN StoredGraph' = UUIDs' /\ StoredGraph' = [u \in UUIDs' |-> StoredGraph'[u]]
      /\ DOMAIN StoredParent' = UUIDs' /\ StoredParent' = [u \in UUIDs' |-> StoredParent'[u]]
      /\ \A u : u \in UUIDs' <=> \E r \in DOMAIN commits' : commits'[r].uuid = u
      /\ \A r \in DOMAIN commits' :
           /\ StoredGraph'[commits'[r].uuid] = ReadBack(r)'.items
           /\ StoredParent'[commits'[r].uuid] = RevisionUUIDForRevid(commits[r].parent)'
  BY MappingReadsRowsNext DEF MappingReadsRows, RevisionUUIDForRevid
<1>3. UUIDs' = UUIDs
  BY <1>1, <1>2
<1>4. \A r \in DOMAIN commits :
        RevisionUUIDForRevid(commits[r].parent)' = RevisionUUIDForRevid(commits[r].parent)
  BY DEF RevisionUUIDForRevid
<1>5. \A u \in UUIDs : StoredGraph'[u] = StoredGraph[u] /\ StoredParent'[u] = StoredParent[u]
  BY <1>1, <1>2, <1>4
<1>6. StoredGraph' = StoredGraph
  BY <1>1, <1>2, <1>3, <1>5
<1>7. StoredParent' = StoredParent
  BY <1>1, <1>2, <1>3, <1>5
<1> QED
  BY <1>6, <1>7

(* RevisionStore reduces and combines graphs as the store does.            *)
LEMMA SameGraphs ==
  /\ RS!RemoveUnreachableItems = RemoveUnreachableItems
  /\ RS!ItemGraphs = ItemGraphs
  /\ \A g, h : RS!AddItemGraph(g, h) = AddItemGraph(g, h)
<1>1. RS!Items = Items
  BY DEF RS!Items, Items
<1>2. \A g, S : RS!IsClosed(S, g) = IsClosed(S, g)
  BY DEF RS!IsClosed, IsClosed
<1>3. \A g : RS!Reachable(g) = Reachable(g)
  BY <1>2 DEF RS!Reachable, Reachable
<1>4. RS!RemoveUnreachableItems = RemoveUnreachableItems
  BY <1>1, <1>3, Zenon DEF RS!RemoveUnreachableItems, RemoveUnreachableItems
<1> QED
  BY <1>1, <1>4 DEF RS!ItemGraphs, ItemGraphs, RS!AddItemGraph, AddItemGraph

(* What the abstract write combines with is what the store read back.      *)
LEMMA SameCombined ==
  ASSUME BackingStoreInv, NEW p, NEW g
  PROVE  RS!Combined(p, g) = RemoveUnreachableItems[CombinedGraph(p, g)]
<1>1. DOMAIN StoredGraph = UUIDs
  BY MappingReadsRowsNow DEF MappingReadsRows
<1>2. RS!ParentItems(p) = ItemsBefore(p)
  <2>1. CASE p \in UUIDs
    <3>1. RevidForUUID(p) \in DOMAIN commits /\ commits[RevidForUUID(p)].uuid = p
      BY <2>1 DEF RevidForUUID, UUIDs
    <3>2. StoredGraph[p] = ReadBack(RevidForUUID(p)).items
      BY <3>1, MappingReadsRowsNow DEF MappingReadsRows
    <3> QED
      BY <1>1, <2>1, <3>1, <3>2 DEF RS!ParentItems, ItemsBefore
  <2>2. CASE p \notin UUIDs
    <3>1. RevidForUUID(p) \notin DOMAIN commits
      <4>1. RevidForUUID(p) = -1
        BY <2>2 DEF RevidForUUID
      <4> QED
        BY <4>1, RowNumbers
    <3> QED
      BY <1>1, <2>2, <3>1 DEF RS!ParentItems, ItemsBefore
  <2> QED
    BY <2>1, <2>2
<1> QED
  BY <1>2, SameGraphs DEF RS!Combined, CombinedGraph

(* An accepted write is the abstract write.                                *)
LEMMA WriteItemGraphRefines ==
  ASSUME StoredGraphsInv, BackingStoreInv',
         NEW u \in Revision, NEW p \in Revision \cup {NoRevision}, NEW g \in ItemGraphs,
         CoversChanges(p, g), WriteItemGraph(u, p, g)
  PROVE  RS!Write(u, p)
<1>1. BackingStoreInv
  BY DEF StoredGraphsInv
<1>2. metadata \in {NoItem, g.root} /\ metadata' = g.root /\ u \notin UUIDs
  BY WriteItemGraphKeeps
<1>3. PICK N : /\ N \notin DOMAIN commits /\ DOMAIN commits' = DOMAIN commits \cup {N}
               /\ \A r \in DOMAIN commits : r < N
               /\ \A r \in DOMAIN commits :
                    ReadBack(r)' = ReadBack(r) /\ commits'[r] = commits[r]
               /\ commits'[N].uuid = u /\ commits'[N].parent = RevidForUUID(p)
               /\ ReadBack(N)' = RemoveUnreachableItems[CombinedGraph(p, g)]
  <2>1. PICK N : Written(u, p, g, N)
    BY WriteItemGraphKeeps
  <2> QED
    BY <2>1 DEF Written
<1>4. /\ DOMAIN StoredGraph = UUIDs /\ DOMAIN StoredParent = UUIDs
      /\ \A v : v \in UUIDs <=> \E r \in DOMAIN commits : commits[r].uuid = v
      /\ \A r \in DOMAIN commits :
           /\ StoredGraph[commits[r].uuid] = ReadBack(r).items
           /\ StoredParent[commits[r].uuid] = RevisionUUIDForRevid(commits[r].parent)
  BY <1>1, MappingReadsRowsNow DEF MappingReadsRows
<1>5. /\ StoredGraph' = [v \in UUIDs' |-> StoredGraph'[v]]
      /\ StoredParent' = [v \in UUIDs' |-> StoredParent'[v]]
      /\ \A v : v \in UUIDs' <=> \E r \in DOMAIN commits' : commits'[r].uuid = v
      /\ \A r \in DOMAIN commits' :
           /\ StoredGraph'[commits'[r].uuid] = ReadBack(r)'.items
           /\ StoredParent'[commits'[r].uuid] =
                IF commits'[r].parent \in DOMAIN commits'
                THEN commits'[commits'[r].parent].uuid ELSE NoRevision
  BY MappingReadsRowsNext DEF MappingReadsRows, RevisionUUIDForRevid
<1>6. UUIDs' = UUIDs \cup {u}
  BY <1>3, <1>4, <1>5
<1>7. \A v \in UUIDs : StoredGraph'[v] = StoredGraph[v]
  BY <1>3, <1>4, <1>5
<1>8. StoredGraph'[u] = RS!Combined(p, g).items
  BY <1>1, <1>3, <1>5, SameCombined
<1>9. StoredGraph' = [s \in DOMAIN StoredGraph \cup {u} |->
                        IF s = u THEN RS!Combined(p, g).items ELSE StoredGraph[s]]
  <2>1. \A v \in UUIDs \cup {u} :
          StoredGraph'[v] = IF v = u THEN RS!Combined(p, g).items ELSE StoredGraph[v]
    BY <1>7, <1>8
  <2> QED
    BY <1>4, <1>5, <1>6, <2>1
<1>10. ASSUME NEW r \in DOMAIN commits
       PROVE  StoredParent'[commits[r].uuid] = StoredParent[commits[r].uuid]
  <2>1. commits[r].parent < r /\ r < N /\ r \in Nat /\ commits[r].parent \in Int
    BY <1>1, <1>3, RowNumbers
  <2>2. commits[r].parent # N
    BY <2>1
  <2>3. commits[r].parent \in DOMAIN commits' <=> commits[r].parent \in DOMAIN commits
    BY <1>3, <2>2
  <2> QED
    BY <1>3, <1>4, <1>5, <2>3 DEF RevisionUUIDForRevid
<1>11. StoredParent'[u] = IF p \in UUIDs THEN p ELSE NoRevision
  <2>1. N \in DOMAIN commits' /\ N \in Nat
    BY <1>3, RowNumbersNext
  <2>2. CASE p \in UUIDs
    <3>1. RevidForUUID(p) \in DOMAIN commits /\ commits[RevidForUUID(p)].uuid = p
      BY <2>2 DEF RevidForUUID, UUIDs
    <3> QED
      BY <1>3, <1>5, <2>1, <2>2, <3>1
  <2>3. CASE p \notin UUIDs
    <3>1. RevidForUUID(p) = -1
      BY <2>3 DEF RevidForUUID
    <3>2. -1 \notin DOMAIN commits'
      BY <1>1, <1>3, <2>1, RowNumbers
    <3> QED
      BY <1>3, <1>5, <2>1, <2>3, <3>1, <3>2
  <2> QED
    BY <2>2, <2>3
<1>12. StoredParent' = [s \in DOMAIN StoredParent \cup {u} |->
                          IF s # u THEN StoredParent[s]
                          ELSE IF p \in DOMAIN StoredGraph THEN p ELSE NoRevision]
  <2>1. \A v \in UUIDs : StoredParent'[v] = StoredParent[v]
    BY <1>4, <1>10
  <2>2. \A v \in UUIDs \cup {u} :
          StoredParent'[v] = IF v # u THEN StoredParent[v]
                             ELSE IF p \in UUIDs THEN p ELSE NoRevision
    BY <1>11, <2>1
  <2> QED
    BY <1>4, <1>5, <1>6, <2>2
<1>13. g \in RS!ItemGraphs
  BY SameGraphs
<1> QED
  BY <1>2, <1>4, <1>9, <1>12, <1>13 DEF RS!Write

(* The last pass of -deleteRevids: is the abstract deletion.               *)
LEMMA DeleteGarbageRefines ==
  ASSUME StoredGraphsInv, BackingStoreInv', DeleteGarbage
  PROVE  \E R \in SUBSET DOMAIN StoredGraph : RS!Delete(R)
<1>1. BackingStoreInv /\ UUIDsUnique
  BY DEF StoredGraphsInv, BackingStoreInv
<1>2. /\ DOMAIN commits' = {r \in DOMAIN commits : ~commits[r].garbage}
      /\ \A r \in DOMAIN commits' : ReadBack(r)' = ReadBack(r) /\ commits'[r] = commits[r]
  BY DeleteGarbageKeeps
<1>3. metadata' = metadata
  BY DEF DeleteGarbage
<1>4. /\ DOMAIN StoredGraph = UUIDs /\ DOMAIN StoredParent = UUIDs
      /\ \A v : v \in UUIDs <=> \E r \in DOMAIN commits : commits[r].uuid = v
      /\ UUIDs \subseteq Revision
      /\ \A r \in DOMAIN commits :
           /\ StoredGraph[commits[r].uuid] = ReadBack(r).items
           /\ StoredParent[commits[r].uuid] = RevisionUUIDForRevid(commits[r].parent)
  BY <1>1, MappingReadsRowsNow DEF MappingReadsRows
<1>5. /\ StoredGraph' = [v \in UUIDs' |-> StoredGraph'[v]]
      /\ StoredParent' = [v \in UUIDs' |-> StoredParent'[v]]
      /\ \A v : v \in UUIDs' <=> \E r \in DOMAIN commits' : commits'[r].uuid = v
      /\ \A r \in DOMAIN commits' :
           /\ StoredGraph'[commits'[r].uuid] = ReadBack(r)'.items
           /\ StoredParent'[commits'[r].uuid] =
                IF commits'[r].parent \in DOMAIN commits'
                THEN commits'[commits'[r].parent].uuid ELSE NoRevision
  BY MappingReadsRowsNext DEF MappingReadsRows, RevisionUUIDForRevid
<1>6. PICK R : R = {commits[r].uuid : r \in {q \in DOMAIN commits : commits[q].garbage}}
  OBVIOUS
<1>7. \A r \in DOMAIN commits : commits[r].uuid \in R <=> r \notin DOMAIN commits'
  BY <1>1, <1>2, <1>6 DEF UUIDsUnique
<1>8. R \subseteq UUIDs
  BY <1>4, <1>6
<1>9. UUIDs' = UUIDs \ R
  <2>1. ASSUME NEW v \in UUIDs'
        PROVE  v \in UUIDs \ R
    BY <1>2, <1>4, <1>5, <1>7, <2>1
  <2>2. ASSUME NEW v \in UUIDs \ R
        PROVE  v \in UUIDs'
    BY <1>2, <1>4, <1>5, <1>7, <2>2
  <2> QED
    BY <2>1, <2>2
<1>10. \A v \in UUIDs' : StoredGraph'[v] = StoredGraph[v]
  BY <1>2, <1>4, <1>5
<1>11. ASSUME NEW r \in DOMAIN commits'
       PROVE  StoredParent'[commits[r].uuid] =
                IF StoredParent[commits[r].uuid] \in R THEN NoRevision
                ELSE StoredParent[commits[r].uuid]
  <2>1. r \in DOMAIN commits /\ commits'[r] = commits[r]
    BY <1>2
  <2>2. PICK q : q = commits[r].parent
    OBVIOUS
  <2>3. NoRevision \notin R
    BY <1>4, <1>8
  <2>4. /\ StoredParent[commits[r].uuid] = IF q \in DOMAIN commits THEN commits[q].uuid ELSE NoRevision
        /\ StoredParent'[commits[r].uuid] = IF q \in DOMAIN commits' THEN commits'[q].uuid ELSE NoRevision
    BY <1>4, <1>5, <2>1, <2>2 DEF RevisionUUIDForRevid
  <2> QED
    BY <1>2, <1>7, <2>3, <2>4
<1>12. \A v \in UUIDs' : StoredParent'[v] = IF StoredParent[v] \in R THEN NoRevision
                                           ELSE StoredParent[v]
  BY <1>2, <1>5, <1>11
<1>13. StoredGraph' = [s \in DOMAIN StoredGraph \ R |-> StoredGraph[s]]
  BY <1>4, <1>5, <1>9, <1>10
<1>14. StoredParent' = [s \in DOMAIN StoredParent \ R |->
                          IF StoredParent[s] \in R THEN NoRevision ELSE StoredParent[s]]
  BY <1>4, <1>5, <1>9, <1>12
<1>15. R \in SUBSET DOMAIN StoredGraph
  BY <1>4, <1>8
<1> QED
  BY <1>3, <1>13, <1>14, <1>15 DEF RS!Delete

(* An empty table maps to no revisions.                                    *)
LEMMA EmptyMapping ==
  ASSUME commits = << >>
  PROVE  StoredGraph = << >> /\ StoredParent = << >>
<1>1. DOMAIN commits = {}
  OBVIOUS
<1>2. UUIDs = {}
  BY <1>1 DEF UUIDs
<1> QED
  BY <1>2 DEF StoredGraph, StoredParent

EmptyTableMapsEmpty == commits = << >> => StoredGraph = << >> /\ StoredParent = << >>

(* ... neither before a step ...                                          *)
LEMMA EmptyTableMapsEmptyNow == EmptyTableMapsEmpty
BY EmptyMapping DEF EmptyTableMapsEmpty

(* ... nor after a step.                                                   *)
LEMMA EmptyMappingNext ==
  ASSUME commits' = << >>
  PROVE  StoredGraph' = << >> /\ StoredParent' = << >>
<1>1. EmptyTableMapsEmpty'
  BY EmptyTableMapsEmptyNow, PTL
<1> QED
  BY <1>1 DEF EmptyTableMapsEmpty

(* A backing store implements RevisionStore: a write, with all the choices *)
(* between delta and snapshot behind it, is one abstract write; a deletion *)
(* in three passes is one abstract deletion, at its last pass; no other    *)
(* step changes anything a reader of revisions could see.                  *)
THEOREM BackingStoreImplements == Spec => ImplementsRevisionStore
<1>1. Init => RS!Init
  BY EmptyMapping DEF Init, RS!Init
<1>2. ASSUME StoredGraphsInv, BackingStoreInv', [Next]_vars
      PROVE  [RS!Next]_(RS!abstractVars)
  <2>1. BackingStoreInv
    BY <1>2 DEF StoredGraphsInv
  <2>2. ASSUME NEW p \in Revision \cup {NoRevision}, NEW g \in ItemGraphs,
               CoversChanges(p, g), NEW u \in Revision, WriteItemGraph(u, p, g)
        PROVE  RS!Next
    <3>1. RS!Write(u, p)
      BY <1>2, <2>2, WriteItemGraphRefines
    <3> QED
      BY <3>1 DEF RS!Next
  <2>3. CASE RejectItemGraph \/ Reopen \/ UNCHANGED vars
    <3>1. UNCHANGED <<commits, metadata>>
      BY <2>3 DEF RejectItemGraph, Reopen, vars
    <3>2. \A r \in DOMAIN commits : ReadBack(r)' = ReadBack(r)
      BY <1>2, <3>1, TableUnchangedKeeps
    <3>3. UNCHANGED <<StoredGraph, StoredParent, metadata>>
      BY <1>2, <2>1, <3>1, <3>2, KeptRowsStutter
    <3> QED
      BY <3>3 DEF RS!abstractVars
  <2>4. ASSUME NEW R \in SUBSET Revids, MarkGarbage(R)
        PROVE  UNCHANGED RS!abstractVars
    <3>1. metadata' = metadata
      BY <2>4 DEF MarkGarbage
    <3>2. UNCHANGED <<StoredGraph, StoredParent, metadata>>
      BY <1>2, <2>1, <2>4, <3>1, MarkGarbageKeeps, KeptRowsStutter
    <3> QED
      BY <3>2 DEF RS!abstractVars
  <2>5. ASSUME RebuildRevid
        PROVE  UNCHANGED RS!abstractVars
    <3>1. metadata' = metadata
      BY <2>5 DEF RebuildRevid
    <3>2. UNCHANGED <<StoredGraph, StoredParent, metadata>>
      BY <1>2, <2>1, <2>5, <3>1, RebuildRevidKeeps, KeptRowsStutter
    <3> QED
      BY <3>2 DEF RS!abstractVars
  <2>6. ASSUME DeleteGarbage
        PROVE  RS!Next
    BY <1>2, <2>6, DeleteGarbageRefines DEF RS!Next
  <2>7. ASSUME ClearBackingStore
        PROVE  RS!Next
    <3>1. commits' = << >> /\ metadata' = NoItem
      BY <2>7 DEF ClearBackingStore
    <3>2. StoredGraph' = << >> /\ StoredParent' = << >>
      BY <3>1, EmptyMappingNext
    <3> QED
      BY <3>1, <3>2 DEF RS!Next, RS!Clear
  <2> QED
    BY <1>2, <2>2, <2>3, <2>4, <2>5, <2>6, <2>7 DEF Next
<1>3. StoredGraphsInv /\ BackingStoreInv' /\ [Next]_vars => [RS!Next]_(RS!abstractVars)
  BY <1>2
<1> QED
  BY <1>1, <1>3, StoredGraphsInvariant, BackingStoreInvariant, PTL
     DEF Spec, ImplementsRevisionStore, RS!Spec

USE GCIntervalAssumption

-----------------------------------------------------------------------------
(* Objects in memory *)

(* The store's root is the context's, once there is one. *)
RootIsContexts == metadata \in {NoItem, rootItemUUID}

ContextInv == ContextTypeOK /\ BackingStoreInv /\ RootIsContexts

(* What is in memory is an item graph, and so is its reachable part.       *)
LEMMA MemoryType ==
  ASSUME ContextTypeOK
  PROVE  /\ GraphInMemory \in AnyGraph
         /\ GraphInMemory.root = rootItemUUID /\ GraphInMemory.items = loadedObjects
         /\ RemoveUnreachableItems[GraphInMemory] \in AnyGraph
         /\ RemoveUnreachableItems[GraphInMemory].root = rootItemUUID
         /\ ReachableObjects = [i \in Reachable(GraphInMemory) |-> loadedObjects[i]]
         /\ Reachable(GraphInMemory) \subseteq DOMAIN loadedObjects
         /\ rootItemUUID \in Reachable(GraphInMemory)
<1>1. /\ GraphInMemory \in AnyGraph
      /\ GraphInMemory.root = rootItemUUID /\ GraphInMemory.items = loadedObjects
  BY DEF ContextTypeOK, GraphInMemory, AnyGraph
<1>2. rootItemUUID \in DOMAIN loadedObjects
  BY DEF ContextTypeOK
<1>3. ReachableObjects = [i \in Reachable(GraphInMemory) |-> loadedObjects[i]]
  BY <1>1, RemoveUnreachableItemsType DEF ReachableObjects
<1>4. RemoveUnreachableItems[GraphInMemory] \in AnyGraph
      /\ RemoveUnreachableItems[GraphInMemory].root = rootItemUUID
  BY <1>1, RemoveUnreachableItemsType
<1> QED
  BY <1>1, <1>2, <1>3, <1>4, ReachableIsClosed

(* What a commit leaves in memory, and what it writes.                     *)
LEMMA CommitType ==
  ASSUME ContextTypeOK
  PROVE  /\ ReachableObjects \in Items
         /\ ObjectsAtCommit \in Items
         /\ rootItemUUID \in DOMAIN ObjectsAtCommit
         /\ ModifiedItems \in ItemGraphs
         /\ ModifiedItems.root = rootItemUUID
<1>1. loadedObjects \in Items /\ rootItemUUID \in DOMAIN loadedObjects /\ rootItemUUID \in RootItem
  BY DEF ContextTypeOK
<1>2. ReachableObjects \in Items /\ rootItemUUID \in DOMAIN ReachableObjects
  BY MemoryType, AnyGraphFields DEF ReachableObjects
<1>3. ObjectsAtCommit \in Items /\ rootItemUUID \in DOMAIN ObjectsAtCommit
  BY <1>1, <1>2 DEF ObjectsAtCommit
<1>4. PICK S : /\ S \subseteq DOMAIN ObjectsAtCommit
               /\ ModifiedItems = [root  |-> rootItemUUID,
                                   items |-> [i \in S |-> ObjectsAtCommit[i]]]
  BY DEF ModifiedItems
<1>5. S \in SUBSET Item /\ [i \in S |-> ObjectsAtCommit[i]] \in [S -> Data]
  BY <1>3, <1>4, ItemsElim
<1>6. [i \in S |-> ObjectsAtCommit[i]] \in Items
  BY <1>5, ItemsIntro
<1> QED
  BY <1>1, <1>2, <1>3, <1>4, <1>6 DEF ItemGraphs

(* A reload puts the reachable part of the graph in memory.                *)
LEMMA ReloadType ==
  ASSUME NEW g \in AnyGraph, ReloadItemGraph(g)
  PROVE  /\ loadedObjects' \in Items
         /\ loadedObjects' = RemoveUnreachableItems[g].items
         /\ g.root \in DOMAIN loadedObjects' /\ g.root \in Item
         /\ insertedObjectUUIDs' = {} /\ updatedObjectUUIDs' = {}
         /\ rootItemUUID' = rootItemUUID
         /\ numberOfCommitsSinceLastGC' = numberOfCommitsSinceLastGC
<1>1. IsComplete(g) /\ loadedObjects' = RemoveUnreachableItems[g].items
  BY DEF ReloadItemGraph
<1>2. loadedObjects' \in Items
  BY <1>1, ReducedGraph, AnyGraphFields
<1>3. g.root \in DOMAIN loadedObjects'
  BY <1>1, ReducedGraph DEF IsComplete
<1>4. g.root \in Item
  BY <1>1, AnyGraphFields DEF IsComplete
<1> QED
  BY <1>1, <1>2, <1>3, <1>4 DEF ReloadItemGraph

ReadsAreGraphs ==
  BackingStoreInv => \A r : /\ ItemGraphForRevid(r) \in AnyGraph
                            /\ ItemGraphForRevid(r).root = metadata

(* Whatever is read is an item graph with the root of the store ...        *)
LEMMA ReadsAreGraphsNow == ReadsAreGraphs
<1> SUFFICES ASSUME BackingStoreInv, NEW r
             PROVE  ItemGraphForRevid(r) \in AnyGraph /\ ItemGraphForRevid(r).root = metadata
  BY DEF ReadsAreGraphs
<1>1. TypeOK
  BY DEF BackingStoreInv
<1>2. ItemGraphForRevid(r) \in AnyGraph
  BY <1>1, PartialItemGraphType DEF ItemGraphForRevid
<1> QED
  BY <1>2, RootIsMetadata DEF ItemGraphForRevid, PartialItemGraph

(* ... also after a step.                                                  *)
LEMMA ReadsAreGraphsNext ==
  ASSUME BackingStoreInv'
  PROVE  \A r : /\ ItemGraphForRevid(r)' \in AnyGraph
                /\ ItemGraphForRevid(r)'.root = metadata'
<1>1. ReadsAreGraphs'
  BY ReadsAreGraphsNow, PTL
<1> QED
  BY <1>1 DEF ReadsAreGraphs

-----------------------------------------------------------------------------
(* Types, for any interval between two collections *)

(* A new branch, with its root object in memory.                           *)
LEMMA ContextInitInv ==
  ASSUME ContextInit
  PROVE  ContextInv
<1>1. BackingStoreInv /\ TypeOK
  BY InitInv DEF ContextInit, BackingStoreInv
<1>2. PICK d \in Data : loadedObjects = [i \in {rootItemUUID} |-> d]
  BY DEF ContextInit
<1>3. {rootItemUUID} \in SUBSET Item /\ loadedObjects \in [{rootItemUUID} -> Data]
  BY <1>2 DEF ContextInit
<1>4. loadedObjects \in Items /\ DOMAIN loadedObjects = {rootItemUUID}
  BY <1>2, <1>3, ItemsIntro
<1>5. committed = << >> /\ DOMAIN << >> = {}
  BY DEF ContextInit
<1>6. 0 \in 0 .. GCInterval - 1
  OBVIOUS
<1> QED
  BY <1>1, <1>4, <1>5, <1>6 DEF ContextInit, Init, ContextInv, ContextTypeOK, RootIsContexts

(* An object is inserted or changed: the tables stay as they are.          *)
LEMMA EditTypes ==
  ASSUME ContextInv, NEW i \in Item, NEW d \in Data,
         InsertObject(i, d) \/ UpdateObject(i, d)
  PROVE  ContextInv'
<1>1. ContextTypeOK /\ loadedObjects \in Items /\ BackingStoreInv
  BY DEF ContextInv, ContextTypeOK
<1>2. /\ UNCHANGED vars /\ UNCHANGED rootItemUUID /\ UNCHANGED numberOfCommitsSinceLastGC
      /\ UNCHANGED currentRevision /\ UNCHANGED committed
  BY DEF InsertObject, UpdateObject
<1>3. /\ DOMAIN loadedObjects \in SUBSET Item
      /\ loadedObjects \in [DOMAIN loadedObjects -> Data]
  BY <1>1, ItemsElim
<1>4. /\ DOMAIN loadedObjects' = DOMAIN loadedObjects \cup {i}
      /\ loadedObjects' \in [DOMAIN loadedObjects \cup {i} -> Data]
  <2>1. CASE InsertObject(i, d)
    <3>1. loadedObjects' = [j \in DOMAIN loadedObjects \cup {i} |->
                              IF j = i THEN d ELSE loadedObjects[j]]
      BY <2>1 DEF InsertObject
    <3> QED
      BY <1>3, <3>1
  <2>2. CASE UpdateObject(i, d)
    <3>1. loadedObjects' = [loadedObjects EXCEPT ![i] = d] /\ i \in DOMAIN loadedObjects
      BY <2>2 DEF UpdateObject
    <3>2. DOMAIN loadedObjects \cup {i} = DOMAIN loadedObjects
      BY <3>1
    <3>3. loadedObjects' \in [DOMAIN loadedObjects -> Data]
      BY <1>3, <3>1
    <3>4. DOMAIN loadedObjects' = DOMAIN loadedObjects
      BY <3>1
    <3> QED
      BY <3>2, <3>3, <3>4
  <2> QED
    BY <2>1, <2>2
<1>5. loadedObjects' \in Items
  <2>1. DOMAIN loadedObjects \cup {i} \in SUBSET Item
    BY <1>3
  <2> QED
    BY <1>4, <2>1, ItemsIntro
<1>6. insertedObjectUUIDs' \cup updatedObjectUUIDs' \subseteq DOMAIN loadedObjects'
  BY <1>1, <1>4 DEF ContextTypeOK, InsertObject, UpdateObject
<1>7. BackingStoreInv'
  <2>1. UNCHANGED <<commits, metadata, rebuildRevids>> /\ rootObjectUUID' = rootObjectUUID
    BY <1>2 DEF vars
  <2> QED
    BY <1>1, <2>1, TableUnchangedInv
<1>8. TypeOK'
  BY <1>7 DEF BackingStoreInv
<1> QED
  BY <1>1, <1>2, <1>4, <1>5, <1>6, <1>7, <1>8 DEF ContextInv, ContextTypeOK, RootIsContexts, vars

(* A commit that writes.                                                   *)
LEMMA CommitTypes ==
  ASSUME ContextInv, NEW u \in Revision, Commit(u)
  PROVE  ContextInv'
<1>1. ContextTypeOK /\ BackingStoreInv /\ RootIsContexts
  BY DEF ContextInv
<1>2. /\ WriteItemGraph(u, currentRevision, ModifiedItems)
      /\ loadedObjects' = ObjectsAtCommit
      /\ numberOfCommitsSinceLastGC' = IF IsGCNeeded THEN 0
                                       ELSE numberOfCommitsSinceLastGC + 1
      /\ insertedObjectUUIDs' = {} /\ updatedObjectUUIDs' = {}
      /\ currentRevision' = u
      /\ committed' = [v \in DOMAIN committed \cup {u} |->
                         IF v = u THEN ReachableObjects ELSE committed[v]]
      /\ rootItemUUID' = rootItemUUID
  BY DEF Commit
<1>3. /\ ReachableObjects \in Items /\ ObjectsAtCommit \in Items
      /\ rootItemUUID \in DOMAIN ObjectsAtCommit
      /\ ModifiedItems \in ItemGraphs /\ ModifiedItems.root = rootItemUUID
  BY <1>1, CommitType
<1>4. BackingStoreInv'
  BY <1>1, <1>2, <1>3, WriteItemGraphInv DEF ContextTypeOK
<1>5. TypeOK'
  BY <1>4 DEF BackingStoreInv
<1>6. RootIsContexts'
  <2>1. metadata' = IF RootUUID = NoItem THEN ModifiedItems.root ELSE metadata
    BY <1>2 DEF WriteItemGraph
  <2> QED
    BY <1>1, <1>2, <1>3, <2>1 DEF RootIsContexts
<1>7. numberOfCommitsSinceLastGC' \in 0 .. GCInterval - 1
  BY <1>1, <1>2 DEF ContextTypeOK, IsGCNeeded
<1>8. DOMAIN committed' \subseteq Revision /\ \A v \in DOMAIN committed' : committed'[v] \in Items
  BY <1>1, <1>2, <1>3 DEF ContextTypeOK
<1> QED
  BY <1>1, <1>2, <1>3, <1>4, <1>5, <1>6, <1>7, <1>8 DEF ContextInv, ContextTypeOK

(* A commit that finds nothing to write.                                   *)
LEMMA CommitNothingTypes ==
  ASSUME ContextInv, CommitNothing
  PROVE  ContextInv'
<1>1. ContextTypeOK /\ BackingStoreInv /\ RootIsContexts
  BY DEF ContextInv
<1>2. /\ loadedObjects' = ObjectsAtCommit
      /\ numberOfCommitsSinceLastGC' = 0
      /\ insertedObjectUUIDs' = {} /\ updatedObjectUUIDs' = {}
      /\ UNCHANGED <<commits, metadata, rebuildRevids>> /\ rootObjectUUID' = rootObjectUUID
      /\ rootItemUUID' = rootItemUUID /\ currentRevision' = currentRevision
      /\ committed' = committed
  BY DEF CommitNothing, vars
<1>3. ObjectsAtCommit \in Items /\ rootItemUUID \in DOMAIN ObjectsAtCommit
  BY <1>1, CommitType
<1>4. BackingStoreInv'
  BY <1>1, <1>2, TableUnchangedInv
<1>5. TypeOK'
  BY <1>4 DEF BackingStoreInv
<1>6. 0 \in 0 .. GCInterval - 1
  OBVIOUS
<1> QED
  BY <1>1, <1>2, <1>3, <1>4, <1>5, <1>6 DEF ContextInv, ContextTypeOK, RootIsContexts

(* What a reload may load has the context's root.                          *)
LEMMA ReloadTypes ==
  ASSUME ContextInv, BackingStoreInv', NEW g \in AnyGraph, ReloadItemGraph(g), g.root = metadata,
         metadata' = metadata, committed' = committed,
         currentRevision' \in Revision \cup {NoRevision}
  PROVE  ContextInv'
<1>1. /\ loadedObjects' \in Items
      /\ g.root \in DOMAIN loadedObjects' /\ g.root \in Item
      /\ insertedObjectUUIDs' = {} /\ updatedObjectUUIDs' = {}
      /\ rootItemUUID' = rootItemUUID
      /\ numberOfCommitsSinceLastGC' = numberOfCommitsSinceLastGC
  BY ReloadType
<1>2. g.root = rootItemUUID
  BY <1>1 DEF ContextInv, RootIsContexts
<1>3. TypeOK'
  BY DEF BackingStoreInv
<1> QED
  BY <1>1, <1>2, <1>3 DEF ContextInv, ContextTypeOK, RootIsContexts

(* Undo, redo and revert.                                                  *)
LEMMA SetCurrentRevisionTypes ==
  ASSUME ContextInv, NEW u \in Revision, SetCurrentRevision(u)
  PROVE  ContextInv'
<1>1. BackingStoreInv /\ TypeOK
  BY DEF ContextInv, BackingStoreInv
<1>2. /\ ReloadItemGraph(ItemGraphForRevid(RevidForUUID(u)))
      /\ currentRevision' = u /\ rootObjectUUID' = RootUUID /\ committed' = committed
      /\ UNCHANGED <<commits, metadata, rebuildRevids>>
  BY DEF SetCurrentRevision
<1>3. PICK g : g = ItemGraphForRevid(RevidForUUID(u))
  OBVIOUS
<1>4. g \in AnyGraph /\ g.root = metadata
  BY <1>1, <1>3, ReadsAreGraphsNow DEF ReadsAreGraphs
<1>5. BackingStoreInv'
  BY <1>1, <1>2, TableUnchangedInv DEF RootUUID
<1> QED
  BY <1>2, <1>3, <1>4, <1>5, ReloadTypes

(* Compaction, until its end.                                              *)
LEMMA CompactionTypes ==
  ASSUME ContextInv, BackingStoreInv', UNCHANGED <<context, currentRevision, committed, metadata>>
  PROVE  ContextInv'
<1>1. TypeOK'
  BY DEF BackingStoreInv
<1> QED
  BY <1>1 DEF ContextInv, ContextTypeOK, RootIsContexts, context

(* The end of a compaction reloads the branch.                             *)
LEMMA FinishCompactionTypes ==
  ASSUME ContextInv, FinishCompaction
  PROVE  ContextInv'
<1>1. BackingStoreInv
  BY DEF ContextInv
<1>2. /\ DeleteGarbage /\ metadata' = metadata
      /\ currentRevision' = currentRevision /\ committed' = committed
      /\ ReloadItemGraph(ItemGraphForRevid(RevidForUUID(currentRevision))')
  BY DEF FinishCompaction, DeleteGarbage
<1>3. BackingStoreInv'
  BY <1>1, <1>2, DeleteGarbageInv
<1>4. PICK g : g = ItemGraphForRevid(RevidForUUID(currentRevision))'
  OBVIOUS
<1>5. g \in AnyGraph /\ g.root = metadata'
  BY <1>3, <1>4, ReadsAreGraphsNext
<1>6. currentRevision' \in Revision \cup {NoRevision}
  BY <1>2 DEF ContextInv, ContextTypeOK
<1> QED
  BY <1>2, <1>3, <1>4, <1>5, <1>6, ReloadTypes

(* Types hold throughout, however rarely unreachable objects are           *)
(* collected.                                                              *)
THEOREM ContextTypesCorrect == ContextSpec => []ContextInv
<1>1. ASSUME ContextInv, [ContextNext]_allVars
      PROVE  ContextInv'
  <2>1. BackingStoreInv
    BY <1>1 DEF ContextInv
  <2>2. CASE \E i \in Item, d \in Data : InsertObject(i, d) \/ UpdateObject(i, d)
    BY <1>1, <2>2, EditTypes
  <2>3. CASE \E u \in Revision : Commit(u)
    BY <1>1, <2>3, CommitTypes
  <2>4. CASE CommitNothing
    BY <1>1, <2>4, CommitNothingTypes
  <2>5. CASE \E u \in Revision : SetCurrentRevision(u)
    BY <1>1, <2>5, SetCurrentRevisionTypes
  <2>6. CASE \E R \in SUBSET Revids : BeginCompaction(R)
    <3>1. PICK R : BeginCompaction(R)
      BY <2>6
    <3>2. BackingStoreInv'
      BY <2>1, <3>1, MarkGarbageInv DEF BeginCompaction
    <3>3. UNCHANGED <<context, currentRevision, committed, metadata>>
      BY <3>1 DEF BeginCompaction, MarkGarbage
    <3> QED
      BY <1>1, <3>2, <3>3, CompactionTypes
  <2>7. CASE ContinueCompaction
    <3>1. BackingStoreInv'
      BY <2>1, <2>7, RebuildRevidInv DEF ContinueCompaction
    <3>2. UNCHANGED <<context, currentRevision, committed, metadata>>
      BY <2>7 DEF ContinueCompaction, RebuildRevid
    <3> QED
      BY <1>1, <3>1, <3>2, CompactionTypes
  <2>8. CASE FinishCompaction
    BY <1>1, <2>8, FinishCompactionTypes
  <2>9. CASE UNCHANGED allVars
    <3>1. /\ UNCHANGED <<commits, metadata, rebuildRevids>> /\ rootObjectUUID' = rootObjectUUID
          /\ UNCHANGED <<context, currentRevision, committed, metadata>>
      BY <2>9 DEF allVars, vars
    <3>2. BackingStoreInv'
      BY <2>1, <3>1, TableUnchangedInv
    <3> QED
      BY <1>1, <3>1, <3>2, CompactionTypes
  <2> QED
    BY <1>1, <2>2, <2>3, <2>4, <2>5, <2>6, <2>7, <2>8, <2>9 DEF ContextNext
<1> QED
  BY <1>1, ContextInitInv, PTL DEF ContextSpec

(* ... the types by themselves.                                            *)
THEOREM ContextTypes == ContextSpec => []ContextTypeOK
<1>1. ContextInv => ContextTypeOK
  BY DEF ContextInv
<1> QED
  BY <1>1, ContextTypesCorrect, PTL

-----------------------------------------------------------------------------
(* Change tracking, with a collection at every commit *)

(* No object in memory refers to one that is not. *)
MemoryResolved ==
  \A i \in DOMAIN loadedObjects : References[loadedObjects[i]] \subseteq DOMAIN loadedObjects

(* The branch is at a revision that is stored and stays, or has none yet   *)
(* and something to commit.                                                *)
CurrentRevisionStored ==
  IF currentRevision = NoRevision THEN commits = << >> /\ HasChanges
  ELSE \E r \in DOMAIN commits : commits[r].uuid = currentRevision /\ ~commits[r].garbage

(* Change tracking is exact: an object in memory that is not marked is in  *)
(* the current revision, in the state it has in memory.                    *)
UnmarkedObjectsAsStored ==
  currentRevision \in UUIDs =>
    \A i \in DOMAIN loadedObjects \ ChangedObjectUUIDs :
      /\ i \in DOMAIN StoredGraph[currentRevision]
      /\ StoredGraph[currentRevision][i] = loadedObjects[i]

TrackingInv ==
  /\ ContextInv
  /\ StoredGraphsComplete
  /\ MemoryResolved
  /\ CurrentRevisionStored
  /\ UnmarkedObjectsAsStored
  /\ UUIDs \subseteq DOMAIN committed
  /\ CommitsReadBack

(* The parts of the invariant that proofs start from.                      *)
LEMMA TrackingParts ==
  ASSUME TrackingInv
  PROVE  /\ ContextTypeOK /\ BackingStoreInv /\ RootIsContexts
         /\ StoredGraphsInv /\ StoredGraphsComplete
         /\ loadedObjects \in Items /\ rootItemUUID \in Item
BY DEF TrackingInv, ContextInv, StoredGraphsInv, ContextTypeOK

(* What is in memory is a complete graph, so it decides what is reachable  *)
(* in any graph that has its reachable objects.                            *)
LEMMA AgreesWithMemory ==
  ASSUME ContextTypeOK, MemoryResolved, NEW h \in AnyGraph, h.root = rootItemUUID,
         \A i \in Reachable(GraphInMemory) :
           i \in DOMAIN h.items /\ h.items[i] = loadedObjects[i]
  PROVE  RemoveUnreachableItems[h].items = ReachableObjects /\ IsComplete(h)
<1>1. /\ GraphInMemory \in AnyGraph
      /\ GraphInMemory.root = rootItemUUID /\ GraphInMemory.items = loadedObjects
      /\ Reachable(GraphInMemory) \subseteq DOMAIN loadedObjects
      /\ rootItemUUID \in Reachable(GraphInMemory)
  BY MemoryType
<1>2. IsComplete(GraphInMemory)
  BY <1>1 DEF IsComplete, MemoryResolved
<1>3. /\ RemoveUnreachableItems[h] = RemoveUnreachableItems[GraphInMemory]
      /\ IsComplete(h)
  BY <1>1, <1>2, CompleteGraphDecides
<1> QED
  BY <1>3 DEF ReachableObjects

(* What a complete graph keeps has no reference it cannot resolve.         *)
LEMMA ReducedIsResolved ==
  ASSUME NEW g \in AnyGraph, IsComplete(g)
  PROVE  \A i \in DOMAIN RemoveUnreachableItems[g].items :
           References[RemoveUnreachableItems[g].items[i]]
             \subseteq DOMAIN RemoveUnreachableItems[g].items
<1>1. /\ RemoveUnreachableItems[g].items = [i \in Reachable(g) |-> g.items[i]]
      /\ Reachable(g) \subseteq DOMAIN g.items
      /\ IsClosed(Reachable(g), g)
  BY RemoveUnreachableItemsType, ReachableIsClosed
<1> QED
  BY <1>1 DEF IsComplete, IsClosed

(* So the reachable objects have none either.                              *)
LEMMA ReachableIsResolved ==
  ASSUME ContextTypeOK, MemoryResolved
  PROVE  \A i \in DOMAIN ReachableObjects :
           References[ReachableObjects[i]] \subseteq DOMAIN ReachableObjects
<1>1. /\ GraphInMemory \in AnyGraph
      /\ GraphInMemory.root = rootItemUUID /\ GraphInMemory.items = loadedObjects
      /\ Reachable(GraphInMemory) \subseteq DOMAIN loadedObjects
      /\ rootItemUUID \in Reachable(GraphInMemory)
  BY MemoryType
<1>2. IsComplete(GraphInMemory)
  BY <1>1 DEF IsComplete, MemoryResolved
<1> QED
  BY <1>1, <1>2, ReducedIsResolved DEF ReachableObjects

(* The current revision's row, and what it reads back as.                  *)
LEMMA CurrentRow ==
  ASSUME TrackingInv, currentRevision # NoRevision
  PROVE  \E r \in DOMAIN commits :
           /\ commits[r].uuid = currentRevision /\ ~commits[r].garbage
           /\ RevidForUUID(currentRevision) = r /\ currentRevision \in UUIDs
           /\ ReadBack(r) \in AnyGraph /\ ReadBack(r).root = rootItemUUID
           /\ metadata = rootItemUUID
           /\ StoredGraph[currentRevision] = ReadBack(r).items
           /\ RemoveUnreachableItems[ReadBack(r)] = ReadBack(r)
           /\ \A i \in DOMAIN loadedObjects \ ChangedObjectUUIDs :
                i \in DOMAIN ReadBack(r).items /\ ReadBack(r).items[i] = loadedObjects[i]
<1>1. BackingStoreInv /\ StoredGraphsInv /\ StoredGraphsComplete /\ UUIDsUnique /\ RootIsContexts
  BY TrackingParts DEF BackingStoreInv
<1>2. PICK r \in DOMAIN commits : commits[r].uuid = currentRevision /\ ~commits[r].garbage
  BY DEF TrackingInv, CurrentRevisionStored
<1>3. currentRevision \in UUIDs /\ RevidForUUID(currentRevision) = r
  BY <1>1, <1>2 DEF UUIDs, RevidForUUID, UUIDsUnique
<1>4. /\ ReadBack(r) \in AnyGraph /\ ReadBack(r).root = metadata
      /\ RemoveUnreachableItems[ReadBack(r)] = ReadBack(r)
  BY <1>1, <1>2, RowsReadBackNow, StoredGraphsAreWhole DEF RowsReadBack
<1>5. metadata = rootItemUUID
  BY <1>1, <1>2, RootOfRows DEF RootIsContexts
<1>6. StoredGraph[currentRevision] = ReadBack(r).items
  BY <1>1, <1>2, MappingReadsRowsNow DEF MappingReadsRows
<1> QED
  BY <1>2, <1>3, <1>4, <1>5, <1>6 DEF TrackingInv, UnmarkedObjectsAsStored

(* A context without changes shows its branch's current revision.          *)
LEMMA UnchangedIsCurrent ==
  ASSUME TrackingInv, ~HasChanges
  PROVE  ReachableObjects = StoredGraph[currentRevision]
<1>1. currentRevision # NoRevision
  BY DEF TrackingInv, CurrentRevisionStored
<1>2. PICK r \in DOMAIN commits :
           /\ ReadBack(r) \in AnyGraph /\ ReadBack(r).root = rootItemUUID
           /\ StoredGraph[currentRevision] = ReadBack(r).items
           /\ RemoveUnreachableItems[ReadBack(r)] = ReadBack(r)
           /\ \A i \in DOMAIN loadedObjects \ ChangedObjectUUIDs :
                i \in DOMAIN ReadBack(r).items /\ ReadBack(r).items[i] = loadedObjects[i]
  BY <1>1, CurrentRow
<1>3. ContextTypeOK /\ MemoryResolved /\ ChangedObjectUUIDs = {}
  BY TrackingParts DEF TrackingInv, HasChanges
<1>4. Reachable(GraphInMemory) \subseteq DOMAIN loadedObjects
  BY <1>3, MemoryType
<1>5. RemoveUnreachableItems[ReadBack(r)].items = ReachableObjects
  BY <1>2, <1>3, <1>4, AgreesWithMemory
<1> QED
  BY <1>2, <1>5

(* Every reachable object is either in what a commit writes or, unmarked,  *)
(* in the current revision.                                                *)
LEMMA ModifiedCoverReachable ==
  ASSUME TrackingInv, GCInterval = 1, NEW i \in Reachable(GraphInMemory)
  PROVE  /\ i \in DOMAIN ModifiedItems.items => ModifiedItems.items[i] = loadedObjects[i]
         /\ i \notin DOMAIN ModifiedItems.items =>
              /\ currentRevision # NoRevision
              /\ i \in DOMAIN loadedObjects \ ChangedObjectUUIDs
<1>1. ContextTypeOK
  BY TrackingParts
<1>2. IsGCNeeded
  BY <1>1 DEF ContextTypeOK, IsGCNeeded
<1>3. ReachableObjects = [j \in Reachable(GraphInMemory) |-> loadedObjects[j]]
      /\ Reachable(GraphInMemory) \subseteq DOMAIN loadedObjects
  BY <1>1, MemoryType
<1>4. ObjectsAtCommit = ReachableObjects
  BY <1>2 DEF ObjectsAtCommit
<1>5. CASE currentRevision = NoRevision
  <2>1. ModifiedItems.items = [j \in DOMAIN ObjectsAtCommit |-> ObjectsAtCommit[j]]
    BY <1>5 DEF ModifiedItems
  <2> QED
    BY <1>3, <1>4, <2>1
<1>6. CASE currentRevision # NoRevision
  <2>1. ModifiedItems.items =
          [j \in ChangedObjectUUIDs \cap DOMAIN ObjectsAtCommit |-> ObjectsAtCommit[j]]
    BY <1>6 DEF ModifiedItems
  <2> QED
    BY <1>3, <1>4, <1>6, <2>1
<1> QED
  BY <1>5, <1>6

(* So the delta covers the changes, and the store makes of it exactly what *)
(* was reachable in memory.                                                *)
LEMMA CommitCovers ==
  ASSUME TrackingInv, GCInterval = 1
  PROVE  /\ metadata \in {NoItem, ModifiedItems.root}
         /\ CoversChanges(currentRevision, ModifiedItems)
         /\ RemoveUnreachableItems[CombinedGraph(currentRevision, ModifiedItems)].items
              = ReachableObjects
<1>1. /\ ContextTypeOK /\ MemoryResolved /\ BackingStoreInv /\ RootIsContexts
      /\ StoredGraphsInv
  BY TrackingParts DEF TrackingInv
<1>2. PICK M : M = ModifiedItems
  OBVIOUS
<1>3. M \in AnyGraph /\ M \in ItemGraphs /\ M.root = rootItemUUID
  BY <1>1, <1>2, CommitType DEF ItemGraphs, AnyGraph
<1>4. metadata \in {NoItem, M.root}
  BY <1>1, <1>3 DEF RootIsContexts
<1>5. PICK old : old = [ItemGraphForRevid(RevidForUUID(currentRevision)) EXCEPT !.root = M.root]
  OBVIOUS
<1>6. old \in AnyGraph /\ old.root = rootItemUUID
      /\ old.items = ItemGraphForRevid(RevidForUUID(currentRevision)).items
  BY <1>1, <1>3, <1>5, ReadsAreGraphsNow DEF ReadsAreGraphs, AnyGraph
<1>7. RemoveUnreachableItems[old] \in AnyGraph
  BY <1>6, ReducedGraph
<1>8. PICK G : G = AddItemGraph(RemoveUnreachableItems[old], M)
  OBVIOUS
<1>9. /\ G \in AnyGraph /\ G.root = rootItemUUID
      /\ DOMAIN G.items = DOMAIN RemoveUnreachableItems[old].items \cup DOMAIN M.items
      /\ \A i \in DOMAIN RemoveUnreachableItems[old].items \cup DOMAIN M.items :
           G.items[i] = IF i \in DOMAIN M.items THEN M.items[i]
                        ELSE RemoveUnreachableItems[old].items[i]
  BY <1>3, <1>7, <1>8, OverlayHolds
<1>10. ASSUME NEW i \in Reachable(GraphInMemory), i \notin DOMAIN M.items
       PROVE  /\ i \in DOMAIN RemoveUnreachableItems[old].items
              /\ RemoveUnreachableItems[old].items[i] = loadedObjects[i]
              /\ i \in DOMAIN ItemsBefore(currentRevision)
              /\ ItemsBefore(currentRevision)[i] = loadedObjects[i]
  <2>1. currentRevision # NoRevision /\ i \in DOMAIN loadedObjects \ ChangedObjectUUIDs
    BY <1>2, <1>10, ModifiedCoverReachable
  <2>2. PICK r \in DOMAIN commits :
           /\ RevidForUUID(currentRevision) = r
           /\ metadata = rootItemUUID
           /\ \A j \in DOMAIN loadedObjects \ ChangedObjectUUIDs :
                j \in DOMAIN ReadBack(r).items /\ ReadBack(r).items[j] = loadedObjects[j]
    BY <2>1, CurrentRow
  <2>3. ItemGraphForRevid(r) \in AnyGraph /\ ItemGraphForRevid(r).root = rootItemUUID
    BY <1>1, <2>2, RowGraphs
  <2>4. old = ItemGraphForRevid(r)
    BY <1>6, <2>2, <2>3, AnyGraphEquality
  <2>5. RemoveUnreachableItems[old] = ReadBack(r)
    BY <2>4 DEF ReadBack
  <2>6. ItemsBefore(currentRevision) = ReadBack(r).items
    BY <2>2 DEF ItemsBefore
  <2> QED
    BY <2>1, <2>2, <2>5, <2>6
<1>11. \A i \in Reachable(GraphInMemory) : i \in DOMAIN M.items => M.items[i] = loadedObjects[i]
  BY <1>2, ModifiedCoverReachable
<1>12. IsComplete(G)
  <2>1. \A i \in Reachable(GraphInMemory) : i \in DOMAIN G.items /\ G.items[i] = loadedObjects[i]
    BY <1>9, <1>10, <1>11
  <2> QED
    BY <1>1, <1>9, <2>1, AgreesWithMemory
<1>13. CoversChanges(currentRevision, M)
  BY <1>5, <1>8, <1>12 DEF CoversChanges
<1>14. CombinedGraph(currentRevision, M) \in AnyGraph
       /\ CombinedGraph(currentRevision, M).root = rootItemUUID
  BY <1>1, <1>3, <1>4, <1>13, CombinedIsComplete
<1>15. \A i \in Reachable(GraphInMemory) :
         /\ i \in DOMAIN CombinedGraph(currentRevision, M).items
         /\ CombinedGraph(currentRevision, M).items[i] = loadedObjects[i]
  BY <1>10, <1>11 DEF CombinedGraph, AddItemGraph
<1>16. RemoveUnreachableItems[CombinedGraph(currentRevision, M)].items = ReachableObjects
  BY <1>1, <1>14, <1>15, AgreesWithMemory
<1> QED
  BY <1>2, <1>4, <1>13, <1>16

(* The invariant in terms of the rows: each is whole, reads back as what    *)
(* was committed, and if it is the branch's, as the unmarked objects.      *)
RowTracked(r) ==
  /\ IsComplete(Whole(r))
  /\ commits[r].uuid \in DOMAIN committed
  /\ committed[commits[r].uuid] = ReadBack(r).items
  /\ commits[r].uuid = currentRevision =>
       \A i \in DOMAIN loadedObjects \ ChangedObjectUUIDs :
         i \in DOMAIN ReadBack(r).items /\ ReadBack(r).items[i] = loadedObjects[i]

TrackedByRows ==
  ContextInv /\ MemoryResolved /\ CurrentRevisionStored =>
    (TrackingInv <=> \A r \in DOMAIN commits : RowTracked(r))

(* The two say the same ...                                                *)
LEMMA TrackedByRowsNow == TrackedByRows
<1> SUFFICES ASSUME ContextInv, MemoryResolved, CurrentRevisionStored
             PROVE  TrackingInv <=> \A r \in DOMAIN commits : RowTracked(r)
  BY DEF TrackedByRows
<1>1. BackingStoreInv
  BY DEF ContextInv
<1>2. /\ \A u : u \in UUIDs <=> \E r \in DOMAIN commits : commits[r].uuid = u
      /\ \A r \in DOMAIN commits : StoredGraph[commits[r].uuid] = ReadBack(r).items
  BY <1>1, MappingReadsRowsNow DEF MappingReadsRows
<1>3. ASSUME TrackingInv, NEW r \in DOMAIN commits
      PROVE  RowTracked(r)
  BY <1>2, <1>3, StoredGraphsAreWhole
  DEF TrackingInv, RowTracked, CommitsReadBack, UnmarkedObjectsAsStored
<1>4. ASSUME \A r \in DOMAIN commits : RowTracked(r)
      PROVE  TrackingInv
  <2>1. StoredGraphsComplete
    BY <1>4, StoredGraphsAreWhole DEF RowTracked
  <2>2. UUIDs \subseteq DOMAIN committed /\ CommitsReadBack
    BY <1>2, <1>4 DEF RowTracked, CommitsReadBack
  <2>3. UnmarkedObjectsAsStored
    BY <1>2, <1>4 DEF RowTracked, UnmarkedObjectsAsStored
  <2> QED
    BY <2>1, <2>2, <2>3 DEF TrackingInv
<1> QED
  BY <1>3, <1>4

(* ... after a step, too.                                                  *)
LEMMA TrackedByRowsNext == TrackedByRows'
BY TrackedByRowsNow, PTL

(* A step that makes no revision, and leaves what it keeps of the others   *)
(* as it was, leaves only the branch and its objects to look at.           *)
LEMMA KeptRowsTracked ==
  ASSUME TrackingInv, ContextInv', MemoryResolved', CurrentRevisionStored',
         committed' = committed, DOMAIN commits' \subseteq DOMAIN commits,
         \A r \in DOMAIN commits' :
           /\ IsComplete(Whole(r)') /\ ReadBack(r)' = ReadBack(r)
           /\ commits'[r].uuid = commits[r].uuid,
         \A r \in DOMAIN commits' : commits'[r].uuid = currentRevision' =>
           \A i \in DOMAIN loadedObjects' \ ChangedObjectUUIDs' :
             i \in DOMAIN ReadBack(r).items /\ ReadBack(r).items[i] = loadedObjects'[i]
  PROVE  TrackingInv'
<1>1. \A r \in DOMAIN commits : RowTracked(r)
  BY TrackedByRowsNow DEF TrackedByRows, TrackingInv
<1>2. ASSUME NEW r \in DOMAIN commits'
      PROVE  RowTracked(r)'
  BY <1>1, <1>2 DEF RowTracked
<1> QED
  BY <1>2, TrackedByRowsNext DEF TrackedByRows

(* A new branch has nothing stored.                                        *)
LEMMA ContextInitTracked ==
  ASSUME ContextInit
  PROVE  TrackingInv
<1>1. ContextInv
  BY ContextInitInv
<1>2. PICK d \in Data : /\ References[d] \subseteq {rootItemUUID}
                        /\ loadedObjects = [i \in {rootItemUUID} |-> d]
  BY DEF ContextInit
<1>3. MemoryResolved
  BY <1>2 DEF MemoryResolved
<1>4. commits = << >> /\ DOMAIN << >> = {}
  BY DEF ContextInit, Init
<1>5. CurrentRevisionStored
  BY <1>4 DEF ContextInit, CurrentRevisionStored, HasChanges, ChangedObjectUUIDs
<1> QED
  BY <1>1, <1>3, <1>4, <1>5, TrackedByRowsNow DEF TrackedByRows

(* Inserting or changing an object marks it.                               *)
LEMMA EditTracked ==
  ASSUME TrackingInv, NEW i \in Item, NEW d \in Data,
         InsertObject(i, d) \/ UpdateObject(i, d)
  PROVE  TrackingInv'
<1>1. ContextInv /\ StoredGraphsInv /\ loadedObjects \in Items
  BY TrackingParts DEF TrackingInv
<1>2. ContextInv'
  BY <1>1, EditTypes
<1>3. /\ commits' = commits /\ metadata' = metadata
      /\ currentRevision' = currentRevision /\ committed' = committed
  BY DEF InsertObject, UpdateObject, vars
<1>4. BackingStoreInv'
  BY <1>2 DEF ContextInv
<1>5. \A r \in DOMAIN commits : IsComplete(Whole(r)') /\ ReadBack(r)' = ReadBack(r)
  BY <1>1, <1>3, <1>4, TableUnchangedKeeps
<1>6. /\ DOMAIN loadedObjects' = DOMAIN loadedObjects \cup {i}
      /\ loadedObjects'[i] = d
      /\ \A j \in DOMAIN loadedObjects : j # i => loadedObjects'[j] = loadedObjects[j]
      /\ References[d] \subseteq DOMAIN loadedObjects \cup {i}
      /\ ChangedObjectUUIDs' = ChangedObjectUUIDs \cup {i}
  <2>1. CASE InsertObject(i, d)
    BY <2>1 DEF InsertObject, ChangedObjectUUIDs
  <2>2. CASE UpdateObject(i, d)
    <3>1. loadedObjects' = [loadedObjects EXCEPT ![i] = d] /\ i \in DOMAIN loadedObjects
          /\ References[d] \subseteq DOMAIN loadedObjects
      BY <2>2 DEF UpdateObject
    <3>2. ChangedObjectUUIDs' = ChangedObjectUUIDs \cup {i}
      BY <2>2 DEF UpdateObject, ChangedObjectUUIDs
    <3> QED
      BY <3>1, <3>2
  <2> QED
    BY <2>1, <2>2
<1>7. MemoryResolved'
  BY <1>6 DEF TrackingInv, MemoryResolved
<1>8. CurrentRevisionStored'
  BY <1>3, <1>6 DEF TrackingInv, CurrentRevisionStored, HasChanges
<1>9. \A r \in DOMAIN commits : RowTracked(r)
  BY TrackedByRowsNow DEF TrackedByRows, TrackingInv
<1>10. \A r \in DOMAIN commits' : commits'[r].uuid = currentRevision' =>
         \A j \in DOMAIN loadedObjects' \ ChangedObjectUUIDs' :
           j \in DOMAIN ReadBack(r).items /\ ReadBack(r).items[j] = loadedObjects'[j]
  BY <1>3, <1>6, <1>9 DEF RowTracked
<1> QED
  BY <1>2, <1>3, <1>5, <1>7, <1>8, <1>10, KeptRowsTracked

(* A commit stores what is reachable in memory.                            *)
LEMMA CommitTracked ==
  ASSUME TrackingInv, GCInterval = 1, NEW u \in Revision, Commit(u)
  PROVE  TrackingInv'
<1>1. /\ ContextInv /\ StoredGraphsInv /\ ContextTypeOK /\ MemoryResolved
      /\ currentRevision \in Revision \cup {NoRevision}
  BY TrackingParts DEF TrackingInv, ContextTypeOK
<1>2. ContextInv'
  BY <1>1, CommitTypes
<1>3. BackingStoreInv'
  BY <1>2 DEF ContextInv
<1>4. PICK M : M = ModifiedItems
  OBVIOUS
<1>5. /\ WriteItemGraph(u, currentRevision, M) /\ u \notin DOMAIN committed
      /\ loadedObjects' = ObjectsAtCommit
      /\ currentRevision' = u
      /\ committed' = [v \in DOMAIN committed \cup {u} |->
                         IF v = u THEN ReachableObjects ELSE committed[v]]
  BY <1>4 DEF Commit
<1>6. M \in ItemGraphs /\ CoversChanges(currentRevision, M)
      /\ RemoveUnreachableItems[CombinedGraph(currentRevision, M)].items = ReachableObjects
  BY <1>1, <1>4, CommitType, CommitCovers
<1>7. PICK N : Written(u, currentRevision, M, N)
  BY <1>1, <1>3, <1>5, <1>6, WriteItemGraphKeeps
<1>8. loadedObjects' = ReachableObjects
  <2>1. IsGCNeeded
    BY <1>1 DEF ContextTypeOK, IsGCNeeded
  <2> QED
    BY <1>5, <2>1 DEF ObjectsAtCommit
<1>9. MemoryResolved'
  BY <1>1, <1>8, ReachableIsResolved DEF MemoryResolved
<1>10. CurrentRevisionStored'
  <2>1. PICK n : n = NewRow(u, currentRevision, M)
    OBVIOUS
  <2>2. ~n.garbage /\ n.uuid = u
    BY <2>1 DEF NewRow
  <2>3. commits'[NextRowid] = n /\ NextRowid \in DOMAIN commits'
    BY <1>5, <2>1 DEF WriteItemGraph
  <2>4. u # NoRevision
    OBVIOUS
  <2> QED
    BY <1>5, <2>2, <2>3, <2>4 DEF CurrentRevisionStored
<1>11. \A r \in DOMAIN commits : RowTracked(r)
  BY TrackedByRowsNow DEF TrackedByRows, TrackingInv
<1>12. ASSUME NEW r \in DOMAIN commits'
       PROVE  RowTracked(r)'
  <2>1. CASE r \in DOMAIN commits
    <3>1. /\ IsComplete(Whole(r)') /\ ReadBack(r)' = ReadBack(r)
          /\ commits'[r].uuid = commits[r].uuid
      BY <1>7, <2>1 DEF Written
    <3>2. commits[r].uuid # u
      BY <1>5, <1>11, <2>1 DEF RowTracked
    <3> QED
      BY <1>5, <1>11, <2>1, <3>1, <3>2 DEF RowTracked
  <2>2. CASE r = N
    <3>1. IsComplete(Whole(r)') /\ commits'[r].uuid = u /\ ReadBack(r)'.items = ReachableObjects
      BY <1>6, <1>7, <2>2 DEF Written
    <3>2. committed'[u] = ReachableObjects /\ u \in DOMAIN committed'
      BY <1>5
    <3> QED
      BY <1>8, <3>1, <3>2 DEF RowTracked
  <2> QED
    BY <1>7, <1>12, <2>1, <2>2 DEF Written
<1> QED
  BY <1>2, <1>9, <1>10, <1>12, TrackedByRowsNext DEF TrackedByRows

(* A commit that finds all its changes unreachable is left with objects    *)
(* that are stored.                                                        *)
LEMMA CommitNothingTracked ==
  ASSUME TrackingInv, GCInterval = 1, CommitNothing
  PROVE  TrackingInv'
<1>1. ContextInv /\ StoredGraphsInv /\ ContextTypeOK /\ MemoryResolved
  BY TrackingParts DEF TrackingInv
<1>2. ContextInv'
  BY <1>1, CommitNothingTypes
<1>3. /\ DOMAIN ModifiedItems.items = {} /\ loadedObjects' = ObjectsAtCommit
      /\ commits' = commits /\ metadata' = metadata
      /\ currentRevision' = currentRevision /\ committed' = committed
  BY DEF CommitNothing, vars
<1>4. BackingStoreInv'
  BY <1>2 DEF ContextInv
<1>5. \A r \in DOMAIN commits : IsComplete(Whole(r)') /\ ReadBack(r)' = ReadBack(r)
  BY <1>1, <1>3, <1>4, TableUnchangedKeeps
<1>6. loadedObjects' = ReachableObjects
  <2>1. IsGCNeeded
    BY <1>1 DEF ContextTypeOK, IsGCNeeded
  <2> QED
    BY <1>3, <2>1 DEF ObjectsAtCommit
<1>7. MemoryResolved'
  BY <1>1, <1>6, ReachableIsResolved DEF MemoryResolved
<1>8. /\ ReachableObjects = [i \in Reachable(GraphInMemory) |-> loadedObjects[i]]
      /\ Reachable(GraphInMemory) \subseteq DOMAIN loadedObjects
      /\ rootItemUUID \in Reachable(GraphInMemory)
  BY <1>1, MemoryType
<1>9. \A i \in Reachable(GraphInMemory) :
        currentRevision # NoRevision /\ i \in DOMAIN loadedObjects \ ChangedObjectUUIDs
  BY <1>3, ModifiedCoverReachable
<1>10. CurrentRevisionStored'
  BY <1>3, <1>8, <1>9 DEF TrackingInv, CurrentRevisionStored
<1>11. \A r \in DOMAIN commits : RowTracked(r)
  BY TrackedByRowsNow DEF TrackedByRows, TrackingInv
<1>12. \A r \in DOMAIN commits' : commits'[r].uuid = currentRevision' =>
         \A i \in DOMAIN loadedObjects' \ ChangedObjectUUIDs' :
           i \in DOMAIN ReadBack(r).items /\ ReadBack(r).items[i] = loadedObjects'[i]
  BY <1>3, <1>6, <1>8, <1>9, <1>11 DEF RowTracked
<1> QED
  BY <1>2, <1>3, <1>5, <1>7, <1>10, <1>12, KeptRowsTracked


(* A reload: the objects in memory are those of the row read, unmarked.    *)
LEMMA ReloadTracked ==
  ASSUME NEW g \in AnyGraph, ReloadItemGraph(g)
  PROVE  /\ MemoryResolved'
         /\ loadedObjects' = RemoveUnreachableItems[g].items
         /\ ChangedObjectUUIDs' = {}
<1>1. IsComplete(g) /\ loadedObjects' = RemoveUnreachableItems[g].items
  BY DEF ReloadItemGraph
<1>2. MemoryResolved'
  BY <1>1, ReducedIsResolved DEF MemoryResolved
<1>3. ChangedObjectUUIDs' = {}
  BY DEF ReloadItemGraph, ChangedObjectUUIDs
<1> QED
  BY <1>1, <1>2, <1>3

(* Undo, redo and revert load a stored revision.                           *)
LEMMA SetCurrentRevisionTracked ==
  ASSUME TrackingInv, NEW u \in Revision, SetCurrentRevision(u)
  PROVE  TrackingInv'
<1>1. ContextInv /\ StoredGraphsInv /\ BackingStoreInv /\ TypeOK /\ UUIDsUnique
  BY TrackingParts DEF TrackingInv, BackingStoreInv
<1>2. ContextInv'
  BY <1>1, SetCurrentRevisionTypes
<1>3. /\ ~Deleting /\ u \in UUIDs
      /\ commits' = commits /\ metadata' = metadata
      /\ currentRevision' = u /\ committed' = committed
      /\ ReloadItemGraph(ItemGraphForRevid(RevidForUUID(u)))
  BY DEF SetCurrentRevision
<1>4. BackingStoreInv'
  BY <1>2 DEF ContextInv
<1>5. \A r \in DOMAIN commits : IsComplete(Whole(r)') /\ ReadBack(r)' = ReadBack(r)
  BY <1>1, <1>3, <1>4, TableUnchangedKeeps
<1>6. PICK k : k = RevidForUUID(u)
  OBVIOUS
<1>7. k \in DOMAIN commits /\ commits[k].uuid = u
  BY <1>1, <1>3, <1>6 DEF UUIDs, RevidForUUID, UUIDsUnique
<1>8. PICK g : g = ItemGraphForRevid(k)
  OBVIOUS
<1>9. g \in AnyGraph /\ ReloadItemGraph(g) /\ RemoveUnreachableItems[g] = ReadBack(k)
  BY <1>1, <1>3, <1>6, <1>7, <1>8, RowGraphs DEF ReadBack
<1>10. MemoryResolved' /\ loadedObjects' = ReadBack(k).items
  BY <1>9, ReloadTracked
<1>11. CurrentRevisionStored'
  <2>1. ~commits'[k].garbage /\ commits'[k].uuid = currentRevision' /\ k \in DOMAIN commits'
    BY <1>3, <1>7 DEF Deleting
  <2>2. u # NoRevision
    OBVIOUS
  <2> QED
    BY <1>3, <2>1, <2>2 DEF CurrentRevisionStored
<1>12. \A r \in DOMAIN commits' : commits'[r].uuid = currentRevision' =>
         \A i \in DOMAIN loadedObjects' \ ChangedObjectUUIDs' :
           i \in DOMAIN ReadBack(r).items /\ ReadBack(r).items[i] = loadedObjects'[i]
  BY <1>1, <1>3, <1>7, <1>10 DEF UUIDsUnique
<1> QED
  BY <1>2, <1>3, <1>5, <1>10, <1>11, <1>12, KeptRowsTracked

(* What compaction does before it deletes leaves the branch as it is.      *)
LEMMA CompactionTracked ==
  ASSUME TrackingInv, ContextInv', UNCHANGED <<context, currentRevision, committed>>,
         CurrentRevisionStored', DOMAIN commits' = DOMAIN commits,
         \A r \in DOMAIN commits :
           /\ IsComplete(Whole(r)') /\ ReadBack(r)' = ReadBack(r)
           /\ commits'[r].uuid = commits[r].uuid
  PROVE  TrackingInv'
<1>1. /\ loadedObjects' = loadedObjects /\ ChangedObjectUUIDs' = ChangedObjectUUIDs
      /\ currentRevision' = currentRevision /\ committed' = committed
  BY DEF context, ChangedObjectUUIDs
<1>2. MemoryResolved'
  BY <1>1 DEF TrackingInv, MemoryResolved
<1>3. \A r \in DOMAIN commits : RowTracked(r)
  BY TrackedByRowsNow DEF TrackedByRows, TrackingInv
<1>4. \A r \in DOMAIN commits' : commits'[r].uuid = currentRevision' =>
         \A i \in DOMAIN loadedObjects' \ ChangedObjectUUIDs' :
           i \in DOMAIN ReadBack(r).items /\ ReadBack(r).items[i] = loadedObjects'[i]
  BY <1>1, <1>3 DEF RowTracked
<1> QED
  BY <1>1, <1>2, <1>4, KeptRowsTracked

(* The revision of the branch is not among those to delete, ...            *)
LEMMA BeginCompactionTracked ==
  ASSUME TrackingInv, NEW R, BeginCompaction(R)
  PROVE  TrackingInv'
<1>1. ContextInv /\ StoredGraphsInv /\ BackingStoreInv
  BY TrackingParts DEF TrackingInv
<1>2. /\ MarkGarbage(R) /\ RevidForUUID(currentRevision) \notin R
      /\ UNCHANGED <<context, currentRevision, committed>>
  BY DEF BeginCompaction
<1>3. BackingStoreInv'
  BY <1>1, <1>2, MarkGarbageInv
<1>4. UNCHANGED <<context, currentRevision, committed, metadata>>
  BY <1>2 DEF MarkGarbage
<1>5. ContextInv'
  BY <1>1, <1>3, <1>4, CompactionTypes
<1>6. /\ DOMAIN commits' = DOMAIN commits
      /\ \A r \in DOMAIN commits :
           /\ IsComplete(Whole(r)') /\ ReadBack(r)' = ReadBack(r)
           /\ commits'[r].uuid = commits[r].uuid
  BY <1>1, <1>2, <1>3, MarkGarbageKeeps
<1>7. CurrentRevisionStored'
  <2>1. DOMAIN commits # {}
    BY <1>2 DEF MarkGarbage
  <2>2. commits # << >>
    <3>1. DOMAIN << >> = {}
      OBVIOUS
    <3> QED
      BY <2>1, <3>1
  <2>3. currentRevision # NoRevision
    BY <2>2 DEF TrackingInv, CurrentRevisionStored
  <2>4. PICK r \in DOMAIN commits : /\ commits[r].uuid = currentRevision /\ ~commits[r].garbage
                                    /\ RevidForUUID(currentRevision) = r
    BY <2>3, CurrentRow
  <2>5. commits'[r] = commits[r]
    BY <1>2, <2>4 DEF MarkGarbage
  <2> QED
    BY <1>2, <1>6, <2>3, <2>4, <2>5 DEF CurrentRevisionStored
<1> QED
  BY <1>2, <1>5, <1>6, <1>7, CompactionTracked

(* ... so it is there all along, ...                                       *)
LEMMA ContinueCompactionTracked ==
  ASSUME TrackingInv, ContinueCompaction
  PROVE  TrackingInv'
<1>1. ContextInv /\ StoredGraphsInv /\ BackingStoreInv
  BY TrackingParts DEF TrackingInv
<1>2. RebuildRevid /\ UNCHANGED <<context, currentRevision, committed>>
  BY DEF ContinueCompaction
<1>3. BackingStoreInv'
  BY <1>1, <1>2, RebuildRevidInv
<1>4. UNCHANGED <<context, currentRevision, committed, metadata>>
  BY <1>2 DEF RebuildRevid
<1>5. ContextInv'
  BY <1>1, <1>3, <1>4, CompactionTypes
<1>6. /\ DOMAIN commits' = DOMAIN commits
      /\ \A r \in DOMAIN commits :
           /\ IsComplete(Whole(r)') /\ ReadBack(r)' = ReadBack(r)
           /\ commits'[r].uuid = commits[r].uuid
  BY <1>1, <1>2, <1>3, RebuildRevidKeeps
<1>7. CurrentRevisionStored'
  <2>1. DOMAIN commits # {}
    BY <1>1, <1>2 DEF RebuildRevid, BackingStoreInv, TypeOK
  <2>2. commits # << >>
    <3>1. DOMAIN << >> = {}
      OBVIOUS
    <3> QED
      BY <2>1, <3>1
  <2>3. currentRevision # NoRevision
    BY <2>2 DEF TrackingInv, CurrentRevisionStored
  <2>4. PICK r \in DOMAIN commits : /\ commits[r].uuid = currentRevision /\ ~commits[r].garbage
    BY <2>3, CurrentRow
  <2>5. commits[r] \in Row
    BY <1>1, <2>4, RowNumbers
  <2>6. PICK k : k = LeastOf(rebuildRevids)
    OBVIOUS
  <2>7. PICK c : c = RemoveUnreachableItems[ItemGraphForRevid(k)].items
    OBVIOUS
  <2>8. commits' = [commits EXCEPT ![k].contents = c, ![k].deltabase = k]
    BY <1>2, <2>6, <2>7 DEF RebuildRevid
  <2>9. ~commits'[r].garbage
    BY <2>4, <2>5, <2>8 DEF Row
  <2> QED
    BY <1>2, <1>6, <2>3, <2>4, <2>9 DEF CurrentRevisionStored
<1> QED
  BY <1>2, <1>5, <1>6, <1>7, CompactionTracked

(* ... and is what the branch reloads at the end.                          *)
LEMMA FinishCompactionTracked ==
  ASSUME TrackingInv, FinishCompaction
  PROVE  TrackingInv'
<1>1. ContextInv /\ StoredGraphsInv /\ BackingStoreInv
  BY TrackingParts DEF TrackingInv
<1>2. ContextInv'
  BY <1>1, FinishCompactionTypes
<1>3. BackingStoreInv' /\ TypeOK' /\ UUIDsUnique'
  BY <1>2 DEF ContextInv, BackingStoreInv
<1>4. /\ DeleteGarbage /\ currentRevision' = currentRevision /\ committed' = committed
      /\ ReloadItemGraph(ItemGraphForRevid(RevidForUUID(currentRevision))')
  BY DEF FinishCompaction
<1>5. /\ DOMAIN commits' = {r \in DOMAIN commits : ~commits[r].garbage}
      /\ \A r \in DOMAIN commits' :
           /\ IsComplete(Whole(r)') /\ ReadBack(r)' = ReadBack(r)
           /\ commits'[r] = commits[r]
  BY <1>1, <1>3, <1>4, DeleteGarbageKeeps
<1>6. currentRevision # NoRevision
  <2>1. DOMAIN commits # {}
    BY <1>4 DEF DeleteGarbage, Deleting
  <2>2. DOMAIN << >> = {}
    OBVIOUS
  <2> QED
    BY <2>1, <2>2 DEF TrackingInv, CurrentRevisionStored
<1>7. PICK k \in DOMAIN commits : commits[k].uuid = currentRevision /\ ~commits[k].garbage
  BY <1>6, CurrentRow
<1>8. k \in DOMAIN commits' /\ commits'[k].uuid = currentRevision' /\ ~commits'[k].garbage
  BY <1>4, <1>5, <1>7
<1>9. CurrentRevisionStored'
  BY <1>4, <1>6, <1>8 DEF CurrentRevisionStored
<1>10. RevidForUUID(currentRevision)' = k
  BY <1>3, <1>8 DEF UUIDs, RevidForUUID, UUIDsUnique
<1>11. PICK g : g = ItemGraphForRevid(RevidForUUID(currentRevision))'
  OBVIOUS
<1>12. g \in AnyGraph /\ ReloadItemGraph(g)
  BY <1>3, <1>4, <1>11, ReadsAreGraphsNext
<1>13. ReadBack(k)' = RemoveUnreachableItems[g]
  BY <1>10, <1>11 DEF ReadBack
<1>14. MemoryResolved' /\ loadedObjects' = ReadBack(k).items
  BY <1>5, <1>8, <1>12, <1>13, ReloadTracked
<1>15. \A r \in DOMAIN commits' : commits'[r].uuid = currentRevision' =>
         \A i \in DOMAIN loadedObjects' \ ChangedObjectUUIDs' :
           i \in DOMAIN ReadBack(r).items /\ ReadBack(r).items[i] = loadedObjects'[i]
  BY <1>3, <1>8, <1>14 DEF UUIDsUnique
<1> QED
  BY <1>2, <1>4, <1>5, <1>9, <1>14, <1>15, KeptRowsTracked

(* Nothing happens.                                                        *)
LEMMA StutterTracked ==
  ASSUME TrackingInv, UNCHANGED allVars
  PROVE  TrackingInv'
<1>1. ContextInv /\ StoredGraphsInv /\ BackingStoreInv
  BY TrackingParts DEF TrackingInv
<1>2. /\ UNCHANGED <<commits, metadata, rebuildRevids>> /\ rootObjectUUID' = rootObjectUUID
      /\ UNCHANGED <<context, currentRevision, committed>>
  BY DEF allVars, vars
<1>3. BackingStoreInv'
  BY <1>1, <1>2, TableUnchangedInv
<1>4. ContextInv'
  BY <1>1, <1>2, <1>3, CompactionTypes
<1>5. \A r \in DOMAIN commits : IsComplete(Whole(r)') /\ ReadBack(r)' = ReadBack(r)
  BY <1>1, <1>2, <1>3, TableUnchangedKeeps
<1>6. CurrentRevisionStored'
  BY <1>2 DEF TrackingInv, CurrentRevisionStored, HasChanges, ChangedObjectUUIDs, context
<1> QED
  BY <1>2, <1>4, <1>5, <1>6, CompactionTracked

(* With a collection at every commit (COObjectGraphContext.m: the interval *)
(* of a debug build), change tracking is exact all along.                  *)
THEOREM TrackingInvariant ==
  ASSUME GCInterval = 1
  PROVE  ContextSpec => []TrackingInv
<1>1. TrackingInv /\ [ContextNext]_allVars => TrackingInv'
  <2> SUFFICES ASSUME TrackingInv, [ContextNext]_allVars
               PROVE  TrackingInv'
    OBVIOUS
  <2>1. CASE \E i \in Item, d \in Data : InsertObject(i, d) \/ UpdateObject(i, d)
    BY <2>1, EditTracked
  <2>2. CASE \E u \in Revision : Commit(u)
    BY <2>2, CommitTracked
  <2>3. CASE CommitNothing
    BY <2>3, CommitNothingTracked
  <2>4. CASE \E u \in Revision : SetCurrentRevision(u)
    BY <2>4, SetCurrentRevisionTracked
  <2>5. CASE \E R \in SUBSET Revids : BeginCompaction(R)
    BY <2>5, BeginCompactionTracked
  <2>6. CASE ContinueCompaction
    BY <2>6, ContinueCompactionTracked
  <2>7. CASE FinishCompaction
    BY <2>7, FinishCompactionTracked
  <2>8. CASE UNCHANGED allVars
    BY <2>8, StutterTracked
  <2> QED
    BY <2>1, <2>2, <2>3, <2>4, <2>5, <2>6, <2>7, <2>8 DEF ContextNext
<1> QED
  BY <1>1, ContextInitTracked, PTL DEF ContextSpec

(* Every stored revision reads back as the objects that were reachable in  *)
(* memory when it was committed, though only the marked ones were written. *)
THEOREM CommitsAlwaysReadBack ==
  ASSUME GCInterval = 1
  PROVE  ContextSpec => []CommitsReadBack
<1>1. TrackingInv => CommitsReadBack
  BY DEF TrackingInv
<1> QED
  BY <1>1, TrackingInvariant, PTL

(* What a commit writes, over the current revision, is always a whole      *)
(* graph: the precondition under which BackingStoreImplements is proved.   *)
THEOREM DeltasAlwaysCoverChanges ==
  ASSUME GCInterval = 1
  PROVE  ContextSpec => []DeltasCoverChanges
<1>1. TrackingInv => DeltasCoverChanges
  BY CommitCovers DEF DeltasCoverChanges
<1> QED
  BY <1>1, TrackingInvariant, PTL

(* An unmarked object is stored in its present state.                      *)
THEOREM UnmarkedObjectsStored ==
  ASSUME GCInterval = 1
  PROVE  ContextSpec => []UnmarkedObjectsAsStored
<1>1. TrackingInv => UnmarkedObjectsAsStored
  BY DEF TrackingInv
<1> QED
  BY <1>1, TrackingInvariant, PTL

(* A context that says it has no changes shows its current revision.       *)
THEOREM UnchangedContextStaysCurrent ==
  ASSUME GCInterval = 1
  PROVE  ContextSpec => []UnchangedContextIsCurrent
<1>1. TrackingInv => UnchangedContextIsCurrent
  BY UnchangedIsCurrent DEF UnchangedContextIsCurrent
<1> QED
  BY <1>1, TrackingInvariant, PTL

=============================================================================
