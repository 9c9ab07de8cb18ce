--------------------------- MODULE RevisionStore ---------------------------
(***************************************************************************)
(* What a backing store promises its callers (Store/COSQLiteStore.h,       *)
(* "Revision Reading"): a revision is an immutable complete inner object   *)
(* graph under a UUID, with a parent revision.  Nothing here knows of      *)
(* deltas, snapshots, row ids or the order of deletions; BackingStore is   *)
(* shown to implement this module.                                         *)
(***************************************************************************)
EXTENDS ItemGraph

CONSTANTS Revision, NoRevision

VARIABLES
  graph,    \* revision -> the items of its inner object graph
  parent,   \* revision -> its parent revision, or NoRevision
  root      \* the root item every revision shares, or NoItem

abstractVars == <<graph, parent, root>>

GraphOf(r) == [root |-> root, items |-> graph[r]]

ParentItems(p) == IF p \in DOMAIN graph THEN graph[p] ELSE << >>

(* The graph a write of the modified items g on top of p must produce. *)
Combined(p, g) ==
  RemoveUnreachableItems[AddItemGraph([root |-> g.root, items |-> ParentItems(p)], g)]

Init ==
  /\ graph = << >>
  /\ parent = << >>
  /\ root = NoItem

Write(r, p) ==
  /\ r \notin DOMAIN graph
  /\ parent' = [s \in DOMAIN parent \cup {r} |->
                  IF s # r THEN parent[s]
                  ELSE IF p \in DOMAIN graph THEN p ELSE NoRevision]
  /\ \E g \in ItemGraphs :
       /\ root \in {NoItem, g.root}
       /\ root' = g.root
       /\ graph' = [s \in DOMAIN graph \cup {r} |->
                      IF s = r THEN Combined(p, g).items ELSE graph[s]]

(* Deleting revisions changes nothing of the others but their parent. *)
Delete(R) ==
  /\ UNCHANGED root
  /\ parent' = [s \in DOMAIN parent \ R |->
                  IF parent[s] \in R THEN NoRevision ELSE parent[s]]
  /\ graph'  = [s \in DOMAIN graph \ R |-> graph[s]]

Clear ==
  /\ graph' = << >>
  /\ parent' = << >>
  /\ root' = NoItem

Next ==
  \/ \E r \in Revision, p \in Revision \cup {NoRevision} : Write(r, p)
  \/ \E R \in SUBSET DOMAIN graph : Delete(R)
  \/ Clear

Spec == Init /\ [][Next]_abstractVars

=============================================================================
