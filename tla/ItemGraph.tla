----------------------------- MODULE ItemGraph -----------------------------
(***************************************************************************)
(* Inner object graphs as the store sees them (StorageDataModel/           *)
(* COItemGraph.m): items keyed by UUID, one of them named the root.  The   *)
(* attributes of an item are abstracted to a value of Data, of which only  *)
(* the inner references it holds matter.                                   *)
(***************************************************************************)
EXTENDS Integers, FiniteSets

CONSTANTS
  Item,        \* the UUIDs an item may have
  RootItem,    \* those of them that may be the root of a graph
  Data,        \* the serialized states an item may be in
  References,  \* the UUIDs an item in a given state refers to
  NoItem       \* nil

ASSUME ItemGraphAssumption ==
  /\ RootItem \subseteq Item
  /\ NoItem \notin Item
  /\ References \in [Data -> SUBSET Item]

(* Items keyed by UUID; a graph need not hold every item it refers to. *)
Items == UNION {[S -> Data] : S \in SUBSET Item}

ItemGraphs == [root : RootItem, items : Items]

(* -addItemGraph: the added items win, and so does the added root. *)
AddItemGraph(g, h) ==
  [root  |-> h.root,
   items |-> [i \in DOMAIN g.items \cup DOMAIN h.items |->
                IF i \in DOMAIN h.items THEN h.items[i] ELSE g.items[i]]]

IsClosed(S, g) ==
  \A i \in S : \A j \in References[g.items[i]] \cap DOMAIN g.items : j \in S

(* COItemGraphReachableUUIDs(): the least set of the items present that    *)
(* holds the root and is closed under references.                          *)
Reachable(g) ==
  {i \in DOMAIN g.items :
     /\ g.root \in DOMAIN g.items
     /\ \A S \in SUBSET DOMAIN g.items :
          g.root \in S /\ IsClosed(S, g) => i \in S}

(* A function, as the graph may be one without a root (an empty store's).  *)
RemoveUnreachableItems ==
  [g \in [root : Item \cup {NoItem}, items : Items] |->
     [root |-> g.root, items |-> [i \in Reachable(g) |-> g.items[i]]]]

(* No reachable item refers to an item the graph lacks (COValidateItemGraph *)
(* on the part a reload keeps).                                            *)
IsComplete(g) ==
  /\ g.root \in DOMAIN g.items
  /\ \A i \in Reachable(g) : References[g.items[i]] \subseteq DOMAIN g.items

=============================================================================
