---------------------------- MODULE BackingStore ----------------------------
(***************************************************************************)
(* One backing store (Store/COSQLiteStorePersistentRootBackingStore.m): a  *)
(* table of commits shared by the persistent roots that are cheap copies   *)
(* of one another.  A commit holds either a delta (the modified items) or  *)
(* a full snapshot; deltabase names the row a delta run starts from.  A    *)
(* row id is MAX(rowid) + 1, so ids are reused once the top rows go away.  *)
(***************************************************************************)
EXTENDS ItemGraph

CONSTANTS
  Revision,                 \* revision UUIDs
  NoRevision,               \* nil, for a revision without a parent
  MaxNumberOfDeltaCommits,  \* length limit of a delta run (50 in the code)
  MaxRevid                  \* bound: no row id above it is ever allocated

ASSUME BackingStoreAssumption ==
  /\ NoRevision \notin Revision
  /\ MaxNumberOfDeltaCommits \in Nat \ {0}
  /\ MaxRevid \in Nat

VARIABLES
  commits,         \* the commits table: row id -> row
  metadata,        \* the root column of the metadata table, NoItem when empty
  rootObjectUUID,  \* the instance's cache of that column, NoItem when nil
  rebuildRevids    \* the rows a running -deleteRevids: has still to rebuild

vars == <<commits, metadata, rootObjectUUID, rebuildRevids>>

Revids == 0 .. MaxRevid

Row == [uuid      : Revision,
        parent    : Revids \cup {-1},
        deltabase : Revids,
        contents  : Items,
        garbage   : BOOLEAN]

(* Types: every column of every row, a metadata row at most, and no row    *)
(* left to rebuild that is not there (-deleteRevids:).                     *)
TypeOK ==
  /\ DOMAIN commits \subseteq Revids
  /\ commits \in [DOMAIN commits -> Row]
  /\ metadata \in Item \cup {NoItem}
  /\ rootObjectUUID \in Item \cup {NoItem}
  /\ rebuildRevids \subseteq DOMAIN commits

-----------------------------------------------------------------------------
(* Reading *)

GreatestOf(S) == CHOOSE m \in S : \A n \in S : n <= m
LeastOf(S)    == CHOOSE m \in S : \A n \in S : m <= n

UUIDs == {commits[r].uuid : r \in DOMAIN commits}

RevidForUUID(u) ==
  IF u \in UUIDs THEN CHOOSE r \in DOMAIN commits : commits[r].uuid = u ELSE -1

RevisionUUIDForRevid(r) ==
  IF r \in DOMAIN commits THEN commits[r].uuid ELSE NoRevision

DeltabaseForRowid(r) == IF r \in DOMAIN commits THEN commits[r].deltabase ELSE -1

RootUUID == IF rootObjectUUID = NoItem THEN metadata ELSE rootObjectUUID

(* The rows the query of -partialItemGraphFromRevid: returns. *)
DeltaRun(r) == {q \in DOMAIN commits : commits[r].deltabase <= q /\ q <= r}

(* The rows of run the scan may take after q: none once the parent is the  *)
(* state the caller has; the parent; or, after a parent of -1, whatever    *)
(* row comes next.                                                         *)
TakenAfter(q, base, run) ==
  {n \in run : /\ n < q
               /\ commits[q].parent # base
               /\ \/ n = commits[q].parent
                  \/ commits[q].parent = -1 /\ \A m \in run : m < q => m <= n}

Chain(base, r) ==
  LET run == DeltaRun(r)
      Closed(S) == \A s \in S : TakenAfter(s, base, run) \subseteq S
  IN {q \in run : \A S \in SUBSET run : r \in S /\ Closed(S) => q \in S}

(* (Mutant: the oldest state of an item wins.) *)
MutantPartialItemGraph(base, r) ==
  LET chain     == IF r \in DOMAIN commits THEN Chain(base, r) ELSE {}
      Holders(i) == {q \in chain : i \in DOMAIN commits[q].contents}
  IN [root  |-> RootUUID,
      items |-> [i \in UNION {DOMAIN commits[q].contents : q \in chain} |->
                   commits[LeastOf(Holders(i))].contents[i]]]

(* -partialItemGraphFromRevid:toRevid:, the newest state of an item first. *)
(* The graph it answers for a missing revision (nil) has no items.         *)
PartialItemGraph(base, r) ==
  LET chain     == IF r \in DOMAIN commits THEN Chain(base, r) ELSE {}
      Holders(i) == {q \in chain : i \in DOMAIN commits[q].contents}
  IN [root  |-> RootUUID,
      items |-> [i \in UNION {DOMAIN commits[q].contents : q \in chain} |->
                   commits[GreatestOf(Holders(i))].contents[i]]]

ItemGraphForRevid(r) == PartialItemGraph(-1, r)

-----------------------------------------------------------------------------
(* Operations *)

Init ==
  /\ commits = << >>
  /\ metadata = NoItem
  /\ rootObjectUUID = NoItem
  /\ rebuildRevids = {}

Deleting == \E r \in DOMAIN commits : commits[r].garbage

NextRowid == IF commits = << >> THEN 0 ELSE GreatestOf(DOMAIN commits) + 1

(* Mutant: a snapshot has only the modified items.                         *)
MutantNewRowSnapshot(u, p, g) ==
  LET parent  == RevidForUUID(p)
      base    == DeltabaseForRowid(parent)
      isDelta == base # -1 /\ NextRowid - base < MaxNumberOfDeltaCommits
  IN [uuid      |-> u,
      parent    |-> parent,
      deltabase |-> IF isDelta THEN base ELSE NextRowid,
      contents  |-> g.items,
      garbage   |-> FALSE]

NewRow(u, p, g) ==
  LET parent  == RevidForUUID(p)
      base    == DeltabaseForRowid(parent)
      isDelta == base # -1 /\ NextRowid - base < MaxNumberOfDeltaCommits
      merged  == AddItemGraph(ItemGraphForRevid(parent), g)
  IN [uuid      |-> u,
      parent    |-> parent,
      deltabase |-> IF isDelta THEN base ELSE NextRowid,
      contents  |-> IF isDelta THEN g.items ELSE RemoveUnreachableItems[merged].items,
      garbage   |-> FALSE]

WriteAccepted(u, g) == u \notin UUIDs /\ RootUUID \in {NoItem, g.root}

WriteItemGraph(u, p, g) ==
  /\ ~Deleting
  /\ WriteAccepted(u, g)
  /\ NextRowid <= MaxRevid
  /\ commits' = [r \in DOMAIN commits \cup {NextRowid} |->
                   IF r = NextRowid THEN NewRow(u, p, g) ELSE commits[r]]
  /\ metadata' = IF RootUUID = NoItem THEN g.root ELSE metadata
  /\ rootObjectUUID' = RootUUID
  /\ UNCHANGED rebuildRevids

(* The UUID is taken, or the graph has another root: only the cache moves. *)
RejectItemGraph ==
  /\ ~Deleting
  /\ \E u \in Revision, g \in ItemGraphs : ~WriteAccepted(u, g)
  /\ rootObjectUUID' = RootUUID
  /\ UNCHANGED <<commits, metadata, rebuildRevids>>

(* (Mutant: a delta is rebuilt if its delta base goes, not if its parent   *)
(* does.)                                                                  *)
MutantMarkGarbage(R) ==
  LET garbage == R \cap DOMAIN commits IN
  /\ ~Deleting
  /\ garbage # {}
  /\ commits' = [r \in DOMAIN commits |->
                   IF r \in garbage THEN [commits[r] EXCEPT !.garbage = TRUE]
                   ELSE commits[r]]
  /\ rebuildRevids' = {r \in DOMAIN commits \ garbage :
                         /\ commits[r].deltabase \in garbage
                         /\ commits[r].deltabase # r}
  /\ UNCHANGED <<metadata, rootObjectUUID>>

(* -deleteRevids:, one savepoint on the store's serial queue, in the three *)
(* passes of the code: mark, rebuild in ascending order, delete.           *)
MarkGarbage(R) ==
  LET garbage == R \cap DOMAIN commits IN
  /\ ~Deleting
  /\ garbage # {}
  /\ commits' = [r \in DOMAIN commits |->
                   IF r \in garbage THEN [commits[r] EXCEPT !.garbage = TRUE]
                   ELSE commits[r]]
  /\ rebuildRevids' = {r \in DOMAIN commits \ garbage :
                         /\ commits[r].parent \in garbage
                         /\ commits[r].deltabase # r}
  /\ UNCHANGED <<metadata, rootObjectUUID>>

(* (Mutant: the rebuilt row keeps its old delta base.) *)
MutantRebuildRevid ==
  /\ rebuildRevids # {}
  /\ LET r == LeastOf(rebuildRevids) IN
       /\ commits' = [commits EXCEPT
            ![r].contents = RemoveUnreachableItems[ItemGraphForRevid(r)].items]
       /\ rebuildRevids' = rebuildRevids \ {r}
  /\ rootObjectUUID' = RootUUID
  /\ UNCHANGED metadata

RebuildRevid ==
  /\ rebuildRevids # {}
  /\ LET r == LeastOf(rebuildRevids) IN
       /\ commits' = [commits EXCEPT
            ![r].contents  = RemoveUnreachableItems[ItemGraphForRevid(r)].items,
            ![r].deltabase = r]
       /\ rebuildRevids' = rebuildRevids \ {r}
  /\ rootObjectUUID' = RootUUID
  /\ UNCHANGED metadata

DeleteGarbage ==
  /\ Deleting
  /\ rebuildRevids = {}
  /\ commits' = [r \in {q \in DOMAIN commits : ~commits[q].garbage} |-> commits[r]]
  /\ UNCHANGED <<metadata, rootObjectUUID, rebuildRevids>>

(* -clearBackingStore, after which -clearStore drops the instance. *)
ClearBackingStore ==
  /\ ~Deleting
  /\ commits' = << >>
  /\ metadata' = NoItem
  /\ rootObjectUUID' = NoItem
  /\ UNCHANGED rebuildRevids

(* Another instance opens the same tables, its cache still nil. *)
Reopen ==
  /\ ~Deleting
  /\ rootObjectUUID' = NoItem
  /\ UNCHANGED <<commits, metadata, rebuildRevids>>

(* What a caller has to include in a delta (COBranch.m: "all items needed  *)
(* to generate the new object graph state from the old state"): the        *)
(* reachable part of the parent and the modified items make a whole graph. *)
CoversChanges(p, g) ==
  LET old == [ItemGraphForRevid(RevidForUUID(p)) EXCEPT !.root = g.root] IN
  IsComplete(AddItemGraph(RemoveUnreachableItems[old], g))

Next ==
  \/ \E p \in Revision \cup {NoRevision}, g \in ItemGraphs :
       /\ ~Deleting
       /\ CoversChanges(p, g)
       /\ \E u \in Revision : WriteItemGraph(u, p, g)
  \/ RejectItemGraph
  \/ \E R \in SUBSET Revids : MarkGarbage(R)
  \/ RebuildRevid
  \/ DeleteGarbage
  \/ ClearBackingStore
  \/ Reopen

Spec == Init /\ [][Next]_vars

-----------------------------------------------------------------------------
(* Properties *)

StoredGraph ==
  LET content == [r \in DOMAIN commits |->
                    RemoveUnreachableItems[ItemGraphForRevid(r)].items]
  IN [u \in UUIDs |-> content[RevidForUUID(u)]]

StoredParent ==
  [u \in UUIDs |-> RevisionUUIDForRevid(commits[RevidForUUID(u)].parent)]

RS == INSTANCE RevisionStore
        WITH graph <- StoredGraph, parent <- StoredParent, root <- metadata

(* The backing store implements RevisionStore: whatever mix of deltas,     *)
(* snapshots, rebuilt and reused rows holds them, the revisions read back  *)
(* as the graphs that were committed, and a deletion changes nothing of    *)
(* the revisions it keeps but the parents it took away.                    *)
ImplementsRevisionStore == RS!Spec

(* A delta never loses the rows it needs: it is read from its parent, in   *)
(* the same delta run or a run that starts at the parent, and no deletion  *)
(* leaves it above a gap.  (The assertions at the end of each turn of the  *)
(* loop of -partialItemGraphFromRevid:, which -hasAnotherRow makes idle.)  *)
DeltaRunsUnbroken ==
  \A r \in DOMAIN commits :
    LET p == commits[r].parent
        b == commits[r].deltabase
    IN /\ p < r /\ b <= r
       /\ b < r => /\ p \in DOMAIN commits
                   /\ b <= p
                   /\ commits[p].deltabase \in {b, p}

(* A revision is stored once, so its UUID names one row. *)
UUIDsUnique ==
  \A r, q \in DOMAIN commits : commits[r].uuid = commits[q].uuid => r = q

(* Between the passes of a deletion: every surviving delta whose parent    *)
(* goes away is still to be rebuilt.                                       *)
RebuildsPending ==
  /\ \A r \in rebuildRevids : ~commits[r].garbage
  /\ rebuildRevids # {} => Deleting
  /\ \A r \in DOMAIN commits :
       /\ ~commits[r].garbage
       /\ commits[r].parent \in DOMAIN commits
       /\ commits[commits[r].parent].garbage
       => r \in rebuildRevids \/ commits[r].deltabase = r

(* An instance's cache of the root is empty or right.                      *)
RootCached == rootObjectUUID \in {NoItem, metadata}

(* The inductive strengthening of DeltaRunsUnbroken. *)
BackingStoreInv ==
  TypeOK /\ UUIDsUnique /\ DeltaRunsUnbroken /\ RebuildsPending /\ RootCached

(* Whatever a row is read over, the graph it gives is whole: a snapshot by *)
(* itself, a delta with the reachable part of its parent's graph (what     *)
(* loading a revision checks, COValidateItemGraph; nothing the store does  *)
(* to the rows below, or to the parent in a deletion, takes an item away   *)
(* that the delta still refers to).                                        *)
StoredGraphsComplete ==
  \A r \in DOMAIN commits :
    LET own == [root |-> metadata, items |-> commits[r].contents]
        old == RemoveUnreachableItems[ItemGraphForRevid(commits[r].parent)]
    IN IF commits[r].deltabase = r THEN IsComplete(own)
       ELSE IsComplete(AddItemGraph(old, own))

(* What a client that holds one revision does with the delta to another    *)
(* one (COSynchronizerRevision.m): overlaying it gives the other revision, *)
(* whichever two revisions they are and however they are stored.           *)
PartialGraphsSuffice ==
  LET full == [r \in DOMAIN commits |-> ItemGraphForRevid(r)]
  IN \A r, base \in DOMAIN commits :
       r # base =>
         RemoveUnreachableItems[AddItemGraph(full[base], PartialItemGraph(base, r))]
           = RemoveUnreachableItems[full[r]]

=============================================================================
