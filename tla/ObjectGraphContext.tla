------------------------- MODULE ObjectGraphContext -------------------------
(***************************************************************************)
(* A branch edited through one COObjectGraphContext and committed to its   *)
(* backing store: the objects in memory, the change tracking that decides  *)
(* what a delta holds, the two garbage collectors (of objects before a     *)
(* commit, of items in a snapshot), reverting to another revision and      *)
(* history compaction.  Source: Core/COObjectGraphContext.m, Core/         *)
(* COBranch.m, over BackingStore.                                          *)
(***************************************************************************)
EXTENDS BackingStore

CONSTANT GCInterval  \* commits between two collections of unreachable
                     \* objects: 1 in a debug build, GC_INTERVAL otherwise

ASSUME GCIntervalAssumption == GCInterval \in Nat \ {0}

VARIABLES
  rootItemUUID,          \* the root object, fixed for the context's life
  loadedObjects,         \* the objects in memory, with their current states
  insertedObjectUUIDs,   \* change tracking: objects new since the last commit
  updatedObjectUUIDs,    \* change tracking: objects changed since then
  numberOfCommitsSinceLastGC,
  currentRevision,       \* the branch's current revision
  committed              \* history: what was in memory when a revision was made

context == <<rootItemUUID, loadedObjects, insertedObjectUUIDs,
             updatedObjectUUIDs, numberOfCommitsSinceLastGC>>

allVars == <<vars, context, currentRevision, committed>>

(* Types: change tracking names objects in memory only, the root is always *)
(* one of them, and the commit counter stays below its limit.              *)
ContextTypeOK ==
  /\ TypeOK
  /\ rootItemUUID \in RootItem
  /\ loadedObjects \in Items
  /\ rootItemUUID \in DOMAIN loadedObjects
  /\ insertedObjectUUIDs \cup updatedObjectUUIDs \subseteq DOMAIN loadedObjects
  /\ numberOfCommitsSinceLastGC \in 0 .. GCInterval - 1
  /\ currentRevision \in Revision \cup {NoRevision}
  /\ DOMAIN committed \subseteq Revision
  /\ \A u \in DOMAIN committed : committed[u] \in Items

-----------------------------------------------------------------------------
GraphInMemory == [root |-> rootItemUUID, items |-> loadedObjects]

ReachableObjects == RemoveUnreachableItems[GraphInMemory].items

ChangedObjectUUIDs == insertedObjectUUIDs \cup updatedObjectUUIDs

HasChanges == ChangedObjectUUIDs # {}

(* (Mutant: the collection comes one commit late.) *)
MutantIsGCNeeded == numberOfCommitsSinceLastGC = GCInterval

(* -incrementCommitCounterAndCheckIfGCNeeded, at a commit with changes. *)
IsGCNeeded == numberOfCommitsSinceLastGC + 1 = GCInterval

(* (Mutant: the pre-commit checks collect nothing.) *)
MutantObjectsAtCommit == loadedObjects

ObjectsAtCommit == IF IsGCNeeded THEN ReachableObjects ELSE loadedObjects

(* (Mutant: inserted objects are left out of a delta.) *)
MutantModifiedItems ==
  [root  |-> rootItemUUID,
   items |-> [i \in updatedObjectUUIDs \cap DOMAIN ObjectsAtCommit |->
                ObjectsAtCommit[i]]]

(* -modifiedItemsSnapshot after -doPreCommitChecks; everything in memory   *)
(* for the first revision of a persistent root.                            *)
ModifiedItems ==
  LET saved == IF currentRevision = NoRevision THEN DOMAIN ObjectsAtCommit
               ELSE ChangedObjectUUIDs \cap DOMAIN ObjectsAtCommit
  IN [root |-> rootItemUUID, items |-> [i \in saved |-> ObjectsAtCommit[i]]]

(* (Mutant: a reload keeps the states of objects that were changed.) *)
MutantReloadItemGraph(g) ==
  /\ IsComplete(g)
  /\ loadedObjects' = [i \in Reachable(g) |->
                         IF i \in updatedObjectUUIDs THEN loadedObjects[i]
                         ELSE g.items[i]]
  /\ insertedObjectUUIDs' = {}
  /\ updatedObjectUUIDs' = {}
  /\ UNCHANGED <<rootItemUUID, numberOfCommitsSinceLastGC>>

(* -reloadAtRevision: -setItemGraph: loads the reachable items and accepts *)
(* all changes, -removeUnreachableObjects makes zombies of the other       *)
(* objects.  A reference that cannot be resolved raises an exception.      *)
ReloadItemGraph(g) ==
  /\ IsComplete(g)
  /\ loadedObjects' = RemoveUnreachableItems[g].items
  /\ insertedObjectUUIDs' = {}
  /\ updatedObjectUUIDs' = {}
  /\ UNCHANGED <<rootItemUUID, numberOfCommitsSinceLastGC>>

-----------------------------------------------------------------------------
ContextInit ==
  /\ Init
  /\ rootItemUUID \in RootItem
  /\ \E d \in Data : /\ References[d] \subseteq {rootItemUUID}
                     /\ loadedObjects = [i \in {rootItemUUID} |-> d]
  /\ insertedObjectUUIDs = {rootItemUUID}
  /\ updatedObjectUUIDs = {}
  /\ numberOfCommitsSinceLastGC = 0
  /\ currentRevision = NoRevision
  /\ committed = << >>

(* A new object gets a UUID no item was ever stored under. *)
InsertObject(i, d) ==
  /\ ~Deleting
  /\ i \notin DOMAIN loadedObjects
  /\ \A r \in DOMAIN commits : i \notin DOMAIN commits[r].contents
  /\ References[d] \subseteq DOMAIN loadedObjects \cup {i}
  /\ loadedObjects' = [j \in DOMAIN loadedObjects \cup {i} |->
                         IF j = i THEN d ELSE loadedObjects[j]]
  /\ insertedObjectUUIDs' = insertedObjectUUIDs \cup {i}
  /\ UNCHANGED <<vars, rootItemUUID, updatedObjectUUIDs,
                 numberOfCommitsSinceLastGC, currentRevision, committed>>

(* The application sets a property.  It may refer to any object it still   *)
(* has in memory; only the object whose property is set is marked.         *)
UpdateObject(i, d) ==
  /\ ~Deleting
  /\ i \in DOMAIN loadedObjects
  /\ loadedObjects[i] # d
  /\ References[d] \subseteq DOMAIN loadedObjects
  /\ loadedObjects' = [loadedObjects EXCEPT ![i] = d]
  /\ updatedObjectUUIDs' = IF i \in insertedObjectUUIDs THEN updatedObjectUUIDs
                           ELSE updatedObjectUUIDs \cup {i}
  /\ UNCHANGED <<vars, rootItemUUID, insertedObjectUUIDs,
                 numberOfCommitsSinceLastGC, currentRevision, committed>>

(* -commit, when the pre-commit checks leave something to write. *)
Commit(u) ==
  /\ HasChanges
  /\ DOMAIN ModifiedItems.items # {}
  /\ u \notin DOMAIN committed
  /\ WriteItemGraph(u, currentRevision, ModifiedItems)
  /\ loadedObjects' = ObjectsAtCommit
  /\ numberOfCommitsSinceLastGC' = IF IsGCNeeded THEN 0
                                   ELSE numberOfCommitsSinceLastGC + 1
  /\ insertedObjectUUIDs' = {}
  /\ updatedObjectUUIDs' = {}
  /\ currentRevision' = u
  /\ committed' = [v \in DOMAIN committed \cup {u} |->
                     IF v = u THEN ReachableObjects ELSE committed[v]]
  /\ UNCHANGED rootItemUUID

(* -commit, when all that had changed was unreachable and is collected. *)
CommitNothing ==
  /\ ~Deleting
  /\ HasChanges
  /\ DOMAIN ModifiedItems.items = {}
  /\ loadedObjects' = ObjectsAtCommit
  /\ numberOfCommitsSinceLastGC' = 0
  /\ insertedObjectUUIDs' = {}
  /\ updatedObjectUUIDs' = {}
  /\ UNCHANGED <<vars, rootItemUUID, currentRevision, committed>>

(* -setCurrentRevision: (undo, redo, revert) to any revision of the store; *)
(* to the current one, -discardAllChanges.                                 *)
SetCurrentRevision(u) ==
  /\ ~Deleting
  /\ u \in UUIDs
  /\ currentRevision # NoRevision
  /\ ReloadItemGraph(ItemGraphForRevid(RevidForUUID(u)))
  /\ currentRevision' = u
  /\ rootObjectUUID' = RootUUID
  /\ UNCHANGED <<commits, metadata, rebuildRevids, committed>>

(* Compaction deletes any revisions but the one the branch is at, and ends *)
(* with a notification on which the context reloads its branch.            *)
BeginCompaction(R) ==
  /\ RevidForUUID(currentRevision) \notin R
  /\ MarkGarbage(R)
  /\ UNCHANGED <<context, currentRevision, committed>>

ContinueCompaction ==
  /\ RebuildRevid
  /\ UNCHANGED <<context, currentRevision, committed>>

FinishCompaction ==
  /\ UNCHANGED <<currentRevision, committed>>
  /\ DeleteGarbage
  /\ ReloadItemGraph(ItemGraphForRevid(RevidForUUID(currentRevision))')

ContextNext ==
  \/ \E i \in Item, d \in Data : InsertObject(i, d) \/ UpdateObject(i, d)
  \/ \E u \in Revision : Commit(u)
  \/ CommitNothing
  \/ \E u \in Revision : SetCurrentRevision(u)
  \/ \E R \in SUBSET Revids : BeginCompaction(R)
  \/ ContinueCompaction
  \/ FinishCompaction

ContextSpec == ContextInit /\ [][ContextNext]_allVars

-----------------------------------------------------------------------------
(* Properties *)

(* "Returns the state the inner object graph at a given revision"          *)
(* (COSQLiteStore.h): every revision still stored reads back as the object *)
(* graph that was in memory when it was committed, although only the       *)
(* changed objects were handed to the store, and whatever snapshots and    *)
(* compactions came between.                                               *)
CommitsReadBack ==
  \A u \in UUIDs : StoredGraph[u] = committed[u]

(* What BackingStore assumes of its callers: the delta a commit would      *)
(* write now, on top of what is reachable in the current revision, is a    *)
(* whole object graph.                                                     *)
DeltasCoverChanges ==
  ~Deleting /\ HasChanges /\ DOMAIN ModifiedItems.items # {}
    => CoversChanges(currentRevision, ModifiedItems)

(* A context without changes shows its branch's current revision: tracking *)
(* forgets no change, and no collection or reload loses one.               *)
UnchangedContextIsCurrent ==
  ~Deleting /\ ~HasChanges => ReachableObjects = StoredGraph[currentRevision]
=============================================================================
