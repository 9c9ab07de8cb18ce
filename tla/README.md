# CoreObject in TLA+

CoreObject is a version-controlled object database for Objective-C. An application edits *persistent roots* (documents)
through *editing contexts*; each commit records a *revision* of an object graph in an SQLite store, as a delta or a
snapshot; several processes may share one store, and several people one branch. This directory holds TLA+ models of the
parts where that is hard to get right, the TLC runs that check them, and proofs checked by TLAPS. `src/` below is the
repository, and class names without a path are found under `src/Core`, `src/Store`, `src/Undo`, `src/Synchronization`.

## 1. The system

| Component | State it keeps | Operations | What makes it correct |
|---|---|---|---|
| Backing store (`COSQLiteStorePersistentRootBackingStore`) | table of commits (row id, parent, delta base, items, garbage mark), cached root UUID | write a revision, read a revision or the delta between two, delete revisions in three passes | a revision reads back as what was committed, whatever was deleted, rebuilt or renumbered since |
| Object store (`COSQLiteStore`, `COStoreTransaction`, `COStore*` actions) | tables of roots and branches, transaction ids, caches of backing stores | optimistic transactions of several actions, notifications, finalization | a transaction is all or nothing, and based on what its author saw |
| Compaction (`COHistoryCompaction`, `COUndoTrackHistoryCompaction`) | none of its own | choose and delete revisions, finalize deleted roots | nothing reachable from a branch, or wanted by an undo track, goes away |
| Object graph context (`COObjectGraphContext`) | objects in memory, inserted and updated sets, commit counter | insert, update, collect garbage, reload, snapshot of modified items | the modified items are enough to read the revision back |
| Persistent root, branch (`COPersistentRoot`, `COBranch`) | copy of the store's row, current revision, pending branches | commit, undo, redo, revert, merge, copy, reload on notification | agrees with the store after each commit and notification |
| Editing context (`COEditingContext`) | loaded roots, pending deletions, last transaction ids | load, unload, commit, discard, handle notifications | no commit overwrites what the context has not seen; stale copies do not last |
| Undo tracks (`COUndoTrack`, `COUndoTrackStore`, `COCommand*`) | trees of commands, current command per track | record, undo, redo, divergent nodes, coalescing | the track and the store agree; undo and redo are inverse |
| Real-time synchronizer (`COSynchronizerClient/Server/Utils`, JSON transports) | per client: last revision sent, received, in transit; queues while paused | set up, push, answer, rebase | all clients converge to the server's history and no edit is lost |
| Pull synchronization (`COSynchronizationClient/Server`) | replicated branches, marked by metadata | request, answer, insert missing revisions parents first | the copy of a branch is the branch |
| Diff and merge (`src/Diff`) | none | three-way merges of item graphs, sequences, strings; common ancestors | non-conflicting edits all apply, conflicts are found |
| Objects, relationships (`COObject`, `CORelationshipCache`, dead cross references) | inverse relationships, references to deleted roots | set properties, delete and undelete roots | inverse and dead references match the forward ones |
| Copier, serialization, formats, attachments, schema migration, model library, utilities | little or none | mappings of data | pure functions; left to unit tests |

How they interact: a context saves its roots into one `COStoreTransaction`; the store checks the transaction ids, runs the
actions inside one SQLite transaction, writes revisions through the backing stores and then notifies: the local process
at once, other processes through distributed notifications. A context answers by reloading or unloading roots, which
replaces the graphs of their object graph contexts. An undo track builds a transaction of its own from commands and
commits it directly, so its context learns of it through the notification only. A synchronizer listens to the change
notification of a root, sends what is new, and writes what it receives straight into the store.

What is hard: two processes commit on stale copies; notifications come late, in another order, or never; the ids, branches
and pending sets of a context move before the store has answered; a deletion of revisions runs in several steps, and row
ids are used again afterwards; deltas hold changed objects only, so a change that is forgotten once is missing for ever;
clients and server of the synchronizer edit at the same time and rebase. `PROJECT.json` lists these hazards, each at its
line, with the properties about them.

## 2. Modules

| Module | Models | Extends |
|---|---|---|
| `ItemGraph` | an item graph: a root item and a partial function from items to data that refer to items; merging, reachability | |
| `RevisionStore` | what a store promises: revisions are immutable complete graphs with a parent. Abstract specification | `ItemGraph` |
| `BackingStore` | the table of commits | `ItemGraph`, instantiates `RevisionStore` |
| `ObjectGraphContext` | a branch edited through an object graph context, on top of the backing store (composition: its actions contain the backing store's) | `BackingStore` |
| `EditingContext` | several contexts with working copies over one store, with notifications | |
| `UndoTrack` | undo tracks and their store, over the rows and revisions that commands change | |
| `HistoryCompaction` | compaction up to a command of a track (composition: `UndoTrack`'s actions go on between compactions) | `UndoTrack` |
| `Synchronizer` | server, clients, channels, the pausing JSON server | |
| `ArrayDiff` | the difference of two arrays, and applying edits to one | |
| `ItemGraphDiff` | the three-way merge of two graphs, its conflicts and their resolution | `ArrayDiff` |
| `ContextAndStoreProofs` | theorems about `BackingStore`, that it implements `RevisionStore`, and about `ObjectGraphContext` over it | `ObjectGraphContext` |
| `EditingContextProofs` | theorems about `EditingContext` | `EditingContext` |
| `UndoTrackProofs` | theorems about `UndoTrack`: what track objects show, and that roots hold what the tracks say | `UndoTrack` |
| `HistoryCompactionProofs` | theorems about `HistoryCompaction`, which cite lemmas about the tracks | `HistoryCompaction`, `UndoTrackProofs` |
| `SynchronizerProofs` | theorems about `Synchronizer`: what messages and stores hold | `Synchronizer` |
| `SynchronizerMergeProofs` | that rebases merge all edits, and that clients converge | `SynchronizerProofs` |
| `ItemGraphDiffProofs` | theorems about differences (`ArrayDiff`) and about conflicts | `ItemGraphDiff` |
| `DiffApplicationProofs` | that applied differences give the other graph, and that merges have what both sides made | `ItemGraphDiffProofs` |
| `MC...` | values of constants, symmetries, bounds | |

### BackingStore

`commits` is the table, `metadata` the one row with the root item, `rootObjectUUID` the cache of it in an instance,
`rebuildRevids` what a running `-deleteRevids:` has still to rebuild. `WriteItemGraph` is
`-writeItemGraph:revisionUUID:withMetadata:withParent:...`: row id `MAX(rowid) + 1`, a delta if the parent is stored and
the run is short enough, a snapshot without unreachable items otherwise; a UUID already stored fails
(`RejectItemGraph`). `PartialItemGraph` walks the rows downwards as the SQL cursor does. `-deleteRevids:` is three
actions, `MarkGarbage`, `RebuildRevid` (one turn of its loop) and `DeleteGarbage`; in the code they are one transaction,
so the steps in between are visible to no reader, and they are separate so that the invariant must hold *in* the loop
too, where the rebuilt rows are read through partly rebuilt ones. Left out: the column that counts the bytes of
a delta run (the limit on it is commented out, COSQLiteStorePersistentRootBackingStore.m:560), merge parents, metadata, dates, hashes.

### ObjectGraphContext

`loadedObjects`, `insertedObjectUUIDs`, `updatedObjectUUIDs` and `numberOfCommitsSinceLastGC` are the instance variables;
`committed` is a history variable with what was in memory at each commit. `Commit` is the whole of `-[COBranch
saveCommitWithMetadata:transaction:]` with its pre-commit garbage collection. `UpdateObject` may refer to any object in
memory, also one that was detached. Compaction may take any revision but the current one. Left out: a root object that
is replaced, several branches.

### EditingContext

`persistentroots` holds the store's row of each root (current revision, deleted flag, transaction id). `loaded[c][p]` is
context c's instance of a root: its copy of the row, its branch's current revision, whether it has edits and a pending
deletion; `base`, which the code does not keep, is the row it was based on last. `Commit` is one action from the save
phase to the store's answer, because the context's thread does nothing else meanwhile; `DidCommit` is a second action, since other
processes may commit before the code reads the infos again. `RejectCommit` is the store's refusal: the assertion in
`-commitWithMetadata:...` raises, after ids and branches have moved. With `SurvivesExceptions` the application catches it
and continues, otherwise the process ends. `NotificationsOf` sends to every context, the author's own too.
`UndoOrRedo...` are transactions an undo track commits. Left out: creation of roots, several branches, cross
references.

Facts seen while modelling, which no run checks:

- A refused commit leaves the context's transaction ids one ahead (COEditingContext.m:810), so an application that catches
  the exception and commits again overwrites the other process's commit, which COStoreTransaction.h:13 and :46 exclude.
- A commit that raised leaves the branch at a revision that was never written (COBranch.m:718), and the next commit of
  such an application stores that. Runs therefore have `SurvivesExceptions = FALSE`; the proofs say which value they are for.
- A notification unloads a root that is only about to be deleted (COEditingContext.m:968), and the deletion is then not
  committed (COEditingContext.h:361 promises pending changes until a commit or a discard).
- Discarding all changes also discards a pending (un)deletion of an unloaded root.
- The transaction id of an unloaded root is kept and later used by an undo.

### UndoTrack

`objectStore` has each root's row, every revision written with its parent and its set of edits, and which of them are
stored still; `undoStore` has the commands, which of them are rows, which rows are marked as deleted, and a head and
current command per track. `memory` is what each `COUndoTrack` object caches: `_trackStateForName` (`states`), the parents
of the commands in `_commandsByUUID` (`parents`) and `_nodesOnCurrentUndoBranch` (`nodes`); a `PatternTrack` shows several tracks.
`Commit`, `Revert` and `SetDeleted` are commits recorded by `-recordCommand:` (whose notification reloads the other
objects within the same action, as the code does synchronously), `CommitUnrecorded` is somebody else's commit.
`SetCurrentNode` is `-setCurrentNode:` with `-setCurrentNodeToDivergentNode:` and, for a neighbour, `-undo` and `-redo`: the
steps along the nodes, or through the common ancestor, are done one after another on both stores (`Done`), as
`-addToStoreTransaction:...` and `-doCommand:...` do; then either both databases commit (`CommitMove`), or the process ends after the
first (`CrashInMove`), and all objects load anew. `UndoNode` and `RedoNode` undo selectively and record that.
An operation whose root is not at the revision expected merges, on sets of edits that do not conflict. The ghosts `baseline`
(edits no command is answerable for) and `interrupted` (commands a crash cut short, for good: another command may have been recorded over
what the crash left) serve `StoreFollowsTracks` only.

A move is one transaction, and its operations read what they need partly from the transaction and partly from the store. An operation that
merges takes the current revision from the transaction but asks the store for its content; when an earlier operation of the same move merged
into that root too, this is a revision not written yet, the store answers nil, and the old revision of the operation becomes the
content (`Merged`). The ghost `misapplied` collects, per root, the edits that such a merge lost or brought back (`WriteMerge`). `StoreFollowsTracks` makes an exception
for exactly these, and `OneMergeIsRight` says that only a move that writes two revisions of the root adds any.

This exception is a defect of the code, although `COCommandSetCurrentVersionForBranch.m:211` warns that whatever is read from the
context has to be read as if the transaction had been applied. With `Astray(p) = {}` as the invariant instead, TLC shows it under the
bounds of `UndoTrack.cfg` in five states: a recorded commit (revision 2), a recorded revert to revision 1, a foreign commit
(revision 3), and a jump back by two, to the placeholder. Undoing the revert merges into revision 3 and writes revision 4, with the
edits of 2 and 3; undoing the commit merges into revision 4, reads nothing, and writes the content of revision 2 as revision 5. The
foreign edit is lost, and the edit just undone is back.

Left out: coalescing, `-clear`, commands of several operations, branches and their metadata, and a track object of another process
(it hears by a distributed notification, and until then undoes from a stale cache).

### HistoryCompaction

`compaction` holds the phase of `-compactHistory:` and what `-compute` chose. `BeginCompaction` computes and marks the
commands, `CompactHistory` is the object store's transaction, `EndCompaction` is `-finalizeDeletions`; a crash
(`CrashInCompaction`) may come after each of the first two, and the application does nothing meanwhile, since it waits. `IsComputable` leaves out
compactions that raise (COUndoTrackHistoryCompaction.m:342: a live undeletion has no initial revision).
`CollectsCurrentRevision` says whether compactions are considered that collect the revision a root is at, or its head (`KeepsCurrentRevisions`):
the passing run leaves them out, and the run that expects a violation is about them. Also seen: a divergent command that `-finalizeDeletions` deletes
stays in the object's cache (COUndoTrackStore.m:670), so such an object begins no further compaction here; and a compaction
on a pattern track discards redoable commands of another track that are older than the current one, so `Compacted` has plain tracks only.

### ArrayDiff and ItemGraphDiff

`ArrayDiff` is diff.hh as written: the two searches (`ExtendForward`, `ExtendReverse`) with their vectors and bounds, the middle
snake where they meet, the recursion into both halves (a recursive function over boxes), and the grouping into insertions, deletions
and modifications; then the sorting and the application of edits from COArrayDiff.m, an array that is too short raising.

`ItemGraphDiff` makes the edits of each side (`EditsOf`), and adds them to `diffDict` in any order (`AddEdit`, one turn of a
loop over an unordered set; phases "diff" and "merge"). A clash with an edit that is there goes into a conflict that has that
edit, or into a new one. `ResolveConflicts` begins to favour a side, `RemoveConflict` is one turn of that loop, after which
the favoured edits of the conflict are added again. `Applied` has every result of applying the edits, as equal places are sorted
in no fixed order. Left out: items that are added or removed, attributes that change their type, and sub-diffs of
other algorithms (attributed strings), of which `-diffByMergingWithDiff:` drops those the other diff has none of
(CODiffManager.m:127).

Facts seen, which the properties make exceptions for:

- `COOverlappingRanges` (COSequenceEdit.m:13) lets an empty range overlap nothing. An insertion strictly inside what the other
  side deletes or replaces is no conflict, and is applied at a shifted index, which may be negative: old array [a, b], one
  side deletes both, the other inserts between them, and applying raises (`Stranded`).
- More generally, a conflict is what the code takes for one (`Clash`), and that is all `ConflictsFound` speaks of. Two tests expect more and
  have their expectations switched off: `testConflictingMixedSequenceEdit` (TestMerge.m:547), where both sides reorder a list in
  ways that cannot both be kept, and `testMoveAndDeleteOnOneToManyRelationship` (TestMerge.m:98), where one side removes what
  the other moves. The code, and so the model, reports none of the two.
- Two different insertions at one place are no conflict, and end up in an unspecified order (`Expected` allows both).
- After conflicts were resolved an inner item can be in two places (COItemGraphDiff.h:48-51 wants one), since the deletion gives
  way with its conflict and the insertion stays. `MergesAreGraphs` speaks of merges without conflicts.

### Synchronizer

A revision is a number into `history`, in order of creation, with its ancestors and the elements of a multivalued
attribute users insert into and remove from; a message names sets of revisions. `current` and `held` are the branch and
the store of each site; `lastSent`, `lastServer`, `inTransit` and `responding` are the instance variables of the same
names (shortened). `ServerReceives`, `ClientReceives` and `InsertItem`/`RemoveItem` each contain the handler, the commit
it makes *and* the notification of that commit, which sends further messages: all of that is one call stack. The JSON
server's `-processQueuedMessages` is also one call stack of the server, but clients receive and commit during it, so it
is one action per queued message with every other action of the server disabled. `Rebase` is `+rebaseRevision:...`
(`InOrder` lists the revisions to write again, the oldest first),
`Merge3` the merge of the two diffs restricted to one set (conflicting single-valued properties, settled in favour of
the pushing side, are left out). Assertions and exceptions of handlers put the site into `failed`, where it stops.
Assumed of the transport: order is kept between two sites; messages may be lost, not duplicated. A client is added
again by the server only if it was never set up. Left out: a pausing JSON client (it only delays), a client object that
joins with a store of an earlier session, and a transport that delivers within the sender's call.

## 3. Runs

| Run | Expected | Checks | Bounds |
|---|---|---|---|
| `backing_store` | pass | `DeltaRunsUnbroken`, `StoredGraphsComplete`, the inductive invariant `BackingStoreInv` with the types, `PartialGraphsSuffice`, and the refinement `ImplementsRevisionStore` | 3 revisions, row ids up to 3, delta runs of at most 3 rows |
| `object_graph_context_debug` | pass | `CommitsReadBack`, `DeltasCoverChanges`, `UnchangedContextIsCurrent` | 3 revisions, a collection at each commit |
| `object_graph_context_release` | violation | `CommitsReadBack` | a collection every third commit |
| `editing_context` | pass | `IdsProveFreshness`, `NoLostUpdate`, `QuietContextIsCurrent`, `CurrentRevisionsStored` | 2 contexts, 1 root, 2 revisions, 3 transactions, 1 lost notification |
| `editing_context_liveness` | pass | `StaleRootsAreReloaded` | 2 contexts, 1 root, 1 revision, 3 transactions, nothing lost |
| `undo_track` | pass | `StoreFollowsTracks`, `OneMergeIsRight`, `TracksShowTheStore`, `TrackRowsHold` | 2 tracks and a pattern over both, 1 root, 3 commands, 5 revisions, 1 crash |
| `history_compaction` | pass | `StoreFollowsTracks`, `TrackRowsHold`, `LiveRevisionsKept`, `RedoKept` | 1 track, 1 root, 3 commands, 4 revisions, 1 crash |
| `history_compaction_current` | violation | `CurrentRevisionKept` | the same without a crash |
| `synchronizer` | pass | `NoHandlerRaises`, `ParentsHeld`, `ClientsFollowServer`, `EditsMerged`, `ClientsConvergeUnpaused`, `ServerNeverReverts` | 2 clients, 4 events in all (commits, pauses, losses, removals) |
| `synchronizer_liveness` | pass | `SitesSettle` | 2 clients, 3 events |
| `synchronizer_paused` | violation | `ClientsConverge` | 2 clients, 4 events |
| `item_graph_diff` | pass | `DiffsRoundTrip`, `DiffsAreShortest`, `ConflictsFound`, `FavoredSideWins`, `MergesKeepBothSides`, `MergesAreGraphs` | the inputs below |

Why these bounds are enough to be interesting. Three revisions give a delta run with a middle row to delete, a row
rebuilt from a rebuilt row, and a top row whose id is used again. Three transactions on a root let a context commit,
another commit on a stale copy, and the first commit again; two revisions make every commit distinguishable from the
one before. Two roots add nothing to the contexts' invariants that a larger search found during development, and the proofs cover
any number. Three commands give a divergent branch with something on it and next to it, or two tracks that interleave on a root, and
the fourth revision a merge with a foreign commit; the fifth a move with two merges into one root; behaviours of two tracks or with no
command left end with it (`LongerOnOneTrack`), and a crash uses up one command of the bound (`ShorterAfterCrash`). In a
compaction, three commands leave one to discard, one to keep, and one undone or a deletion. Four events in the synchronizer are a
push in transit, a concurrent commit at the server and two more local commits: the smallest case in which a rebase moves two revisions. The
inputs of the diffs are: an array of three elements that both sides change to any array of at most three elements over four, or
remove; a set, a value and an added array on which both sides do anything; and three inner items in two lists that both
sides reorder, move and remove at will. That is every way two edits can touch, overlap or enclose each other.

Deadlock is checked in the runs of backing store, object graph context and editing contexts. The others may stop: everybody is
done, the bounds are used up, or the merge is finished. `MaxRevid`, `MaxRevision`, `MaxTransactionID`, `MaxSequenceNumber`,
`MaxLosses`, `MaxCrashes`, `MaxEvents` bound counters; `MaxNumberOfDeltaCommits` and `GCInterval` are the code's own limits, made
small.

Fairness. `EditingContext!Fairness`: a commit in progress ends (it is straight-line code), and a run loop that comes back
again and again delivers the notifications that wait (strong fairness, because a commit disables delivery for a while).
`Synchronizer!Fairness`: something is delivered or handled as long as there is something, and a paused server is unpaused
in the end (the demo pauses it while a text field is edited). Users are never assumed to act. Lost messages make the
property vacuous (`losses = 0 => ...`), since the protocol has no timeouts and does not retry.

What the violations show is in `PROJECT.json` under `findings`, with the lines of code and of documentation that disagree:

- a release build that collects unreachable objects rarely can commit a revision that lacks an object attached again;
- a compaction that discards every command of a root can collect the revision the root is at;
- a server that was paused sends queued messages behind newer ones, and a client that gets the newer first stays behind.

Every property of a passing run comes with a mutant (`Mutant...` next to the definition it replaces), a plausible mistake
in that code which makes the property fail.

## 4. Proofs

`ContextAndStoreProofs` proves of `BackingStore`, for all sets of revisions and items, every limit of delta runs and any number of rows:

- `BackingStoreInvariant`: `Spec => []BackingStoreInv`;
- `TypeCorrect` and `DeltaRunsNeverBreak`, which follow from it.

`DeltaRunsUnbroken` says that a delta's parent is stored and in the delta's run (or is where the run begins), so that the
walk down the rows meets every row it needs. It is not inductive: a deletion marks rows first and rebuilds the deltas above
them one by one, and removing the marked rows is safe only because none is left to rebuild. `RebuildsPending` says
exactly that: a surviving delta whose parent is marked is either still in `rebuildRevids` or a snapshot already.
`UUIDsUnique` is needed because the row a write takes as parent is found by its UUID. The proof has one lemma per
action; lemmas about the greatest and least row id, about merging and about reachability carry the data. Assumptions
are those the modules name: `NoRevision` is no revision, the limits are natural numbers, and item data refer to items.

And, under the same assumptions:

- `BackingStoreImplements`: `Spec => ImplementsRevisionStore`. Rows may be renumbered, rebuilt as snapshots, or marked and
  deleted in passes; what can be read never changes, and revisions only come and go whole;
- `StoredGraphsStayComplete` and `PartialGraphsAlwaysSuffice`: `Spec => []StoredGraphsComplete`, `Spec => []PartialGraphsSuffice`.

A read scans rows downwards and overlays every row of the run it meets, also those of deleted branches, so it drags items along that
belong to no ancestor. This is harmless only because they are unreachable: a *complete* graph, in which every reference of a reachable item
leads to an item, decides what is reachable in any graph that holds it (`CompleteGraphDecides`). `StoredGraphsComplete` is the
invariant that makes this usable: each snapshot is complete, and each delta together with the reachable part of what its parent reads
back as. From it, a delta reads back as its items over what its parent reads back as, however far the scan goes
(`ReadBackIsWhole`); and by induction along the run, as the least row that would go wrong, a step that keeps deltas, and turns
other rows into snapshots of what they read back as, changes nothing that can be read (`KeptRowsReadBack`). All three passes of a
deletion are such steps, and a write adds one row above the others.

The module then takes these through the composition with `ObjectGraphContext`: every action of a context is one of the store's or leaves the store alone.

- `ContextTypes`: `ContextSpec => []ContextTypeOK`, for any `GCInterval`;
- for `GCInterval = 1`, which is what debug builds have: `CommitsAlwaysReadBack`, `DeltasAlwaysCoverChanges`,
  `UnchangedContextStaysCurrent`, and `UnmarkedObjectsStored`, that every object in memory that is not marked as changed is
  stored with the current revision as it is.

The last is what makes the others inductive: a delta holds the marked objects that are reachable, so an unmarked one must be in the parent already. A
longer interval between collections breaks it (an object detached, left out of a commit and attached again is unmarked and
not stored: the finding of `object_graph_context_release`), so the theorems carry the interval as a hypothesis.

`EditingContextProofs` proves, for all sets of contexts and roots, any bounds and either value of
`SurvivesExceptions`:

- `ContextTypeCorrect` and `IdsAlwaysProveFreshness`: `Spec => []TypeOK` and `Spec => []IdsProveFreshness`;
- `NoUpdateIsLost`: `Spec => NoLostUpdate`.

Their conjunction `Inv` is inductive as it stands. A step touches the instances and the ids of one context, and every row
it changes gets the next id (`StepOf`); so what holds of the ids of all other contexts still does, since they are now too low
to be accepted, and one lemma per action has only to look at the context that takes the step. `DidChangeInv` is about
`-storePersistentRootsDidChange:isDistributed:` and serves notifications and undo alike. `NoLostUpdate` then needs that
only an accepted commit starts the refresh after a commit (`OnlyAcceptStarts`). Contexts in `raised`, whose
application went on after an exception, are exempt: see the first fact under *EditingContext*.

The second part of the module proves, for all sets of contexts and roots and any bounds:

- `QuietContextsAreCurrent`: `Spec => []QuietContextIsCurrent`, for either value of `SurvivesExceptions`. The property speaks of
  contexts with nothing outstanding, so the invariant has to say what is outstanding for the others. `Heard` does: as long as
  no notification was lost, a context whose id for a loaded root is not the store's has a notification on its way with a
  higher id, and so will not ignore it; and once the id is the store's and no refresh is due, the copy of the row is the row.
  The hard part is that one delivery may concern several roots and that newer notifications overtake older ones;
  `HeardStep` reduces every action to its own context, since an announced row has an id no other context has yet.
- `CurrentRevisionsAlwaysStored`: `Spec => []CurrentRevisionsStored`, under `~SurvivesExceptions`, which the proof needs (the
  second fact under *EditingContext* is what happens without). `Stored` adds that what a context has loaded is stored too, since undo,
  revert and commit write rows from that.

`UndoTrackProofs` proves, for all sets of tracks, patterns and roots, and any number of commands, revisions and crashes:

- `UndoTypes`: `Spec => []UndoTypeOK`;
- `TracksAlwaysShowTheStore` and `TrackRowsAlwaysHold`: `Spec => []TracksShowTheStore` and `Spec => []TrackRowsHold`.

The invariant `UndoInv` has four parts: revisions and rows of roots fit each other (`ObjectsOK`); every track's current command is on the
branch of its head, and no row is gone (`StoreOK`); the revisions that commands name exist (`CommandsFit`); and what each track
object shows is the store's (`AllShow`, which says of the nodes that they are `Nodes`, a function of the store alone). Commands
are a tree whose parents have smaller numbers; `Up` gives a command's ancestors as the recursive function of the module does, and its
facts are proved once, as is that there is one way to put numbers in order. Then the walks: the nodes of an object are *in line* (`InLine`: each
command is behind the one it was recorded on, and the applied ones come first), also for a pattern whose commands of several
tracks interleave by number; so a move to a node that is shown is a walk along a line (`StraightMove`), and one to a divergent node
is a walk back to the common ancestor and another along the target's branch (`DivergentMove`). Each step of a walk keeps the two stores
consistent (`StepMoves`), an induction over the steps puts them together (`MoveSteps`), and a crash leaves the old undo store, of
which all objects are loaded again.

The second part of the module adds

- `StoreAlwaysFollowsTracks`: `Spec => []StoreFollowsTracks`, with the exception for `misapplied` edits that the property states;
- `OneMergeIsAlwaysRight`: `Spec => OneMergeIsRight`, that this exception is no wider than it has to be.

What the tracks say of an edit is what the last
applied command that touches it says (`Tells`). That a root holds what the tracks say is not inductive: an undo takes the root to what was
there *before* the command, and so `Follows` says two things of every edit: it is held as told, and each command that touches it was
recorded over what the commands before it on its track said (`RecordedOver`). Both are claimed for an edit that only commands of one track
touch and none that a crash cut short; the property exempts the others. A step is legal when its command is the last applied
of its track, or the next one, which walks along lines ensure (`WalkIsLegal`); a legal step changes the edits its command touches to what
`RecordedOver` or the command itself says (`StepFollows`), whether the root was at the revision expected or the step merged
(`HeldBut`: but for what a second merge misapplied, which nothing is claimed of any more).
A recorded commit touches exactly the edits it changed (`CommandTouches`); a foreign commit adds an edit that nothing touches; of a crash,
only the interrupted commands' edits may have changed (`UntouchedStay`). For the second theorem, `Walked` compares the store between two steps of a
move with the store before the move: a root's current revision is one the store had, or the move has written a revision of the root; and what is
misapplied is unchanged, or it has written two. Every operation names revisions the store had (`Complete`), so each step keeps this (`OperationWalks`).

`HistoryCompactionProofs` proves, for all sets of tracks, patterns, roots and compacted objects, and any number of commands, revisions,
compactions and crashes:

- `CompactionTypes` and `TrackRowsHoldCompacted`: `CompactionSpec => []CompactionTypeOK` and `CompactionSpec => []TrackRowsHold`;
- under `OnlyTrack` and `~CollectsCurrentRevision`: `LiveRevisionsAlwaysKept`, that is `CompactionSpec => []LiveRevisionsKept`.

Rows go away here, so the tree of commands has holes, track objects remember commands that are gone and may move to them, and little
of `UndoInv` is left. What holds is `FitsInv`: `StoreFits` (a track's head is a row, its current command a row and an ancestor of it) and, of each
object, `MemoryFits`: its parents are those that were recorded, or none; its nodes are commands it has, closed under the walk
to the parent as far as that is known; and an object of a plain track has every live row of it. Enough of a walk remains: what an
object walks up are ancestors (`FoundIsTree`, `LineageLemma`), so that a new current command is on the branch of the new head
(`HeadAfter`), and the steps of a move name commands the object has (`MoveStepsFit`). All actions of the tracks keep this
(`TracksStay`), as does each phase of a compaction; deleting rows leaves the heads of the tracks that stay (`FinalizeFits`).

What is kept is `AllKept`: each root has its current revision and its head, or was finalized and is marked as deleted; and each command
*in use*, a live row or one that any object remembers, finds its root and its revisions. Undo and redo write only revisions they just found
or made, so this is stable, and while a compaction is under way it is also claimed of what the object store will be after it (`Collected`).
The crux is `ComputedKeeps`, that `-compute` chooses well: what is left of the commands after the notifications reloaded the
objects is what it computed from (`ComputedUses`), a live command's root is never finalized, and its revisions are not before the
first live one. Both assumptions are needed. With two tracks, a compaction of the one does not ask what the commands of the other
need; `OnlyTrack` says that compacted objects show the only track there is, as in the run. Without the second, a compaction can collect
what a root is at, which is the finding of `history_compaction_current`. (That the current revision is kept under this assumption is
part of `AllKept`, but no theorem: at the only step that could collect it, it is what the assumption says.)

`ItemGraphDiffProofs` and, where edits are applied, `DiffApplicationProofs` prove, for arrays of any length, and graphs with any attributes and elements:

- `MiddleSnakeFacts`: the two searches of the array difference meet, at a point that splits the box into two smaller ones: the code's
  exception "should never come here" is never raised, and the recursion ends;
- `DiffArraysFacts`: the edits of an array are apart, in order, and in the array;
- `DiffRoundTrip`: `Spec => []DiffsRoundTrip`, the difference of two graphs, applied to the first, gives the second;
- `MergesKeepSides`: `Spec => []MergesKeepBothSides`, a merge without conflicts applies, whatever order edits are sorted in, and gives
  what the two sides made of an array, each edit where its side made it;
- `DiffTypes`, `Conflicts` and `Resolving`: `Spec => []DiffTypeOK`, `Spec => []ConflictsFound` and `Spec => []FavoredSideWins`;
- `OwnEdits`: `Spec => []OwnEditsAgree`, the edits of one side never conflict.

*The searches.* Each round of a search goes at least one diagonal step further (`ForwardGoesOn`, `ReverseGoesOn`), so after half of the
steps that the two sides of a box have, on the diagonals that they share one has passed the other (`SharedDiagonals`, `MeetsInside`);
in the round before it had not, which keeps the meeting point off the corners (`FirstRoundNotMet`). `LCSFacts` then goes by induction over
the size of boxes.

*The round trip.* `AreMatched` says that a set of pairs of positions is a common subsequence and that it covers what is in no range;
the recursion of `LCS` puts it together box by box, and `Modified` keeps it (`DiffRanges`). `EditsMade` is the invariant of the loop of
`CreateDiffs` that relates it to the application of what it has emitted: up to the positions it has come to, the array is already
the new one; behind them it is the old one, shifted by the difference of the positions; and no index was out of the array. As edits begin at distinct
positions, sorting has one outcome (`OneOrder`) and none is taken for a repetition (`AllMade`). Sets, and attributes that are
added, removed or replaced, are cases of their own (`RoundTripAt`).

*Merged arrays.* In a diff without conflicts, clashing edits are equal (`ReadyAgrees`), so those of an array fit together (`Fits`,
`BothSidesFit`): none reaches into what another takes away, and at one place there are at most two, which are the same or of which one is an
insertion. Hence the need for `Stranded` in the property: an insertion inside of what the other side took away clashes with nothing. `Holds`
is the state of the application between two edits: the array is what came of the elements before the last place, what its edits
put there, and the rest of the old array; the one shift moves later places to the rest, the other one later edits of this place to
before what was put there (`NextPlace`, `SamePlace`). `Comes` says that what is expected of the merge begins with just that; it follows the
recursion of `Expected` from place to place, over those where nobody did anything (`PutRun`) and those that are gone (`PutNothing`).
The induction goes over places, not edits (`NextGroup`), as the same edit of both sides is made once, when its second copy comes, and
as the order of two insertions at one place is left to the sort.

*The conflicts.* `DiffInv` is inductive. `Gathered` says where every edit is, in the diff or still to be added; `Recorded`, that edits that
clash share a conflict; `TheirsRecorded`, that while conflicts are resolved, an edit of the other side that clashes with one of the favoured
side is still in a conflict, even when the latter is just taken out; `Opposed`, that an edit in a conflict clashes with one of the
other side; and `Grown`, that a conflict of edits that differ has two that differ *and clash*, since it grows by clashing ones only. That
edits of one side never clash comes from `DiffArraysFacts` and from graphs having an inner item in one place (`EditsOfOneSide`).

`SynchronizerProofs` proves, for all sets of clients and any number of commits, pauses, lost messages and removed clients:

- `SynchronizerCorrect`: `Spec => []SynchronizerInv`;
- `HandlersNeverRaise`, `ParentsAlwaysHeld` and `ClientsAlwaysFollow`: `Spec => []NoHandlerRaises`, `Spec => []ParentsHeld` and
  `Spec => []ClientsFollowServer`;
- `ServerKeepsItsLine`: `Spec => ServerNeverReverts`.

None of these is inductive, because a handler relies on what a message says about two sites at the moment it was sent.
`SynchronizerInv` says what stays true of it until it arrives, whether it is on its way or in the queue of a paused
server. `ClientOK`: what a client knows of the server is on the line of the server's branch and in its own store, and
what it has committed since the push in transit is not on the server. `PushOK`: a push starts at a revision the server
has kept, ends at the one in transit, and the server has nothing of it; with `OnePush`, that at most one push of a client
is under way, this is why no revision is written twice. `AnswerOK`: a message to a client is a run of consecutive revisions
of the server's branch, and what it answers the server has. `StoreOK`: a store is closed below its first revision, which
is how `ParentsHeld` survives a lost message. `StoresApart`, that two clients share only what the server has too, keeps one client's
commits out of another's way. Histories only grow (`Grown`), so what holds of the lines of revisions written earlier still does
(`ClientOKKept`, `PushOKKept`, `AnswerOKKept`). A handler contains the notification it causes, so the proofs follow
the calls: `NotifyClientsNotifies` and `SendPushSends` say what is sent, `ServerStepInv` and `ClientStepInv` what one site may do
without disturbing the others, and one lemma per action puts them together.

`SynchronizerMergeProofs` adds, for the same constants:

- `SynchronizerTypes` and `EditsAlwaysMerge`: `Spec => []TypeOK` and `Spec => []EditsMerged`;
- `ClientsAlwaysConverge`: `Spec => []ClientsConvergeUnpaused`.

*What rebases compute.* `RebasedItems` folds three-way merges over the revisions to write again; the fold is opened once
(`RebasedItemsAre`, `OrderClimbs`, `RebaseRewrites`): each new revision has the merge of the one it replaces, with that one's
parent as ancestor, into the one before it. What can be said of such a merge is not about items alone, since an item
that is absent may be new to the one side or removed by it. So a revision *knows* the items that it or an ancestor has
(`Seen`), and those of them that it has no more (`Gone`); it has `Seen \ Gone`. `Covers` compares knowledge, and a rebase gives a
revision that covers both the revision it replaces and the one it is put on and knows nothing else
(`RebaseKnows`), provided the two have in common only what their common ancestor knew. `KnowledgeInv` makes that
available: the server and a client share only what their `Base` knew (the push in transit once the server has it, else the
last revision the client knows of the server; `BasesKnown`), two clients only what the server knows (`ClientsApart`). It also says
that every edit is known to a site (`NothingForgotten`). Users insert different items in the model, as objects have different UUIDs.

*What quiescence brings.* `AnswersDue`: as long as nothing was lost, a client with a push in transit has the push under way, or
an answer under way that starts where the client is; so with nothing under way nobody waits, each client is on the server's line, the
server's revision covers what all sites know, and `EditsMerged` follows. This holds whether or not the server was paused.
For convergence `ReachInv` says in addition, while the server was never paused, that each client has a push on its way to the
server or is in one of three situations: to be set up, with what follows; with nothing of its own, and what is under way leads from its revision to the
server's (`Following`); or with a push in transit, and from the answer on what is under way leads there (`Answered`; what comes before
the answer is ignored). `Leads` is a chain of pushes, each starting where the one before it ends. A paused
server breaks the chain, which is the third of the findings above.

Only model-checked: `RedoKept`, and that roots hold what the tracks say across compactions (`StoreFollowsTracks` under `CompactionSpec`);
that differences are as short as possible (`DiffsAreShortest`), and that a merge leaves each inner item in one place (`MergesAreGraphs`);
and liveness (fairness is out of the provers' reach). Inductions in the proofs are all of one form, the least
number that would go wrong (`LeastNumber`, `LeastRow`), since the theorems of the libraries that take a predicate cannot be instantiated.

## 5. Not modelled

- *Store*: creation of roots, cheap copies, several branches, rollback of a failed transaction and the caches of backing stores
  that survive it. `EditingContext` refuses a transaction before it writes, and roots have one branch throughout. A model of
  the rest would be SQLite's own atomicity under another name, except for the caches, which `PROJECT.json` lists as a hazard without a
  property.
- *Pull synchronization*: writes a graph of revisions parents first; listed as a hazard without a property.
- *Common ancestors, attributed strings, diff managers*: the second is an algorithm of its own over character ranges;
  the others are small functions without state.
- *Undo*: coalescing, clearing, several processes on one track, commands on branches and metadata.
- *Objects*: relationship caches, dead cross references and collections are derived data, rebuilt from the items after each
  reload. Their updates go through the metamodel and through Objective-C accessors, which a model would have to invent.
- *Copier, schema migration, attachments, search index, binary and JSON formats, localized descriptions*: mappings of data with little
  state or control.
- *Samples, benchmarks, tests, the model library, debugging aids and the vendored SQLite wrapper*, which is taken to be a
  transactional table store.
