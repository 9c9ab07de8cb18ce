------------------------ MODULE EditingContextProofs ------------------------
(***************************************************************************)
(* The transaction ids of the editing contexts do their work, for any      *)
(* number of contexts and roots and whichever notifications are late or    *)
(* lost.                                                                   *)
(*                                                                         *)
(* Inv, the conjunction of the types and of IdsProveFreshness, is          *)
(* inductive.  A step changes the instances and the ids of one context     *)
(* only (StepOf), and the rows it changes get the next id: for the other   *)
(* contexts these ids are too high to be accepted.  So a lemma per action  *)
(* shows that the context that takes the step is in order.  NoLostUpdate   *)
(* follows, since only an accepted commit, which compares the ids, starts  *)
(* the refresh after a commit (OnlyAcceptStarts).                          *)
(***************************************************************************)
EXTENDS EditingContext, TLAPS

-----------------------------------------------------------------------------
(* Instances and rows                                                      *)

LEMMA InstanceForType ==
  ASSUME NEW row \in Row
  PROVE  InstanceFor(row) \in Instance /\ InstanceFor(row).base = row
BY DEF InstanceFor, Instance, Row

LEMMA ReloadedType ==
  ASSUME NEW i \in Instance, NEW row \in Row
  PROVE  Reloaded(i, row) \in Instance /\ Reloaded(i, row).base = row
BY DEF Reloaded, InstanceFor, Instance, Row

LEMMA InstanceWithRow ==
  ASSUME NEW i \in Instance, NEW row \in Row
  PROVE  /\ [i EXCEPT !.base = row] \in Instance
         /\ [i EXCEPT !.base = row].base = row
         /\ [i EXCEPT !.info = row] \in Instance
         /\ [i EXCEPT !.info = row].base = i.base
BY DEF Instance

LEMMA InstanceAtRevision ==
  ASSUME NEW i \in Instance, NEW r \in Revision
  PROVE  /\ [i EXCEPT !.current = r, !.dirty = FALSE] \in Instance
         /\ [i EXCEPT !.current = r, !.dirty = FALSE].base = i.base
         /\ [i EXCEPT !.current = r, !.dirty = FALSE].current = r
BY DEF Instance

LEMMA InstanceEdited ==
  ASSUME NEW i \in Instance,
         NEW mark \in {"none", "deletion", "undeletion"}
  PROVE  /\ [i EXCEPT !.dirty = TRUE] \in Instance
         /\ [i EXCEPT !.dirty = TRUE].base = i.base
         /\ [i EXCEPT !.pending = mark] \in Instance
         /\ [i EXCEPT !.pending = mark].base = i.base
         /\ Discarded(i) \in Instance
         /\ Discarded(i).base = i.base
BY DEF Discarded, Instance, Row

LEMMA SavedType ==
  ASSUME TypeOK, NEW p \in PersistentRoot, NEW i \in Instance,
         i.dirty => drawn[p] < MaxRevision
  PROVE  Saved(i, p) \in Instance /\ Saved(i, p).base = i.base
<1>1. CASE i.dirty
  <2>1. drawn[p] + 1 \in Revision
    BY <1>1, EditingContextAssumption DEF TypeOK, Revision
  <2> QED
    BY <1>1, <2>1, InstanceAtRevision DEF Saved
<1>2. CASE ~i.dirty
  BY <1>2 DEF Saved
<1> QED
  BY <1>1, <1>2

LEMMA CommittedRowType ==
  ASSUME TypeOK, NEW p \in PersistentRoot, NEW i \in Instance,
         i.dirty => drawn[p] < MaxRevision,
         persistentroots[p].transactionID < MaxTransactionID
  PROVE  /\ CommittedRow(i, p) \in Row
         /\ CommittedRow(i, p).transactionID = persistentroots[p].transactionID + 1
<1> DEFINE current == IF HasChanges(i) THEN Saved(i, p).current
                      ELSE persistentroots[p].current
           deleted == CASE i.pending = "deletion"   -> TRUE
                        [] i.pending = "undeletion" -> FALSE
                        [] OTHER -> persistentroots[p].deleted
           id == persistentroots[p].transactionID + 1
<1>1. persistentroots[p] \in Row
  BY DEF TypeOK
<1>2. current \in Revision
  BY <1>1, SavedType DEF Instance, Row
<1>3. deleted \in BOOLEAN
  BY <1>1 DEF Row
<1>4. id \in TransactionID
  BY <1>1, EditingContextAssumption DEF Row, TransactionID
<1>5. CommittedRow(i, p) = [current |-> current, deleted |-> deleted, transactionID |-> id]
  BY DEF CommittedRow
<1> HIDE DEF current, deleted, id
<1>6. CommittedRow(i, p) \in Row /\ CommittedRow(i, p).transactionID = id
  BY <1>2, <1>3, <1>4, <1>5 DEF Row
<1> QED
  BY <1>6 DEF id

-----------------------------------------------------------------------------
(* The invariant, split into what a step of one context can change of it   *)

Inv == TypeOK /\ IdsProveFreshness

IsInstances(f) ==
  DOMAIN f \subseteq PersistentRoot /\ \A p \in DOMAIN f : f[p] \in Instance

(* TypeOK but for the instances and the ids. *)
OthersTypeOK ==
  /\ persistentroots \in [PersistentRoot -> Row]
  /\ revisions \in [PersistentRoot -> SUBSET Revision]
  /\ drawn \in [PersistentRoot -> Revision]
  /\ losses \in 0 .. MaxLosses
  /\ \A n \in notifications : IsNotification(n)
  /\ orphans \in [Context -> SUBSET PersistentRoot]
  /\ committing \in [Context -> SUBSET PersistentRoot]
  /\ raised \subseteq Context

(* IdsProveFreshness for one root, with the ids and the instances inst of  *)
(* one context.                                                            *)
FreshAt(ids, inst, rows, p) ==
  /\ ids[p] <= rows[p].transactionID
  /\ p \in DOMAIN inst => inst[p].base.transactionID = ids[p]
  /\ p \in DOMAIN inst /\ ids[p] = rows[p].transactionID =>
       inst[p].base = rows[p]

(* Inv, with the context's properties by name. *)
LEMMA InvParts ==
  ASSUME Inv
  PROVE  /\ OthersTypeOK
         /\ DOMAIN loaded = Context
         /\ \A d \in Context : IsInstances(loaded[d])
         /\ lastTransactionID \in [Context -> [PersistentRoot -> Nat]]
         /\ \A d \in Sound, p \in PersistentRoot :
              FreshAt(lastTransactionID[d], loaded[d], persistentroots, p)
BY DEF Inv, TypeOK, OthersTypeOK, IsInstances, IdsProveFreshness, FreshAt,
       IdAccepted, Sound

(* A step of context c: the rows it changes get the next id.               *)
LEMMA StepOf ==
  ASSUME Inv, NEW c \in Context, NEW inst, NEW ids,
         IsInstances(inst), ids \in [PersistentRoot -> Nat],
         loaded' = [loaded EXCEPT ![c] = inst],
         lastTransactionID' = [lastTransactionID EXCEPT ![c] = ids],
         OthersTypeOK',
         \A p \in PersistentRoot :
            \/ persistentroots'[p] = persistentroots[p]
            \/ persistentroots'[p].transactionID = persistentroots[p].transactionID + 1,
         raised \subseteq raised' \cup {c},
         c \notin raised' => \A p \in PersistentRoot :
                              FreshAt(ids, inst, persistentroots', p)
  PROVE  Inv'
<1>1. /\ DOMAIN loaded' = Context
      /\ \A d \in Context : IsInstances(loaded'[d])
      /\ lastTransactionID' \in [Context -> [PersistentRoot -> Nat]]
  BY InvParts
<1>2. TypeOK'
  BY <1>1 DEF OthersTypeOK, TypeOK, IsInstances
<1>3. ASSUME NEW d \in Sound', NEW p \in PersistentRoot
      PROVE  FreshAt(lastTransactionID'[d], loaded'[d], persistentroots', p)
  <2>1. CASE d = c
    BY <1>3, <2>1, InvParts DEF Sound
  <2>2. CASE d # c
    <3>1. d \in Sound /\ d \in Context
      BY <1>3, <2>2 DEF Sound
    <3>2. FreshAt(lastTransactionID[d], loaded[d], persistentroots, p)
      BY <3>1, InvParts
    <3>3. lastTransactionID'[d] = lastTransactionID[d] /\ loaded'[d] = loaded[d]
      BY <2>2, <3>1, InvParts
    <3>4. lastTransactionID[d][p] \in Nat /\ persistentroots[p].transactionID \in Nat
      BY <3>1, InvParts DEF OthersTypeOK, Row, TransactionID
    <3> QED
      BY <3>2, <3>3, <3>4 DEF FreshAt
  <2> QED
    BY <2>1, <2>2
<1>4. IdsProveFreshness'
  BY <1>3 DEF IdsProveFreshness, FreshAt, IdAccepted, Sound
<1> QED
  BY <1>2, <1>4 DEF Inv

(* A step of c that touches neither the store nor the ids, nor what its    *)
(* instances are based on.                                                 *)
LEMMA LocalStep ==
  ASSUME Inv, NEW c \in Context, NEW inst,
         IsInstances(inst),
         \A p \in DOMAIN inst : p \in DOMAIN loaded[c] /\ inst[p].base = loaded[c][p].base,
         loaded' = [loaded EXCEPT ![c] = inst],
         orphans' \in [Context -> SUBSET PersistentRoot],
         committing' \in [Context -> SUBSET PersistentRoot],
         UNCHANGED <<storeVars, channelVars, lastTransactionID, raised>>
  PROVE  Inv'
<1> DEFINE ids == lastTransactionID[c]
<1>1. OthersTypeOK'
  BY InvParts DEF OthersTypeOK, storeVars, channelVars, IsNotification
<1>2. lastTransactionID' = [lastTransactionID EXCEPT ![c] = ids]
  BY InvParts
<1>3. ids \in [PersistentRoot -> Nat]
  BY InvParts
<1>4. /\ \A p \in PersistentRoot : persistentroots'[p] = persistentroots[p]
      /\ persistentroots' = persistentroots /\ raised' = raised
  BY DEF storeVars
<1>5. c \notin raised' => \A p \in PersistentRoot : FreshAt(ids, inst, persistentroots', p)
  BY <1>4, InvParts DEF FreshAt, Sound
<1> HIDE DEF ids
<1> QED
  BY <1>1, <1>2, <1>3, <1>4, <1>5, StepOf

-----------------------------------------------------------------------------
(* Steps inside one context                                                *)

LEMMA InitInv ==
  ASSUME Init
  PROVE  Inv
<1>1. 1 \in Revision /\ 1 \in TransactionID /\ 0 \in 0 .. MaxLosses
  BY EditingContextAssumption DEF Revision, TransactionID
<1>2. \A c \in Context : loaded[c] = << >> /\ DOMAIN loaded[c] = {}
  <2>1. DOMAIN << >> = {}
    OBVIOUS
  <2>2. \A c \in Context : loaded[c] = << >>
    BY DEF Init
  <2> QED
    BY <2>1, <2>2, Zenon
<1>3. \A p \in PersistentRoot : persistentroots[p] \in Row
  BY <1>1 DEF Init, Row
<1>4. TypeOK
  BY <1>1, <1>2, <1>3 DEF Init, TypeOK
<1>5. IdsProveFreshness
  BY <1>2 DEF Init, IdsProveFreshness, Sound
<1> QED
  BY <1>4, <1>5 DEF Inv

LEMMA LoadInv ==
  ASSUME Inv, NEW c \in Context, NEW p \in PersistentRoot, Load(c, p)
  PROVE  Inv'
<1> DEFINE inst == [q \in DOMAIN loaded[c] \cup {p} |->
                      IF q = p THEN InstanceFor(persistentroots[p]) ELSE loaded[c][q]]
           ids == [lastTransactionID[c] EXCEPT ![p] = persistentroots[p].transactionID]
<1>1. persistentroots[p] \in Row /\ persistentroots[p].transactionID \in Nat
  BY InvParts DEF OthersTypeOK, Row, TransactionID
<1>2. InstanceFor(persistentroots[p]) \in Instance
      /\ InstanceFor(persistentroots[p]).base = persistentroots[p]
  BY <1>1, InstanceForType
<1>3. IsInstances(inst)
  BY <1>2, InvParts DEF IsInstances
<1>4. ids \in [PersistentRoot -> Nat]
  BY <1>1, InvParts
<1>5. /\ loaded' = [loaded EXCEPT ![c] = inst]
      /\ lastTransactionID' = [lastTransactionID EXCEPT ![c] = ids]
  BY InvParts DEF Load
<1>6. /\ OthersTypeOK'
      /\ persistentroots' = persistentroots /\ raised' = raised
  BY InvParts DEF Load, OthersTypeOK, storeVars, channelVars, IsNotification
<1>7. ASSUME c \notin raised', NEW q \in PersistentRoot
      PROVE  FreshAt(ids, inst, persistentroots', q)
  <2>1. FreshAt(lastTransactionID[c], loaded[c], persistentroots, q)
    BY <1>6, <1>7, InvParts DEF Sound
  <2>2. CASE q = p
    BY <1>1, <1>2, <1>6, <2>2, InvParts DEF FreshAt
  <2>3. CASE q # p
    BY <1>6, <2>1, <2>3, InvParts DEF FreshAt
  <2> QED
    BY <2>2, <2>3
<1> HIDE DEF inst, ids
<1> QED
  BY <1>3, <1>4, <1>5, <1>6, <1>7, StepOf

LEMMA UnloadInv ==
  ASSUME Inv, NEW c \in Context, NEW p \in PersistentRoot, Unload(c, p)
  PROVE  Inv'
<1> DEFINE inst == Without(loaded[c], {p})
<1>1. IsInstances(inst) /\ \A q \in DOMAIN inst : /\ q \in DOMAIN loaded[c]
                                                 /\ inst[q].base = loaded[c][q].base
  BY InvParts DEF Without, IsInstances
<1>2. orphans' \in [Context -> SUBSET PersistentRoot]
  BY InvParts DEF OthersTypeOK, Unload
<1>3. committing' \in [Context -> SUBSET PersistentRoot]
  BY InvParts DEF OthersTypeOK, Unload
<1>4. loaded' = [loaded EXCEPT ![c] = inst]
  BY DEF Unload
<1>5. UNCHANGED <<storeVars, channelVars, lastTransactionID, raised>>
  BY DEF Unload
<1> HIDE DEF inst
<1> QED
  BY <1>1, <1>2, <1>3, <1>4, <1>5, LocalStep

(* One instance is replaced by i, which is based on the same row. *)
LEMMA InstanceChanged ==
  ASSUME Inv, NEW c \in Context, NEW p \in DOMAIN loaded[c], NEW i \in Instance,
         i.base = loaded[c][p].base,
         loaded' = [loaded EXCEPT ![c] = [loaded[c] EXCEPT ![p] = i]],
         UNCHANGED <<storeVars, channelVars, orphans, lastTransactionID, committing, raised>>
  PROVE  Inv'
<1> DEFINE inst == [loaded[c] EXCEPT ![p] = i]
<1>1. IsInstances(inst) /\ \A q \in DOMAIN inst : /\ q \in DOMAIN loaded[c]
                                                 /\ inst[q].base = loaded[c][q].base
  BY InvParts DEF IsInstances
<1>2. orphans' \in [Context -> SUBSET PersistentRoot]
      /\ committing' \in [Context -> SUBSET PersistentRoot]
  BY InvParts DEF OthersTypeOK
<1> HIDE DEF inst
<1>3. loaded' = [loaded EXCEPT ![c] = inst]
  BY DEF inst
<1> QED
  BY <1>1, <1>2, <1>3, LocalStep

LEMMA EditInv ==
  ASSUME Inv, NEW c \in Context, NEW p \in PersistentRoot, Edit(c, p)
  PROVE  Inv'
<1> DEFINE i == [loaded[c][p] EXCEPT !.dirty = TRUE]
<1>1. p \in DOMAIN loaded[c] /\ loaded[c][p] \in Instance
  BY InvParts DEF Edit, IsInstances
<1>2. i \in Instance /\ i.base = loaded[c][p].base
  BY <1>1, InstanceEdited
<1>3. loaded' = [loaded EXCEPT ![c] = [loaded[c] EXCEPT ![p] = i]]
  BY DEF Edit
<1> HIDE DEF i
<1> QED
  BY <1>1, <1>2, <1>3, InstanceChanged DEF Edit

LEMMA SetCurrentRevisionInv ==
  ASSUME Inv, NEW c \in Context, NEW p \in PersistentRoot, NEW r \in revisions[p],
         SetCurrentRevision(c, p, r)
  PROVE  Inv'
<1> DEFINE i == [loaded[c][p] EXCEPT !.current = r, !.dirty = FALSE]
<1>1. p \in DOMAIN loaded[c] /\ loaded[c][p] \in Instance /\ r \in Revision
  BY InvParts DEF SetCurrentRevision, IsInstances, OthersTypeOK
<1>2. i \in Instance /\ i.base = loaded[c][p].base
  BY <1>1, InstanceAtRevision
<1>3. loaded' = [loaded EXCEPT ![c] = [loaded[c] EXCEPT ![p] = i]]
  BY <1>1, InvParts DEF SetCurrentRevision
<1> HIDE DEF i
<1> QED
  BY <1>1, <1>2, <1>3, InstanceChanged DEF SetCurrentRevision

LEMMA SetDeletedInv ==
  ASSUME Inv, NEW c \in Context, NEW p \in PersistentRoot, NEW deleted \in BOOLEAN,
         SetDeleted(c, p, deleted)
  PROVE  Inv'
<1> DEFINE mark == CASE loaded[c][p].pending # "none" -> "none"
                     [] deleted -> "deletion"
                     [] OTHER   -> "undeletion"
           i == [loaded[c][p] EXCEPT !.pending = mark]
<1>1. p \in DOMAIN loaded[c] /\ loaded[c][p] \in Instance
  BY InvParts DEF SetDeleted, IsInstances
<1>2. loaded' = [loaded EXCEPT ![c] = [loaded[c] EXCEPT ![p] = i]]
  BY DEF SetDeleted
<1>3. mark \in {"none", "deletion", "undeletion"}
  OBVIOUS
<1> HIDE DEF mark
<1>4. i \in Instance /\ i.base = loaded[c][p].base
  BY <1>1, <1>3, InstanceEdited
<1>5. UNCHANGED <<storeVars, channelVars, orphans, lastTransactionID, committing, raised>>
  BY DEF SetDeleted
<1> HIDE DEF i
<1> QED
  BY <1>1, <1>2, <1>4, <1>5, InstanceChanged

LEMMA DiscardAllChangesInv ==
  ASSUME Inv, NEW c \in Context, DiscardAllChanges(c)
  PROVE  Inv'
<1> DEFINE inst == [p \in DOMAIN loaded[c] |-> Discarded(loaded[c][p])]
<1>1. \A p \in DOMAIN loaded[c] : loaded[c][p] \in Instance
  BY InvParts DEF IsInstances
<1>2. IsInstances(inst) /\ \A q \in DOMAIN inst : /\ q \in DOMAIN loaded[c]
                                                 /\ inst[q].base = loaded[c][q].base
  BY <1>1, InvParts, InstanceEdited DEF IsInstances
<1>3. orphans' \in [Context -> SUBSET PersistentRoot]
      /\ committing' \in [Context -> SUBSET PersistentRoot]
  BY InvParts DEF OthersTypeOK, DiscardAllChanges
<1>4. loaded' = [loaded EXCEPT ![c] = inst]
  BY DEF DiscardAllChanges
<1> HIDE DEF inst
<1> QED
  BY <1>2, <1>3, <1>4, LocalStep DEF DiscardAllChanges

LEMMA DidCommitInv ==
  ASSUME Inv, NEW c \in Context, DidCommit(c)
  PROVE  Inv'
<1> DEFINE inst == [p \in DOMAIN loaded[c] |->
                      IF p \in committing[c]
                      THEN [loaded[c][p] EXCEPT !.info = persistentroots[p]]
                      ELSE loaded[c][p]]
<1>1. \A p \in DOMAIN loaded[c] : loaded[c][p] \in Instance /\ persistentroots[p] \in Row
  BY InvParts DEF IsInstances, OthersTypeOK
<1>2. \A q \in DOMAIN inst : inst[q] \in Instance /\ inst[q].base = loaded[c][q].base
  BY <1>1, InstanceWithRow
<1>3. DOMAIN inst = DOMAIN loaded[c]
  OBVIOUS
<1>4. orphans' \in [Context -> SUBSET PersistentRoot]
      /\ committing' \in [Context -> SUBSET PersistentRoot]
  BY InvParts DEF OthersTypeOK, DidCommit
<1>5. loaded' = [loaded EXCEPT ![c] = inst]
  BY DEF DidCommit
<1> HIDE DEF inst
<1>6. IsInstances(inst)
  BY <1>2, <1>3, InvParts DEF IsInstances
<1> QED
  BY <1>2, <1>3, <1>4, <1>5, <1>6, LocalStep DEF DidCommit

LEMMA TerminateInv ==
  ASSUME Inv, NEW c \in Context, Terminate(c)
  PROVE  Inv'
<1> DEFINE ids == [p \in PersistentRoot |-> 0]
<1>1. DOMAIN << >> = {}
  OBVIOUS
<1>2. IsInstances(<< >>)
  BY <1>1 DEF IsInstances
<1>3. /\ OthersTypeOK'
      /\ persistentroots' = persistentroots /\ raised \subseteq raised' \cup {c}
  BY InvParts DEF Terminate, OthersTypeOK, storeVars, IsNotification
<1>4. \A p \in PersistentRoot : FreshAt(ids, << >>, persistentroots', p)
  BY <1>1, <1>3, InvParts DEF FreshAt, OthersTypeOK, Row, TransactionID
<1>5. /\ loaded' = [loaded EXCEPT ![c] = << >>]
      /\ lastTransactionID' = [lastTransactionID EXCEPT ![c] = ids]
  BY DEF Terminate
<1>6. ids \in [PersistentRoot -> Nat]
  OBVIOUS
<1> HIDE DEF ids
<1> QED
  BY <1>2, <1>3, <1>4, <1>5, <1>6, StepOf

-----------------------------------------------------------------------------
(* Commits                                                                 *)

(* Only roots with a change are in a transaction. *)
LEMMA TouchedLoaded ==
  ASSUME NEW c \in Context, NEW R \in SUBSET DOMAIN loaded[c]
  PROVE  Touched(c, R) \subseteq R
BY DEF Touched

LEMMA ScopesLoaded ==
  ASSUME NEW c \in Context, NEW R \in CommitScopes(c)
  PROVE  R \subseteq DOMAIN loaded[c] /\ R # {}
BY DEF CommitScopes

LEMMA StoreCommitTypes ==
  ASSUME Inv, NEW rows, StoreCommit(rows), DOMAIN rows \subseteq PersistentRoot,
         \A p \in DOMAIN rows : rows[p] \in Row
  PROVE  /\ persistentroots' \in [PersistentRoot -> Row]
         /\ \A n \in notifications' : IsNotification(n)
<1>1. persistentroots' \in [PersistentRoot -> Row]
  BY InvParts DEF StoreCommit, OthersTypeOK
<1>2. ASSUME NEW n \in NotificationsOf(rows) PROVE IsNotification(n)
  <2>1. PICK d \in Context :
          n = [to      |-> d,
               ids     |-> [p \in DOMAIN rows |-> rows[p].transactionID],
               deleted |-> {p \in DOMAIN rows : rows[p].deleted}]
    BY <1>2 DEF NotificationsOf
  <2>2. /\ n.to \in Context
        /\ n.ids = [p \in DOMAIN rows |-> rows[p].transactionID]
        /\ n.deleted \subseteq DOMAIN rows
    BY <2>1
  <2>3. \A p \in DOMAIN rows : rows[p].transactionID \in TransactionID
    BY DEF Row
  <2> QED
    BY <2>2, <2>3 DEF IsNotification
<1> QED
  BY <1>1, <1>2, InvParts DEF StoreCommit, OthersTypeOK

LEMMA DrawnByType ==
  ASSUME Inv, NEW c \in Context, NEW R \in SUBSET DOMAIN loaded[c], CanDraw(c, R)
  PROVE  DrawnBy(c, R) \in [PersistentRoot -> Revision]
<1> SUFFICES ASSUME NEW p \in PersistentRoot
             PROVE  (IF p \in R /\ loaded[c][p].dirty THEN drawn[p] + 1 ELSE drawn[p])
                      \in Revision
  BY DEF DrawnBy
<1> QED
  BY InvParts, EditingContextAssumption DEF OthersTypeOK, Revision, CanDraw

LEMMA AfterSaveType ==
  ASSUME Inv, NEW c \in Context, NEW R \in SUBSET DOMAIN loaded[c], CanDraw(c, R)
  PROVE  /\ IsInstances(AfterSave(c, R))
         /\ \A p \in DOMAIN AfterSave(c, R) :
              p \in DOMAIN loaded[c] /\ AfterSave(c, R)[p].base = loaded[c][p].base
<1> DEFINE after == AfterSave(c, R)
<1>1. DOMAIN after \subseteq DOMAIN loaded[c]
  BY DEF AfterSave
<1>2. ASSUME NEW p \in DOMAIN after
      PROVE  after[p] \in Instance /\ after[p].base = loaded[c][p].base
  <2>1. p \in PersistentRoot /\ loaded[c][p] \in Instance
    BY <1>1, InvParts DEF IsInstances
  <2>2. CASE p \in R
    <3> DEFINE i == Saved(loaded[c][p], p)
    <3>1. i \in Instance /\ i.base = loaded[c][p].base
      BY <2>1, <2>2, SavedType DEF CanDraw, Inv
    <3>2. after[p] = [i EXCEPT !.pending = "none"]
      BY <2>2 DEF AfterSave
    <3> HIDE DEF i, after
    <3> QED
      BY ZenonT(30), <3>1, <3>2, InstanceEdited
  <2>3. CASE p \notin R
    BY <2>1, <2>3 DEF AfterSave
  <2> QED
    BY <2>2, <2>3
<1> HIDE DEF after
<1>3. IsInstances(after)
  BY <1>1, <1>2, InvParts DEF IsInstances
<1> QED
  BY <1>1, <1>2, <1>3 DEF after

LEMMA AcceptCommitInv ==
  ASSUME Inv, NEW c \in Context, NEW R \in CommitScopes(c), AcceptCommit(c, R)
  PROVE  Inv'
<1> DEFINE T    == Touched(c, R)
           rows == [p \in T |-> CommittedRow(loaded[c][p], p)]
           kept == AfterSave(c, R)
           inst == [p \in DOMAIN kept |->
                      IF p \in T THEN [kept[p] EXCEPT !.base = rows[p]] ELSE kept[p]]
           ids  == [p \in PersistentRoot |->
                      IF p \in T THEN lastTransactionID[c][p] + 1
                      ELSE lastTransactionID[c][p]]
<1>1. /\ StoreCommit(rows) /\ TransactionAccepted(c, T)
      /\ CanDraw(c, R) /\ CanCommit(T)
      /\ loaded' = [loaded EXCEPT ![c] = inst]
      /\ drawn' = DrawnBy(c, R)
      /\ committing' = [committing EXCEPT ![c] = R]
      /\ UNCHANGED <<orphans, raised>>
  BY DEF AcceptCommit
<1>2. R \subseteq DOMAIN loaded[c] /\ T \subseteq R /\ DOMAIN loaded[c] \subseteq PersistentRoot
  BY ScopesLoaded, TouchedLoaded, InvParts DEF IsInstances
<1>3. \A p \in DOMAIN loaded[c] : loaded[c][p] \in Instance
  BY InvParts DEF IsInstances
<1>4. \A p \in T : /\ rows[p] \in Row
                   /\ rows[p].transactionID = persistentroots[p].transactionID + 1
  BY <1>1, <1>2, <1>3, CommittedRowType DEF CanDraw, CanCommit, Inv
<1>5. DOMAIN rows = T
  OBVIOUS
<1>6. lastTransactionID' = [lastTransactionID EXCEPT ![c] = ids]
  BY DEF AcceptCommit, IdsAfter
<1>7. ids \in [PersistentRoot -> Nat]
  BY InvParts
<1>8. IsInstances(kept) /\ \A p \in DOMAIN kept :
        p \in DOMAIN loaded[c] /\ kept[p].base = loaded[c][p].base
  BY <1>1, <1>2, AfterSaveType
<1> HIDE DEF T, kept
<1>9. IsInstances(inst)
  <2>1. DOMAIN inst = DOMAIN kept
    OBVIOUS
  <2>2. ASSUME NEW p \in DOMAIN inst PROVE inst[p] \in Instance
    <3>1. kept[p] \in Instance
      BY <1>8, <2>1 DEF IsInstances
    <3>2. CASE p \in T
      <4>1. inst[p] = [kept[p] EXCEPT !.base = rows[p]]
        BY <3>2
      <4> HIDE DEF rows, inst
      <4>2. rows[p] \in Row
        BY <1>4, <3>2
      <4>3. [kept[p] EXCEPT !.base = rows[p]] \in Instance
        BY <3>1, <4>2, InstanceWithRow
      <4> QED
        BY <4>1, <4>3
    <3>3. CASE p \notin T
      BY <3>1, <3>3
    <3> QED
      BY <3>2, <3>3
  <2> HIDE DEF inst
  <2> QED
    BY <1>8, <2>1, <2>2 DEF IsInstances
<1>10. \A p \in DOMAIN inst : /\ p \in DOMAIN loaded[c]
                              /\ p \in T => inst[p].base = rows[p]
                              /\ p \notin T => inst[p].base = loaded[c][p].base
  <2> SUFFICES ASSUME NEW p \in DOMAIN kept
               PROVE  /\ p \in DOMAIN loaded[c]
                      /\ p \in T => inst[p].base = rows[p]
                      /\ p \notin T => inst[p].base = loaded[c][p].base
    OBVIOUS
  <2>1. kept[p] \in Instance
    BY <1>8 DEF IsInstances
  <2>2. CASE p \in T
    <3>1. inst[p] = [kept[p] EXCEPT !.base = rows[p]]
      BY <2>2
    <3> HIDE DEF rows, inst
    <3> QED
      BY <1>4, <1>8, <2>1, <2>2, <3>1, InstanceWithRow
  <2>3. CASE p \notin T
    BY <1>8, <2>3
  <2> QED
    BY <2>2, <2>3
<1> HIDE DEF rows, inst
<1>11. \A p \in PersistentRoot :
         persistentroots'[p] = IF p \in T THEN rows[p] ELSE persistentroots[p]
  BY <1>1, <1>5 DEF StoreCommit
<1>12. /\ persistentroots' \in [PersistentRoot -> Row]
       /\ \A n \in notifications' : IsNotification(n)
  BY <1>1, <1>2, <1>4, <1>5, StoreCommitTypes
<1>13. drawn' \in [PersistentRoot -> Revision]
  BY <1>1, <1>2, DrawnByType
<1>14. revisions' \in [PersistentRoot -> SUBSET Revision]
  <2>1. ASSUME NEW p \in T, loaded[c][p].dirty PROVE drawn[p] + 1 \in Revision
    BY <1>1, <1>2, <2>1, InvParts, EditingContextAssumption
    DEF OthersTypeOK, Revision, CanDraw
  <2>2. revisions' = [p \in PersistentRoot |->
                        IF p \in T /\ loaded[c][p].dirty
                        THEN revisions[p] \cup {drawn[p] + 1} ELSE revisions[p]]
    BY DEF AcceptCommit, T
  <2> QED
    BY <2>1, <2>2, InvParts DEF OthersTypeOK
<1>15. OthersTypeOK'
  <2>1. committing' \in [Context -> SUBSET PersistentRoot]
    BY <1>1, <1>2, InvParts DEF OthersTypeOK
  <2>2. losses' \in 0 .. MaxLosses
    BY <1>1, InvParts DEF StoreCommit, OthersTypeOK
  <2> QED
    BY <1>1, <1>12, <1>13, <1>14, <2>1, <2>2, InvParts DEF OthersTypeOK
<1>16. ASSUME c \notin raised', NEW p \in PersistentRoot
       PROVE  FreshAt(ids, inst, persistentroots', p)
  <2>1. FreshAt(lastTransactionID[c], loaded[c], persistentroots, p)
    BY <1>1, <1>16, InvParts DEF Sound
  <2>2. CASE p \in T
    <3>1. lastTransactionID[c][p] = persistentroots[p].transactionID
      BY <1>1, <2>2 DEF TransactionAccepted, IdAccepted
    <3>2. ids[p] = rows[p].transactionID /\ persistentroots'[p] = rows[p]
      BY <1>4, <1>11, <2>2, <3>1
    <3>3. rows[p].transactionID \in Nat
      BY <1>4, <2>2 DEF Row, TransactionID
    <3> HIDE DEF ids
    <3> QED
      BY <1>10, <2>2, <3>2, <3>3 DEF FreshAt
  <2>3. CASE p \notin T
    <3>1. ids[p] = lastTransactionID[c][p] /\ persistentroots'[p] = persistentroots[p]
      BY <1>11, <2>3
    <3> HIDE DEF ids
    <3> QED
      BY <1>10, <2>1, <2>3, <3>1 DEF FreshAt
  <2> QED
    BY <2>2, <2>3
<1>17. ASSUME NEW p \in PersistentRoot
       PROVE  \/ persistentroots'[p] = persistentroots[p]
              \/ persistentroots'[p].transactionID = persistentroots[p].transactionID + 1
  BY <1>4, <1>11
<1>18. raised \subseteq raised' \cup {c}
  BY <1>1
<1> HIDE DEF ids
<1> QED
  BY <1>1, <1>6, <1>7, <1>9, <1>15, <1>16, <1>17, <1>18, StepOf

(* A context that goes on after an exception is no longer among the sound. *)
LEMMA SurvivorInv ==
  ASSUME Inv, NEW c \in Context, NEW inst, NEW ids,
         IsInstances(inst), ids \in [PersistentRoot -> Nat],
         loaded' = [loaded EXCEPT ![c] = inst],
         lastTransactionID' = [lastTransactionID EXCEPT ![c] = ids],
         drawn' \in [PersistentRoot -> Revision],
         raised' = raised \cup {c},
         UNCHANGED <<persistentroots, revisions, channelVars, orphans, committing>>
  PROVE  Inv'
<1>1. OthersTypeOK'
  BY InvParts DEF OthersTypeOK, channelVars, IsNotification
<1>2. /\ \A p \in PersistentRoot : persistentroots'[p] = persistentroots[p]
      /\ raised \subseteq raised' \cup {c}
      /\ c \in raised'
  OBVIOUS
<1> QED
  BY <1>1, <1>2, StepOf

LEMMA RejectCommitInv ==
  ASSUME Inv, NEW c \in Context, NEW R \in CommitScopes(c), RejectCommit(c, R)
  PROVE  Inv'
<1>1. CASE Terminate(c)
  BY <1>1, TerminateInv
<1>2. CASE ~Terminate(c)
  <2> DEFINE T    == Touched(c, R)
             inst == AfterSave(c, R)
             ids  == [p \in PersistentRoot |->
                        IF p \in T THEN lastTransactionID[c][p] + 1
                        ELSE lastTransactionID[c][p]]
  <2>1. R \subseteq DOMAIN loaded[c] /\ CanDraw(c, R)
    BY ScopesLoaded DEF RejectCommit
  <2>2. IsInstances(inst)
    BY <2>1, AfterSaveType
  <2>3. drawn' \in [PersistentRoot -> Revision]
    BY <1>2, <2>1, DrawnByType DEF RejectCommit
  <2>4. ids \in [PersistentRoot -> Nat]
    BY InvParts
  <2>5. /\ loaded' = [loaded EXCEPT ![c] = inst]
        /\ lastTransactionID' = [lastTransactionID EXCEPT ![c] = ids]
        /\ raised' = raised \cup {c}
        /\ UNCHANGED <<persistentroots, revisions, channelVars, orphans, committing>>
    BY <1>2 DEF RejectCommit, IdsAfter
  <2> HIDE DEF inst, ids
  <2> QED
    BY <2>2, <2>3, <2>4, <2>5, SurvivorInv
<1> QED
  BY <1>1, <1>2

LEMMA RaiseCommitInv ==
  ASSUME Inv, NEW c \in Context, NEW R \in CommitScopes(c), RaiseCommit(c, R)
  PROVE  Inv'
<1>1. CASE Terminate(c)
  BY <1>1, TerminateInv
<1>2. CASE ~Terminate(c)
  <2>1. PICK S \in SUBSET (R \ Raising(c, R)) :
          /\ loaded' = [loaded EXCEPT ![c] =
                          [p \in DOMAIN loaded[c] |->
                             IF p \in S THEN Saved(loaded[c][p], p) ELSE loaded[c][p]]]
          /\ drawn' = DrawnBy(c, S)
    BY <1>2 DEF RaiseCommit
  <2> DEFINE inst == [p \in DOMAIN loaded[c] |->
                        IF p \in S THEN Saved(loaded[c][p], p) ELSE loaded[c][p]]
             ids  == lastTransactionID[c]
  <2>2. S \subseteq DOMAIN loaded[c] /\ CanDraw(c, S)
    BY ScopesLoaded DEF RaiseCommit, CanDraw
  <2>3. \A p \in DOMAIN loaded[c] : p \in PersistentRoot /\ loaded[c][p] \in Instance
    BY InvParts DEF IsInstances
  <2>4. \A p \in S : Saved(loaded[c][p], p) \in Instance
    BY <2>2, <2>3, SavedType DEF CanDraw, Inv
  <2>5. IsInstances(inst)
    BY <2>3, <2>4 DEF IsInstances
  <2>6. drawn' \in [PersistentRoot -> Revision]
    BY <2>1, <2>2, DrawnByType
  <2>7. /\ lastTransactionID' = [lastTransactionID EXCEPT ![c] = ids]
        /\ ids \in [PersistentRoot -> Nat]
        /\ raised' = raised \cup {c}
        /\ UNCHANGED <<persistentroots, revisions, channelVars, orphans, committing>>
    BY <1>2, InvParts DEF RaiseCommit
  <2>8. loaded' = [loaded EXCEPT ![c] = inst]
    BY <2>1
  <2> HIDE DEF inst, ids
  <2> QED
    BY <2>5, <2>6, <2>7, <2>8, SurvivorInv
<1> QED
  BY <1>1, <1>2

-----------------------------------------------------------------------------
(* Notifications and undo                                                  *)

(* The rows become rows; a context that loaded instances and holds lastIds *)
(* is told of the ids, of which the news are higher than its own.          *)
LEMMA DidChangeInv ==
  ASSUME Inv, NEW c \in Context, NEW instances, NEW lastIds, NEW rows,
         NEW ids, NEW deleted,
         IsInstances(instances), lastIds \in [PersistentRoot -> Nat],
         \A p \in PersistentRoot : rows[p] \in Row,
         DOMAIN ids \subseteq PersistentRoot,
         \A p \in DOMAIN ids : ids[p] \in Nat,
         \A p \in DOMAIN ids \cap DOMAIN instances :
            ids[p] <= lastIds[p] => rows[p] = persistentroots[p],
         \A p \in PersistentRoot \ DOMAIN ids : rows[p] = persistentroots[p],
         \A p \in PersistentRoot :
            \/ rows[p] = persistentroots[p]
            \/ rows[p].transactionID = persistentroots[p].transactionID + 1,
         persistentroots' = rows,
         c \notin raised => \A p \in PersistentRoot :
                              FreshAt(lastIds, instances, persistentroots, p),
         PersistentRootsDidChange(c, instances, lastIds, rows, ids, deleted),
         revisions' \in [PersistentRoot -> SUBSET Revision],
         drawn' \in [PersistentRoot -> Revision],
         losses' \in 0 .. MaxLosses,
         rows \in [PersistentRoot -> Row],
         \A n \in notifications' : IsNotification(n),
         UNCHANGED <<committing, raised>>
  PROVE  Inv'
<1> DEFINE reload == {p \in DOMAIN ids \cap DOMAIN instances : ids[p] > lastIds[p]}
           fresh  == [p \in DOMAIN instances |->
                        IF p \in reload THEN Reloaded(instances[p], rows[p])
                        ELSE instances[p]]
           gone   == {p \in reload : IsDeleted(fresh[p])}
           forget == (DOMAIN ids \ DOMAIN instances) \ deleted
           inst   == Without(fresh, gone)
           newIds == [p \in PersistentRoot |->
                        CASE p \in reload -> rows[p].transactionID
                          [] p \in forget -> 0
                          [] OTHER        -> lastIds[p]]
<1>1. /\ loaded' = [loaded EXCEPT ![c] = inst]
      /\ lastTransactionID' = [lastTransactionID EXCEPT ![c] = newIds]
      /\ orphans' = [orphans EXCEPT ![c] =
                       orphans[c] \cup {p \in gone : fresh[p].pending = "deletion"}]
  BY DEF PersistentRootsDidChange
<1>2. /\ reload \subseteq DOMAIN instances /\ gone \subseteq reload
      /\ DOMAIN instances \subseteq PersistentRoot
      /\ forget \cap DOMAIN instances = {}
      /\ DOMAIN fresh = DOMAIN instances
      /\ \A p \in reload : p \in DOMAIN ids /\ ids[p] > lastIds[p]
  BY DEF IsInstances
<1>3. \A p \in DOMAIN instances : /\ p \in PersistentRoot
                                  /\ instances[p] \in Instance /\ rows[p] \in Row
  BY DEF IsInstances
<1>4. \A p \in DOMAIN instances :
        /\ fresh[p] \in Instance
        /\ fresh[p].base = IF p \in reload THEN rows[p] ELSE instances[p].base
  <2> SUFFICES ASSUME NEW p \in DOMAIN instances
               PROVE  /\ fresh[p] \in Instance
                      /\ fresh[p].base = IF p \in reload THEN rows[p]
                                         ELSE instances[p].base
    OBVIOUS
  <2> HIDE DEF reload
  <2>1. CASE p \in reload
    <3>1. fresh[p] = Reloaded(instances[p], rows[p])
      BY <2>1
    <3> HIDE DEF fresh
    <3> QED
      BY <1>3, <2>1, <3>1, ReloadedType
  <2>2. CASE p \notin reload
    BY <1>3, <2>2
  <2> QED
    BY <2>1, <2>2
<1> HIDE DEF fresh
<1>5. \A p \in DOMAIN inst : p \in DOMAIN instances /\ inst[p] = fresh[p]
  BY <1>2 DEF Without
<1> HIDE DEF inst, gone
<1>6. IsInstances(inst)
  BY <1>2, <1>4, <1>5 DEF IsInstances
<1>7. \A p \in PersistentRoot : rows[p].transactionID \in Nat
  BY DEF Row, TransactionID
<1>8. \A p \in PersistentRoot :
        newIds[p] = CASE p \in reload -> rows[p].transactionID
                      [] p \in forget -> 0
                      [] OTHER        -> lastIds[p]
  OBVIOUS
<1> HIDE DEF reload, forget
<1>9. newIds \in [PersistentRoot -> Nat]
  BY <1>7
<1> HIDE DEF newIds
<1>10. OthersTypeOK'
  <2>1. orphans' \in [Context -> SUBSET PersistentRoot]
    BY <1>1, <1>2, InvParts DEF OthersTypeOK
  <2>2. /\ committing' \in [Context -> SUBSET PersistentRoot]
        /\ raised' \subseteq Context
    BY InvParts DEF OthersTypeOK
  <2> QED
    BY <2>1, <2>2 DEF OthersTypeOK
<1>11. ASSUME c \notin raised', NEW p \in PersistentRoot
       PROVE  FreshAt(newIds, inst, persistentroots', p)
  <2>1. FreshAt(lastIds, instances, persistentroots, p)
    BY <1>11
  <2>2. /\ persistentroots'[p] = rows[p] /\ rows[p].transactionID \in Nat
        /\ persistentroots[p].transactionID \in Nat /\ lastIds[p] \in Nat
    BY <1>7, InvParts DEF OthersTypeOK, Row, TransactionID
  <2>3. lastIds[p] <= rows[p].transactionID
    BY <2>1, <2>2 DEF FreshAt
  <2>4. CASE p \in reload
    <3>1. newIds[p] = rows[p].transactionID /\ p \in DOMAIN instances
      BY <1>2, <1>8, <2>4
    <3>2. p \in DOMAIN inst => inst[p].base = rows[p]
      BY <1>4, <1>5, <2>4
    <3> QED
      BY <2>2, <3>1, <3>2 DEF FreshAt
  <2>5. CASE p \notin reload /\ p \in forget
    <3>1. newIds[p] = 0 /\ p \notin DOMAIN inst
      BY <1>2, <1>5, <1>8, <2>5
    <3> QED
      BY <2>2, <3>1 DEF FreshAt
  <2>6. CASE p \notin reload /\ p \notin forget
    <3>1. newIds[p] = lastIds[p]
      BY <1>8, <2>6
    <3>2. CASE p \notin DOMAIN inst
      BY <2>2, <2>3, <3>1, <3>2 DEF FreshAt
    <3>3. CASE p \in DOMAIN inst
      <4>1. p \in DOMAIN instances /\ inst[p].base = instances[p].base
        BY <1>4, <1>5, <2>6, <3>3
      <4>2. CASE rows[p] = persistentroots[p]
        BY <2>1, <2>2, <2>3, <3>1, <4>1, <4>2 DEF FreshAt
      <4>3. CASE rows[p] # persistentroots[p]
        <5>1. p \in DOMAIN ids /\ ~(ids[p] <= lastIds[p])
          BY <4>1, <4>3
        <5>2. ~(ids[p] > lastIds[p])
          BY <2>6, <4>1, <5>1 DEF reload
        <5> QED
          BY <2>2, <5>1, <5>2
      <4> QED
        BY <4>2, <4>3
    <3> QED
      BY <3>2, <3>3
  <2> QED
    BY <2>4, <2>5, <2>6
<1>12. raised \subseteq raised' \cup {c}
  OBVIOUS
<1> QED
  BY <1>1, <1>6, <1>9, <1>10, <1>11, <1>12, StepOf

LEMMA DeliverInv ==
  ASSUME Inv, NEW c \in Context, NEW n \in notifications, Deliver(c, n)
  PROVE  Inv'
<1>1. /\ PersistentRootsDidChange(c, loaded[c], lastTransactionID[c], persistentroots,
                                  n.ids, n.deleted)
      /\ notifications' = notifications \ {n}
      /\ UNCHANGED <<storeVars, losses, committing, raised>>
  BY DEF Deliver
<1>2. /\ IsInstances(loaded[c]) /\ lastTransactionID[c] \in [PersistentRoot -> Nat]
      /\ c \notin raised => \A p \in PersistentRoot :
           FreshAt(lastTransactionID[c], loaded[c], persistentroots, p)
  BY InvParts DEF Sound
<1>3. /\ persistentroots' = persistentroots /\ revisions' = revisions
      /\ drawn' = drawn /\ losses' = losses /\ UNCHANGED <<committing, raised>>
  BY <1>1 DEF storeVars
<1>4. /\ revisions' \in [PersistentRoot -> SUBSET Revision]
      /\ drawn' \in [PersistentRoot -> Revision]
      /\ losses' \in 0 .. MaxLosses
      /\ persistentroots \in [PersistentRoot -> Row]
      /\ \A p \in PersistentRoot : persistentroots[p] \in Row
      /\ \A m \in notifications' : IsNotification(m)
  BY <1>1, <1>3, InvParts DEF OthersTypeOK
<1>5. DOMAIN n.ids \subseteq PersistentRoot /\ \A p \in DOMAIN n.ids : n.ids[p] \in Nat
  BY InvParts DEF OthersTypeOK, IsNotification, TransactionID
<1> QED
  BY <1>1, <1>2, <1>3, <1>4, <1>5, DidChangeInv

LEMMA UndoOrRedoInv ==
  ASSUME Inv, NEW c \in Context, NEW p \in PersistentRoot, NEW row \in Row,
         NEW instances, NEW lastIds,
         row.transactionID = persistentroots[p].transactionID + 1,
         IsInstances(instances), lastIds \in [PersistentRoot -> Nat],
         c \notin raised => \A q \in PersistentRoot :
                              FreshAt(lastIds, instances, persistentroots, q),
         UndoOrRedo(c, p, row, instances, lastIds),
         revisions' \in [PersistentRoot -> SUBSET Revision],
         drawn' \in [PersistentRoot -> Revision]
  PROVE  Inv'
<1> DEFINE rows == [persistentroots EXCEPT ![p] = row]
           ids  == [q \in {p} |-> row.transactionID]
<1>1. /\ PersistentRootsDidChange(c, instances, lastIds, rows, ids,
                                  {q \in {p} : row.deleted})
      /\ StoreCommit([q \in {p} |-> row])
      /\ lastIds[p] \in {0, persistentroots[p].transactionID}
      /\ UNCHANGED <<committing, raised>>
  BY DEF UndoOrRedo
<1>2. DOMAIN [q \in {p} |-> row] = {p} /\ [q \in {p} |-> row][p] = row
  OBVIOUS
<1>3. /\ persistentroots' \in [PersistentRoot -> Row]
      /\ \A n \in notifications' : IsNotification(n)
  BY <1>1, <1>2, StoreCommitTypes
<1>4. persistentroots' = rows /\ losses' = losses
  BY <1>1, <1>2, InvParts DEF StoreCommit, OthersTypeOK
<1>5. DOMAIN ids = {p} /\ ids[p] = row.transactionID
  OBVIOUS
<1>6. /\ persistentroots[p].transactionID \in Nat
      /\ row.transactionID \in Nat /\ lastIds[p] \in Nat
  BY InvParts DEF OthersTypeOK, Row, TransactionID
<1>7. ids[p] > lastIds[p]
  BY <1>1, <1>5, <1>6
<1>8. /\ rows[p] = row
      /\ \A q \in PersistentRoot \ {p} : rows[q] = persistentroots[q]
      /\ \A q \in PersistentRoot : rows[q] \in Row
      /\ rows \in [PersistentRoot -> Row]
  BY InvParts DEF OthersTypeOK
<1> HIDE DEF rows, ids
<1>9. \A q \in DOMAIN ids \cap DOMAIN instances :
         ids[q] <= lastIds[q] => rows[q] = persistentroots[q]
  BY <1>5, <1>6, <1>7
<1>10. \A q \in PersistentRoot :
            \/ rows[q] = persistentroots[q]
            \/ rows[q].transactionID = persistentroots[q].transactionID + 1
  BY <1>8
<1>11. losses' \in 0 .. MaxLosses
  BY <1>4, InvParts DEF OthersTypeOK
<1>12. /\ DOMAIN ids \subseteq PersistentRoot
       /\ \A q \in DOMAIN ids : ids[q] \in Nat
       /\ \A q \in PersistentRoot \ DOMAIN ids : rows[q] = persistentroots[q]
  BY <1>5, <1>6, <1>8
<1> QED
  BY <1>1, <1>3, <1>4, <1>8, <1>9, <1>10, <1>11, <1>12, DidChangeInv

LEMMA UndoOrRedoRevisionInv ==
  ASSUME Inv, NEW c \in Context, NEW p \in PersistentRoot, UndoOrRedoRevision(c, p)
  PROVE  Inv'
<1> DEFINE old       == persistentroots[p]
           isLoaded  == p \in DOMAIN loaded[c]
           instances == [q \in DOMAIN loaded[c] \cup {p} |->
                           IF q \in DOMAIN loaded[c] THEN loaded[c][q]
                           ELSE InstanceFor(old)]
           lastIds   == IF isLoaded THEN lastTransactionID[c]
                        ELSE [lastTransactionID[c] EXCEPT ![p] = old.transactionID]
<1>1. PICK r \in revisions[p] \cup {drawn[p] + 1} :
        /\ r \in Revision
        /\ UndoOrRedo(c, p, [old EXCEPT !.current = r,
                                        !.transactionID = old.transactionID + 1],
                      instances, lastIds)
        /\ revisions' = [revisions EXCEPT ![p] = revisions[p] \cup {r}]
        /\ drawn' = [drawn EXCEPT ![p] = IF r > drawn[p] THEN r ELSE drawn[p]]
  BY DEF UndoOrRedoRevision
<1>2. old \in Row /\ old.transactionID \in Nat /\ old.transactionID \in TransactionID
  BY InvParts DEF OthersTypeOK, Row, TransactionID
<1>3. old.transactionID + 1 \in TransactionID
  <2>1. old.transactionID < MaxTransactionID
    BY <1>1 DEF UndoOrRedo, CanCommit
  <2> QED
    BY <1>2, <2>1, EditingContextAssumption DEF TransactionID
<1> DEFINE row == [old EXCEPT !.current = r, !.transactionID = old.transactionID + 1]
<1>4. row \in Row /\ row.transactionID = old.transactionID + 1
  BY <1>1, <1>2, <1>3 DEF Row
<1>5. revisions' \in [PersistentRoot -> SUBSET Revision]
      /\ drawn' \in [PersistentRoot -> Revision]
  BY <1>1, InvParts DEF OthersTypeOK
<1>6. IsInstances(loaded[c]) /\ lastTransactionID[c] \in [PersistentRoot -> Nat]
  BY InvParts
<1>7. /\ DOMAIN instances = DOMAIN loaded[c] \cup {p}
      /\ ~isLoaded => instances[p] = InstanceFor(old)
      /\ \A q \in DOMAIN loaded[c] : instances[q] = loaded[c][q]
  OBVIOUS
<1>8. InstanceFor(old) \in Instance /\ InstanceFor(old).base = old
  BY <1>2, InstanceForType
<1> HIDE DEF instances
<1>9. IsInstances(instances)
  BY <1>6, <1>7, <1>8 DEF IsInstances
<1>10. lastIds \in [PersistentRoot -> Nat]
  BY <1>2, <1>6
<1>11. ASSUME c \notin raised, NEW q \in PersistentRoot
       PROVE  FreshAt(lastIds, instances, persistentroots, q)
  <2>1. FreshAt(lastTransactionID[c], loaded[c], persistentroots, q)
    BY <1>11, InvParts DEF Sound
  <2>2. CASE isLoaded
    <3>1. lastIds = lastTransactionID[c]
      BY <2>2
    <3>2. DOMAIN instances = DOMAIN loaded[c]
      BY <1>7, <2>2
    <3> HIDE DEF lastIds
    <3> QED
      BY <1>7, <2>1, <3>1, <3>2 DEF FreshAt
  <2>3. CASE ~isLoaded /\ q = p
    <3>1. lastIds[p] = old.transactionID /\ instances[p].base = old
      BY <1>6, <1>7, <1>8, <2>3
    <3> HIDE DEF lastIds
    <3> QED
      BY <1>2, <2>3, <3>1 DEF FreshAt
  <2>4. CASE ~isLoaded /\ q # p
    <3>1. /\ lastIds[q] = lastTransactionID[c][q]
          /\ q \in DOMAIN instances <=> q \in DOMAIN loaded[c]
          /\ q \in DOMAIN loaded[c] => instances[q] = loaded[c][q]
      BY <1>6, <1>7, <2>4
    <3> HIDE DEF lastIds
    <3> QED
      BY <2>1, <3>1 DEF FreshAt
  <2> QED
    BY <2>2, <2>3, <2>4
<1>12. UndoOrRedo(c, p, row, instances, lastIds)
  BY <1>1
<1> HIDE DEF row, lastIds
<1> QED
  BY <1>4, <1>5, <1>9, <1>10, <1>11, <1>12, UndoOrRedoInv

LEMMA UndoOrRedoDeletionInv ==
  ASSUME Inv, NEW c \in Context, NEW p \in PersistentRoot, UndoOrRedoDeletion(c, p)
  PROVE  Inv'
<1> DEFINE old == persistentroots[p]
<1>1. PICK deleted \in BOOLEAN :
        UndoOrRedo(c, p, [old EXCEPT !.deleted = deleted,
                                     !.transactionID = old.transactionID + 1],
                   loaded[c], lastTransactionID[c])
  BY DEF UndoOrRedoDeletion
<1>2. old \in Row /\ old.transactionID \in Nat /\ old.transactionID \in TransactionID
  BY InvParts DEF OthersTypeOK, Row, TransactionID
<1>3. old.transactionID + 1 \in TransactionID
  <2>1. old.transactionID < MaxTransactionID
    BY <1>1 DEF UndoOrRedo, CanCommit
  <2> QED
    BY <1>2, <2>1, EditingContextAssumption DEF TransactionID
<1> DEFINE row == [old EXCEPT !.deleted = deleted, !.transactionID = old.transactionID + 1]
<1>4. row \in Row /\ row.transactionID = old.transactionID + 1
  BY <1>2, <1>3 DEF Row
<1>5. revisions' \in [PersistentRoot -> SUBSET Revision]
      /\ drawn' \in [PersistentRoot -> Revision]
  BY InvParts DEF UndoOrRedoDeletion, OthersTypeOK
<1>6. /\ IsInstances(loaded[c]) /\ lastTransactionID[c] \in [PersistentRoot -> Nat]
      /\ c \notin raised => \A q \in PersistentRoot :
           FreshAt(lastTransactionID[c], loaded[c], persistentroots, q)
  BY InvParts DEF Sound
<1>7. UndoOrRedo(c, p, row, loaded[c], lastTransactionID[c])
  BY <1>1
<1> HIDE DEF row
<1> QED
  BY <1>4, <1>5, <1>6, <1>7, UndoOrRedoInv

LEMMA LoseInv ==
  ASSUME Inv, Lose
  PROVE  Inv'
<1>1. UNCHANGED <<persistentroots, revisions, drawn, loaded, orphans,
                  lastTransactionID, committing, raised>>
  BY DEF Lose, storeVars, contextVars
<1>2. losses' \in 0 .. MaxLosses /\ \A n \in notifications' : IsNotification(n)
  BY InvParts, EditingContextAssumption DEF Lose, OthersTypeOK
<1>3. TypeOK'
  BY <1>1, <1>2 DEF Inv, TypeOK
<1>4. IdsProveFreshness'
  BY <1>1 DEF Inv, IdsProveFreshness, IdAccepted, Sound
<1> QED
  BY <1>3, <1>4 DEF Inv

-----------------------------------------------------------------------------
(* The theorems                                                            *)

LEMMA NextInv ==
  ASSUME Inv, [Next]_vars
  PROVE  Inv'
<1>1. CASE Lose
  BY <1>1, LoseInv
<1>2. ASSUME NEW c \in Context, Quit(c) PROVE Inv'
  BY <1>2, TerminateInv DEF Quit
<1>3. ASSUME NEW c \in Context, ContextStep(c) PROVE Inv'
  <2>1. ASSUME NEW p \in PersistentRoot, RefuseUndoOrRedo(c, p) PROVE Inv'
    BY <2>1, TerminateInv DEF RefuseUndoOrRedo
  <2>2. CASE Commit(c)
    BY <2>2, AcceptCommitInv, RejectCommitInv, RaiseCommitInv DEF Commit
  <2> QED
    BY <1>3, <2>1, <2>2, LoadInv, UnloadInv, EditInv, SetCurrentRevisionInv,
       SetDeletedInv, UndoOrRedoRevisionInv, UndoOrRedoDeletionInv,
       DiscardAllChangesInv, DidCommitInv, DeliverInv DEF ContextStep
<1>4. CASE UNCHANGED vars
  <2>1. UNCHANGED <<persistentroots, revisions, drawn, notifications, losses, loaded,
                    orphans, lastTransactionID, committing, raised>>
    BY <1>4 DEF vars, storeVars, channelVars, contextVars
  <2> QED
    BY <2>1 DEF Inv, TypeOK, IsNotification, IdsProveFreshness, IdAccepted, Sound
<1> QED
  BY <1>1, <1>2, <1>3, <1>4 DEF Next

LEMMA AlwaysInv == Spec => []Inv
BY InitInv, NextInv, PTL DEF Spec

(* The rows, the working copies, the ids and the notifications have their  *)
(* types in every reachable state.                                         *)
THEOREM ContextTypeCorrect == Spec => []TypeOK
<1>1. Inv => TypeOK
  BY DEF Inv
<1> QED
  BY <1>1, AlwaysInv, PTL

(* Whatever a context has gone through but an exception, an id the store   *)
(* would take from it proves that it has seen the store's row: the check   *)
(* of _oldTransactionIDForPersistentRootUUID in -commitStoreTransaction:.  *)
THEOREM IdsAlwaysProveFreshness == Spec => []IdsProveFreshness
<1>1. Inv => IdsProveFreshness
  BY DEF Inv
<1> QED
  BY <1>1, AlwaysInv, PTL

(* Among the steps, only an accepted commit of c starts a refresh of c. *)
LEMMA OnlyAcceptStarts ==
  ASSUME Inv, Next, NEW c \in Context, Idle(c), committing'[c] # {}
  PROVE  \E R \in CommitScopes(c) : AcceptCommit(c, R)
<1>1. committing \in [Context -> SUBSET PersistentRoot]
  BY InvParts DEF OthersTypeOK
<1>2. committing' # committing
  BY DEF Idle
<1>3. ASSUME NEW d \in Context, Terminate(d) PROVE FALSE
  BY <1>1, <1>3 DEF Terminate, Idle
<1>4. ASSUME NEW d \in Context, DidCommit(d) PROVE FALSE
  BY <1>1, <1>4 DEF DidCommit, Idle
<1>5. ASSUME NEW d \in Context, NEW R \in CommitScopes(d), RejectCommit(d, R)
      PROVE  FALSE
  BY <1>2, <1>3, <1>5 DEF RejectCommit
<1>6. ASSUME NEW d \in Context, NEW R \in CommitScopes(d), RaiseCommit(d, R)
      PROVE  FALSE
  BY <1>2, <1>3, <1>6 DEF RaiseCommit
<1>7. PICK d \in Context : ContextStep(d)
  BY <1>2, <1>3 DEF Next, Lose, Quit, contextVars
<1>8. Commit(d)
  <2>1. ASSUME NEW p \in PersistentRoot, NEW row, NEW instances, NEW ids,
               UndoOrRedo(d, p, row, instances, ids)
        PROVE  FALSE
    BY <1>2, <2>1 DEF UndoOrRedo
  <2>2. ASSUME NEW p \in PersistentRoot,
               \/ UndoOrRedoRevision(d, p)
               \/ UndoOrRedoDeletion(d, p)
               \/ RefuseUndoOrRedo(d, p)
        PROVE  FALSE
    BY <1>3, <2>1, <2>2 DEF UndoOrRedoRevision, UndoOrRedoDeletion, RefuseUndoOrRedo
  <2>3. ASSUME NEW p \in PersistentRoot,
               \/ Load(d, p) \/ Unload(d, p) \/ Edit(d, p)
               \/ \E r \in revisions[p] : SetCurrentRevision(d, p, r)
               \/ \E deleted \in BOOLEAN : SetDeleted(d, p, deleted)
        PROVE  FALSE
    BY <1>2, <2>3 DEF Load, Unload, Edit, SetCurrentRevision, SetDeleted
  <2>4. ASSUME DiscardAllChanges(d) \/ \E n \in notifications : Deliver(d, n)
        PROVE  FALSE
    BY <1>2, <2>4 DEF DiscardAllChanges, Deliver
  <2> QED
    BY <1>4, <1>7, <2>2, <2>3, <2>4 DEF ContextStep
<1>9. PICK R \in CommitScopes(d) : AcceptCommit(d, R)
  BY <1>5, <1>6, <1>8 DEF Commit
<1>10. d = c
  BY <1>1, <1>9 DEF AcceptCommit, Idle
<1> QED
  BY <1>9, <1>10

(* What an accepted commit overwrites was accepted by its id. *)
LEMMA AcceptedCommitIsFresh ==
  ASSUME Inv, NEW c \in Sound, NEW p \in PersistentRoot,
         NEW R \in CommitScopes(c), AcceptCommit(c, R),
         p \in DOMAIN loaded[c], persistentroots'[p] # persistentroots[p]
  PROVE  loaded[c][p].base = persistentroots[p]
<1> DEFINE T    == Touched(c, R)
           rows == [q \in T |-> CommittedRow(loaded[c][q], q)]
<1>1. StoreCommit(rows) /\ TransactionAccepted(c, T)
  BY DEF AcceptCommit
<1>2. DOMAIN rows = T
  OBVIOUS
<1> HIDE DEF rows
<1>3. p \in T
  BY <1>1, <1>2 DEF StoreCommit
<1>4. IdAccepted(c, p)
  BY <1>1, <1>3 DEF TransactionAccepted
<1> QED
  BY <1>4 DEF Inv, IdsProveFreshness

(* No commit of a working copy overwrites a row its context has not seen.  *)
THEOREM NoUpdateIsLost == Spec => NoLostUpdate
<1>1. ASSUME Inv, [Next]_vars, NEW c \in Sound, NEW p \in PersistentRoot
      PROVE  CommitsWhatItSaw(c, p)
  <2> SUFFICES ASSUME Idle(c), committing'[c] # {}, p \in DOMAIN loaded[c],
                      persistentroots'[p] # persistentroots[p]
               PROVE  loaded[c][p].base = persistentroots[p]
    BY DEF CommitsWhatItSaw
  <2>1. c \in Context
    BY DEF Sound
  <2>2. Next
    BY <1>1 DEF vars, storeVars
  <2>3. PICK R \in CommitScopes(c) : AcceptCommit(c, R)
    BY <1>1, <2>1, <2>2, OnlyAcceptStarts
  <2> QED
    BY <1>1, <2>3, AcceptedCommitIsFresh
<1>2. Inv /\ [Next]_vars => \A c \in Sound, p \in PersistentRoot : CommitsWhatItSaw(c, p)
  BY <1>1
<1> QED
  BY <1>2, AlwaysInv, PTL DEF Spec, NoLostUpdate

-----------------------------------------------------------------------------
(* Two more invariants.                                                    *)
(*                                                                         *)
(* Heard: while no notification was lost, a context whose id for a root is *)
(* not the store's has a notification on its way that will have it reload  *)
(* the root; and once the id is the store's and no refresh is due, its     *)
(* copy of the row is the row.  With IdsProveFreshness it gives            *)
(* QuietContextIsCurrent.                                                  *)
(*                                                                         *)
(* Stored: every revision that a row, a copy of a row or a branch is at is *)
(* in the backing store, if no application goes on after an exception.     *)

(* The first of the two *)

Told(c, p) ==
  \E n \in notifications : /\ n.to = c /\ p \in DOMAIN n.ids
                           /\ n.ids[p] > lastTransactionID[c][p]

HeardOf(c, p) ==
  /\ losses = 0 => IdAccepted(c, p) \/ Told(c, p)
  /\ p \notin committing[c] /\ IdAccepted(c, p) => loaded[c][p].info = persistentroots[p]

Heard == \A c \in Sound : \A p \in DOMAIN loaded[c] : HeardOf(c, p)

(* What a step of context c may make of its root p: *)

(* the row is as it is in the store, or will be when the commit is done, *)
BecomesCurrent(c, p, inst, ids) ==
  /\ ids[p] = persistentroots'[p].transactionID
  /\ inst[p].info = persistentroots'[p] \/ p \in committing'[c]

(* or nothing that Heard speaks of changes. *)
StaysAsItIs(c, p, inst, ids) ==
  /\ c \notin raised /\ p \in DOMAIN loaded[c]
  /\ ids[p] = lastTransactionID[c][p] /\ inst[p].info = loaded[c][p].info
  /\ persistentroots'[p] = persistentroots[p]
  /\ p \notin committing'[c] => p \notin committing[c]
  /\ \A n \in notifications :
       n.to = c /\ p \in DOMAIN n.ids /\ n.ids[p] > lastTransactionID[c][p] =>
         n \in notifications'

KeepsHeard(c, inst, ids) ==
  \A p \in DOMAIN inst : BecomesCurrent(c, p, inst, ids) \/ StaysAsItIs(c, p, inst, ids)

(* The roots refreshed get their copies of the rows, the others keep them. *)
KeepsInfo(c, inst, refreshed) ==
  \A p \in DOMAIN inst :
    /\ p \in DOMAIN loaded[c]
    /\ inst[p].info = IF p \in refreshed THEN persistentroots[p] ELSE loaded[c][p].info

(* Every context is told of the new row of p. *)
Announced(p) ==
  /\ persistentroots'[p].transactionID = persistentroots[p].transactionID + 1
  /\ \A d \in Context : \E n \in notifications' :
       n.to = d /\ p \in DOMAIN n.ids /\ n.ids[p] = persistentroots'[p].transactionID

(* What is announced has an id no other context has, so it makes up for    *)
(* the row that changes.                                                   *)
LEMMA HeardStep ==
  ASSUME Inv, Heard, NEW c \in Context, NEW inst, NEW ids,
         DOMAIN inst \subseteq PersistentRoot,
         loaded' = [loaded EXCEPT ![c] = inst],
         lastTransactionID' = [lastTransactionID EXCEPT ![c] = ids],
         \A d \in Context \ {c} : committing'[d] = committing[d],
         raised \subseteq raised' \cup {c},
         losses' = losses,
         \A n \in notifications : n \in notifications' \/ n.to = c,
         \A p \in PersistentRoot :
            persistentroots'[p] = persistentroots[p] \/ Announced(p),
         c \notin raised' => KeepsHeard(c, inst, ids)
  PROVE  Heard'
<1> SUFFICES ASSUME NEW d \in Sound', NEW p \in DOMAIN loaded'[d]
             PROVE  HeardOf(d, p)'
  BY DEF Heard
<1>1. d \in Context /\ d \notin raised'
  BY DEF Sound
<1>2. CASE d = c
  <2>1. loaded'[c] = inst /\ lastTransactionID'[c] = ids
    BY InvParts
  <2>2. p \in DOMAIN inst /\ p \in PersistentRoot
    BY <1>2, <2>1
  <2>0. BecomesCurrent(c, p, inst, ids) \/ StaysAsItIs(c, p, inst, ids)
    BY <1>1, <1>2, <2>2 DEF KeepsHeard
  <2>3. CASE BecomesCurrent(c, p, inst, ids)
    BY <1>2, <2>1, <2>3 DEF BecomesCurrent, HeardOf, IdAccepted
  <2>4. CASE StaysAsItIs(c, p, inst, ids)
    <3>1. HeardOf(c, p)
      BY <2>4 DEF StaysAsItIs, Heard, Sound
    <3>2. IdAccepted(c, p)' <=> IdAccepted(c, p)
      BY <2>1, <2>4 DEF StaysAsItIs, IdAccepted
    <3>3. Told(c, p) => Told(c, p)'
      BY <2>1, <2>4 DEF StaysAsItIs, Told
    <3> QED
      BY <1>2, <2>1, <2>4, <3>1, <3>2, <3>3 DEF StaysAsItIs, HeardOf
  <2> QED
    BY <2>0, <2>3, <2>4
<1>3. CASE d # c
  <2>1. loaded'[d] = loaded[d] /\ lastTransactionID'[d] = lastTransactionID[d]
    BY <1>1, <1>3, InvParts
  <2>2. /\ d \in Sound /\ p \in DOMAIN loaded[d] /\ p \in PersistentRoot
        /\ committing'[d] = committing[d]
    BY <1>1, <1>3, <2>1, InvParts DEF Sound, IsInstances
  <2>3. HeardOf(d, p)
    BY <2>2 DEF Heard
  <2>4. CASE persistentroots'[p] = persistentroots[p]
    <3>1. IdAccepted(d, p)' <=> IdAccepted(d, p)
      BY <2>1, <2>4 DEF IdAccepted
    <3>2. Told(d, p) => Told(d, p)'
      BY <1>3, <2>1 DEF Told
    <3> QED
      BY <2>1, <2>2, <2>3, <2>4, <3>1, <3>2 DEF HeardOf
  <2>5. CASE Announced(p)
    <3>1. /\ lastTransactionID[d][p] \in Nat /\ persistentroots[p].transactionID \in Nat
          /\ lastTransactionID[d][p] <= persistentroots[p].transactionID
      BY <1>1, <2>2, InvParts DEF OthersTypeOK, Row, TransactionID, FreshAt
    <3>2. Told(d, p)' /\ ~IdAccepted(d, p)'
      BY <1>1, <2>1, <2>5, <3>1 DEF Announced, Told, IdAccepted
    <3> QED
      BY <3>2 DEF HeardOf
  <2> QED
    BY <2>2, <2>4, <2>5
<1> QED
  BY <1>2, <1>3

(* A step of c that leaves the store, the channel and the ids alone, and   *)
(* the copies of the rows but those a commit was to refresh.               *)
LEMMA HeardLocal ==
  ASSUME Inv, Heard, NEW c \in Context, NEW inst, NEW refreshed,
         KeepsInfo(c, inst, refreshed),
         loaded' = [loaded EXCEPT ![c] = inst],
         committing' = [committing EXCEPT ![c] = committing[c] \ refreshed],
         UNCHANGED <<storeVars, channelVars, lastTransactionID, raised>>
  PROVE  Heard'
<1>1. /\ persistentroots' = persistentroots /\ notifications' = notifications
      /\ losses' = losses /\ lastTransactionID' = lastTransactionID /\ raised' = raised
  BY DEF storeVars, channelVars
<1> SUFFICES ASSUME NEW d \in Sound', NEW p \in DOMAIN loaded'[d]
             PROVE  HeardOf(d, p)'
  BY DEF Heard
<1>2. d \in Context /\ d \in Sound /\ DOMAIN loaded = Context
      /\ committing \in [Context -> SUBSET PersistentRoot]
  BY <1>1, InvParts DEF Sound, OthersTypeOK
<1>3. p \in DOMAIN loaded[d]
  BY <1>2 DEF KeepsInfo
<1>4. HeardOf(d, p)
  BY <1>2, <1>3 DEF Heard
<1>5. (IdAccepted(d, p)' <=> IdAccepted(d, p)) /\ (Told(d, p)' <=> Told(d, p))
  BY <1>1 DEF IdAccepted, Told
<1>6. p \notin committing'[d] =>
        \/ loaded'[d][p].info = persistentroots[p]
        \/ p \notin committing[d] /\ loaded'[d][p].info = loaded[d][p].info
  BY <1>2, <1>3 DEF KeepsInfo
<1> QED
  BY <1>1, <1>4, <1>5, <1>6 DEF HeardOf

(* Steps that touch no copy of a row: KeepsInfo(c, inst, {}). *)
LEMMA HeardUntouched ==
  ASSUME Inv, Heard, NEW c \in Context, NEW inst,
         KeepsInfo(c, inst, {}),
         loaded' = [loaded EXCEPT ![c] = inst],
         UNCHANGED <<storeVars, channelVars, lastTransactionID, committing, raised>>
  PROVE  Heard'
<1>1. committing' = [committing EXCEPT ![c] = committing[c] \ {}]
  BY InvParts DEF OthersTypeOK
<1>2. UNCHANGED <<storeVars, channelVars, lastTransactionID, raised>>
  OBVIOUS
<1> QED
  BY <1>1, <1>2, HeardLocal

LEMMA InitHeard ==
  ASSUME Init
  PROVE  Heard
<1>1. DOMAIN << >> = {}
  OBVIOUS
<1>2. \A c \in Context : loaded[c] = << >>
  BY DEF Init
<1>3. \A c \in Context : DOMAIN loaded[c] = {}
  BY <1>1, <1>2, Zenon
<1> QED
  BY <1>3 DEF Heard, Sound

LEMMA LoadHeard ==
  ASSUME Inv, Heard, NEW c \in Context, NEW p \in PersistentRoot, Load(c, p)
  PROVE  Heard'
<1> DEFINE inst == [q \in DOMAIN loaded[c] \cup {p} |->
                      IF q = p THEN InstanceFor(persistentroots[p]) ELSE loaded[c][q]]
           ids == [lastTransactionID[c] EXCEPT ![p] = persistentroots[p].transactionID]
<1>1. /\ loaded' = [loaded EXCEPT ![c] = inst]
      /\ lastTransactionID' = [lastTransactionID EXCEPT ![c] = ids]
  BY InvParts DEF Load
<1>2. /\ persistentroots' = persistentroots /\ notifications' = notifications
      /\ losses' = losses /\ committing' = committing /\ raised' = raised
  BY DEF Load, storeVars, channelVars
<1>3. DOMAIN inst \subseteq PersistentRoot
  BY InvParts DEF IsInstances
<1>4. ASSUME c \notin raised'
      PROVE  KeepsHeard(c, inst, ids)
  <2> SUFFICES ASSUME NEW q \in DOMAIN inst
               PROVE  BecomesCurrent(c, q, inst, ids) \/ StaysAsItIs(c, q, inst, ids)
    BY DEF KeepsHeard
  <2>1. CASE q = p
    <3>1. ids[p] = persistentroots[p].transactionID
      BY InvParts
    <3>2. inst[p].info = persistentroots[p]
      BY DEF InstanceFor
    <3> HIDE DEF inst, ids
    <3> QED
      BY <1>2, <2>1, <3>1, <3>2 DEF BecomesCurrent
  <2>2. CASE q # p
    <3>1. q \in DOMAIN loaded[c] /\ inst[q] = loaded[c][q]
      BY <2>2
    <3>2. ids[q] = lastTransactionID[c][q]
      BY <1>3, <2>2, InvParts
    <3> HIDE DEF inst, ids
    <3> QED
      BY <1>2, <1>4, <3>1, <3>2 DEF StaysAsItIs
  <2> QED
    BY <2>1, <2>2
<1> HIDE DEF inst, ids
<1> QED
  BY <1>1, <1>2, <1>3, <1>4, HeardStep

LEMMA UnloadHeard ==
  ASSUME Inv, Heard, NEW c \in Context, NEW p \in PersistentRoot, Unload(c, p)
  PROVE  Heard'
<1> DEFINE inst == Without(loaded[c], {p})
<1>1. loaded' = [loaded EXCEPT ![c] = inst]
  BY DEF Unload
<1>2. KeepsInfo(c, inst, {})
  BY DEF KeepsInfo, Without
<1>3. UNCHANGED <<storeVars, channelVars, lastTransactionID, committing, raised>>
  BY DEF Unload
<1> HIDE DEF inst
<1> QED
  BY <1>1, <1>2, <1>3, HeardUntouched

LEMMA EditHeard ==
  ASSUME Inv, Heard, NEW c \in Context, NEW p \in PersistentRoot, Edit(c, p)
  PROVE  Heard'
<1> DEFINE inst == [loaded[c] EXCEPT ![p].dirty = TRUE]
<1>1. \A q \in DOMAIN loaded[c] : loaded[c][q] \in Instance
  BY InvParts DEF IsInstances
<1>2. KeepsInfo(c, inst, {})
  BY <1>1 DEF KeepsInfo, Instance
<1>3. loaded' = [loaded EXCEPT ![c] = inst]
  BY DEF Edit
<1>4. UNCHANGED <<storeVars, channelVars, lastTransactionID, committing, raised>>
  BY DEF Edit
<1> HIDE DEF inst
<1> QED
  BY <1>2, <1>3, <1>4, HeardUntouched

LEMMA SetCurrentRevisionHeard ==
  ASSUME Inv, Heard, NEW c \in Context, NEW p \in PersistentRoot,
         NEW r \in revisions[p], SetCurrentRevision(c, p, r)
  PROVE  Heard'
<1> DEFINE i    == [loaded[c][p] EXCEPT !.current = r, !.dirty = FALSE]
           inst == [loaded[c] EXCEPT ![p] = i]
<1>1. \A q \in DOMAIN loaded[c] : loaded[c][q] \in Instance
  BY InvParts DEF IsInstances
<1>2. p \in DOMAIN loaded[c] /\ i.info = loaded[c][p].info
  BY <1>1 DEF SetCurrentRevision, Instance
<1>3. loaded' = [loaded EXCEPT ![c] = inst]
  BY <1>2, InvParts DEF SetCurrentRevision
<1> HIDE DEF i
<1>4. KeepsInfo(c, inst, {})
  BY <1>2 DEF KeepsInfo
<1>5. UNCHANGED <<storeVars, channelVars, lastTransactionID, committing, raised>>
  BY DEF SetCurrentRevision
<1> HIDE DEF inst
<1> QED
  BY <1>3, <1>4, <1>5, HeardUntouched

LEMMA SetDeletedHeard ==
  ASSUME Inv, Heard, NEW c \in Context, NEW p \in PersistentRoot,
         NEW deleted \in BOOLEAN, SetDeleted(c, p, deleted)
  PROVE  Heard'
<1> DEFINE mark == CASE loaded[c][p].pending # "none" -> "none"
                     [] deleted -> "deletion"
                     [] OTHER   -> "undeletion"
           i    == [loaded[c][p] EXCEPT !.pending = mark]
           inst == [loaded[c] EXCEPT ![p] = i]
<1>1. p \in DOMAIN loaded[c] /\ loaded[c][p] \in Instance
  BY InvParts DEF IsInstances, SetDeleted
<1>2. loaded' = [loaded EXCEPT ![c] = inst]
  BY DEF SetDeleted
<1> HIDE DEF mark
<1>3. i.info = loaded[c][p].info
  BY <1>1 DEF Instance
<1> HIDE DEF i
<1>4. KeepsInfo(c, inst, {})
  BY <1>1, <1>3 DEF KeepsInfo
<1>5. UNCHANGED <<storeVars, channelVars, lastTransactionID, committing, raised>>
  BY DEF SetDeleted
<1> HIDE DEF inst
<1> QED
  BY <1>2, <1>4, <1>5, HeardUntouched

LEMMA DiscardAllChangesHeard ==
  ASSUME Inv, Heard, NEW c \in Context, DiscardAllChanges(c)
  PROVE  Heard'
<1> DEFINE inst == [p \in DOMAIN loaded[c] |-> Discarded(loaded[c][p])]
<1>1. \A q \in DOMAIN loaded[c] : loaded[c][q] \in Instance
  BY InvParts DEF IsInstances
<1>2. KeepsInfo(c, inst, {})
  BY <1>1 DEF KeepsInfo, Discarded, Instance
<1>3. loaded' = [loaded EXCEPT ![c] = inst]
  BY DEF DiscardAllChanges
<1>4. UNCHANGED <<storeVars, channelVars, lastTransactionID, committing, raised>>
  BY DEF DiscardAllChanges
<1> HIDE DEF inst
<1> QED
  BY <1>2, <1>3, <1>4, HeardUntouched

LEMMA DidCommitHeard ==
  ASSUME Inv, Heard, NEW c \in Context, DidCommit(c)
  PROVE  Heard'
<1> DEFINE inst == [p \in DOMAIN loaded[c] |->
                      IF p \in committing[c]
                      THEN [loaded[c][p] EXCEPT !.info = persistentroots[p]]
                      ELSE loaded[c][p]]
<1>1. \A q \in DOMAIN loaded[c] : loaded[c][q] \in Instance
  BY InvParts DEF IsInstances
<1>2. /\ loaded' = [loaded EXCEPT ![c] = inst]
      /\ UNCHANGED <<storeVars, channelVars, lastTransactionID, raised>>
  BY DEF DidCommit
<1>3. committing' = [committing EXCEPT ![c] = committing[c] \ committing[c]]
  BY DEF DidCommit
<1>4. KeepsInfo(c, inst, committing[c])
  <2> SUFFICES ASSUME NEW q \in DOMAIN loaded[c]
               PROVE  inst[q].info = IF q \in committing[c] THEN persistentroots[q]
                                     ELSE loaded[c][q].info
    BY DEF KeepsInfo
  <2>1. CASE q \in committing[c]
    <3>1. inst[q] = [loaded[c][q] EXCEPT !.info = persistentroots[q]]
      BY <2>1
    <3> QED
      BY <1>1, <2>1, <3>1 DEF Instance
  <2>2. CASE q \notin committing[c]
    BY <2>2
  <2> QED
    BY <2>1, <2>2
<1> HIDE DEF inst
<1> QED
  BY <1>2, <1>3, <1>4, HeardLocal

LEMMA TerminateHeard ==
  ASSUME Inv, Heard, NEW c \in Context, Terminate(c)
  PROVE  Heard'
<1> DEFINE ids == [p \in PersistentRoot |-> 0]
<1>1. DOMAIN << >> = {}
  OBVIOUS
<1>2. /\ loaded' = [loaded EXCEPT ![c] = << >>]
      /\ lastTransactionID' = [lastTransactionID EXCEPT ![c] = ids]
      /\ \A d \in Context \ {c} : committing'[d] = committing[d]
      /\ raised \subseteq raised' \cup {c} /\ losses' = losses
      /\ \A n \in notifications : n \in notifications' \/ n.to = c
      /\ \A p \in PersistentRoot : persistentroots'[p] = persistentroots[p]
  BY InvParts DEF Terminate, storeVars, OthersTypeOK
<1> HIDE DEF ids
<1>3. KeepsHeard(c, << >>, ids)
  BY <1>1 DEF KeepsHeard
<1> QED
  BY <1>1, <1>2, <1>3, HeardStep

(* The store tells every context, whatever the row. *)
LEMMA Announces ==
  ASSUME Inv, NEW rows, DOMAIN rows \subseteq PersistentRoot, StoreCommit(rows),
         \A p \in DOMAIN rows :
            rows[p].transactionID = persistentroots[p].transactionID + 1
  PROVE  /\ losses' = losses
         /\ \A n \in notifications : n \in notifications'
         /\ \A p \in PersistentRoot :
              persistentroots'[p] = persistentroots[p] \/ Announced(p)
<1>1. /\ losses' = losses /\ \A n \in notifications : n \in notifications'
      /\ \A p \in PersistentRoot :
           persistentroots'[p] = IF p \in DOMAIN rows THEN rows[p] ELSE persistentroots[p]
  BY DEF StoreCommit
<1>2. ASSUME NEW p \in DOMAIN rows, NEW d \in Context
      PROVE  \E n \in notifications' :
               n.to = d /\ p \in DOMAIN n.ids /\ n.ids[p] = persistentroots'[p].transactionID
  <2> DEFINE n == [to      |-> d,
                   ids     |-> [q \in DOMAIN rows |-> rows[q].transactionID],
                   deleted |-> {q \in DOMAIN rows : rows[q].deleted}]
  <2>1. n \in NotificationsOf(rows)
    <3>1. DOMAIN << >> = {}
      OBVIOUS
    <3>2. d \in {x \in Context : rows # << >>}
      BY <1>2, <3>1
    <3> QED
      BY <3>2 DEF NotificationsOf
  <2>2. n \in notifications'
    BY <2>1 DEF StoreCommit
  <2>3. n.to = d /\ p \in DOMAIN n.ids /\ n.ids[p] = persistentroots'[p].transactionID
    BY <1>1, <1>2
  <2> HIDE DEF n
  <2> QED
    BY <2>2, <2>3
<1> QED
  BY <1>1, <1>2 DEF Announced

(* A notification of the ids makes instances and lastIds inst and newIds:   *)
(* the roots whose ids are news are reloaded.                              *)
News(p, lastIds, ids) == p \in DOMAIN ids /\ ids[p] > lastIds[p]

ReloadsNews(inst, newIds, instances, lastIds, rows, ids) ==
  /\ DOMAIN inst \subseteq DOMAIN instances
  /\ \A p \in DOMAIN inst :
       IF News(p, lastIds, ids)
       THEN /\ newIds[p] = rows[p].transactionID
            /\ inst[p] = Reloaded(instances[p], rows[p])
       ELSE newIds[p] = lastIds[p] /\ inst[p] = instances[p]

LEMMA DidChangeEffect ==
  ASSUME NEW c \in Context, NEW instances, NEW lastIds, NEW rows, NEW ids, NEW deleted,
         DOMAIN instances \subseteq PersistentRoot,
         PersistentRootsDidChange(c, instances, lastIds, rows, ids, deleted)
  PROVE  \E inst, newIds :
            /\ loaded' = [loaded EXCEPT ![c] = inst]
            /\ lastTransactionID' = [lastTransactionID EXCEPT ![c] = newIds]
            /\ ReloadsNews(inst, newIds, instances, lastIds, rows, ids)
<1> DEFINE reload == {p \in DOMAIN ids \cap DOMAIN instances : ids[p] > lastIds[p]}
           fresh  == [p \in DOMAIN instances |->
                        IF p \in reload THEN Reloaded(instances[p], rows[p])
                        ELSE instances[p]]
           gone   == {p \in reload : IsDeleted(fresh[p])}
           forget == (DOMAIN ids \ DOMAIN instances) \ deleted
           inst   == Without(fresh, gone)
           newIds == [p \in PersistentRoot |->
                        CASE p \in reload -> rows[p].transactionID
                          [] p \in forget -> 0
                          [] OTHER        -> lastIds[p]]
<1>1. /\ loaded' = [loaded EXCEPT ![c] = inst]
      /\ lastTransactionID' = [lastTransactionID EXCEPT ![c] = newIds]
  BY DEF PersistentRootsDidChange
<1>2. \A p \in DOMAIN inst : p \in DOMAIN instances /\ inst[p] = fresh[p]
  BY DEF Without
<1> HIDE DEF inst, gone
<1>3. ASSUME NEW p \in DOMAIN inst
      PROVE  IF News(p, lastIds, ids)
             THEN /\ newIds[p] = rows[p].transactionID
                  /\ inst[p] = Reloaded(instances[p], rows[p])
             ELSE newIds[p] = lastIds[p] /\ inst[p] = instances[p]
  <2>1. p \in DOMAIN instances /\ p \in PersistentRoot /\ inst[p] = fresh[p]
    BY <1>2
  <2>2. CASE p \in reload
    BY <2>1, <2>2 DEF News
  <2>3. CASE p \notin reload
    <3>1. p \notin forget
      BY <2>1
    <3>2. ~News(p, lastIds, ids)
      BY <2>1, <2>3 DEF News
    <3> HIDE DEF reload, forget
    <3> QED
      BY <2>1, <2>3, <3>1, <3>2
  <2> QED
    BY <2>2, <2>3
<1>4. ReloadsNews(inst, newIds, instances, lastIds, rows, ids)
  BY <1>2, <1>3 DEF ReloadsNews
<1> HIDE DEF newIds
<1> QED
  BY <1>1, <1>4

LEMMA DeliverHeard ==
  ASSUME Inv, Heard, NEW c \in Context, NEW n \in notifications, Deliver(c, n)
  PROVE  Heard'
<1>1. /\ PersistentRootsDidChange(c, loaded[c], lastTransactionID[c], persistentroots,
                                  n.ids, n.deleted)
      /\ n.to = c /\ notifications' = notifications \ {n}
      /\ persistentroots' = persistentroots /\ losses' = losses
      /\ committing' = committing /\ raised' = raised
  BY DEF Deliver, storeVars
<1>2. DOMAIN loaded[c] \subseteq PersistentRoot
  BY InvParts DEF IsInstances
<1>3. PICK inst, newIds :
        /\ loaded' = [loaded EXCEPT ![c] = inst]
        /\ lastTransactionID' = [lastTransactionID EXCEPT ![c] = newIds]
        /\ ReloadsNews(inst, newIds, loaded[c], lastTransactionID[c], persistentroots, n.ids)
  BY <1>1, <1>2, DidChangeEffect
<1>4. ASSUME c \notin raised'
      PROVE  KeepsHeard(c, inst, newIds)
  <2> SUFFICES ASSUME NEW p \in DOMAIN inst
               PROVE  BecomesCurrent(c, p, inst, newIds) \/ StaysAsItIs(c, p, inst, newIds)
    BY DEF KeepsHeard
  <2>1. CASE News(p, lastTransactionID[c], n.ids)
    <3>1. inst[p].info = persistentroots[p] /\ newIds[p] = persistentroots[p].transactionID
      BY <1>3, <2>1 DEF ReloadsNews, Reloaded, InstanceFor
    <3> QED
      BY <1>1, <3>1 DEF BecomesCurrent
  <2>2. CASE ~News(p, lastTransactionID[c], n.ids)
    <3>1. /\ inst[p] = loaded[c][p] /\ newIds[p] = lastTransactionID[c][p]
          /\ p \in DOMAIN loaded[c]
      BY <1>3, <2>2 DEF ReloadsNews
    <3>2. \A m \in notifications :
             m.to = c /\ p \in DOMAIN m.ids /\ m.ids[p] > lastTransactionID[c][p] =>
               m \in notifications'
      BY <1>1, <2>2 DEF News
    <3> QED
      BY <1>1, <1>4, <3>1, <3>2 DEF StaysAsItIs
  <2> QED
    BY <2>1, <2>2
<1>5. DOMAIN inst \subseteq PersistentRoot
  BY <1>2, <1>3 DEF ReloadsNews
<1>6. /\ \A m \in notifications : m \in notifications' \/ m.to = c
      /\ \A p \in PersistentRoot : persistentroots'[p] = persistentroots[p]
      /\ raised \subseteq raised' \cup {c} /\ losses' = losses
      /\ \A d \in Context \ {c} : committing'[d] = committing[d]
  BY <1>1
<1> QED
  BY <1>3, <1>4, <1>5, <1>6, HeardStep

(* instances and lastIds are those of c, but for p if c had not loaded it. *)
LEMMA UndoOrRedoHeard ==
  ASSUME Inv, Heard, NEW c \in Context, NEW p \in PersistentRoot, NEW row,
         NEW instances, NEW lastIds,
         row.transactionID = persistentroots[p].transactionID + 1,
         DOMAIN instances \subseteq DOMAIN loaded[c] \cup {p},
         \A q \in DOMAIN instances \ {p} :
            instances[q] = loaded[c][q] /\ lastIds[q] = lastTransactionID[c][q],
         UndoOrRedo(c, p, row, instances, lastIds)
  PROVE  Heard'
<1> DEFINE rows == [persistentroots EXCEPT ![p] = row]
           ids  == [q \in {p} |-> row.transactionID]
           one  == [q \in {p} |-> row]
<1>1. /\ PersistentRootsDidChange(c, instances, lastIds, rows, ids,
                                  {q \in {p} : row.deleted})
      /\ StoreCommit(one)
      /\ lastIds[p] \in {0, persistentroots[p].transactionID}
      /\ committing' = committing /\ raised' = raised
  BY DEF UndoOrRedo
<1>2. DOMAIN one = {p} /\ one[p] = row
  OBVIOUS
<1>3. DOMAIN ids = {p} /\ ids[p] = row.transactionID
  OBVIOUS
<1>4. rows[p] = row /\ \A q \in PersistentRoot \ {p} : rows[q] = persistentroots[q]
  BY InvParts DEF OthersTypeOK
<1> HIDE DEF rows, ids, one
<1>5. /\ losses' = losses
      /\ \A n \in notifications : n \in notifications'
      /\ \A q \in PersistentRoot :
           persistentroots'[q] = persistentroots[q] \/ Announced(q)
  BY <1>1, <1>2, Announces
<1>6. /\ persistentroots'[p] = row
      /\ \A q \in PersistentRoot \ {p} : persistentroots'[q] = persistentroots[q]
  BY <1>1, <1>2 DEF StoreCommit
<1>7. DOMAIN instances \subseteq PersistentRoot
  BY InvParts DEF IsInstances
<1>8. PICK inst, newIds :
        /\ loaded' = [loaded EXCEPT ![c] = inst]
        /\ lastTransactionID' = [lastTransactionID EXCEPT ![c] = newIds]
        /\ ReloadsNews(inst, newIds, instances, lastIds, rows, ids)
  BY <1>1, <1>7, DidChangeEffect
<1>9. News(p, lastIds, ids) /\ \A q \in PersistentRoot \ {p} : ~News(q, lastIds, ids)
  <2>1. persistentroots[p].transactionID \in Nat
    BY InvParts DEF OthersTypeOK, Row, TransactionID
  <2> QED
    BY <1>1, <1>3, <2>1 DEF News
<1>10. ASSUME c \notin raised'
       PROVE  KeepsHeard(c, inst, newIds)
  <2> SUFFICES ASSUME NEW q \in DOMAIN inst
               PROVE  BecomesCurrent(c, q, inst, newIds) \/ StaysAsItIs(c, q, inst, newIds)
    BY DEF KeepsHeard
  <2>1. CASE q = p
    <3>1. newIds[p] = row.transactionID /\ inst[p] = Reloaded(instances[p], row)
      BY <1>4, <1>8, <1>9, <2>1 DEF ReloadsNews
    <3>2. inst[p].info = row
      BY <3>1 DEF Reloaded, InstanceFor
    <3> QED
      BY <1>6, <2>1, <3>1, <3>2 DEF BecomesCurrent
  <2>2. CASE q # p
    <3>1. /\ q \in DOMAIN loaded[c] /\ inst[q] = loaded[c][q]
          /\ newIds[q] = lastTransactionID[c][q]
      BY <1>7, <1>8, <1>9, <2>2 DEF ReloadsNews
    <3>2. persistentroots'[q] = persistentroots[q]
      BY <1>6, <1>7, <1>8, <2>2 DEF ReloadsNews
    <3> QED
      BY <1>1, <1>5, <1>10, <3>1, <3>2 DEF StaysAsItIs
  <2> QED
    BY <2>1, <2>2
<1>11. DOMAIN inst \subseteq PersistentRoot
  BY <1>7, <1>8 DEF ReloadsNews
<1> QED
  BY <1>1, <1>5, <1>8, <1>10, <1>11, HeardStep

LEMMA UndoOrRedoRevisionHeard ==
  ASSUME Inv, Heard, NEW c \in Context, NEW p \in PersistentRoot,
         UndoOrRedoRevision(c, p)
  PROVE  Heard'
<1> DEFINE old       == persistentroots[p]
           isLoaded  == p \in DOMAIN loaded[c]
           instances == [q \in DOMAIN loaded[c] \cup {p} |->
                           IF q \in DOMAIN loaded[c] THEN loaded[c][q]
                           ELSE InstanceFor(old)]
           lastIds   == IF isLoaded THEN lastTransactionID[c]
                        ELSE [lastTransactionID[c] EXCEPT ![p] = old.transactionID]
<1>1. PICK r \in revisions[p] \cup {drawn[p] + 1} :
        UndoOrRedo(c, p, [old EXCEPT !.current = r,
                                     !.transactionID = old.transactionID + 1],
                   instances, lastIds)
  BY DEF UndoOrRedoRevision
<1> DEFINE row == [old EXCEPT !.current = r, !.transactionID = old.transactionID + 1]
<1>2. row.transactionID = old.transactionID + 1
  BY InvParts DEF OthersTypeOK, Row
<1>3. DOMAIN instances \subseteq DOMAIN loaded[c] \cup {p}
  OBVIOUS
<1>4. ASSUME NEW q \in DOMAIN instances \ {p}
      PROVE  instances[q] = loaded[c][q] /\ lastIds[q] = lastTransactionID[c][q]
  <2>1. q \in PersistentRoot /\ instances[q] = loaded[c][q]
    BY InvParts DEF IsInstances
  <2>2. lastIds[q] = lastTransactionID[c][q]
    BY <2>1, InvParts
  <2> QED
    BY <2>1, <2>2
<1>5. UndoOrRedo(c, p, row, instances, lastIds)
  BY <1>1
<1> HIDE DEF row, instances, lastIds
<1> QED
  BY <1>2, <1>3, <1>4, <1>5, UndoOrRedoHeard

LEMMA UndoOrRedoDeletionHeard ==
  ASSUME Inv, Heard, NEW c \in Context, NEW p \in PersistentRoot,
         UndoOrRedoDeletion(c, p)
  PROVE  Heard'
<1> DEFINE old == persistentroots[p]
<1>1. PICK deleted \in BOOLEAN :
        UndoOrRedo(c, p, [old EXCEPT !.deleted = deleted,
                                     !.transactionID = old.transactionID + 1],
                   loaded[c], lastTransactionID[c])
  BY DEF UndoOrRedoDeletion
<1> DEFINE row == [old EXCEPT !.deleted = deleted, !.transactionID = old.transactionID + 1]
<1>2. row.transactionID = old.transactionID + 1
  BY InvParts DEF OthersTypeOK, Row
<1>3. UndoOrRedo(c, p, row, loaded[c], lastTransactionID[c])
  BY <1>1
<1> HIDE DEF row
<1> QED
  BY <1>2, <1>3, UndoOrRedoHeard

LEMMA AcceptCommitHeard ==
  ASSUME Inv, Heard, NEW c \in Context, Idle(c), NEW R \in CommitScopes(c),
         AcceptCommit(c, R)
  PROVE  Heard'
<1> DEFINE T    == Touched(c, R)
           rows == [p \in T |-> CommittedRow(loaded[c][p], p)]
           kept == AfterSave(c, R)
           inst == [p \in DOMAIN kept |->
                      IF p \in T THEN [kept[p] EXCEPT !.base = rows[p]] ELSE kept[p]]
           ids  == [p \in PersistentRoot |->
                      IF p \in T THEN lastTransactionID[c][p] + 1
                      ELSE lastTransactionID[c][p]]
<1>1. /\ StoreCommit(rows) /\ TransactionAccepted(c, T)
      /\ loaded' = [loaded EXCEPT ![c] = inst]
      /\ lastTransactionID' = [lastTransactionID EXCEPT ![c] = ids]
      /\ committing' = [committing EXCEPT ![c] = R]
      /\ raised' = raised
  BY DEF AcceptCommit, IdsAfter
<1>2. R \subseteq DOMAIN loaded[c] /\ T \subseteq R /\ DOMAIN loaded[c] \subseteq PersistentRoot
  BY ScopesLoaded, TouchedLoaded, InvParts DEF IsInstances
<1>3. DOMAIN rows = T
  OBVIOUS
<1>4. \A p \in T : rows[p].transactionID = persistentroots[p].transactionID + 1
  BY DEF CommittedRow
<1>5. committing'[c] = R /\ \A d \in Context \ {c} : committing'[d] = committing[d]
  BY <1>1, InvParts DEF OthersTypeOK
<1>6. ASSUME NEW p \in DOMAIN inst, p \notin T
      PROVE  p \in DOMAIN loaded[c] /\ inst[p].info = loaded[c][p].info
  <2>1. p \in DOMAIN loaded[c] /\ loaded[c][p] \in Instance /\ inst[p] = kept[p]
    BY <1>6, InvParts DEF AfterSave, IsInstances
  <2>2. CASE p \in R
    <3>1. ~loaded[c][p].dirty
      BY <1>6, <2>2 DEF Touched, HasChanges
    <3>2. kept[p] = [loaded[c][p] EXCEPT !.pending = "none"]
      BY <1>6, <2>2, <3>1 DEF AfterSave, Saved
    <3> QED
      BY <2>1, <3>2 DEF Instance
  <2>3. CASE p \notin R
    BY <1>6, <2>1, <2>3 DEF AfterSave
  <2> QED
    BY <2>1, <2>2, <2>3
<1>7. DOMAIN inst \subseteq DOMAIN loaded[c]
  BY DEF AfterSave
<1> HIDE DEF T, rows, kept, inst
<1>8. /\ losses' = losses
      /\ \A n \in notifications : n \in notifications'
      /\ \A q \in PersistentRoot :
           persistentroots'[q] = persistentroots[q] \/ Announced(q)
  BY <1>1, <1>2, <1>3, <1>4, Announces
<1>9. ASSUME c \notin raised'
      PROVE  KeepsHeard(c, inst, ids)
  <2> SUFFICES ASSUME NEW p \in DOMAIN inst
               PROVE  BecomesCurrent(c, p, inst, ids) \/ StaysAsItIs(c, p, inst, ids)
    BY DEF KeepsHeard
  <2>1. p \in PersistentRoot
    BY <1>2, <1>7
  <2>2. CASE p \in T
    <3>1. ids[p] = persistentroots'[p].transactionID
      BY <1>1, <1>3, <1>4, <2>1, <2>2 DEF StoreCommit, TransactionAccepted, IdAccepted
    <3> QED
      BY <1>2, <1>5, <2>2, <3>1 DEF BecomesCurrent
  <2>3. CASE p \notin T
    <3>1. persistentroots'[p] = persistentroots[p]
      BY <1>1, <1>3, <2>1, <2>3 DEF StoreCommit
    <3>2. ids[p] = lastTransactionID[c][p]
      BY <2>1, <2>3
    <3>3. p \in DOMAIN loaded[c] /\ inst[p].info = loaded[c][p].info
      BY <1>6, <2>3
    <3>4. p \notin committing[c]
      BY DEF Idle
    <3> HIDE DEF ids
    <3> QED
      BY <1>1, <1>8, <1>9, <3>1, <3>2, <3>3, <3>4 DEF StaysAsItIs
  <2> QED
    BY <2>2, <2>3
<1>10. DOMAIN inst \subseteq PersistentRoot
  BY <1>2, <1>7
<1>11. raised \subseteq raised' \cup {c}
  BY <1>1
<1> HIDE DEF ids
<1> QED
  BY <1>1, <1>5, <1>8, <1>9, <1>10, <1>11, HeardStep

(* A context that goes on after an exception is no longer among the sound. *)
LEMMA SurvivorHeard ==
  ASSUME Inv, Heard, NEW c \in Context, NEW inst, NEW ids,
         DOMAIN inst \subseteq DOMAIN loaded[c],
         loaded' = [loaded EXCEPT ![c] = inst],
         lastTransactionID' = [lastTransactionID EXCEPT ![c] = ids],
         raised' = raised \cup {c},
         UNCHANGED <<persistentroots, channelVars, committing>>
  PROVE  Heard'
<1>1. /\ \A p \in PersistentRoot : persistentroots'[p] = persistentroots[p]
      /\ \A n \in notifications : n \in notifications' \/ n.to = c
      /\ \A d \in Context \ {c} : committing'[d] = committing[d]
      /\ losses' = losses
      /\ raised \subseteq raised' \cup {c} /\ c \in raised'
  BY DEF channelVars
<1>2. DOMAIN inst \subseteq PersistentRoot
  BY InvParts DEF IsInstances
<1> QED
  BY <1>1, <1>2, HeardStep

LEMMA RejectCommitHeard ==
  ASSUME Inv, Heard, NEW c \in Context, NEW R \in CommitScopes(c), RejectCommit(c, R)
  PROVE  Heard'
<1>1. CASE Terminate(c)
  BY <1>1, TerminateHeard
<1>2. CASE ~Terminate(c)
  <2> DEFINE inst == AfterSave(c, R)
             ids  == [p \in PersistentRoot |->
                        IF p \in Touched(c, R) THEN lastTransactionID[c][p] + 1
                        ELSE lastTransactionID[c][p]]
  <2>1. DOMAIN inst \subseteq DOMAIN loaded[c]
    BY DEF AfterSave
  <2>2. /\ loaded' = [loaded EXCEPT ![c] = inst]
        /\ lastTransactionID' = [lastTransactionID EXCEPT ![c] = ids]
        /\ raised' = raised \cup {c}
        /\ UNCHANGED <<persistentroots, channelVars, committing>>
    BY <1>2 DEF RejectCommit, IdsAfter
  <2> HIDE DEF inst, ids
  <2> QED
    BY <2>1, <2>2, SurvivorHeard
<1> QED
  BY <1>1, <1>2

LEMMA RaiseCommitHeard ==
  ASSUME Inv, Heard, NEW c \in Context, NEW R \in CommitScopes(c), RaiseCommit(c, R)
  PROVE  Heard'
<1>1. CASE Terminate(c)
  BY <1>1, TerminateHeard
<1>2. CASE ~Terminate(c)
  <2>1. PICK S \in SUBSET (R \ Raising(c, R)) :
          loaded' = [loaded EXCEPT ![c] =
                       [p \in DOMAIN loaded[c] |->
                          IF p \in S THEN Saved(loaded[c][p], p) ELSE loaded[c][p]]]
    BY <1>2 DEF RaiseCommit
  <2> DEFINE inst == [p \in DOMAIN loaded[c] |->
                        IF p \in S THEN Saved(loaded[c][p], p) ELSE loaded[c][p]]
             ids  == lastTransactionID[c]
  <2>2. DOMAIN inst \subseteq DOMAIN loaded[c] /\ loaded' = [loaded EXCEPT ![c] = inst]
    BY <2>1
  <2>3. /\ lastTransactionID' = [lastTransactionID EXCEPT ![c] = ids]
        /\ raised' = raised \cup {c}
        /\ UNCHANGED <<persistentroots, channelVars, committing>>
    BY <1>2, InvParts DEF RaiseCommit
  <2> HIDE DEF inst, ids
  <2> QED
    BY <2>2, <2>3, SurvivorHeard
<1> QED
  BY <1>1, <1>2

LEMMA LoseHeard ==
  ASSUME Inv, Heard, Lose
  PROVE  Heard'
<1>1. /\ UNCHANGED <<persistentroots, loaded, lastTransactionID, committing, raised>>
      /\ losses' = losses + 1
  BY DEF Lose, storeVars, contextVars
<1>2. losses' # 0
  BY <1>1, InvParts, EditingContextAssumption DEF OthersTypeOK
<1> QED
  BY <1>1, <1>2 DEF Heard, HeardOf, IdAccepted, Sound

LEMMA NextHeard ==
  ASSUME Inv, Heard, [Next]_vars
  PROVE  Heard'
<1>1. CASE Lose
  BY <1>1, LoseHeard
<1>2. ASSUME NEW c \in Context, Quit(c) PROVE Heard'
  BY <1>2, TerminateHeard DEF Quit
<1>3. ASSUME NEW c \in Context, ContextStep(c) PROVE Heard'
  <2>1. ASSUME NEW p \in PersistentRoot, RefuseUndoOrRedo(c, p) PROVE Heard'
    BY <2>1, TerminateHeard DEF RefuseUndoOrRedo
  <2>2. CASE Commit(c)
    BY <2>2, AcceptCommitHeard, RejectCommitHeard, RaiseCommitHeard DEF Commit
  <2> QED
    BY <1>3, <2>1, <2>2, LoadHeard, UnloadHeard, EditHeard, SetCurrentRevisionHeard,
       SetDeletedHeard, UndoOrRedoRevisionHeard, UndoOrRedoDeletionHeard,
       DiscardAllChangesHeard, DidCommitHeard, DeliverHeard DEF ContextStep
<1>4. CASE UNCHANGED vars
  <2>1. UNCHANGED <<persistentroots, notifications, losses, loaded,
                    lastTransactionID, committing, raised>>
    BY <1>4 DEF vars, storeVars, channelVars, contextVars
  <2> QED
    BY <2>1 DEF Heard, HeardOf, Told, IdAccepted, Sound
<1> QED
  BY <1>1, <1>2, <1>3, <1>4 DEF Next

(* A context that was delivered all its notifications, none having been    *)
(* lost, holds every loaded root's row as it is in the store:              *)
(* -storePersistentRootsDidChange:isDistributed: and the refresh after a   *)
(* commit together miss no change.                                         *)
THEOREM QuietContextsAreCurrent == Spec => []QuietContextIsCurrent
<1>1. Init => Inv /\ Heard
  BY InitInv, InitHeard
<1>2. Inv /\ Heard /\ [Next]_vars => Inv' /\ Heard'
  BY NextInv, NextHeard
<1>3. ASSUME Inv, Heard PROVE QuietContextIsCurrent
  <2> SUFFICES ASSUME NEW c \in Sound, losses = 0, Idle(c), Outstanding(c) = {},
                      NEW p \in DOMAIN loaded[c]
               PROVE  /\ IdAccepted(c, p)
                      /\ loaded[c][p].info = persistentroots[p]
                      /\ loaded[c][p].base = persistentroots[p]
    BY DEF QuietContextIsCurrent
  <2>1. HeardOf(c, p) /\ ~Told(c, p)
    BY <1>3 DEF Heard, Told, Outstanding
  <2>2. IdAccepted(c, p) /\ loaded[c][p].info = persistentroots[p]
    BY <2>1 DEF HeardOf, Idle
  <2>3. p \in PersistentRoot
    BY <1>3, InvParts DEF IsInstances, Sound
  <2> QED
    BY <1>3, <2>2, <2>3 DEF Inv, IdsProveFreshness
<1>4. Inv /\ Heard => QuietContextIsCurrent
  BY <1>3
<1> QED
  BY <1>1, <1>2, <1>4, PTL DEF Spec

-----------------------------------------------------------------------------
(* The second invariant, of applications that end with an exception        *)

StoredAt(i, revs) == i.current \in revs /\ i.info.current \in revs

Stored ==
  /\ CurrentRevisionsStored
  /\ \A c \in Context : \A p \in DOMAIN loaded[c] : StoredAt(loaded[c][p], revisions[p])

(* A step of c: revisions stay, and what c takes over is stored. *)
LEMMA StoredStep ==
  ASSUME Inv, Stored, NEW c \in Context, NEW inst,
         loaded' = [loaded EXCEPT ![c] = inst],
         \A p \in PersistentRoot : /\ revisions[p] \subseteq revisions'[p]
                                  /\ persistentroots'[p].current \in revisions'[p],
         \A p \in DOMAIN inst : StoredAt(inst[p], revisions'[p])
  PROVE  Stored'
<1>1. ASSUME NEW d \in Context, NEW p \in DOMAIN loaded'[d]
      PROVE  StoredAt(loaded'[d][p], revisions'[p])
  <2>1. CASE d = c
    BY <2>1, InvParts
  <2>2. CASE d # c
    <3>1. loaded'[d] = loaded[d]
      BY <2>2, InvParts
    <3>2. p \in DOMAIN loaded[d] /\ p \in PersistentRoot
      BY <3>1, InvParts DEF IsInstances
    <3> QED
      BY <3>1, <3>2 DEF Stored, StoredAt
  <2> QED
    BY <2>1, <2>2
<1> QED
  BY <1>1 DEF Stored, CurrentRevisionsStored

(* A step of c that leaves the store alone. *)
LEMMA StoredLocal ==
  ASSUME Inv, Stored, NEW c \in Context, NEW inst,
         loaded' = [loaded EXCEPT ![c] = inst],
         UNCHANGED storeVars,
         \A p \in DOMAIN inst : StoredAt(inst[p], revisions[p])
  PROVE  Stored'
<1>1. /\ revisions' = revisions
      /\ \A p \in PersistentRoot : /\ revisions[p] \subseteq revisions'[p]
                                   /\ persistentroots'[p].current \in revisions'[p]
  BY DEF storeVars, Stored, CurrentRevisionsStored
<1>2. \A p \in DOMAIN inst : StoredAt(inst[p], revisions'[p])
  BY <1>1
<1> QED
  BY <1>1, <1>2, StoredStep

LEMMA InitStored ==
  ASSUME Init
  PROVE  Stored
<1>1. DOMAIN << >> = {}
  OBVIOUS
<1>2. \A c \in Context : loaded[c] = << >>
  BY DEF Init
<1>3. \A c \in Context : DOMAIN loaded[c] = {}
  BY <1>1, <1>2, Zenon
<1>4. CurrentRevisionsStored
  BY DEF Init, CurrentRevisionsStored
<1> QED
  BY <1>3, <1>4 DEF Stored

(* The steps that change the working copies only. *)
LEMMA WorkStored ==
  ASSUME Inv, Stored, NEW c \in Context, NEW p \in PersistentRoot,
         \/ Load(c, p) \/ Unload(c, p) \/ Edit(c, p)
         \/ \E r \in revisions[p] : SetCurrentRevision(c, p, r)
         \/ \E deleted \in BOOLEAN : SetDeleted(c, p, deleted)
  PROVE  Stored'
<1>1. /\ DOMAIN loaded[c] \subseteq PersistentRoot
      /\ \A q \in DOMAIN loaded[c] : /\ loaded[c][q] \in Instance
                                     /\ StoredAt(loaded[c][q], revisions[q])
  BY InvParts DEF IsInstances, Stored
<1>2. CASE Load(c, p)
  <2> DEFINE inst == [q \in DOMAIN loaded[c] \cup {p} |->
                        IF q = p THEN InstanceFor(persistentroots[p]) ELSE loaded[c][q]]
  <2>1. loaded' = [loaded EXCEPT ![c] = inst] /\ UNCHANGED storeVars
    BY <1>2 DEF Load
  <2>2. StoredAt(InstanceFor(persistentroots[p]), revisions[p])
    BY DEF InstanceFor, StoredAt, Stored, CurrentRevisionsStored
  <2>3. \A q \in DOMAIN inst : StoredAt(inst[q], revisions[q])
    BY <1>1, <2>2
  <2> HIDE DEF inst
  <2> QED
    BY <2>1, <2>3, StoredLocal
<1>3. CASE Unload(c, p)
  <2> DEFINE inst == Without(loaded[c], {p})
  <2>1. loaded' = [loaded EXCEPT ![c] = inst] /\ UNCHANGED storeVars
    BY <1>3 DEF Unload
  <2>2. \A q \in DOMAIN inst : StoredAt(inst[q], revisions[q])
    BY <1>1 DEF Without
  <2> HIDE DEF inst
  <2> QED
    BY <2>1, <2>2, StoredLocal
<1>4. ASSUME NEW i, StoredAt(i, revisions[p]), UNCHANGED storeVars,
             loaded' = [loaded EXCEPT ![c] = [loaded[c] EXCEPT ![p] = i]]
      PROVE  Stored'
  <2> DEFINE inst == [loaded[c] EXCEPT ![p] = i]
  <2>1. \A q \in DOMAIN inst : StoredAt(inst[q], revisions[q])
    BY <1>1, <1>4
  <2>2. loaded' = [loaded EXCEPT ![c] = inst]
    BY <1>4
  <2> HIDE DEF inst
  <2> QED
    BY <1>4, <2>1, <2>2, StoredLocal
<1>5. CASE Edit(c, p)
  <2> DEFINE i == [loaded[c][p] EXCEPT !.dirty = TRUE]
  <2>1. StoredAt(i, revisions[p])
    BY <1>1, <1>5 DEF Edit, StoredAt, Instance
  <2>2. /\ loaded' = [loaded EXCEPT ![c] = [loaded[c] EXCEPT ![p] = i]]
        /\ UNCHANGED storeVars
    BY <1>5 DEF Edit
  <2> HIDE DEF i
  <2> QED
    BY <1>4, <2>1, <2>2
<1>6. ASSUME NEW r \in revisions[p], SetCurrentRevision(c, p, r) PROVE Stored'
  <2> DEFINE i == [loaded[c][p] EXCEPT !.current = r, !.dirty = FALSE]
  <2>1. p \in DOMAIN loaded[c] /\ UNCHANGED storeVars
    BY <1>6 DEF SetCurrentRevision
  <2>2. StoredAt(i, revisions[p])
    BY <1>1, <2>1 DEF StoredAt, Instance
  <2>3. loaded' = [loaded EXCEPT ![c] = [loaded[c] EXCEPT ![p] = i]]
    BY <1>6, <2>1, InvParts DEF SetCurrentRevision
  <2> HIDE DEF i
  <2> QED
    BY <1>4, <2>1, <2>2, <2>3
<1>7. ASSUME NEW deleted \in BOOLEAN, SetDeleted(c, p, deleted) PROVE Stored'
  <2> DEFINE mark == CASE loaded[c][p].pending # "none" -> "none"
                       [] deleted -> "deletion"
                       [] OTHER   -> "undeletion"
             i    == [loaded[c][p] EXCEPT !.pending = mark]
  <2>1. p \in DOMAIN loaded[c] /\ UNCHANGED storeVars
    BY <1>7 DEF SetDeleted
  <2>2. loaded' = [loaded EXCEPT ![c] = [loaded[c] EXCEPT ![p] = i]]
    BY <1>7 DEF SetDeleted
  <2> HIDE DEF mark
  <2>3. StoredAt(i, revisions[p])
    BY <1>1, <2>1 DEF StoredAt, Instance
  <2> HIDE DEF i
  <2> QED
    BY <1>4, <2>1, <2>2, <2>3
<1> QED
  BY <1>2, <1>3, <1>5, <1>6, <1>7

LEMMA DiscardAllChangesStored ==
  ASSUME Inv, Stored, NEW c \in Context, DiscardAllChanges(c)
  PROVE  Stored'
<1> DEFINE inst == [p \in DOMAIN loaded[c] |-> Discarded(loaded[c][p])]
<1>1. \A p \in DOMAIN loaded[c] : /\ loaded[c][p] \in Instance
                                 /\ StoredAt(loaded[c][p], revisions[p])
  BY InvParts DEF IsInstances, Stored
<1>2. \A p \in DOMAIN inst : StoredAt(inst[p], revisions[p])
  BY <1>1 DEF Discarded, StoredAt, Instance
<1>3. loaded' = [loaded EXCEPT ![c] = inst] /\ UNCHANGED storeVars
  BY DEF DiscardAllChanges
<1> HIDE DEF inst
<1> QED
  BY <1>2, <1>3, StoredLocal

LEMMA DidCommitStored ==
  ASSUME Inv, Stored, NEW c \in Context, DidCommit(c)
  PROVE  Stored'
<1> DEFINE inst == [p \in DOMAIN loaded[c] |->
                      IF p \in committing[c]
                      THEN [loaded[c][p] EXCEPT !.info = persistentroots[p]]
                      ELSE loaded[c][p]]
<1>1. \A p \in DOMAIN loaded[c] : /\ p \in PersistentRoot /\ loaded[c][p] \in Instance
                                 /\ StoredAt(loaded[c][p], revisions[p])
                                 /\ persistentroots[p].current \in revisions[p]
  BY InvParts DEF IsInstances, Stored, CurrentRevisionsStored
<1>2. \A p \in DOMAIN inst : StoredAt(inst[p], revisions[p])
  BY <1>1 DEF StoredAt, Instance
<1>3. loaded' = [loaded EXCEPT ![c] = inst] /\ UNCHANGED storeVars
  BY DEF DidCommit
<1> HIDE DEF inst
<1> QED
  BY <1>2, <1>3, StoredLocal

LEMMA TerminateStored ==
  ASSUME Inv, Stored, NEW c \in Context, Terminate(c)
  PROVE  Stored'
<1>1. DOMAIN << >> = {}
  OBVIOUS
<1>2. loaded' = [loaded EXCEPT ![c] = << >>] /\ UNCHANGED storeVars
  BY DEF Terminate
<1> QED
  BY <1>1, <1>2, StoredLocal

LEMMA DeliverStored ==
  ASSUME Inv, Stored, NEW c \in Context, NEW n \in notifications, Deliver(c, n)
  PROVE  Stored'
<1>1. /\ PersistentRootsDidChange(c, loaded[c], lastTransactionID[c], persistentroots,
                                  n.ids, n.deleted)
      /\ UNCHANGED storeVars
  BY DEF Deliver
<1>2. DOMAIN loaded[c] \subseteq PersistentRoot
  BY InvParts DEF IsInstances
<1>3. PICK inst, newIds :
        /\ loaded' = [loaded EXCEPT ![c] = inst]
        /\ ReloadsNews(inst, newIds, loaded[c], lastTransactionID[c], persistentroots, n.ids)
  BY <1>1, <1>2, DidChangeEffect
<1>4. ASSUME NEW p \in DOMAIN inst PROVE StoredAt(inst[p], revisions[p])
  <2>1. p \in DOMAIN loaded[c] /\ p \in PersistentRoot
    BY <1>2, <1>3 DEF ReloadsNews
  <2>2. StoredAt(Reloaded(loaded[c][p], persistentroots[p]), revisions[p])
    BY <2>1 DEF Reloaded, InstanceFor, StoredAt, Stored, CurrentRevisionsStored
  <2>3. StoredAt(loaded[c][p], revisions[p])
    BY <2>1 DEF Stored
  <2> QED
    BY <1>3, <2>2, <2>3 DEF ReloadsNews
<1> QED
  BY <1>1, <1>3, <1>4, StoredLocal

(* The row that undo commits is at a revision that is stored with it. *)
LEMMA UndoOrRedoStored ==
  ASSUME Inv, Stored, NEW c \in Context, NEW p \in PersistentRoot, NEW row,
         NEW instances, NEW lastIds,
         DOMAIN instances \subseteq PersistentRoot,
         \A q \in DOMAIN instances : StoredAt(instances[q], revisions[q]),
         \A q \in PersistentRoot : revisions[q] \subseteq revisions'[q],
         row.current \in revisions'[p],
         UndoOrRedo(c, p, row, instances, lastIds)
  PROVE  Stored'
<1> DEFINE rows == [persistentroots EXCEPT ![p] = row]
           ids  == [q \in {p} |-> row.transactionID]
           one  == [q \in {p} |-> row]
<1>1. /\ PersistentRootsDidChange(c, instances, lastIds, rows, ids,
                                  {q \in {p} : row.deleted})
      /\ StoreCommit(one)
  BY DEF UndoOrRedo
<1>2. DOMAIN one = {p} /\ one[p] = row
  OBVIOUS
<1>3. \A q \in PersistentRoot : rows[q] = IF q = p THEN row ELSE persistentroots[q]
  BY InvParts DEF OthersTypeOK
<1> HIDE DEF rows, ids, one
<1>4. \A q \in PersistentRoot :
        persistentroots'[q] = rows[q] /\ rows[q].current \in revisions'[q]
  BY <1>1, <1>2, <1>3 DEF StoreCommit, Stored, CurrentRevisionsStored
<1>5. PICK inst, newIds :
        /\ loaded' = [loaded EXCEPT ![c] = inst]
        /\ ReloadsNews(inst, newIds, instances, lastIds, rows, ids)
  BY <1>1, DidChangeEffect
<1>6. ASSUME NEW q \in DOMAIN inst PROVE StoredAt(inst[q], revisions'[q])
  <2>1. q \in DOMAIN instances /\ q \in PersistentRoot
    BY <1>5 DEF ReloadsNews
  <2>2. StoredAt(Reloaded(instances[q], rows[q]), revisions'[q])
    BY <1>4, <2>1 DEF Reloaded, InstanceFor, StoredAt
  <2>3. StoredAt(instances[q], revisions'[q])
    BY <2>1 DEF StoredAt
  <2> QED
    BY <1>5, <2>2, <2>3 DEF ReloadsNews
<1>7. \A q \in PersistentRoot : /\ revisions[q] \subseteq revisions'[q]
                               /\ persistentroots'[q].current \in revisions'[q]
  BY <1>4
<1> QED
  BY <1>5, <1>6, <1>7, StoredStep

LEMMA UndoOrRedoRevisionStored ==
  ASSUME Inv, Stored, NEW c \in Context, NEW p \in PersistentRoot,
         UndoOrRedoRevision(c, p)
  PROVE  Stored'
<1> DEFINE old       == persistentroots[p]
           isLoaded  == p \in DOMAIN loaded[c]
           instances == [q \in DOMAIN loaded[c] \cup {p} |->
                           IF q \in DOMAIN loaded[c] THEN loaded[c][q]
                           ELSE InstanceFor(old)]
           lastIds   == IF isLoaded THEN lastTransactionID[c]
                        ELSE [lastTransactionID[c] EXCEPT ![p] = old.transactionID]
<1>1. PICK r \in revisions[p] \cup {drawn[p] + 1} :
        /\ UndoOrRedo(c, p, [old EXCEPT !.current = r,
                                        !.transactionID = old.transactionID + 1],
                      instances, lastIds)
        /\ revisions' = [revisions EXCEPT ![p] = revisions[p] \cup {r}]
  BY DEF UndoOrRedoRevision
<1> DEFINE row == [old EXCEPT !.current = r, !.transactionID = old.transactionID + 1]
<1>2. row.current \in revisions'[p]
  BY <1>1, InvParts DEF OthersTypeOK, Row
<1>3. \A q \in PersistentRoot : revisions[q] \subseteq revisions'[q]
  BY <1>1, InvParts DEF OthersTypeOK
<1>4. DOMAIN instances \subseteq PersistentRoot
  BY InvParts DEF IsInstances
<1>5. ASSUME NEW q \in DOMAIN instances PROVE StoredAt(instances[q], revisions[q])
  <2>1. StoredAt(InstanceFor(old), revisions[p])
    BY DEF InstanceFor, StoredAt, Stored, CurrentRevisionsStored
  <2>2. CASE q \in DOMAIN loaded[c]
    BY <2>2 DEF Stored
  <2>3. CASE q \notin DOMAIN loaded[c]
    BY <2>1, <2>3
  <2> QED
    BY <2>2, <2>3
<1>6. UndoOrRedo(c, p, row, instances, lastIds)
  BY <1>1
<1> HIDE DEF row, instances, lastIds
<1> QED
  BY <1>2, <1>3, <1>4, <1>5, <1>6, UndoOrRedoStored

LEMMA UndoOrRedoDeletionStored ==
  ASSUME Inv, Stored, NEW c \in Context, NEW p \in PersistentRoot,
         UndoOrRedoDeletion(c, p)
  PROVE  Stored'
<1> DEFINE old == persistentroots[p]
<1>1. PICK deleted \in BOOLEAN :
        UndoOrRedo(c, p, [old EXCEPT !.deleted = deleted,
                                     !.transactionID = old.transactionID + 1],
                   loaded[c], lastTransactionID[c])
  BY DEF UndoOrRedoDeletion
<1> DEFINE row == [old EXCEPT !.deleted = deleted, !.transactionID = old.transactionID + 1]
<1>2. revisions' = revisions
  BY DEF UndoOrRedoDeletion
<1>3. row.current \in revisions'[p]
  BY <1>2, InvParts DEF OthersTypeOK, Row, Stored, CurrentRevisionsStored
<1>4. /\ DOMAIN loaded[c] \subseteq PersistentRoot
      /\ \A q \in DOMAIN loaded[c] : StoredAt(loaded[c][q], revisions[q])
  BY InvParts DEF IsInstances, Stored
<1>5. UndoOrRedo(c, p, row, loaded[c], lastTransactionID[c])
  BY <1>1
<1>6. \A q \in PersistentRoot : revisions[q] \subseteq revisions'[q]
  BY <1>2
<1> HIDE DEF row
<1> QED
  BY <1>3, <1>4, <1>5, <1>6, UndoOrRedoStored

LEMMA AcceptCommitStored ==
  ASSUME Inv, Stored, NEW c \in Context, NEW R \in CommitScopes(c), AcceptCommit(c, R)
  PROVE  Stored'
<1> DEFINE T    == Touched(c, R)
           rows == [p \in T |-> CommittedRow(loaded[c][p], p)]
           kept == AfterSave(c, R)
           inst == [p \in DOMAIN kept |->
                      IF p \in T THEN [kept[p] EXCEPT !.base = rows[p]] ELSE kept[p]]
<1>1. /\ StoreCommit(rows) /\ CanDraw(c, R)
      /\ loaded' = [loaded EXCEPT ![c] = inst]
      /\ revisions' = [p \in PersistentRoot |->
                         IF p \in T /\ loaded[c][p].dirty
                         THEN revisions[p] \cup {drawn[p] + 1} ELSE revisions[p]]
  BY DEF AcceptCommit
<1>2. R \subseteq DOMAIN loaded[c] /\ T \subseteq R /\ DOMAIN loaded[c] \subseteq PersistentRoot
  BY ScopesLoaded, TouchedLoaded, InvParts DEF IsInstances
<1>3. \A p \in PersistentRoot : revisions[p] \subseteq revisions'[p]
  BY <1>1
<1>4. ASSUME NEW p \in DOMAIN loaded[c]
      PROVE  /\ p \in PersistentRoot
             /\ loaded[c][p] \in Instance
             /\ StoredAt(loaded[c][p], revisions'[p])
             /\ persistentroots[p].current \in revisions'[p]
  BY <1>2, <1>3, InvParts DEF IsInstances, Stored, StoredAt, CurrentRevisionsStored
<1>5. ASSUME NEW p \in R
      PROVE  StoredAt(Saved(loaded[c][p], p), revisions'[p])
  <2>1. loaded[c][p] \in Instance /\ StoredAt(loaded[c][p], revisions'[p])
    BY <1>2, <1>4
  <2>2. CASE loaded[c][p].dirty
    <3>1. p \in T
      BY <2>2 DEF Touched, HasChanges
    <3>2. drawn[p] + 1 \in revisions'[p]
      BY <1>1, <1>2, <2>2, <3>1
    <3>3. Saved(loaded[c][p], p) =
            [loaded[c][p] EXCEPT !.current = drawn[p] + 1, !.dirty = FALSE]
      BY <2>2 DEF Saved
    <3> HIDE DEF T
    <3> QED
      BY <2>1, <3>2, <3>3 DEF StoredAt, Instance
  <2>3. CASE ~loaded[c][p].dirty
    BY <2>1, <2>3 DEF Saved
  <2> QED
    BY <2>2, <2>3
<1>6. \A p \in R : Saved(loaded[c][p], p) \in Instance
  BY <1>1, <1>2, <1>4, SavedType DEF CanDraw, Inv
<1>7. \A p \in T : rows[p].current \in revisions'[p]
  <2> SUFFICES ASSUME NEW p \in T
               PROVE  CommittedRow(loaded[c][p], p).current \in revisions'[p]
    OBVIOUS
  <2>1. /\ Saved(loaded[c][p], p).current \in revisions'[p]
        /\ persistentroots[p].current \in revisions'[p]
    BY <1>2, <1>4, <1>5 DEF StoredAt
  <2> QED
    BY <2>1 DEF CommittedRow
<1>8. DOMAIN rows = T
  OBVIOUS
<1>9. ASSUME NEW p \in DOMAIN kept
      PROVE  p \in DOMAIN loaded[c] /\ kept[p] \in Instance /\ StoredAt(kept[p], revisions'[p])
  <2>1. p \in DOMAIN loaded[c]
    BY DEF AfterSave
  <2>2. CASE p \in R
    <3>1. kept[p] = [Saved(loaded[c][p], p) EXCEPT !.pending = "none"]
      BY <2>2 DEF AfterSave
    <3> HIDE DEF kept
    <3> QED
      BY <1>5, <1>6, <2>1, <2>2, <3>1 DEF StoredAt, Instance
  <2>3. CASE p \notin R
    BY <1>4, <2>1, <2>3 DEF AfterSave
  <2> QED
    BY <2>1, <2>2, <2>3
<1> HIDE DEF T, rows, kept
<1>10. ASSUME NEW p \in DOMAIN inst PROVE StoredAt(inst[p], revisions'[p])
  <2>1. kept[p] \in Instance /\ StoredAt(kept[p], revisions'[p])
    BY <1>9
  <2> QED
    BY <2>1 DEF StoredAt, Instance
<1>11. \A p \in PersistentRoot : persistentroots'[p].current \in revisions'[p]
  BY <1>1, <1>3, <1>7, <1>8 DEF StoreCommit, Stored, CurrentRevisionsStored
<1> HIDE DEF inst
<1> QED
  BY <1>1, <1>3, <1>10, <1>11, StoredStep

LEMMA NextStored ==
  ASSUME ~SurvivesExceptions, Inv, Stored, [Next]_vars
  PROVE  Stored'
<1>1. CASE Lose
  BY <1>1 DEF Lose, storeVars, contextVars, Stored, CurrentRevisionsStored
<1>2. ASSUME NEW c \in Context, Quit(c) PROVE Stored'
  BY <1>2, TerminateStored DEF Quit
<1>3. ASSUME NEW c \in Context, ContextStep(c) PROVE Stored'
  <2>1. ASSUME NEW p \in PersistentRoot, RefuseUndoOrRedo(c, p) PROVE Stored'
    BY <2>1, TerminateStored DEF RefuseUndoOrRedo
  <2>2. ASSUME NEW R \in CommitScopes(c), RejectCommit(c, R) \/ RaiseCommit(c, R)
        PROVE  Stored'
    BY <2>2, TerminateStored DEF RejectCommit, RaiseCommit, CanSurvive
  <2>3. CASE Commit(c)
    BY <2>2, <2>3, AcceptCommitStored DEF Commit
  <2> QED
    BY <1>3, <2>1, <2>3, WorkStored, UndoOrRedoRevisionStored, UndoOrRedoDeletionStored,
       DiscardAllChangesStored, DidCommitStored, DeliverStored DEF ContextStep
<1>4. CASE UNCHANGED vars
  BY <1>4 DEF vars, storeVars, contextVars, Stored, CurrentRevisionsStored
<1> QED
  BY <1>1, <1>2, <1>3, <1>4 DEF Next

(* In an application that an exception ends, a row of the store is never   *)
(* at a revision nobody wrote: the save phase draws the revision's UUID    *)
(* before the store answers, and only a taken transaction writes it.       *)
THEOREM CurrentRevisionsAlwaysStored ==
  ASSUME ~SurvivesExceptions
  PROVE  Spec => []CurrentRevisionsStored
<1>1. Init => Inv /\ Stored
  BY InitInv, InitStored
<1>2. Inv /\ Stored /\ [Next]_vars => Inv' /\ Stored'
  BY NextInv, NextStored
<1>3. Inv /\ Stored => CurrentRevisionsStored
  BY DEF Stored
<1> QED
  BY <1>1, <1>2, <1>3, PTL DEF Spec
=============================================================================
