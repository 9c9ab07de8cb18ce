--------------------------- MODULE ItemGraphDiff ---------------------------
(***************************************************************************)
(* The three-way merge of item graphs (Diff/COItemGraphDiff.m), with which *)
(* branches are merged, clients rebased and commands undone selectively.   *)
(* Two graphs were made of one; the differences of both to it are edits of *)
(* attributes, which one diff gathers, finding the conflicts between them; *)
(* resolving these in favour of one side, it is applied to the old graph.  *)
(*                                                                         *)
(*   - An attribute here is one attribute of one item.  Items do not go    *)
(*     away, and attributes do not change their type.                      *)
(*   - The code gathers edits and conflicts in sets, and goes through them *)
(*     in no fixed order.  Conflicts of equal edits have no effect and are *)
(*     left out, and so is a conflict that has lost all of its edits.      *)
(***************************************************************************)
EXTENDS ArrayDiff, FiniteSets, FiniteSetsExt

CONSTANTS
  Attribute,
  Ordered, Unordered,  \* the multivalued ones
  Composite,           \* those whose elements are inner items
  Value,               \* the elements and values
  Input                \* [base, edited]: graphs to merge

Source == {"self", "other"}

Elements(attribute, value) == IF attribute \in Unordered THEN SetToSeq(value) ELSE value

OncePlaced(t, v, u, w) ==
  IF t = u THEN v = w => IsInjective(Elements(t, v))
  ELSE ToSet(Elements(t, v)) \cap ToSet(Elements(u, w)) = {}

(* The attributes that are set have values, and an inner item is in one    *)
(* place.                                                                  *)
IsGraph(g) ==
  /\ DOMAIN g \subseteq Attribute
  /\ \A t \in DOMAIN g : IF t \in Unordered THEN g[t] \subseteq Value /\ IsFiniteSet(g[t])
                         ELSE g[t] \in Seq(Value)
  /\ \A t, u \in DOMAIN g \cap Composite : OncePlaced(t, g[t], u, g[u])

ASSUME ItemGraphDiffAssumption ==
  /\ Ordered \cap Unordered = {}
  /\ \A i \in Input : IsGraph(i.base) /\ \A source \in Source : IsGraph(i.edited[source])

VARIABLES
  base, edited,  \* the old graph, and what each side made of it
  diffDict,      \* the edits of the diff
  conflicts,     \* its conflicts
  adding,        \* edits that a loop is still to add
  phase,         \* "diff", "merge", "resolve"
  favored        \* the side conflicts are resolved for

input == <<base, edited>>
vars  == <<input, diffDict, conflicts, adding, phase, favored>>

-----------------------------------------------------------------------------
(* The edits that make one graph of another; objects holds the value of    *)
(* an attribute that is set, and an element of a set.                      *)

NoRange == Span(0, 0)

(* -_diffValueBefore:... *)
ValueEdits(attribute, a, b) ==
  CASE attribute \in Unordered ->
         {Edit("setInsertion", NoRange, <<v>>) : v \in b \ a}
           \cup {Edit("setDeletion", NoRange, <<v>>) : v \in a \ b}
    [] attribute \in Ordered -> ToSet(DiffArrays(a, b))
    [] OTHER -> {Edit("setAttribute", NoRange, b)}

AttributeEdits(attribute, a, b) ==
  CASE attribute \in DOMAIN b \ DOMAIN a ->
         {Edit("setAttribute", NoRange, Elements(attribute, b[attribute]))}
    [] attribute \in DOMAIN a \ DOMAIN b -> {Edit("deleteAttribute", NoRange, << >>)}
    [] attribute \in DOMAIN a \cap DOMAIN b /\ a[attribute] # b[attribute] ->
         ValueEdits(attribute, a[attribute], b[attribute])
    [] OTHER -> {}

(* +diffItemUUIDs:fromGraph:toGraph:sourceIdentifier: *)
EditsOf(source) ==
  UNION {{[attribute |-> t, source |-> source, kind |-> e.kind,
           range |-> e.range, objects |-> e.objects] :
            e \in AttributeEdits(t, base, edited[source])} : t \in Attribute}

-----------------------------------------------------------------------------
(* Conflicts *)

SequenceEdit == {"insertion", "deletion", "modification"}
SetEdit      == {"setInsertion", "setDeletion"}

SameKind(e, f) ==
  \/ e.kind = f.kind
  \/ {e.kind, f.kind} \subseteq SequenceEdit
  \/ {e.kind, f.kind} \subseteq SetEdit

(* COOverlappingRanges: an empty range overlaps nothing. *)
BeginsIn(r, s) ==
  r.length > 0 /\ s.location <= r.location /\ r.location < End(s)

Overlaps(e, f) == BeginsIn(e.range, f.range) \/ BeginsIn(f.range, e.range)

(* Mutant: replacing elements inserts none. *)
MutantInsertedInnerItems(e) ==
  IF e.attribute \in Composite /\ e.kind \in {"insertion", "setInsertion"}
  THEN ToSet(e.objects) ELSE {}

InsertedInnerItems(e) ==
  IF e.attribute \in Composite /\ e.kind \notin {"deletion", "setDeletion"}
  THEN ToSet(e.objects) ELSE {}

Category == {"editType", "sequenceEdit", "value", "innerItem"}

Clash(category, e, f) ==
  CASE category = "editType"     -> e.attribute = f.attribute /\ ~SameKind(e, f)
    [] category = "sequenceEdit" ->
         /\ e.attribute = f.attribute
         /\ {e.kind, f.kind} \subseteq SequenceEdit
         /\ Overlaps(e, f)
    [] category = "value" ->
         /\ e.attribute = f.attribute
         /\ {e.kind, f.kind} = {"setAttribute"}
         /\ ~IsEqualIgnoringSourceIdentifier(e, f)
    [] category = "innerItem" -> InsertedInnerItems(e) \cap InsertedInnerItems(f) # {}

Nonconflicting(c) == \A e, f \in c.edits : IsEqualIgnoringSourceIdentifier(e, f)

HasConflicts == \E c \in conflicts : ~Nonconflicting(c)

None == [category |-> "none", edits |-> {}, listed |-> FALSE]

Holding(category, f) == {c \in conflicts : c.category = category /\ f \in c.edits}

(* Mutant: inner items inserted under different attributes are missed. *)
MutantClashes(e) ==
  {x \in Category \X (diffDict \ {e}) :
     e.attribute = x[2].attribute /\ Clash(x[1], e, x[2])}

Clashes(e) ==
  {x \in Category \X (diffDict \ {e}) : Clash(x[1], e, x[2])}

(* -addEdit:.  A clash with f is recorded in some conflict of the category *)
(* that has f, or else in a new one.                                       *)
AddEdit(e) ==
  LET clashes == Clashes(e)
  IN /\ e \in adding
     /\ adding' = adding \ {e}
     /\ diffDict' = diffDict \cup {e}
     /\ \E found \in [clashes -> conflicts \cup {None}] :
          /\ \A x \in clashes : LET holding == Holding(x[1], x[2])
                                IN found[x] \in IF holding = {} THEN {None} ELSE holding
          /\ conflicts' =
               {IF \E x \in clashes : found[x] = c THEN [c EXCEPT !.edits = @ \cup {e}] ELSE c :
                  c \in conflicts}
               \cup {[category |-> x[1], edits |-> {x[2], e}, listed |-> FALSE] :
                       x \in {x \in clashes : found[x] = None}}
     /\ UNCHANGED <<input, phase, favored>>

-----------------------------------------------------------------------------
(* Merging and resolving *)

Init ==
  /\ \E i \in Input : base = i.base /\ edited = i.edited
  /\ diffDict = {} /\ conflicts = {}
  /\ adding = EditsOf("self")
  /\ phase = "diff" /\ favored = "self"

(* -itemTreeDiffByMergingWithDiff: *)
MergeWith ==
  /\ phase = "diff" /\ adding = {}
  /\ phase' = "merge"
  /\ adding' = EditsOf("other")
  /\ UNCHANGED <<input, diffDict, conflicts, favored>>

(* -resolveConflictsFavoringSourceIdentifier: goes through the conflicts   *)
(* there are now.                                                          *)
ResolveConflicts(source) ==
  /\ phase = "merge" /\ adding = {}
  /\ phase' = "resolve"
  /\ favored' = source
  /\ conflicts' = {[c EXCEPT !.listed = TRUE] : c \in conflicts}
  /\ UNCHANGED <<input, diffDict, adding>>

(* Mutant: other conflicts keep the edits that are taken out. *)
MutantRemoveConflict(c) ==
  /\ phase = "resolve" /\ adding = {}
  /\ c.listed
  /\ diffDict' = diffDict \ c.edits
  /\ conflicts' = conflicts \ {c}
  /\ adding' = {e \in c.edits : e.source = favored}
  /\ UNCHANGED <<input, phase, favored>>

(* Mutant: a conflict that loses an edit goes. *)
MutantDropConflicts(c) ==
  /\ phase = "resolve" /\ adding = {}
  /\ c.listed
  /\ diffDict' = diffDict \ c.edits
  /\ conflicts' = {d \in conflicts \ {c} : d.edits \cap c.edits = {}}
  /\ adding' = {e \in c.edits : e.source = favored}
  /\ UNCHANGED <<input, phase, favored>>

(* One turn of its loop: -removeConflict: takes the edits out of the diff, *)
(* and out of the other conflicts, and those of the side are added again.  *)
RemoveConflict(c) ==
  /\ phase = "resolve" /\ adding = {}
  /\ c.listed
  /\ diffDict' = diffDict \ c.edits
  /\ conflicts' = {[d EXCEPT !.edits = @ \ c.edits] :
                      d \in {d \in conflicts : ~(d.edits \subseteq c.edits)}}
  /\ adding' = {e \in c.edits : e.source = favored}
  /\ UNCHANGED <<input, phase, favored>>

Next ==
  \/ \E e \in adding : AddEdit(e)
  \/ MergeWith
  \/ \E source \in Source : ResolveConflicts(source)
  \/ \E c \in conflicts : RemoveConflict(c)

Spec == Init /\ [][Next]_vars

-----------------------------------------------------------------------------
(* Applying *)

Objects(edits) == UNION {ToSet(e.objects) : e \in edits}

OfKind(edits, kind) == {e \in edits : e.kind = kind}

Applications(attribute, edits) ==
  {ApplyEdits(base[attribute], s) : s \in SortedEdits(edits)}

(* COApplyEditsToMutableItem: the values an attribute of the old graph may *)
(* have when the edits were applied, none if it is removed or if it raised.*)
Applied(attribute, edits) ==
  CASE edits = {} -> IF attribute \in DOMAIN base THEN {base[attribute]} ELSE {}
    [] OfKind(edits, "deleteAttribute") # {} -> {}
    [] OfKind(edits, "setAttribute") # {} ->
         {IF attribute \in Unordered THEN ToSet(e.objects) ELSE e.objects : e \in edits}
    [] \E e \in edits : e.kind \in SetEdit ->
         {(base[attribute] \ Objects(OfKind(edits, "setDeletion")))
            \cup Objects(OfKind(edits, "setInsertion"))}
    [] OTHER -> {r.array : r \in {r \in Applications(attribute, edits) : ~r.raised}}

-----------------------------------------------------------------------------
(* Properties *)

(* Types: of edits, conflicts and what a loop has still to add. *)
DiffTypeOK ==
  /\ IsGraph(base) /\ \A source \in Source : IsGraph(edited[source])
  /\ \A e \in diffDict \cup adding :
       /\ e.attribute \in Attribute /\ e.source \in Source
       /\ e.kind \in SequenceEdit \cup SetEdit \cup {"setAttribute", "deleteAttribute"}
  /\ \A c \in conflicts : c.category \in Category /\ c.edits \subseteq diffDict
  /\ adding \cap diffDict = {}

Of(edits, attribute) == {e \in edits : e.attribute = attribute}

(* The difference of two graphs, applied to the first, gives the second.   *)
DiffsRoundTrip ==
  phase = "diff" /\ adding = {} =>
    \A source \in Source, t \in Attribute :
      Applied(t, Of(EditsOf(source), t)) =
        IF t \in DOMAIN edited[source] THEN {edited[source][t]} ELSE {}

(* The length of a longest common subsequence, by its definition. *)
LongestCommon(a, b) ==
  LET length[i \in 0 .. Len(a), j \in 0 .. Len(b)] ==
        CASE i = 0 \/ j = 0 -> 0
          [] i > 0 /\ j > 0 /\ a[i] = b[j] -> length[i - 1, j - 1] + 1
          [] OTHER -> Max({length[i - 1, j], length[i, j - 1]})
  IN length[Len(a), Len(b)]

(* And it leaves in place as much of an array as any difference could, so  *)
(* that merges conflict no more often than they must.                      *)
DiffsAreShortest ==
  phase = "diff" /\ adding = {} =>
    \A source \in Source : \A t \in Ordered \cap DOMAIN base \cap DOMAIN edited[source] :
      LET taken == {i \in DOMAIN base[t] :
                      \E e \in Of(EditsOf(source), t) : BeginsIn(Span(i - 1, 1), e.range)}
      IN Len(base[t]) - Cardinality(taken) = LongestCommon(base[t], edited[source][t])

AnyClash(e, f) == \E category \in Category : Clash(category, e, f)

(* The loop that resolves conflicts is done. *)
Resolved == phase = "resolve" /\ adding = {} /\ \A c \in conflicts : ~c.listed

(* In whatever order edits are added and conflicts resolved, the diff has  *)
(* conflicts exactly when two of its edits that differ clash; a conflict   *)
(* may be left with edits that agree only while the loop is on its way.    *)
ConflictsFound ==
  phase \in {"diff", "merge"} \/ Resolved =>
    (HasConflicts <=>
       \E e, f \in diffDict : AnyClash(e, f) /\ ~IsEqualIgnoringSourceIdentifier(e, f))

(* Resolving ends without a conflict (an assertion of the code), with all  *)
(* edits of the favored side, and with those of the other that clash with  *)
(* none of them.                                                           *)
FavoredSideWins ==
  Resolved =>
    LET ours == EditsOf(favored)
        theirs == UNION {EditsOf(s) : s \in Source \ {favored}}
    IN /\ ~HasConflicts
       /\ diffDict = ours \cup {e \in theirs : \A f \in ours : ~AnyClash(e, f)}

(* An insertion within what the other side deletes or replaces, where the  *)
(* elements around it are gone.                                            *)
Stranded(e, f) ==
  /\ e.kind = "insertion"
  /\ f.range.location < e.range.location /\ e.range.location < End(f.range)

Ready == phase # "diff" /\ adding = {} /\ ~HasConflicts

(* The objects of the edits of a kind at a place of an array *)
ObjectsAt(edits, kind, i) ==
  {e.objects : e \in {e \in OfKind(edits, kind) : e.range.location = i}}

(* What the sides insert there, one after the other *)
InsertedAt(edits, i) == {FlattenSeq(s) : s \in SetToSeqs(ObjectsAt(edits, "insertion", i))}

(* What replaces its element, and the element itself if no side took it    *)
(* away.                                                                   *)
ElementAt(array, edits, i) ==
  IF \E e \in edits : BeginsIn(Span(i, 1), e.range)
  THEN FlattenSeq(SetToSeq(ObjectsAt(edits, "modification", i)))
  ELSE <<array[i + 1]>>

(* All of it, place by place *)
Expected(array, edits) ==
  LET from[i \in 0 .. Len(array)] ==
        IF i = Len(array) THEN InsertedAt(edits, i)
        ELSE {p[1] \o (ElementAt(array, edits, i) \o p[2]) : p \in InsertedAt(edits, i) \X from[i + 1]}
  IN from[0]

(* A merge has what both sides made of an array, each edit where its side  *)
(* made it.                                                                *)
MergesKeepBothSides ==
  Ready =>
    \A t \in Ordered \cap DOMAIN base :
      LET E == Of(diffDict, t)
      IN ({e.kind : e \in E} \subseteq SequenceEdit /\ ~\E e, f \in E : Stranded(e, f)) =>
           Applied(t, E) # {} /\ Applied(t, E) \subseteq Expected(base[t], E)

(* A merge without conflicts leaves every inner item in one place: one that*)
(* both sides move is in conflict, and one that only one side moves is gone*)
(* from where it was.  (Resolving can leave it in two: the deletion gives  *)
(* way with the conflict it is in, and the insertion stays.)               *)
MergesAreGraphs ==
  phase = "merge" /\ Ready =>
    \A t, u \in Composite :
      \A v \in Applied(t, Of(diffDict, t)), w \in Applied(u, Of(diffDict, u)) :
        OncePlaced(t, v, u, w)

=============================================================================
