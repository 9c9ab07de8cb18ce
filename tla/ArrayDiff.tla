----------------------------- MODULE ArrayDiff -----------------------------
(***************************************************************************)
(* The difference of two arrays (Diff/diff.hh, an O(ND) algorithm; called  *)
(* by CODiffArrays in Diff/COArrayDiff.m), and the application of such     *)
(* differences to an array.  Positions count from 0, as in the code.       *)
(***************************************************************************)
EXTENDS Integers, Sequences, SequencesExt

Span(location, length) == [location |-> location, length |-> length]

End(r) == r.location + r.length

(* The elements of an array in a range *)
Sub(array, r) == SubSeq(array, r.location + 1, End(r))

-----------------------------------------------------------------------------
(* The middle snake.  A box is the part of both arrays that is compared,   *)
(* k names the diagonal x - y = k, and the vectors hold, for the diagonals *)
(* of a round, how far on it a search has come (the code's vectors have    *)
(* room for all diagonals, and are not cleared between searches).          *)

Box(lowerA, upperA, lowerB, upperB) ==
  [lowerA |-> lowerA, upperA |-> upperA, lowerB |-> lowerB, upperB |-> upperB]

Equal(a, b, x, y) == a[x + 1] = b[y + 1]

CommonAfter(a, b, box, x, y) ==
  Max({n \in 0 .. box.upperA - x :
         /\ n = 0 \/ y + n <= box.upperB
         /\ \A j \in 0 .. n - 1 : Equal(a, b, x + j, y + j)} \cup {0})

CommonBefore(a, b, box, x, y) ==
  Max({n \in 0 .. x - box.lowerA :
         /\ n = 0 \/ y - n >= box.lowerB
         /\ \A j \in 1 .. n : Equal(a, b, x - j, y - j)} \cup {0})

Diagonals(middle, D) == {middle - D + 2 * j : j \in 0 .. D}

(* One round of the forward search: a step down or to the right, whichever *)
(* leads further, and then along the diagonal.                             *)
ExtendForward(a, b, box, down, k0, D) ==
  LET start(k) ==
        CASE k = k0 - D -> down[k + 1]
          [] k = k0 + D /\ D > 0 -> down[k - 1] + 1
          [] OTHER -> Max({down[k + 1], down[k - 1] + 1})
      further(x, k) == x + CommonAfter(a, b, box, x, x - k)
  IN [k \in Diagonals(k0, D) |-> further(start(k), k)]

(* The same from the end of the box, up or to the left. *)
ExtendReverse(a, b, box, up, k0, D) ==
  LET start(k) ==
        CASE k = k0 + D -> up[k - 1]
          [] k = k0 - D /\ D > 0 -> up[k + 1] - 1
          [] OTHER -> Min({up[k - 1], up[k + 1] - 1})
      further(x, k) == x - CommonBefore(a, b, box, x, x - k)
  IN [k \in Diagonals(k0, D) |-> further(start(k), k)]

DownK(box) == box.lowerA - box.lowerB

UpK(box) == box.upperA - box.upperB

MaxD(box) == (box.upperA - box.lowerA + box.upperB - box.lowerB) \div 2 + 1

(* The vectors after each round, of which a round needs the last one only; *)
(* -1 is before the first.                                                 *)
DownVector(a, b, box) ==
  LET down[D \in -1 .. MaxD(box)] ==
        IF D = -1 THEN [k \in {DownK(box) + 1} |-> box.lowerA]
        ELSE ExtendForward(a, b, box, down[D - 1], DownK(box), D)
  IN down

UpVector(a, b, box) ==
  LET up[D \in -1 .. MaxD(box)] ==
        IF D = -1 THEN [k \in {UpK(box) - 1} |-> box.upperA]
        ELSE ExtendReverse(a, b, box, up[D - 1], UpK(box), D)
  IN up

(* The diagonals on which the searches overlap in round D.  When their     *)
(* distance is odd, the forward search meets the reverse one of the round  *)
(* before.                                                                 *)
Met(a, b, box, D) ==
  LET odd  == (UpK(box) - DownK(box)) % 2 = 1
      down == DownVector(a, b, box)[D]
      up   == UpVector(a, b, box)[IF odd THEN D - 1 ELSE D]
  IN IF odd
     THEN {k \in Diagonals(DownK(box), D) :
             UpK(box) - D < k /\ k < UpK(box) + D /\ up[k] <= down[k]}
     ELSE {k \in Diagonals(UpK(box), D) :
             DownK(box) - D <= k /\ k <= DownK(box) + D /\ up[k] <= down[k]}

(* The round in which the two searches first overlap.  There is no value   *)
(* for the exception "should never come here": it would be an error.       *)
FirstMeeting(a, b, box) ==
  CHOOSE D \in 0 .. MaxD(box) :
    Met(a, b, box, D) # {} /\ \A E \in 0 .. D - 1 : Met(a, b, box, E) = {}

PointOn(k, x) == [x |-> x, y |-> x - k]

MeetingPoint(a, b, box, D) ==
  LET k == Min(Met(a, b, box, D)) IN PointOn(k, DownVector(a, b, box)[D][k])

(* SMS *)
MiddleSnake(a, b, box) == MeetingPoint(a, b, box, FirstMeeting(a, b, box))

-----------------------------------------------------------------------------
(* Ranges that were modified, and the edits made of them *)

(* The box without what both arrays begin and end with there. *)
Inner(a, b, box) ==
  LET front == CommonAfter(a, b, box, box.lowerA, box.lowerB)
      rest  == [box EXCEPT !.lowerA = @ + front, !.lowerB = @ + front]
      back  == CommonBefore(a, b, rest, rest.upperA, rest.upperB)
  IN [rest EXCEPT !.upperA = @ - back, !.upperB = @ - back]

Boxes(a, b) ==
  {box \in [lowerA : 0 .. Len(a), upperA : 0 .. Len(a), lowerB : 0 .. Len(b), upperB : 0 .. Len(b)] :
     box.lowerA <= box.upperA /\ box.lowerB <= box.upperB}

Ranges(A, B) == [A |-> A, B |-> B]

(* Mutant: what is between the common ends is not looked into. *)
MutantLCS(a, b) ==
  LET inner == Inner(a, b, Box(0, Len(a), 0, Len(b)))
      range(lower, upper) == IF lower = upper THEN << >> ELSE <<Span(lower, upper - lower)>>
  IN Ranges(range(inner.lowerA, inner.upperA), range(inner.lowerB, inner.upperB))

(* The ranges of a box that is split at a point, the first part first. *)
RangesOfParts(ranges, inner, point) ==
  LET to   == ranges[[inner EXCEPT !.upperA = point.x, !.upperB = point.y]]
      from == ranges[[inner EXCEPT !.lowerA = point.x, !.lowerB = point.y]]
  IN Ranges(to.A \o from.A, to.B \o from.B)

RangesOfInner(a, b, ranges, inner) ==
  LET sizeA == inner.upperA - inner.lowerA
      sizeB == inner.upperB - inner.lowerB
  IN CASE sizeA = 0 /\ sizeB = 0 -> Ranges(<< >>, << >>)
       [] sizeA = 0 /\ sizeB > 0 -> Ranges(<< >>, <<Span(inner.lowerB, sizeB)>>)
       [] sizeB = 0 /\ sizeA > 0 -> Ranges(<<Span(inner.lowerA, sizeA)>>, << >>)
       [] OTHER -> RangesOfParts(ranges, inner, MiddleSnake(a, b, inner))

(* LCS: the ranges of a and of b that are in no common subsequence, in the *)
(* order they are found in.                                                *)
LCS(a, b) ==
  LET ranges[box \in Boxes(a, b)] == RangesOfInner(a, b, ranges, Inner(a, b, box))
  IN ranges[Box(0, Len(a), 0, Len(b))]

(* -addRange: a range that touches the last one extends it. *)
AddRange(ranges, r) ==
  IF ranges # << >> /\ End(Last(ranges)) = r.location
  THEN Front(ranges) \o <<[Last(ranges) EXCEPT !.length = @ + r.length]>>
  ELSE Append(ranges, r)

(* The vector modified, when all ranges were added *)
Modified(ranges) ==
  LET modified[n \in 0 .. Len(ranges)] ==
        IF n = 0 THEN << >> ELSE AddRange(modified[n - 1], ranges[n])
  IN modified[Len(ranges)]

(* What can be emitted at the positions: the ranges begin there or later.  *)
CanCopy(A, B, done) ==
  Min((IF done.i > Len(A) THEN {} ELSE {A[done.i].location - done.posA})
        \cup (IF done.j > Len(B) THEN {} ELSE {B[done.j].location - done.posB}))

Edit(kind, range, objects) == [kind |-> kind, range |-> range, objects |-> objects]

(* One turn of the loop of CreateDiffs, in which done has come to the      *)
(* ranges i of A and j of B: after a copy, one edit.                       *)
EmitEdit(b, A, B, done) ==
  LET copied == CanCopy(A, B, done)
      x == done.posA + copied
      y == done.posB + copied
      atA == done.i <= Len(A) /\ A[done.i].location = x
      atB == done.j <= Len(B) /\ B[done.j].location = y
      edit == CASE atA /\ atB  -> Edit("modification", A[done.i], Sub(b, B[done.j]))
                [] atA /\ ~atB -> Edit("deletion", A[done.i], << >>)
                [] atB /\ ~atA -> Edit("insertion", Span(x, 0), Sub(b, B[done.j]))
  IN [i    |-> IF atA THEN done.i + 1 ELSE done.i,
      j    |-> IF atB THEN done.j + 1 ELSE done.j,
      posA |-> IF atA THEN End(A[done.i]) ELSE x,
      posB |-> IF atB THEN End(B[done.j]) ELSE y,
      edits |-> Append(done.edits, edit)]

(* CreateDiffs, of which CODiffArrays drops the copies. *)
CreateDiffs(b, A, B) ==
  LET start == [i |-> 1, j |-> 1, posA |-> 0, posB |-> 0, edits |-> << >>]
      done[n \in 0 .. Len(A) + Len(B)] ==
        IF n = 0 THEN start
        ELSE LET d == done[n - 1]
             IN IF d.i > Len(A) /\ d.j > Len(B) THEN d ELSE EmitEdit(b, A, B, d)
  IN done[Len(A) + Len(B)].edits

(* CODiffArrays *)
DiffArrays(a, b) ==
  LET modified == LCS(a, b)
  IN CreateDiffs(b, Modified(modified.A), Modified(modified.B))

-----------------------------------------------------------------------------
(* Applying edits *)

(* Mutant: edits at one location see each other's shift. *)
MutantShiftAt(applied, e) == applied.nextShift

(* i, which changes when the location does *)
ShiftAt(applied, e) ==
  IF e.range.location = applied.lastStart THEN applied.shift ELSE applied.nextShift

(* Mutant: what was deleted does not shift the later edits. *)
MutantApplyEdit(applied, e) ==
  LET shift == ShiftAt(applied, e)
      at    == Span(e.range.location + shift, e.range.length)
  IN IF applied.raised \/ at.location < 0 \/ End(at) > Len(applied.array)
     THEN [applied EXCEPT !.raised = TRUE]
     ELSE [array     |-> Sub(applied.array, Span(0, at.location)) \o e.objects
                           \o Sub(applied.array, Span(End(at), Len(applied.array) - End(at))),
           shift     |-> shift,
           nextShift |-> applied.nextShift + Len(e.objects),
           lastStart |-> e.range.location,
           raised    |-> FALSE]

(* An index that is out of the array raises. *)
ApplyEdit(applied, e) ==
  LET shift == ShiftAt(applied, e)
      at    == Span(e.range.location + shift, e.range.length)
  IN IF applied.raised \/ at.location < 0 \/ End(at) > Len(applied.array)
     THEN [applied EXCEPT !.raised = TRUE]
     ELSE [array     |-> Sub(applied.array, Span(0, at.location)) \o e.objects
                           \o Sub(applied.array, Span(End(at), Len(applied.array) - End(at))),
           shift     |-> shift,
           nextShift |-> applied.nextShift + Len(e.objects) - at.length,
           lastStart |-> e.range.location,
           raised    |-> FALSE]

(* -compare: *)
Precedes(e, f) ==
  \/ e.range.location < f.range.location
  \/ e.range.location = f.range.location /\ f.kind = "insertion" /\ e.kind # "insertion"

(* The orders a sort may leave edits in, as some compare as equal. *)
SortedEdits(edits) ==
  {s \in SetToSeqs(edits) : \A i, j \in DOMAIN s : i < j => ~Precedes(s[j], s[i])}

IsEqualIgnoringSourceIdentifier(e, f) == e = [f EXCEPT !.source = e.source]

NoneApplied(array) ==
  [array |-> array, shift |-> 0, nextShift |-> 0, lastStart |-> -1, raised |-> FALSE]

(* The same edit of both sides is made once: the last time it comes. *)
ApplyUnlessRepeated(applied, sorted, n) ==
  IF n = Len(sorted) \/ ~IsEqualIgnoringSourceIdentifier(sorted[n], sorted[n + 1])
  THEN ApplyEdit(applied, sorted[n])
  ELSE applied

(* COApplyEditsToArray *)
ApplyEdits(array, sorted) ==
  LET applied[n \in 0 .. Len(sorted)] ==
        IF n = 0 THEN NoneApplied(array) ELSE ApplyUnlessRepeated(applied[n - 1], sorted, n)
  IN applied[Len(sorted)]

=============================================================================
