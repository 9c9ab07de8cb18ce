-------------------------- MODULE MCItemGraphDiff --------------------------
(* Graphs that differ in one array; in a set, a value and an array that is *)
(* added; or in where inner items are.                                     *)
EXTENDS ItemGraphDiff

Inputs(graph, edits) ==
  {[base |-> graph, edited |-> [self |-> a, other |-> b]] : a \in edits, b \in edits}

Arrays == UNION {[1 .. n -> 1 .. 4] : n \in 0 .. 3}

ArrayInputs ==
  Inputs("text" :> <<1, 2, 3>>, {"text" :> a : a \in Arrays} \cup {<< >>})

SetInputs ==
  Inputs("tags" :> {1} @@ "name" :> <<1>>,
         {tags @@ name @@ text :
            tags \in {<< >>} \cup {"tags" :> s : s \in SUBSET {1, 2}},
            name \in {<< >>, "name" :> <<1>>, "name" :> <<2>>, "name" :> <<3>>},
            text \in {<< >>, "text" :> <<1>>, "text" :> <<2>>}})

(* Three inner items in two lists *)
ItemOrders == {s \in UNION {[1 .. n -> 1 .. 3] : n \in 0 .. 3} : IsInjective(s)}

ItemInputs ==
  Inputs("left" :> <<1, 2>> @@ "right" :> <<3>>,
         UNION {{"left" :> SubSeq(s, 1, n) @@ "right" :> SubSeq(s, n + 1, Len(s)) :
                   n \in 0 .. Len(s)} : s \in ItemOrders})

MCInput == ArrayInputs \cup SetInputs \cup ItemInputs
=============================================================================
