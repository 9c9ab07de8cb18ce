-------------------------- MODULE MCEditingContext --------------------------
(* Contexts and persistent roots are interchangeable. *)
EXTENDS EditingContext, TLC

Symmetric == Permutations(Context) \cup Permutations(PersistentRoot)

=============================================================================
