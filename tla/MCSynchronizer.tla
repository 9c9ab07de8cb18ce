--------------------------- MODULE MCSynchronizer ---------------------------
(* Clients are interchangeable. *)
EXTENDS Synchronizer

Symmetric == Permutations(Client)

=============================================================================
