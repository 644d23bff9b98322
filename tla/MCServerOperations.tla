------------------------- MODULE MCServerOperations -------------------------
(* A small instance of ServerOperations for TLC. *)
EXTENDS ServerOperations, TLC

MCThreads == {1, 2, 3}
Alike == Permutations(Endpoints)
=============================================================================
