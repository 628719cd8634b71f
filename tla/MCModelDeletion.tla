--------------------------- MODULE MCModelDeletion ---------------------------
(* Small instances of ModelDeletion for TLC. *)
EXTENDS ModelDeletion
=============================================================================
