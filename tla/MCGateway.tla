------------------------------ MODULE MCGateway ------------------------------
(* Small instances of Gateway for TLC. *)
EXTENDS Gateway, TLC

\* Requests are only compared with each other.
Symmetry == Permutations(Requests)
=============================================================================
