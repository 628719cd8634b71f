------------------------------ MODULE MCRegistry ------------------------------
(* Small instances of Registry for TLC. *)
EXTENDS Registry, TLC

\* Every directory is a child of the models root ...
Flat == [p \in Paths |-> {}]

\* ... or one contains all the others that an operator made.
Nested == [p \in Paths |-> IF p = CHOOSE q \in Locals : TRUE THEN Locals \ {p} ELSE {}]

Symmetry == Permutations(Files) \cup Permutations(Ids)
=============================================================================
