------------------------------ MODULE MCRuntime ------------------------------
(* Small instances of Runtime for TLC. *)
EXTENDS Runtime, TLC

\* Handlers, processes and models are only compared with each other, and the run
\* that uses it has no model in Fresh.
Symmetry == Permutations(Clients) \cup Permutations(Procs) \cup Permutations(Models)
=============================================================================
