----------------------------- MODULE MCDownload -----------------------------
(* Small instances of Download for TLC. *)
EXTENDS Download, TLC

\* Ids are only compared with each other: permuting them changes nothing.
Ids == Permutations(Jobs) \cup Permutations(Models) \cup Permutations(Clients)
=============================================================================
