------------------------------ MODULE MCStartup ------------------------------
(* A small instance of Startup for TLC. *)
EXTENDS Startup

CONSTANTS old, new

\* Two places, one of which runs the build before the last migration.
Places == {old, new}
Builds == [s \in Places |-> IF s = old THEN 1 ELSE 2]
=============================================================================
