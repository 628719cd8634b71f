----------------------------- MODULE MCManagement -----------------------------
(* A small instance of Management for TLC. *)
EXTENDS Management, TLC

CONSTANTS r1, r2

\* One request makes any call, the other one administers the keys.
AnyAndKeys == r1 :> AllCalls @@ r2 :> KeyCalls

\* A key of every scope, and one of two scopes that imply nothing together.
OneOrTwo == {{s} : s \in Scopes} \cup {{"admin.read", "mcp.models"}}
=============================================================================
