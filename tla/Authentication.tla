---------------------------- MODULE Authentication ----------------------------
(***************************************************************************)
(* What the verification of an API key promises (ability/ability_api_key/  *)
(* keys.go), whatever runs beside it: to disable or delete a key is a      *)
(* boundary that no later use of it crosses, and the last use of a key     *)
(* only advances.  Gateway and Management implement it.                    *)
(***************************************************************************)
EXTENDS Naturals

CONSTANTS Keys, Requests

VARIABLES
    enabled,    \* the keys that are there and enabled
    lastUsed,   \* the last use of a key that was recorded
    using,      \* the key a request presents
    serving     \* the requests that were authenticated by it and are being served

vars == <<enabled, lastUsed, using, serving>>

Init ==
    /\ enabled \subseteq Keys
    /\ lastUsed = [k \in Keys |-> 0]
    /\ using \in [Requests -> Keys]
    /\ serving = {}

\* A key is created or enabled, disabled or deleted.
Administer ==
    /\ enabled' \subseteq Keys
    /\ UNCHANGED <<lastUsed, using, serving>>

\* A request is authenticated at a moment at which its key is enabled.
Authenticate(r) ==
    /\ r \notin serving
    /\ using[r] \in enabled
    /\ lastUsed' = [lastUsed EXCEPT ![using[r]] = lastUsed'[using[r]]]
    /\ lastUsed[using[r]] <= lastUsed'[using[r]]
    /\ serving' = serving \cup {r}
    /\ UNCHANGED <<enabled, using>>

\* It has been served, and may have administered keys itself.
Leave(r) ==
    /\ serving' = serving \ {r}
    /\ enabled' \subseteq Keys
    /\ UNCHANGED <<lastUsed, using>>

Next == Administer \/ \E r \in Requests : Authenticate(r) \/ Leave(r)

Spec == Init /\ [][Next]_vars
=============================================================================
