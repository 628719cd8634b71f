------------------------------ MODULE Management ------------------------------
(***************************************************************************)
(* A call through the management plane: management HTTP (api/api_http/     *)
(* server.go) or MCP (api/api_mcp/supported_methods_adapter.go), the       *)
(* verification of the credential (ability/ability_api_key/keys.go), the   *)
(* routing, the executer's gate (api/api_executer/api_executer.go), the    *)
(* registered methods (the LoadAPIMethods of every ability) and those that *)
(* call other methods (ability/ability.go).                                *)
(*                                                                         *)
(* Of the abilities only those on API keys change state here: the others   *)
(* are the subject of the other modules, and `ran` says that they ran.     *)
(* Calls are handled side by side; an action is one SQLite statement or    *)
(* one run of an ability.                                                  *)
(***************************************************************************)
EXTENDS Naturals, Sequences, FiniteSets

CONSTANTS
    Requests,       \* requests of a run: a bound
    Keys,           \* API keys ever created: a bound
    KeyScopes,      \* the scope sets that keys are created with
    CallsOf,        \* the calls a request may make
    Admin, Nobody   \* the administration token, and no or another credential

-----------------------------------------------------------------------------
(* The registered methods and the scope each was registered with *)

ModelTools    == {"models.list", "models.scan", "models.get", "models.register_huggingface",
                  "models.register_local", "models.delete"}
DownloadTools == {"downloads.list", "downloads.start", "downloads.status", "downloads.logs",
                  "downloads.cancel", "downloads.retry"}
RuntimeTools  == {"runtime.status", "runtime.start", "runtime.restart", "runtime.switch", "runtime.stop"}
KeyTools      == {"api_keys.create", "api_keys.list", "api_keys.enable", "api_keys.disable", "api_keys.delete"}
SettingTools  == {"settings.list", "settings.update", "settings.delete", "requests.recent"}
GPUTools      == {"gpu.list"}
ParentTools   == {"system.get", "mcp.status", "dashboard.get"}

Methods == ModelTools \cup DownloadTools \cup RuntimeTools \cup KeyTools \cup SettingTools
             \cup GPUTools \cup ParentTools \cup {"test"}

Public(m) == m = "test"

\* Wrong on purpose: the dashboard is registered as the other two summaries are.
AdminToolsOfKeys == KeyTools \cup SettingTools

AdminTools == KeyTools \cup SettingTools \cup {"dashboard.get"}

ScopeOf(m) ==
    CASE m \in ModelTools \cup DownloadTools -> "mcp.models"
      [] m \in RuntimeTools -> "mcp.runtime"
      [] m \in AdminTools -> "mcp.admin"
      [] Public(m) -> ""
      [] OTHER -> "mcp.read"

\* Wrong on purpose: the dashboard calls a method by a name nobody registered.
NestedRenamed(m) ==
    CASE m = "system.get" -> {<< >>, <<"gpu.list">>}
      [] m = "dashboard.get" -> {<<"models.list", "runtime.state", "downloads.list", "requests.recent">>}
      [] OTHER -> {<< >>}

\* The methods that a method calls in its turn: the GPUs, when there is an
\* nvidia-smi, and the four parts of the dashboard.
Nested(m) ==
    CASE m = "system.get" -> {<< >>, <<"gpu.list">>}
      [] m = "dashboard.get" -> {<<"models.list", "runtime.status", "downloads.list", "requests.recent">>}
      [] OTHER -> {<< >>}

-----------------------------------------------------------------------------
(* The routes of management HTTP *)

Verbs == {"GET", "HEAD", "POST", "PUT", "DELETE"}

\* A route of a path, and one of everything below a path.
Exactly(verb, path, m) == [verb |-> verb, path |-> path, below |-> FALSE, method |-> m]
Below(verb, path, m)   == [verb |-> verb, path |-> path, below |-> TRUE, method |-> m]

DownloadRoutes ==
    {Below("GET", "downloads", "downloads.status"),
     Exactly("GET", "downloads/id/logs", "downloads.logs"),
     Exactly("POST", "downloads/id/cancel", "downloads.cancel"),
     Exactly("POST", "downloads/id/retry", "downloads.retry")}

Routes == DownloadRoutes \cup
    {Exactly("GET", "models", "models.list"),
     Exactly("POST", "models/scan", "models.scan"),
     Below("GET", "models", "models.get"),
     Exactly("POST", "models/huggingface", "models.register_huggingface"),
     Exactly("POST", "models/local", "models.register_local"),
     Below("DELETE", "models", "models.delete"),
     Exactly("POST", "keys", "api_keys.create"),
     Exactly("GET", "keys", "api_keys.list"),
     Exactly("POST", "keys/id/enable", "api_keys.enable"),
     Exactly("POST", "keys/id/disable", "api_keys.disable"),
     Below("DELETE", "keys", "api_keys.delete"),
     Exactly("GET", "downloads", "downloads.list"),
     Exactly("POST", "downloads", "downloads.start"),
     Exactly("GET", "gpus", "gpu.list"),
     Exactly("GET", "system", "system.get"),
     Exactly("GET", "mcp", "mcp.status"),
     Exactly("GET", "runtime", "runtime.status"),
     Exactly("GET", "runtime/status", "runtime.status"),
     Exactly("GET", "runtime/logs", "runtime.status"),
     Exactly("POST", "runtime/start", "runtime.start"),
     Exactly("POST", "runtime/restart", "runtime.restart"),
     Exactly("POST", "runtime/switch", "runtime.switch"),
     Exactly("POST", "runtime/stop", "runtime.stop"),
     Exactly("GET", "settings", "settings.list"),
     Exactly("PUT", "settings", "settings.update"),
     Below("DELETE", "settings", "settings.delete"),
     Exactly("GET", "requests/recent", "requests.recent"),
     Exactly("GET", "dashboard", "dashboard.get")}

\* A path as the router sees it: the collection, if any, that it lies below.
Paths == {r.path : r \in Routes} \cup {"models/id", "keys/id", "downloads/id", "settings/id", "unknown"}

Collection(path) ==
    CASE path \in {"models/id", "models/scan", "models/huggingface", "models/local"} -> "models"
      [] path \in {"keys/id", "keys/id/enable", "keys/id/disable"} -> "keys"
      [] path = "downloads/id" -> "downloads"
      [] path = "settings/id" -> "settings"
      [] OTHER -> "none"

\* What a request for the path can reach: an exact route comes before one below.
Routed(verb, path) ==
    LET exact == {r \in Routes : r.verb = verb /\ ~r.below /\ r.path = path}
        below == {r \in Routes : r.verb = verb /\ r.below /\ r.path = Collection(path)}
    IN  {r.method : r \in IF exact # {} THEN exact ELSE below}

HTTP(verb, path) == [over |-> "http", verb |-> verb, path |-> path]
MCP(tool)        == [over |-> "mcp", tool |-> tool]

NoCall           == [over |-> "none"]

AllCalls == {HTTP(verb, path) : verb \in Verbs, path \in Paths} \cup {MCP(m) : m \in Methods \cup {"unknown"}}

KeyCalls ==
    {HTTP("POST", "keys"), HTTP("POST", "keys/id/enable"), HTTP("POST", "keys/id/disable"),
     HTTP("DELETE", "keys/id")} \cup {MCP(m) : m \in KeyTools}

\* The methods that change anything, by what their abilities do.
Changes ==
    {"models.scan", "models.register_huggingface", "models.register_local", "models.delete",
     "downloads.start", "downloads.cancel", "downloads.retry",
     "runtime.start", "runtime.restart", "runtime.switch", "runtime.stop",
     "api_keys.create", "api_keys.enable", "api_keys.disable", "api_keys.delete",
     "settings.update", "settings.delete"}

-----------------------------------------------------------------------------

VARIABLES
    key,        \* api_keys: whether a key is there and enabled, and its scopes
    (* a request *)
    pc,         \* where it is
    using,      \* the credential it presents
    call,       \* the call it makes
    access,     \* the access it was given
    todo,       \* the methods still to execute
    ran,        \* the methods that were executed for it
    refused     \* those the executer refused

request == <<using, call>>
run     == <<access, todo, ran, refused>>
vars    == <<key, pc, request, run>>

Credentials == Keys \cup {Admin, Nobody}
Scopes      == {"inference", "admin.read", "admin.write", "mcp.read", "mcp.models", "mcp.runtime", "mcp.admin"}
NoAccess    == [admin |-> FALSE, scopes |-> {}]

ASSUME ManagementAssumption ==
    /\ Admin \notin Keys /\ Nobody \notin Keys /\ Admin # Nobody
    /\ KeyScopes \subseteq (SUBSET Scopes) \ {{}}     \* CreateNamed refuses any other set
    /\ CallsOf \in [Requests -> SUBSET AllCalls]

TypeOK ==
    /\ key \in [Keys -> [state : {"absent", "enabled", "disabled", "deleted"}, scopes : SUBSET Scopes]]
    /\ pc \in [Requests -> {"new", "arrived", "verify", "commit", "route", "execute", "over"}]
    /\ using \in [Requests -> Credentials]
    /\ call \in [Requests -> AllCalls \cup {NoCall}]
    /\ \A r \in Requests : call[r] \in CallsOf[r] \cup {NoCall}
    /\ access \in [Requests -> [admin : BOOLEAN, scopes : SUBSET Scopes]]
    /\ \A r \in Requests : access[r].admin => access[r].scopes = {}
    /\ todo \in [Requests -> Seq(Methods)]
    /\ ran \in [Requests -> SUBSET Methods]
    /\ refused \in [Requests -> SUBSET Methods]

Init ==
    /\ key \in [Keys -> {[state |-> "absent", scopes |-> {}]}
                          \cup {[state |-> "enabled", scopes |-> s] : s \in KeyScopes}]
    /\ pc = [r \in Requests |-> "new"]
    /\ using \in [Requests -> Credentials]
    /\ call = [r \in Requests |-> NoCall]
    /\ access = [r \in Requests |-> NoAccess]
    /\ todo = [r \in Requests |-> << >>]
    /\ ran = [r \in Requests |-> {}]
    /\ refused = [r \in Requests |-> {}]

Goto(r, from, to) ==
    /\ pc[r] = from
    /\ pc' = [pc EXCEPT ![r] = to]

OverHTTP(r) == call[r].over = "http"

-----------------------------------------------------------------------------
(* Authentication *)

\* Wrong on purpose: a verb that may have no body is taken for one that reads.
NeedOfBody(r) == IF call[r].verb \in {"POST", "PUT"} THEN "admin.write" ELSE "admin.read"

\* The scope that the adapter asks of a key: none in MCP, where it looks later.
Need(r) == IF call[r].verb \in {"GET", "HEAD"} THEN "admin.read" ELSE "admin.write"

\* has: admin.write implies admin.read, and mcp.admin the scopes of its own kind.
Has(scopes, need) == need \in scopes \/ (need = "admin.read" /\ "admin.write" \in scopes)

MCPScopes == {"mcp.read", "mcp.runtime", "mcp.models", "mcp.admin"}

Arrive(r) ==
    /\ Goto(r, "new", "arrived")
    /\ \E c \in CallsOf[r] : call' = [call EXCEPT ![r] = c]
    /\ UNCHANGED <<key, using, run>>

\* The administration token opens management HTTP, and only that.
AdmitAdmin(r) ==
    /\ OverHTTP(r) /\ using[r] = Admin
    /\ Goto(r, "arrived", "route")
    /\ access' = [access EXCEPT ![r].admin = TRUE]
    /\ UNCHANGED <<key, request, todo, ran, refused>>

\* Any other credential is to be a key, and of a form that a key has; and an MCP
\* request is to be a POST.  (Its version, origin and size are looked at after the
\* verification: NotRouted.)
Present(r) ==
    /\ ~(OverHTTP(r) /\ using[r] = Admin)
    /\ Goto(r, "arrived", "verify") \/ Goto(r, "arrived", "over")
    /\ UNCHANGED <<key, request, run>>

\* The row is read and the hash derived: the key is there, enabled and sufficient.
Lookup(r) ==
    LET found == using[r] \in Keys /\ key[using[r]].state = "enabled"
        fits  == OverHTTP(r) => Has(key[using[r]].scopes, Need(r))
    IN  /\ pc[r] = "verify"
        /\ Goto(r, "verify", IF found /\ fits THEN "commit" ELSE "over")
        /\ UNCHANGED <<key, request, run>>

\* Wrong on purpose: the use is committed without a condition.
CommitUseStale(r) ==
    LET scopes == key[using[r]].scopes IN
    /\ pc[r] = "commit"
    /\ Goto(r, "commit", IF OverHTTP(r) \/ scopes \cap MCPScopes # {} THEN "route" ELSE "over")
    /\ access' = [access EXCEPT ![r] = IF OverHTTP(r) THEN [admin |-> TRUE, scopes |-> {}]
                                       ELSE [admin |-> FALSE, scopes |-> scopes]]
    /\ UNCHANGED <<key, request, todo, ran, refused>>

\* The use of a key that is still enabled is committed, and access given: all of
\* the management plane over HTTP, and over MCP what the key's scopes say.
CommitUse(r) ==
    LET scopes == key[using[r]].scopes IN
    /\ pc[r] = "commit"
    /\ key[using[r]].state = "enabled"
    /\ Goto(r, "commit", IF OverHTTP(r) \/ scopes \cap MCPScopes # {} THEN "route" ELSE "over")
    /\ access' = [access EXCEPT ![r] = IF OverHTTP(r) THEN [admin |-> TRUE, scopes |-> {}]
                                       ELSE [admin |-> FALSE, scopes |-> scopes]]
    /\ UNCHANGED <<key, request, todo, ran, refused>>

\* It matches no row, or fails.
CommitRefused(r) ==
    /\ Goto(r, "commit", "over")
    /\ UNCHANGED <<key, request, run>>

-----------------------------------------------------------------------------
(* Dispatch *)

\* The methods a call names: at most one over HTTP, the tool over MCP.
Named(r) == IF OverHTTP(r) THEN Routed(call[r].verb, call[r].path) ELSE {call[r].tool} \cap Methods

Over(r) == access' = [access EXCEPT ![r] = NoAccess] /\ todo' = [todo EXCEPT ![r] = << >>]

\* The call is routed to its method.
Route(r) ==
    /\ Goto(r, "route", "execute")
    /\ \E m \in Named(r) : todo' = [todo EXCEPT ![r] = <<m>>]
    /\ UNCHANGED <<key, request, access, ran, refused>>

\* There is no such route or tool, its arguments do not decode, or the version, the
\* origin or the size of an MCP request is refused.
NotRouted(r) ==
    /\ Goto(r, "route", "over")
    /\ Over(r)
    /\ UNCHANGED <<key, request, ran, refused>>

\* ExecuteAbility's gate, of a call and of a nested one alike.
Permitted(a, m) ==
    m \in Methods /\ (Public(m) \/ a.admin \/ "mcp.admin" \in a.scopes \/ ScopeOf(m) \in a.scopes)

Refuse(r) ==
    LET m == Head(todo[r]) IN
    /\ pc[r] = "execute"
    /\ ~Permitted(access[r], m)
    /\ refused' = [refused EXCEPT ![r] = @ \cup {m}]
    /\ pc' = [pc EXCEPT ![r] = "over"]
    /\ Over(r)
    /\ UNCHANGED <<key, request, ran>>

\* What the abilities on API keys do to them; an unknown id changes nothing.
Stored(states) == {k \in Keys : key[k].state \in states}
AfterKeyTool(m) ==
    CASE m = "api_keys.create" ->
            {[key EXCEPT ![k] = [state |-> "enabled", scopes |-> s]] : k \in Stored({"absent"}), s \in KeyScopes}
      [] m = "api_keys.enable" -> {[key EXCEPT ![k].state = "enabled"] : k \in Stored({"enabled", "disabled"})}
      [] m = "api_keys.disable" -> {[key EXCEPT ![k].state = "disabled"] : k \in Stored({"enabled", "disabled"})}
      [] m = "api_keys.delete" -> {[key EXCEPT ![k].state = "deleted"] : k \in Stored({"enabled", "disabled"})}
      [] OTHER -> {}

\* The ability runs, with or without success; a failure ends the call, and what it
\* calls in its turn comes before what is left.
Execute(r) ==
    LET m == Head(todo[r]) IN
    /\ pc[r] = "execute"
    /\ Permitted(access[r], m)
    /\ ran' = [ran EXCEPT ![r] = @ \cup {m}]
    /\ key' \in AfterKeyTool(m) \cup {key}
    /\ \E rest \in {nested \o Tail(todo[r]) : nested \in Nested(m)} \cup {<< >>} :
          IF rest = << >>
          THEN pc' = [pc EXCEPT ![r] = "over"] /\ Over(r)
          ELSE todo' = [todo EXCEPT ![r] = rest] /\ UNCHANGED <<pc, access>>
    /\ UNCHANGED <<request, refused>>

-----------------------------------------------------------------------------

Next ==
    \E r \in Requests :
        \/ Arrive(r) \/ AdmitAdmin(r) \/ Present(r) \/ Lookup(r) \/ CommitUse(r) \/ CommitRefused(r)
        \/ Route(r) \/ NotRouted(r) \/ Refuse(r) \/ Execute(r)

Spec == Init /\ [][Next]_vars

-----------------------------------------------------------------------------
(* Properties *)

\* Whatever ran, for a call or for what it called in its turn, was within the
\* scopes of its credential: over HTTP nothing that changes anything for a key
\* that may only read, over MCP nothing but for the method's own scope or
\* mcp.admin, and no scope of one protocol opens the other
\* (server.go:129-142, api_executer.go:46, docs/api_description.md:26-28).
RanWithinScope ==
    \A r \in Requests : ran[r] # {} =>
        LET scopes == IF using[r] \in Keys THEN key[using[r]].scopes ELSE {} IN
        IF OverHTTP(r)
        THEN \/ using[r] = Admin
             \/ "admin.write" \in scopes
             \/ "admin.read" \in scopes /\ ran[r] \cap Changes = {}
        ELSE \A m \in ran[r] :
                \/ "mcp.admin" \in scopes
                \/ ScopeOf(m) \in scopes
                \/ Public(m) /\ scopes \cap MCPScopes # {}

\* The three tables agree: what a route, a tool or another method calls is
\* registered, and the executer refuses only a tool that was asked for by name
\* and not yet begun, never a part of one (server.go:150-288, ability.go:94-152).
NothingHalfRefused ==
    \A r \in Requests : refused[r] # {} =>
        ~OverHTTP(r) /\ refused[r] = {call[r].tool} /\ ran[r] = {}

\* The management plane implements Authentication: no call is served whose key was
\* disabled or deleted before its use was committed, be it by another call that is
\* served at the same time or by an earlier one (keys.go:300-314).
Auth == INSTANCE Authentication WITH
            Keys <- Credentials,
            enabled <- Stored({"enabled"}) \cup {Admin},
            lastUsed <- [c \in Credentials |-> 0],
            serving <- {r \in Requests : pc[r] \in {"route", "execute"}}

AuthenticationSpec == Auth!Spec
=============================================================================
