---------------------------- MODULE ManagementProofs ----------------------------
(* Proofs about Management for every set of requests, keys, scope sets and    *)
(* calls.                                                                     *)
EXTENDS Management, SequenceTheorems, TLAPS

-----------------------------------------------------------------------------
(* The inductive invariant: what holds of each request *)

ReadsOnly(r) == OverHTTP(r) /\ call[r].verb \in {"GET", "HEAD"}

\* A key that a request was found to present was created, so that its scopes are for
\* ever those that it was created with.
KeyIsThere(r) ==
    using[r] \in Keys /\ (pc[r] \in {"commit", "route", "execute"} \/ ran[r] # {})
        => key[using[r]].state # "absent"

\* What the credential is when its use is committed ...
Presented(r) ==
    pc[r] = "commit" => using[r] \in Keys /\ (OverHTTP(r) => Has(key[using[r]].scopes, Need(r)))

\* ... and the access that was given while the request is served.
Given(r) ==
    /\ pc[r] \in {"new", "arrived", "verify", "commit"} => access[r].scopes = {}
    /\ pc[r] \in {"route", "execute"} =>
         IF OverHTTP(r)
         THEN /\ access[r].admin
              /\ using[r] = Admin \/ (using[r] \in Keys /\ Has(key[using[r]].scopes, Need(r)))
         ELSE /\ using[r] \in Keys /\ access[r].scopes = key[using[r]].scopes /\ ~access[r].admin
              /\ access[r].scopes \cap MCPScopes # {}

\* What may be left to execute: once the first method was permitted so are those it
\* calls, and a request that reads calls nothing that changes anything.
Allowed(r) ==
    {m \in Methods : (ran[r] # {} => Permitted(access[r], m)) /\ (ReadsOnly(r) => m \notin Changes)}

InOrder(r) ==
    /\ pc[r] \notin {"execute", "over"} => ran[r] = {}
    /\ pc[r] # "over" => refused[r] = {}
    /\ pc[r] = "execute" => /\ todo[r] \in Seq(Allowed(r)) /\ todo[r] # << >>
                            /\ ran[r] = {} => \E m \in Named(r) : todo[r] = <<m>>
    /\ ReadsOnly(r) => ran[r] \cap Changes = {}

\* What RanWithinScope and NothingHalfRefused say of one request.
ScopesOf(r) == IF using[r] \in Keys THEN key[using[r]].scopes ELSE {}

Within(r) ==
    ran[r] # {} =>
        IF OverHTTP(r)
        THEN \/ using[r] = Admin
             \/ "admin.write" \in ScopesOf(r)
             \/ "admin.read" \in ScopesOf(r) /\ ran[r] \cap Changes = {}
        ELSE \A m \in ran[r] :
                \/ "mcp.admin" \in ScopesOf(r)
                \/ ScopeOf(m) \in ScopesOf(r)
                \/ Public(m) /\ ScopesOf(r) \cap MCPScopes # {}

Whole(r) == refused[r] # {} => ~OverHTTP(r) /\ refused[r] = {call[r].tool} /\ ran[r] = {}

Sound(r) == KeyIsThere(r) /\ Presented(r) /\ Given(r) /\ InOrder(r) /\ Within(r) /\ Whole(r)

IInv == TypeOK /\ \A r \in Requests : Sound(r)

-----------------------------------------------------------------------------
(* The tables *)

\* Every route calls a registered method, and a route of GET one that changes nothing.
LEMMA RoutesFit ==
    \A x \in Routes : x.method \in Methods /\ x.verb # "HEAD" /\ (x.verb = "GET" => x.method \notin Changes)
<1>1. \A x \in DownloadRoutes : x.method \in Methods /\ x.verb # "HEAD" /\ (x.verb = "GET" => x.method \notin Changes)
  BY DEF DownloadRoutes, Exactly, Below, Methods, DownloadTools, Changes
<1>2. \A x \in Routes \ DownloadRoutes :
         x.method \in Methods /\ x.verb # "HEAD" /\ (x.verb = "GET" => x.method \notin Changes)
  BY SMTT(60)
     DEF Routes, Exactly, Below, Methods, ModelTools, DownloadTools, RuntimeTools, KeyTools, SettingTools, GPUTools,
         ParentTools, Changes
<1> QED
  BY <1>1, <1>2

\* A path leads to methods, and reading verbs to none that changes anything.
LEMMA RoutedFits ==
    ASSUME NEW verb, NEW path
    PROVE  /\ Routed(verb, path) \subseteq Methods
           /\ verb \in {"GET", "HEAD"} => Routed(verb, path) \cap Changes = {}
BY RoutesFit DEF Routed

\* The summaries of the system and of the GPUs are read, the dashboard administers.
LEMMA ScopesOfParents ==
    /\ ScopeOf("system.get") = "mcp.read" /\ ScopeOf("gpu.list") = "mcp.read"
    /\ ScopeOf("dashboard.get") = "mcp.admin"
BY DEF ScopeOf, Public, ModelTools, DownloadTools, RuntimeTools, AdminTools, KeyTools, SettingTools

\* What a method calls in its turn is registered, changes nothing, and is permitted to
\* those to whom the method is.
LEMMA NestedFits ==
    ASSUME NEW m \in Methods, NEW n \in Nested(m), NEW a, Permitted(a, m)
    PROVE  n \in Seq({x \in Methods : Permitted(a, x) /\ x \notin Changes})
<1> DEFINE S == {x \in Methods : Permitted(a, x) /\ x \notin Changes}
<1> SUFFICES n \in Seq(S)
  OBVIOUS
<1>1. CASE n = << >>
  BY <1>1
<1>2. CASE n # << >> /\ m = "system.get"
  <2>1. n = <<"gpu.list">>
    BY <1>2 DEF Nested
  <2>2. "gpu.list" \in S
    <3>1. Permitted(a, "gpu.list")
      BY <1>2, ScopesOfParents DEF Permitted, Public, Methods, GPUTools
    <3>2. "gpu.list" \in Methods /\ "gpu.list" \notin Changes
      BY DEF Methods, GPUTools, Changes
    <3> QED
      BY <3>1, <3>2
  <2> HIDE DEF S
  <2> QED
    BY <2>1, <2>2
<1>3. CASE n # << >> /\ m # "system.get"
  <2>1. m = "dashboard.get" /\ n = <<"models.list", "runtime.status", "downloads.list", "requests.recent">>
    BY <1>3 DEF Nested
  <2>2. a.admin \/ "mcp.admin" \in a.scopes
    BY <2>1, ScopesOfParents DEF Permitted, Public
  <2>3. {"models.list", "runtime.status", "downloads.list", "requests.recent"} \subseteq S
    BY <2>2 DEF Permitted, Methods, ModelTools, RuntimeTools, DownloadTools, SettingTools, Changes
  <2> HIDE DEF S
  <2> QED
    BY <2>1, <2>3
<1> QED
  BY <1>1, <1>2, <1>3

-----------------------------------------------------------------------------
(* Types *)

KeyType  == [Keys -> [state : {"absent", "enabled", "disabled", "deleted"}, scopes : SUBSET Scopes]]
Position == {"new", "arrived", "verify", "commit", "route", "execute", "over"}
Access   == [admin : BOOLEAN, scopes : SUBSET Scopes]

RequestTyped ==
    /\ pc \in [Requests -> Position]
    /\ using \in [Requests -> Credentials]
    /\ call \in [Requests -> AllCalls \cup {NoCall}]
    /\ \A r \in Requests : call[r] \in CallsOf[r] \cup {NoCall}
    /\ access \in [Requests -> Access]
    /\ \A r \in Requests : access[r].admin => access[r].scopes = {}
    /\ todo \in [Requests -> Seq(Methods)]
    /\ ran \in [Requests -> SUBSET Methods]
    /\ refused \in [Requests -> SUBSET Methods]

\* The type invariant by keys and requests.
LEMMA TypeParts ==
    /\ TypeOK => key \in KeyType /\ RequestTyped
    /\ (key \in KeyType /\ RequestTyped) => TypeOK
BY DEF TypeOK, KeyType, Position, Access, RequestTyped

\* A key has scopes, and not none.
LEMMA KeyScopesAreSets == KeyScopes \subseteq SUBSET Scopes
BY ManagementAssumption DEF ManagementAssumption

\* A key that was created stays, be it deleted, and keeps its scopes.
Kept(old, new) ==
    \A k \in Keys : old[k].state # "absent" => new[k].state # "absent" /\ new[k].scopes = old[k].scopes

\* So the abilities on keys leave them.
LEMMA KeyToolKeeps ==
    ASSUME key \in KeyType, NEW m, NEW new, new \in AfterKeyTool(m) \cup {key}
    PROVE  new \in KeyType /\ Kept(key, new)
<1> DEFINE G(x) == x \in KeyType /\ Kept(key, x)
<1>1. ASSUME NEW k \in Stored({"absent"}), NEW s \in KeyScopes
      PROVE  G([key EXCEPT ![k] = [state |-> "enabled", scopes |-> s]])
  BY <1>1, KeyScopesAreSets DEF Stored, Kept, KeyType
<1>2. ASSUME NEW k \in Stored({"enabled", "disabled"}), NEW st \in {"enabled", "disabled", "deleted"}
      PROVE  G([key EXCEPT ![k].state = st])
  <2> DEFINE after == [key EXCEPT ![k].state = st]
  <2>1. k \in Keys /\ key[k].state # "absent"
    BY <1>2 DEF Stored
  <2>2. /\ after[k] = [key[k] EXCEPT !.state = st]
        /\ \A j \in Keys \ {k} : after[j] = key[j]
    BY <2>1 DEF KeyType
  <2>3. after[k].state = st /\ after[k].scopes = key[k].scopes
    BY <2>1, <2>2 DEF KeyType
  <2>4. after \in KeyType
    BY <1>2, <2>1 DEF KeyType
  <2> HIDE DEF after
  <2>5. Kept(key, after)
    BY <1>2, <2>1, <2>2, <2>3 DEF Kept
  <2> QED
    BY <2>4, <2>5 DEF after
<1>3. G(key)
  BY DEF Kept
<1> SUFFICES G(new)
  OBVIOUS
<1> HIDE DEF G
<1>4. CASE m = "api_keys.create"
  BY <1>1, <1>3, <1>4 DEF AfterKeyTool
<1>5. CASE m \in {"api_keys.enable", "api_keys.disable", "api_keys.delete"}
  <2>1. CASE m = "api_keys.enable"
    <3>1. AfterKeyTool(m) = {[key EXCEPT ![k].state = "enabled"] : k \in Stored({"enabled", "disabled"})}
      BY <2>1 DEF AfterKeyTool
    <3> QED
      BY <1>2, <1>3, <3>1
  <2>2. CASE m = "api_keys.disable"
    <3>1. AfterKeyTool(m) = {[key EXCEPT ![k].state = "disabled"] : k \in Stored({"enabled", "disabled"})}
      BY <2>2 DEF AfterKeyTool
    <3> QED
      BY <1>2, <1>3, <3>1
  <2>3. CASE m = "api_keys.delete"
    <3>1. AfterKeyTool(m) = {[key EXCEPT ![k].state = "deleted"] : k \in Stored({"enabled", "disabled"})}
      BY <2>3 DEF AfterKeyTool
    <3> QED
      BY <1>2, <1>3, <3>1
  <2> QED
    BY <1>5, <2>1, <2>2, <2>3
<1>6. CASE m \notin {"api_keys.create", "api_keys.enable", "api_keys.disable", "api_keys.delete"}
  BY <1>3, <1>6 DEF AfterKeyTool
<1> QED
  BY <1>4, <1>5, <1>6

\* What is left after a method ran: nothing, or more of what is allowed.
LEMMA Rest ==
    ASSUME NEW S, NEW t \in Seq(S), t # << >>, NEW n \in Seq(S)
    PROVE  n \o Tail(t) \in Seq(S) /\ Head(t) \in S
BY HeadTailProperties, ConcatProperties

\* A sequence over a set is one over a larger set.
LEMMA SeqMonotone == ASSUME NEW S, NEW T, S \subseteq T, NEW s \in Seq(S) PROVE s \in Seq(T)
OBVIOUS

-----------------------------------------------------------------------------
(* The steps of one request *)

\* A step of another request, which may administer keys, leaves a request as it was.
SameRequest(q) ==
    /\ pc'[q] = pc[q] /\ call'[q] = call[q] /\ access'[q] = access[q] /\ todo'[q] = todo[q]
    /\ ran'[q] = ran[q] /\ refused'[q] = refused[q]

\* What is true of a request stays so while another one moves and its key is kept.
LEMMA Unaffected ==
    ASSUME NEW q \in Requests, Sound(q), Kept(key, key'), using' = using, SameRequest(q)
    PROVE  Sound(q)'
<1> USE DEF SameRequest
<1>1. using[q] \in Keys /\ (pc[q] \in {"commit", "route", "execute"} \/ ran[q] # {}) =>
         key'[using[q]].state # "absent" /\ key'[using[q]].scopes = key[using[q]].scopes
  BY DEF Sound, KeyIsThere, Kept
<1>2. KeyIsThere(q)'
  BY <1>1 DEF KeyIsThere
<1>3. (OverHTTP(q)' <=> OverHTTP(q)) /\ (ReadsOnly(q)' <=> ReadsOnly(q)) /\ Need(q)' = Need(q) /\ Named(q)' = Named(q)
  BY DEF OverHTTP, ReadsOnly, Need, Named
<1>4. Presented(q)'
  BY <1>1, <1>3 DEF Presented, Sound
<1>5. Given(q)'
  BY <1>1, <1>3 DEF Given, Sound
<1>6. Allowed(q)' = Allowed(q)
  BY <1>3 DEF Allowed
<1>7. InOrder(q)'
  BY <1>3, <1>6 DEF InOrder, Sound
<1>8. Within(q)'
  BY <1>1, <1>3 DEF Within, Sound, ScopesOf
<1>9. Whole(q)'
  BY <1>3 DEF Whole, Sound
<1> QED
  BY <1>2, <1>4, <1>5, <1>7, <1>8, <1>9 DEF Sound

-----------------------------------------------------------------------------
(* A step changes one request *)

Moved(r) ==
    /\ pc' = [pc EXCEPT ![r] = pc'[r]]
    /\ call' = [call EXCEPT ![r] = call'[r]]
    /\ access' = [access EXCEPT ![r] = access'[r]]
    /\ todo' = [todo EXCEPT ![r] = todo'[r]]
    /\ ran' = [ran EXCEPT ![r] = ran'[r]]
    /\ refused' = [refused EXCEPT ![r] = refused'[r]]
    /\ using' = using

\* What a step has to keep of the types of the request it changes.
MovedTyped(r) ==
    /\ pc'[r] \in Position /\ call'[r] \in CallsOf[r] \cup {NoCall}
    /\ access'[r] \in Access /\ (access'[r].admin => access'[r].scopes = {})
    /\ todo'[r] \in Seq(Methods) /\ ran'[r] \in SUBSET Methods /\ refused'[r] \in SUBSET Methods

\* Then all requests are typed, and the others are the same.
LEMMA MovedKeeps ==
    ASSUME NEW r \in Requests, RequestTyped, Moved(r), MovedTyped(r)
    PROVE  RequestTyped' /\ \A q \in Requests \ {r} : SameRequest(q)
<1>1. \A q \in Requests \ {r} : SameRequest(q)
  BY DEF Moved, SameRequest, RequestTyped
<1>2. pc' \in [Requests -> Position] /\ using' \in [Requests -> Credentials]
  BY DEF Moved, MovedTyped, RequestTyped
<1>3. \A q \in Requests : call'[q] \in CallsOf[q] \cup {NoCall}
  BY <1>1 DEF SameRequest, RequestTyped, MovedTyped
<1>4. call' \in [Requests -> AllCalls \cup {NoCall}]
  <2>1. CallsOf[r] \subseteq AllCalls
    BY ManagementAssumption DEF ManagementAssumption
  <2> QED
    BY <2>1 DEF Moved, MovedTyped, RequestTyped
<1>5. access' \in [Requests -> Access]
  BY DEF Moved, MovedTyped, RequestTyped
<1>6. \A q \in Requests : access'[q].admin => access'[q].scopes = {}
  BY <1>1 DEF SameRequest, RequestTyped, MovedTyped
<1>7. todo' \in [Requests -> Seq(Methods)]
  BY DEF Moved, MovedTyped, RequestTyped
<1>8. ran' \in [Requests -> SUBSET Methods] /\ refused' \in [Requests -> SUBSET Methods]
  BY DEF Moved, MovedTyped, RequestTyped
<1> QED
  BY <1>1, <1>2, <1>3, <1>4, <1>5, <1>6, <1>7, <1>8 DEF RequestTyped

\* What each action is shown to keep.
Keeps(r) ==
    /\ key' \in KeyType /\ Kept(key, key')
    /\ Moved(r) /\ MovedTyped(r)
    /\ Sound(r)'

\* It is enough to show a step sound for the request that takes it.
LEMMA KeepsIInv ==
    ASSUME NEW r \in Requests, IInv, Keeps(r)
    PROVE  IInv'
<1>1. RequestTyped' /\ \A q \in Requests \ {r} : SameRequest(q)
  BY MovedKeeps, TypeParts DEF IInv, Keeps
<1>2. TypeOK'
  BY <1>1, TypeParts DEF Keeps, TypeOK, KeyType, RequestTyped, Position, Access
<1>3. using' = using
  BY DEF Keeps, Moved
<1>4. \A q \in Requests \ {r} : Sound(q)'
  BY <1>1, <1>3, Unaffected DEF IInv, Keeps
<1> QED
  BY <1>2, <1>4 DEF IInv, Keeps

\* A request that nothing ran for and nothing was refused to, before its use is
\* committed or once it is over.
LEMMA Quiet ==
    ASSUME NEW r \in Requests, pc'[r] \in {"arrived", "verify", "over"},
           ran'[r] = {}, refused'[r] = {}, pc'[r] # "over" => access'[r].scopes = {}
    PROVE  Sound(r)'
BY DEF Sound, KeyIsThere, Presented, Given, InOrder, Within, Whole

\* What is known of a request before it executes.
LEMMA Before ==
    ASSUME NEW r \in Requests, IInv, pc[r] \in {"new", "arrived", "verify", "commit", "route"}
    PROVE  ran[r] = {} /\ refused[r] = {} /\ (pc[r] # "route" => access[r].scopes = {})
BY DEF IInv, Sound, InOrder, Given

\* The types of a request that stays as it is but for its place.
LEMMA Stays ==
    ASSUME NEW r \in Requests, IInv, NEW to \in Position, pc' = [pc EXCEPT ![r] = to],
           UNCHANGED <<key, request, run>>
    PROVE  /\ key' \in KeyType /\ Kept(key, key') /\ Moved(r) /\ MovedTyped(r)
           /\ pc'[r] = to
<1> USE DEF request, run
<1>1. key \in KeyType /\ RequestTyped
  BY TypeParts DEF IInv
<1>2. key' \in KeyType /\ Kept(key, key')
  BY <1>1 DEF Kept
<1>3. pc'[r] = to
  BY <1>1 DEF RequestTyped
<1>4. Moved(r)
  BY <1>1, <1>3 DEF Moved, RequestTyped
<1>5. MovedTyped(r)
  BY <1>1, <1>3 DEF MovedTyped, RequestTyped
<1> QED
  BY <1>2, <1>3, <1>4, <1>5

-----------------------------------------------------------------------------
(* One lemma per action *)

\* A call arrives with a credential and has been given nothing.
LEMMA ArriveKeeps ==
    ASSUME NEW r \in Requests, IInv, Arrive(r)
    PROVE  Keeps(r)
<1> USE DEF run
<1>1. RequestTyped /\ key \in KeyType /\ pc[r] = "new"
  BY TypeParts DEF IInv, Arrive, Goto
<1>2. PICK c \in CallsOf[r] : call' = [call EXCEPT ![r] = c]
  BY DEF Arrive
<1>3. pc'[r] = "arrived" /\ call'[r] = c
  BY <1>1, <1>2 DEF Arrive, Goto, RequestTyped
<1>4. ran[r] = {} /\ refused[r] = {} /\ access[r].scopes = {}
  BY <1>1, Before
<1>5. Sound(r)'
  BY <1>3, <1>4, Quiet DEF Arrive
<1>6. Moved(r)
  BY <1>1, <1>2, <1>3 DEF Arrive, Goto, Moved, RequestTyped
<1>7. MovedTyped(r)
  BY <1>1, <1>3 DEF Arrive, MovedTyped, RequestTyped, Position
<1> QED
  BY <1>1, <1>5, <1>6, <1>7 DEF Arrive, Keeps, Kept

\* The administration token gives every scope.
LEMMA AdmitAdminKeeps ==
    ASSUME NEW r \in Requests, IInv, AdmitAdmin(r)
    PROVE  Keeps(r)
<1> USE DEF request
<1>1. RequestTyped /\ key \in KeyType /\ pc[r] = "arrived"
  BY TypeParts DEF IInv, AdmitAdmin, Goto
<1>2. ran[r] = {} /\ refused[r] = {} /\ access[r].scopes = {}
  BY <1>1, Before
<1>3. /\ access' = [access EXCEPT ![r] = [access[r] EXCEPT !.admin = TRUE]]
      /\ access[r] \in Access
  BY <1>1 DEF AdmitAdmin, RequestTyped
<1>4. access'[r] \in Access /\ access'[r].admin /\ access'[r].scopes = {}
  BY <1>1, <1>2, <1>3 DEF Access, RequestTyped
<1>5. pc'[r] = "route"
  BY <1>1 DEF AdmitAdmin, Goto, RequestTyped
<1>6. OverHTTP(r)' /\ using'[r] = Admin /\ Admin \notin Keys
  BY ManagementAssumption DEF AdmitAdmin, OverHTTP, ManagementAssumption
<1>7. Sound(r)'
  BY <1>2, <1>4, <1>5, <1>6
     DEF AdmitAdmin, Sound, KeyIsThere, Presented, Given, InOrder, Within, Whole
<1>8. Moved(r)
  BY <1>1, <1>3, <1>5 DEF AdmitAdmin, Goto, Moved, RequestTyped
<1>9. MovedTyped(r)
  BY <1>1, <1>4, <1>5 DEF AdmitAdmin, MovedTyped, RequestTyped, Position
<1> QED
  BY <1>1, <1>7, <1>8, <1>9 DEF AdmitAdmin, Keeps, Kept

\* A step to the end that nothing else changes with.
LEMMA EndsKeeps ==
    ASSUME NEW r \in Requests, IInv, pc[r] \in {"arrived", "verify", "commit"},
           NEW to \in {"verify", "over"}, to = "verify" => pc[r] = "arrived",
           pc' = [pc EXCEPT ![r] = to], UNCHANGED <<key, request, run>>
    PROVE  Keeps(r)
<1>1. /\ key' \in KeyType /\ Kept(key, key') /\ Moved(r) /\ MovedTyped(r)
      /\ pc'[r] = to
  BY Stays DEF Position
<1>2. ran[r] = {} /\ refused[r] = {} /\ access[r].scopes = {}
  BY Before
<1>3. Sound(r)'
  BY <1>1, <1>2, Quiet DEF run
<1> QED
  BY <1>1, <1>3 DEF Keeps

\* A request without a usable credential ends.
LEMMA PresentKeeps ==
    ASSUME NEW r \in Requests, IInv, Present(r)
    PROVE  Keeps(r)
BY EndsKeeps DEF Present, Goto

\* A key that goes on to its commit is there and may do what the verb needs.
LEMMA LookupKeeps ==
    ASSUME NEW r \in Requests, IInv, Lookup(r)
    PROVE  Keeps(r)
<1> DEFINE fits == /\ using[r] \in Keys /\ key[using[r]].state = "enabled"
                   /\ OverHTTP(r) => Has(key[using[r]].scopes, Need(r))
<1>1. /\ pc[r] = "verify" /\ UNCHANGED <<key, request, run>>
      /\ pc' = [pc EXCEPT ![r] = IF fits THEN "commit" ELSE "over"]
  BY DEF Lookup, Goto
<1>2. CASE ~fits
  BY <1>1, <1>2, EndsKeeps
<1>3. CASE fits
  <2>1. pc' = [pc EXCEPT ![r] = "commit"]
    BY <1>1, <1>3
  <2>2. /\ key' \in KeyType /\ Kept(key, key') /\ Moved(r) /\ MovedTyped(r)
        /\ pc'[r] = "commit"
    BY <1>1, <2>1, Stays DEF Position
  <2>3. ran[r] = {} /\ refused[r] = {} /\ access[r].scopes = {}
    BY <1>1, Before
  <2>4. key' = key /\ using' = using /\ call' = call /\ ran' = ran /\ refused' = refused /\ access' = access
    BY <1>1 DEF request, run
  <2>5. KeyIsThere(r)' /\ Presented(r)'
    BY <1>3, <2>2, <2>4 DEF KeyIsThere, Presented, OverHTTP, Need
  <2>6. Given(r)' /\ InOrder(r)' /\ Within(r)' /\ Whole(r)'
    BY <2>2, <2>3, <2>4 DEF Given, InOrder, Within, Whole
  <2> QED
    BY <2>2, <2>5, <2>6 DEF Keeps, Sound
<1> QED
  BY <1>2, <1>3

\* A request whose key was revoked meanwhile ends.
LEMMA CommitRefusedKeeps ==
    ASSUME NEW r \in Requests, IInv, CommitRefused(r)
    PROVE  Keeps(r)
BY EndsKeeps DEF CommitRefused, Goto

\* Access is given of the scopes that the key has and keeps.
LEMMA CommitUseKeeps ==
    ASSUME NEW r \in Requests, IInv, CommitUse(r)
    PROVE  Keeps(r)
<1> DEFINE scopes == key[using[r]].scopes
           to     == IF OverHTTP(r) \/ scopes \cap MCPScopes # {} THEN "route" ELSE "over"
<1> USE DEF request
<1>1. RequestTyped /\ key \in KeyType /\ pc[r] = "commit" /\ pc' = [pc EXCEPT ![r] = to]
  BY TypeParts DEF IInv, CommitUse, Goto
<1>2. ran[r] = {} /\ refused[r] = {}
  BY <1>1, Before
<1>3. using[r] \in Keys /\ (OverHTTP(r) => Has(scopes, Need(r))) /\ key[using[r]].state = "enabled"
  BY <1>1 DEF IInv, Sound, Presented, CommitUse
<1>4. scopes \subseteq Scopes
  BY <1>1, <1>3 DEF KeyType
<1>5. pc'[r] = to /\ pc'[r] \in {"route", "over"}
  BY <1>1 DEF RequestTyped
<1>6. access'[r] = IF OverHTTP(r) THEN [admin |-> TRUE, scopes |-> {}] ELSE [admin |-> FALSE, scopes |-> scopes]
  BY <1>1 DEF CommitUse, RequestTyped
<1>7. access'[r] \in Access /\ (access'[r].admin => access'[r].scopes = {})
  BY <1>4, <1>6 DEF Access
<1>8. key' = key /\ using' = using /\ call' = call /\ ran' = ran /\ refused' = refused /\ todo' = todo
  BY DEF CommitUse
<1>9. (OverHTTP(r)' <=> OverHTTP(r)) /\ Need(r)' = Need(r)
  BY <1>8 DEF OverHTTP, Need
<1>10. KeyIsThere(r)' /\ Presented(r)'
  BY <1>3, <1>5, <1>8 DEF KeyIsThere, Presented
<1>11. Given(r)'
  BY <1>3, <1>5, <1>6, <1>8, <1>9 DEF Given
<1>12. InOrder(r)' /\ Within(r)' /\ Whole(r)'
  BY <1>2, <1>5, <1>8 DEF InOrder, Within, Whole
<1>13. Moved(r)
  <2>1. access' = [access EXCEPT ![r] = access'[r]]
    BY <1>1 DEF CommitUse, RequestTyped
  <2> QED
    BY <1>1, <1>5, <1>8, <2>1 DEF Moved, RequestTyped
<1>14. MovedTyped(r)
  BY <1>1, <1>5, <1>7, <1>8 DEF MovedTyped, RequestTyped, Position
<1> QED
  BY <1>1, <1>8, <1>10, <1>11, <1>12, <1>13, <1>14 DEF Keeps, Kept, Sound

\* The methods a call names are registered; of a request that reads, they read.
LEMMA NamedFits ==
    ASSUME NEW r \in Requests
    PROVE  Named(r) \subseteq Methods /\ (ReadsOnly(r) => Named(r) \cap Changes = {})
BY RoutedFits DEF Named, ReadsOnly

\* The route yields a method that the scopes checked for the verb cover.
LEMMA RouteKeeps ==
    ASSUME NEW r \in Requests, IInv, Route(r)
    PROVE  Keeps(r)
<1> USE DEF request
<1>1. RequestTyped /\ key \in KeyType /\ pc[r] = "route"
  BY TypeParts DEF IInv, Route, Goto
<1>2. PICK m \in Named(r) : todo' = [todo EXCEPT ![r] = <<m>>]
  BY DEF Route
<1>3. pc'[r] = "execute" /\ todo'[r] = <<m>>
  BY <1>1, <1>2 DEF Route, Goto, RequestTyped
<1>4. /\ key' = key /\ using' = using /\ call' = call /\ access' = access /\ ran' = ran
      /\ refused' = refused
  BY DEF Route
<1>5. /\ OverHTTP(r)' <=> OverHTTP(r)
      /\ ReadsOnly(r)' <=> ReadsOnly(r)
      /\ Need(r)' = Need(r) /\ Named(r)' = Named(r)
  BY <1>4 DEF OverHTTP, ReadsOnly, Need, Named
<1>6. ran[r] = {} /\ refused[r] = {}
  BY <1>1, Before
<1>7. m \in Methods /\ (ReadsOnly(r) => m \notin Changes)
  BY <1>2, NamedFits
<1>8. m \in Allowed(r)'
  BY <1>4, <1>5, <1>6, <1>7 DEF Allowed
<1>9. todo'[r] \in Seq(Allowed(r)') /\ todo'[r] # << >> /\ todo'[r] \in Seq(Methods)
  BY <1>3, <1>7, <1>8
<1>10. InOrder(r)'
  BY <1>2, <1>3, <1>4, <1>5, <1>6, <1>9 DEF InOrder
<1>11. KeyIsThere(r)' /\ Presented(r)' /\ Given(r)'
  BY <1>1, <1>3, <1>4, <1>5 DEF IInv, Sound, KeyIsThere, Presented, Given
<1>12. Within(r)' /\ Whole(r)'
  BY <1>4, <1>6 DEF Within, Whole
<1>13. Moved(r)
  BY <1>1, <1>2, <1>3, <1>4 DEF Route, Goto, Moved, RequestTyped
<1>14. MovedTyped(r)
  BY <1>1, <1>3, <1>4, <1>9 DEF MovedTyped, RequestTyped, Position
<1> QED
  BY <1>1, <1>4, <1>10, <1>11, <1>12, <1>13, <1>14 DEF Keeps, Kept, Sound

\* A request that is over has no access and nothing to execute.
LEMMA OverMoves ==
    ASSUME NEW r \in Requests, RequestTyped, Over(r)
    PROVE  /\ access' = [access EXCEPT ![r] = access'[r]] /\ todo' = [todo EXCEPT ![r] = todo'[r]]
           /\ access'[r] \in Access /\ (access'[r].admin => access'[r].scopes = {})
           /\ todo'[r] \in Seq(Methods)
<1>1. access'[r] = NoAccess /\ todo'[r] = << >>
  BY DEF Over, RequestTyped
<1>2. NoAccess \in Access /\ NoAccess.scopes = {}
  BY DEF NoAccess, Access
<1>3. access' = [access EXCEPT ![r] = access'[r]] /\ todo' = [todo EXCEPT ![r] = todo'[r]]
  BY <1>1 DEF Over
<1> QED
  BY <1>1, <1>2, <1>3

\* A request that no route fits ends.
LEMMA NotRoutedKeeps ==
    ASSUME NEW r \in Requests, IInv, NotRouted(r)
    PROVE  Keeps(r)
<1> USE DEF request
<1>1. RequestTyped /\ key \in KeyType /\ pc[r] = "route"
  BY TypeParts DEF IInv, NotRouted, Goto
<1>2. pc'[r] = "over"
  BY <1>1 DEF NotRouted, Goto, RequestTyped
<1>3. ran[r] = {} /\ refused[r] = {}
  BY <1>1, Before
<1>4. Sound(r)'
  BY <1>2, <1>3, Quiet DEF NotRouted
<1>5. /\ access' = [access EXCEPT ![r] = access'[r]] /\ todo' = [todo EXCEPT ![r] = todo'[r]]
      /\ access'[r] \in Access /\ (access'[r].admin => access'[r].scopes = {})
      /\ todo'[r] \in Seq(Methods)
  BY <1>1, OverMoves DEF NotRouted
<1>6. Moved(r)
  BY <1>1, <1>2, <1>5 DEF NotRouted, Goto, Moved, RequestTyped
<1>7. MovedTyped(r)
  BY <1>1, <1>2, <1>5 DEF NotRouted, MovedTyped, RequestTyped, Position
<1> QED
  BY <1>1, <1>4, <1>6, <1>7 DEF NotRouted, Keeps, Kept

\* What is known of a request that executes: its next method is registered and was
\* permitted if one ran already; over HTTP every method is permitted.
LEMMA Executing ==
    ASSUME NEW r \in Requests, IInv, pc[r] = "execute"
    PROVE  /\ todo[r] # << >> /\ todo[r] \in Seq(Methods)
           /\ Head(todo[r]) \in Allowed(r) /\ Head(todo[r]) \in Methods
           /\ OverHTTP(r) => Permitted(access[r], Head(todo[r]))
           /\ ran[r] # {} => Permitted(access[r], Head(todo[r]))
           /\ refused[r] = {}
<1>1. todo[r] # << >> /\ todo[r] \in Seq(Allowed(r)) /\ refused[r] = {}
  BY DEF IInv, Sound, InOrder
<1>2. todo[r] \in Seq(Methods)
  BY TypeParts DEF IInv, RequestTyped
<1>3. Head(todo[r]) \in Allowed(r)
  BY <1>1, HeadTailProperties
<1>4. Head(todo[r]) \in Methods /\ (ran[r] # {} => Permitted(access[r], Head(todo[r])))
  BY <1>3 DEF Allowed
<1>5. OverHTTP(r) => Permitted(access[r], Head(todo[r]))
  BY <1>4 DEF IInv, Sound, Given, Permitted
<1> QED
  BY <1>1, <1>2, <1>3, <1>4, <1>5

\* The executer refuses only the tool a call over MCP asked for.
LEMMA RefuseKeeps ==
    ASSUME NEW r \in Requests, IInv, Refuse(r)
    PROVE  Keeps(r)
<1> USE DEF request
<1> DEFINE m == Head(todo[r])
<1>1. RequestTyped /\ key \in KeyType /\ pc[r] = "execute" /\ ~Permitted(access[r], m)
  BY TypeParts DEF IInv, Refuse
<1>2. ~OverHTTP(r) /\ ran[r] = {} /\ refused[r] = {} /\ m \in Methods
  BY <1>1, Executing
<1>3. m = call[r].tool
  <2>1. PICK x \in Named(r) : todo[r] = <<x>>
    BY <1>1, <1>2 DEF IInv, Sound, InOrder
  <2>2. m = x
    BY <2>1
  <2> QED
    BY <1>2, <2>1, <2>2 DEF Named
<1>4. /\ refused' = [refused EXCEPT ![r] = @ \cup {m}] /\ pc' = [pc EXCEPT ![r] = "over"]
      /\ key' = key /\ using' = using /\ call' = call /\ ran' = ran /\ Over(r)
  BY DEF Refuse
<1> HIDE DEF m
<1>5. refused'[r] = {m} /\ pc'[r] = "over"
  BY <1>1, <1>2, <1>4 DEF RequestTyped
<1>6. ~OverHTTP(r)' /\ refused'[r] = {call'[r].tool} /\ ran'[r] = {}
  BY <1>2, <1>3, <1>4, <1>5 DEF OverHTTP
<1>7. Sound(r)'
  BY <1>5, <1>6 DEF Sound, KeyIsThere, Presented, Given, InOrder, Within, Whole
<1>8. /\ access' = [access EXCEPT ![r] = access'[r]] /\ todo' = [todo EXCEPT ![r] = todo'[r]]
      /\ access'[r] \in Access /\ (access'[r].admin => access'[r].scopes = {})
      /\ todo'[r] \in Seq(Methods)
  BY <1>1, <1>4, OverMoves
<1>9. Moved(r)
  BY <1>1, <1>4, <1>5, <1>8 DEF Moved, RequestTyped
<1>10. MovedTyped(r)
  BY <1>1, <1>2, <1>4, <1>5, <1>8 DEF MovedTyped, RequestTyped, Position
<1> QED
  BY <1>1, <1>4, <1>7, <1>9, <1>10 DEF Keeps, Kept

\* What is left to execute after a method ran is allowed, and then permitted too.
LEMMA RestIsAllowed ==
    ASSUME NEW r \in Requests, IInv, pc[r] = "execute", Permitted(access[r], Head(todo[r])),
           NEW n \in Nested(Head(todo[r]))
    PROVE  n \o Tail(todo[r]) \in
             Seq({x \in Methods : Permitted(access[r], x) /\ (ReadsOnly(r) => x \notin Changes)})
<1> DEFINE m == Head(todo[r])
           S == {x \in Methods : Permitted(access[r], x) /\ (ReadsOnly(r) => x \notin Changes)}
<1>1. /\ todo[r] # << >> /\ todo[r] \in Seq(Allowed(r)) /\ m \in Methods
      /\ ran[r] = {} => \E x \in Named(r) : todo[r] = <<x>>
  BY Executing DEF IInv, Sound, InOrder
<1>2. n \in Seq({x \in Methods : Permitted(access[r], x) /\ x \notin Changes})
  BY <1>1, NestedFits
<1>3. {x \in Methods : Permitted(access[r], x) /\ x \notin Changes} \subseteq S
  OBVIOUS
<1>4. n \in Seq(S)
  BY <1>2, <1>3, SeqMonotone
<1>5. Tail(todo[r]) \in Seq(S)
  <2>1. CASE ran[r] = {}
    <3>1. PICK x \in Named(r) : todo[r] = <<x>>
      BY <1>1, <2>1
    <3>2. Tail(<<x>>) = << >>
      OBVIOUS
    <3> HIDE DEF S
    <3> QED
      BY <3>1, <3>2
  <2>2. CASE ran[r] # {}
    <3>1. Allowed(r) = S
      BY <2>2 DEF Allowed
    <3>2. todo[r] \in Seq(S) /\ todo[r] # << >>
      BY <1>1, <3>1
    <3> HIDE DEF S
    <3> QED
      BY <3>2, HeadTailProperties
  <2> QED
    BY <2>1, <2>2
<1> HIDE DEF S
<1>6. n \o Tail(todo[r]) \in Seq(S)
  BY <1>4, <1>5, ConcatProperties
<1> QED
  BY <1>6 DEF S

\* What ran is within the scopes of the credential, whatever else ran before.
LEMMA ExecuteWithin ==
    ASSUME NEW r \in Requests, IInv, Execute(r), using' = using, call' = call,
           ran'[r] = ran[r] \cup {Head(todo[r])},
           using[r] \in Keys => key'[using[r]].scopes = key[using[r]].scopes
    PROVE  Within(r)' /\ (ReadsOnly(r)' => ran'[r] \cap Changes = {})
<1> DEFINE m == Head(todo[r])
<1>1. pc[r] = "execute" /\ Permitted(access[r], m)
  BY DEF Execute
<1>2. Within(r) /\ Given(r) /\ InOrder(r) /\ m \in Allowed(r)
  BY <1>1, Executing DEF IInv, Sound
<1>3. (OverHTTP(r)' <=> OverHTTP(r)) /\ (ReadsOnly(r)' <=> ReadsOnly(r)) /\ ScopesOf(r)' = ScopesOf(r)
  BY DEF OverHTTP, ReadsOnly, ScopesOf
<1>4. ReadsOnly(r) => ran'[r] \cap Changes = {}
  BY <1>2 DEF InOrder, Allowed
<1>5. ran'[r] = ran[r] \cup {m}
  OBVIOUS
<1> HIDE DEF m
<1>6. CASE OverHTTP(r)
  <2>1. using[r] = Admin \/ (using[r] \in Keys /\ Has(ScopesOf(r), Need(r)))
    BY <1>1, <1>2, <1>6 DEF Given, ScopesOf
  <2>2. Need(r) = "admin.read" => ReadsOnly(r)
    BY <1>6 DEF Need, ReadsOnly
  <2>3. Need(r) \in {"admin.read", "admin.write"}
    BY DEF Need
  <2>4. \/ using[r] = Admin \/ "admin.write" \in ScopesOf(r)
        \/ "admin.read" \in ScopesOf(r) /\ ran'[r] \cap Changes = {}
    BY <1>4, <2>1, <2>2, <2>3 DEF Has
  <2>5. Within(r)'
    BY <1>3, <1>6, <2>4 DEF Within
  <2> QED
    BY <1>3, <1>4, <2>5
<1>7. CASE ~OverHTTP(r)
  <2>1. ~access[r].admin /\ access[r].scopes = ScopesOf(r) /\ ScopesOf(r) \cap MCPScopes # {}
    BY <1>1, <1>2, <1>7 DEF Given, ScopesOf
  <2>2. \A x \in ran'[r] : \/ "mcp.admin" \in ScopesOf(r)
                           \/ ScopeOf(x) \in ScopesOf(r)
                           \/ Public(x) /\ ScopesOf(r) \cap MCPScopes # {}
    BY <1>1, <1>2, <1>5, <1>7, <2>1 DEF Within, Permitted
  <2>3. Within(r)'
    BY <1>3, <1>7, <2>2 DEF Within
  <2> QED
    BY <1>3, <1>4, <2>3
<1> QED
  BY <1>6, <1>7

\* A method runs: it may administer keys, and goes on to what is left or ends.
LEMMA ExecuteKeeps ==
    ASSUME NEW r \in Requests, IInv, Execute(r)
    PROVE  Keeps(r)
<1> USE DEF request
<1> DEFINE m == Head(todo[r])
<1>1. RequestTyped /\ key \in KeyType /\ pc[r] = "execute" /\ Permitted(access[r], m)
  BY TypeParts DEF IInv, Execute
<1>2. m \in Methods /\ refused[r] = {}
  BY <1>1, Executing
<1>3. key' \in KeyType /\ Kept(key, key')
  BY <1>1, KeyToolKeeps DEF Execute
<1>4. using' = using /\ call' = call /\ refused' = refused /\ ran' = [ran EXCEPT ![r] = @ \cup {m}]
  BY DEF Execute
<1>5. ran'[r] = ran[r] \cup {m} /\ ran'[r] # {}
  BY <1>1, <1>4 DEF RequestTyped
<1>6. using[r] \in Keys => key'[using[r]].state # "absent" /\ key'[using[r]].scopes = key[using[r]].scopes
  BY <1>1, <1>3 DEF Kept, IInv, Sound, KeyIsThere
<1>7. KeyIsThere(r)' /\ Whole(r)' /\ refused'[r] = {}
  BY <1>2, <1>4, <1>6 DEF KeyIsThere, Whole
<1>8. Within(r)' /\ (ReadsOnly(r)' => ran'[r] \cap Changes = {})
  BY <1>4, <1>5, <1>6, ExecuteWithin
<1>9. PICK rest \in {nested \o Tail(todo[r]) : nested \in Nested(m)} \cup {<< >>} :
        IF rest = << >>
        THEN pc' = [pc EXCEPT ![r] = "over"] /\ Over(r)
        ELSE todo' = [todo EXCEPT ![r] = rest] /\ UNCHANGED <<pc, access>>
  BY DEF Execute
<1>10. MovedTyped(r) /\ Moved(r)
  <2>1. ran'[r] \in SUBSET Methods /\ refused'[r] \in SUBSET Methods /\ call'[r] \in CallsOf[r] \cup {NoCall}
    BY <1>1, <1>2, <1>4, <1>5 DEF RequestTyped
  <2>2. CASE rest = << >>
    <3>1. pc' = [pc EXCEPT ![r] = "over"] /\ Over(r) /\ pc'[r] = "over"
      BY <1>1, <1>9, <2>2 DEF RequestTyped
    <3>2. /\ access' = [access EXCEPT ![r] = access'[r]] /\ todo' = [todo EXCEPT ![r] = todo'[r]]
          /\ access'[r] \in Access /\ (access'[r].admin => access'[r].scopes = {})
          /\ todo'[r] \in Seq(Methods)
      BY <1>1, <3>1, OverMoves
    <3> QED
      BY <1>1, <1>4, <1>5, <2>1, <3>1, <3>2 DEF Moved, MovedTyped, RequestTyped, Position
  <2>3. CASE rest # << >>
    <3>1. todo' = [todo EXCEPT ![r] = rest] /\ pc' = pc /\ access' = access
      BY <1>9, <2>3
    <3>2. rest \in Seq(Methods)
      <4>1. PICK n \in Nested(m) : rest = n \o Tail(todo[r])
        BY <1>9, <2>3
      <4>2. rest \in Seq({x \in Methods : Permitted(access[r], x) /\ (ReadsOnly(r) => x \notin Changes)})
        BY <1>1, <4>1, RestIsAllowed
      <4> QED
        BY <4>2, SeqMonotone
    <3>3. todo'[r] = rest
      BY <1>1, <3>1 DEF RequestTyped
    <3> QED
      BY <1>1, <1>4, <1>5, <2>1, <3>1, <3>2, <3>3 DEF Moved, MovedTyped, RequestTyped
  <2> QED
    BY <2>2, <2>3
<1>11. CASE rest = << >>
  <2>1. pc'[r] = "over"
    BY <1>1, <1>9, <1>11 DEF RequestTyped
  <2>2. Presented(r)' /\ Given(r)' /\ InOrder(r)'
    BY <1>7, <1>8, <2>1 DEF Presented, Given, InOrder
  <2> QED
    BY <1>3, <1>7, <1>8, <1>10, <2>2 DEF Keeps, Sound
<1>12. CASE rest # << >>
  <2>1. /\ todo' = [todo EXCEPT ![r] = rest] /\ pc' = pc /\ access' = access
        /\ \E n \in Nested(m) : rest = n \o Tail(todo[r])
    BY <1>9, <1>12
  <2>2. rest \in Seq({x \in Methods : Permitted(access[r], x) /\ (ReadsOnly(r) => x \notin Changes)})
    BY <1>1, <2>1, RestIsAllowed
  <2>3. (OverHTTP(r)' <=> OverHTTP(r)) /\ (ReadsOnly(r)' <=> ReadsOnly(r)) /\ Need(r)' = Need(r)
    BY <1>4 DEF OverHTTP, ReadsOnly, Need
  <2>4. Allowed(r)' = {x \in Methods : Permitted(access[r], x) /\ (ReadsOnly(r) => x \notin Changes)}
    BY <1>5, <2>1, <2>3 DEF Allowed
  <2>5. todo'[r] = rest
    BY <1>1, <2>1 DEF RequestTyped
  <2>6. InOrder(r)'
    BY <1>1, <1>5, <1>7, <1>8, <1>12, <2>1, <2>2, <2>4, <2>5 DEF InOrder
  <2>7. Presented(r)' /\ Given(r)'
    BY <1>1, <1>4, <1>6, <2>1, <2>3 DEF Presented, Given, IInv, Sound
  <2> QED
    BY <1>3, <1>7, <1>8, <1>10, <2>6, <2>7 DEF Keeps, Sound
<1> QED
  BY <1>11, <1>12

-----------------------------------------------------------------------------
(* The theorems *)

\* No request has arrived and no key been created.
LEMMA InitIInv == Init => IInv
<1> SUFFICES ASSUME Init PROVE IInv
  OBVIOUS
<1>1. key \in KeyType
  BY KeyScopesAreSets DEF Init, KeyType
<1>2. RequestTyped
  BY DEF Init, RequestTyped, Position, Access, NoAccess, Credentials
<1>3. \A r \in Requests : Sound(r)
  BY DEF Init, NoAccess, Sound, KeyIsThere, Presented, Given, InOrder, Within, Whole
<1> QED
  BY <1>1, <1>2, <1>3, TypeParts DEF IInv

\* Every step keeps the invariant, and no step takes a key away or changes its scopes.
LEMMA NextKeeps ==
    ASSUME NEW r \in Requests, IInv,
           \/ Arrive(r) \/ AdmitAdmin(r) \/ Present(r) \/ Lookup(r) \/ CommitUse(r) \/ CommitRefused(r)
           \/ Route(r) \/ NotRouted(r) \/ Refuse(r) \/ Execute(r)
    PROVE  Keeps(r)
BY ArriveKeeps, AdmitAdminKeeps, PresentKeeps, LookupKeeps, CommitUseKeeps, CommitRefusedKeeps,
   RouteKeeps, NotRoutedKeeps, RefuseKeeps, ExecuteKeeps

\* A step that changes nothing keeps the invariant.
LEMMA StutterKeeps == IInv /\ UNCHANGED vars => IInv'
<1> SUFFICES ASSUME IInv, UNCHANGED vars PROVE IInv'
  OBVIOUS
<1> USE DEF vars, request, run
<1>1. TypeOK'
  BY DEF IInv, TypeOK, Stored
<1>2. \A r \in Requests : Sound(r)'
  <2> TAKE r \in Requests
  <2>1. SameRequest(r) /\ Kept(key, key') /\ using' = using
    BY DEF SameRequest, Kept
  <2> QED
    BY <2>1, Unaffected DEF IInv
<1> QED
  BY <1>1, <1>2 DEF IInv

\* The inductive invariant, for any requests, keys and calls: a key that a request
\* presents keeps its scopes from its verification to the end of the request, the
\* access given is that of those scopes, and what is left to execute is within it
\* (server.go:129, keys.go:300, api_executer.go:46).
THEOREM Inductive == Spec => []IInv
<1>1. IInv /\ [Next]_vars => IInv'
  <2>1. ASSUME IInv, Next PROVE IInv'
    BY <2>1, NextKeeps, KeepsIInv DEF Next
  <2> QED
    BY <2>1, StutterKeeps
<1> QED
  BY <1>1, InitIInv, PTL DEF Spec

\* Every variable keeps its type.
THEOREM TypeCorrect == Spec => []TypeOK
<1>1. IInv => TypeOK
  BY DEF IInv
<1> QED
  BY <1>1, Inductive, PTL

\* Whatever ran, for a call or for what it called in its turn, was within the scopes
\* of its credential, while keys are disabled, enabled and deleted beside it
\* (server.go:129-142, api_executer.go:46).
THEOREM RanWithinScopeHolds == Spec => []RanWithinScope
<1>1. IInv => RanWithinScope
  BY DEF IInv, Sound, Within, ScopesOf, RanWithinScope
<1> QED
  BY <1>1, Inductive, PTL

\* The executer refuses only a tool that was asked for by name and not yet begun: the
\* tables of routes, of tools and of nested calls agree (server.go:150-288,
\* ability.go:94-152).
THEOREM NothingHalfRefusedHolds == Spec => []NothingHalfRefused
<1>1. IInv => NothingHalfRefused
  BY DEF IInv, Sound, Whole, NothingHalfRefused
<1> QED
  BY <1>1, Inductive, PTL

\* The management plane implements Authentication: no call is served whose key was
\* disabled or deleted before its use was committed.  AdmitAdmin, and CommitUse when
\* the call goes on, authenticate; the end of a call leaves; a method that runs and is
\* not the last administers (keys.go:300-314).
THEOREM ImplementsAuthentication == Spec => AuthenticationSpec
<1> DEFINE enabled == Stored({"enabled"}) \cup {Admin}
           lastUsed == [c \in Credentials |-> 0]
           serving == {r \in Requests : pc[r] \in {"route", "execute"}}
<1> USE DEF request
<1>1. ASSUME Init PROVE Auth!Init
  BY <1>1 DEF Init, Auth!Init, Stored, Credentials
<1>2. ASSUME IInv, [Next]_vars PROVE [Auth!Next]_Auth!vars
  <2>0. RequestTyped /\ enabled' \subseteq Credentials /\ lastUsed' = lastUsed
    BY <1>2, TypeParts DEF IInv, Stored, Credentials
  <2>1. ASSUME NEW r \in Requests, UNCHANGED <<key, using>>, NEW p, pc' = [pc EXCEPT ![r] = p],
               p \in {"route", "execute"} <=> pc[r] \in {"route", "execute"}
        PROVE  UNCHANGED Auth!vars
    BY <2>0, <2>1 DEF Auth!vars, RequestTyped, Stored
  <2>2. ASSUME NEW r \in Requests, using[r] \in enabled, UNCHANGED <<key, using>>,
               pc[r] \notin {"route", "execute"}, pc' = [pc EXCEPT ![r] = "route"]
        PROVE  Auth!Next
    <3>1. r \notin serving /\ serving' = serving \cup {r} /\ enabled' = enabled
      BY <2>0, <2>2 DEF RequestTyped, Stored
    <3>2. using[r] \in Credentials
      BY <2>0 DEF RequestTyped
    <3>3. lastUsed' = [lastUsed EXCEPT ![using[r]] = lastUsed'[using[r]]] /\ lastUsed[using[r]] <= lastUsed'[using[r]]
      BY <3>2
    <3>4. Auth!Authenticate(r)
      BY <2>2, <3>1, <3>3 DEF Auth!Authenticate
    <3> QED
      BY <3>4 DEF Auth!Next
  <2>3. ASSUME NEW r \in Requests, using' = using, pc' = [pc EXCEPT ![r] = "over"]
        PROVE  Auth!Next
    <3>1. serving' = serving \ {r}
      BY <2>0, <2>3 DEF RequestTyped
    <3>2. Auth!Leave(r)
      BY <2>0, <2>3, <3>1 DEF Auth!Leave
    <3> QED
      BY <3>2 DEF Auth!Next
  <2>4. ASSUME NEW r \in Requests, AdmitAdmin(r) PROVE Auth!Next
    BY <2>2, <2>4 DEF AdmitAdmin, Goto
  <2>5. ASSUME NEW r \in Requests, CommitUse(r) PROVE Auth!Next
    <3>1. using[r] \in Keys /\ key[using[r]].state = "enabled" /\ pc[r] = "commit" /\ UNCHANGED <<key, using>>
      BY <1>2, <2>5 DEF CommitUse, IInv, Sound, Presented
    <3>2. using[r] \in enabled
      BY <3>1 DEF Stored
    <3>3. CASE pc' = [pc EXCEPT ![r] = "route"]
      BY <2>2, <3>1, <3>2, <3>3
    <3>4. CASE pc' = [pc EXCEPT ![r] = "over"]
      BY <2>3, <3>1, <3>4
    <3> QED
      BY <2>5, <3>3, <3>4 DEF CommitUse, Goto
  <2>6. ASSUME NEW r \in Requests, NotRouted(r) \/ Refuse(r) PROVE Auth!Next
    BY <2>3, <2>6 DEF NotRouted, Refuse, Goto
  <2>7. ASSUME NEW r \in Requests, Execute(r) PROVE Auth!Next
    <3>1. using' = using /\ (pc' = [pc EXCEPT ![r] = "over"] \/ pc' = pc)
      BY <2>7 DEF Execute
    <3>2. CASE pc' = [pc EXCEPT ![r] = "over"]
      BY <2>3, <3>1, <3>2
    <3>3. CASE pc' = pc
      BY <2>0, <3>1, <3>3 DEF Auth!Next, Auth!Administer
    <3> QED
      BY <3>1, <3>2, <3>3
  <2>8. ASSUME NEW r \in Requests, Arrive(r) \/ Present(r) \/ Lookup(r) \/ CommitRefused(r) \/ Route(r)
        PROVE  UNCHANGED Auth!vars
    <3>1. UNCHANGED <<key, using>>
      BY <2>8 DEF Arrive, Present, Lookup, CommitRefused, Route
    <3>2. PICK p \in Position : /\ pc' = [pc EXCEPT ![r] = p]
                                /\ p \in {"route", "execute"} <=> pc[r] \in {"route", "execute"}
      BY <2>8 DEF Arrive, Present, Lookup, CommitRefused, Route, Goto, Position
    <3> QED
      BY <2>1, <3>1, <3>2
  <2>9. CASE UNCHANGED vars
    BY <2>9 DEF vars, Auth!vars, Stored
  <2> QED
    BY <1>2, <2>4, <2>5, <2>6, <2>7, <2>8, <2>9 DEF Next
<1> QED
  BY <1>1, <1>2, Inductive, PTL DEF Spec, AuthenticationSpec, Auth!Spec
=============================================================================
