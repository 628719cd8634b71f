------------------------------- MODULE Startup -------------------------------
(***************************************************************************)
(* The starts of services on one data directory, up to the listener        *)
(* (app/app.go): the bootstrap token file (ability/ability_settings/       *)
(* config.go) and the database with its migrations (db/sqlite/store.go).   *)
(* Nothing in the code keeps two services off one directory before the     *)
(* second finds the port taken, so they start side by side here, of        *)
(* different builds, and may die at every step.                            *)
(*                                                                         *)
(* An action is one system call on the token file, or on the path of the   *)
(* database, or one transaction.  Nobody but the services touches the data *)
(* directory, except that an operator may remove the token file, and that  *)
(* a tool may write a setting, while no service runs.  A service keeps the *)
(* database file that its first connection opened; what was written is not *)
(* lost (no power failure).  The quarantine and the downloads, handled     *)
(* after the database was opened, have modules of their own.               *)
(***************************************************************************)
EXTENDS Naturals

CONSTANTS
    Services,       \* the places a service runs in
    Known,          \* the number of migrations in the build a place runs
    MaxStarts       \* starts of a run: a bound

ASSUME StartupAssumption ==
    /\ Known \in [Services -> Nat \ {0}]
    /\ \E s \in Services : \A o \in Services : Known[o] <= Known[s]    \* one build is the newest
    /\ MaxStarts \in Nat

VARIABLES
    (* the data directory *)
    file,       \* the token file: its number, and how much of its text is there; or NoFile
    db,         \* the database file at its path, by number, or 0
    version,    \* the versions recorded in schema_migrations of each database file
    applied,    \* how often each migration took effect in it
    sensitive,  \* its settings have a row with a sensitive key
    (* the services *)
    starts,     \* the starts so far; a token, and a database file, has the number of the start
                \* that made it
    pc,         \* where a service is
    me,         \* the number of a service's start
    tries,      \* EnsureAdminToken's attempts
    token,      \* the token a service read or made
    on,         \* the database file a service has opened
    seen        \* migrations it found recorded or has applied

disk    == <<file, db, version, applied, sensitive>>
process == <<me, tries, token, on, seen>>
vars    == <<disk, starts, pc, process>>

\* The token has 43 bytes: a "long" beginning of it has 32 of them, a "short" one less.
Text == {"empty", "short", "long", "whole"}

TokenType == [n : 0 .. MaxStarts, text : Text]

NoFile == [n |-> 0, text |-> "empty"]

Files == 0 .. MaxStarts

Newest == CHOOSE v \in {Known[s] : s \in Services} : \A s \in Services : Known[s] <= v

Starting == {"read", "check", "create", "write", "sync", "secure", "made", "close", "history",
             "migrate", "purge", "listen"}
Opened   == {"listen", "up"}

TypeOK ==
    /\ file \in TokenType
    /\ db \in Files
    /\ version \in [Files -> SUBSET (1 .. Newest)]
    /\ applied \in [Files -> [1 .. Newest -> 0 .. 1]]
    /\ sensitive \in [Files -> BOOLEAN]
    /\ starts \in 0 .. MaxStarts
    /\ pc \in [Services -> {"off", "refused", "up"} \cup Starting]
    /\ me \in [Services -> 0 .. MaxStarts]
    /\ tries \in [Services -> 0 .. 1]
    /\ token \in [Services -> TokenType]
    /\ on \in [Services -> Files]
    /\ seen \in [Services -> 0 .. Newest]

Init ==
    /\ file = NoFile
    /\ db = 0
    /\ version = [d \in Files |-> {}]
    /\ applied = [d \in Files |-> [v \in 1 .. Newest |-> 0]]
    /\ sensitive = [d \in Files |-> FALSE]
    /\ starts = 0
    /\ pc = [s \in Services |-> "off"]
    /\ me = [s \in Services |-> 0]
    /\ tries = [s \in Services |-> 0]
    /\ token = [s \in Services |-> NoFile]
    /\ on = [s \in Services |-> 0]
    /\ seen = [s \in Services |-> 0]

Goto(s, from, to) ==
    /\ pc[s] = from
    /\ pc' = [pc EXCEPT ![s] = to]

\* Run: an admin token is not configured.
Begin(s) ==
    /\ starts < MaxStarts
    /\ pc[s] \in {"off", "refused"}
    /\ pc' = [pc EXCEPT ![s] = "read"]
    /\ starts' = starts + 1
    /\ me' = [me EXCEPT ![s] = starts']
    /\ tries' = [tries EXCEPT ![s] = 0]
    /\ token' = [token EXCEPT ![s] = NoFile]
    /\ on' = [on EXCEPT ![s] = 0]
    /\ seen' = [seen EXCEPT ![s] = 0]
    /\ UNCHANGED disk

-----------------------------------------------------------------------------
(* EnsureAdminToken *)

\* readBootstrapToken opens the file, if there is one, and reads it.
Read(s) ==
    /\ pc[s] = "read"
    /\ token' = [token EXCEPT ![s] = file]
    /\ pc' = [pc EXCEPT ![s] = IF file = NoFile THEN "create" ELSE "check"]
    /\ UNCHANGED <<disk, starts, me, tries, on, seen>>

\* Wrong on purpose: any text will do.
CheckLoosely(s) ==
    /\ pc[s] = "check"
    /\ pc' = [pc EXCEPT ![s] = IF file.n = token[s].n THEN "secure" ELSE "refused"]
    /\ UNCHANGED <<disk, starts, process>>

\* The file must still be the one that was read, and the text that was read a
\* credential, which any 32 bytes of a token are.
Check(s) ==
    /\ pc[s] = "check"
    /\ pc' = [pc EXCEPT ![s] = IF file.n = token[s].n /\ token[s].text \in {"long", "whole"}
                               THEN "secure" ELSE "refused"]
    /\ UNCHANGED <<disk, starts, process>>

\* createBootstrapToken: only a file that does not exist is created.  If there
\* is one by now, it is read instead, once.
Create(s) ==
    /\ \/ /\ file = NoFile
          /\ Goto(s, "create", "write")
          /\ file' = [n |-> me[s], text |-> "empty"]
          /\ UNCHANGED tries
       \/ /\ file # NoFile
          /\ IF tries[s] = 0 THEN Goto(s, "create", "read") /\ tries' = [tries EXCEPT ![s] = 1]
                             ELSE Goto(s, "create", "refused") /\ UNCHANGED tries
          /\ UNCHANGED file
    /\ UNCHANGED <<db, version, applied, sensitive, starts, me, token, on, seen>>

\* A part of the token is in the file that was created.
WriteSome(s) ==
    /\ pc[s] = "write"
    /\ file.n = me[s]
    /\ \/ file.text = "empty" /\ file' = [file EXCEPT !.text = "short"]
       \/ file.text \in {"empty", "short"} /\ file' = [file EXCEPT !.text = "long"]
    /\ UNCHANGED <<db, version, applied, sensitive, starts, pc, process>>

\* All of it is.
Write(s) ==
    /\ Goto(s, "write", "sync")
    /\ file' = IF file.n = me[s] THEN [file EXCEPT !.text = "whole"] ELSE file
    /\ UNCHANGED <<db, version, applied, sensitive, starts, process>>

\* Sync and Close succeed, and the token is the service's.
Sync(s) ==
    /\ Goto(s, "sync", "secure")
    /\ token' = [token EXCEPT ![s] = [n |-> me[s], text |-> "whole"]]
    /\ UNCHANGED <<disk, starts, me, tries, on, seen>>

\* Write, Sync or Close fails: what is at the path is removed.
Unmake(s) ==
    /\ pc[s] \in {"write", "sync"}
    /\ pc' = [pc EXCEPT ![s] = "refused"]
    /\ file' = NoFile
    /\ UNCHANGED <<db, version, applied, sensitive, starts, process>>

-----------------------------------------------------------------------------
(* sqlite.Open *)

\* secureDatabaseFile finds a file, or that there is none.
Secure(s) ==
    /\ Goto(s, "secure", IF db # 0 THEN "history" ELSE "made")
    /\ UNCHANGED <<disk, starts, process>>

\* It makes one; a file that appeared meanwhile refuses the start.
MakeDatabase(s) ==
    /\ Goto(s, "made", IF db # 0 THEN "refused" ELSE "close")
    /\ db' = IF db # 0 THEN db ELSE me[s]
    /\ UNCHANGED <<file, version, applied, sensitive, starts, process>>

CloseDatabase(s) ==
    /\ Goto(s, "close", "history")
    /\ UNCHANGED <<disk, starts, process>>

\* The new file cannot be closed: what is at the path is removed.
CloseFails(s) ==
    /\ Goto(s, "close", "refused")
    /\ db' = 0
    /\ UNCHANGED <<file, version, applied, sensitive, starts, process>>

Prefix(d, n) == version[d] = 1 .. n

\* The file at the path; SQLite makes one where that has gone.
Opens(s) == IF db # 0 THEN db ELSE me[s]

\* migrate opens the database and reads its history, which must be a prefix that
\* the build knows.
History(s) ==
    /\ pc[s] = "history"
    /\ db' = Opens(s)
    /\ on' = [on EXCEPT ![s] = Opens(s)]
    /\ \/ \E n \in 0 .. Known[s] :
             /\ Prefix(Opens(s), n)
             /\ seen' = [seen EXCEPT ![s] = n]
             /\ pc' = [pc EXCEPT ![s] = IF n = Known[s] THEN "purge" ELSE "migrate"]
       \/ /\ \A n \in 0 .. Known[s] : ~Prefix(Opens(s), n)
          /\ pc' = [pc EXCEPT ![s] = "refused"]
          /\ UNCHANGED seen
    /\ UNCHANGED <<file, version, applied, sensitive, starts, me, tries, token>>

\* Migration v takes effect and is recorded.
Apply(s, v) ==
    /\ applied' = [applied EXCEPT ![on[s]][v] = @ + 1]
    /\ version' = [version EXCEPT ![on[s]] = @ \cup {v}]
    /\ seen' = [seen EXCEPT ![s] = v]
    /\ pc' = [pc EXCEPT ![s] = IF v = Known[s] THEN "purge" ELSE "migrate"]
    /\ UNCHANGED <<file, db, sensitive, starts, me, tries, token, on>>

\* Wrong on purpose: a version that is recorded already is recorded again.
MigrateAgain(s) == pc[s] = "migrate" /\ Apply(s, seen[s] + 1)

\* One transaction applies the next migration and inserts its version, which is
\* the primary key: another service's migration makes it fail, effect and all.
Migrate(s) ==
    /\ pc[s] = "migrate"
    /\ seen[s] + 1 \notin version[on[s]]
    /\ Apply(s, seen[s] + 1)

\* It, or another statement of Open, fails.
OpenFails(s) ==
    /\ pc[s] \in {"secure", "made", "history", "migrate", "purge"}
    /\ pc' = [pc EXCEPT ![s] = "refused"]
    /\ UNCHANGED <<disk, starts, process>>

\* Wrong on purpose: settings are cleaned by the migrations only.
PurgeOnUpgrade(s) ==
    /\ Goto(s, "purge", "listen")
    /\ UNCHANGED <<disk, starts, process>>

\* purgeSensitiveSettings, at every start.
Purge(s) ==
    /\ Goto(s, "purge", "listen")
    /\ sensitive' = [sensitive EXCEPT ![on[s]] = FALSE]
    /\ UNCHANGED <<file, db, version, applied, starts, process>>

\* ListenAndServe: the port can be taken by one service.
Listen(s) ==
    /\ Goto(s, "listen", IF \E o \in Services : pc[o] = "up" THEN "refused" ELSE "up")
    /\ UNCHANGED <<disk, starts, process>>

-----------------------------------------------------------------------------
(* The rest of the world *)

\* A service ends, in whatever way and wherever it is.
End(s) ==
    /\ pc[s] \in Starting \cup {"up"}
    /\ pc' = [pc EXCEPT ![s] = "off"]
    /\ UNCHANGED <<disk, starts, process>>

Idle == \A s \in Services : pc[s] \in {"off", "refused"}

RemoveToken ==
    /\ Idle /\ file # NoFile
    /\ file' = NoFile
    /\ UNCHANGED <<db, version, applied, sensitive, starts, pc, process>>

\* settings is there when every migration is.
WriteSetting ==
    /\ Idle /\ db # 0 /\ version[db] = 1 .. Newest
    /\ sensitive' = [sensitive EXCEPT ![db] = TRUE]
    /\ UNCHANGED <<file, db, version, applied, starts, pc, process>>

-----------------------------------------------------------------------------

Step(s) ==
    \/ Read(s) \/ Check(s) \/ Create(s) \/ WriteSome(s) \/ Write(s) \/ Sync(s) \/ Unmake(s)
    \/ Secure(s) \/ MakeDatabase(s) \/ CloseDatabase(s) \/ CloseFails(s)
    \/ History(s) \/ Migrate(s) \/ OpenFails(s) \/ Purge(s) \/ Listen(s)

Next ==
    \/ \E s \in Services : Begin(s) \/ Step(s) \/ End(s)
    \/ RemoveToken \/ WriteSetting

Spec == Init /\ [][Next]_vars

-----------------------------------------------------------------------------
(* Properties *)

\* Whatever services start side by side and die, the versions recorded in a
\* database are a prefix, and each of them took effect exactly once
\* (store.go:130-163).
MigratedOnce ==
    \A d \in Files :
        /\ \E n \in 0 .. Newest : Prefix(d, n)
        /\ \A v \in 1 .. Newest : applied[d][v] = IF v \in version[d] THEN 1 ELSE 0

\* A service that opened a database has the whole schema its build knows in it, and
\* no sensitive setting a tool or an older build left (store.go:164-169).
OpenedIsClean ==
    \A s \in Services :
        pc[s] \in Opened => 1 .. Known[s] \subseteq version[on[s]] /\ ~sensitive[on[s]]

\* A service never goes on with less than 32 bytes of a token, however far the start
\* that makes the file has come, failed or died: with the whole token, or with a
\* beginning of it that is long enough to pass for one, and then with another token
\* than the file will have (config.go:282-318).
TokenIsLongEnough ==
    \A s \in Services :
        pc[s] \in Opened => token[s].text \in {"long", "whole"} /\ token[s].n \in 1 .. starts
=============================================================================
