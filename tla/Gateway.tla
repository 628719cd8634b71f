------------------------------- MODULE Gateway -------------------------------
(***************************************************************************)
(* A request through the inference gateway (api/api_gateway/proxy.go): the *)
(* verification of its API key against SQLite (ability/ability_api_key/    *)
(* keys.go) while keys are disabled and deleted, the audit record that is  *)
(* written after it in a goroutine of its own (db/sqlite/services.go), and *)
(* the shutdown that waits for the records (app/app.go).                   *)
(*                                                                         *)
(* A request is one handler and then one audit goroutine: `pc`.  An action *)
(* is one SQLite statement or transaction, one channel operation or one    *)
(* section of recordMu.                                                    *)
(***************************************************************************)
EXTENDS Naturals, FiniteSets

CONSTANTS
    Requests,   \* requests of a run: a bound
    Keys,       \* API keys
    MaxSlots,   \* capacity of Gateway.recordSlots
    MaxRecords, \* audit records kept in SQLite
    MaxTime,    \* last instant of a run: a bound
    Fraction    \* instants in a second

ASSUME GatewayAssumption ==
    /\ IsFiniteSet(Requests)
    /\ MaxSlots \in Nat \ {0}
    /\ MaxRecords \in Nat \ {0}     \* 0 turns recording off
    /\ MaxTime \in Nat
    /\ Fraction \in Nat \ {0}

VARIABLES
    now,            \* the clock, which does not go back
    (* SQLite *)
    key,            \* an API key: whether there is one, enabled or not
    lastUsed,       \* api_keys.last_used_at; 0 is NULL
    table,          \* api_requests: the records and their created_at
    pruned,         \* what was removed from it
    (* the service *)
    pc, using, stamp,   \* a request: its position, its key, the time it read (0: none)
    slots,              \* len(Gateway.recordSlots)
    count, idle,        \* recordCount, and recordIdle as the number of the channel
    closedIdle,         \* the idle channels that were closed
    closing,            \* the HTTP server's shutdown
    wait, owed          \* WaitRecords: its channel or outcome, and the records it waits for

store    == <<key, lastUsed, table, pruned>>
recorder == <<slots, count, idle, closedIdle>>
request  == <<pc, using, stamp>>
ending   == <<closing, wait, owed>>
vars     == <<now, store, request, recorder, ending>>

\* Where the handler is, and where the audit goroutine is.
Handling  == {"derive", "commit", "forward", "record", "slot"}
Recording == {"write", "insert", "finish"}

NoWait == [state |-> "no", idle |-> 0]

TypeOK ==
    /\ now \in 1 .. MaxTime + 1
    /\ key \in [Keys -> {"absent", "enabled", "disabled", "deleted"}]
    /\ lastUsed \in [Keys -> 0 .. MaxTime + 1]
    /\ table \subseteq [req : Requests, at : 1 .. MaxTime + 1]
    /\ pruned \subseteq [req : Requests, at : 1 .. MaxTime + 1]
    /\ pc \in [Requests -> {"new", "release", "over"} \cup Handling \cup Recording]
    /\ using \in [Requests -> Keys]
    /\ stamp \in [Requests -> 0 .. MaxTime + 1]
    /\ slots \in 0 .. MaxSlots
    /\ count \in 0 .. MaxSlots
    /\ idle \in 0 .. Cardinality(Requests)
    /\ closedIdle \subseteq 0 .. Cardinality(Requests)
    /\ closing \in {"no", "drained", "expired"}
    /\ wait \in [state : {"no", "waiting", "drained", "timedout"},
                 idle : 0 .. Cardinality(Requests)]
    /\ owed \subseteq Requests

Init ==
    /\ now = 1
    /\ key = [k \in Keys |-> "absent"]
    /\ lastUsed = [k \in Keys |-> 0]
    /\ table = {} /\ pruned = {}
    /\ pc = [r \in Requests |-> "new"]
    /\ using \in [Requests -> Keys]
    /\ stamp = [r \in Requests |-> 0]
    /\ slots = 0 /\ count = 0
    /\ idle = 0 /\ closedIdle = {0}
    /\ closing = "no"
    /\ wait = NoWait /\ owed = {}

Tick ==
    /\ now <= MaxTime
    /\ now' = now + 1
    /\ UNCHANGED <<store, request, recorder, ending>>

-----------------------------------------------------------------------------
(* Administration of the keys *)

Create(k) ==
    /\ key[k] = "absent"
    /\ key' = [key EXCEPT ![k] = "enabled"]
    /\ UNCHANGED <<now, lastUsed, table, pruned, request, recorder, ending>>

SetEnabled(k, enabled) ==
    /\ key[k] \in {"enabled", "disabled"}
    /\ key' = [key EXCEPT ![k] = IF enabled THEN "enabled" ELSE "disabled"]
    /\ UNCHANGED <<now, lastUsed, table, pruned, request, recorder, ending>>

Delete(k) ==
    /\ key[k] \in {"enabled", "disabled"}
    /\ key' = [key EXCEPT ![k] = "deleted"]
    /\ UNCHANGED <<now, lastUsed, table, pruned, request, recorder, ending>>

-----------------------------------------------------------------------------
(* The handler *)

Goto(r, from, to) ==
    /\ pc[r] = from
    /\ pc' = [pc EXCEPT ![r] = to]

\* The method, the path or the form of the credential refuses the request, which
\* is audited all the same.
Refuse(r) ==
    /\ closing = "no"
    /\ Goto(r, "new", "record")
    /\ UNCHANGED <<now, store, using, stamp, recorder, ending>>

\* The key's row is read and decoded; an enabled key goes on to the derivation
\* of its hash.  A row that is not there or is no key refuses the request, and so
\* does a disabled key, after the derivation, which changes nothing.
Lookup(r) ==
    /\ closing = "no"
    /\ Goto(r, "new", IF key[using[r]] = "enabled" THEN "derive" ELSE "record")
    /\ UNCHANGED <<now, store, using, stamp, recorder, ending>>

\* The derivation ends: a wrong secret or a missing scope refuses the request,
\* and otherwise the time of use is read.
Derive(r) ==
    /\ \/ Goto(r, "derive", "commit") /\ stamp' = [stamp EXCEPT ![r] = now]
       \/ Goto(r, "derive", "record") /\ UNCHANGED stamp
    /\ UNCHANGED <<now, store, using, recorder, ending>>

\* Wrong on purpose: the enabled flag of the snapshot is trusted.
CommitUseStale(r) ==
    LET k == using[r] IN
    /\ Goto(r, "commit", "forward")
    /\ key[k] \in {"enabled", "disabled"}
    /\ lastUsed' = [lastUsed EXCEPT ![k] = IF @ < stamp[r] THEN stamp[r] ELSE @]
    /\ stamp' = [stamp EXCEPT ![r] = 0]
    /\ UNCHANGED <<now, key, table, pruned, using, recorder, ending>>

\* commitVerifiedUse: one conditional UPDATE, of a key that is still enabled.
CommitUse(r) ==
    LET k == using[r] IN
    /\ Goto(r, "commit", "forward")
    /\ key[k] = "enabled"
    /\ lastUsed' = [lastUsed EXCEPT ![k] = IF @ < stamp[r] THEN stamp[r] ELSE @]
    /\ stamp' = [stamp EXCEPT ![r] = 0]
    /\ UNCHANGED <<now, key, table, pruned, using, recorder, ending>>

\* It matches no row, or fails: the request is refused.
CommitRefused(r) ==
    /\ Goto(r, "commit", "record")
    /\ stamp' = [stamp EXCEPT ![r] = 0]
    /\ UNCHANGED <<now, store, using, recorder, ending>>

\* The upstream's response, or its failure, ends.
Forward(r) ==
    /\ Goto(r, "forward", "record")
    /\ UNCHANGED <<now, store, using, stamp, recorder, ending>>

\* Wrong on purpose: there is a goroutine for every request.
RecordUnbounded(r) ==
    /\ Goto(r, "record", "slot")
    /\ slots' = slots + 1
    /\ UNCHANGED <<now, store, using, stamp, count, idle, closedIdle, ending>>

\* The deferred function takes a slot, or gives the record up: it never waits.
Record(r) ==
    /\ IF slots < MaxSlots THEN Goto(r, "record", "slot") /\ slots' = slots + 1
                           ELSE Goto(r, "record", "over") /\ UNCHANGED slots
    /\ UNCHANGED <<now, store, using, stamp, count, idle, closedIdle, ending>>

\* Wrong on purpose: every record opens a channel of its own.
BeginRecordAlwaysOpens(r) ==
    /\ Goto(r, "slot", "write")
    /\ idle' = idle + 1
    /\ count' = count + 1
    /\ UNCHANGED <<now, store, using, stamp, slots, closedIdle, ending>>

\* beginRecord, after which the goroutine exists and the handler returns.
BeginRecord(r) ==
    /\ Goto(r, "slot", "write")
    /\ idle' = IF count = 0 THEN idle + 1 ELSE idle
    /\ count' = count + 1
    /\ UNCHANGED <<now, store, using, stamp, slots, closedIdle, ending>>

-----------------------------------------------------------------------------
(* The audit goroutine *)

\* RecordRequestWithLimit reads the time before its INSERT has the write lock.
ReadTime(r) ==
    /\ Goto(r, "write", "insert")
    /\ stamp' = [stamp EXCEPT ![r] = now]
    /\ UNCHANGED <<now, store, using, recorder, ending>>

\* created_at is compared as text.  RFC3339Nano drops trailing zeros, and "Z" is
\* greater than "." and than every digit: within a second, the instant written
\* without a fraction comes after those written with one.
Second(t) == t \div Fraction
TextLess(t, u) ==
    \/ Second(t) < Second(u)
    \/ Second(t) = Second(u) /\ t % Fraction # 0 /\ (u % Fraction = 0 \/ t < u)

\* What is kept of a set of records: MaxRecords of them, the others being no
\* greater (equal times are ordered by random ids).
Kept(all) ==
    {kept \in SUBSET all :
        /\ Cardinality(kept) = IF Cardinality(all) < MaxRecords THEN Cardinality(all) ELSE MaxRecords
        /\ \A a \in kept, b \in all \ kept : ~TextLess(a.at, b.at)}

\* Wrong on purpose: the oldest records are kept.
InsertKeepsOldest(r) ==
    LET all == table \cup {[req |-> r, at |-> stamp[r]]} IN
    /\ Goto(r, "insert", "finish")
    /\ \E kept \in SUBSET all :
          /\ Cardinality(kept) = IF Cardinality(all) < MaxRecords THEN Cardinality(all) ELSE MaxRecords
          /\ \A a \in kept, b \in all \ kept : ~TextLess(b.at, a.at)
          /\ table' = kept
          /\ pruned' = pruned \cup (all \ kept)
    /\ stamp' = [stamp EXCEPT ![r] = 0]
    /\ UNCHANGED <<now, key, lastUsed, using, recorder, ending>>

\* Insert and prune, in one transaction.
Insert(r) ==
    LET all == table \cup {[req |-> r, at |-> stamp[r]]} IN
    /\ Goto(r, "insert", "finish")
    /\ \E kept \in Kept(all) : table' = kept /\ pruned' = pruned \cup (all \ kept)
    /\ stamp' = [stamp EXCEPT ![r] = 0]
    /\ UNCHANGED <<now, key, lastUsed, using, recorder, ending>>

\* An error, or the two seconds a record may take, ends the attempt.
InsertFails(r) ==
    /\ pc[r] \in {"write", "insert"}
    /\ pc' = [pc EXCEPT ![r] = "finish"]
    /\ stamp' = [stamp EXCEPT ![r] = 0]
    /\ UNCHANGED <<now, store, using, recorder, ending>>

FinishRecord(r) ==
    /\ Goto(r, "finish", "release")
    /\ count' = count - 1
    /\ closedIdle' = IF count = 1 THEN closedIdle \cup {idle} ELSE closedIdle
    /\ UNCHANGED <<now, store, using, stamp, slots, idle, ending>>

\* Wrong on purpose: the slot is not given back.
ReleaseForgets(r) ==
    /\ Goto(r, "release", "over")
    /\ UNCHANGED <<now, store, using, stamp, recorder, ending>>

Release(r) ==
    /\ Goto(r, "release", "over")
    /\ slots' = slots - 1
    /\ UNCHANGED <<now, store, using, stamp, count, idle, closedIdle, ending>>

-----------------------------------------------------------------------------
(* Shutdown *)

\* http.Server.Shutdown returns: every handler did, or the deadline passed.
CloseServer ==
    /\ closing = "no"
    /\ closing' = IF \A r \in Requests : pc[r] \notin Handling THEN "drained" ELSE "expired"
    /\ UNCHANGED <<now, store, request, recorder, wait, owed>>

\* Wrong on purpose: the channel New made, which is closed, is waited for.
WaitRecordsStale ==
    /\ closing # "no" /\ wait.state = "no"
    /\ wait' = [state |-> "waiting", idle |-> 0]
    /\ owed' = {r \in Requests : pc[r] \in Recording}
    /\ UNCHANGED <<now, store, request, recorder, closing>>

\* WaitRecords reads the current channel; owed is what its caller is promised.
WaitRecords ==
    /\ closing # "no" /\ wait.state = "no"
    /\ wait' = [state |-> "waiting", idle |-> idle]
    /\ owed' = {r \in Requests : pc[r] \in Recording}
    /\ UNCHANGED <<now, store, request, recorder, closing>>

WaitDrained ==
    /\ wait.state = "waiting" /\ wait.idle \in closedIdle
    /\ wait' = [wait EXCEPT !.state = "drained"]
    /\ UNCHANGED <<now, store, request, recorder, closing, owed>>

WaitTimesOut ==
    /\ wait.state = "waiting"
    /\ wait' = [wait EXCEPT !.state = "timedout"]
    /\ UNCHANGED <<now, store, request, recorder, closing, owed>>

-----------------------------------------------------------------------------

\* What a handler does without waiting for the upstream.
HandlerStep(r) ==
    Derive(r) \/ CommitUse(r) \/ CommitRefused(r) \/ Record(r) \/ BeginRecord(r)

AuditStep(r) ==
    ReadTime(r) \/ Insert(r) \/ InsertFails(r) \/ FinishRecord(r) \/ Release(r)

Next ==
    \/ Tick
    \/ \E k \in Keys : Create(k) \/ Delete(k) \/ \E e \in BOOLEAN : SetEnabled(k, e)
    \/ \E r \in Requests : Refuse(r) \/ Lookup(r) \/ HandlerStep(r) \/ Forward(r) \/ AuditStep(r)
    \/ CloseServer \/ WaitRecords \/ WaitDrained \/ WaitTimesOut

Spec == Init /\ [][Next]_vars

-----------------------------------------------------------------------------
(* Properties *)

\* The gateway implements Authentication: no request is forwarded whose key was
\* disabled or deleted before the use was committed, whatever happened while its
\* hash was derived, and a late commit moves no last use back (keys.go:300-314).
Auth == INSTANCE Authentication WITH
            enabled <- {k \in Keys : key[k] = "enabled"},
            serving <- {r \in Requests : pc[r] = "forward"}

AuthenticationSpec == Auth!Spec

\* The counter, the slots and the channel agree: there is a record exactly while
\* the current channel is open, so that no channel is closed twice and none is
\* left open, and never more of them than slots (proxy.go:107-123, 143-151).
IdleIsClosed ==
    /\ count = Cardinality({r \in Requests : pc[r] \in Recording})
    /\ slots = Cardinality({r \in Requests : pc[r] \in Recording \cup {"slot", "release"}})
    /\ idle \in closedIdle <=> count = 0
    /\ closedIdle = IF count = 0 THEN 0 .. idle ELSE 0 .. idle - 1

\* WaitRecords returns nil only when the records accepted before the call are
\* done; if the server had drained, nothing writes to the database that is
\* closed next (proxy.go:93-105, app.go:184-193).
WaitKeepsItsPromise ==
    wait.state = "drained" =>
        /\ \A r \in owed : pc[r] \notin Recording
        /\ closing = "drained" => \A r \in Requests : pc[r] \notin Recording

\* Whatever the order in which concurrent records reach the database, no record
\* was removed that is newer, by its second, than one that was kept, and none was
\* removed while there was room.  Within a second it would not hold: created_at is
\* ordered as text there, and not as time (services.go:213-215, 237-240).
RetainsNewest ==
    /\ \A p \in pruned, k \in table : Second(p.at) <= Second(k.at)
    /\ pruned # {} => Cardinality(table) = MaxRecords
=============================================================================
