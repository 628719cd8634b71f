----------------------------- MODULE GatewayProofs -----------------------------
(* Proofs about Gateway for every set of keys, any finite number of requests, *)
(* every capacity and every clock.                                            *)
EXTENDS Gateway, FiniteSetTheorems, TLAPS

-----------------------------------------------------------------------------
(* The inductive invariant *)

\* The requests that are at one of the positions s.
Those(s) == {r \in Requests : pc[r] \in s}

Accepted == Recording \cup {"release", "over"}

\* A channel is opened by a request that never opens another one.
OpenedByRequests == idle <= Cardinality(Those(Accepted))

\* A record is written with the time that was read for it.
TimeWasRead == \A r \in Requests : pc[r] = "insert" => stamp[r] \in 1 .. MaxTime + 1

\* Nothing is handled after the server drained.
DrainedIsQuiet == closing = "drained" => \A r \in Requests : pc[r] \notin Handling

\* The channel that is waited for is not newer than the current one, what it owes was
\* accepted, and is done when the channel is closed; after the server drained nothing
\* else is recorded.
WaitFits ==
    wait.state # "no" =>
        /\ closing # "no"
        /\ wait.idle <= idle
        /\ owed \subseteq Those(Accepted)
        /\ wait.idle \in closedIdle => \A r \in owed : pc[r] \notin Recording
        /\ closing = "drained" => Those(Recording) \subseteq owed
        /\ wait.state = "drained" => wait.idle \in closedIdle

IInv ==
    /\ TypeOK
    /\ IdleIsClosed
    /\ OpenedByRequests
    /\ TimeWasRead
    /\ DrainedIsQuiet
    /\ WaitFits
    /\ IsFiniteSet(table)
    /\ RetainsNewest

-----------------------------------------------------------------------------
(* Types *)

Position == {"new", "release", "over"} \cup Handling \cup Recording

StoreTyped ==
    /\ now \in 1 .. MaxTime + 1
    /\ key \in [Keys -> {"absent", "enabled", "disabled", "deleted"}]
    /\ lastUsed \in [Keys -> 0 .. MaxTime + 1]
    /\ table \subseteq [req : Requests, at : 1 .. MaxTime + 1]
    /\ pruned \subseteq [req : Requests, at : 1 .. MaxTime + 1]

RequestTyped ==
    /\ pc \in [Requests -> Position]
    /\ using \in [Requests -> Keys]
    /\ stamp \in [Requests -> 0 .. MaxTime + 1]

RecorderTyped ==
    /\ slots \in 0 .. MaxSlots
    /\ count \in 0 .. MaxSlots
    /\ idle \in 0 .. Cardinality(Requests)
    /\ closedIdle \subseteq 0 .. Cardinality(Requests)

EndingTyped ==
    /\ closing \in {"no", "drained", "expired"}
    /\ wait \in [state : {"no", "waiting", "drained", "timedout"}, idle : 0 .. Cardinality(Requests)]
    /\ owed \subseteq Requests

\* The type invariant by the parts of the state that change together.
LEMMA TypeParts ==
    /\ TypeOK => StoreTyped /\ RequestTyped /\ RecorderTyped /\ EndingTyped
    /\ (StoreTyped /\ RequestTyped /\ RecorderTyped /\ EndingTyped => TypeOK)
BY DEF TypeOK, StoreTyped, RequestTyped, RecorderTyped, EndingTyped, Position

\* Every step keeps the types of the database ...
LEMMA StoreTypedStep == ASSUME IInv, [Next]_vars PROVE StoreTyped'
<1>0. StoreTyped /\ RequestTyped /\ TimeWasRead /\ GatewayAssumption
  BY TypeParts, GatewayAssumption DEF IInv
<1> USE <1>0 DEF StoreTyped, GatewayAssumption
<1>1. CASE Tick
  BY <1>1 DEF Tick, store
<1>2. ASSUME NEW k \in Keys, Create(k) \/ Delete(k) \/ \E e \in BOOLEAN : SetEnabled(k, e) PROVE StoreTyped'
  BY <1>2 DEF Create, Delete, SetEnabled
<1>3. ASSUME NEW r \in Requests, CommitUse(r) PROVE StoreTyped'
  <2>1. using[r] \in Keys /\ stamp[r] \in 0 .. MaxTime + 1
    BY DEF RequestTyped
  <2> QED
    BY <1>3, <2>1 DEF CommitUse
<1>4. ASSUME NEW r \in Requests, Insert(r) PROVE StoreTyped'
  <2> DEFINE all == table \cup {[req |-> r, at |-> stamp[r]]}
  <2>1. all \subseteq [req : Requests, at : 1 .. MaxTime + 1]
    BY <1>4 DEF Insert, Goto, TimeWasRead
  <2>2. PICK kept \in Kept(all) : table' = kept /\ pruned' = pruned \cup (all \ kept)
    BY <1>4 DEF Insert
  <2>3. kept \subseteq all
    BY <2>2 DEF Kept
  <2> QED
    BY <1>4, <2>1, <2>2, <2>3 DEF Insert
<1>5. CASE UNCHANGED <<now, store>>
  BY <1>5 DEF store
<1>6. ASSUME NEW r \in Requests, Refuse(r) \/ Lookup(r) \/ HandlerStep(r) \/ Forward(r) \/ AuditStep(r)
      PROVE  StoreTyped'
  BY <1>3, <1>4, <1>5, <1>6
     DEF Refuse, Lookup, HandlerStep, Derive, CommitRefused, Record, BeginRecord, Forward, AuditStep, ReadTime,
         InsertFails, FinishRecord, Release, store
<1>7. CASE CloseServer \/ WaitRecords \/ WaitDrained \/ WaitTimesOut \/ UNCHANGED vars
  BY <1>5, <1>7 DEF CloseServer, WaitRecords, WaitDrained, WaitTimesOut, vars
<1> QED
  BY <1>1, <1>2, <1>6, <1>7 DEF Next

\* ... of the requests, which read the time before they write it ...
LEMMA RequestTypedStep == ASSUME IInv, [Next]_vars PROVE RequestTyped' /\ TimeWasRead'
<1>0. StoreTyped /\ RequestTyped /\ TimeWasRead /\ GatewayAssumption
  BY TypeParts, GatewayAssumption DEF IInv
<1> USE <1>0 DEF RequestTyped, TimeWasRead, Position, Handling, Recording, GatewayAssumption
<1>1. CASE UNCHANGED request
  BY <1>1 DEF request
<1>2. ASSUME NEW r \in Requests, NEW p \in Position \ {"insert"}, pc' = [pc EXCEPT ![r] = p], using' = using,
             stamp' = stamp \/ \E t \in 0 .. MaxTime + 1 : stamp' = [stamp EXCEPT ![r] = t]
      PROVE  RequestTyped' /\ TimeWasRead'
  BY <1>2
<1>3. ASSUME NEW r \in Requests, Refuse(r) \/ Lookup(r) \/ Forward(r) PROVE RequestTyped' /\ TimeWasRead'
  BY <1>3, <1>2 DEF Refuse, Lookup, Forward, Goto
<1>4. ASSUME NEW r \in Requests, HandlerStep(r) PROVE RequestTyped' /\ TimeWasRead'
  <2>1. now \in 0 .. MaxTime + 1 /\ 0 \in 0 .. MaxTime + 1
    BY DEF StoreTyped
  <2> QED
    BY <1>4, <1>2, <2>1 DEF HandlerStep, Derive, CommitUse, CommitRefused, Record, BeginRecord, Goto
<1>5. ASSUME NEW r \in Requests, ReadTime(r) PROVE RequestTyped' /\ TimeWasRead'
  BY <1>5 DEF ReadTime, Goto, StoreTyped
<1>6. ASSUME NEW r \in Requests, Insert(r) \/ InsertFails(r) \/ FinishRecord(r) \/ Release(r)
      PROVE  RequestTyped' /\ TimeWasRead'
  <2>1. 0 \in 0 .. MaxTime + 1
    OBVIOUS
  <2> QED
    BY <1>6, <1>2, <2>1 DEF Insert, InsertFails, FinishRecord, Release, Goto
<1>7. CASE Tick \/ CloseServer \/ WaitRecords \/ WaitDrained \/ WaitTimesOut \/ UNCHANGED vars
  BY <1>1, <1>7 DEF Tick, CloseServer, WaitRecords, WaitDrained, WaitTimesOut, vars
<1>8. ASSUME NEW k \in Keys, Create(k) \/ Delete(k) \/ \E e \in BOOLEAN : SetEnabled(k, e)
      PROVE  RequestTyped' /\ TimeWasRead'
  BY <1>1, <1>8 DEF Create, Delete, SetEnabled
<1> QED
  BY <1>3, <1>4, <1>5, <1>6, <1>7, <1>8 DEF Next, AuditStep

\* ... and of the shutdown.
LEMMA EndingTypedStep == ASSUME IInv, [Next]_vars PROVE EndingTyped'
<1>0. EndingTyped /\ RecorderTyped
  BY TypeParts DEF IInv
<1> USE <1>0 DEF EndingTyped
<1>1. CASE UNCHANGED ending
  BY <1>1 DEF ending
<1>2. CASE CloseServer
  BY <1>2 DEF CloseServer
<1>3. CASE WaitRecords
  BY <1>3 DEF WaitRecords, RecorderTyped
<1>4. CASE WaitDrained \/ WaitTimesOut
  BY <1>4 DEF WaitDrained, WaitTimesOut
<1>5. ASSUME NEW r \in Requests, Refuse(r) \/ Lookup(r) \/ HandlerStep(r) \/ Forward(r) \/ AuditStep(r)
      PROVE  EndingTyped'
  BY <1>1, <1>5
     DEF Refuse, Lookup, HandlerStep, Derive, CommitUse, CommitRefused, Record, BeginRecord, Forward, AuditStep,
         ReadTime, Insert, InsertFails, FinishRecord, Release
<1>6. CASE Tick \/ UNCHANGED vars \/ \E k \in Keys : Create(k) \/ Delete(k) \/ \E e \in BOOLEAN : SetEnabled(k, e)
  BY <1>1, <1>6 DEF Tick, vars, Create, Delete, SetEnabled
<1> QED
  BY <1>2, <1>3, <1>4, <1>5, <1>6 DEF Next

-----------------------------------------------------------------------------
(* The records that are under way, counted *)

\* Moving one request moves the count of a set of positions by at most one.
LEMMA Moved ==
    ASSUME RequestTyped, NEW s, NEW r \in Requests, NEW p, pc' = [pc EXCEPT ![r] = p]
    PROVE  /\ Cardinality(Those(s)) \in Nat
           /\ (pc[r] \in s <=> p \in s) => Cardinality(Those(s)') = Cardinality(Those(s))
           /\ pc[r] \notin s /\ p \in s => Cardinality(Those(s)') = Cardinality(Those(s)) + 1
           /\ pc[r] \in s /\ p \notin s => /\ Cardinality(Those(s)') = Cardinality(Those(s)) - 1
                                           /\ Cardinality(Those(s)) # 0
<1>1. IsFiniteSet(Those(s))
  BY GatewayAssumption, FS_Subset DEF Those, GatewayAssumption
<1>2. Cardinality(Those(s)) \in Nat
  BY <1>1, FS_CardinalityType
<1>3. CASE pc[r] \in s <=> p \in s
  <2>1. Those(s)' = Those(s)
    BY <1>3 DEF Those, RequestTyped
  <2> QED
    BY <1>2, <1>3, <2>1
<1>4. CASE pc[r] \notin s /\ p \in s
  <2>1. Those(s)' = Those(s) \cup {r} /\ r \notin Those(s)
    BY <1>4 DEF Those, RequestTyped
  <2>2. Cardinality(Those(s) \cup {r}) = Cardinality(Those(s)) + 1
    BY <1>1, <2>1, FS_AddElement
  <2> QED
    BY <1>2, <1>4, <2>1, <2>2
<1>5. CASE pc[r] \in s /\ p \notin s
  <2>1. Those(s)' = Those(s) \ {r} /\ r \in Those(s)
    BY <1>5 DEF Those, RequestTyped
  <2>2. Cardinality(Those(s) \ {r}) = Cardinality(Those(s)) - 1 /\ Cardinality(Those(s) \ {r}) \in Nat
    BY <1>1, <2>1, FS_RemoveElement, FS_CardinalityType
  <2> QED
    BY <1>2, <1>5, <2>1, <2>2
<1> QED
  BY <1>3, <1>4, <1>5

\* The count of a set of positions is that of some of the requests.
LEMMA Counted ==
    ASSUME NEW s, NEW t, s \subseteq t
    PROVE  /\ Cardinality(Those(s)) \in Nat
           /\ Cardinality(Those(s)) <= Cardinality(Those(t))
           /\ Cardinality(Those(t)) <= Cardinality(Requests)
           /\ Cardinality(Requests) \in Nat
           /\ Cardinality(Those(s)) = 0 <=> Those(s) = {}
<1>1. IsFiniteSet(Requests) /\ Those(t) \subseteq Requests /\ Those(s) \subseteq Those(t)
  BY GatewayAssumption DEF Those, GatewayAssumption
<1>2. IsFiniteSet(Those(t)) /\ IsFiniteSet(Those(s))
  BY <1>1, FS_Subset
<1>3. Cardinality(Those(s)) \in Nat /\ Cardinality(Requests) \in Nat
  BY <1>1, <1>2, FS_CardinalityType
<1>4. Cardinality(Those(s)) <= Cardinality(Those(t)) /\ Cardinality(Those(t)) <= Cardinality(Requests)
  BY <1>1, <1>2, FS_Subset
<1>5. Cardinality(Those(s)) = 0 <=> Those(s) = {}
  BY <1>2, FS_EmptySet
<1> QED
  BY <1>3, <1>4, <1>5

\* Smaller intervals of slots lie in larger ones.
LEMMA Intervals ==
    ASSUME NEW n \in Nat, NEW i \in 0 .. n
    PROVE  0 .. i \subseteq 0 .. n /\ 0 .. i - 1 \subseteq 0 .. n
OBVIOUS

Slotted == Recording \cup {"slot", "release"}

\* The counter, the slots and the channel agree (proxy.go:107-151).
LEMMA RecorderStep == ASSUME IInv, [Next]_vars PROVE RecorderTyped' /\ IdleIsClosed' /\ OpenedByRequests'
<1> DEFINE G == /\ slots' \in 0 .. MaxSlots
                /\ count' = Cardinality(Those(Recording)')
                /\ slots' = Cardinality(Those(Slotted)')
                /\ idle' \in closedIdle' <=> count' = 0
                /\ closedIdle' = IF count' = 0 THEN 0 .. idle' ELSE 0 .. idle' - 1
                /\ idle' \in Nat /\ idle' <= Cardinality(Those(Accepted)')
<1>0. RequestTyped /\ RecorderTyped /\ IdleIsClosed /\ OpenedByRequests /\ MaxSlots \in Nat
  BY TypeParts, GatewayAssumption DEF IInv, GatewayAssumption
<1>a. /\ slots \in 0 .. MaxSlots /\ count \in 0 .. MaxSlots /\ idle \in Nat
      /\ count = Cardinality(Those(Recording))
      /\ slots = Cardinality(Those(Slotted))
      /\ idle \in closedIdle <=> count = 0
      /\ closedIdle = IF count = 0 THEN 0 .. idle ELSE 0 .. idle - 1
      /\ idle <= Cardinality(Those(Accepted))
  BY <1>0 DEF RecorderTyped, IdleIsClosed, OpenedByRequests, Those, Slotted
<1>b. ASSUME G PROVE RecorderTyped' /\ IdleIsClosed' /\ OpenedByRequests'
  <2>1. Those(Recording)' = {r \in Requests : pc'[r] \in Recording}
    BY DEF Those
  <2>2. Those(Slotted)' = {r \in Requests : pc'[r] \in Recording \cup {"slot", "release"}}
    BY DEF Those, Slotted
  <2>3. /\ Cardinality(Those(Recording)') \in Nat
        /\ Cardinality(Those(Recording)') <= Cardinality(Those(Slotted)')
        /\ Cardinality(Those(Accepted)') <= Cardinality(Requests)
        /\ Cardinality(Requests) \in Nat
    <3>1. IsFiniteSet(Requests)
      BY GatewayAssumption DEF GatewayAssumption
    <3>2. /\ Those(Recording)' \subseteq Those(Slotted)' /\ Those(Slotted)' \subseteq Requests
          /\ Those(Accepted)' \subseteq Requests
      BY DEF Those, Slotted
    <3>3. IsFiniteSet(Those(Recording)') /\ IsFiniteSet(Those(Slotted)')
      BY <3>1, <3>2, FS_Subset
    <3> QED
      BY <3>1, <3>2, <3>3, FS_Subset, FS_CardinalityType
  <2> DEFINE c == Cardinality(Those(Recording)')
             d == Cardinality(Those(Slotted)')
             e == Cardinality(Those(Accepted)')
             n == Cardinality(Requests)
  <2>a. c \in Nat /\ c <= d /\ e <= n /\ n \in Nat /\ count' = c /\ slots' = d /\ slots' \in 0 .. MaxSlots
        /\ idle' \in Nat /\ idle' <= e /\ e \in Nat
    <3>1. e \in Nat
      BY GatewayAssumption, FS_Subset, FS_CardinalityType DEF GatewayAssumption, Those
    <3> QED
      BY <1>b, <2>3, <3>1
  <2>b. closedIdle' = IF count' = 0 THEN 0 .. idle' ELSE 0 .. idle' - 1
    BY <1>b
  <2> HIDE DEF c, d, e, n
  <2>4. count' \in 0 .. MaxSlots /\ idle' \in 0 .. n
    BY <1>0, <2>a
  <2>5. closedIdle' \subseteq 0 .. n
    <3>1. 0 .. idle' \subseteq 0 .. n /\ 0 .. idle' - 1 \subseteq 0 .. n
      BY <2>4, <2>a, Intervals
    <3> QED
      BY <2>b, <3>1
  <2> USE DEF n
  <2> QED
    BY <1>b, <2>1, <2>2, <2>4, <2>5 DEF RecorderTyped, IdleIsClosed, OpenedByRequests
<1> SUFFICES G
  BY <1>b
<1>1. CASE UNCHANGED <<pc, recorder>>
  <2>1. \A s : Those(s)' = Those(s)
    BY <1>1 DEF Those
  <2> QED
    BY <1>1, <1>a, <2>1 DEF recorder
<1>2. ASSUME NEW r \in Requests, NEW p, pc' = [pc EXCEPT ![r] = p], UNCHANGED recorder,
             pc[r] \in Recording <=> p \in Recording,
             pc[r] \in Slotted <=> p \in Slotted,
             pc[r] \in Accepted <=> p \in Accepted
      PROVE  G
  <2>1. \A s \in {Recording, Slotted, Accepted} : Cardinality(Those(s)') = Cardinality(Those(s))
    BY <1>0, <1>2, Moved
  <2> QED
    BY <1>2, <1>a, <2>1 DEF recorder
<1> USE DEF Goto
<1>3. ASSUME NEW r \in Requests, Refuse(r) \/ Lookup(r) \/ Derive(r) \/ CommitUse(r) \/ CommitRefused(r) \/ Forward(r)
      PROVE  G
  <2>1. PICK p \in Handling \ {"slot"} : pc' = [pc EXCEPT ![r] = p]
    BY <1>3 DEF Refuse, Lookup, Derive, CommitUse, CommitRefused, Forward, Handling
  <2>2. pc[r] \in (Handling \cup {"new"}) \ {"slot"}
    BY <1>3 DEF Refuse, Lookup, Derive, CommitUse, CommitRefused, Forward, Handling
  <2>3. UNCHANGED recorder
    BY <1>3 DEF Refuse, Lookup, Derive, CommitUse, CommitRefused, Forward
  <2> QED
    BY <1>2, <2>1, <2>2, <2>3 DEF Handling, Recording, Slotted, Accepted
<1>4. ASSUME NEW r \in Requests, ReadTime(r) \/ Insert(r) \/ InsertFails(r) PROVE G
  <2>1. PICK p \in {"insert", "finish"} : pc' = [pc EXCEPT ![r] = p]
    BY <1>4 DEF ReadTime, Insert, InsertFails
  <2>2. pc[r] \in {"write", "insert"}
    BY <1>4 DEF ReadTime, Insert, InsertFails
  <2>3. UNCHANGED recorder
    BY <1>4 DEF ReadTime, Insert, InsertFails
  <2> QED
    BY <1>2, <2>1, <2>2, <2>3 DEF Recording, Slotted, Accepted
<1>5. ASSUME NEW r \in Requests, Record(r) PROVE G
  <2>1. CASE slots < MaxSlots
    <3>1. pc[r] = "record" /\ pc' = [pc EXCEPT ![r] = "slot"] /\ slots' = slots + 1 /\ UNCHANGED <<count, idle, closedIdle>>
      BY <1>5, <2>1 DEF Record
    <3>m. /\ pc[r] \notin Recording /\ "slot" \notin Recording
          /\ pc[r] \notin Accepted /\ "slot" \notin Accepted
          /\ pc[r] \notin Slotted /\ "slot" \in Slotted
      BY <3>1 DEF Recording, Slotted, Accepted
    <3>2. /\ Cardinality(Those(Recording)') = Cardinality(Those(Recording))
          /\ Cardinality(Those(Accepted)') = Cardinality(Those(Accepted))
          /\ Cardinality(Those(Slotted)') = Cardinality(Those(Slotted)) + 1
      BY <1>0, <3>1, <3>m, Moved
    <3> QED
      BY <1>0, <1>a, <2>1, <3>1, <3>2
  <2>2. CASE ~(slots < MaxSlots)
    <3>1. pc[r] = "record" /\ pc' = [pc EXCEPT ![r] = "over"] /\ UNCHANGED recorder
      BY <1>5, <2>2 DEF Record, recorder
    <3>m. /\ pc[r] \notin Recording /\ "over" \notin Recording
          /\ pc[r] \notin Accepted /\ "over" \in Accepted
          /\ pc[r] \notin Slotted /\ "over" \notin Slotted
      BY <3>1 DEF Recording, Slotted, Accepted
    <3>2. /\ Cardinality(Those(Recording)') = Cardinality(Those(Recording))
          /\ Cardinality(Those(Accepted)') = Cardinality(Those(Accepted)) + 1
          /\ Cardinality(Those(Slotted)') = Cardinality(Those(Slotted))
          /\ Cardinality(Those(Accepted)) \in Nat
      BY <1>0, <3>1, <3>m, Moved
    <3> QED
      BY <1>0, <1>a, <3>1, <3>2 DEF recorder
  <2> QED
    BY <2>1, <2>2
<1>6. ASSUME NEW r \in Requests, BeginRecord(r) PROVE G
  <2>1. /\ pc[r] = "slot" /\ pc' = [pc EXCEPT ![r] = "write"] /\ UNCHANGED <<slots, closedIdle>>
        /\ count' = count + 1 /\ idle' = IF count = 0 THEN idle + 1 ELSE idle
    BY <1>6 DEF BeginRecord
  <2>m. /\ pc[r] \notin Recording /\ "write" \in Recording
        /\ pc[r] \notin Accepted /\ "write" \in Accepted
        /\ pc[r] \in Slotted /\ "write" \in Slotted
    BY <2>1 DEF Recording, Slotted, Accepted
  <2>2. /\ Cardinality(Those(Recording)') = Cardinality(Those(Recording)) + 1
        /\ Cardinality(Those(Accepted)') = Cardinality(Those(Accepted)) + 1
        /\ Cardinality(Those(Slotted)') = Cardinality(Those(Slotted))
        /\ Cardinality(Those(Accepted)) \in Nat
    BY <1>0, <2>1, <2>m, Moved
  <2>3. idle' \in Nat /\ idle' <= Cardinality(Those(Accepted)') /\ count' # 0
    BY <1>a, <2>1, <2>2
  <2>4. closedIdle' = 0 .. idle' - 1 /\ idle' \notin closedIdle'
    BY <1>a, <2>1
  <2> QED
    BY <1>0, <1>a, <2>1, <2>2, <2>3, <2>4
<1>7. ASSUME NEW r \in Requests, FinishRecord(r) PROVE G
  <2>1. /\ pc[r] = "finish" /\ pc' = [pc EXCEPT ![r] = "release"] /\ UNCHANGED <<slots, idle>>
        /\ count' = count - 1 /\ closedIdle' = IF count = 1 THEN closedIdle \cup {idle} ELSE closedIdle
    BY <1>7 DEF FinishRecord
  <2>m. /\ pc[r] \in Recording /\ "release" \notin Recording
        /\ pc[r] \in Accepted /\ "release" \in Accepted
        /\ pc[r] \in Slotted /\ "release" \in Slotted
    BY <2>1 DEF Recording, Slotted, Accepted
  <2>2. /\ Cardinality(Those(Recording)') = Cardinality(Those(Recording)) - 1
        /\ Cardinality(Those(Recording)) # 0
        /\ Cardinality(Those(Accepted)') = Cardinality(Those(Accepted))
        /\ Cardinality(Those(Slotted)') = Cardinality(Those(Slotted))
    BY <1>0, <2>1, <2>m, Moved
  <2>3. count # 0 /\ closedIdle = 0 .. idle - 1
    BY <1>a, <2>2
  <2>4. (0 .. idle - 1) \cup {idle} = 0 .. idle
    BY <1>a
  <2>5. count' = 0 <=> count = 1
    BY <1>a, <2>1
  <2>6. closedIdle' = IF count' = 0 THEN 0 .. idle ELSE 0 .. idle - 1
    BY <2>1, <2>3, <2>4, <2>5
  <2>7. idle' \in closedIdle' <=> count' = 0
    BY <1>a, <2>1, <2>6
  <2> QED
    BY <1>0, <1>a, <2>1, <2>2, <2>6, <2>7
<1>8. ASSUME NEW r \in Requests, Release(r) PROVE G
  <2>1. pc[r] = "release" /\ pc' = [pc EXCEPT ![r] = "over"] /\ slots' = slots - 1 /\ UNCHANGED <<count, idle, closedIdle>>
    BY <1>8 DEF Release
  <2>m. /\ pc[r] \notin Recording /\ "over" \notin Recording
        /\ pc[r] \in Accepted /\ "over" \in Accepted
        /\ pc[r] \in Slotted /\ "over" \notin Slotted
    BY <2>1 DEF Recording, Slotted, Accepted
  <2>2. /\ Cardinality(Those(Recording)') = Cardinality(Those(Recording))
        /\ Cardinality(Those(Accepted)') = Cardinality(Those(Accepted))
        /\ Cardinality(Those(Slotted)') = Cardinality(Those(Slotted)) - 1
        /\ Cardinality(Those(Slotted)) # 0
    BY <1>0, <2>1, <2>m, Moved
  <2> QED
    BY <1>0, <1>a, <2>1, <2>2
<1>9. CASE Tick \/ CloseServer \/ WaitRecords \/ WaitDrained \/ WaitTimesOut \/ UNCHANGED vars
  BY <1>1, <1>9 DEF Tick, CloseServer, WaitRecords, WaitDrained, WaitTimesOut, vars, request
<1>10. ASSUME NEW k \in Keys, Create(k) \/ Delete(k) \/ \E e \in BOOLEAN : SetEnabled(k, e) PROVE G
  BY <1>1, <1>10 DEF Create, Delete, SetEnabled, request
<1> QED
  BY <1>3, <1>4, <1>5, <1>6, <1>7, <1>8, <1>9, <1>10 DEF Next, HandlerStep, AuditStep

-----------------------------------------------------------------------------
(* The shutdown *)

\* While the counter is zero nothing is recorded.
LEMMA NoneRecording ==
    ASSUME IdleIsClosed, count = 0
    PROVE  Those(Recording) = {}
<1>1. Cardinality(Those(Recording)) = 0
  BY DEF IdleIsClosed, Those
<1>2. IsFiniteSet(Those(Recording))
  BY GatewayAssumption, FS_Subset DEF Those, GatewayAssumption
<1> QED
  BY <1>1, <1>2, FS_EmptySet

\* A drained server has no handler left, and gets none.
LEMMA DrainedIsQuietStep == ASSUME IInv, [Next]_vars PROVE DrainedIsQuiet'
<1>0. RequestTyped /\ DrainedIsQuiet
  BY TypeParts DEF IInv
<1> USE DEF DrainedIsQuiet, Goto, RequestTyped
<1>1. CASE UNCHANGED <<pc, closing>>
  BY <1>0, <1>1
<1>2. ASSUME NEW r \in Requests, NEW p, pc' = [pc EXCEPT ![r] = p], closing' = closing,
             p \in Handling => pc[r] \in Handling \/ closing = "no"
      PROVE  DrainedIsQuiet'
  BY <1>0, <1>2
<1>3. ASSUME NEW r \in Requests, Refuse(r) \/ Lookup(r) PROVE DrainedIsQuiet'
  BY <1>0, <1>3 DEF Refuse, Lookup, ending
<1>4. ASSUME NEW r \in Requests, Derive(r) \/ CommitUse(r) \/ CommitRefused(r) \/ Forward(r) PROVE DrainedIsQuiet'
  BY <1>2, <1>4 DEF Derive, CommitUse, CommitRefused, Forward, ending, Handling
<1>5. ASSUME NEW r \in Requests, Record(r) \/ BeginRecord(r) PROVE DrainedIsQuiet'
  BY <1>2, <1>5 DEF Record, BeginRecord, ending, Handling
<1>6. ASSUME NEW r \in Requests, AuditStep(r) PROVE DrainedIsQuiet'
  BY <1>2, <1>6 DEF AuditStep, ReadTime, Insert, InsertFails, FinishRecord, Release, ending, Handling
<1>7. CASE CloseServer
  BY <1>0, <1>7 DEF CloseServer, request
<1>8. CASE Tick \/ WaitRecords \/ WaitDrained \/ WaitTimesOut \/ UNCHANGED vars
  BY <1>1, <1>8 DEF Tick, WaitRecords, WaitDrained, WaitTimesOut, vars, request, ending
<1>9. ASSUME NEW k \in Keys, Create(k) \/ Delete(k) \/ \E e \in BOOLEAN : SetEnabled(k, e) PROVE DrainedIsQuiet'
  BY <1>1, <1>9 DEF Create, Delete, SetEnabled, request, ending
<1> QED
  BY <1>3, <1>4, <1>5, <1>6, <1>7, <1>8, <1>9 DEF Next, HandlerStep

\* What the wait of the shutdown owes is done when its channel is closed.
LEMMA WaitFitsStep == ASSUME IInv, [Next]_vars PROVE WaitFits'
<1>0. RequestTyped /\ RecorderTyped /\ EndingTyped /\ IdleIsClosed /\ DrainedIsQuiet /\ WaitFits
  BY TypeParts DEF IInv
<1> USE DEF WaitFits, Those, Goto
<1>1. CASE UNCHANGED <<pc, idle, closedIdle, closing, wait, owed>>
  BY <1>0, <1>1
<1>2. ASSUME NEW r \in Requests, NEW p, pc' = [pc EXCEPT ![r] = p],
             pc[r] \in Accepted => p \in Accepted,
             p \in Recording => pc[r] \in Recording,
             UNCHANGED <<idle, closedIdle, closing, wait, owed>>
      PROVE  WaitFits'
  BY <1>0, <1>2 DEF RequestTyped
<1>3. ASSUME NEW r \in Requests, Refuse(r) \/ Lookup(r) \/ Derive(r) \/ CommitUse(r) \/ CommitRefused(r) \/ Forward(r)
      PROVE  WaitFits'
  <2>1. PICK p \in Handling \ {"slot"} : pc' = [pc EXCEPT ![r] = p]
    BY <1>3 DEF Refuse, Lookup, Derive, CommitUse, CommitRefused, Forward, Handling
  <2>2. pc[r] \in Handling \cup {"new"}
    BY <1>3 DEF Refuse, Lookup, Derive, CommitUse, CommitRefused, Forward, Handling
  <2>3. UNCHANGED <<idle, closedIdle, closing, wait, owed>>
    BY <1>3 DEF Refuse, Lookup, Derive, CommitUse, CommitRefused, Forward, recorder, ending
  <2>4. p \notin Recording /\ pc[r] \notin Accepted
    BY <2>1, <2>2 DEF Handling, Recording, Accepted
  <2> QED
    BY <1>2, <2>1, <2>3, <2>4
<1>4. ASSUME NEW r \in Requests, Record(r) \/ ReadTime(r) \/ Insert(r) \/ InsertFails(r) \/ Release(r) PROVE WaitFits'
  <2>1. UNCHANGED <<idle, closedIdle, closing, wait, owed>>
    BY <1>4 DEF Record, ReadTime, Insert, InsertFails, Release, recorder, ending
  <2>2. PICK p \in {"slot", "over", "insert", "finish"} : pc' = [pc EXCEPT ![r] = p]
    BY <1>4 DEF Record, ReadTime, Insert, InsertFails, Release
  <2>3. (pc[r] \in Accepted => p \in Accepted) /\ (p \in Recording => pc[r] \in Recording)
    <3>1. CASE Record(r) \/ Release(r)
      <4>1. pc[r] \in {"record", "release"} /\ pc'[r] \in {"slot", "over"} /\ (pc[r] = "release" => pc'[r] = "over")
        BY <1>0, <3>1 DEF Record, Release, RequestTyped
      <4> QED
        BY <1>0, <2>2, <4>1 DEF RequestTyped, Accepted, Recording
    <3>2. CASE ReadTime(r) \/ Insert(r) \/ InsertFails(r)
      <4>1. pc[r] \in {"write", "insert"} /\ pc'[r] \in {"insert", "finish"}
        BY <1>0, <3>2 DEF ReadTime, Insert, InsertFails, RequestTyped
      <4> QED
        BY <1>0, <2>2, <4>1 DEF RequestTyped, Accepted, Recording
    <3> QED
      BY <1>4, <3>1, <3>2
  <2> QED
    BY <1>2, <2>1, <2>2, <2>3
<1>5. ASSUME NEW r \in Requests, BeginRecord(r) PROVE WaitFits'
  <2>1. /\ pc[r] = "slot" /\ pc' = [pc EXCEPT ![r] = "write"] /\ UNCHANGED <<closedIdle, closing, wait, owed>>
        /\ idle \in Nat /\ idle' \in {idle, idle + 1}
    BY <1>0, <1>5 DEF BeginRecord, ending, RecorderTyped
  <2>2. closing # "drained"
    BY <1>0, <2>1 DEF DrainedIsQuiet, Handling
  <2>3. wait.state # "no" => r \notin owed
    BY <1>0, <2>1 DEF Accepted, Recording
  <2>4. wait.state # "no" => wait.idle <= idle'
    BY <1>0, <2>1 DEF EndingTyped
  <2>5. "write" \in Accepted
    BY DEF Accepted, Recording
  <2> QED
    BY <1>0, <2>1, <2>2, <2>3, <2>4, <2>5 DEF RequestTyped
<1>6. ASSUME NEW r \in Requests, FinishRecord(r) PROVE WaitFits'
  <2>1. /\ pc[r] = "finish" /\ pc' = [pc EXCEPT ![r] = "release"] /\ UNCHANGED <<idle, closing, wait, owed>>
        /\ count' = count - 1 /\ closedIdle' = IF count = 1 THEN closedIdle \cup {idle} ELSE closedIdle
    BY <1>6 DEF FinishRecord, ending
  <2>2. "release" \in Accepted /\ "release" \notin Recording
    BY DEF Accepted, Recording
  <2>3. CASE count = 1
    <3>1. count' = 0 /\ IdleIsClosed'
      BY <2>1, <2>3, RecorderStep
    <3>2. Cardinality(Those(Recording)') = 0
      BY <3>1 DEF IdleIsClosed
    <3>3. IsFiniteSet(Those(Recording)')
      BY GatewayAssumption, FS_Subset DEF GatewayAssumption
    <3>4. Those(Recording)' = {}
      BY <3>2, <3>3, FS_EmptySet
    <3> QED
      BY <1>0, <2>1, <2>2, <2>3, <3>4 DEF RequestTyped
  <2>4. CASE count # 1
    BY <1>2, <2>1, <2>2, <2>4
  <2> QED
    BY <2>3, <2>4
<1>7. CASE WaitRecords
  <2>1. /\ closing # "no" /\ closing' = closing /\ UNCHANGED <<pc, idle, closedIdle>>
        /\ wait' = [state |-> "waiting", idle |-> idle]
        /\ owed' = Those(Recording)
    BY <1>7 DEF WaitRecords, recorder, request
  <2>2. idle \in closedIdle => Those(Recording) = {}
    BY <1>0, NoneRecording DEF IdleIsClosed
  <2>3. Recording \subseteq Accepted /\ idle <= idle
    BY <1>0 DEF Accepted, RecorderTyped
  <2> QED
    BY <2>1, <2>2, <2>3
<1>8. CASE WaitDrained \/ WaitTimesOut
  BY <1>0, <1>8 DEF WaitDrained, WaitTimesOut, EndingTyped, recorder, request
<1>9. CASE CloseServer
  BY <1>0, <1>9 DEF CloseServer
<1>10. CASE Tick \/ UNCHANGED vars
  BY <1>1, <1>10 DEF Tick, vars, request, recorder, ending
<1>11. ASSUME NEW k \in Keys, Create(k) \/ Delete(k) \/ \E e \in BOOLEAN : SetEnabled(k, e) PROVE WaitFits'
  BY <1>1, <1>11 DEF Create, Delete, SetEnabled, request, recorder, ending
<1> QED
  BY <1>3, <1>4, <1>5, <1>6, <1>7, <1>8, <1>9, <1>10, <1>11 DEF Next, HandlerStep, AuditStep

-----------------------------------------------------------------------------
(* The records that are kept *)

\* The second of an instant is a number.
LEMMA SecondType == ASSUME NEW t \in Nat PROVE Second(t) \in Int
BY GatewayAssumption DEF Second, GatewayAssumption

\* What comes no earlier as text is of no earlier a second.
LEMMA TextOrder ==
    ASSUME NEW t \in Nat, NEW u \in Nat, ~TextLess(t, u)
    PROVE  Second(u) <= Second(t)
<1>1. Second(t) \in Int /\ Second(u) \in Int
  BY SecondType
<1>2. ~(Second(t) < Second(u))
  BY DEF TextLess
<1> QED
  BY <1>1, <1>2

\* One insertion keeps the newest, whatever the order in which records arrive
\* (services.go:194-246).
LEMMA Keeps ==
    ASSUME StoreTyped, IsFiniteSet(table), RetainsNewest, NEW x \in [req : Requests, at : 1 .. MaxTime + 1],
           NEW kept \in Kept(table \cup {x}),
           table' = kept, pruned' = pruned \cup ((table \cup {x}) \ kept)
    PROVE  IsFiniteSet(table') /\ RetainsNewest'
<1> DEFINE all == table \cup {x}
<1>1. /\ IsFiniteSet(all) /\ kept \subseteq all /\ IsFiniteSet(kept)
      /\ Cardinality(all) \in Nat /\ Cardinality(kept) \in Nat /\ Cardinality(table) \in Nat
      /\ Cardinality(table) <= Cardinality(all)
  <2>1. IsFiniteSet(all)
    BY FS_AddElement
  <2>2. kept \subseteq all
    BY DEF Kept
  <2> QED
    BY <2>1, <2>2, FS_Subset, FS_CardinalityType
<1>2. /\ Cardinality(kept) = IF Cardinality(all) < MaxRecords THEN Cardinality(all) ELSE MaxRecords
      /\ \A a \in kept, b \in all \ kept : ~TextLess(a.at, b.at)
  BY DEF Kept
<1>3. MaxRecords \in Nat /\ MaxTime \in Nat
  BY GatewayAssumption DEF GatewayAssumption
<1>4. \A a \in all \cup pruned : a.at \in Nat /\ Second(a.at) \in Int
  BY <1>3, SecondType DEF StoreTyped
<1>5. \A a \in kept, b \in all \ kept : Second(b.at) <= Second(a.at)
  BY <1>1, <1>2, <1>4, TextOrder
<1>6. ASSUME NEW p \in pruned, NEW k \in kept PROVE Second(p.at) <= Second(k.at)
  <2>1. CASE k \in table
    BY <2>1 DEF RetainsNewest
  <2>2. CASE k \notin table
    <3>1. k = x /\ Cardinality(table) = MaxRecords /\ Cardinality(all) = MaxRecords + 1
      BY <1>1, <2>2, FS_AddElement DEF RetainsNewest
    <3>2. Cardinality(kept) = MaxRecords
      BY <1>2, <1>3, <3>1
    <3>3. PICK b \in table : b \notin kept
      <4>1. kept = all => Cardinality(kept) = MaxRecords + 1
        BY <3>1
      <4>2. kept # all
        BY <1>3, <3>2, <4>1
      <4> QED
        BY <1>1, <3>1, <4>2
    <3>4. Second(p.at) <= Second(b.at) /\ Second(b.at) <= Second(k.at)
      BY <1>5, <3>3 DEF RetainsNewest
    <3>5. Second(p.at) \in Int /\ Second(b.at) \in Int /\ Second(k.at) \in Int
      BY <1>1, <1>4, <3>3
    <3> QED
      BY <3>4, <3>5
  <2> QED
    BY <2>1, <2>2
<1>7. pruned' # {} => Cardinality(kept) = MaxRecords
  <2>1. CASE pruned # {}
    BY <1>1, <1>2, <1>3, <2>1 DEF RetainsNewest
  <2>2. CASE kept # all
    <3>1. Cardinality(kept) # Cardinality(all)
      BY <1>1, <2>2, FS_Subset
    <3> QED
      BY <1>2, <3>1
  <2> QED
    BY <1>1, <2>1, <2>2
<1> QED
  BY <1>1, <1>5, <1>6, <1>7 DEF RetainsNewest

\* The table stays finite and keeps the newest records, through insertion and pruning.
LEMMA RetainsNewestStep == ASSUME IInv, [Next]_vars PROVE IsFiniteSet(table)' /\ RetainsNewest'
<1>0. StoreTyped /\ RequestTyped /\ TimeWasRead /\ IsFiniteSet(table) /\ RetainsNewest
  BY TypeParts DEF IInv
<1>1. CASE UNCHANGED <<table, pruned>>
  BY <1>0, <1>1 DEF RetainsNewest
<1>2. ASSUME NEW r \in Requests, Insert(r) PROVE IsFiniteSet(table)' /\ RetainsNewest'
  <2> DEFINE x == [req |-> r, at |-> stamp[r]]
  <2>1. PICK kept \in Kept(table \cup {x}) : table' = kept /\ pruned' = pruned \cup ((table \cup {x}) \ kept)
    BY <1>2 DEF Insert
  <2>2. x \in [req : Requests, at : 1 .. MaxTime + 1]
    BY <1>0, <1>2 DEF Insert, Goto, TimeWasRead
  <2> QED
    BY <1>0, <2>1, <2>2, Keeps
<1>3. ASSUME NEW r \in Requests, ~Insert(r), Refuse(r) \/ Lookup(r) \/ HandlerStep(r) \/ Forward(r) \/ AuditStep(r)
      PROVE  UNCHANGED <<table, pruned>>
  BY <1>3
     DEF Refuse, Lookup, HandlerStep, Derive, CommitUse, CommitRefused, Record, BeginRecord, Forward, AuditStep,
         ReadTime, InsertFails, FinishRecord, Release, store
<1>4. ASSUME NEW k \in Keys, Create(k) \/ Delete(k) \/ \E e \in BOOLEAN : SetEnabled(k, e)
      PROVE  UNCHANGED <<table, pruned>>
  BY <1>4 DEF Create, Delete, SetEnabled
<1>5. CASE Tick \/ CloseServer \/ WaitRecords \/ WaitDrained \/ WaitTimesOut \/ UNCHANGED vars
  BY <1>1, <1>5 DEF Tick, CloseServer, WaitRecords, WaitDrained, WaitTimesOut, vars, store
<1> QED
  BY <1>1, <1>2, <1>3, <1>4, <1>5 DEF Next

-----------------------------------------------------------------------------
(* The theorems *)

\* Nothing has been asked and no record is being written.
LEMMA InitIInv == ASSUME Init PROVE IInv
<1> USE DEF Init, NoWait
<1>0. Cardinality(Requests) \in Nat /\ IsFiniteSet({}) /\ Cardinality({}) = 0 /\ IsFiniteSet(Requests)
      /\ MaxSlots \in Nat /\ MaxTime \in Nat
  BY GatewayAssumption, FS_CardinalityType, FS_EmptySet DEF GatewayAssumption
<1>1. TypeOK
  BY <1>0 DEF TypeOK
<1>2. {r \in Requests : pc[r] \in Recording} = {} /\ {r \in Requests : pc[r] \in Recording \cup {"slot", "release"}} = {}
  BY DEF Recording
<1>3. IdleIsClosed
  BY <1>0, <1>2 DEF IdleIsClosed
<1>4. OpenedByRequests
  BY <1>0, Counted DEF OpenedByRequests
<1> QED
  BY <1>0, <1>1, <1>3, <1>4 DEF IInv, TimeWasRead, DrainedIsQuiet, WaitFits, RetainsNewest

\* The invariant holds in every state of every run of the gateway and its shutdown
\* (proxy.go, keys.go, services.go, app.go).
THEOREM Inductive == Spec => []IInv
<1>1. ASSUME IInv, [Next]_vars PROVE IInv'
  <2>1. TypeOK'
    <3>1. StoreTyped' /\ RequestTyped' /\ RecorderTyped' /\ EndingTyped'
      BY <1>1, StoreTypedStep, RequestTypedStep, RecorderStep, EndingTypedStep
    <3> QED
      BY <3>1 DEF TypeOK, StoreTyped, RequestTyped, RecorderTyped, EndingTyped, Position
  <2> QED
    BY <1>1, <2>1, RequestTypedStep, RecorderStep, DrainedIsQuietStep, WaitFitsStep, RetainsNewestStep DEF IInv
<1> QED
  BY <1>1, InitIInv, PTL DEF Spec

\* Every variable keeps its type; no more records are under way than there are slots.
THEOREM TypeCorrect == Spec => []TypeOK
BY Inductive, PTL DEF IInv

\* The counter, the slots and the current channel agree, so that no channel is closed
\* twice and none is left open (proxy.go:107-151).
THEOREM IdleIsClosedHolds == Spec => []IdleIsClosed
BY Inductive, PTL DEF IInv

\* The shutdown closes the database only when every record accepted before is done,
\* unless it gave up waiting (proxy.go:93-105, app.go:184-193).
THEOREM WaitKeepsItsPromiseHolds == Spec => []WaitKeepsItsPromise
<1>1. ASSUME IInv PROVE WaitKeepsItsPromise
  BY <1>1 DEF IInv, WaitFits, WaitKeepsItsPromise, Those
<1> QED
  BY <1>1, Inductive, PTL

\* No record was removed that is newer, by its second, than one that was kept
\* (services.go:194-246).
THEOREM RetainsNewestHolds == Spec => []RetainsNewest
BY Inductive, PTL DEF IInv

\* The gateway implements Authentication: the conditional UPDATE with which a use is
\* committed is the step that authenticates, and the end of the response the one that
\* leaves; everything else administers keys or is not seen (keys.go:300-314).
THEOREM ImplementsAuthentication == Spec => AuthenticationSpec
<1> DEFINE enabled == {k \in Keys : key[k] = "enabled"}
           serving == {r \in Requests : pc[r] = "forward"}
<1>1. ASSUME Init PROVE Auth!Init
  BY <1>1 DEF Init, Auth!Init
<1>2. ASSUME IInv, [Next]_vars PROVE [Auth!Next]_Auth!vars
  <2>0. StoreTyped /\ RequestTyped
    BY <1>2, TypeParts DEF IInv
  <2>1. ASSUME UNCHANGED <<key, lastUsed, using>>, NEW r \in Requests, NEW p, pc' = [pc EXCEPT ![r] = p],
               p = "forward" <=> pc[r] = "forward"
        PROVE  UNCHANGED Auth!vars
    BY <2>0, <2>1 DEF Auth!vars, RequestTyped
  <2>2. CASE UNCHANGED <<key, lastUsed, using, pc>>
    BY <2>2 DEF Auth!vars
  <2>3. ASSUME NEW r \in Requests, CommitUse(r) PROVE Auth!Next
    <3> DEFINE k == using[r]
    <3>1. /\ pc[r] = "commit" /\ pc' = [pc EXCEPT ![r] = "forward"] /\ key[k] = "enabled"
          /\ lastUsed' = [lastUsed EXCEPT ![k] = IF @ < stamp[r] THEN stamp[r] ELSE @]
          /\ UNCHANGED <<key, using>>
      BY <2>3 DEF CommitUse, Goto
    <3>2. k \in Keys /\ stamp[r] \in Nat /\ lastUsed[k] \in Nat
      BY <2>0, GatewayAssumption DEF StoreTyped, RequestTyped, GatewayAssumption
    <3>3. r \notin serving /\ serving' = serving \cup {r}
      BY <2>0, <3>1 DEF RequestTyped
    <3>4. /\ lastUsed' = [lastUsed EXCEPT ![k] = lastUsed'[k]]
          /\ lastUsed[k] <= lastUsed'[k]
      <4> DEFINE v == IF lastUsed[k] < stamp[r] THEN stamp[r] ELSE lastUsed[k]
      <4>1. lastUsed' = [lastUsed EXCEPT ![k] = v] /\ lastUsed[k] <= v
        BY <3>1, <3>2
      <4> HIDE DEF v
      <4>2. lastUsed'[k] = v
        BY <2>0, <3>2, <4>1 DEF StoreTyped
      <4> QED
        BY <4>1, <4>2
    <3>5. k \in enabled /\ enabled' = enabled
      BY <3>1, <3>2
    <3>6. Auth!Authenticate(r)
      BY <3>1, <3>3, <3>4, <3>5 DEF Auth!Authenticate
    <3> QED
      BY <3>6 DEF Auth!Next
  <2>4. ASSUME NEW r \in Requests, Forward(r) PROVE Auth!Next
    <3>1. serving' = serving \ {r} /\ UNCHANGED <<key, lastUsed, using>>
      BY <2>0, <2>4 DEF Forward, Goto, RequestTyped, store
    <3> QED
      BY <3>1 DEF Auth!Next, Auth!Leave
  <2>5. ASSUME NEW k \in Keys, Create(k) \/ Delete(k) \/ \E e \in BOOLEAN : SetEnabled(k, e) PROVE Auth!Next
    <3>1. UNCHANGED <<lastUsed, using, pc>>
      BY <2>5 DEF Create, Delete, SetEnabled, request
    <3> QED
      BY <3>1 DEF Auth!Next, Auth!Administer
  <2>6. ASSUME NEW r \in Requests, Refuse(r) \/ Lookup(r) \/ Derive(r) \/ CommitRefused(r) PROVE UNCHANGED Auth!vars
    <3>1. UNCHANGED <<key, lastUsed, using>> /\ pc[r] # "forward"
      BY <2>6 DEF Refuse, Lookup, Derive, CommitRefused, Goto, store
    <3> QED
      BY <2>1, <2>6, <3>1 DEF Refuse, Lookup, Derive, CommitRefused, Goto
  <2>7. ASSUME NEW r \in Requests, Record(r) \/ BeginRecord(r) \/ AuditStep(r) PROVE UNCHANGED Auth!vars
    <3>1. UNCHANGED <<key, lastUsed, using>> /\ pc[r] # "forward"
      BY <2>7 DEF Record, BeginRecord, AuditStep, ReadTime, Insert, InsertFails, FinishRecord, Release, Goto, store
    <3> QED
      BY <2>1, <2>7, <3>1
         DEF Record, BeginRecord, AuditStep, ReadTime, Insert, InsertFails, FinishRecord, Release, Goto
  <2>8. CASE Tick \/ CloseServer \/ WaitRecords \/ WaitDrained \/ WaitTimesOut \/ UNCHANGED vars
    BY <2>2, <2>8 DEF Tick, CloseServer, WaitRecords, WaitDrained, WaitTimesOut, vars, store, request
  <2> QED
    BY <1>2, <2>3, <2>4, <2>5, <2>6, <2>7, <2>8 DEF Next, HandlerStep
<1> QED
  BY <1>1, <1>2, Inductive, PTL DEF Spec, AuthenticationSpec, Auth!Spec
=============================================================================
