----------------------------- MODULE StartupProofs -----------------------------
(* Proofs about Startup for every set of services, every build and any number *)
(* of starts.                                                                 *)
EXTENDS Startup, TLAPS

-----------------------------------------------------------------------------
(* The inductive invariant *)

\* A text is that of a token only if a start wrote it.
Written(t) == t.n \in 0 .. starts /\ (t.text # "empty" => t.n # 0)

\* What is in the data directory.
DiskSound == Written(file) /\ MigratedOnce

\* The token a service goes on with, and the start that it is.
TokenSound(s) ==
    /\ Written(token[s]) /\ me[s] \in 0 .. starts
    /\ pc[s] \in Starting => me[s] # 0
    /\ pc[s] \in {"secure", "made", "close", "history", "migrate", "purge"} \cup Opened
          => token[s].text \in {"long", "whole"}

\* The migrations it found or applied are recorded, and then stay so.
SchemaSound(s) ==
    /\ pc[s] = "migrate" => seen[s] < Known[s] /\ 1 .. seen[s] \subseteq version[on[s]]
    /\ pc[s] \in {"purge"} \cup Opened => 1 .. Known[s] \subseteq version[on[s]]
    /\ pc[s] \in Opened => ~sensitive[on[s]]

ServiceSound(s) == TokenSound(s) /\ SchemaSound(s)

IInv == TypeOK /\ DiskSound /\ \A s \in Services : ServiceSound(s)

-----------------------------------------------------------------------------
(* The builds *)

\* There is a newest build.
LEMMA NewestKnows == Newest \in Nat \ {0} /\ \A s \in Services : Known[s] \in 1 .. Newest
<1>1. \E v \in {Known[s] : s \in Services} : \A s \in Services : Known[s] <= v
  BY StartupAssumption DEF StartupAssumption
<1>2. Newest \in {Known[s] : s \in Services} /\ \A s \in Services : Known[s] <= Newest
  BY <1>1 DEF Newest
<1> QED
  BY <1>2, StartupAssumption DEF StartupAssumption

\* A version that follows a prefix that is recorded, and is not itself, makes the
\* next prefix.
LEMMA NextPrefix ==
    ASSUME NEW V, NEW n \in Nat, V = 1 .. n, NEW k \in Nat, 1 .. k \subseteq V, k + 1 \notin V
    PROVE  n = k /\ V \cup {k + 1} = 1 .. (n + 1)
<1>1. k <= n
  OBVIOUS
<1>2. k + 1 > n
  OBVIOUS
<1>3. n = k
  BY <1>1, <1>2
<1> QED
  BY <1>3

\* There being no file is like an empty one that no start made.
LEMMA NoFileFits == NoFile \in TokenType /\ NoFile.n = 0 /\ NoFile.text = "empty"
BY StartupAssumption DEF NoFile, TokenType, Text, StartupAssumption

-----------------------------------------------------------------------------
(* The steps of one service *)

\* What a service's step may change of the disk: the token file, to one that is sound,
\* a database's prefix of versions, which grows, and the purge; what another service
\* relies on it leaves.
DiskKeeps ==
    /\ starts <= starts'
    /\ \A d \in Files : version[d] \subseteq version'[d] /\ (sensitive'[d] => sensitive[d])

\* A step of another service leaves one as it was.
SameService(o) ==
    /\ pc'[o] = pc[o] /\ me'[o] = me[o] /\ tries'[o] = tries[o] /\ token'[o] = token[o]
    /\ on'[o] = on[o] /\ seen'[o] = seen[o]

\* What a service relies on is kept by the steps of another.
LEMMA UnaffectedService ==
    ASSUME NEW o \in Services, TypeOK, TypeOK', ServiceSound(o), DiskKeeps, SameService(o)
    PROVE  ServiceSound(o)'
<1>1. starts \in Nat /\ starts' \in Nat
  BY StartupAssumption DEF TypeOK, StartupAssumption
<1>2. TokenSound(o)'
  BY <1>1 DEF ServiceSound, TokenSound, Written, SameService, DiskKeeps, Starting, Opened
<1>3. SchemaSound(o)'
  <2>1. version[on[o]] \subseteq version'[on[o]] /\ (sensitive'[on[o]] => sensitive[on[o]])
    BY DEF DiskKeeps, TypeOK
  <2> QED
    BY <2>1 DEF ServiceSound, SchemaSound, SameService, Opened
<1> QED
  BY <1>2, <1>3 DEF ServiceSound

\* What each action of a service is shown to keep.
Keeps(s) ==
    /\ TypeOK' /\ DiskSound' /\ ServiceSound(s)'
    /\ DiskKeeps
    /\ \A o \in Services \ {s} : SameService(o)

\* It is enough to show a step sound for the service that takes it.
LEMMA KeepsIInv == ASSUME NEW s \in Services, IInv, Keeps(s) PROVE IInv'
<1>1. \A o \in Services \ {s} : ServiceSound(o)'
  BY UnaffectedService DEF IInv, Keeps
<1> QED
  BY <1>1 DEF IInv, Keeps

\* The version 1 .. n recorded and each applied once: that is so as long as neither
\* changes, and so is what the token file holds.
LEMMA DiskStays == DiskSound /\ UNCHANGED <<disk, starts>> => DiskSound'
BY DEF DiskSound, Written, MigratedOnce, Prefix, disk

\* A service that only moves keeps all that does not depend on where it is.
LEMMA Moves ==
    ASSUME NEW s \in Services, IInv, NEW to \in {"refused", "off", "up"} \cup Starting,
           pc' = [pc EXCEPT ![s] = to], UNCHANGED <<disk, starts, process>>
    PROVE  /\ TypeOK' /\ DiskSound' /\ DiskKeeps /\ \A o \in Services \ {s} : SameService(o)
           /\ pc'[s] = to
<1> USE DEF disk, process
<1>1. TypeOK'
  BY DEF IInv, TypeOK
<1>2. DiskSound'
  BY DiskStays DEF IInv
<1>3. DiskKeeps
  BY StartupAssumption DEF DiskKeeps, IInv, TypeOK, StartupAssumption
<1>4. pc'[s] = to /\ \A o \in Services \ {s} : SameService(o)
  BY DEF SameService, IInv, TypeOK
<1> QED
  BY <1>1, <1>2, <1>3, <1>4

\* To the end, or to a place that asks for no more than the one before.
LEMMA MovesOn ==
    ASSUME NEW s \in Services, IInv, NEW to,
           \/ to \in {"refused", "off"}
           \/ pc[s] = "secure" /\ to \in {"history", "made"}
           \/ pc[s] = "close" /\ to = "history"
           \/ pc[s] = "listen" /\ to = "up"
           \/ pc[s] = "check" /\ to = "secure" /\ token[s].text \in {"long", "whole"},
           pc' = [pc EXCEPT ![s] = to], UNCHANGED <<disk, starts, process>>
    PROVE  Keeps(s)
<1>0. to \in {"refused", "off", "up"} \cup Starting
  BY DEF Starting
<1>1. /\ TypeOK' /\ DiskSound' /\ DiskKeeps /\ \A o \in Services \ {s} : SameService(o)
      /\ pc'[s] = to
  BY <1>0, Moves
<1>2. TokenSound(s)'
  BY <1>1 DEF IInv, ServiceSound, TokenSound, Written, process, Starting, Opened
<1>3. SchemaSound(s)'
  BY <1>1 DEF IInv, ServiceSound, SchemaSound, process, disk, Opened
<1> QED
  BY <1>1, <1>2, <1>3 DEF Keeps, ServiceSound

\* The actions that read or wait change nothing on the disk.
LEMMA MovingActions ==
    ASSUME NEW s \in Services, IInv, Check(s) \/ Secure(s) \/ CloseDatabase(s) \/ OpenFails(s) \/ Listen(s) \/ End(s)
    PROVE  Keeps(s)
<1>1. CASE Check(s)
  BY <1>1, MovesOn DEF Check
<1>2. CASE Secure(s)
  BY <1>2, MovesOn DEF Secure, Goto
<1>3. CASE OpenFails(s)
  BY <1>3, MovesOn DEF OpenFails
<1>4. CASE Listen(s)
  BY <1>4, MovesOn DEF Listen, Goto
<1>5. CASE End(s)
  BY <1>5, MovesOn DEF End
<1>6. CASE CloseDatabase(s)
  BY <1>6, MovesOn DEF CloseDatabase, Goto
<1> QED
  BY <1>1, <1>2, <1>3, <1>4, <1>5, <1>6

\* A step that keeps the schema and moves within the handling of the token.
LEMMA TokenMoves ==
    ASSUME NEW s \in Services, IInv, UNCHANGED <<db, version, applied, sensitive, on, seen>>,
           starts \in Nat, starts <= starts', TypeOK', Written(file)',
           pc'[s] \notin {"migrate", "purge"} \cup Opened, TokenSound(s)',
           \A o \in Services \ {s} : SameService(o)
    PROVE  Keeps(s)
<1>1. DiskSound' /\ DiskKeeps
  BY DEF IInv, DiskSound, MigratedOnce, Prefix, DiskKeeps
<1>2. SchemaSound(s)'
  BY DEF SchemaSound
<1> QED
  BY <1>1, <1>2 DEF Keeps, ServiceSound

\* Starts are counted.
LEMMA Bounds == IInv => starts \in Nat /\ MaxStarts \in Nat
BY StartupAssumption DEF IInv, TypeOK, StartupAssumption

\* A start has a number of its own.
LEMMA BeginKeeps == ASSUME NEW s \in Services, IInv, Begin(s) PROVE Keeps(s)
<1>1. starts \in Nat /\ MaxStarts \in Nat /\ starts' = starts + 1 /\ starts' <= MaxStarts
  BY Bounds DEF Begin
<1>2. pc'[s] = "read" /\ me'[s] = starts' /\ token'[s] = NoFile
  BY DEF Begin, IInv, TypeOK
<1>3. TypeOK'
  <2>1. NoFile \in TokenType /\ 0 \in 0 .. Newest /\ 0 \in Files
    BY <1>1, NewestKnows, NoFileFits DEF Files
  <2> QED
    BY <1>1, <2>1 DEF Begin, IInv, TypeOK, disk, Starting
<1>4. Written(file)'
  BY <1>1 DEF Begin, disk, IInv, DiskSound, Written
<1>5. TokenSound(s)'
  BY <1>1, <1>2 DEF TokenSound, Written, NoFile, Opened
<1>6. \A o \in Services \ {s} : SameService(o)
  BY DEF Begin, SameService, IInv, TypeOK
<1>7. SchemaSound(s)'
  BY <1>2 DEF SchemaSound, Opened
<1>8. DiskSound' /\ DiskKeeps
  BY <1>1, <1>4 DEF Begin, disk, IInv, DiskSound, MigratedOnce, Prefix, DiskKeeps
<1> QED
  BY <1>3, <1>5, <1>6, <1>7, <1>8 DEF Keeps, ServiceSound

\* What is read of the token file is what is in it.
LEMMA ReadKeeps == ASSUME NEW s \in Services, IInv, Read(s) PROVE Keeps(s)
<1>1. pc'[s] \in {"create", "check"} /\ token'[s] = file /\ pc[s] = "read"
  BY DEF Read, IInv, TypeOK
<1>2. TypeOK'
  BY DEF Read, IInv, TypeOK, disk, Starting
<1>3. Written(file)'
  BY DEF Read, disk, IInv, DiskSound, Written
<1>4. TokenSound(s)'
  BY <1>1, <1>3 DEF Read, disk, IInv, DiskSound, ServiceSound, TokenSound, Written, Starting, Opened
<1>5. \A o \in Services \ {s} : SameService(o)
  BY DEF Read, SameService, IInv, TypeOK
<1> QED
  BY <1>1, <1>2, <1>3, <1>4, <1>5, Bounds, TokenMoves DEF Read, disk, Opened

\* The file is created empty, and exclusively.
LEMMA CreateKeeps == ASSUME NEW s \in Services, IInv, Create(s) PROVE Keeps(s)
<1>1. pc'[s] \in {"write", "read", "refused"} /\ pc[s] = "create" /\ UNCHANGED <<token, me>>
  BY DEF Create, Goto, IInv, TypeOK
<1>2. me[s] \in 1 .. starts
  BY <1>1, Bounds DEF IInv, ServiceSound, TokenSound, Starting
<1>3. file' \in TokenType /\ Written(file)'
  <2>1. file' = file \/ file' = [n |-> me[s], text |-> "empty"]
    BY DEF Create
  <2>2. me[s] \in 0 .. MaxStarts /\ me[s] \in 0 .. starts /\ starts' = starts
    BY <1>2 DEF Create, IInv, TypeOK
  <2>3. file \in TokenType /\ file.n \in 0 .. starts /\ (file.text # "empty" => file.n # 0)
    BY DEF IInv, TypeOK, DiskSound, Written
  <2>4. CASE file' = file
    BY <2>2, <2>3, <2>4 DEF Written
  <2>5. CASE file' = [n |-> me[s], text |-> "empty"]
    BY <2>2, <2>5 DEF Written, TokenType, Text
  <2> QED
    BY <2>1, <2>4, <2>5
<1>4. TypeOK'
  <2>1. pc' \in [Services -> {"off", "refused", "up"} \cup Starting]
    BY DEF Create, Goto, IInv, TypeOK, Starting
  <2>2. tries' \in [Services -> 0 .. 1]
    <3>1. tries' = tries \/ tries' = [tries EXCEPT ![s] = 1]
      BY DEF Create
    <3>2. tries \in [Services -> 0 .. 1] /\ 1 \in 0 .. 1
      BY DEF IInv, TypeOK
    <3> QED
      BY <3>1, <3>2
  <2> QED
    BY <1>3, <2>1, <2>2 DEF Create, IInv, TypeOK
<1>5. TokenSound(s)'
  BY <1>1, <1>2 DEF Create, IInv, ServiceSound, TokenSound, Written, Starting, Opened
<1>6. \A o \in Services \ {s} : SameService(o)
  BY DEF Create, Goto, SameService, IInv, TypeOK
<1> QED
  BY <1>1, <1>3, <1>4, <1>5, <1>6, Bounds, TokenMoves DEF Create, Opened

\* The file that was created gets more of the token of its start.
LEMMA Fills ==
    ASSUME NEW s \in Services, IInv, pc[s] = "write", UNCHANGED starts, NEW x \in Text,
           file' = file \/ (file.n = me[s] /\ file' = [file EXCEPT !.text = x])
    PROVE  me[s] \in 1 .. starts /\ file' \in TokenType /\ Written(file)'
<1>1. me[s] \in 1 .. starts
  BY Bounds DEF IInv, ServiceSound, TokenSound, Starting
<1>2. file \in TokenType /\ file.n \in 0 .. starts /\ (file.text # "empty" => file.n # 0)
  BY DEF IInv, TypeOK, DiskSound, Written
<1>3. CASE file' = file
  BY <1>1, <1>2, <1>3 DEF Written
<1>4. CASE file.n = me[s] /\ file' = [file EXCEPT !.text = x]
  <2>1. file'.n = me[s] /\ file' \in TokenType
    BY <1>2, <1>4 DEF TokenType
  <2>2. me[s] \in 0 .. starts' /\ me[s] # 0
    BY <1>1, Bounds
  <2> QED
    BY <1>1, <2>1, <2>2 DEF Written
<1> QED
  BY <1>3, <1>4

\* A part of it ...
LEMMA WriteSomeKeeps == ASSUME NEW s \in Services, IInv, WriteSome(s) PROVE Keeps(s)
<1>1. pc[s] = "write" /\ UNCHANGED <<db, version, applied, sensitive, starts, pc, me, tries, token, on, seen>>
  BY DEF WriteSome, process
<1>2. \E x \in Text : file.n = me[s] /\ file' = [file EXCEPT !.text = x]
  BY DEF WriteSome, Text
<1>3. file' \in TokenType /\ Written(file)'
  BY <1>1, <1>2, Fills
<1>4. TypeOK'
  BY <1>1, <1>3 DEF IInv, TypeOK
<1>5. TokenSound(s)'
  BY <1>1 DEF IInv, ServiceSound, TokenSound, Written
<1>6. \A o \in Services \ {s} : SameService(o)
  BY <1>1 DEF SameService
<1> QED
  BY <1>1, <1>3, <1>4, <1>5, <1>6, Bounds, TokenMoves DEF Opened

\* ... and all of it.
LEMMA WriteKeeps == ASSUME NEW s \in Services, IInv, Write(s) PROVE Keeps(s)
<1>1. /\ pc'[s] = "sync" /\ pc[s] = "write" /\ pc' = [pc EXCEPT ![s] = "sync"]
      /\ UNCHANGED <<db, version, applied, sensitive, starts, me, tries, token, on, seen>>
  BY DEF Write, Goto, process, IInv, TypeOK
<1>2. file' = file \/ (file.n = me[s] /\ file' = [file EXCEPT !.text = "whole"])
  BY DEF Write
<1>3. file' \in TokenType /\ Written(file)' /\ me[s] \in 1 .. starts
  BY <1>1, <1>2, Fills DEF Text
<1>4. TypeOK'
  BY <1>1, <1>3 DEF IInv, TypeOK, Starting
<1>5. TokenSound(s)'
  BY <1>1, <1>3 DEF IInv, ServiceSound, TokenSound, Written, Starting, Opened
<1>6. \A o \in Services \ {s} : SameService(o)
  BY <1>1 DEF SameService, IInv, TypeOK
<1> QED
  BY <1>1, <1>3, <1>4, <1>5, <1>6, Bounds, TokenMoves DEF Opened

\* A start that made the file goes on with the token it wrote.
LEMMA SyncKeeps == ASSUME NEW s \in Services, IInv, Sync(s) PROVE Keeps(s)
<1>1. /\ pc'[s] = "secure" /\ pc[s] = "sync" /\ UNCHANGED <<disk, starts, me>>
      /\ token'[s] = [n |-> me[s], text |-> "whole"]
  BY DEF Sync, Goto, IInv, TypeOK
<1>2. me[s] \in 1 .. starts /\ me[s] \in 1 .. MaxStarts
  BY <1>1, Bounds DEF IInv, TypeOK, ServiceSound, TokenSound, Starting
<1>3. Written(file)'
  BY <1>1 DEF disk, IInv, DiskSound, Written
<1>4. TypeOK'
  <2>1. [n |-> me[s], text |-> "whole"] \in TokenType
    BY <1>2, Bounds DEF TokenType, Text
  <2> QED
    BY <1>1, <2>1 DEF Sync, Goto, IInv, TypeOK, Starting, disk
<1>5. TokenSound(s)'
  BY <1>1, <1>2, Bounds DEF TokenSound, Written, Starting, Opened
<1>6. \A o \in Services \ {s} : SameService(o)
  BY DEF Sync, Goto, SameService, IInv, TypeOK
<1> QED
  BY <1>1, <1>3, <1>4, <1>5, <1>6, Bounds, TokenMoves DEF Sync, Opened, disk

\* A start whose write failed removes a file and stops.
LEMMA UnmakeKeeps == ASSUME NEW s \in Services, IInv, Unmake(s) PROVE Keeps(s)
<1>1. pc'[s] = "refused" /\ file' = NoFile /\ UNCHANGED <<starts, process>>
  BY DEF Unmake, IInv, TypeOK
<1>2. NoFile \in TokenType /\ Written(file)'
  BY <1>1, Bounds, NoFileFits DEF Written
<1>3. TypeOK'
  BY <1>1, <1>2 DEF Unmake, IInv, TypeOK, Starting, process
<1>4. TokenSound(s)'
  BY <1>1 DEF IInv, ServiceSound, TokenSound, Written, Starting, Opened, process
<1>5. \A o \in Services \ {s} : SameService(o)
  BY DEF Unmake, SameService, IInv, TypeOK, process
<1> QED
  BY <1>1, <1>2, <1>3, <1>4, <1>5, Bounds, TokenMoves DEF Unmake, Opened, process

-----------------------------------------------------------------------------
(* The steps on the database *)

\* A step that leaves the token file, the starts and what the service knows of them.
LEMMA SchemaMoves ==
    ASSUME NEW s \in Services, IInv, UNCHANGED <<file, starts, me, tries, token>>,
           TypeOK', MigratedOnce',
           \A d \in Files : version[d] \subseteq version'[d] /\ (sensitive'[d] => sensitive[d]),
           pc[s] \in {"made", "close", "history", "migrate", "purge"}, pc'[s] \in Starting \cup {"refused"},
           SchemaSound(s)',
           \A o \in Services \ {s} : SameService(o)
    PROVE  Keeps(s)
<1>1. DiskSound' /\ DiskKeeps
  BY Bounds DEF IInv, DiskSound, Written, DiskKeeps
<1>2. TokenSound(s)'
  BY DEF IInv, ServiceSound, TokenSound, Written, Starting, Opened
<1> QED
  BY <1>1, <1>2 DEF Keeps, ServiceSound

\* A database file is made, or one that could not be closed removed.
LEMMA MakeDatabaseKeeps ==
    ASSUME NEW s \in Services, IInv, MakeDatabase(s) \/ CloseFails(s) PROVE Keeps(s)
<1>1. /\ pc[s] \in {"made", "close"} /\ pc'[s] \in {"refused", "close"}
      /\ \E to \in {"refused", "close"} : pc' = [pc EXCEPT ![s] = to]
      /\ UNCHANGED <<file, version, applied, sensitive, starts, me, tries, token, on, seen>>
  BY DEF MakeDatabase, CloseFails, Goto, process, IInv, TypeOK
<1>2. db' \in Files
  BY Bounds DEF MakeDatabase, CloseFails, IInv, TypeOK, Files
<1>3. TypeOK'
  BY <1>1, <1>2 DEF IInv, TypeOK, Starting
<1>4. MigratedOnce'
  BY <1>1 DEF IInv, DiskSound, MigratedOnce, Prefix
<1>5. SchemaSound(s)'
  BY <1>1 DEF SchemaSound, Opened
<1>6. \A o \in Services \ {s} : SameService(o)
  BY <1>1 DEF SameService, IInv, TypeOK
<1> QED
  BY <1>1, <1>3, <1>4, <1>5, <1>6, SchemaMoves DEF Starting

\* The history is a prefix of the versions, and none that this build lacks.
LEMMA HistoryKeeps == ASSUME NEW s \in Services, IInv, History(s) PROVE Keeps(s)
<1>1. /\ pc[s] = "history" /\ db' = Opens(s) /\ on' = [on EXCEPT ![s] = Opens(s)]
      /\ UNCHANGED <<file, version, applied, sensitive, starts, me, tries, token>>
  BY DEF History
<1>2. Opens(s) \in Files /\ on'[s] = Opens(s)
  BY <1>1 DEF Opens, IInv, TypeOK, Files
<1>3. MigratedOnce'
  BY <1>1 DEF IInv, DiskSound, MigratedOnce, Prefix
<1>4. on' \in [Services -> Files] /\ \A o \in Services \ {s} : on'[o] = on[o]
  BY <1>1, <1>2 DEF IInv, TypeOK
<1>5. ASSUME NEW n \in 0 .. Newest, seen' = [seen EXCEPT ![s] = n] \/ seen' = seen,
             NEW to \in {"purge", "migrate", "refused"}, pc' = [pc EXCEPT ![s] = to],
             SchemaSound(s)'
      PROVE  Keeps(s)
  <2>1. TypeOK'
    <3>1. pc' \in [Services -> {"off", "refused", "up"} \cup Starting]
      BY <1>5 DEF IInv, TypeOK, Starting
    <3>2. seen' \in [Services -> 0 .. Newest]
      BY <1>5 DEF IInv, TypeOK
    <3> QED
      BY <1>1, <1>2, <1>4, <3>1, <3>2 DEF IInv, TypeOK
  <2>2. pc'[s] = to
    BY <1>5 DEF IInv, TypeOK
  <2>3. \A o \in Services \ {s} : SameService(o)
    BY <1>1, <1>4, <1>5 DEF SameService, IInv, TypeOK
  <2> QED
    BY <1>1, <1>3, <1>5, <2>1, <2>2, <2>3, SchemaMoves DEF Starting
<1>6. CASE \E n \in 0 .. Known[s] :
             /\ Prefix(Opens(s), n)
             /\ seen' = [seen EXCEPT ![s] = n]
             /\ pc' = [pc EXCEPT ![s] = IF n = Known[s] THEN "purge" ELSE "migrate"]
  <2>1. PICK n \in 0 .. Known[s] :
             /\ Prefix(Opens(s), n)
             /\ seen' = [seen EXCEPT ![s] = n]
             /\ pc' = [pc EXCEPT ![s] = IF n = Known[s] THEN "purge" ELSE "migrate"]
    BY <1>6
  <2>2. Known[s] \in 1 .. Newest /\ Newest \in Nat /\ n \in 0 .. Newest
    BY NewestKnows
  <2>3. /\ pc'[s] \in {"purge", "migrate"} /\ seen'[s] = n
        /\ pc'[s] = "purge" => n = Known[s]
        /\ pc'[s] = "migrate" => n < Known[s]
    BY <2>1, <2>2 DEF IInv, TypeOK
  <2>4. version'[on'[s]] = 1 .. n
    BY <1>1, <1>2, <2>1 DEF Prefix
  <2>5. SchemaSound(s)'
    BY <2>3, <2>4 DEF SchemaSound, Opened
  <2> QED
    BY <1>5, <2>1, <2>2, <2>5
<1>7. CASE pc' = [pc EXCEPT ![s] = "refused"] /\ UNCHANGED seen
  <2>1. pc'[s] = "refused" /\ 0 \in 0 .. Newest
    BY <1>7, NewestKnows DEF IInv, TypeOK
  <2>2. SchemaSound(s)'
    BY <2>1 DEF SchemaSound, Opened
  <2> QED
    BY <1>5, <1>7, <2>1, <2>2
<1> QED
  BY <1>6, <1>7 DEF History

\* What a migration changes in one database.
LEMMA Applied ==
    ASSUME TypeOK, NEW d \in Files, NEW v \in 1 .. Newest, applied[d][v] = 0,
           applied' = [applied EXCEPT ![d][v] = @ + 1], version' = [version EXCEPT ![d] = @ \cup {v}]
    PROVE  /\ version' \in [Files -> SUBSET (1 .. Newest)]
           /\ applied' \in [Files -> [1 .. Newest -> 0 .. 1]]
           /\ version'[d] = version[d] \cup {v} /\ applied'[d][v] = 1
           /\ \A w \in (1 .. Newest) \ {v} : applied'[d][w] = applied[d][w]
           /\ \A e \in Files \ {d} : version'[e] = version[e] /\ applied'[e] = applied[e]
<1> DEFINE one == [applied[d] EXCEPT ![v] = 1]
<1>1. applied \in [Files -> [1 .. Newest -> 0 .. 1]] /\ version \in [Files -> SUBSET (1 .. Newest)]
  BY DEF TypeOK
<1>2. one \in [1 .. Newest -> 0 .. 1] /\ one[v] = 1 /\ \A w \in (1 .. Newest) \ {v} : one[w] = applied[d][w]
  <2>1. applied[d] \in [1 .. Newest -> 0 .. 1] /\ 1 \in 0 .. 1
    BY <1>1
  <2> QED
    BY <2>1
<1>3. applied' = [applied EXCEPT ![d] = one]
  BY <1>1
<1> HIDE DEF one
<1> QED
  BY <1>1, <1>2, <1>3

\* The next migration takes effect once, and what is recorded remains a prefix.
LEMMA MigrateKeeps == ASSUME NEW s \in Services, IInv, Migrate(s) PROVE Keeps(s)
<1>0. PICK v, d : v = seen[s] + 1 /\ d = on[s]
  OBVIOUS
<1>1. /\ pc[s] = "migrate" /\ v \notin version[d]
      /\ applied' = [applied EXCEPT ![d][v] = @ + 1] /\ version' = [version EXCEPT ![d] = @ \cup {v}]
      /\ seen' = [seen EXCEPT ![s] = v]
      /\ pc' = [pc EXCEPT ![s] = IF v = Known[s] THEN "purge" ELSE "migrate"]
      /\ UNCHANGED <<file, db, sensitive, starts, me, tries, token, on>>
  BY <1>0 DEF Migrate, Apply
<1>2. Known[s] \in 1 .. Newest /\ Newest \in Nat /\ seen[s] \in Nat /\ d \in Files
  BY <1>0, NewestKnows DEF IInv, TypeOK
<1>3. seen[s] < Known[s] /\ 1 .. seen[s] \subseteq version[d]
  BY <1>0, <1>1 DEF IInv, ServiceSound, SchemaSound
<1>4. v \in 1 .. Newest /\ v \in 1 .. Known[s] /\ v \in Nat
  BY <1>0, <1>2, <1>3
<1>5. PICK n \in 0 .. Newest : version[d] = 1 .. n
  BY <1>2 DEF IInv, DiskSound, MigratedOnce, Prefix
<1>6. version[d] \cup {v} = 1 .. v
  <2>1. n \in Nat /\ seen[s] + 1 \notin version[d]
    BY <1>0, <1>1, <1>2
  <2>2. n = seen[s] /\ version[d] \cup {seen[s] + 1} = 1 .. (n + 1)
    BY <1>2, <1>3, <1>5, <2>1, NextPrefix
  <2> QED
    BY <1>0, <2>2
<1>7. applied[d][v] = 0
  BY <1>1, <1>2, <1>4 DEF IInv, DiskSound, MigratedOnce
<1>8. /\ version' \in [Files -> SUBSET (1 .. Newest)] /\ applied' \in [Files -> [1 .. Newest -> 0 .. 1]]
      /\ version'[d] = 1 .. v /\ applied'[d][v] = 1
      /\ \A w \in (1 .. Newest) \ {v} : applied'[d][w] = applied[d][w]
      /\ \A e \in Files \ {d} : version'[e] = version[e] /\ applied'[e] = applied[e]
  BY <1>1, <1>2, <1>4, <1>6, <1>7, Applied DEF IInv
<1>9. \A e \in Files : version[e] \subseteq version'[e]
  BY <1>6, <1>8
<1>10. MigratedOnce'
  <2>1. \A w \in 1 .. Newest : applied'[d][w] = IF w \in version'[d] THEN 1 ELSE 0
    <3>1. \A w \in (1 .. Newest) \ {v} : w \in version'[d] <=> w \in version[d]
      BY <1>6, <1>8
    <3>2. v \in version'[d]
      BY <1>6, <1>8
    <3> QED
      BY <1>2, <1>8, <3>1, <3>2 DEF IInv, DiskSound, MigratedOnce
  <2>2. v \in 0 .. Newest
    BY <1>4
  <2>3. Prefix(d, v)'
    BY <1>8 DEF Prefix
  <2>4. ASSUME NEW e \in Files \ {d}
        PROVE  /\ \E k \in 0 .. Newest : Prefix(e, k)'
               /\ \A w \in 1 .. Newest : applied'[e][w] = IF w \in version'[e] THEN 1 ELSE 0
    BY <1>8 DEF IInv, DiskSound, MigratedOnce, Prefix
  <2> QED
    BY <2>1, <2>2, <2>3, <2>4 DEF MigratedOnce
<1>11. TypeOK'
  <2>1. pc' \in [Services -> {"off", "refused", "up"} \cup Starting]
    BY <1>1 DEF IInv, TypeOK, Starting
  <2>2. seen' \in [Services -> 0 .. Newest]
    BY <1>1, <1>4 DEF IInv, TypeOK
  <2> QED
    BY <1>1, <1>8, <2>1, <2>2 DEF IInv, TypeOK
<1>12. /\ pc'[s] \in {"purge", "migrate"} /\ seen'[s] = v /\ on'[s] = d
       /\ pc'[s] = "purge" => v = Known[s]
       /\ pc'[s] = "migrate" => v # Known[s]
  BY <1>0, <1>1 DEF IInv, TypeOK
<1>13. SchemaSound(s)'
  <2>1. pc'[s] = "migrate" => v < Known[s]
    BY <1>2, <1>4, <1>12
  <2> QED
    BY <1>8, <1>12, <2>1 DEF SchemaSound, Opened
<1>14. \A o \in Services \ {s} : SameService(o)
  BY <1>1 DEF SameService, IInv, TypeOK
<1> QED
  BY <1>1, <1>9, <1>10, <1>11, <1>12, <1>13, <1>14, SchemaMoves DEF Starting

\* The settings are purged once all versions are recorded.
LEMMA PurgeKeeps == ASSUME NEW s \in Services, IInv, Purge(s) PROVE Keeps(s)
<1>1. /\ pc[s] = "purge" /\ pc'[s] = "listen" /\ pc' = [pc EXCEPT ![s] = "listen"]
      /\ sensitive' = [sensitive EXCEPT ![on[s]] = FALSE]
      /\ UNCHANGED <<file, db, version, applied, starts, me, tries, token, on, seen>>
  BY DEF Purge, Goto, process, IInv, TypeOK
<1>2. /\ sensitive' \in [Files -> BOOLEAN] /\ on[s] \in Files /\ ~sensitive'[on[s]]
      /\ \A d \in Files : sensitive'[d] => sensitive[d]
  BY <1>1 DEF IInv, TypeOK
<1>3. TypeOK'
  BY <1>1, <1>2 DEF IInv, TypeOK, Starting
<1>4. MigratedOnce'
  BY <1>1 DEF IInv, DiskSound, MigratedOnce, Prefix
<1>5. SchemaSound(s)'
  BY <1>1, <1>2 DEF SchemaSound, Opened, IInv, ServiceSound
<1>6. \A o \in Services \ {s} : SameService(o)
  BY <1>1 DEF SameService, IInv, TypeOK
<1> QED
  BY <1>1, <1>2, <1>3, <1>4, <1>5, <1>6, SchemaMoves DEF Starting

-----------------------------------------------------------------------------
(* The rest of the world *)

\* Nobody that is up or starting is disturbed: there is nobody.
LEMMA RestKeeps == ASSUME IInv, RemoveToken \/ WriteSetting PROVE IInv'
<1>1. /\ UNCHANGED <<db, version, applied, starts, pc, process>>
      /\ Idle /\ (file' = file \/ file' = NoFile) /\ sensitive' \in [Files -> BOOLEAN]
  BY DEF RemoveToken, WriteSetting, IInv, TypeOK
<1>2. file' \in TokenType /\ Written(file)'
  <2>1. starts' = starts /\ starts \in Nat
    BY <1>1, Bounds
  <2>2. Written(file) /\ Written(NoFile) /\ file \in TokenType
    BY <2>1, NoFileFits DEF IInv, TypeOK, DiskSound, Written
  <2> QED
    BY <1>1, <2>1, <2>2, NoFileFits DEF Written
<1>3. TypeOK'
  BY <1>1, <1>2 DEF IInv, TypeOK, process
<1>4. DiskSound'
  BY <1>1, <1>2 DEF IInv, DiskSound, MigratedOnce, Prefix
<1>5. \A s \in Services : ServiceSound(s)'
  <2> TAKE s \in Services
  <2>1. pc[s] \in {"off", "refused"}
    BY <1>1 DEF Idle
  <2> QED
    BY <1>1, <2>1 DEF IInv, ServiceSound, TokenSound, Written, SchemaSound, Starting, Opened, process
<1> QED
  BY <1>3, <1>4, <1>5 DEF IInv

\* No service has started on the data directory.
LEMMA InitIInv == Init => IInv
<1> SUFFICES ASSUME Init PROVE IInv
  OBVIOUS
<1>1. MaxStarts \in Nat /\ Newest \in Nat
  BY StartupAssumption, NewestKnows DEF StartupAssumption
<1>2. TypeOK
  <2>1. file \in TokenType
    BY NoFileFits DEF Init
  <2>2. token \in [Services -> TokenType]
    BY NoFileFits DEF Init
  <2>3. pc \in [Services -> {"off", "refused", "up"} \cup Starting]
    BY DEF Init
  <2>4. starts \in 0 .. MaxStarts /\ me \in [Services -> 0 .. MaxStarts] /\ seen \in [Services -> 0 .. Newest]
    BY <1>1 DEF Init
  <2>5. /\ db \in Files /\ sensitive \in [Files -> BOOLEAN] /\ version \in [Files -> SUBSET (1 .. Newest)]
        /\ on \in [Services -> Files]
    BY <1>1 DEF Init, Files
  <2>6. applied \in [Files -> [1 .. Newest -> 0 .. 1]] /\ tries \in [Services -> 0 .. 1]
    BY DEF Init
  <2> QED
    BY <2>1, <2>2, <2>3, <2>4, <2>5, <2>6 DEF TypeOK
<1>3. DiskSound
  <2>1. \A d \in Files : Prefix(d, 0)
    BY DEF Init, Prefix
  <2> QED
    BY <1>1, <2>1 DEF Init, DiskSound, Written, MigratedOnce, NoFile
<1>4. \A s \in Services : ServiceSound(s)
  <2> TAKE s \in Services
  <2>1. pc[s] = "off" /\ token[s] = NoFile /\ me[s] = 0 /\ starts = 0
    BY DEF Init
  <2>2. TokenSound(s)
    BY <2>1, NoFileFits DEF TokenSound, Written, Starting, Opened
  <2>3. SchemaSound(s)
    BY <2>1 DEF SchemaSound, Opened
  <2> QED
    BY <2>2, <2>3 DEF ServiceSound
<1> QED
  BY <1>2, <1>3, <1>4 DEF IInv

\* A stuttering step keeps everything.
LEMMA StutterKeeps == IInv /\ UNCHANGED vars => IInv'
<1> SUFFICES ASSUME IInv, UNCHANGED vars PROVE IInv'
  OBVIOUS
<1>1. TypeOK'
  BY DEF IInv, TypeOK, vars, disk, process
<1>2. DiskSound'
  BY DiskStays DEF IInv, vars
<1>3. \A s \in Services : ServiceSound(s)'
  BY DEF IInv, ServiceSound, TokenSound, Written, SchemaSound, vars, disk, process
<1> QED
  BY <1>1, <1>2, <1>3 DEF IInv

-----------------------------------------------------------------------------
(* The theorems *)

\* The inductive invariant, for any services of any builds and any number of starts:
\* what a database records is a prefix whatever a service found before another went on,
\* and the text of a token is one that a start wrote (store.go:130-163, config.go:282-318).
THEOREM Inductive == Spec => []IInv
<1>1. IInv /\ [Next]_vars => IInv'
  <2>1. ASSUME IInv, NEW s \in Services, Begin(s) \/ Step(s) \/ End(s) PROVE Keeps(s)
    BY <2>1, BeginKeeps, ReadKeeps, CreateKeeps, WriteSomeKeeps, WriteKeeps, SyncKeeps, UnmakeKeeps,
       MakeDatabaseKeeps, HistoryKeeps, MigrateKeeps, PurgeKeeps, MovingActions DEF Step
  <2>2. ASSUME IInv, Next PROVE IInv'
    BY <2>1, <2>2, KeepsIInv, RestKeeps DEF Next
  <2> QED
    BY <2>2, StutterKeeps
<1> QED
  BY <1>1, InitIInv, PTL DEF Spec

\* Every variable keeps its type.
THEOREM TypeCorrect == Spec => []TypeOK
<1>1. IInv => TypeOK
  BY DEF IInv
<1> QED
  BY <1>1, Inductive, PTL

\* Whatever services of whatever builds start side by side and die, the recorded
\* versions of a database are a prefix and each took effect exactly once, also where a
\* file was made, and removed again, beside them (store.go:46-56, 130-163).
THEOREM MigratedOnceHolds == Spec => []MigratedOnce
<1>1. IInv => MigratedOnce
  BY DEF IInv, DiskSound
<1> QED
  BY <1>1, Inductive, PTL

\* A service that opened the database has the whole schema its build knows and no
\* sensitive setting, whatever another service does beside it (store.go:164-169).
THEOREM OpenedIsCleanHolds == Spec => []OpenedIsClean
<1>1. IInv => OpenedIsClean
  BY DEF IInv, ServiceSound, SchemaSound, OpenedIsClean
<1> QED
  BY <1>1, Inductive, PTL

\* A service goes on with no less than 32 bytes of a token that a start wrote, whatever
\* part of it was in the file when it was read; that it has all of it is not so
\* (config.go:282-318).
THEOREM TokenIsLongEnoughHolds == Spec => []TokenIsLongEnough
<1>1. IInv => TokenIsLongEnough
  BY Bounds DEF IInv, ServiceSound, TokenSound, Written, TokenIsLongEnough
<1> QED
  BY <1>1, Inductive, PTL
=============================================================================
