---------------------------- MODULE RegistryProofs ----------------------------
(* Proofs about Registry for every set of ids, directories, files and clients *)
(* and every way in which directories contain each other.                     *)
EXTENDS Registry, TLAPS

-----------------------------------------------------------------------------
(* The inductive invariant *)

\* A registered row and its directory: a download's is its own, and no two rows share one.
RowSound(i) ==
    /\ row[i].kind \in {"none", "gone"} => row[i].path = NoPath
    /\ row[i].kind = "huggingface" => row[i].path \in {NoPath, i}
    /\ row[i].kind = "local" => row[i].path \in Paths
    /\ \A k \in Ids : row[i].path # NoPath /\ row[k].path = row[i].path => k = i

\* An attempt has its claim, and its process an attempt.
JobSound(i) ==
    /\ job[i] => Restorable(i)
    /\ cli[i].at # "idle" => phase = "up" /\ job[i]
    /\ cli[i].at = "exited" => cli[i].left = {}

\* What a process wrote stays, unless another row took the directory, which it then
\* keeps for as long as the attempt is active; and what was published stays.
FilesSound(i) ==
    /\ cli[i].at # "idle" /\ ~Owned(i) => Files \ cli[i].left \subseteq content[i]
    /\ row[i].kind = "huggingface" /\ row[i].status = "ready"
          => content[i] = Files \/ stage[i][i] = Files

\* A stage holds what was at its row's path and below, as long as there is the row.
StageSound(i) ==
    /\ \A p \in Paths : Registered(i) /\ stage[i][p] # {} =>
          row[i].path # NoPath /\ p \in {row[i].path} \cup Under[row[i].path]
    /\ row[i].kind = "none" => stage[i] = NoStage

\* How far the holder of the lock is, and what its transaction's snapshot is worth.
HolderSound ==
    op # NoOp =>
        /\ phase = "up"
        /\ op.step # "purge" =>
              /\ Registered(op.id)
              /\ op.path = row[op.id].path \/ (op.path = NoPath /\ row[op.id].kind = "huggingface")
        /\ op.step = "purge" => row[op.id].kind = "gone"
        /\ op.step = "rename" => op.path # NoPath /\ stage[op.id] = NoStage
        /\ op.step \in {"rename", "commit"} /\ ~op.old =>
              ~job[op.id] /\ (row[op.id].path \in Ids => ~job[row[op.id].path])

IInv ==
    /\ TypeOK /\ HolderSound
    /\ \A i \in Ids : RowSound(i) /\ JobSound(i) /\ FilesSound(i) /\ StageSound(i)

-----------------------------------------------------------------------------
(* Types *)

RowType    == [kind : {"none", "gone", "huggingface", "local"},
               status : {"none", "registered", "downloading", "ready", "canceled", "error"},
               path : Paths \cup {NoPath}]
HolderType == [step : {"check", "rename", "commit", "restore", "purge"}, id : Ids,
               files : BOOLEAN, path : Paths \cup {NoPath}, old : BOOLEAN]
CliType    == [at : {"idle", "running", "exited"}, left : SUBSET Files]

RowsTyped ==
    /\ row \in [Ids -> RowType]
    /\ \A i \in Ids : (row[i].path # NoPath) <=> (row[i].status = "ready")

OthersTyped ==
    /\ job \in [Ids -> BOOLEAN]
    /\ content \in [Paths -> SUBSET Files]
    /\ stage \in [Ids -> [Paths -> SUBSET Files]]
    /\ phase \in {"down", "starting", "refused", "up"}
    /\ op \in {NoOp} \cup HolderType
    /\ client \in [Clients -> [path : Paths \cup {NoPath}, todo : SUBSET Paths]]
    /\ cli \in [Ids -> CliType]

\* The type invariant by rows and the rest.
LEMMA TypeParts ==
    /\ TypeOK => RowsTyped /\ OthersTyped
    /\ RowsTyped /\ OthersTyped => TypeOK
BY DEF TypeOK, RowsTyped, OthersTyped, RowType, HolderType, CliType

\* The same of the next state.
LEMMA TypePartsNext == RowsTyped' /\ OthersTyped' => TypeOK'
BY DEF TypeOK, RowsTyped, OthersTyped, RowType, HolderType, CliType

\* NoOp is no operation, and a directory is none.
LEMMA NoOpDiffers == \A o \in HolderType : o # NoOp
<1>1. \A o \in HolderType : o.step # "none"
  BY DEF HolderType
<1>2. NoOp.step = "none"
  BY DEF NoOp
<1> QED
  BY <1>1, <1>2

\* Ids and other directories are apart, and no directory is the absent one.
LEMMA Apart == NoPath \notin Paths /\ NoPath \notin Ids /\ Ids \subseteq Paths /\ \A p \in Paths : Under[p] \subseteq Locals
               /\ Ids \cap Locals = {}
BY RegistryAssumption DEF RegistryAssumption, Paths

\* Whoever holds the lock is a deletion of a running service.
LEMMA Holding == IInv /\ op # NoOp => op \in HolderType /\ phase = "up"
BY DEF IInv, TypeOK, HolderType, HolderSound

\* The holder of the lock goes to another step, or keeps its step while its snapshot
\* becomes old.
LEMMA GoesOn ==
    ASSUME op \in HolderType, NEW s \in {"check", "rename", "commit", "restore", "purge"}, Goto(s)
    PROVE  /\ op' \in HolderType /\ op' # NoOp
           /\ op'.id = op.id /\ op'.path = op.path /\ op'.step = s /\ op'.files = op.files
           /\ op'.old <=> op.old
<1>1. /\ op' \in HolderType /\ op'.id = op.id /\ op'.path = op.path /\ op'.step = s /\ op'.files = op.files
      /\ op'.old <=> op.old
  BY DEF Goto, HolderType
<1> QED
  BY <1>1, NoOpDiffers

\* A commit makes the snapshot of the holder of the lock old.
LEMMA GetsOld ==
    ASSUME IInv, Commit
    PROVE  \/ op = NoOp /\ op' = NoOp
           \/ /\ op \in HolderType /\ op' \in HolderType /\ op # NoOp /\ op' # NoOp /\ op'.old
              /\ op'.id = op.id /\ op'.path = op.path /\ op'.step = op.step
<1>1. CASE op = NoOp
  BY <1>1 DEF Commit
<1>2. CASE op # NoOp
  <2>1. op \in HolderType /\ op' = [op EXCEPT !.old = TRUE]
    BY <1>2, Holding DEF Commit
  <2>2. op' \in HolderType /\ op'.old /\ op'.id = op.id /\ op'.path = op.path /\ op'.step = op.step
    BY <2>1 DEF HolderType
  <2> QED
    BY <1>2, <2>1, <2>2, NoOpDiffers
<1> QED
  BY <1>1, <1>2

\* The status of one row changes.
RowsBut(i) == row' \in [Ids -> RowType] /\ \A k \in Ids \ {i} : row'[k] = row[k]

\* Kind and path of that row and all other rows stay.
LEMMA StatusChanges ==
    ASSUME RowsTyped, NEW i \in Ids,
           NEW s \in {"none", "registered", "downloading", "ready", "canceled", "error"},
           row' = [row EXCEPT ![i].status = s]
    PROVE  RowsBut(i) /\ row'[i].status = s /\ row'[i].kind = row[i].kind /\ row'[i].path = row[i].path
<1>1. row'[i] = [row[i] EXCEPT !.status = s] /\ \A k \in Ids \ {i} : row'[k] = row[k]
  BY DEF RowsTyped
<1>2. row'[i] \in RowType /\ row'[i].status = s /\ row'[i].kind = row[i].kind /\ row'[i].path = row[i].path
  BY <1>1 DEF RowsTyped, RowType
<1>3. row' \in [Ids -> RowType]
  BY <1>1, <1>2 DEF RowsTyped
<1> QED
  BY <1>1, <1>2, <1>3 DEF RowsBut

\* A row with another path.
LEMMA PathChanges ==
    ASSUME NEW r \in RowType, NEW p \in Paths, NEW s, s = [r EXCEPT !.path = p]
    PROVE  s \in RowType /\ s.status = r.status /\ s.kind = r.kind /\ s.path = p
BY DEF RowType

\* The row gets the path of its own directory, and all other rows stay.
LEMMA Published ==
    ASSUME RowsTyped, NEW i \in Ids, row' = [row EXCEPT ![i].status = "ready", ![i].path = i]
    PROVE  RowsBut(i) /\ row'[i].status = "ready" /\ row'[i].kind = row[i].kind /\ row'[i].path = i
<1> DEFINE ready == [row[i] EXCEPT !.status = "ready"]
<1>1. ready \in RowType /\ ready.status = "ready" /\ ready.kind = row[i].kind
  BY DEF RowsTyped, RowType
<1>0. row'[i] = [ready EXCEPT !.path = i] /\ \A k \in Ids \ {i} : row'[k] = row[k]
  BY DEF RowsTyped
<1> HIDE DEF ready
<1>5. i \in Paths
  BY Apart
<1>2. row'[i] \in RowType /\ row'[i].status = "ready" /\ row'[i].kind = row[i].kind /\ row'[i].path = i
  BY <1>0, <1>1, <1>5, PathChanges
<1>3. row' \in [Ids -> RowType]
  BY <1>0, <1>2 DEF RowsTyped
<1> QED
  BY <1>0, <1>2, <1>3 DEF RowsBut

-----------------------------------------------------------------------------
(* Frames *)

RowsSound  == \A i \in Ids : RowSound(i)
JobsSound  == \A i \in Ids : JobSound(i)
KeptFiles  == \A i \in Ids : FilesSound(i)
StagesSound == \A i \in Ids : StageSound(i)

\* The conjuncts of the invariant.
LEMMA Conjuncts ==
    /\ IInv => RowsTyped /\ OthersTyped /\ HolderSound /\ RowsSound /\ JobsSound /\ KeptFiles /\ StagesSound
    /\ RowsTyped' /\ OthersTyped' /\ HolderSound' /\ RowsSound' /\ JobsSound' /\ KeptFiles' /\ StagesSound' => IInv'
<1>1. TypeOK => RowsTyped /\ OthersTyped
  BY TypeParts
<1>2. IInv => RowsTyped /\ OthersTyped /\ HolderSound /\ RowsSound /\ JobsSound /\ KeptFiles /\ StagesSound
  BY <1>1 DEF IInv, RowsSound, JobsSound, KeptFiles, StagesSound
<1>3. RowsTyped' /\ OthersTyped' /\ HolderSound' /\ RowsSound' /\ JobsSound' /\ KeptFiles' /\ StagesSound' => IInv'
  BY TypePartsNext DEF IInv, RowsSound, JobsSound, KeptFiles, StagesSound
<1> QED
  BY <1>2, <1>3

\* As long as kinds and paths stay, rows stay sound and directories owned.
SamePaths == \A k \in Ids : row'[k].kind = row[k].kind /\ row'[k].path = row[k].path

\* So do the stages, unless they change themselves.
LEMMA SamePathsFrame ==
    ASSUME IInv, SamePaths
    PROVE  /\ RowsSound'
           /\ \A p \in Paths : Owned(p)' <=> Owned(p)
           /\ \A k \in Ids : Registered(k)' <=> Registered(k)
           /\ UNCHANGED stage => StagesSound'
<1>1. RowsSound'
  BY DEF IInv, RowsSound, RowSound, SamePaths
<1>2. \A p \in Paths : Owned(p)' <=> Owned(p)
  BY DEF Owned, SamePaths
<1>3. \A k \in Ids : Registered(k)' <=> Registered(k)
  BY DEF Registered, SamePaths
<1>4. UNCHANGED stage => StagesSound'
  BY <1>3 DEF IInv, StagesSound, StageSound, SamePaths
<1> QED
  BY <1>1, <1>2, <1>3, <1>4

\* As long as neither rows, downloads, processes nor files change, their invariants stay.
LEMMA SameRows ==
    ASSUME IInv, UNCHANGED <<db, cli>>, phase' = phase \/ \A i \in Ids : cli[i].at = "idle"
    PROVE  RowsTyped' /\ RowsSound' /\ JobsSound' /\ (UNCHANGED tree => KeptFiles' /\ StagesSound')
<1> USE DEF db, tree
<1>1. RowsTyped'
  BY Conjuncts DEF RowsTyped
<1>2. RowsSound'
  BY DEF IInv, RowsSound, RowSound
<1>3. JobsSound'
  BY DEF IInv, JobsSound, JobSound, Restorable
<1>4. UNCHANGED tree => KeptFiles' /\ StagesSound'
  BY DEF IInv, KeptFiles, FilesSound, StagesSound, StageSound, Owned, Registered
<1> QED
  BY <1>1, <1>2, <1>3, <1>4

\* What the holder of the lock relies on.
LEMMA HolderFrame ==
    ASSUME IInv, UNCHANGED <<op, phase, stage, job>>, SamePaths
    PROVE  HolderSound'
<1>1. CASE op = NoOp
  BY <1>1 DEF HolderSound
<1>2. CASE op # NoOp
  <2>1. op.id \in Ids
    BY <1>2, Holding DEF HolderType
  <2> QED
    BY <2>1 DEF IInv, HolderSound, Registered, SamePaths
<1> QED
  BY <1>1, <1>2

-----------------------------------------------------------------------------
(* Registration and scan *)

\* A client resolves a directory or lists the root.
LEMMA ClientSteps ==
    ASSUME IInv, client' \in [Clients -> [path : Paths \cup {NoPath}, todo : SUBSET Paths]],
           UNCHANGED <<db, tree, phase, op, cli>>
    PROVE  IInv'
<1>1. RowsTyped' /\ RowsSound' /\ JobsSound' /\ KeptFiles' /\ StagesSound'
  BY SameRows
<1>2. OthersTyped'
  BY Conjuncts DEF OthersTyped, db, tree
<1>3. SamePaths
  BY DEF SamePaths, db
<1>4. HolderSound'
  BY <1>3, HolderFrame DEF db, tree
<1> QED
  BY <1>1, <1>2, <1>4, Conjuncts

\* The clients' steps change no row and no directory.
LEMMA ClientKeeps ==
    ASSUME IInv, NEW c \in Clients,
           Scan(c) \/ \E p \in Paths : RegisterLocal(c, p) \/ ScanNext(c, p)
    PROVE  IInv'
<1> DEFINE ClientType == [path : Paths \cup {NoPath}, todo : SUBSET Paths]
<1>1. client \in [Clients -> ClientType]
  BY Conjuncts DEF OthersTyped
<1>2. CASE Scan(c)
  <2> DEFINE found == {p \in Paths : There(p) /\ \A q \in Paths : p \notin Under[q]}
  <2>1. client' = [client EXCEPT ![c].todo = found] /\ found \in SUBSET Paths
    BY <1>2 DEF Scan
  <2> HIDE DEF found
  <2>2. client' \in [Clients -> ClientType]
    BY <1>1, <2>1
  <2> QED
    BY <1>2, <2>2, ClientSteps DEF Scan
<1>3. ASSUME NEW p \in Paths, RegisterLocal(c, p) PROVE IInv'
  <2>1. client' \in [Clients -> ClientType]
    BY <1>1, <1>3 DEF RegisterLocal
  <2> QED
    BY <1>3, <2>1, ClientSteps DEF RegisterLocal
<1>4. ASSUME NEW p \in Paths, ScanNext(c, p) PROVE IInv'
  <2> DEFINE path == IF There(p) /\ ~Owned(p) THEN p ELSE NoPath
  <2>1. client' = [client EXCEPT ![c] = [path |-> path, todo |-> client[c].todo \ {p}]]
        /\ path \in Paths \cup {NoPath}
    BY <1>4 DEF ScanNext
  <2> HIDE DEF path
  <2>2. client' \in [Clients -> ClientType]
    BY <1>1, <2>1
  <2> QED
    BY <1>4, <2>2, ClientSteps DEF ScanNext
<1> QED
  BY <1>2, <1>3, <1>4

\* A row appears where there was none: for a model to be downloaded, or for a directory
\* that no other row refers to.
LEMMA Appears ==
    ASSUME IInv, NEW i \in Ids, row[i] = NoRow, NEW r \in RowType, row' = [row EXCEPT ![i] = r],
           \/ r.kind = "huggingface" /\ r.status = "registered" /\ r.path = NoPath
           \/ r.kind = "local" /\ r.status = "ready" /\ r.path \in Paths /\ ~Owned(r.path),
           client' \in [Clients -> [path : Paths \cup {NoPath}, todo : SUBSET Paths]],
           op = NoOp, UNCHANGED <<job, tree, phase, op, cli>>
    PROVE  IInv'
<1> USE DEF tree
<1>1. row'[i] = r /\ row' \in [Ids -> RowType] /\ \A k \in Ids \ {i} : row'[k] = row[k]
  BY Conjuncts DEF RowsTyped
<1>2. row[i].kind = "none" /\ row[i].status = "none" /\ row[i].path = NoPath
  BY DEF NoRow
<1>3. RowsTyped' /\ OthersTyped' /\ HolderSound'
  BY <1>1, Conjuncts, Apart DEF RowsTyped, OthersTyped, HolderSound
<1>4. RowsSound'
  <2>1. \A k \in Ids \ {i} : row'[i].path # NoPath => row'[k].path # row'[i].path
    BY <1>1 DEF Owned
  <2> QED
    BY <1>1, <2>1, Conjuncts DEF RowsSound, RowSound
<1>5. ~job[i] /\ JobsSound'
  BY <1>1, <1>2, Conjuncts DEF JobsSound, JobSound, Restorable
<1>6. \A p \in Paths : Owned(p) => Owned(p)'
  BY <1>1, <1>2, Apart DEF Owned
<1>7. KeptFiles'
  BY <1>1, <1>6, Conjuncts, Apart DEF KeptFiles, FilesSound
<1>8. StagesSound'
  <2>1. stage[i] = NoStage
    BY <1>2, Conjuncts DEF StagesSound, StageSound
  <2>2. \A p \in Paths : stage[i][p] = {}
    BY <2>1 DEF NoStage
  <2>3. StageSound(i)'
    BY <1>1, <2>1, <2>2 DEF StageSound, NoStage
  <2>4. \A k \in Ids \ {i} : StageSound(k)'
    BY <1>1, Conjuncts DEF StagesSound, StageSound, Registered, NoStage
  <2> QED
    BY <2>3, <2>4 DEF StagesSound
<1> QED
  BY <1>3, <1>4, <1>5, <1>7, <1>8, Conjuncts

\* A model to be downloaded has no path, so it shares none.
LEMMA RegisterHuggingFaceKeeps == ASSUME IInv, NEW i \in Ids, RegisterHuggingFace(i) PROVE IInv'
<1> DEFINE r == [kind |-> "huggingface", status |-> "registered", path |-> NoPath]
<1>1. r \in RowType /\ r.kind = "huggingface" /\ r.status = "registered" /\ r.path = NoPath
  BY DEF RowType
<1>2. row' = [row EXCEPT ![i] = r]
  BY DEF RegisterHuggingFace
<1>3. client' \in [Clients -> [path : Paths \cup {NoPath}, todo : SUBSET Paths]]
  BY Conjuncts DEF OthersTyped, RegisterHuggingFace
<1> HIDE DEF r
<1> QED
  BY <1>1, <1>2, <1>3, Appears DEF RegisterHuggingFace

\* A local model is added at a path that no row has.
LEMMA AddKeeps == ASSUME IInv, NEW c \in Clients, Add(c) PROVE IInv'
<1>1. client \in [Clients -> [path : Paths \cup {NoPath}, todo : SUBSET Paths]]
  BY Conjuncts DEF OthersTyped
<1>2. CASE Owned(client[c].path)
  <2>1. client' = [client EXCEPT ![c] = NoClient] /\ UNCHANGED <<db, tree, phase, op, cli>>
    BY <1>2 DEF Add, db
  <2>2. client' \in [Clients -> [path : Paths \cup {NoPath}, todo : SUBSET Paths]]
    BY <1>1, <2>1 DEF NoClient
  <2> QED
    BY <2>1, <2>2, ClientSteps
<1>3. CASE ~Owned(client[c].path)
  <2> DEFINE r == [kind |-> "local", status |-> "ready", path |-> client[c].path]
  <2>1. PICK i \in Ids : row[i] = NoRow /\ row' = [row EXCEPT ![i] = r]
    BY <1>3 DEF Add
  <2>2. client[c].path \in Paths
    BY <1>1 DEF Add
  <2>3. r \in RowType /\ r.kind = "local" /\ r.status = "ready" /\ r.path = client[c].path
    BY <2>2 DEF RowType
  <2>4. client' = [client EXCEPT ![c].path = NoPath]
    BY <1>3 DEF Add
  <2>5. client' \in [Clients -> [path : Paths \cup {NoPath}, todo : SUBSET Paths]]
    BY <1>1, <2>4
  <2> HIDE DEF r
  <2> QED
    BY <1>3, <2>1, <2>2, <2>3, <2>5, Appears DEF Add
<1> QED
  BY <1>2, <1>3

-----------------------------------------------------------------------------
(* Downloads *)

\* The attempt's process starts, goes on or ends.
CliBut(i) == cli' \in [Ids -> CliType] /\ \A k \in Ids \ {i} : cli'[k] = cli[k]

\* The process of one attempt is replaced.
LEMMA CliSet ==
    ASSUME IInv, NEW i \in Ids, NEW a \in CliType, cli' = [cli EXCEPT ![i] = a]
    PROVE  CliBut(i) /\ cli'[i] = a
BY Conjuncts DEF OthersTyped, CliBut

\* The process of one attempt ends.
LEMMA Ends ==
    ASSUME IInv, NEW i \in Ids, Ended(i)
    PROVE  CliBut(i) /\ cli'[i].at = "idle"
<1>1. NoCli \in CliType /\ NoCli.at = "idle"
  BY DEF NoCli, CliType
<1> QED
  BY <1>1, CliSet DEF Ended

\* An attempt has a model of the right kind without a path.
LEMMA Attempt ==
    ASSUME IInv, NEW i \in Ids, cli[i].at # "idle"
    PROVE  /\ job[i] /\ phase = "up"
           /\ row[i].kind = "huggingface" /\ row[i].status = "downloading" /\ row[i].path = NoPath
BY Conjuncts DEF JobsSound, JobSound, Restorable

\* The claim is taken or given up: the row keeps its kind and its path, which is none,
\* and every snapshot is old.
LEMMA ClaimChanges ==
    ASSUME IInv, NEW i \in Ids, row[i].path = NoPath,
           NEW s \in {"downloading", "canceled", "error"}, row' = [row EXCEPT ![i].status = s],
           NEW b \in BOOLEAN, job' = [job EXCEPT ![i] = b], Commit, CliBut(i),
           b => row[i].kind = "huggingface" /\ s = "downloading" /\ phase = "up",
           cli'[i].at # "idle" => b /\ cli'[i].at = "running" /\ cli'[i].left = Files,
           UNCHANGED <<tree, phase, client>>
    PROVE  IInv'
<1> USE DEF tree
<1>1. RowsBut(i) /\ row'[i].status = s /\ row'[i].kind = row[i].kind /\ row'[i].path = NoPath
  BY StatusChanges, Conjuncts
<1>2. job' \in [Ids -> BOOLEAN] /\ (job'[i] <=> b) /\ \A k \in Ids \ {i} : job'[k] = job[k]
  BY Conjuncts DEF OthersTyped
<1>3. SamePaths
  BY <1>1 DEF SamePaths, RowsBut
<1>4. RowsSound' /\ StagesSound' /\ \A p \in Paths : Owned(p)' <=> Owned(p)
  BY <1>3, SamePathsFrame
<1>5. RowsTyped'
  <2>1. row[i].status # "ready"
    BY Conjuncts DEF RowsTyped
  <2> QED
    BY <1>1, Conjuncts DEF RowsTyped, RowsBut
<1>6. OthersTyped'
  <2>1. op' \in {NoOp} \cup HolderType
    BY GetsOld
  <2> QED
    BY <1>2, <2>1, Conjuncts DEF OthersTyped, CliBut
<1>7. JobsSound'
  <2>1. JobSound(i)'
    BY <1>1, <1>2 DEF JobSound, Restorable
  <2>2. \A k \in Ids \ {i} : JobSound(k)'
    BY <1>1, <1>2, Conjuncts DEF JobsSound, JobSound, Restorable, RowsBut, CliBut
  <2> QED
    BY <2>1, <2>2 DEF JobsSound
<1>8. KeptFiles'
  <2>1. FilesSound(i)'
    BY <1>1 DEF FilesSound
  <2>2. \A k \in Ids \ {i} : FilesSound(k)'
    BY <1>1, <1>4, Conjuncts, Apart DEF KeptFiles, FilesSound, RowsBut, CliBut
  <2> QED
    BY <2>1, <2>2 DEF KeptFiles
<1>9. HolderSound'
  <2>1. CASE op' = NoOp
    BY <2>1 DEF HolderSound
  <2>2. CASE op' # NoOp
    <3>1. op \in HolderType /\ op # NoOp /\ op'.old /\ op'.id = op.id /\ op'.path = op.path /\ op'.step = op.step
      BY <2>2, GetsOld
    <3>2. op.id \in Ids
      BY <3>1 DEF HolderType
    <3> QED
      BY <1>3, <3>1, <3>2, Conjuncts DEF HolderSound, SamePaths, Registered
  <2> QED
    BY <2>1, <2>2
<1> QED
  BY <1>4, <1>5, <1>6, <1>7, <1>8, <1>9, Conjuncts

\* The claim is taken with the attempt, in one transaction.
LEMMA AcceptKeeps == ASSUME IInv, NEW i \in Ids, Accept(i) PROVE IInv'
<1> DEFINE new == [at |-> "running", left |-> Files]
<1>1. new \in CliType /\ new.at = "running" /\ new.left = Files
  BY DEF CliType
<1>2. cli' = [cli EXCEPT ![i] = new]
  BY DEF Accept
<1> HIDE DEF new
<1>3. CliBut(i) /\ cli'[i] = new
  BY <1>1, <1>2, CliSet
<1>4. row[i].path = NoPath
  BY Conjuncts DEF Accept, RowsTyped
<1>5. /\ row' = [row EXCEPT ![i].status = "downloading"] /\ job' = [job EXCEPT ![i] = TRUE] /\ Commit
      /\ row[i].kind = "huggingface" /\ phase = "up" /\ UNCHANGED <<tree, phase, client>>
  BY DEF Accept
<1> QED
  BY <1>1, <1>3, <1>4, <1>5, ClaimChanges

\* The claim is given up with the attempt.
LEMMA FailKeeps == ASSUME IInv, NEW i \in Ids, Fail(i) PROVE IInv'
<1>1. PICK s \in {"canceled", "error"} : row' = [row EXCEPT ![i].status = s]
  BY DEF Fail
<1>2. CliBut(i) /\ cli'[i].at = "idle"
  BY Ends DEF Fail
<1>3. row[i].path = NoPath
  BY Attempt DEF Fail
<1>4. job' = [job EXCEPT ![i] = FALSE] /\ Commit /\ UNCHANGED <<tree, phase, client>>
  BY DEF Fail
<1> QED
  BY <1>1, <1>2, <1>3, <1>4, ClaimChanges

\* A process goes on or ends without a transaction.
LEMMA CliSteps ==
    ASSUME IInv, NEW i \in Ids, CliBut(i), UNCHANGED <<db, stage, phase, op, client>>,
           content' \in [Paths -> SUBSET Files],
           cli'[i].at # "idle" => cli[i].at # "idle", cli'[i].at = "exited" => cli'[i].left = {},
           \A k \in Ids : FilesSound(k)'
    PROVE  IInv'
<1> USE DEF db
<1>1. SamePaths
  BY DEF SamePaths
<1>2. RowsSound' /\ StagesSound'
  BY <1>1, SamePathsFrame
<1>3. RowsTyped' /\ OthersTyped'
  BY Conjuncts DEF RowsTyped, OthersTyped, CliBut
<1>4. JobsSound'
  BY Conjuncts DEF JobsSound, JobSound, Restorable, CliBut
<1>5. HolderSound'
  BY <1>1, HolderFrame
<1> QED
  BY <1>2, <1>3, <1>4, <1>5, Conjuncts DEF KeptFiles

\* A file that is written is one less to write.
LEMMA WriteKeeps == ASSUME IInv, NEW i \in Ids, NEW f \in Files, Write(i, f) PROVE IInv'
<1>1. /\ cli[i].at = "running" /\ content' = [content EXCEPT ![i] = @ \cup {f}]
      /\ cli' = [cli EXCEPT ![i].left = @ \ {f}] /\ UNCHANGED <<db, stage, phase, op, client>>
  BY DEF Write
<1>2. i \in Paths /\ content \in [Paths -> SUBSET Files] /\ cli \in [Ids -> CliType]
  BY Apart, Conjuncts DEF OthersTyped
<1>3. /\ content' \in [Paths -> SUBSET Files] /\ content'[i] = content[i] \cup {f}
      /\ \A p \in Paths \ {i} : content'[p] = content[p]
  BY <1>1, <1>2
<1>4. CliBut(i) /\ cli'[i].at = "running" /\ cli'[i].left = cli[i].left \ {f}
  <2>1. cli'[i] = [cli[i] EXCEPT !.left = cli[i].left \ {f}] /\ \A k \in Ids \ {i} : cli'[k] = cli[k]
    BY <1>1, <1>2
  <2>2. cli'[i] \in CliType /\ cli'[i].at = "running" /\ cli'[i].left = cli[i].left \ {f}
    BY <1>1, <1>2, <2>1 DEF CliType
  <2>3. cli' \in [Ids -> CliType]
    BY <1>1, <1>2, <2>1, <2>2
  <2> QED
    BY <2>1, <2>2, <2>3 DEF CliBut
<1>5. row[i].status = "downloading"
  BY <1>1, Attempt
<1>6. FilesSound(i)'
  <2>1. Owned(i)' <=> Owned(i)
    BY <1>1 DEF Owned, db
  <2>2. ~Owned(i) => Files \ cli[i].left \subseteq content[i]
    BY <1>1, Conjuncts DEF KeptFiles, FilesSound
  <2>3. row'[i].status # "ready"
    BY <1>1, <1>5 DEF db
  <2> QED
    BY <1>3, <1>4, <2>1, <2>2, <2>3 DEF FilesSound
<1>7. ASSUME NEW k \in Ids \ {i} PROVE FilesSound(k)'
  BY <1>1, <1>3, <1>4, Conjuncts, Apart DEF KeptFiles, FilesSound, CliBut, Owned, db
<1> QED
  BY <1>1, <1>3, <1>4, <1>6, <1>7, CliSteps

\* A process that has ended well has nothing left to write.
LEMMA ExitKeeps == ASSUME IInv, NEW i \in Ids, Exit(i) PROVE IInv'
<1> DEFINE new == [at |-> "exited", left |-> {}]
<1>1. /\ cli[i].at = "running" /\ cli[i].left = {} /\ cli' = [cli EXCEPT ![i] = new]
      /\ UNCHANGED <<db, tree, phase, op, client>>
  BY DEF Exit
<1>2. new \in CliType /\ new.at = "exited" /\ new.left = {}
  BY DEF CliType
<1> HIDE DEF new
<1>3. CliBut(i) /\ cli'[i] = new
  BY <1>1, <1>2, CliSet
<1>4. \A k \in Ids : FilesSound(k)'
  <2>1. FilesSound(i)'
    BY <1>1, <1>2, <1>3, Conjuncts DEF KeptFiles, FilesSound, Owned, db, tree
  <2>2. \A k \in Ids \ {i} : FilesSound(k)'
    BY <1>1, <1>3, Conjuncts DEF KeptFiles, FilesSound, Owned, CliBut, db, tree
  <2> QED
    BY <2>1, <2>2
<1>5. content' \in [Paths -> SUBSET Files] /\ UNCHANGED stage
  BY <1>1, Conjuncts DEF OthersTyped, tree
<1> QED
  BY <1>1, <1>2, <1>3, <1>4, <1>5, CliSteps

\* Without its transaction an attempt stays active, and so does its claim.
LEMMA EndUnpersistedKeeps == ASSUME IInv, NEW i \in Ids, EndUnpersisted(i) PROVE IInv'
<1>1. CliBut(i) /\ cli'[i].at = "idle" /\ UNCHANGED <<db, tree, phase, op, client>>
  BY Ends DEF EndUnpersisted
<1>2. \A k \in Ids : FilesSound(k)'
  <2>1. FilesSound(i)'
    BY <1>1, Conjuncts DEF KeptFiles, FilesSound, db, tree
  <2>2. \A k \in Ids \ {i} : FilesSound(k)'
    BY <1>1, Conjuncts DEF KeptFiles, FilesSound, Owned, CliBut, db, tree
  <2> QED
    BY <2>1, <2>2
<1>3. content' \in [Paths -> SUBSET Files] /\ UNCHANGED stage
  BY <1>1, Conjuncts DEF OthersTyped, tree
<1> QED
  BY <1>1, <1>2, <1>3, CliSteps

\* What is published is complete: nobody took the directory from under the process.
LEMMA PublishKeeps == ASSUME IInv, NEW i \in Ids, Publish(i) PROVE IInv'
<1> USE DEF tree
<1>1. /\ cli[i].at = "exited" /\ ~Owned(i) /\ row' = [row EXCEPT ![i].status = "ready", ![i].path = i]
      /\ job' = [job EXCEPT ![i] = FALSE] /\ Commit /\ UNCHANGED <<content, stage, phase, client>>
  BY DEF Publish
<1>2. /\ CliBut(i) /\ cli'[i].at = "idle"
  BY Ends DEF Publish
<1>3. RowsBut(i) /\ row'[i].status = "ready" /\ row'[i].kind = row[i].kind /\ row'[i].path = i
  BY <1>1, Published, Conjuncts
<1>4. job' \in [Ids -> BOOLEAN] /\ ~job'[i] /\ \A k \in Ids \ {i} : job'[k] = job[k]
  BY <1>1, Conjuncts DEF OthersTyped
<1>5. row[i].kind = "huggingface" /\ row[i].status = "downloading" /\ row[i].path = NoPath
  BY <1>1, Attempt
<1>6. RowsTyped' /\ OthersTyped'
  <2>1. op' \in {NoOp} \cup HolderType
    BY <1>1, GetsOld
  <2>2. OthersTyped'
    BY <1>1, <1>2, <1>4, <2>1, Conjuncts DEF OthersTyped, CliBut
  <2>3. RowsTyped'
    BY <1>3, Conjuncts, Apart DEF RowsTyped, RowsBut
  <2> QED
    BY <2>2, <2>3
<1>7. RowsSound'
  <2>1. \A k \in Ids : row[k].path # i
    BY <1>1 DEF Owned
  <2> QED
    BY <1>3, <1>5, <2>1, Conjuncts DEF RowsSound, RowSound, RowsBut
<1>8. JobsSound'
  <2>1. JobSound(i)'
    BY <1>2, <1>4 DEF JobSound
  <2>2. \A k \in Ids \ {i} : JobSound(k)'
    BY <1>1, <1>2, <1>3, <1>4, Conjuncts DEF JobsSound, JobSound, Restorable, RowsBut, CliBut
  <2> QED
    BY <2>1, <2>2 DEF JobsSound
<1>9. KeptFiles'
  <2>1. cli[i].left = {} /\ content[i] \subseteq Files /\ Files \ cli[i].left \subseteq content[i]
    BY <1>1, Conjuncts, Apart DEF JobsSound, JobSound, OthersTyped, KeptFiles, FilesSound
  <2>2. content'[i] = Files
    BY <1>1, <2>1
  <2>3. FilesSound(i)'
    BY <1>2, <2>2 DEF FilesSound
  <2>4. \A k \in Ids \ {i} : Owned(k) => Owned(k)'
    BY <1>3, <1>5, Apart DEF Owned, RowsBut
  <2>5. \A k \in Ids \ {i} : FilesSound(k)'
    BY <1>1, <1>2, <1>3, <2>4, Conjuncts DEF KeptFiles, FilesSound, RowsBut, CliBut
  <2> QED
    BY <2>3, <2>5 DEF KeptFiles
<1>10. StagesSound'
  <2>1. \A p \in Paths : stage[i][p] = {}
    BY <1>5, Conjuncts DEF StagesSound, StageSound, Registered
  <2>2. StageSound(i)'
    BY <1>1, <1>3, <1>5, <2>1 DEF StageSound
  <2>3. \A k \in Ids \ {i} : StageSound(k)'
    BY <1>1, <1>3, Conjuncts DEF StagesSound, StageSound, RowsBut, Registered
  <2> QED
    BY <2>2, <2>3 DEF StagesSound
<1>11. HolderSound'
  <2>1. CASE op' = NoOp
    BY <2>1 DEF HolderSound
  <2>2. CASE op' # NoOp
    <3>1. op \in HolderType /\ op # NoOp /\ op'.old /\ op'.id = op.id /\ op'.path = op.path /\ op'.step = op.step
      BY <1>1, <2>2, GetsOld
    <3>2. op.id \in Ids
      BY <3>1 DEF HolderType
    <3>3. \A k \in Ids : row'[k].kind = row[k].kind /\ (row'[k].path = row[k].path \/ (k = i /\ row[k].path = NoPath))
      BY <1>3, <1>5 DEF RowsBut
    <3> QED
      BY <1>1, <1>5, <3>1, <3>2, <3>3, Conjuncts DEF HolderSound, Registered
  <2> QED
    BY <2>1, <2>2
<1> QED
  BY <1>6, <1>7, <1>8, <1>9, <1>10, <1>11, Conjuncts

-----------------------------------------------------------------------------
(* Deletion *)

\* The holder of the lock goes on, and nothing else changes.
LEMMA HolderSteps ==
    ASSUME IInv, UNCHANGED <<db, tree, phase, client, cli>>, op' \in {NoOp} \cup HolderType, HolderSound'
    PROVE  IInv'
<1>1. RowsTyped' /\ RowsSound' /\ JobsSound' /\ KeptFiles' /\ StagesSound'
  BY SameRows
<1>2. OthersTyped'
  BY Conjuncts DEF OthersTyped, db, tree
<1> QED
  BY <1>1, <1>2, Conjuncts

\* The lock is given up.
LEMMA Releases ==
    ASSUME op' = NoOp
    PROVE  op' \in {NoOp} \cup HolderType /\ HolderSound'
BY DEF HolderSound

\* What a deletion that holds the lock knows.
LEMMA Holder ==
    ASSUME IInv, NEW i \in Ids, NEW s, At(i, s)
    PROVE  /\ op \in HolderType /\ op # NoOp /\ op.id = i /\ op.step = s /\ phase = "up"
           /\ s # "purge" => /\ Registered(i)
                             /\ op.path = row[i].path \/ (op.path = NoPath /\ row[i].kind = "huggingface")
           /\ s = "purge" => row[i].kind = "gone"
           /\ s = "rename" => op.path # NoPath /\ stage[i] = NoStage
           /\ s \in {"rename", "commit"} /\ ~op.old => ~job[i] /\ (row[i].path \in Ids => ~job[row[i].path])
BY Holding DEF IInv, HolderSound, At

\* The deletion reads the row under the lock.
LEMMA DeleteBeginKeeps ==
    ASSUME IInv, NEW i \in Ids, NEW files \in BOOLEAN, DeleteBegin(i, files)
    PROVE  IInv'
<1>1. /\ phase = "up" /\ Registered(i) /\ UNCHANGED <<db, tree, phase, client, cli>>
      /\ op' = [step |-> "check", id |-> i, files |-> files, path |-> row[i].path, old |-> FALSE]
  BY DEF DeleteBegin
<1>2. row[i].path \in Paths \cup {NoPath}
  BY Conjuncts DEF RowsTyped, RowType
<1>3. op' \in HolderType /\ op'.id = i /\ op'.step = "check" /\ op'.path = row[i].path
  BY <1>1, <1>2 DEF HolderType
<1>4. HolderSound'
  BY <1>1, <1>3 DEF HolderSound, Registered, db
<1> QED
  BY <1>1, <1>3, <1>4, HolderSteps

\* No download of the model or into its directory is active in the new snapshot.
LEMMA DeleteCheckKeeps == ASSUME IInv, NEW i \in Ids, DeleteCheck(i) PROVE IInv'
<1>1. At(i, "check") /\ UNCHANGED <<db, tree, phase, client, cli>>
  BY DEF DeleteCheck
<1>2. CASE op' = NoOp
  BY <1>1, <1>2, Releases, HolderSteps
<1>3. CASE op' # NoOp
  <2>1. /\ ~Downloading(i, op.path)
        /\ op.files => op.path # NoPath /\ stage[i] = NoStage
    BY <1>3 DEF DeleteCheck
  <2> DEFINE s == IF op.files THEN "rename" ELSE "commit"
  <2>2. op' = [op EXCEPT !.step = s, !.old = FALSE]
    BY <1>3 DEF DeleteCheck
  <2>3. op \in HolderType /\ op.id = i /\ Registered(i)
        /\ (op.path = row[i].path \/ (op.path = NoPath /\ row[i].kind = "huggingface"))
    BY <1>1, Holder
  <2>4. s \in {"rename", "commit"} /\ (s = "rename" => op.files)
    OBVIOUS
  <2> HIDE DEF s
  <2>5. op' \in HolderType /\ op'.id = i /\ op'.path = op.path /\ op'.step = s /\ ~op'.old
    <3> DEFINE o == [op EXCEPT !.step = s]
    <3>1. o \in HolderType /\ o.id = i /\ o.path = op.path /\ o.step = s
      BY <2>3, <2>4 DEF HolderType
    <3>2. op' = [o EXCEPT !.old = FALSE]
      BY <2>2, <2>3 DEF HolderType
    <3> HIDE DEF o
    <3> QED
      BY <3>1, <3>2 DEF HolderType
  <2>6. ~job[i] /\ (row[i].path \in Ids => ~job[row[i].path])
    <3>1. ~job[i] /\ ~(op.path \in Ids /\ job[op.path])
      BY <2>1 DEF Downloading
    <3>2. row[i].kind = "huggingface" => row[i].path \in {NoPath, i}
      BY Conjuncts DEF RowsSound, RowSound
    <3> QED
      BY <2>3, <3>1, <3>2, Apart
  <2>7. phase = "up"
    BY <1>1, Holder
  <2>8. HolderSound'
    BY <1>1, <2>1, <2>3, <2>4, <2>5, <2>6, <2>7 DEF HolderSound, Registered, db, tree
  <2> QED
    BY <1>1, <2>5, <2>8, HolderSteps
<1> QED
  BY <1>2, <1>3

\* Nothing was moved, and the lock is given back.
LEMMA DeleteRenameFailsKeeps == ASSUME IInv, NEW i \in Ids, DeleteRenameFails(i) PROVE IInv'
BY Releases, HolderSteps DEF DeleteRenameFails

\* The row stays, and the deletion goes to restore what it staged.
LEMMA DeleteFailsKeeps == ASSUME IInv, NEW i \in Ids, DeleteFails(i) PROVE IInv'
<1>1. At(i, "commit") /\ UNCHANGED <<db, tree, phase, client, cli>>
  BY DEF DeleteFails
<1>2. CASE op' = NoOp
  BY <1>1, <1>2, Releases, HolderSteps
<1>3. CASE op' # NoOp
  <2>1. Goto("restore")
    BY <1>3 DEF DeleteFails
  <2>2. /\ op \in HolderType /\ op.id = i /\ Registered(i) /\ phase = "up"
        /\ op.path = row[i].path \/ (op.path = NoPath /\ row[i].kind = "huggingface")
    BY <1>1, Holder
  <2>3. op' \in HolderType /\ op'.id = i /\ op'.path = op.path /\ op'.step = "restore"
    BY <2>1, <2>2, GoesOn
  <2>4. HolderSound'
    BY <1>1, <2>2, <2>3 DEF HolderSound, Registered, db
  <2> QED
    BY <1>1, <2>3, <2>4, HolderSteps
<1> QED
  BY <1>2, <1>3

\* Directories move, and the rows stay.
LEMMA Moves ==
    ASSUME IInv, UNCHANGED <<db, phase, client, cli>>,
           content' \in [Paths -> SUBSET Files], stage' \in [Ids -> [Paths -> SUBSET Files]],
           op' \in {NoOp} \cup HolderType, HolderSound', KeptFiles', StagesSound'
    PROVE  IInv'
<1>1. RowsTyped' /\ RowsSound' /\ JobsSound'
  BY SameRows
<1>2. OthersTyped'
  BY Conjuncts DEF OthersTyped, db
<1> QED
  BY <1>1, <1>2, Conjuncts

\* What a deletion stages is the directory of its own row: no process writes there
\* that counts on it, and no other row's download was published there.
LEMMA DeleteRenameKeeps == ASSUME IInv, NEW i \in Ids, DeleteRename(i) PROVE IInv'
<1> DEFINE moved == {op.path} \cup Under[op.path]
<1>1. /\ At(i, "rename") /\ Goto("commit") /\ UNCHANGED <<db, phase, client, cli>>
      /\ stage' = [stage EXCEPT ![i] = [p \in Paths |-> IF p \in moved THEN content[p] ELSE {}]]
      /\ content' = [p \in Paths |-> IF p \in moved THEN {} ELSE content[p]]
  BY DEF DeleteRename
<1>2. /\ op \in HolderType /\ op.id = i /\ op.step = "rename" /\ Registered(i) /\ phase = "up"
      /\ op.path = row[i].path /\ op.path # NoPath /\ stage[i] = NoStage
      /\ ~op.old => ~job[i] /\ (row[i].path \in Ids => ~job[row[i].path])
  BY <1>1, Holder
<1>3. op.path \in Paths /\ \A k \in Ids : k \in moved => k = op.path
  BY <1>2, Apart DEF HolderType
<1>4. content \in [Paths -> SUBSET Files] /\ stage \in [Ids -> [Paths -> SUBSET Files]]
  BY Conjuncts DEF OthersTyped
<1> HIDE DEF moved
<1>5. content' \in [Paths -> SUBSET Files] /\ \A p \in Paths : content'[p] = IF p \in moved THEN {} ELSE content[p]
  BY <1>1, <1>4
<1>6. /\ stage' \in [Ids -> [Paths -> SUBSET Files]] /\ \A k \in Ids \ {i} : stage'[k] = stage[k]
      /\ \A p \in Paths : stage'[i][p] = IF p \in moved THEN content[p] ELSE {}
  BY <1>1, <1>4
<1>7. /\ op' \in HolderType /\ op' # NoOp /\ op'.id = i /\ op'.path = op.path /\ op'.step = "commit"
      /\ op'.old <=> op.old
  BY <1>1, <1>2, GoesOn
<1>8. HolderSound'
  BY <1>1, <1>2, <1>7 DEF HolderSound, Registered, db
<1>9. ASSUME NEW k \in Ids PROVE FilesSound(k)'
  <2>1. ASSUME cli[k].at # "idle", ~Owned(k) PROVE Files \ cli[k].left \subseteq content'[k]
    <3>1. k \notin moved
      BY <1>2, <1>3, <2>1 DEF Owned
    <3> QED
      BY <1>5, <2>1, <3>1, Apart, Conjuncts DEF KeptFiles, FilesSound
  <2>2. ASSUME row[k].kind = "huggingface", row[k].status = "ready"
        PROVE  content'[k] = Files \/ stage'[k][k] = Files
    <3>1. row[k].path = k
      BY <2>2, Conjuncts DEF RowsTyped, RowsSound, RowSound
    <3>2. content[k] = Files \/ stage[k][k] = Files
      BY <2>2, Conjuncts DEF KeptFiles, FilesSound
    <3>3. k \in moved => k = i
      BY <1>2, <1>3, <3>1, Conjuncts, Apart DEF RowsSound, RowSound
    <3>4. k = i => content[k] = Files
      BY <1>2, <1>4, <3>2, Apart DEF NoStage
    <3> QED
      BY <1>5, <1>6, <3>2, <3>3, <3>4, Apart
  <2> QED
    BY <1>1, <2>1, <2>2 DEF FilesSound, Owned, db
<1>10. ASSUME NEW k \in Ids PROVE StageSound(k)'
  <2>1. CASE k = i
    BY <1>1, <1>2, <1>6, <2>1 DEF StageSound, Registered, db, moved
  <2>2. CASE k # i
    BY <1>1, <1>6, <2>2, Conjuncts DEF StagesSound, StageSound, Registered, NoStage, db
  <2> QED
    BY <2>1, <2>2
<1> QED
  BY <1>1, <1>5, <1>6, <1>7, <1>8, <1>9, <1>10, Moves DEF KeptFiles, StagesSound

\* The row goes with what it owned: the snapshot was the last one, so no download is
\* active for the model or its directory.
LEMMA DeleteCommitKeeps == ASSUME IInv, NEW i \in Ids, DeleteCommit(i) PROVE IInv'
<1> USE DEF tree
<1> DEFINE gone == [NoRow EXCEPT !.kind = "gone"]
<1>1. /\ At(i, "commit") /\ ~op.old /\ row' = [row EXCEPT ![i] = gone]
      /\ Goto("purge") \/ op' = NoOp
      /\ UNCHANGED <<job, tree, phase, client, cli>>
  BY DEF DeleteCommit
<1>2. gone \in RowType /\ gone.kind = "gone" /\ gone.status = "none" /\ gone.path = NoPath
  BY DEF RowType, NoRow
<1> HIDE DEF gone
<1>3. RowsBut(i) /\ row'[i].kind = "gone" /\ row'[i].status = "none" /\ row'[i].path = NoPath
  BY <1>1, <1>2, Conjuncts DEF RowsTyped, RowsBut
<1>4. /\ op \in HolderType /\ op.id = i /\ phase = "up" /\ Registered(i)
      /\ ~job[i] /\ (row[i].path \in Ids => ~job[row[i].path])
  BY <1>1, Holder
<1>5. op' \in {NoOp} \cup HolderType /\ HolderSound'
  <2>1. CASE op' = NoOp
    BY <2>1, Releases
  <2>2. CASE Goto("purge")
    <3>1. op' \in HolderType /\ op'.id = i /\ op'.step = "purge"
      BY <1>4, <2>2, GoesOn
    <3> QED
      BY <1>1, <1>3, <1>4, <3>1 DEF HolderSound
  <2> QED
    BY <1>1, <2>1, <2>2
<1>6. RowsTyped' /\ OthersTyped'
  BY <1>1, <1>3, <1>5, Conjuncts DEF RowsTyped, OthersTyped, RowsBut
<1>7. RowsSound'
  BY <1>3, Conjuncts DEF RowsSound, RowSound, RowsBut
<1>8. JobsSound'
  <2>1. JobSound(i)'
    BY <1>1, <1>4, Conjuncts DEF JobsSound, JobSound
  <2>2. \A k \in Ids \ {i} : JobSound(k)'
    BY <1>1, <1>3, Conjuncts DEF JobsSound, JobSound, Restorable, RowsBut
  <2> QED
    BY <2>1, <2>2 DEF JobsSound
<1>9. ASSUME NEW k \in Ids PROVE FilesSound(k)'
  <2>1. ASSUME cli[k].at # "idle", ~Owned(k)' PROVE ~Owned(k)
    <3>1. job[k]
      BY <2>1, Attempt
    <3>2. row[i].path # k
      BY <1>4, <3>1
    <3> QED
      BY <1>3, <2>1, <3>2 DEF Owned, RowsBut
  <2>2. row'[k].kind = "huggingface" => row'[k] = row[k]
    BY <1>3 DEF RowsBut
  <2> QED
    BY <1>1, <2>1, <2>2, Conjuncts DEF KeptFiles, FilesSound
<1>10. StagesSound'
  <2>1. StageSound(i)'
    BY <1>3 DEF StageSound, Registered
  <2>2. \A k \in Ids \ {i} : StageSound(k)'
    BY <1>1, <1>3, Conjuncts DEF StagesSound, StageSound, RowsBut, Registered, NoStage
  <2> QED
    BY <2>1, <2>2 DEF StagesSound
<1> QED
  BY <1>5, <1>6, <1>7, <1>8, <1>9, <1>10, Conjuncts DEF KeptFiles

\* What moves back takes no directory from a row or a process: the row's own is empty,
\* and what is below it is no download's.
LEMMA MovesBack ==
    ASSUME IInv, NEW i \in Ids, Registered(i), MoveBack(i), UNCHANGED <<db, cli>>
    PROVE  /\ content' \in [Paths -> SUBSET Files] /\ stage' \in [Ids -> [Paths -> SUBSET Files]]
           /\ KeptFiles' /\ StagesSound'
<1>1. /\ ~There(row[i].path) /\ stage' = [stage EXCEPT ![i] = NoStage]
      /\ content' = [p \in Paths |-> IF stage[i][p] # {} THEN stage[i][p] ELSE content[p]]
  BY DEF MoveBack
<1>2. content \in [Paths -> SUBSET Files] /\ stage \in [Ids -> [Paths -> SUBSET Files]]
  BY Conjuncts DEF OthersTyped
<1>3. content' \in [Paths -> SUBSET Files]
  BY <1>1, <1>2
<1>4. stage' \in [Ids -> [Paths -> SUBSET Files]] /\ stage'[i] = NoStage /\ \A k \in Ids \ {i} : stage'[k] = stage[k]
  BY <1>1, <1>2 DEF NoStage
<1>5. \A k \in Ids : content[k] \subseteq content'[k]
  <2>1. \A k \in Ids : stage[i][k] # {} => k = row[i].path
    BY Apart, Conjuncts DEF StagesSound, StageSound, RowsTyped, RowType
  <2>2. content[row[i].path] = {}
    BY <1>1 DEF There
  <2> QED
    BY <1>1, <2>1, <2>2, Apart
<1>6. ASSUME NEW k \in Ids PROVE FilesSound(k)'
  <2>1. ASSUME row[k].kind = "huggingface", row[k].status = "ready"
        PROVE  content'[k] = Files \/ stage'[k][k] = Files
    <3>1. content[k] = Files \/ stage[k][k] = Files
      BY <2>1, Conjuncts DEF KeptFiles, FilesSound
    <3>2. content'[k] \subseteq Files
      BY <1>3, Apart
    <3>3. CASE content[k] = Files
      BY <1>5, <3>2, <3>3
    <3>4. CASE stage[k][k] = Files /\ k # i
      BY <1>4, <3>4
    <3>5. CASE stage[i][i] = Files /\ k = i
      <4>1. CASE Files = {}
        BY <3>2, <3>5, <4>1
      <4>2. CASE Files # {}
        BY <1>1, <3>5, <4>2, Apart
      <4> QED
        BY <4>1, <4>2
    <3> QED
      BY <3>1, <3>3, <3>4, <3>5
  <2>2. cli[k].at # "idle" /\ ~Owned(k) => Files \ cli[k].left \subseteq content'[k]
    BY <1>5, Conjuncts DEF KeptFiles, FilesSound
  <2> QED
    BY <2>1, <2>2 DEF FilesSound, Owned, db
<1>7. ASSUME NEW k \in Ids PROVE StageSound(k)'
  <2>1. CASE k = i
    <3>1. \A p \in Paths : stage'[i][p] = {}
      BY <1>4 DEF NoStage
    <3> QED
      BY <1>4, <2>1, <3>1 DEF StageSound, NoStage
  <2>2. CASE k # i
    BY <1>4, <2>2, Conjuncts DEF StagesSound, StageSound, Registered, NoStage, db
  <2> QED
    BY <2>1, <2>2
<1> QED
  BY <1>3, <1>4, <1>6, <1>7 DEF KeptFiles, StagesSound

\* A deletion that fails restores the stage of the row that stays.
LEMMA DeleteRestoreKeeps == ASSUME IInv, NEW i \in Ids, DeleteRestore(i) PROVE IInv'
<1>1. At(i, "restore") /\ op' = NoOp /\ UNCHANGED <<db, phase, client, cli>>
  BY DEF DeleteRestore
<1>2. op' \in {NoOp} \cup HolderType /\ HolderSound' /\ Registered(i)
  BY <1>1, Releases, Holder
<1>3. CASE UNCHANGED tree
  BY <1>1, <1>2, <1>3, HolderSteps
<1>4. CASE MoveBack(i)
  BY <1>1, <1>2, <1>4, MovesBack, Moves
<1> QED
  BY <1>3, <1>4 DEF DeleteRestore

\* A stage without a row is removed.
LEMMA StageGoes ==
    ASSUME IInv, NEW i \in Ids, ~Registered(i), stage' = [stage EXCEPT ![i] = NoStage],
           UNCHANGED <<db, content, cli>>
    PROVE  stage' \in [Ids -> [Paths -> SUBSET Files]] /\ KeptFiles' /\ StagesSound'
<1>1. stage \in [Ids -> [Paths -> SUBSET Files]]
  BY Conjuncts DEF OthersTyped
<1>2. stage' \in [Ids -> [Paths -> SUBSET Files]] /\ stage'[i] = NoStage /\ \A k \in Ids \ {i} : stage'[k] = stage[k]
  BY <1>1 DEF NoStage
<1>3. \A k \in Ids : FilesSound(k)'
  BY <1>2, Conjuncts DEF KeptFiles, FilesSound, Owned, Registered, db
<1>4. \A k \in Ids : StageSound(k)'
  BY <1>2, Conjuncts DEF StagesSound, StageSound, Registered, NoStage, db
<1> QED
  BY <1>2, <1>3, <1>4 DEF KeptFiles, StagesSound

\* The stage that is purged has no row.
LEMMA DeletePurgeKeeps == ASSUME IInv, NEW i \in Ids, DeletePurge(i) PROVE IInv'
<1>1. At(i, "purge") /\ op' = NoOp /\ UNCHANGED <<db, content, phase, client, cli>>
  BY DEF DeletePurge
<1>2. op' \in {NoOp} \cup HolderType /\ HolderSound' /\ ~Registered(i)
  BY <1>1, Releases, Holder DEF Registered
<1>3. CASE UNCHANGED stage
  BY <1>1, <1>2, <1>3, HolderSteps DEF tree
<1>4. CASE stage' = [stage EXCEPT ![i] = NoStage]
  <2>1. content' \in [Paths -> SUBSET Files]
    BY <1>1, Conjuncts DEF OthersTyped
  <2> QED
    BY <1>1, <1>2, <1>4, <2>1, StageGoes, Moves
<1> QED
  BY <1>3, <1>4 DEF DeletePurge

-----------------------------------------------------------------------------
(* Crash and start *)

\* Whoever is not up has no deletion and no process.
LEMMA Stopped ==
    ASSUME IInv, phase # "up"
    PROVE  op = NoOp /\ \A i \in Ids : cli[i].at = "idle"
BY Conjuncts DEF HolderSound, JobsSound, JobSound

\* What is in memory goes, and no invariant of rows and directories depends on it.
LEMMA CrashKeeps == ASSUME IInv, Crash PROVE IInv'
<1> USE DEF db, tree
<1>1. /\ phase' = "down" /\ op' = NoOp /\ UNCHANGED <<db, tree>>
      /\ client' = [c \in Clients |-> NoClient] /\ cli' = [i \in Ids |-> NoCli]
  BY DEF Crash
<1>2. NoCli \in CliType /\ NoCli.at = "idle"
  BY DEF NoCli, CliType
<1>3. cli' \in [Ids -> CliType] /\ \A i \in Ids : cli'[i].at = "idle"
  BY <1>1, <1>2
<1>4. client' \in [Clients -> [path : Paths \cup {NoPath}, todo : SUBSET Paths]]
  BY <1>1 DEF NoClient
<1>5. SamePaths
  BY <1>1 DEF SamePaths
<1>6. RowsSound' /\ StagesSound'
  BY <1>1, <1>5, SamePathsFrame
<1>7. RowsTyped' /\ OthersTyped'
  BY <1>1, <1>3, <1>4, Conjuncts DEF RowsTyped, OthersTyped
<1>8. JobsSound'
  BY <1>1, <1>3, Conjuncts DEF JobsSound, JobSound, Restorable
<1>9. KeptFiles'
  BY <1>1, <1>3, Conjuncts DEF KeptFiles, FilesSound
<1> QED
  BY <1>1, <1>6, <1>7, <1>8, <1>9, Releases, Conjuncts

\* The start changes nothing but the phase.
LEMMA PhaseSteps ==
    ASSUME IInv, phase # "up", phase' \in {"starting", "refused"}, UNCHANGED <<db, tree, op, client, cli>>
    PROVE  IInv'
<1>1. op' = NoOp /\ \A i \in Ids : cli[i].at = "idle"
  BY Stopped
<1>2. RowsTyped' /\ RowsSound' /\ JobsSound' /\ KeptFiles' /\ StagesSound'
  BY <1>1, SameRows
<1>3. OthersTyped'
  BY Conjuncts DEF OthersTyped, db, tree
<1> QED
  BY <1>1, <1>2, <1>3, Releases, Conjuncts

\* A start begins with what is in SQLite and on disk.
LEMMA BootKeeps == ASSUME IInv, Boot PROVE IInv'
BY PhaseSteps DEF Boot

\* A refused start changes nothing.
LEMMA RefuseKeeps == ASSUME IInv, Refuse PROVE IInv'
BY PhaseSteps DEF Refuse

\* A stage goes back to its row, or goes if there is none.
LEMMA ReconcileKeeps == ASSUME IInv, NEW i \in Ids, Reconcile(i) PROVE IInv'
<1>1. phase = "starting" /\ UNCHANGED <<db, phase, op, client, cli>>
  BY DEF Reconcile
<1>2. op' = NoOp
  BY <1>1, Stopped
<1>3. op' \in {NoOp} \cup HolderType /\ HolderSound'
  BY <1>2, Releases
<1>4. CASE Registered(i)
  BY <1>1, <1>3, <1>4, MovesBack, Moves DEF Reconcile
<1>5. CASE ~Registered(i)
  <2>1. stage' = [stage EXCEPT ![i] = NoStage] /\ UNCHANGED content
    BY <1>5 DEF Reconcile
  <2>2. content' \in [Paths -> SUBSET Files]
    BY <2>1, Conjuncts DEF OthersTyped
  <2> QED
    BY <1>1, <1>3, <1>5, <2>1, <2>2, StageGoes, Moves
<1> QED
  BY <1>4, <1>5

\* The attempts that were active are canceled with their claims.
LEMMA ListenKeeps == ASSUME IInv, Listen PROVE IInv'
<1> USE DEF tree
<1>1. /\ phase = "starting" /\ phase' = "up" /\ UNCHANGED <<tree, op, client, cli>>
      /\ \A i \in Ids : job[i] => Restorable(i)
      /\ row' = [i \in Ids |-> IF job[i] THEN [row[i] EXCEPT !.status = "canceled"] ELSE row[i]]
      /\ job' = [i \in Ids |-> FALSE]
  BY DEF Listen
<1>2. op' = NoOp /\ \A i \in Ids : cli'[i].at = "idle"
  BY <1>1, Stopped
<1>3. ASSUME NEW k \in Ids
      PROVE  /\ row'[k] \in RowType /\ row'[k].kind = row[k].kind /\ row'[k].path = row[k].path
             /\ row'[k].path # NoPath <=> row'[k].status = "ready"
             /\ row'[k].status = "ready" => row[k].status = "ready"
  <2>1. row[k] \in RowType /\ (row[k].path # NoPath <=> row[k].status = "ready")
    BY Conjuncts DEF RowsTyped
  <2>2. CASE job[k]
    <3>1. row'[k] = [row[k] EXCEPT !.status = "canceled"] /\ row[k].path = NoPath
      BY <1>1, <2>2 DEF Restorable
    <3>2. /\ row'[k] \in RowType /\ row'[k].kind = row[k].kind /\ row'[k].path = row[k].path
          /\ row'[k].status = "canceled"
      BY <2>1, <3>1 DEF RowType
    <3> QED
      BY <3>1, <3>2
  <2>3. CASE ~job[k]
    BY <1>1, <2>1, <2>3
  <2> QED
    BY <2>2, <2>3
<1>4. SamePaths
  BY <1>3 DEF SamePaths
<1>5. RowsSound' /\ StagesSound'
  BY <1>1, <1>4, SamePathsFrame
<1>6. RowsTyped'
  <2>1. row' = [i \in Ids |-> row'[i]]
    BY <1>1
  <2>2. row' \in [Ids -> RowType]
    BY <1>3, <2>1
  <2> QED
    BY <1>3, <2>2 DEF RowsTyped
<1>7. OthersTyped'
  BY <1>1, Conjuncts DEF OthersTyped
<1>8. JobsSound'
  BY <1>1, <1>2 DEF JobsSound, JobSound
<1>9. KeptFiles'
  BY <1>1, <1>2, <1>3, Conjuncts DEF KeptFiles, FilesSound
<1> QED
  BY <1>2, <1>5, <1>6, <1>7, <1>8, <1>9, Releases, Conjuncts

-----------------------------------------------------------------------------
(* The theorems *)

\* No row, no stage and no process.
LEMMA InitIInv == Init => IInv
<1> SUFFICES ASSUME Init PROVE IInv
  OBVIOUS
<1>1. \A i \in Ids : row[i] = NoRow /\ ~job[i] /\ stage[i] = NoStage /\ cli[i] = NoCli
  BY DEF Init
<1>2. op = NoOp
  BY DEF Init
<1>3. TypeOK
  <2>1. row \in [Ids -> RowType] /\ \A i \in Ids : row[i].path = NoPath /\ row[i].status = "none"
    BY DEF Init, NoRow, RowType
  <2>2. RowsTyped
    BY <2>1 DEF RowsTyped
  <2>3. stage \in [Ids -> [Paths -> SUBSET Files]] /\ content \in [Paths -> SUBSET Files]
    BY DEF Init, NoStage
  <2>4. client \in [Clients -> [path : Paths \cup {NoPath}, todo : SUBSET Paths]] /\ cli \in [Ids -> CliType]
    BY DEF Init, NoClient, NoCli, CliType
  <2>5. OthersTyped
    BY <1>2, <2>3, <2>4 DEF Init, OthersTyped
  <2> QED
    BY <2>2, <2>5, TypeParts
<1>4. HolderSound
  BY <1>2 DEF HolderSound
<1>5. ASSUME NEW i \in Ids PROVE RowSound(i) /\ JobSound(i) /\ FilesSound(i) /\ StageSound(i)
  BY <1>1 DEF RowSound, JobSound, FilesSound, StageSound, NoRow, NoCli, Registered
<1> QED
  BY <1>3, <1>4, <1>5 DEF IInv

\* A stuttering step keeps everything.
LEMMA StutterKeeps == ASSUME IInv, UNCHANGED vars PROVE IInv'
<1>1. UNCHANGED <<db, tree, phase, op, client, cli>>
  BY DEF vars
<1>2. client' \in [Clients -> [path : Paths \cup {NoPath}, todo : SUBSET Paths]]
  BY <1>1, Conjuncts DEF OthersTyped
<1> QED
  BY <1>1, <1>2, ClientSteps

\* The invariant holds in every state, however deletions, downloads, scans and crashes
\* interleave.
THEOREM Inductive == Spec => []IInv
<1>1. IInv /\ [Next]_vars => IInv'
  <2> SUFFICES ASSUME IInv, [Next]_vars PROVE IInv'
    OBVIOUS
  <2>1. CASE UNCHANGED vars
    BY <2>1, StutterKeeps
  <2>2. CASE Crash \/ Boot \/ Refuse \/ Listen
    BY <2>2, CrashKeeps, BootKeeps, RefuseKeeps, ListenKeeps
  <2>3. ASSUME NEW c \in Clients,
               Add(c) \/ Scan(c) \/ \E p \in Paths : RegisterLocal(c, p) \/ ScanNext(c, p)
        PROVE  IInv'
    BY <2>3, AddKeeps, ClientKeeps
  <2>4. ASSUME NEW i \in Ids,
               \/ RegisterHuggingFace(i) \/ Accept(i) \/ (\E f \in Files : Write(i, f))
               \/ Exit(i) \/ Fail(i) \/ Publish(i) \/ EndUnpersisted(i)
        PROVE  IInv'
    BY <2>4, RegisterHuggingFaceKeeps, AcceptKeeps, WriteKeeps, ExitKeeps, FailKeeps, PublishKeeps,
       EndUnpersistedKeeps
  <2>5. ASSUME NEW i \in Ids,
               \/ \E files \in BOOLEAN : DeleteBegin(i, files)
               \/ DeleteCheck(i) \/ DeleteRename(i) \/ DeleteRenameFails(i) \/ DeleteCommit(i)
               \/ DeleteFails(i) \/ DeleteRestore(i) \/ DeletePurge(i) \/ Reconcile(i)
        PROVE  IInv'
    BY <2>5, DeleteBeginKeeps, DeleteCheckKeeps, DeleteRenameKeeps, DeleteRenameFailsKeeps,
       DeleteCommitKeeps, DeleteFailsKeeps, DeleteRestoreKeeps, DeletePurgeKeeps, ReconcileKeeps
  <2> QED
    BY <2>1, <2>2, <2>3, <2>4, <2>5 DEF Next
<1> QED
  BY <1>1, InitIInv, PTL DEF Spec

\* Every variable has its type, and a row has a path exactly when it is ready.
THEOREM TypeCorrect == Spec => []TypeOK
<1>1. IInv => TypeOK
  BY DEF IInv
<1> QED
  BY <1>1, Inductive, PTL

\* A download that is active has its claim on its model (downloader.go:904-947).
THEOREM ClaimIsHeldHolds == Spec => []ClaimIsHeld
<1>1. IInv => ClaimIsHeld
  BY DEF IInv, JobSound, ClaimIsHeld
<1> QED
  BY <1>1, Inductive, PTL

\* A downloaded model that is ready has all its files, in its directory or in its own
\* stage (registry.go:571-576, downloader.go:1060, 1131-1141).
THEOREM ReadyHasItsFilesHolds == Spec => []ReadyHasItsFiles
<1>1. IInv => ReadyHasItsFiles
  BY DEF IInv, FilesSound, ReadyHasItsFiles
<1> QED
  BY <1>1, Inductive, PTL

-----------------------------------------------------------------------------
(* The files of a row go no earlier than the row *)

\* The directories that no other contains: every download's, and every child of the root.
Tops == {p \in Paths : \A q \in Paths : p \notin Under[q]}

Kept(i) ==
    LET p == row[i].path IN
        row'[i].kind = "gone" \/ content[p] \cup stage[i][p] \subseteq content'[p] \cup stage'[i][p]

\* A move into the stage or back takes nothing from a row that it does not belong to.
LEMMA RenameKeepsFiles ==
    ASSUME IInv, NEW i \in Ids, row[i].path \in Tops, NEW k \in Ids, DeleteRename(k)
    PROVE  Kept(i)
<1> DEFINE p == row[i].path
<1> DEFINE moved == {op.path} \cup Under[op.path]
<1>1. /\ At(k, "rename")
      /\ stage' = [stage EXCEPT ![k] = [q \in Paths |-> IF q \in moved THEN content[q] ELSE {}]]
      /\ content' = [q \in Paths |-> IF q \in moved THEN {} ELSE content[q]]
  BY DEF DeleteRename
<1>2. op \in HolderType /\ op.path = row[k].path /\ op.path # NoPath /\ stage[k] = NoStage
  BY <1>1, Holder
<1>3. p \in Paths /\ op.path \in Paths /\ (p \in moved => p = op.path)
  BY <1>2 DEF Tops, HolderType
<1>4. p = op.path => k = i
  BY <1>2, Conjuncts DEF RowsSound, RowSound
<1>5. stage \in [Ids -> [Paths -> SUBSET Files]]
  BY Conjuncts DEF OthersTyped
<1> HIDE DEF moved
<1>6. CASE p \in moved
  <2>1. k = i /\ stage[i][p] = {}
    BY <1>2, <1>3, <1>4, <1>6 DEF NoStage
  <2>2. stage'[i][p] = content[p]
    BY <1>1, <1>3, <1>5, <1>6, <2>1
  <2> QED
    BY <2>1, <2>2 DEF Kept
<1>7. CASE p \notin moved
  <2>1. content'[p] = content[p]
    BY <1>1, <1>3, <1>7
  <2>2. stage[i][p] \subseteq stage'[i][p]
    BY <1>1, <1>2, <1>3, <1>5 DEF NoStage
  <2> QED
    BY <2>1, <2>2 DEF Kept
<1> QED
  BY <1>6, <1>7

\* What moves back is what was staged, and lands where nothing is.
LEMMA MoveBackKeepsFiles ==
    ASSUME IInv, NEW i \in Ids, Registered(i), row[i].path \in Tops, NEW k \in Ids, Registered(k), MoveBack(k)
    PROVE  Kept(i)
<1> DEFINE p == row[i].path
<1>1. /\ ~There(row[k].path) /\ stage' = [stage EXCEPT ![k] = NoStage]
      /\ content' = [q \in Paths |-> IF stage[k][q] # {} THEN stage[k][q] ELSE content[q]]
  BY DEF MoveBack
<1>2. p \in Paths /\ p # NoPath /\ stage \in [Ids -> [Paths -> SUBSET Files]]
  BY Apart, Conjuncts DEF Tops, OthersTyped
<1>3. stage[k][p] # {} => k = i
  <2>1. ASSUME stage[k][p] # {} PROVE row[k].path = p
    <3>1. row[k].path # NoPath /\ p \in {row[k].path} \cup Under[row[k].path]
      BY <1>2, <2>1, Conjuncts DEF StagesSound, StageSound
    <3>2. row[k].path \in Paths
      BY <3>1, Conjuncts DEF RowsTyped, RowType
    <3> QED
      BY <3>1, <3>2 DEF Tops
  <2> QED
    BY <1>2, <2>1, Conjuncts DEF RowsSound, RowSound
<1>4. CASE stage[k][p] # {}
  <2>1. k = i /\ content[p] = {} /\ content'[p] = stage[i][p]
    BY <1>1, <1>2, <1>3, <1>4 DEF There
  <2> QED
    BY <2>1 DEF Kept
<1>5. CASE stage[k][p] = {}
  <2>1. content'[p] = content[p] /\ stage[i][p] \subseteq stage'[i][p]
    BY <1>1, <1>2, <1>5
  <2> QED
    BY <2>1 DEF Kept
<1> QED
  BY <1>4, <1>5

\* A stage that is removed is that of a row that went before it.
LEMMA RemovalKeepsFiles ==
    ASSUME IInv, NEW i \in Ids, Registered(i), NEW k \in Ids, ~Registered(k),
           stage' = [stage EXCEPT ![k] = NoStage], UNCHANGED content
    PROVE  Kept(i)
BY Conjuncts DEF OthersTyped, Kept

\* Every action either leaves the directories or keeps the row's files.
LEMMA StepKeepsFiles ==
    ASSUME IInv, [Next]_vars, NEW i \in Ids, Registered(i), row[i].path \in Tops
    PROVE  Kept(i)
<1>1. ASSUME UNCHANGED tree PROVE Kept(i)
  BY <1>1 DEF Kept, tree
<1>2. CASE UNCHANGED vars
  BY <1>1, <1>2 DEF vars
<1>3. CASE Crash \/ Boot \/ Refuse \/ Listen
  BY <1>1, <1>3 DEF Crash, Boot, Refuse, Listen
<1>4. ASSUME NEW c \in Clients,
             Add(c) \/ Scan(c) \/ \E p \in Paths : RegisterLocal(c, p) \/ ScanNext(c, p)
      PROVE  UNCHANGED tree
  BY <1>4 DEF Add, Scan, RegisterLocal, ScanNext
<1>5. ASSUME NEW k \in Ids,
             RegisterHuggingFace(k) \/ Accept(k) \/ Exit(k) \/ Fail(k) \/ Publish(k) \/ EndUnpersisted(k)
      PROVE  UNCHANGED tree
  BY <1>5 DEF RegisterHuggingFace, Accept, Exit, Fail, Publish, EndUnpersisted
<1>6. ASSUME NEW k \in Ids, NEW f \in Files, Write(k, f) PROVE Kept(i)
  <2>1. row[i].path \in Paths /\ content \in [Paths -> SUBSET Files]
    BY Conjuncts DEF Tops, OthersTyped
  <2>2. content' = [content EXCEPT ![k] = @ \cup {f}] /\ UNCHANGED stage
    BY <1>6 DEF Write
  <2>3. content[row[i].path] \subseteq content'[row[i].path]
    BY <2>1, <2>2
  <2> QED
    BY <2>2, <2>3 DEF Kept
<1>7. ASSUME NEW k \in Ids,
             \/ \E files \in BOOLEAN : DeleteBegin(k, files)
             \/ DeleteCheck(k) \/ DeleteRenameFails(k) \/ DeleteCommit(k) \/ DeleteFails(k)
      PROVE  UNCHANGED tree
  BY <1>7 DEF DeleteBegin, DeleteCheck, DeleteRenameFails, DeleteCommit, DeleteFails
<1>8. ASSUME NEW k \in Ids, DeleteRestore(k) PROVE Kept(i)
  <2>1. At(k, "restore") /\ (MoveBack(k) \/ UNCHANGED tree)
    BY <1>8 DEF DeleteRestore
  <2>2. Registered(k)
    BY <2>1, Holder
  <2> QED
    BY <1>1, <2>1, <2>2, MoveBackKeepsFiles
<1>9. ASSUME NEW k \in Ids, DeletePurge(k) PROVE Kept(i)
  <2>1. At(k, "purge") /\ UNCHANGED content /\ (stage' = [stage EXCEPT ![k] = NoStage] \/ UNCHANGED stage)
    BY <1>9 DEF DeletePurge
  <2>2. ~Registered(k)
    BY <2>1, Holder DEF Registered
  <2> QED
    BY <1>1, <2>1, <2>2, RemovalKeepsFiles DEF tree
<1>10. ASSUME NEW k \in Ids, Reconcile(k) PROVE Kept(i)
  BY <1>10, MoveBackKeepsFiles, RemovalKeepsFiles DEF Reconcile
<1>11. ASSUME NEW k \in Ids, DeleteRename(k) PROVE Kept(i)
  BY <1>11, RenameKeepsFiles
<1>12. CASE Next
  BY <1>1, <1>3, <1>4, <1>5, <1>6, <1>7, <1>8, <1>9, <1>10, <1>11, <1>12 DEF Next
<1> QED
  BY <1>2, <1>12

\* No file of a row is lost before the row, in a directory that is below no other one:
\* a deletion, its failed restore, a crash and the next start only move them
\* (registry.go:578-589, 471-476).
THEOREM TopsKeepTheirFiles ==
    Spec => [][\A i \in Ids : Registered(i) /\ row[i].path \in Tops => Kept(i)]_vars
<1>1. IInv /\ [Next]_vars => [\A i \in Ids : Registered(i) /\ row[i].path \in Tops => Kept(i)]_vars
  BY StepKeepsFiles
<1> QED
  BY <1>1, Inductive, PTL DEF Spec

\* So where no directory contains another, no registered row loses a file.
THEOREM FilesGoWithTheirRowHolds == (\A p \in Paths : Under[p] = {}) => (Spec => FilesGoWithTheirRow)
<1> SUFFICES ASSUME \A p \in Paths : Under[p] = {} PROVE Spec => FilesGoWithTheirRow
  OBVIOUS
<1>1. Paths \subseteq Tops
  BY DEF Tops
<1> DEFINE Stay == \A i \in Ids : Registered(i) /\ row[i].path # NoPath => Kept(i)
<1>2. IInv /\ [Next]_vars => [Stay]_vars
  <2> SUFFICES ASSUME IInv, [Next]_vars, NEW i \in Ids, Registered(i), row[i].path # NoPath PROVE Kept(i)
    OBVIOUS
  <2>1. row[i].path \in Tops
    BY <1>1, Conjuncts DEF RowsTyped, RowType
  <2> QED
    BY <2>1, StepKeepsFiles
<1>3. Stay => \A i \in Ids : LET p == row[i].path IN
         Registered(i) /\ p # NoPath
           => \/ row'[i].kind = "gone"
              \/ content[p] \cup stage[i][p] \subseteq content'[p] \cup stage'[i][p]
  BY DEF Kept
<1>4. Spec => [][Stay]_vars
  BY <1>2, Inductive, PTL DEF Spec
<1> QED
  BY <1>3, <1>4, PTL DEF FilesGoWithTheirRow

-----------------------------------------------------------------------------
(* Deletions beside downloads *)

\* Only a commit on a snapshot that is not old deletes a row.
LEMMA StepSparesDownloads ==
    ASSUME IInv, [Next]_vars, NEW i \in Ids, Registered(i), row'[i].kind = "gone"
    PROVE  ~job[i] /\ (row[i].path \in Ids => ~job[row[i].path])
<1> DEFINE Stays == row'[i].kind = row[i].kind
<1>1. ~Stays
  BY DEF Registered
<1>2. ASSUME row' = row PROVE FALSE
  BY <1>1, <1>2
<1>3. CASE Crash \/ Boot \/ Refuse \/ UNCHANGED vars
  BY <1>2, <1>3 DEF Crash, Boot, Refuse, vars, db
<1>4. CASE Listen
  <2>1. row'[i] = IF job[i] THEN [row[i] EXCEPT !.status = "canceled"] ELSE row[i]
    BY <1>4 DEF Listen
  <2>2. Stays
    BY <2>1, Conjuncts DEF RowsTyped, RowType
  <2> QED
    BY <1>1, <2>2
<1>5. ASSUME NEW k \in Ids, row[k] = NoRow, NEW r, row' = [row EXCEPT ![k] = r], r.kind # "gone" PROVE FALSE
  <2>1. row'[i] = IF i = k THEN r ELSE row[i]
    BY <1>5, Conjuncts DEF RowsTyped
  <2> QED
    BY <1>1, <1>5, <2>1
<1>6. ASSUME NEW c \in Clients, Add(c) \/ Scan(c) \/ \E p \in Paths : RegisterLocal(c, p) \/ ScanNext(c, p)
      PROVE  FALSE
  <2>1. CASE Add(c) /\ ~Owned(client[c].path)
    <3> DEFINE r == [kind |-> "local", status |-> "ready", path |-> client[c].path]
    <3>1. PICK k \in Ids : row[k] = NoRow /\ row' = [row EXCEPT ![k] = r]
      BY <2>1 DEF Add
    <3>2. r.kind # "gone"
      OBVIOUS
    <3> HIDE DEF r
    <3> QED
      BY <1>5, <3>1, <3>2
  <2> QED
    BY <1>2, <1>6, <2>1 DEF Add, Scan, RegisterLocal, ScanNext, db
<1>7. ASSUME NEW k \in Ids, RegisterHuggingFace(k) PROVE FALSE
  <2> DEFINE r == [kind |-> "huggingface", status |-> "registered", path |-> NoPath]
  <2>1. row[k] = NoRow /\ row' = [row EXCEPT ![k] = r]
    BY <1>7 DEF RegisterHuggingFace
  <2>2. r.kind # "gone"
    OBVIOUS
  <2> HIDE DEF r
  <2> QED
    BY <1>5, <2>1, <2>2
<1>8. ASSUME NEW k \in Ids, Accept(k) \/ Fail(k) PROVE FALSE
  <2>1. PICK s \in {"downloading", "canceled", "error"} : row' = [row EXCEPT ![k].status = s]
    BY <1>8 DEF Accept, Fail
  <2>2. RowsBut(k) /\ row'[k].kind = row[k].kind
    BY <2>1, StatusChanges, Conjuncts
  <2> QED
    BY <1>1, <2>2 DEF RowsBut
<1>9. ASSUME NEW k \in Ids, Publish(k) PROVE FALSE
  <2>1. RowsBut(k) /\ row'[k].kind = row[k].kind
    BY <1>9, Published, Conjuncts DEF Publish
  <2> QED
    BY <1>1, <2>1 DEF RowsBut
<1>10. ASSUME NEW k \in Ids, (\E f \in Files : Write(k, f)) \/ Exit(k) \/ EndUnpersisted(k) \/ Reconcile(k)
       PROVE  FALSE
  BY <1>2, <1>10 DEF Write, Exit, EndUnpersisted, Reconcile, db
<1>11. ASSUME NEW k \in Ids,
              \/ \E files \in BOOLEAN : DeleteBegin(k, files)
              \/ DeleteCheck(k) \/ DeleteRename(k) \/ DeleteRenameFails(k) \/ DeleteFails(k)
              \/ DeleteRestore(k) \/ DeletePurge(k)
       PROVE  FALSE
  BY <1>2, <1>11 DEF DeleteBegin, DeleteCheck, DeleteRename, DeleteRenameFails, DeleteFails,
                     DeleteRestore, DeletePurge, db
<1>12. ASSUME NEW k \in Ids, DeleteCommit(k)
       PROVE  ~job[i] /\ (row[i].path \in Ids => ~job[row[i].path])
  <2>1. At(k, "commit") /\ ~op.old /\ row' = [row EXCEPT ![k] = [NoRow EXCEPT !.kind = "gone"]]
    BY <1>12 DEF DeleteCommit
  <2>2. k = i
    BY <1>1, <2>1, Conjuncts DEF RowsTyped
  <2> QED
    BY <2>1, <2>2, Holder
<1> QED
  BY <1>3, <1>4, <1>6, <1>7, <1>8, <1>9, <1>10, <1>11, <1>12 DEF Next

\* No row is deleted under an active download of its model or into its directory
\* (registry.go:567-653).
THEOREM DeletionSparesDownloadsHolds == Spec => DeletionSparesDownloads
<1>1. IInv /\ [Next]_vars
        => [\A i \in Ids : Registered(i) /\ row'[i].kind = "gone"
               => ~job[i] /\ (row[i].path \in Ids => ~job[row[i].path])]_vars
  BY StepSparesDownloads
<1> QED
  BY <1>1, Inductive, PTL DEF Spec, DeletionSparesDownloads
=============================================================================
