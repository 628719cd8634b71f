------------------------------- MODULE Registry -------------------------------
(***************************************************************************)
(* The model registry, the downloads that fill its directories and the     *)
(* deletions that empty them, all at once (ability/ability_model/          *)
(* registry.go, ability/ability_download/downloader.go): registration,     *)
(* scan, the claim, the writes of the Hugging Face CLI, the publication,   *)
(* the staged deletion, a crash and the next start.                        *)
(*                                                                         *)
(* Download and ModelDeletion look at one side each; what they leave out,  *)
(* the contents of the directories and the paths two rows may share, is    *)
(* what this module is about.  An action is one SQLite statement or        *)
(* transaction, or one change of the tree.  The directory <root>/<id> that *)
(* a download of registration id fills is called by that id.  A directory  *)
(* without files counts as absent.  A row has one attempt at a time, of    *)
(* which Download tells the states apart.                                  *)
(***************************************************************************)
EXTENDS FiniteSets

CONSTANTS
    Ids,        \* registration ids, never reused
    Locals,     \* directories an operator put under the models root
    Files,      \* the files of a complete model
    Clients,    \* concurrent requests that register or scan
    Under       \* for a directory, those below it

Paths == Ids \cup Locals

NoPath   == "none"

\* A download's directory is a child of the models root, and the root itself cannot be
\* registered, so that no other directory contains it.
ASSUME RegistryAssumption ==
    /\ Ids \cap Locals = {} /\ NoPath \notin Paths
    /\ Under \in [Paths -> SUBSET Locals]

VARIABLES
    (* SQLite *)
    row,        \* models: kind, status and local_path of an id
    job,        \* downloads: the attempt on an id is active
    (* the models root *)
    content,    \* the files of a directory
    stage,      \* .quarantine/<id>: what was moved there
    (* the service process *)
    phase,      \* "down", "starting", "refused" (the start failed), "up"
    op,         \* the deletion that holds Registry.mu
    client,     \* a registration: the directory it found; a scan: those to come
    cli         \* the attempt's process, and the files it has still to write

db   == <<row, job>>
tree == <<content, stage>>
vars == <<db, tree, phase, op, client, cli>>

NoRow    == [kind |-> "none", status |-> "none", path |-> NoPath]
NoOp     == [step |-> "none"]
NoClient == [path |-> NoPath, todo |-> {}]
NoCli    == [at |-> "idle", left |-> {}]
NoStage  == [p \in Paths |-> {}]

TypeOK ==
    /\ row \in [Ids -> [kind : {"none", "gone", "huggingface", "local"},
                        status : {"none", "registered", "downloading", "ready", "canceled", "error"},
                        path : Paths \cup {NoPath}]]
    /\ \A i \in Ids : (row[i].path # NoPath) <=> (row[i].status = "ready")
    /\ job \in [Ids -> BOOLEAN]
    /\ content \in [Paths -> SUBSET Files]
    /\ stage \in [Ids -> [Paths -> SUBSET Files]]
    /\ phase \in {"down", "starting", "refused", "up"}
    /\ op \in {NoOp} \cup [step : {"check", "rename", "commit", "restore", "purge"}, id : Ids,
                           files : BOOLEAN, path : Paths \cup {NoPath}, old : BOOLEAN]
    /\ client \in [Clients -> [path : Paths \cup {NoPath}, todo : SUBSET Paths]]
    /\ cli \in [Ids -> [at : {"idle", "running", "exited"}, left : SUBSET Files]]

Registered(i) == row[i].kind \in {"huggingface", "local"}
Owned(p)      == \E i \in Ids : row[i].path = p
There(p)      == content[p] # {}

Init ==
    /\ row = [i \in Ids |-> NoRow]
    /\ job = [i \in Ids |-> FALSE]
    /\ content = [p \in Paths |-> IF p \in Locals THEN Files ELSE {}]
    /\ stage = [i \in Ids |-> NoStage]
    /\ phase = "down"
    /\ op = NoOp
    /\ client = [c \in Clients |-> NoClient]
    /\ cli = [i \in Ids |-> NoCli]

\* Any commit makes the snapshot that a deletion's transaction reads an old one.
Commit == op' = IF op = NoOp THEN op ELSE [op EXCEPT !.old = TRUE]

-----------------------------------------------------------------------------
(* Registration and scan *)

RegisterHuggingFace(i) ==
    /\ phase = "up" /\ op = NoOp
    /\ row[i] = NoRow
    /\ row' = [row EXCEPT ![i] = [kind |-> "huggingface", status |-> "registered", path |-> NoPath]]
    /\ UNCHANGED <<job, tree, phase, op, client, cli>>

\* RegisterLocal resolves and measures the directory before it takes the lock.
RegisterLocal(c, p) ==
    /\ phase = "up"
    /\ client[c] = NoClient
    /\ There(p)
    /\ client' = [client EXCEPT ![c].path = p]
    /\ UNCHANGED <<db, tree, phase, op, cli>>

\* add: a path that has a row is refused, and a scan ends with the refusal.
Add(c) ==
    /\ phase = "up" /\ op = NoOp
    /\ client[c].path # NoPath
    /\ IF Owned(client[c].path)
       THEN client' = [client EXCEPT ![c] = NoClient] /\ UNCHANGED row
       ELSE /\ \E i \in Ids :
                 /\ row[i] = NoRow
                 /\ row' = [row EXCEPT ![i] = [kind |-> "local", status |-> "ready",
                                               path |-> client[c].path]]
            /\ client' = [client EXCEPT ![c].path = NoPath]
    /\ UNCHANGED <<job, tree, phase, op, cli>>

\* Scan lists the children of the models root.
Scan(c) ==
    /\ phase = "up"
    /\ client[c] = NoClient
    /\ client' = [client EXCEPT ![c].todo = {p \in Paths : There(p) /\ \A q \in Paths : p \notin Under[q]}]
    /\ UNCHANGED <<db, tree, phase, op, cli>>

\* A child that has gone or has a row is passed over; another one is registered.
ScanNext(c, p) ==
    /\ phase = "up"
    /\ client[c].path = NoPath /\ p \in client[c].todo
    /\ client' = [client EXCEPT ![c] =
                    [path |-> IF There(p) /\ ~Owned(p) THEN p ELSE NoPath, todo |-> @.todo \ {p}]]
    /\ UNCHANGED <<db, tree, phase, op, cli>>

-----------------------------------------------------------------------------
(* Download *)

\* Wrong on purpose: a model is claimed whatever its status.
AcceptAny(i) ==
    /\ phase = "up"
    /\ row[i].kind = "huggingface"
    /\ cli[i].at = "idle"
    /\ row' = [row EXCEPT ![i].status = "downloading"]
    /\ job' = [job EXCEPT ![i] = TRUE]
    /\ cli' = [cli EXCEPT ![i] = [at |-> "running", left |-> Files]]
    /\ Commit
    /\ UNCHANGED <<tree, phase, client>>

\* The attempt is accepted, the model claimed with it, and the CLI started; it
\* may be given a directory that an earlier attempt has left.
Accept(i) ==
    /\ phase = "up"
    /\ row[i].kind = "huggingface" /\ row[i].status \in {"registered", "error", "canceled"}
    /\ cli[i].at = "idle"
    /\ row' = [row EXCEPT ![i].status = "downloading"]
    /\ job' = [job EXCEPT ![i] = TRUE]
    /\ cli' = [cli EXCEPT ![i] = [at |-> "running", left |-> Files]]
    /\ Commit
    /\ UNCHANGED <<tree, phase, client>>

\* The CLI writes a file, and the directory if there is none.
Write(i, f) ==
    /\ cli[i].at = "running" /\ f \in cli[i].left
    /\ content' = [content EXCEPT ![i] = @ \cup {f}]
    /\ cli' = [cli EXCEPT ![i].left = @ \ {f}]
    /\ UNCHANGED <<db, stage, phase, op, client>>

\* The CLI succeeds and completedDownload finds the directory.
Exit(i) ==
    /\ cli[i].at = "running" /\ cli[i].left = {}
    /\ There(i)
    /\ cli' = [cli EXCEPT ![i] = [at |-> "exited", left |-> {}]]
    /\ UNCHANGED <<db, tree, phase, op, client>>

Ended(i) == cli' = [cli EXCEPT ![i] = NoCli]

\* The CLI fails, is canceled, or the directory is not there.
Fail(i) ==
    /\ cli[i].at = "running"
    /\ \E s \in {"canceled", "error"} : row' = [row EXCEPT ![i].status = s]
    /\ job' = [job EXCEPT ![i] = FALSE]
    /\ Ended(i)
    /\ Commit
    /\ UNCHANGED <<tree, phase, client>>

\* persistTerminal: the model becomes ready at the path that was measured, which
\* the unique index lets no two rows have.
Publish(i) ==
    /\ cli[i].at = "exited"
    /\ ~Owned(i)
    /\ row' = [row EXCEPT ![i].status = "ready", ![i].path = i]
    /\ job' = [job EXCEPT ![i] = FALSE]
    /\ Ended(i)
    /\ Commit
    /\ UNCHANGED <<tree, phase, client>>

\* The terminal transaction fails: its rows stay as they are until the next start.
EndUnpersisted(i) ==
    /\ cli[i].at # "idle"
    /\ Ended(i)
    /\ UNCHANGED <<db, tree, phase, op, client>>

-----------------------------------------------------------------------------
(* Delete *)

At(i, s) == op # NoOp /\ op.id = i /\ op.step = s
Goto(s)  == op' = [op EXCEPT !.step = s]

\* The lock is taken and the model read.
DeleteBegin(i, files) ==
    /\ phase = "up" /\ op = NoOp
    /\ Registered(i)
    /\ op' = [step |-> "check", id |-> i, files |-> files, path |-> row[i].path, old |-> FALSE]
    /\ UNCHANGED <<db, tree, phase, client, cli>>

\* Wrong on purpose: only downloads of the model itself are looked for.
DownloadingById(i, p) == job[i]

\* An active download of the model, or into its directory.
Downloading(i, p) == job[i] \/ (p \in Ids /\ job[p])

\* The transaction's snapshot is taken by the query for active downloads.
DeleteCheck(i) ==
    /\ At(i, "check")
    /\ IF \/ Downloading(i, op.path)
          \/ op.files /\ (op.path = NoPath \/ ~There(op.path) \/ stage[i] # NoStage)
       THEN op' = NoOp
       ELSE op' = [op EXCEPT !.step = IF op.files THEN "rename" ELSE "commit", !.old = FALSE]
    /\ UNCHANGED <<db, tree, phase, client, cli>>

\* The directory moves into the stage with all that is below it.
DeleteRename(i) ==
    LET moved == {op.path} \cup Under[op.path] IN
    /\ At(i, "rename")
    /\ stage' = [stage EXCEPT ![i] = [p \in Paths |-> IF p \in moved THEN content[p] ELSE {}]]
    /\ content' = [p \in Paths |-> IF p \in moved THEN {} ELSE content[p]]
    /\ Goto("commit")
    /\ UNCHANGED <<db, phase, client, cli>>

\* The directory cannot be moved: the empty stage goes and the row stays.
DeleteRenameFails(i) ==
    /\ At(i, "rename")
    /\ op' = NoOp
    /\ UNCHANGED <<db, tree, phase, client, cli>>

\* Wrong on purpose: a transaction of its own deletes the row.
DeleteCommitNew(i) ==
    /\ At(i, "commit")
    /\ row' = [row EXCEPT ![i] = [NoRow EXCEPT !.kind = "gone"]]
    /\ IF op.files THEN Goto("purge") ELSE op' = NoOp
    /\ UNCHANGED <<job, tree, phase, client, cli>>

\* DELETE and COMMIT; SQLite refuses to write on an old snapshot.
DeleteCommit(i) ==
    /\ At(i, "commit")
    /\ ~op.old
    /\ row' = [row EXCEPT ![i] = [NoRow EXCEPT !.kind = "gone"]]
    /\ IF op.files THEN Goto("purge") ELSE op' = NoOp
    /\ UNCHANGED <<job, tree, phase, client, cli>>

\* The statement fails; the stage is restored.
DeleteFails(i) ==
    /\ At(i, "commit")
    /\ IF op.files THEN Goto("restore") ELSE op' = NoOp
    /\ UNCHANGED <<db, tree, phase, client, cli>>

\* Wrong on purpose: what was staged takes the place of what is there now.
MoveBackOver(i) ==
    /\ content' = [p \in Paths |-> IF stage[i][p] # {} THEN stage[i][p] ELSE content[p]]
    /\ stage' = [stage EXCEPT ![i] = NoStage]

\* A directory moves back, never onto one that has files.
MoveBack(i) ==
    /\ ~There(row[i].path)
    /\ content' = [p \in Paths |-> IF stage[i][p] # {} THEN stage[i][p] ELSE content[p]]
    /\ stage' = [stage EXCEPT ![i] = NoStage]

\* restoreStage, or its failure, which leaves the stage to the next start.
DeleteRestore(i) ==
    /\ At(i, "restore")
    /\ MoveBack(i) \/ UNCHANGED tree
    /\ op' = NoOp
    /\ UNCHANGED <<db, phase, client, cli>>

\* The stage of a committed deletion is removed, or left to the next start.
DeletePurge(i) ==
    /\ At(i, "purge")
    /\ stage' = [stage EXCEPT ![i] = NoStage] \/ UNCHANGED stage
    /\ op' = NoOp
    /\ UNCHANGED <<db, content, phase, client, cli>>

-----------------------------------------------------------------------------
(* Crash and start *)

\* The process and its children end, at any point.
Crash ==
    /\ phase \in {"starting", "up"}
    /\ phase' = "down"
    /\ op' = NoOp
    /\ client' = [c \in Clients |-> NoClient]
    /\ cli' = [i \in Ids |-> NoCli]
    /\ UNCHANGED <<db, tree>>

Boot ==
    /\ phase \in {"down", "refused"}
    /\ phase' = "starting"
    /\ UNCHANGED <<db, tree, op, client, cli>>

\* A staged directory goes back to its row, or goes with the row.
Reconcile(i) ==
    /\ phase = "starting"
    /\ stage[i] # NoStage
    /\ IF Registered(i) THEN MoveBack(i)
                        ELSE stage' = [stage EXCEPT ![i] = NoStage] /\ UNCHANGED content
    /\ UNCHANGED <<db, phase, op, client, cli>>

\* What restore expects of the model of an active download.
Restorable(i) ==
    row[i].kind = "huggingface" /\ row[i].status = "downloading" /\ row[i].path = NoPath

\* A stage whose place is taken, or a download without its claim, is left alone.
Refuse ==
    /\ phase = "starting"
    /\ \/ \E i \in Ids : stage[i] # NoStage /\ Registered(i) /\ There(row[i].path)
       \/ (\A i \in Ids : stage[i] = NoStage) /\ (\E i \in Ids : job[i] /\ ~Restorable(i))
    /\ phase' = "refused"
    /\ UNCHANGED <<db, tree, op, client, cli>>

\* The quarantine is empty and the active downloads are canceled.
Listen ==
    /\ phase = "starting"
    /\ \A i \in Ids : stage[i] = NoStage
    /\ \A i \in Ids : job[i] => Restorable(i)
    /\ row' = [i \in Ids |-> IF job[i] THEN [row[i] EXCEPT !.status = "canceled"] ELSE row[i]]
    /\ job' = [i \in Ids |-> FALSE]
    /\ phase' = "up"
    /\ UNCHANGED <<tree, op, client, cli>>

Next ==
    \/ Crash \/ Boot \/ Refuse \/ Listen
    \/ \E c \in Clients : \/ Add(c) \/ Scan(c)
                          \/ \E p \in Paths : RegisterLocal(c, p) \/ ScanNext(c, p)
    \/ \E i \in Ids : \/ RegisterHuggingFace(i) \/ Accept(i) \/ \E f \in Files : Write(i, f)
                      \/ Exit(i) \/ Fail(i) \/ Publish(i) \/ EndUnpersisted(i)
                      \/ \E files \in BOOLEAN : DeleteBegin(i, files)
                      \/ DeleteCheck(i) \/ DeleteRename(i) \/ DeleteRenameFails(i)
                      \/ DeleteCommit(i) \/ DeleteFails(i) \/ DeleteRestore(i) \/ DeletePurge(i)
                      \/ Reconcile(i)

Spec == Init /\ [][Next]_vars

-----------------------------------------------------------------------------
(* Properties *)

\* A downloaded model that is ready has every file, in its place or in its own
\* stage: no deletion of another row, no scan, no second attempt and no restart
\* takes one away (registry.go:571-576, downloader.go:1060, 1131-1141).
ReadyHasItsFiles ==
    \A i \in Ids :
        row[i].kind = "huggingface" /\ row[i].status = "ready"
            => content[i] = Files \/ stage[i][i] = Files

\* A download that is active in SQLite has its claim on its model, whatever was
\* registered, scanned, deleted or restored meanwhile: it is the condition under
\* which the next start takes it (downloader.go:904-947).
ClaimIsHeld == \A i \in Ids : job[i] => Restorable(i)

\* No file of a registered directory is lost before its row is: what a deletion
\* staged and what a download wrote in its place meanwhile both stay, through a
\* failed restore, a crash and the next start (registry.go:578-589, 471-476).
FilesGoWithTheirRow ==
    [][\A i \in Ids : LET p == row[i].path IN
         Registered(i) /\ p # NoPath
           => \/ row'[i].kind = "gone"
              \/ content[p] \cup stage[i][p] \subseteq content'[p] \cup stage'[i][p]]_vars

\* A row is deleted only while no download is active for its model or into its
\* directory, although the query for downloads, the move of the directory and the
\* commit are apart, and downloads take no lock of the registry (registry.go:567-653).
DeletionSparesDownloads ==
    [][\A i \in Ids : Registered(i) /\ row'[i].kind = "gone"
           => ~job[i] /\ (row[i].path \in Ids => ~job[row[i].path])]_vars

\* The claim of docs/api_description.md:34: models are independent directories, so
\* no row refers to files that the deletion of another row removed.
RegisteredDirectoryExists ==
    \A i \in Ids : row[i].path # NoPath => There(row[i].path) \/ stage[i] # NoStage
=============================================================================
