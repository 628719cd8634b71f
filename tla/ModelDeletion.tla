---------------------------- MODULE ModelDeletion ----------------------------
(***************************************************************************)
(* Deleting registered models together with their directories              *)
(* (ability/ability_model/registry.go): the registry rows, the directories *)
(* under the models root, the quarantine a deletion stages them in, and    *)
(* the reconciliation that the next start makes of it.                     *)
(*                                                                         *)
(* An action is one system call on the tree or one SQLite statement, so    *)
(* that the process may die between any two of them.  `op` is the holder   *)
(* of Registry.mu: a Delete, or the entry being reconciled.  Directories   *)
(* of different models are disjoint, and nobody but the service moves them.*)
(***************************************************************************)
EXTENDS Naturals, FiniteSets

CONSTANTS
    Ids,        \* registration ids, never reused
    Paths,      \* directories under the models root
    Registrars  \* concurrent requests that register a local directory

VARIABLES
    (* SQLite and the models root *)
    row,        \* models.local_path of an id, or "unused", or "gone" once deleted
    dir,        \* the directory is at its place
    stage,      \* .quarantine/<id>
    (* the service process *)
    phase,      \* "down", "reconciling", "up", or a start that ended: an entry was
                \* "refused" for what it is, or reading or moving one "failed"
    todo,       \* quarantine entries still to reconcile
    op,         \* the operation that holds Registry.mu
    reg         \* a directory each registrar has found, before it is added

tree == <<dir, stage>>
vars == <<row, dir, stage, phase, todo, op, reg>>

NoOp   == [step |-> "none"]
NoStage == [dir |-> FALSE, manifest |-> "none", files |-> "none"]
NoPath == "none"

Step == {"mkdir", "create", "write", "rename", "commit", "restore", "remove"}

ASSUME ModelDeletionAssumption == Paths \cap {"unused", "gone", NoPath} = {}

TypeOK ==
    /\ row \in [Ids -> Paths \cup {"unused", "gone"}]
    /\ dir \in [Paths -> BOOLEAN]
    /\ stage \in [Ids -> [dir : BOOLEAN, manifest : {"none", "torn", "good"},
                          files : {"none", "part", "whole"}]]
    /\ phase \in {"down", "reconciling", "refused", "failed", "up"}
    /\ todo \in SUBSET Ids
    /\ op \in {NoOp} \cup [id : Ids, files : BOOLEAN, step : Step]
    /\ reg \in [Registrars -> Paths \cup {NoPath}]

Registered(i) == row[i] \in Paths

Init ==
    /\ row = [i \in Ids |-> "unused"]
    /\ dir = [p \in Paths |-> TRUE]
    /\ stage = [i \in Ids |-> NoStage]
    /\ phase = "down"
    /\ todo = {}
    /\ op = NoOp
    /\ reg = [c \in Registrars |-> NoPath]

-----------------------------------------------------------------------------
(* Registering a directory: RegisterLocal, and Scan for each directory *)

\* The directory is resolved and measured before the lock is taken.
RegisterCheck(c, p) ==
    /\ phase = "up"
    /\ reg[c] = NoPath
    /\ dir[p]
    /\ reg' = [reg EXCEPT ![c] = p]
    /\ UNCHANGED <<row, tree, phase, todo, op>>

\* add: under the lock, a path that has a row already is refused.
RegisterAdd(c) ==
    /\ phase = "up"
    /\ reg[c] # NoPath
    /\ op = NoOp
    /\ IF \E i \in Ids : row[i] = reg[c]
       THEN UNCHANGED row
       ELSE \E i \in Ids : row[i] = "unused" /\ row' = [row EXCEPT ![i] = reg[c]]
    /\ reg' = [reg EXCEPT ![c] = NoPath]
    /\ UNCHANGED <<tree, phase, todo, op>>

-----------------------------------------------------------------------------
(* Delete *)

Goto(s) == op' = [op EXCEPT !.step = s]

At(i, s) == op # NoOp /\ op.id = i /\ op.step = s

\* The lock is taken and the row read; with files, the directory must be there.
DeleteBegin(i, files) ==
    /\ phase = "up"
    /\ op = NoOp
    /\ Registered(i)
    /\ files => dir[row[i]]
    /\ op' = [id |-> i, files |-> files, step |-> IF files THEN "mkdir" ELSE "commit"]
    /\ UNCHANGED <<row, tree, phase, todo, reg>>

\* A stage left by an earlier deletion of the id refuses this one.
DeleteMkdir(i) ==
    /\ At(i, "mkdir")
    /\ IF stage[i].dir
       THEN op' = NoOp /\ UNCHANGED stage
       ELSE stage' = [stage EXCEPT ![i] = [NoStage EXCEPT !.dir = TRUE]] /\ Goto("create")
    /\ UNCHANGED <<row, dir, phase, todo, reg>>

\* writeDeletionManifest creates the file ...
DeleteCreate(i) ==
    /\ At(i, "create")
    /\ stage' = [stage EXCEPT ![i].manifest = "torn"]
    /\ Goto("write")
    /\ UNCHANGED <<row, dir, phase, todo, reg>>

\* ... and fills it.
DeleteWrite(i) ==
    /\ At(i, "write")
    /\ stage' = [stage EXCEPT ![i].manifest = "good"]
    /\ Goto("rename")
    /\ UNCHANGED <<row, dir, phase, todo, reg>>

\* A failure up to the rename removes the stage and keeps the row.
DeleteGivesUp(i) ==
    /\ op # NoOp /\ op.id = i
    /\ op.step \in {"create", "write", "rename"}
    /\ Goto("remove")
    /\ UNCHANGED <<row, tree, phase, todo, reg>>

\* Wrong on purpose: the directory moves before the manifest is filled.
DeleteRenameUnwritten(i) ==
    /\ At(i, "write") \/ At(i, "rename")
    /\ dir' = [dir EXCEPT ![row[i]] = FALSE]
    /\ stage' = [stage EXCEPT ![i].files = "whole"]
    /\ Goto("commit")
    /\ UNCHANGED <<row, phase, todo, reg>>

\* The directory moves into the stage.
DeleteRename(i) ==
    /\ At(i, "rename")
    /\ dir' = [dir EXCEPT ![row[i]] = FALSE]
    /\ stage' = [stage EXCEPT ![i].files = "whole"]
    /\ Goto("commit")
    /\ UNCHANGED <<row, phase, todo, reg>>

\* Wrong on purpose: the row stays, with an empty path.
DeleteCommitClearsPath(i) ==
    /\ At(i, "commit")
    /\ row' = [row EXCEPT ![i] = NoPath]
    /\ IF op.files THEN Goto("remove") ELSE op' = NoOp
    /\ UNCHANGED <<tree, phase, todo, reg>>

\* The row is deleted; with files, the stage is purged next.
DeleteCommit(i) ==
    /\ At(i, "commit")
    /\ row' = [row EXCEPT ![i] = "gone"]
    /\ IF op.files THEN Goto("remove") ELSE op' = NoOp
    /\ UNCHANGED <<tree, phase, todo, reg>>

\* The statement or the commit fails.
DeleteCommitFails(i) ==
    /\ At(i, "commit")
    /\ IF op.files THEN Goto("restore") ELSE op' = NoOp
    /\ UNCHANGED <<row, tree, phase, todo, reg>>

\* restoreStage: the directory moves back and the stage is removed, or the
\* rename fails and everything is left to the next start.
DeleteRestore(i) ==
    /\ At(i, "restore")
    /\ \/ /\ dir' = [dir EXCEPT ![row[i]] = TRUE]
          /\ stage' = [stage EXCEPT ![i].files = "none"]
          /\ Goto("remove")
       \/ op' = NoOp /\ UNCHANGED tree
    /\ UNCHANGED <<row, phase, todo, reg>>

\* os.RemoveAll unlinks what it finds in any order, and the directory last.
Unlink(i) ==
    LET s == stage[i] IN
    \/ s.manifest # "none" /\ stage' = [stage EXCEPT ![i].manifest = "none"]
    \/ s.files = "whole" /\ stage' = [stage EXCEPT ![i].files = "part"]
    \/ s.files = "part" /\ stage' = [stage EXCEPT ![i].files = "none"]

RemoveSome(i) ==
    /\ At(i, "remove")
    /\ Unlink(i)
    /\ UNCHANGED <<row, dir, phase, todo, op, reg>>

\* Wrong on purpose: the lock is kept once the stage is gone.
RemoveLastKeepsLock(i) ==
    /\ At(i, "remove")
    /\ stage[i].manifest = "none" /\ stage[i].files = "none"
    /\ stage' = [stage EXCEPT ![i] = NoStage]
    /\ todo' = todo \ {i}
    /\ UNCHANGED <<row, dir, phase, op, reg>>

\* The stage is gone; the operation, or the entry's reconciliation, is done.
RemoveLast(i) ==
    /\ At(i, "remove")
    /\ stage[i].manifest = "none" /\ stage[i].files = "none"
    /\ stage' = [stage EXCEPT ![i] = NoStage]
    /\ op' = NoOp
    /\ todo' = todo \ {i}
    /\ UNCHANGED <<row, dir, phase, reg>>

\* RemoveAll fails half way and the rest of the stage stays.
RemoveFails(i) ==
    /\ phase = "up"
    /\ At(i, "remove")
    /\ op' = NoOp
    /\ UNCHANGED <<row, tree, phase, todo, reg>>

-----------------------------------------------------------------------------
(* Start and end of the process *)

\* The entries of the quarantine, complete or not.
Staged == {i \in Ids : stage[i].dir}

\* A manifest is read when it was written to its end.
Readable(i) == stage[i].manifest = "good"

\* ReconcileDeletionQuarantine lists the quarantine.
Boot ==
    /\ phase \in {"down", "refused", "failed"}
    /\ phase' = "reconciling"
    /\ todo' = Staged
    /\ UNCHANGED <<row, tree, op, reg>>

Entry(i) == phase = "reconciling" /\ op = NoOp /\ i \in todo

Purge(i) == op' = [id |-> i, files |-> TRUE, step |-> "remove"]

\* Wrong on purpose: a readable stage is purged whatever the row says.
ReconcilePurgeBlindly(i) ==
    /\ Entry(i)
    /\ Readable(i)
    /\ Purge(i)
    /\ UNCHANGED <<row, tree, phase, todo, reg>>

\* No row: the deletion was committed, and is completed.
ReconcilePurge(i) ==
    /\ Entry(i)
    /\ Readable(i)
    /\ ~Registered(i)
    /\ Purge(i)
    /\ UNCHANGED <<row, tree, phase, todo, reg>>

\* A row and no staged files: the stage is dropped if the directory is there.
ReconcileClean(i) ==
    /\ Entry(i)
    /\ Readable(i)
    /\ Registered(i)
    /\ stage[i].files = "none" /\ dir[row[i]]
    /\ Purge(i)
    /\ UNCHANGED <<row, tree, phase, todo, reg>>

\* A row and staged files: the directory moves back.
ReconcileRestore(i) ==
    /\ Entry(i)
    /\ Readable(i)
    /\ Registered(i)
    /\ stage[i].files # "none" /\ ~dir[row[i]]
    /\ dir' = [dir EXCEPT ![row[i]] = TRUE]
    /\ stage' = [stage EXCEPT ![i].files = "none"]
    /\ Purge(i)
    /\ UNCHANGED <<row, phase, todo, reg>>

\* Anything else is preserved, and the start fails.
ReconcileRefuses(i) ==
    /\ Entry(i)
    /\ \/ ~Readable(i)
       \/ Registered(i) /\ (stage[i].files = "none") # dir[row[i]]
    /\ phase' = "refused"
    /\ todo' = {}
    /\ UNCHANGED <<row, tree, op, reg>>

\* The quarantine cannot be listed or an entry not be read, measured, moved or
\* removed, the database does not answer: the start fails where it is.
ReconcileFails ==
    /\ phase = "reconciling"
    /\ phase' = "failed"
    /\ todo' = {}
    /\ op' = NoOp
    /\ UNCHANGED <<row, tree, reg>>

\* Every entry is reconciled and the service goes on.
Reconciled ==
    /\ phase = "reconciling"
    /\ op = NoOp
    /\ todo = {}
    /\ phase' = "up"
    /\ UNCHANGED <<row, tree, todo, op, reg>>

\* The process ends, at any point.
Crash ==
    /\ phase \in {"reconciling", "up"}
    /\ phase' = "down"
    /\ todo' = {}
    /\ op' = NoOp
    /\ reg' = [c \in Registrars |-> NoPath]
    /\ UNCHANGED <<row, tree>>

Next ==
    \/ Boot \/ Reconciled \/ ReconcileFails \/ Crash
    \/ \E c \in Registrars : RegisterAdd(c) \/ \E p \in Paths : RegisterCheck(c, p)
    \/ \E i \in Ids :
         \/ \E files \in BOOLEAN : DeleteBegin(i, files)
         \/ DeleteMkdir(i) \/ DeleteCreate(i) \/ DeleteWrite(i) \/ DeleteGivesUp(i)
         \/ DeleteRename(i) \/ DeleteCommit(i) \/ DeleteCommitFails(i) \/ DeleteRestore(i)
         \/ RemoveSome(i) \/ RemoveLast(i) \/ RemoveFails(i)
         \/ ReconcilePurge(i) \/ ReconcileClean(i) \/ ReconcileRestore(i) \/ ReconcileRefuses(i)

Spec == Init /\ [][Next]_vars

\* What the holder of the lock does next when nothing fails.
HolderStep ==
    \E i \in Ids : \/ DeleteMkdir(i) \/ DeleteCreate(i) \/ DeleteWrite(i) \/ DeleteRename(i)
                   \/ DeleteCommit(i) \/ DeleteRestore(i) \/ RemoveSome(i) \/ RemoveLast(i)

\* What a starting service does with the next entry, or after the last.
StartStep ==
    \/ Reconciled
    \/ \E i \in Ids : ReconcilePurge(i) \/ ReconcileClean(i) \/ ReconcileRestore(i) \/ ReconcileRefuses(i)

\* A running goroutine runs on.
FairSpec == Spec /\ WF_vars(HolderStep) /\ WF_vars(StartStep)

-----------------------------------------------------------------------------
(* Properties *)

\* The next start has one reason only to refuse what an interrupted deletion
\* left behind, an unreadable manifest: never a directory that is in neither
\* place, nor one that is in both (registry.go:451-470).  A start that an I/O
\* error ends is "failed" and says nothing of the entry.
RefusedOnlyForManifest ==
    phase = "refused" => \E i \in Staged : ~Readable(i)

\* A row keeps its directory until it is deleted: it is in its place, or whole in
\* the row's own stage beside a manifest that the next start can read, unless the
\* row was added after the directory had gone (registry.go:626-644).
KeepsItsDirectory ==
    [][\A i \in Ids :
         Registered(i) /\ (dir[row[i]] \/ stage[i].files = "whole")
           => \/ row'[i] = "gone"
              \/ dir'[row[i]]
              \/ stage'[i].files = "whole" /\ Readable(i)']_vars

\* Registry.mu is always given back: no outcome of a deletion leaves later
\* registrations and deletions waiting.  And a start ends, in a service that
\* listens or in a refusal (registry.go:559-560, 578-589, 421-481).
NothingHangs ==
    /\ op # NoOp ~> op = NoOp
    /\ phase = "reconciling" ~> phase # "reconciling"

\* The claim of registry.go:405-408: an interrupted deletion is completed or
\* rolled back, so what a deletion leaves behind never makes a start fail.
InterruptedDeletionRecovers == phase # "refused"
=============================================================================
