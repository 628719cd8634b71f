-------------------------- MODULE ModelDeletionProofs --------------------------
(* Proofs about ModelDeletion for every set of ids, directories and requests  *)
(* that register.                                                             *)
EXTENDS ModelDeletion, TLAPS

-----------------------------------------------------------------------------
(* The inductive invariant *)

\* No two rows refer to one directory.
Unique == \A i, j \in Ids : Registered(i) /\ row[i] = row[j] => i = j

\* What a deletion left of an id.  While its row is there its directory is in exactly
\* one of two places, and whole.
StageSound(i) ==
    /\ ~stage[i].dir => stage[i].manifest = "none" /\ stage[i].files = "none"
    /\ stage[i].dir => row[i] # "unused"
    /\ Registered(i) /\ stage[i].dir => (stage[i].files = "none" <=> dir[row[i]])
    /\ Registered(i) /\ stage[i].files # "none" => stage[i].files = "whole" /\ Readable(i)

\* How far the holder of the lock is.
HolderSound ==
    op # NoOp =>
        /\ op.step # "remove" => phase = "up" /\ Registered(op.id)
        /\ op.step \in {"mkdir", "create", "write", "rename"} => dir[row[op.id]]
        /\ op.step \in {"create", "write", "rename", "restore", "remove"} => stage[op.id].dir
        /\ op.step = "rename" => Readable(op.id)
        /\ op.step = "commit" /\ op.files => stage[op.id].dir /\ stage[op.id].files = "whole"
        /\ op.step = "restore" => stage[op.id].files = "whole"
        /\ op.step = "remove" /\ Registered(op.id) => stage[op.id].files = "none" /\ dir[row[op.id]]

\* What a start still has to reconcile is there, and nothing runs before or after it.
PhaseSound ==
    /\ todo \subseteq Staged
    /\ phase # "reconciling" => todo = {}
    /\ phase \in {"down", "refused", "failed"} => op = NoOp
    /\ RefusedOnlyForManifest

IInv == TypeOK /\ Unique /\ (\A i \in Ids : StageSound(i)) /\ HolderSound /\ PhaseSound

-----------------------------------------------------------------------------
(* Types and updates *)

StageType == [dir : BOOLEAN, manifest : {"none", "torn", "good"}, files : {"none", "part", "whole"}]
HolderType == [id : Ids, files : BOOLEAN, step : Step]

\* The holder of the lock is a record of its type.
LEMMA OpTyped == TypeOK /\ op # NoOp => op \in HolderType
BY DEF TypeOK, HolderType

\* NoOp is no operation.
LEMMA NoOpDiffers == \A o \in HolderType : o # NoOp
<1>1. \A o \in HolderType : o.step # "none"
  BY DEF HolderType, Step
<1>2. NoOp.step = "none"
  BY DEF NoOp
<1> QED
  BY <1>1, <1>2

\* The holder of the lock goes to another step.
LEMMA GoesOn ==
    ASSUME TypeOK, op # NoOp, NEW s \in Step, Goto(s)
    PROVE  /\ op' \in HolderType /\ op' # NoOp
           /\ op'.id = op.id /\ op'.files = op.files /\ op'.step = s
<1>1. op \in HolderType
  BY OpTyped
<1>2. /\ op' \in HolderType /\ op'.id = op.id /\ op'.files = op.files /\ op'.step = s
  BY <1>1 DEF Goto, HolderType
<1> QED
  BY <1>2, NoOpDiffers

\* What an update of one stage leaves.
StageBut(i) == /\ stage' \in [Ids -> StageType]
               /\ \A j \in Ids \ {i} : stage'[j] = stage[j]

\* The manifest of one stage changes.
LEMMA ManifestChanges ==
    ASSUME TypeOK, NEW i \in Ids, NEW m \in {"none", "torn", "good"},
           stage' = [stage EXCEPT ![i].manifest = m]
    PROVE  StageBut(i) /\ stage'[i].dir = stage[i].dir /\ stage'[i].manifest = m
           /\ stage'[i].files = stage[i].files
<1>1. stage \in [Ids -> StageType]
  BY DEF TypeOK, StageType
<1>2. stage'[i] = [stage[i] EXCEPT !.manifest = m] /\ \A j \in Ids \ {i} : stage'[j] = stage[j]
  BY <1>1
<1>3. stage'[i] \in StageType /\ stage'[i].manifest = m
  BY <1>1, <1>2 DEF StageType
<1>4. (stage'[i].dir <=> stage[i].dir) /\ stage'[i].files = stage[i].files
  BY <1>1, <1>2 DEF StageType
<1>5. stage' \in [Ids -> StageType]
  BY <1>1, <1>2, <1>3
<1>6. stage'[i].dir = stage[i].dir
  BY <1>1, <1>2 DEF StageType
<1> QED
  BY <1>2, <1>3, <1>4, <1>5, <1>6 DEF StageBut

\* The files of one stage change.
LEMMA FilesChange ==
    ASSUME TypeOK, NEW i \in Ids, NEW f \in {"none", "part", "whole"},
           stage' = [stage EXCEPT ![i].files = f]
    PROVE  StageBut(i) /\ stage'[i].dir = stage[i].dir /\ stage'[i].manifest = stage[i].manifest
           /\ stage'[i].files = f
<1>1. stage \in [Ids -> StageType]
  BY DEF TypeOK, StageType
<1>2. stage'[i] = [stage[i] EXCEPT !.files = f] /\ \A j \in Ids \ {i} : stage'[j] = stage[j]
  BY <1>1
<1>3. stage'[i] \in StageType /\ stage'[i].files = f
  BY <1>1, <1>2 DEF StageType
<1>4. stage'[i].manifest = stage[i].manifest
  BY <1>1, <1>2 DEF StageType
<1>5. stage' \in [Ids -> StageType]
  BY <1>1, <1>2, <1>3
<1>6. stage'[i].dir = stage[i].dir
  BY <1>1, <1>2 DEF StageType
<1> QED
  BY <1>2, <1>3, <1>4, <1>5, <1>6 DEF StageBut

\* A step on one id leaves the rows and the stages of the others, and their
\* directories too, since no two rows share one.
Others(i) ==
    /\ \A j \in Ids \ {i} : row'[j] = row[j] /\ stage'[j] = stage[j]
    /\ \A p \in Paths : p # row[i] => (dir'[p] <=> dir[p])

\* A step on one id leaves the stages of the others sound, directories being unique.
LEMMA OthersSound ==
    ASSUME IInv, NEW i \in Ids, Registered(i) \/ dir' = dir, Others(i), NEW j \in Ids \ {i}
    PROVE  StageSound(j)'
<1>1. row'[j] = row[j] /\ stage'[j] = stage[j]
  BY DEF Others
<1>2. Registered(j) => (dir'[row[j]] <=> dir[row[j]])
  BY DEF IInv, Unique, Others, Registered
<1> QED
  BY <1>1, <1>2 DEF IInv, StageSound, Registered, Readable

\* What a step of the holder of the lock, on one id, is shown to keep.
LEMMA StepKeeps ==
    ASSUME IInv, NEW i \in Ids, phase' = phase, phase \in {"up", "reconciling"},
           TypeOK', Unique', Registered(i) \/ dir' = dir, Others(i), StageSound(i)', HolderSound',
           todo' \subseteq todo, i \in todo' => stage'[i].dir
    PROVE  IInv'
<1>1. \A j \in Ids : StageSound(j)'
  BY OthersSound
<1>2. todo' \subseteq Staged'
  BY DEF IInv, PhaseSound, Staged, Others
<1>3. PhaseSound'
  BY <1>2 DEF IInv, PhaseSound, RefusedOnlyForManifest
<1> QED
  BY <1>1, <1>3 DEF IInv

\* While the lock is held the service runs or starts.
LEMMA Holding == IInv /\ op # NoOp => phase \in {"up", "reconciling"} /\ op.id \in Ids /\ op.step \in Step
BY OpTyped DEF IInv, PhaseSound, TypeOK, HolderType

\* A step that changes neither a row nor a directory.
LEMMA StageSteps ==
    ASSUME IInv, NEW i \in Ids, op # NoOp, UNCHANGED <<row, dir, phase, reg>>,
           StageBut(i), op' \in {NoOp} \cup HolderType, StageSound(i)', HolderSound',
           todo' \subseteq todo, i \in todo' => stage'[i].dir
    PROVE  IInv'
<1>1. phase \in {"up", "reconciling"}
  BY Holding
<1>2. TypeOK'
  <2>1. /\ row' \in [Ids -> Paths \cup {"unused", "gone"}] /\ dir' \in [Paths -> BOOLEAN]
        /\ phase' \in {"down", "reconciling", "refused", "failed", "up"} /\ todo' \in SUBSET Ids
        /\ reg' \in [Registrars -> Paths \cup {NoPath}]
    BY DEF IInv, TypeOK
  <2>2. stage' \in [Ids -> StageType] /\ op' \in {NoOp} \cup HolderType
    BY DEF StageBut
  <2> QED
    BY <2>1, <2>2 DEF TypeOK, StageType, HolderType
<1>3. Unique'
  BY DEF IInv, Unique, Registered
<1>4. Others(i)
  BY DEF Others, StageBut
<1> QED
  BY <1>1, <1>2, <1>3, <1>4, StepKeeps

\* The lock is given back and nothing else changes.
LEMMA GivesUp ==
    ASSUME IInv, op # NoOp, op' = NoOp, UNCHANGED <<row, tree, phase, todo, reg>>
    PROVE  IInv'
<1>1. PICK i \in Ids : i = op.id
  BY Holding
<1>2. StageBut(i)
  BY DEF StageBut, IInv, TypeOK, StageType, tree
<1>3. StageSound(i)'
  BY <1>1 DEF IInv, StageSound, Registered, Readable, tree
<1>4. HolderSound'
  BY DEF HolderSound
<1>5. i \in todo' => stage'[i].dir
  BY DEF IInv, PhaseSound, Staged, tree
<1> QED
  BY <1>1, <1>2, <1>3, <1>4, <1>5, StageSteps DEF tree

-----------------------------------------------------------------------------
(* One lemma per action of a deletion *)

\* The deletion begins with a registered row, and its directory if it takes the files.
LEMMA DeleteBeginKeeps == ASSUME IInv, NEW i \in Ids, NEW files \in BOOLEAN, DeleteBegin(i, files) PROVE IInv'
<1> DEFINE to == IF files THEN "mkdir" ELSE "commit"
<1>1. phase = "up" /\ op = NoOp /\ Registered(i) /\ (files => dir[row[i]])
      /\ op' = [id |-> i, files |-> files, step |-> to] /\ UNCHANGED <<row, dir, stage, phase, todo, reg>>
  BY DEF DeleteBegin, tree
<1>2. op' \in HolderType /\ op'.id = i /\ op'.step = to /\ op'.files = files
  BY <1>1 DEF HolderType, Step
<1>3. to \in {"mkdir", "commit"} /\ (to = "mkdir" => files) /\ (files => to = "mkdir")
  OBVIOUS
<1> HIDE DEF to
<1>4. TypeOK'
  BY <1>1, <1>2 DEF IInv, TypeOK, HolderType
<1>5. Unique' /\ Others(i)
  BY <1>1 DEF IInv, Unique, Others, Registered
<1>6. StageSound(i)'
  BY <1>1 DEF IInv, StageSound, Registered, Readable
<1>7. HolderSound'
  <2>1. ~(op'.step = "commit" /\ op'.files)
    BY <1>2, <1>3
  <2> QED
    BY <1>1, <1>2, <1>3, <2>1 DEF HolderSound, Registered
<1>8. i \in todo' => stage'[i].dir
  BY <1>1 DEF IInv, PhaseSound
<1> QED
  BY <1>1, <1>4, <1>5, <1>6, <1>7, <1>8, StepKeeps

\* A new stage is empty.
LEMMA DeleteMkdirKeeps == ASSUME IInv, NEW i \in Ids, DeleteMkdir(i) PROVE IInv'
<1>1. op # NoOp /\ op.id = i /\ op.step = "mkdir" /\ UNCHANGED <<row, dir, phase, todo, reg>>
  BY DEF DeleteMkdir, At
<1>2. CASE stage[i].dir
  BY <1>1, <1>2, GivesUp DEF DeleteMkdir, tree
<1>3. CASE ~stage[i].dir
  <2>1. stage' = [stage EXCEPT ![i] = [NoStage EXCEPT !.dir = TRUE]] /\ Goto("create")
    BY <1>3 DEF DeleteMkdir
  <2>2. op' \in HolderType /\ op'.id = i /\ op'.step = "create"
    BY <1>1, <2>1, GoesOn DEF IInv, Step
  <2>3. StageBut(i) /\ stage'[i].dir /\ stage'[i].manifest = "none" /\ stage'[i].files = "none"
    BY <2>1 DEF StageBut, StageType, NoStage, IInv, TypeOK
  <2>4. Registered(i) /\ dir[row[i]] /\ phase = "up"
    BY <1>1 DEF IInv, HolderSound
  <2>5. row'[i] \in Paths /\ dir'[row'[i]]
    BY <1>1, <2>4 DEF Registered
  <2>6. StageSound(i)'
    BY <2>3, <2>5, ModelDeletionAssumption DEF StageSound, Registered, ModelDeletionAssumption
  <2>7. HolderSound'
    BY <1>1, <2>2, <2>3, <2>4, <2>5 DEF HolderSound, Registered
  <2> QED
    BY <1>1, <2>2, <2>3, <2>6, <2>7, StageSteps
<1> QED
  BY <1>2, <1>3

\* The manifest is created and written in the stage that was made.
LEMMA ManifestSteps == ASSUME IInv, NEW i \in Ids, DeleteCreate(i) \/ DeleteWrite(i) PROVE IInv'
<1>1. PICK to \in {"write", "rename"}, m \in {"torn", "good"} :
        /\ op # NoOp /\ op.id = i /\ op.step \in {"create", "write"}
        /\ stage' = [stage EXCEPT ![i].manifest = m] /\ Goto(to) /\ (to = "rename" => m = "good")
        /\ UNCHANGED <<row, dir, phase, todo, reg>>
  BY DEF DeleteCreate, DeleteWrite, At
<1>2. op' \in HolderType /\ op'.id = i /\ op'.step = to
  BY <1>1, GoesOn DEF IInv, Step
<1>3. StageBut(i) /\ stage'[i].dir = stage[i].dir /\ stage'[i].manifest = m /\ stage'[i].files = stage[i].files
  BY <1>1, ManifestChanges DEF IInv
<1>4. Registered(i) /\ dir[row[i]] /\ phase = "up" /\ stage[i].dir
  BY <1>1 DEF IInv, HolderSound
<1>5. stage[i].files = "none" /\ row[i] # "unused"
  BY <1>4 DEF IInv, StageSound
<1>6. StageSound(i)'
  BY <1>1, <1>3, <1>4, <1>5 DEF StageSound, Registered
<1>7. HolderSound'
  BY <1>1, <1>2, <1>3, <1>4 DEF HolderSound, Registered, Readable
<1> QED
  BY <1>1, <1>2, <1>3, <1>4, <1>6, <1>7, StageSteps

\* A deletion that gives up before the rename leaves the directory in its place.
LEMMA DeleteGivesUpKeeps == ASSUME IInv, NEW i \in Ids, DeleteGivesUp(i) PROVE IInv'
<1>1. /\ op # NoOp /\ op.id = i /\ op.step \in {"create", "write", "rename"} /\ Goto("remove")
      /\ UNCHANGED <<row, dir, stage, phase, todo, reg>>
  BY DEF DeleteGivesUp, tree
<1>2. op' \in HolderType /\ op'.id = i /\ op'.step = "remove"
  BY <1>1, GoesOn DEF IInv, Step
<1>3. Registered(i) /\ dir[row[i]] /\ phase = "up" /\ stage[i].dir
  BY <1>1 DEF IInv, HolderSound
<1>4. stage[i].files = "none"
  BY <1>3 DEF IInv, StageSound
<1>5. StageBut(i)
  BY <1>1 DEF StageBut, IInv, TypeOK, StageType
<1>6. StageSound(i)'
  BY <1>1 DEF IInv, StageSound, Registered, Readable
<1>7. HolderSound'
  BY <1>1, <1>2, <1>3, <1>4 DEF HolderSound, Registered
<1> QED
  BY <1>1, <1>2, <1>3, <1>5, <1>6, <1>7, StageSteps

\* A directory moves between its place and the stage.
LEMMA DirMoves ==
    ASSUME IInv, NEW i \in Ids, Registered(i), NEW b \in BOOLEAN, dir' = [dir EXCEPT ![row[i]] = b],
           row' = row, StageBut(i)
    PROVE  /\ dir' \in [Paths -> BOOLEAN] /\ (dir'[row'[i]] <=> b) /\ Others(i) /\ Unique'
           /\ Registered(i)'
<1>1. dir \in [Paths -> BOOLEAN] /\ row[i] \in Paths
  BY DEF IInv, TypeOK, Registered
<1>2. dir' \in [Paths -> BOOLEAN] /\ (dir'[row[i]] <=> b) /\ \A p \in Paths : p # row[i] => dir'[p] = dir[p]
  BY <1>1
<1>3. Others(i)
  BY <1>2 DEF Others, StageBut
<1>4. Unique'
  BY DEF IInv, Unique, Registered
<1> QED
  BY <1>2, <1>3, <1>4 DEF Registered

\* Only a stage whose manifest is readable takes the files.
LEMMA DeleteRenameKeeps == ASSUME IInv, NEW i \in Ids, DeleteRename(i) PROVE IInv'
<1>1. /\ op # NoOp /\ op.id = i /\ op.step = "rename" /\ dir' = [dir EXCEPT ![row[i]] = FALSE]
      /\ stage' = [stage EXCEPT ![i].files = "whole"] /\ Goto("commit")
      /\ UNCHANGED <<row, phase, todo, reg>>
  BY DEF DeleteRename, At
<1>2. op' \in HolderType /\ op'.id = i /\ op'.step = "commit"
  BY <1>1, GoesOn DEF IInv, Step
<1>3. StageBut(i) /\ stage'[i].dir = stage[i].dir /\ stage'[i].manifest = stage[i].manifest
      /\ stage'[i].files = "whole"
  BY <1>1, FilesChange DEF IInv
<1>4. Registered(i) /\ phase = "up" /\ stage[i].dir /\ Readable(i) /\ row[i] # "unused"
  BY <1>1 DEF IInv, HolderSound, StageSound
<1>5. dir' \in [Paths -> BOOLEAN] /\ ~dir'[row'[i]] /\ Others(i) /\ Unique' /\ Registered(i)'
  BY <1>1, <1>3, <1>4, DirMoves
<1>6. TypeOK'
  BY <1>1, <1>2, <1>3, <1>5 DEF IInv, TypeOK, StageBut, StageType, HolderType
<1>7. StageSound(i)'
  BY <1>1, <1>3, <1>4, <1>5 DEF StageSound, Readable
<1>8. HolderSound'
  BY <1>1, <1>2, <1>3, <1>4, <1>5 DEF HolderSound
<1> QED
  BY <1>1, <1>3, <1>4, <1>5, <1>6, <1>7, <1>8, StepKeeps

\* A committed row is no longer registered, so its stage may go.
LEMMA DeleteCommitKeeps == ASSUME IInv, NEW i \in Ids, DeleteCommit(i) PROVE IInv'
<1>1. /\ op # NoOp /\ op.id = i /\ op.step = "commit" /\ row' = [row EXCEPT ![i] = "gone"]
      /\ IF op.files THEN Goto("remove") ELSE op' = NoOp
      /\ UNCHANGED <<dir, stage, phase, todo, reg>>
  BY DEF DeleteCommit, At, tree
<1>2. row'[i] = "gone" /\ (\A j \in Ids \ {i} : row'[j] = row[j]) /\ ~Registered(i)'
  BY <1>1, ModelDeletionAssumption DEF IInv, TypeOK, Registered, ModelDeletionAssumption
<1>3. op' = NoOp \/ (op' \in HolderType /\ op'.id = i /\ op'.step = "remove" /\ stage[i].dir)
  <2>1. CASE op.files
    <3>1. op' \in HolderType /\ op'.id = i /\ op'.step = "remove"
      BY <1>1, <2>1, GoesOn DEF IInv, Step
    <3> QED
      BY <1>1, <2>1, <3>1 DEF IInv, HolderSound
  <2> QED
    BY <1>1, <2>1
<1>4. phase = "up"
  BY <1>1 DEF IInv, HolderSound
<1>5. TypeOK'
  <2>1. row' \in [Ids -> Paths \cup {"unused", "gone"}]
    BY <1>1 DEF IInv, TypeOK
  <2> QED
    BY <1>1, <1>3, <2>1 DEF IInv, TypeOK, HolderType
<1>6. Unique' /\ Others(i)
  BY <1>1, <1>2 DEF IInv, Unique, Others, Registered
<1>7. StageSound(i)'
  BY <1>1, <1>2 DEF IInv, StageSound
<1>8. HolderSound'
  BY <1>1, <1>2, <1>3 DEF HolderSound
<1>9. i \in todo' => stage'[i].dir
  BY <1>1 DEF IInv, PhaseSound, Staged
<1> QED
  BY <1>1, <1>4, <1>5, <1>6, <1>7, <1>8, <1>9, StepKeeps

\* A failed commit goes back to the row that is still registered.
LEMMA DeleteCommitFailsKeeps == ASSUME IInv, NEW i \in Ids, DeleteCommitFails(i) PROVE IInv'
<1>1. /\ op # NoOp /\ op.id = i /\ op.step = "commit"
      /\ IF op.files THEN Goto("restore") ELSE op' = NoOp
      /\ UNCHANGED <<row, tree, phase, todo, reg>>
  BY DEF DeleteCommitFails, At
<1>2. CASE ~op.files
  BY <1>1, <1>2, GivesUp
<1>3. CASE op.files
  <2>1. op' \in HolderType /\ op'.id = i /\ op'.step = "restore"
    BY <1>1, <1>3, GoesOn DEF IInv, Step
  <2>2. Registered(i) /\ phase = "up" /\ stage[i].dir /\ stage[i].files = "whole"
    BY <1>1, <1>3 DEF IInv, HolderSound
  <2>3. StageBut(i)
    BY <1>1 DEF StageBut, IInv, TypeOK, StageType, tree
  <2>4. StageSound(i)'
    BY <1>1 DEF IInv, StageSound, Registered, Readable, tree
  <2>5. HolderSound'
    BY <1>1, <2>1, <2>2 DEF HolderSound, Registered, tree
  <2> QED
    BY <1>1, <2>1, <2>2, <2>3, <2>4, <2>5, StageSteps DEF tree
<1> QED
  BY <1>2, <1>3

\* The directory comes back and its stage is to be removed: the end of a restore, and
\* of a reconciliation.
LEMMA ComesBack ==
    ASSUME IInv, NEW i \in Ids, Registered(i), stage[i].dir, phase \in {"up", "reconciling"},
           dir' = [dir EXCEPT ![row[i]] = TRUE], stage' = [stage EXCEPT ![i].files = "none"],
           op' \in HolderType, op'.id = i, op'.step = "remove", UNCHANGED <<row, phase, todo, reg>>
    PROVE  IInv'
<1>1. StageBut(i) /\ stage'[i].dir = stage[i].dir /\ stage'[i].manifest = stage[i].manifest
      /\ stage'[i].files = "none"
  BY FilesChange DEF IInv
<1>2. row[i] # "unused"
  BY DEF IInv, StageSound
<1>3. dir' \in [Paths -> BOOLEAN] /\ dir'[row'[i]] /\ Others(i) /\ Unique' /\ Registered(i)'
  BY <1>1, DirMoves
<1>4. TypeOK'
  BY <1>1, <1>3 DEF IInv, TypeOK, StageBut, StageType, HolderType
<1>5. StageSound(i)'
  BY <1>1, <1>2, <1>3 DEF StageSound
<1>6. HolderSound'
  BY <1>1, <1>3 DEF HolderSound
<1> QED
  BY <1>1, <1>3, <1>4, <1>5, <1>6, StepKeeps

\* The files go back to the directory they came from, or stay staged with their manifest.
LEMMA DeleteRestoreKeeps == ASSUME IInv, NEW i \in Ids, DeleteRestore(i) PROVE IInv'
<1>1. op # NoOp /\ op.id = i /\ op.step = "restore" /\ UNCHANGED <<row, phase, todo, reg>>
  BY DEF DeleteRestore, At
<1>2. CASE op' = NoOp /\ UNCHANGED tree
  BY <1>1, <1>2, GivesUp
<1>3. CASE /\ dir' = [dir EXCEPT ![row[i]] = TRUE] /\ stage' = [stage EXCEPT ![i].files = "none"]
           /\ Goto("remove")
  <2>1. op' \in HolderType /\ op'.id = i /\ op'.step = "remove"
    BY <1>1, <1>3, GoesOn DEF IInv, Step
  <2>2. Registered(i) /\ phase = "up" /\ stage[i].dir
    BY <1>1 DEF IInv, HolderSound
  <2> QED
    BY <1>1, <1>3, <2>1, <2>2, ComesBack
<1> QED
  BY <1>2, <1>3 DEF DeleteRestore

\* What is unlinked is no directory of a row.
LEMMA RemoveSomeKeeps == ASSUME IInv, NEW i \in Ids, RemoveSome(i) PROVE IInv'
<1>1. op # NoOp /\ op.id = i /\ op.step = "remove" /\ Unlink(i) /\ UNCHANGED <<row, dir, phase, todo, op, reg>>
  BY DEF RemoveSome, At
<1>2. stage[i].dir /\ (Registered(i) => stage[i].files = "none" /\ dir[row[i]]) /\ row[i] # "unused"
  BY <1>1 DEF IInv, HolderSound, StageSound
<1>3. /\ StageBut(i) /\ stage'[i].dir
      /\ Registered(i) => stage'[i].files = "none"
  <2>1. CASE stage' = [stage EXCEPT ![i].manifest = "none"]
    BY <1>2, <2>1, ManifestChanges DEF IInv
  <2>2. CASE stage[i].files = "whole" /\ stage' = [stage EXCEPT ![i].files = "part"]
    BY <1>2, <2>2, FilesChange DEF IInv
  <2>3. CASE stage[i].files = "part" /\ stage' = [stage EXCEPT ![i].files = "none"]
    BY <1>2, <2>3, FilesChange DEF IInv
  <2> QED
    BY <1>1, <2>1, <2>2, <2>3 DEF Unlink
<1>4. StageSound(i)'
  BY <1>1, <1>2, <1>3 DEF StageSound, Registered
<1>5. HolderSound'
  BY <1>1, <1>2, <1>3 DEF HolderSound, Registered
<1>6. op' \in {NoOp} \cup HolderType
  BY <1>1, OpTyped DEF IInv
<1> QED
  BY <1>1, <1>3, <1>4, <1>5, <1>6, StageSteps

\* A stage is removed only when no registered row has its files there.
LEMMA RemoveLastKeeps == ASSUME IInv, NEW i \in Ids, RemoveLast(i) PROVE IInv'
<1>1. /\ op # NoOp /\ stage' = [stage EXCEPT ![i] = NoStage] /\ op' = NoOp /\ todo' = todo \ {i}
      /\ UNCHANGED <<row, dir, phase, reg>>
  BY DEF RemoveLast, At
<1>2. StageBut(i) /\ ~stage'[i].dir /\ stage'[i].manifest = "none" /\ stage'[i].files = "none"
  BY <1>1 DEF StageBut, StageType, NoStage, IInv, TypeOK
<1>3. StageSound(i)'
  BY <1>2 DEF StageSound
<1>4. HolderSound'
  BY <1>1 DEF HolderSound
<1> QED
  BY <1>1, <1>2, <1>3, <1>4, StageSteps

-----------------------------------------------------------------------------
(* Reconciliation, start, crash and registration *)

\* An entry that is to be removed, its directory in its place if it has a row.
LEMMA PurgeKeeps ==
    ASSUME IInv, NEW i \in Ids, Entry(i), Purge(i), Registered(i) => stage[i].files = "none" /\ dir[row[i]],
           UNCHANGED <<row, tree, phase, todo, reg>>
    PROVE  IInv'
<1>1. phase = "reconciling" /\ stage[i].dir /\ op' \in HolderType /\ op'.id = i /\ op'.step = "remove"
  BY DEF Entry, Purge, HolderType, Step, IInv, PhaseSound, Staged
<1>2. TypeOK'
  BY <1>1 DEF IInv, TypeOK, HolderType, tree
<1>3. Unique' /\ Others(i)
  BY DEF IInv, Unique, Others, Registered, tree
<1>4. StageSound(i)'
  BY DEF IInv, StageSound, Registered, Readable, tree
<1>5. HolderSound'
  BY <1>1 DEF HolderSound, Registered, tree
<1> QED
  BY <1>1, <1>2, <1>3, <1>4, <1>5, StepKeeps DEF tree

\* Every outcome of the reconciliation of a stage fits its row.
LEMMA ReconcileKeeps ==
    ASSUME IInv, NEW i \in Ids, ReconcilePurge(i) \/ ReconcileClean(i) \/ ReconcileRestore(i)
    PROVE  IInv'
<1>1. CASE ReconcilePurge(i)
  BY <1>1, PurgeKeeps DEF ReconcilePurge
<1>2. CASE ReconcileClean(i)
  BY <1>2, PurgeKeeps DEF ReconcileClean
<1>3. CASE ReconcileRestore(i)
  <2>1. /\ phase = "reconciling" /\ stage[i].dir /\ op' \in HolderType /\ op'.id = i /\ op'.step = "remove"
        /\ Registered(i) /\ UNCHANGED <<row, phase, todo, reg>>
        /\ dir' = [dir EXCEPT ![row[i]] = TRUE] /\ stage' = [stage EXCEPT ![i].files = "none"]
    BY <1>3 DEF ReconcileRestore, Entry, Purge, HolderType, Step, IInv, PhaseSound, Staged
  <2> QED
    BY <2>1, ComesBack
<1> QED
  BY <1>1, <1>2, <1>3

\* Rows and the tree are as they were.
LEMMA TreeStays == IInv /\ UNCHANGED <<row, tree>> => Unique' /\ \A i \in Ids : StageSound(i)'
BY DEF IInv, Unique, StageSound, Registered, Readable, tree

\* A start refuses an entry only if its manifest cannot be read: a directory with a row
\* is in exactly one place.
LEMMA ReconcileRefusesKeeps == ASSUME IInv, NEW i \in Ids, ReconcileRefuses(i) PROVE IInv'
<1>1. /\ op = NoOp /\ i \in Staged /\ phase' = "refused" /\ todo' = {}
      /\ UNCHANGED <<row, dir, stage, op, reg>>
  BY DEF ReconcileRefuses, Entry, IInv, PhaseSound, tree
<1>2. ~Readable(i)
  <2>1. Registered(i) => (stage[i].files = "none" <=> dir[row[i]]) /\ dir[row[i]] \in BOOLEAN
    BY <1>1 DEF IInv, StageSound, Staged, TypeOK, Registered
  <2>2. ASSUME Registered(i) PROVE (stage[i].files = "none") = dir[row[i]]
    BY <2>1, <2>2
  <2> QED
    BY <2>2 DEF ReconcileRefuses
<1>3. PhaseSound'
  BY <1>1, <1>2 DEF PhaseSound, RefusedOnlyForManifest, Staged, Readable
<1>4. TypeOK'
  BY <1>1 DEF IInv, TypeOK
<1>5. HolderSound'
  BY <1>1 DEF HolderSound
<1> QED
  BY <1>1, <1>3, <1>4, <1>5, TreeStays DEF IInv, tree

\* A start has to reconcile what is staged.
LEMMA BootKeeps == ASSUME IInv, Boot PROVE IInv'
<1>1. /\ op = NoOp /\ phase' = "reconciling" /\ todo' = Staged /\ UNCHANGED <<row, dir, stage, op, reg>>
  BY DEF Boot, IInv, PhaseSound, tree
<1>2. PhaseSound'
  BY <1>1 DEF PhaseSound, RefusedOnlyForManifest, Staged
<1>3. TypeOK'
  BY <1>1 DEF IInv, TypeOK, Staged
<1>4. HolderSound'
  BY <1>1 DEF HolderSound
<1> QED
  BY <1>1, <1>2, <1>3, <1>4, TreeStays DEF IInv, tree

\* A start with nothing left to reconcile goes up.
LEMMA ReconciledKeeps == ASSUME IInv, Reconciled PROVE IInv'
<1>1. /\ op = NoOp /\ phase' = "up" /\ todo = {} /\ UNCHANGED <<row, dir, stage, todo, op, reg>>
  BY DEF Reconciled, tree
<1>2. PhaseSound'
  BY <1>1 DEF PhaseSound, RefusedOnlyForManifest, Staged
<1>3. TypeOK'
  BY <1>1 DEF IInv, TypeOK
<1>4. HolderSound'
  BY <1>1 DEF HolderSound
<1> QED
  BY <1>1, <1>2, <1>3, <1>4, TreeStays DEF IInv, tree

\* A start that an I/O error ends loses the holder of the lock, on which no stage depends.
LEMMA ReconcileFailsKeeps == ASSUME IInv, ReconcileFails PROVE IInv'
<1>1. op' = NoOp /\ phase' = "failed" /\ todo' = {} /\ UNCHANGED <<row, dir, stage, reg>>
  BY DEF ReconcileFails, tree
<1>2. PhaseSound'
  BY <1>1 DEF PhaseSound, RefusedOnlyForManifest, Staged
<1>3. TypeOK'
  BY <1>1 DEF IInv, TypeOK
<1>4. HolderSound'
  BY <1>1 DEF HolderSound
<1> QED
  BY <1>1, <1>2, <1>3, <1>4, TreeStays DEF IInv, tree

\* A crash loses the holder of the lock, on which no stage depends.
LEMMA CrashKeeps == ASSUME IInv, Crash PROVE IInv'
<1>1. /\ op' = NoOp /\ phase' = "down" /\ todo' = {} /\ UNCHANGED <<row, dir, stage>>
      /\ reg' = [c \in Registrars |-> NoPath]
  BY DEF Crash, tree
<1>2. PhaseSound'
  BY <1>1 DEF PhaseSound, RefusedOnlyForManifest, Staged
<1>3. TypeOK'
  BY <1>1 DEF IInv, TypeOK
<1>4. HolderSound'
  BY <1>1 DEF HolderSound
<1> QED
  BY <1>1, <1>2, <1>3, <1>4, TreeStays DEF IInv, tree

\* Looking at a directory changes no row.
LEMMA RegisterCheckKeeps == ASSUME IInv, NEW c \in Registrars, NEW p \in Paths, RegisterCheck(c, p) PROVE IInv'
<1>1. phase = "up" /\ reg' = [reg EXCEPT ![c] = p] /\ UNCHANGED <<row, dir, stage, phase, todo, op>>
  BY DEF RegisterCheck, tree
<1>2. PhaseSound'
  BY <1>1 DEF IInv, PhaseSound, RefusedOnlyForManifest, Staged
<1>3. TypeOK'
  BY <1>1 DEF IInv, TypeOK
<1>4. HolderSound'
  BY <1>1 DEF IInv, HolderSound, Registered, Readable
<1> QED
  BY <1>1, <1>2, <1>3, <1>4, TreeStays DEF IInv, tree

\* A row is added for a directory that no other row has.
LEMMA RegisterAddKeeps == ASSUME IInv, NEW c \in Registrars, RegisterAdd(c) PROVE IInv'
<1>1. phase = "up" /\ op = NoOp /\ reg[c] # NoPath /\ reg' = [reg EXCEPT ![c] = NoPath]
      /\ UNCHANGED <<dir, stage, phase, todo, op>>
  BY DEF RegisterAdd, tree
<1>2. PhaseSound' /\ HolderSound'
  BY <1>1 DEF IInv, PhaseSound, HolderSound, RefusedOnlyForManifest, Staged
<1>3. reg' \in [Registrars -> Paths \cup {NoPath}]
  BY <1>1 DEF IInv, TypeOK
<1>4. CASE UNCHANGED row
  <2>1. TypeOK'
    BY <1>1, <1>3, <1>4 DEF IInv, TypeOK
  <2> QED
    BY <1>1, <1>2, <1>4, <2>1, TreeStays DEF IInv, tree
<1>5. CASE /\ ~\E i \in Ids : row[i] = reg[c]
           /\ \E i \in Ids : row[i] = "unused" /\ row' = [row EXCEPT ![i] = reg[c]]
  <2>1. PICK i \in Ids : row[i] = "unused" /\ row' = [row EXCEPT ![i] = reg[c]]
    BY <1>5
  <2>2. reg[c] \in Paths
    BY <1>1 DEF IInv, TypeOK
  <2>3. row'[i] = reg[c] /\ \A j \in Ids \ {i} : row'[j] = row[j]
    BY <2>1 DEF IInv, TypeOK
  <2>4. ~stage[i].dir /\ stage[i].manifest = "none" /\ stage[i].files = "none"
    BY <2>1 DEF IInv, StageSound
  <2>5. Unique'
    BY <1>5, <2>3 DEF IInv, Unique, Registered
  <2>6. \A j \in Ids : StageSound(j)'
    BY <1>1, <2>3, <2>4 DEF IInv, StageSound, Registered, Readable
  <2>7. TypeOK'
    <3>1. row' \in [Ids -> Paths \cup {"unused", "gone"}]
      BY <2>1, <2>2 DEF IInv, TypeOK
    <3> QED
      BY <1>1, <1>3, <3>1 DEF IInv, TypeOK
  <2> QED
    BY <1>2, <2>5, <2>6, <2>7 DEF IInv
<1> QED
  BY <1>4, <1>5 DEF RegisterAdd

-----------------------------------------------------------------------------
(* The theorems *)

\* Nothing is registered or staged.
LEMMA InitIInv == Init => IInv
<1> SUFFICES ASSUME Init PROVE IInv
  OBVIOUS
<1>1. TypeOK
  BY DEF Init, TypeOK, NoStage
<1>2. \A i \in Ids : ~Registered(i)
  BY ModelDeletionAssumption DEF Init, Registered, ModelDeletionAssumption
<1>3. Unique
  BY <1>2 DEF Unique
<1>4. \A i \in Ids : StageSound(i)
  BY <1>2 DEF Init, StageSound, NoStage
<1>5. HolderSound /\ PhaseSound
  BY DEF Init, HolderSound, PhaseSound, RefusedOnlyForManifest
<1> QED
  BY <1>1, <1>3, <1>4, <1>5 DEF IInv

\* A stuttering step keeps everything.
LEMMA StutterKeeps == IInv /\ UNCHANGED vars => IInv'
<1> SUFFICES ASSUME IInv, UNCHANGED vars PROVE IInv'
  OBVIOUS
<1> USE DEF vars, tree
<1>1. TypeOK' /\ HolderSound'
  BY DEF IInv, TypeOK, HolderSound, Registered, Readable
<1>2. PhaseSound'
  BY DEF IInv, PhaseSound, RefusedOnlyForManifest, Staged, Readable
<1> QED
  BY <1>1, <1>2, TreeStays DEF IInv

\* Every step keeps the invariant.
LEMMA StepKeepsIInv == IInv /\ [Next]_vars => IInv'
<1>1. ASSUME IInv, Boot \/ Reconciled \/ ReconcileFails \/ Crash PROVE IInv'
  BY <1>1, BootKeeps, ReconciledKeeps, ReconcileFailsKeeps, CrashKeeps
<1>2. ASSUME IInv, NEW c \in Registrars, RegisterAdd(c) \/ \E p \in Paths : RegisterCheck(c, p) PROVE IInv'
  BY <1>2, RegisterAddKeeps, RegisterCheckKeeps
<1>3. ASSUME IInv, NEW i \in Ids, \/ \E files \in BOOLEAN : DeleteBegin(i, files)
                                  \/ DeleteMkdir(i) \/ DeleteCreate(i) \/ DeleteWrite(i)
                                  \/ DeleteGivesUp(i) \/ DeleteRename(i) \/ DeleteCommit(i)
      PROVE  IInv'
  BY <1>3, DeleteBeginKeeps, DeleteMkdirKeeps, ManifestSteps, DeleteGivesUpKeeps, DeleteRenameKeeps,
     DeleteCommitKeeps
<1>4. ASSUME IInv, NEW i \in Ids, \/ DeleteCommitFails(i) \/ DeleteRestore(i) \/ RemoveSome(i)
                                  \/ RemoveLast(i) \/ RemoveFails(i) \/ ReconcilePurge(i)
                                  \/ ReconcileClean(i) \/ ReconcileRestore(i) \/ ReconcileRefuses(i)
      PROVE  IInv'
  <2>1. CASE RemoveFails(i)
    BY <1>4, <2>1, GivesUp DEF RemoveFails, At
  <2> QED
    BY <1>4, <2>1, DeleteCommitFailsKeeps, DeleteRestoreKeeps, RemoveSomeKeeps, RemoveLastKeeps,
       ReconcileKeeps, ReconcileRefusesKeeps
<1>5. ASSUME IInv, Next PROVE IInv'
  BY <1>1, <1>2, <1>3, <1>4, <1>5 DEF Next
<1> QED
  BY <1>5, StutterKeeps

\* The inductive invariant, for any ids, directories and requests: while its row is
\* there a directory is in its place or whole in the row's own stage, never in both and
\* never in neither, between any two calls of a deletion, a crash and a start
\* (registry.go:559-600, 421-481).
THEOREM Inductive == Spec => []IInv
BY StepKeepsIInv, InitIInv, PTL DEF Spec

\* Every variable keeps its type.
THEOREM TypeCorrect == Spec => []TypeOK
<1>1. IInv => TypeOK
  BY DEF IInv
<1> QED
  BY <1>1, Inductive, PTL

\* A start has one reason only to refuse what an interrupted deletion left, a manifest
\* that cannot be read (registry.go:451-470).
THEOREM RefusedOnlyForManifestHolds == Spec => []RefusedOnlyForManifest
<1>1. IInv => RefusedOnlyForManifest
  BY DEF IInv, PhaseSound
<1> QED
  BY <1>1, Inductive, PTL

\* What a step leaves a row of its directory, whatever its manifest.
Keeps(i) ==
    Registered(i) /\ (dir[row[i]] \/ stage[i].files = "whole")
        => row'[i] = "gone" \/ dir'[row[i]] \/ stage'[i].files = "whole"

\* A step on the tree is a step on one id, and leaves that one its directory.
LEMMA StepKeepsDirectory == ASSUME IInv, Next PROVE \A i \in Ids : Keeps(i)
<1>1. CASE UNCHANGED tree
  BY <1>1 DEF Keeps, tree
<1>2. ASSUME NEW i \in Ids, StageBut(i), dir' = dir, Registered(i) => dir[row[i]]
      PROVE  \A j \in Ids : Keeps(j)
  BY <1>2 DEF Keeps, StageBut
<1>3. ASSUME NEW i \in Ids, Registered(i), NEW b \in BOOLEAN, dir' = [dir EXCEPT ![row[i]] = b],
             row' = row, StageBut(i), b \/ stage'[i].files = "whole"
      PROVE  \A j \in Ids : Keeps(j)
  <2>1. (dir'[row[i]] <=> b) /\ Others(i)
    BY <1>3, DirMoves
  <2>2. Keeps(i)
    BY <1>3, <2>1 DEF Keeps
  <2>3. ASSUME NEW j \in Ids \ {i} PROVE Keeps(j)
    <3>1. Registered(j) => row[j] # row[i]
      BY DEF IInv, Unique
    <3> QED
      BY <2>1, <3>1 DEF Keeps, Others, Registered
  <2> QED
    BY <2>2, <2>3
<1>4. ASSUME NEW i \in Ids, DeleteMkdir(i), ~stage[i].dir PROVE \A j \in Ids : Keeps(j)
  <2>1. StageBut(i) /\ dir' = dir
    <3>1. stage' = [stage EXCEPT ![i] = [NoStage EXCEPT !.dir = TRUE]] /\ dir' = dir
      BY <1>4 DEF DeleteMkdir
    <3> QED
      BY <3>1 DEF StageBut, StageType, NoStage, IInv, TypeOK
  <2>2. dir[row[i]]
    BY <1>4 DEF DeleteMkdir, At, IInv, HolderSound
  <2> QED
    BY <1>2, <2>1, <2>2
<1>5. ASSUME NEW i \in Ids, DeleteCreate(i) \/ DeleteWrite(i) PROVE \A j \in Ids : Keeps(j)
  <2>1. StageBut(i) /\ dir' = dir
    BY <1>5, ManifestChanges DEF DeleteCreate, DeleteWrite, IInv
  <2>2. dir[row[i]]
    BY <1>5 DEF DeleteCreate, DeleteWrite, At, IInv, HolderSound
  <2> QED
    BY <1>2, <2>1, <2>2
<1>6. ASSUME NEW i \in Ids, DeleteRename(i) PROVE \A j \in Ids : Keeps(j)
  <2>1. StageBut(i) /\ stage'[i].files = "whole"
    BY <1>6, FilesChange DEF DeleteRename, IInv
  <2>2. Registered(i)
    BY <1>6 DEF DeleteRename, At, IInv, HolderSound
  <2> QED
    BY <1>3, <1>6, <2>1, <2>2 DEF DeleteRename
<1>7. ASSUME NEW i \in Ids, DeleteRestore(i) \/ ReconcileRestore(i), ~UNCHANGED tree
      PROVE  \A j \in Ids : Keeps(j)
  <2>1. dir' = [dir EXCEPT ![row[i]] = TRUE] /\ stage' = [stage EXCEPT ![i].files = "none"] /\ row' = row
    BY <1>7 DEF DeleteRestore, ReconcileRestore
  <2>2. StageBut(i)
    BY <2>1, FilesChange DEF IInv
  <2>3. Registered(i)
    BY <1>7 DEF DeleteRestore, ReconcileRestore, At, IInv, HolderSound
  <2> QED
    BY <1>3, <2>1, <2>2, <2>3
<1>8. ASSUME NEW i \in Ids, RemoveSome(i) \/ RemoveLast(i) PROVE \A j \in Ids : Keeps(j)
  <2>1. dir' = dir /\ (Registered(i) => dir[row[i]])
    BY <1>8 DEF RemoveSome, RemoveLast, At, IInv, HolderSound
  <2>2. StageBut(i)
    <3>1. CASE stage' = [stage EXCEPT ![i].manifest = "none"]
      BY <3>1, ManifestChanges DEF IInv
    <3>2. CASE \E f \in {"none", "part"} : stage' = [stage EXCEPT ![i].files = f]
      BY <3>2, FilesChange DEF IInv
    <3>3. CASE stage' = [stage EXCEPT ![i] = NoStage]
      BY <3>3 DEF StageBut, StageType, NoStage, IInv, TypeOK
    <3> QED
      BY <1>8, <3>1, <3>2, <3>3 DEF RemoveSome, RemoveLast, Unlink
  <2> QED
    BY <1>2, <2>1, <2>2
<1>9. ASSUME \/ Boot \/ Reconciled \/ ReconcileFails \/ Crash
             \/ \E c \in Registrars : RegisterAdd(c) \/ \E p \in Paths : RegisterCheck(c, p)
             \/ \E i \in Ids : \/ \E files \in BOOLEAN : DeleteBegin(i, files)
                               \/ DeleteMkdir(i) /\ stage[i].dir
                               \/ DeleteGivesUp(i) \/ DeleteCommit(i) \/ DeleteCommitFails(i)
                               \/ RemoveFails(i) \/ ReconcilePurge(i) \/ ReconcileClean(i)
                               \/ ReconcileRefuses(i)
      PROVE  UNCHANGED tree
  BY <1>9 DEF Boot, Reconciled, ReconcileFails, Crash, RegisterAdd, RegisterCheck, DeleteBegin, DeleteMkdir, DeleteGivesUp,
              DeleteCommit, DeleteCommitFails, RemoveFails, ReconcilePurge, ReconcileClean,
              ReconcileRefuses, tree
<1> QED
  BY <1>1, <1>4, <1>5, <1>6, <1>7, <1>8, <1>9 DEF Next

\* A step that leaves files whole in a stage leaves a manifest there that can be read, so
\* the row's directory can be put back from it.
LEMMA StagedIsReadable ==
    ASSUME IInv', NEW i \in Ids, stage'[i].files = "whole"
    PROVE  row'[i] = "gone" \/ Readable(i)'
<1>1. stage'[i].dir /\ row'[i] # "unused"
  BY DEF IInv, TypeOK, StageSound
<1>2. row'[i] = "gone" \/ Registered(i)'
  BY <1>1 DEF IInv, TypeOK, Registered
<1> QED
  BY <1>2 DEF IInv, StageSound

\* A row keeps its directory until it is deleted, in its place or whole in the row's
\* own stage beside a manifest that can be read, whatever step fails and wherever the
\* process dies (registry.go:626-644).
THEOREM KeepsItsDirectoryHolds == Spec => KeepsItsDirectory
<1> DEFINE A == \A i \in Ids :
                  Registered(i) /\ (dir[row[i]] \/ stage[i].files = "whole")
                    => \/ row'[i] = "gone"
                       \/ dir'[row[i]]
                       \/ stage'[i].files = "whole" /\ Readable(i)'
<1>1. IInv /\ [Next]_vars => [A]_vars
  <2>1. ASSUME IInv, Next PROVE A
    <3>1. IInv'
      BY <2>1, StepKeepsIInv
    <3>2. \A i \in Ids : stage'[i].files = "whole" => row'[i] = "gone" \/ Readable(i)'
      BY <3>1, StagedIsReadable
    <3> QED
      BY <2>1, <3>2, StepKeepsDirectory DEF Keeps
  <2> QED
    BY <2>1
<1> QED
  BY <1>1, Inductive, PTL DEF Spec, KeepsItsDirectory
=============================================================================
