------------------------------ MODULE Download ------------------------------
(***************************************************************************)
(* The download service (ability/ability_download/downloader.go) with the  *)
(* SQLite rows it keeps, the Hugging Face CLI processes it runs, the       *)
(* request handlers that call it, the service's start, shutdown and crash, *)
(* and the registry operations that touch the same model rows.             *)
(*                                                                         *)
(* An action is one critical section of Downloader.mu (with the SQLite     *)
(* transaction made inside it), or one step of a goroutine between two of  *)
(* them.  A job's goroutine is `pc`; the counting semaphore `workers` is   *)
(* the channel of that name.                                               *)
(***************************************************************************)
EXTENDS Naturals, FiniteSets

CONSTANTS
    Jobs,           \* download ids
    Models,         \* ids of Hugging Face models
    Clients,        \* concurrent request handlers
    MaxWorkers,     \* capacity of Downloader.workers
    NoModel         \* the empty ModelID / a NULL model_id

ASSUME DownloadAssumption ==
    /\ MaxWorkers \in Nat \ {0}
    /\ NoModel \notin Models
    /\ IsFiniteSet(Jobs)

VARIABLES
    (* SQLite and the models root: survive a crash *)
    modelStatus, rowState, rowModel,
    files,          \* whether root/<model id> holds a whole model
    (* the service process *)
    phase,          \* "down", "restoring" (inside SetStore), "up"
    jobState,       \* Downloader.jobs[id].State; "none" is no entry
    jobModel,       \* Downloader.jobs[id].ModelID
    pc,             \* where the goroutine that owns the attempt is
    ctxDone,        \* Cancel has canceled the attempt's own context
    workers,        \* len(Downloader.workers)
    closed,         \* Downloader.closed; its context is canceled with it
    shut,           \* what Shutdown's caller knows: "no", "waiting", "drained", "timedout"
    terminalErr,    \* Downloader.terminalErr # nil
    req             \* one start or retry request per client, between its reads

durable == <<modelStatus, rowState, rowModel>>
service == <<closed, shut, terminalErr>>
memory  == <<jobState, jobModel, pc, ctxDone, workers, service, req>>
vars    == <<durable, files, phase, memory>>

Ledger == INSTANCE DownloadLedger

Active   == {"pending", "running"}
Terminal == {"succeeded", "failed", "canceled"}
State    == {"none"} \cup Active \cup Terminal

Claimable == {"registered", "error", "failed", "canceled"}

ModelStatus == {"absent", "deleted", "downloading", "ready"} \cup Claimable

(* Goroutine positions, by the function they are in:                        *)
(*   await, granted, recheck           awaitWorker                          *)
(*   spawn                             startCommand before cmd.Start        *)
(*   live                              the CLI process exists               *)
(*   exitOk, exitBad                   it ended; the slot is still held     *)
(*   finSucceeded, finFailed, finCanceled   finish(j, outcome) is next      *)
Holding   == {"granted", "recheck", "spawn", "live", "exitOk", "exitBad"}
Finishing == {"finSucceeded", "finFailed", "finCanceled"}
Position  == {"idle", "await"} \cup Holding \cup Finishing

NoRequest == [stage |-> "idle"]
Request   == {NoRequest} \cup
             [stage : {"read", "accept"}, job : Jobs, model : Models, retry : BOOLEAN]

TypeOK ==
    /\ modelStatus \in [Models -> ModelStatus]
    /\ rowState \in [Jobs -> State]
    /\ rowModel \in [Jobs -> Models \cup {NoModel}]
    /\ files \in [Models -> {"incomplete", "complete"}]
    /\ phase \in {"down", "restoring", "up"}
    /\ jobState \in [Jobs -> State]
    /\ jobModel \in [Jobs -> Models \cup {NoModel}]
    /\ pc \in [Jobs -> Position]
    /\ ctxDone \in [Jobs -> BOOLEAN]
    /\ workers \in 0 .. MaxWorkers
    /\ closed \in BOOLEAN
    /\ shut \in {"no", "waiting", "drained", "timedout"}
    /\ terminalErr \in BOOLEAN
    /\ req \in [Clients -> Request]

\* Wrong on purpose: Shutdown closes the service and cancels no context.
CanceledOnlyByCaller(j) == ctxDone[j]

\* ctx.Err() # nil for the attempt: canceled by Cancel or by Shutdown.
Canceled(j) == ctxDone[j] \/ closed

Registered(m) == modelStatus[m] \notin {"absent", "deleted"}

-----------------------------------------------------------------------------
(* What is written to SQLite *)

\* Wrong on purpose: the status read without a lock is trusted.
PersistAcceptanceStale(j, m, retry, s) ==
    /\ IF retry THEN rowState[j] \in {"failed", "canceled"} /\ rowModel[j] = m
                ELSE rowState[j] = "none"
    /\ rowState' = [rowState EXCEPT ![j] = s]
    /\ rowModel' = [rowModel EXCEPT ![j] = m]
    /\ modelStatus' = [modelStatus EXCEPT ![m] = "downloading"]

\* Wrong on purpose: the row is accepted and the model is not claimed.
PersistAcceptanceUnclaimed(j, m, retry, s) ==
    /\ IF retry THEN rowState[j] \in {"failed", "canceled"} /\ rowModel[j] = m
                ELSE rowState[j] = "none"
    /\ modelStatus[m] \in Claimable
    /\ rowState' = [rowState EXCEPT ![j] = s]
    /\ rowModel' = [rowModel EXCEPT ![j] = m]
    /\ UNCHANGED modelStatus

\* persistAcceptanceLocked: insert the row, or reopen a failed or canceled one
\* of the same model, and claim the model, in one transaction.
PersistAcceptance(j, m, retry, s) ==
    /\ IF retry THEN rowState[j] \in {"failed", "canceled"} /\ rowModel[j] = m
                ELSE rowState[j] = "none"
    /\ modelStatus[m] \in Claimable
    /\ rowState' = [rowState EXCEPT ![j] = s]
    /\ rowModel' = [rowModel EXCEPT ![j] = m]
    /\ modelStatus' = [modelStatus EXCEPT ![m] = "downloading"]

\* persistLocked: upsert the row alone.
PersistRow(j, s) ==
    /\ rowState' = [rowState EXCEPT ![j] = s]
    /\ rowModel' = [rowModel EXCEPT ![j] = jobModel[j]]
    /\ UNCHANGED modelStatus

\* The model status that goes with a download state.
Published(s) == IF s \in Active THEN "downloading"
                ELSE IF s = "succeeded" THEN "ready"
                ELSE IF s = "canceled" THEN "canceled" ELSE "error"

\* Wrong on purpose: the row is settled and the model is left for later.
PersistTerminalRowOnly(j, m, s) == PersistRow(j, s)

\* persistTerminalLocked: upsert the row and settle its model together; the
\* transaction fails when the linked model is gone.
PersistTerminal(j, m, s) ==
    /\ m # NoModel => Registered(m)
    /\ rowState' = [rowState EXCEPT ![j] = s]
    /\ rowModel' = [rowModel EXCEPT ![j] = m]
    /\ modelStatus' = IF m = NoModel THEN modelStatus
                      ELSE [modelStatus EXCEPT ![m] = Published(s)]

-----------------------------------------------------------------------------
(* Start and restore *)

Init ==
    /\ modelStatus = [m \in Models |-> "absent"]
    /\ rowState = [j \in Jobs |-> "none"]
    /\ rowModel = [j \in Jobs |-> NoModel]
    /\ files = [m \in Models |-> "incomplete"]
    /\ phase = "down"
    /\ jobState = [j \in Jobs |-> "none"]
    /\ jobModel = [j \in Jobs |-> NoModel]
    /\ pc = [j \in Jobs |-> "idle"]
    /\ ctxDone = [j \in Jobs |-> FALSE]
    /\ workers = 0
    /\ closed = FALSE
    /\ shut = "no"
    /\ terminalErr = FALSE
    /\ req = [c \in Clients |-> NoRequest]

\* validateLinkedRestoredJob: an interrupted row must agree with its model.  Left out:
\* its being of Hugging Face, of the job's repository and revision, and without a path,
\* and the destination below the models root.  So it is when the row is claimed, and no
\* statement changes it before the end of the download.  (The models root stays.)
Restorable(j) ==
    rowState[j] \in Active /\ rowModel[j] # NoModel
      => modelStatus[rowModel[j]] = "downloading"

\* SetStore reads and validates every row before it changes one.
Boot ==
    /\ phase = "down"
    /\ \A j \in Jobs : Restorable(j)
    /\ phase' = "restoring"
    /\ UNCHANGED <<durable, files, memory>>

\* restore settles one interrupted row as canceled, in a transaction of its own.
\* (In the code by increasing id; here in any order.)
RestoreRow(j) ==
    /\ phase = "restoring"
    /\ rowState[j] \in Active
    /\ PersistTerminal(j, rowModel[j], "canceled")
    /\ UNCHANGED <<files, phase, memory>>

\* A failing transaction makes SetStore, and with it the whole start, fail.
RestoreFails ==
    /\ phase = "restoring"
    /\ \E j \in Jobs : rowState[j] \in Active
    /\ phase' = "down"
    /\ UNCHANGED <<durable, files, memory>>

\* Every interrupted row is settled: the table is the job map.
Restored ==
    /\ phase = "restoring"
    /\ \A j \in Jobs : rowState[j] \notin Active
    /\ phase' = "up"
    /\ jobState' = rowState
    /\ jobModel' = rowModel
    /\ UNCHANGED <<durable, files, pc, ctxDone, workers, service, req>>

\* The process is gone, by a crash or by exit.  Pdeathsig ends the CLI
\* processes with it; SQLite and the files stay as they are.
ProcessGone ==
    /\ phase' = "down"
    /\ jobState' = [j \in Jobs |-> "none"]
    /\ jobModel' = [j \in Jobs |-> NoModel]
    /\ pc' = [j \in Jobs |-> "idle"]
    /\ ctxDone' = [j \in Jobs |-> FALSE]
    /\ workers' = 0
    /\ closed' = FALSE
    /\ shut' = "no"
    /\ terminalErr' = FALSE
    /\ req' = [c \in Clients |-> NoRequest]
    /\ UNCHANGED <<durable, files>>

Crash == phase # "down" /\ ProcessGone

-----------------------------------------------------------------------------
(* Requests *)

\* DownloadModel is called with a job id and a model id.
CallStart(c, j, m) ==
    /\ phase = "up"
    /\ req[c] = NoRequest
    /\ req' = [req EXCEPT ![c] = [stage |-> "read", job |-> j, model |-> m, retry |-> FALSE]]
    /\ UNCHANGED <<durable, files, phase, jobState, jobModel, pc, ctxDone, workers,
                   service>>

\* Retry looks the job up, releases the lock and goes on as DownloadModel.
CallRetry(c, j) ==
    /\ phase = "up"
    /\ req[c] = NoRequest
    /\ jobState[j] \in {"failed", "canceled"}
    /\ jobModel[j] # NoModel
    /\ req' = [req EXCEPT ![c] =
                 [stage |-> "read", job |-> j, model |-> jobModel[j], retry |-> TRUE]]
    /\ UNCHANGED <<durable, files, phase, jobState, jobModel, pc, ctxDone, workers,
                   service>>

\* downloadModel reads the model's status without any lock.
ReadModel(c) ==
    /\ phase = "up"
    /\ req[c].stage = "read"
    /\ modelStatus[req[c].model] \in Claimable
    /\ req' = [req EXCEPT ![c] = [stage |-> "accept", job |-> req[c].job,
                                  model |-> req[c].model, retry |-> req[c].retry]]
    /\ UNCHANGED <<durable, files, phase, jobState, jobModel, pc, ctxDone, workers,
                   service>>

\* The checks downloadRequest makes under d.mu.  Destinations are
\* root/<model id>, so two attempts share one exactly when they share the model.
Admissible(j, m, retry) ==
    /\ ~closed
    /\ \/ jobState[j] = "none"
       \/ jobState[j] \notin Active /\ retry /\ jobModel[j] = m
    /\ \A k \in Jobs : jobState[k] \in Active => jobModel[k] # m

\* downloadRequest accepts: a free worker is taken now or the job is queued.
Accept(c) ==
    /\ phase = "up"
    /\ req[c].stage = "accept"
    /\ LET j == req[c].job
           m == req[c].model
           free == workers < MaxWorkers
       IN /\ Admissible(j, m, req[c].retry)
          /\ PersistAcceptance(j, m, req[c].retry, IF free THEN "running" ELSE "pending")
          /\ jobState' = [jobState EXCEPT ![j] = IF free THEN "running" ELSE "pending"]
          /\ jobModel' = [jobModel EXCEPT ![j] = m]
          /\ pc' = [pc EXCEPT ![j] = IF free THEN "spawn" ELSE "await"]
          /\ workers' = IF free THEN workers + 1 ELSE workers
          /\ ctxDone' = [ctxDone EXCEPT ![j] = FALSE]
    /\ req' = [req EXCEPT ![c] = NoRequest]
    /\ UNCHANGED <<files, phase, service>>

\* Any check, any database read and the acceptance transaction may refuse the
\* request; a worker taken for it is given back under the same lock.
Reject(c) ==
    /\ phase = "up"
    /\ req[c] # NoRequest
    /\ req' = [req EXCEPT ![c] = NoRequest]
    /\ UNCHANGED <<durable, files, phase, jobState, jobModel, pc, ctxDone, workers,
                   service>>

\* Cancel cancels the context of a job that is still active.
Cancel(j) ==
    /\ phase = "up"
    /\ jobState[j] \in Active
    /\ ctxDone' = [ctxDone EXCEPT ![j] = TRUE]
    /\ UNCHANGED <<durable, files, phase, jobState, jobModel, pc, workers, service, req>>

-----------------------------------------------------------------------------
(* The goroutine of an attempt *)

\* The goroutine moves on and nothing else changes.
Goto(j, from, to) ==
    /\ pc[j] = from
    /\ pc' = [pc EXCEPT ![j] = to]

\* awaitWorker: the send on d.workers is chosen.
Grant(j) ==
    /\ workers < MaxWorkers
    /\ Goto(j, "await", "granted")
    /\ workers' = workers + 1
    /\ UNCHANGED <<durable, files, phase, jobState, jobModel, ctxDone, service, req>>

\* Wrong on purpose: a queued job gives back a worker it never had.
AwaitCanceledReleases(j) ==
    /\ Canceled(j)
    /\ Goto(j, "await", "finCanceled")
    /\ workers' = workers - 1
    /\ UNCHANGED <<durable, files, phase, jobState, jobModel, ctxDone, service, req>>

\* Wrong on purpose: a queued job waits for a worker only.
AwaitCanceledMissing(j) == FALSE

\* awaitWorker: ctx.Done is chosen.
AwaitCanceled(j) ==
    /\ Canceled(j)
    /\ Goto(j, "await", "finCanceled")
    /\ UNCHANGED <<durable, files, phase, jobState, jobModel, ctxDone, workers, service, req>>

\* Wrong on purpose: the start of a queued job is not made durable.
BeginQueuedInMemory(j) ==
    /\ ~Canceled(j)
    /\ jobState[j] = "pending"
    /\ Goto(j, "granted", "recheck")
    /\ jobState' = [jobState EXCEPT ![j] = "running"]
    /\ UNCHANGED <<durable, files, phase, jobModel, ctxDone, workers, service, req>>

\* awaitWorker under d.mu, context alive: durably running before the CLI starts.
BeginQueued(j) ==
    /\ ~Canceled(j)
    /\ jobState[j] = "pending"
    /\ Goto(j, "granted", "recheck")
    /\ jobState' = [jobState EXCEPT ![j] = "running"]
    /\ PersistRow(j, "running")
    /\ UNCHANGED <<files, phase, jobModel, ctxDone, workers, service, req>>

\* Wrong on purpose: memory keeps saying running.
BeginQueuedFailsRunning(j) ==
    /\ ~Canceled(j)
    /\ jobState[j] = "pending"
    /\ Goto(j, "granted", "finFailed")
    /\ jobState' = [jobState EXCEPT ![j] = "running"]
    /\ workers' = workers - 1
    /\ UNCHANGED <<durable, files, phase, jobModel, ctxDone, service, req>>

\* ... and when that row cannot be written, the worker is returned.
BeginQueuedFails(j) ==
    /\ ~Canceled(j)
    /\ jobState[j] = "pending"
    /\ Goto(j, "granted", "finFailed")
    /\ workers' = workers - 1
    /\ UNCHANGED <<durable, files, phase, jobState, jobModel, ctxDone, service, req>>

\* awaitWorker under d.mu, context already canceled: nothing is written.
SkipBegin(j) ==
    /\ Canceled(j) \/ jobState[j] # "pending"
    /\ Goto(j, "granted", "recheck")
    /\ UNCHANGED <<durable, files, phase, jobState, jobModel, ctxDone, workers, service, req>>

\* awaitWorker after the unlock looks at the context once more.
Recheck(j) ==
    /\ IF Canceled(j)
       THEN Goto(j, "recheck", "finCanceled") /\ workers' = workers - 1
       ELSE Goto(j, "recheck", "spawn") /\ UNCHANGED workers
    /\ UNCHANGED <<durable, files, phase, jobState, jobModel, ctxDone, service, req>>

\* startCommand: cmd.Start succeeds; it does not when the context is done.
Spawn(j) ==
    /\ ~Canceled(j)
    /\ Goto(j, "spawn", "live")
    /\ files' = [files EXCEPT ![jobModel[j]] = "incomplete"]
    /\ UNCHANGED <<durable, phase, jobState, jobModel, ctxDone, workers, service, req>>

\* Wrong on purpose: the worker of a command that did not start is kept.
SpawnFailsLeaks(j) ==
    /\ Goto(j, "spawn", "finFailed")
    /\ UNCHANGED <<durable, files, phase, jobState, jobModel, ctxDone, workers, service, req>>

\* failStart: a pipe or cmd.Start fails; the worker is returned first.
SpawnFails(j) ==
    /\ Goto(j, "spawn", "finFailed")
    /\ workers' = workers - 1
    /\ UNCHANGED <<durable, files, phase, jobState, jobModel, ctxDone, service, req>>

\* consume and appendLogLine: the consumers read a line of output and upsert the row.
LogLine(j) ==
    /\ pc[j] \in {"live", "exitOk", "exitBad"}
    /\ PersistRow(j, jobState[j])
    /\ UNCHANGED <<files, phase, memory>>

\* The CLI process ends: by itself, or killed through its canceled context.
Exit(j) ==
    /\ \/ Goto(j, "live", "exitOk") /\ files' = [files EXCEPT ![jobModel[j]] = "complete"]
       \/ Goto(j, "live", "exitBad") /\ UNCHANGED files
    /\ UNCHANGED <<durable, phase, jobState, jobModel, ctxDone, workers, service, req>>

\* Wrong on purpose: only the context decides.
OutcomeIgnoresExit(j) == IF Canceled(j) THEN {"finCanceled"} ELSE {"finSucceeded", "finFailed"}

\* The outcomes startCommand's waiter may choose once output is drained and
\* Wait has returned; a successful exit still has to pass completedDownload.
Outcome(j) == IF Canceled(j) THEN {"finCanceled"}
              ELSE IF pc[j] = "exitOk" THEN {"finSucceeded", "finFailed"}
              ELSE {"finFailed"}

\* The waiter returns the worker and then decides.
Reap(j) ==
    /\ pc[j] \in {"exitOk", "exitBad"}
    /\ \E to \in Outcome(j) : pc' = [pc EXCEPT ![j] = to]
    /\ workers' = workers - 1
    /\ UNCHANGED <<durable, files, phase, jobState, jobModel, ctxDone, service, req>>

\* The state finish is called with.
Outcomes == [finSucceeded |-> "succeeded", finFailed |-> "failed", finCanceled |-> "canceled"]

\* finish: memory and SQLite agree on the outcome.
Finish(j) ==
    /\ pc[j] \in Finishing
    /\ PersistTerminal(j, jobModel[j], Outcomes[pc[j]])
    /\ jobState' = [jobState EXCEPT ![j] = Outcomes[pc[j]]]
    /\ pc' = [pc EXCEPT ![j] = "idle"]
    /\ ctxDone' = [ctxDone EXCEPT ![j] = FALSE]
    /\ UNCHANGED <<files, phase, jobModel, workers, service, req>>

\* finish: the terminal transaction fails; memory says failed, SQLite is unchanged.
FinishUnpersisted(j) ==
    /\ pc[j] \in Finishing
    /\ jobState' = [jobState EXCEPT ![j] = "failed"]
    /\ terminalErr' = TRUE
    /\ pc' = [pc EXCEPT ![j] = "idle"]
    /\ ctxDone' = [ctxDone EXCEPT ![j] = FALSE]
    /\ UNCHANGED <<durable, files, phase, jobModel, workers, closed, shut, req>>

-----------------------------------------------------------------------------
(* Shutdown, and the registry *)

\* Shutdown closes the service and cancels every context in one section.
Shutdown ==
    /\ phase = "up"
    /\ shut = "no"
    /\ closed' = TRUE
    /\ shut' = "waiting"
    /\ UNCHANGED <<durable, files, phase, jobState, jobModel, pc, ctxDone, workers,
                   terminalErr, req>>

\* Wrong on purpose: Shutdown returns without waiting.
ShutdownAtOnce ==
    /\ shut = "waiting"
    /\ shut' = "drained"
    /\ UNCHANGED <<durable, files, phase, jobState, jobModel, pc, ctxDone, workers,
                   closed, terminalErr, req>>

\* wg.Wait returns: no accepted attempt is left.
ShutdownDrained ==
    /\ shut = "waiting"
    /\ \A j \in Jobs : pc[j] = "idle"
    /\ shut' = "drained"
    /\ UNCHANGED <<durable, files, phase, jobState, jobModel, pc, ctxDone, workers,
                   closed, terminalErr, req>>

\* The shutdown deadline passes first.
ShutdownTimesOut ==
    /\ shut = "waiting"
    /\ shut' = "timedout"
    /\ UNCHANGED <<durable, files, phase, jobState, jobModel, pc, ctxDone, workers,
                   closed, terminalErr, req>>

\* The service exits after Shutdown returned, whatever it returned.
ServiceExit == shut \in {"drained", "timedout"} /\ ProcessGone

\* Registry.RegisterHF, under a fresh id.
RegisterHF(m) ==
    /\ phase = "up"
    /\ modelStatus[m] = "absent"
    /\ modelStatus' = [modelStatus EXCEPT ![m] = "registered"]
    /\ UNCHANGED <<rowState, rowModel, files, phase, memory>>

\* Registry.Delete: refused while a download of the model is durably active;
\* the foreign key clears the link of its finished downloads.
DeleteModel(m) ==
    /\ phase = "up"
    /\ Registered(m)
    /\ \A j \in Jobs : rowModel[j] = m => rowState[j] \notin Active
    /\ modelStatus' = [modelStatus EXCEPT ![m] = "deleted"]
    /\ rowModel' = [j \in Jobs |-> IF rowModel[j] = m THEN NoModel ELSE rowModel[j]]
    /\ \/ UNCHANGED files
       \/ modelStatus[m] = "ready" /\ files' = [files EXCEPT ![m] = "incomplete"]
    /\ UNCHANGED <<rowState, phase, memory>>

-----------------------------------------------------------------------------

ClientStep(c) ==
    \/ \E j \in Jobs : (\E m \in Models : CallStart(c, j, m)) \/ CallRetry(c, j)
    \/ ReadModel(c) \/ Accept(c) \/ Reject(c)

\* The steps a job's goroutine takes without waiting for anything outside it.
JobStep(j) ==
    \/ AwaitCanceled(j)
    \/ BeginQueued(j) \/ BeginQueuedFails(j) \/ SkipBegin(j) \/ Recheck(j)
    \/ Spawn(j) \/ SpawnFails(j) \/ Reap(j) \/ Finish(j) \/ FinishUnpersisted(j)

Next ==
    \/ Boot \/ RestoreFails \/ Restored \/ Crash
    \/ Shutdown \/ ShutdownDrained \/ ShutdownTimesOut \/ ServiceExit
    \/ \E m \in Models : RegisterHF(m) \/ DeleteModel(m)
    \/ \E c \in Clients : ClientStep(c)
    \/ \E j \in Jobs : RestoreRow(j) \/ Cancel(j) \/ Grant(j) \/ JobStep(j)
                       \/ LogLine(j) \/ Exit(j)

Spec == Init /\ [][Next]_vars

\* A goroutine that can take a step takes it; senders blocked on the worker
\* channel are served in order, so none is passed over for ever; a process
\* whose group has been killed ends.
Fairness ==
    /\ \A j \in Jobs : WF_vars(JobStep(j))
    /\ \A j \in Jobs : SF_vars(Grant(j))
    /\ \A j \in Jobs : WF_vars(Canceled(j) /\ Exit(j))
    /\ WF_vars(ShutdownDrained)

FairSpec == Spec /\ Fairness

-----------------------------------------------------------------------------
(* Properties *)

\* The ledger's promise, kept across every interleaving, failed transaction
\* and crash: one active attempt per downloading model (downloader.go:1060-1075).
OneAttemptPerClaim == Ledger!OneAttemptPerClaim

\* Before a CLI process is started, and until its outcome is decided, SQLite
\* says the attempt is running and its model is claimed, so that a crash never
\* leaves a writer nobody knows of (downloader.go:318-320 and 1022-1025).
DurableBeforeProcess ==
    \A j \in Jobs : pc[j] \in {"spawn", "live", "exitOk", "exitBad"} =>
        /\ rowState[j] = "running"
        /\ rowModel[j] = jobModel[j]
        /\ rowModel[j] \in Models
        /\ modelStatus[rowModel[j]] = "downloading"

\* The semaphore counts the goroutines that hold a worker: no path releases a
\* worker twice or keeps one, and no more CLI processes run than there are
\* workers (downloader.go:269-290, 311-337, 393, 406).
Holders == {j \in Jobs : pc[j] \in Holding}
WorkersBalanced ==
    /\ workers = Cardinality(Holders)
    /\ Cardinality({j \in Jobs : pc[j] = "live"}) <= MaxWorkers

\* A model is published as ready only with the files of a process that ended
\* well, and nothing is writing them (downloader.go:394-400, 1135-1144).
ReadyIsComplete ==
    \A m \in Models : modelStatus[m] = "ready" =>
        /\ files[m] = "complete"
        /\ \A j \in Jobs : pc[j] \in Holding => jobModel[j] # m

\* While the service is up, memory and SQLite tell the same story of a job;
\* they differ only after a terminal transaction failed, and then memory says
\* failed, the row is still active, and Shutdown will report it (downloader.go:536-542).
MemoryMatchesLedger ==
    phase = "up" => \A j \in Jobs :
        \/ jobState[j] = rowState[j]
        \/ /\ jobState[j] = "failed"
           /\ rowState[j] \in Active
           /\ pc[j] = "idle"
           /\ terminalErr

\* When Shutdown returns without an error no attempt is left active in SQLite
\* (downloader.go:990-991).
CleanShutdownSettles ==
    shut = "drained" /\ ~terminalErr => \A j \in Jobs : rowState[j] \notin Active

\* At any moment the process may die, the rows it leaves are rows the next
\* start accepts (downloader.go:904-946).
RestoreAccepts == \A j \in Jobs : Restorable(j)

\* The durable tables change only as the ledger says.
LedgerSpec == Ledger!LedgerSpec

\* A job id keeps its history (downloader.go:246-252, 1081).
DurableIdentity == Ledger!DurableIdentity

\* A stale request never claims a model that became ready (downloader.go:1060-1063).
ReadyIsFinal == Ledger!ReadyIsFinal

\* A canceled attempt ends, unless the service does (downloader.go:695-710).
CancelSettles == \A j \in Jobs : (pc[j] # "idle" /\ Canceled(j)) ~> pc[j] = "idle"

\* Shutdown's wait ends although nothing but the service's own scheduling and
\* the killing of processes is fair (downloader.go:992-1014).
ShutdownEnds == shut = "waiting" ~> shut # "waiting"

\* A queued attempt is not starved: if, beyond the service's own scheduling, every
\* CLI process ends some day, every accepted attempt ends (downloader.go:305-308).
AcceptedSettles ==
    (\A j \in Jobs : WF_vars(Exit(j))) => (\A j \in Jobs : pc[j] # "idle" ~> pc[j] = "idle")

-----------------------------------------------------------------------------
(* The inductive invariant behind the properties *)

\* Without a service there is no job, no goroutine, no worker in use.
Offline ==
    phase # "up" =>
        /\ \A j \in Jobs : jobState[j] = "none" /\ pc[j] = "idle"
        /\ shut = "no"

\* A job is active in memory exactly while a goroutine owns it.
OwnedIffActive == \A j \in Jobs : pc[j] # "idle" <=> jobState[j] \in Active

\* A job that a goroutine owns is in SQLite as it is in memory.
OwnedIsDurable ==
    \A j \in Jobs : pc[j] # "idle" => rowState[j] = jobState[j] /\ rowModel[j] = jobModel[j]

\* The goroutine's position tells the job's state.
PositionFitsState ==
    \A j \in Jobs :
        /\ pc[j] \in {"await", "granted"} => jobState[j] = "pending"
        /\ pc[j] \in {"spawn", "live", "exitOk", "exitBad"} => jobState[j] = "running"
        /\ pc[j] = "recheck" => jobState[j] = "running" \/ Canceled(j)

\* Files are whole from a good exit until the model is deleted or rewritten.
FilesWhole ==
    /\ \A j \in Jobs : pc[j] \in {"exitOk", "finSucceeded"} => files[jobModel[j]] = "complete"
    /\ \A m \in Models : modelStatus[m] = "ready" => files[m] = "complete"

WorkersCounted == workers = Cardinality(Holders)

ShutdownOrder ==
    /\ closed <=> shut # "no"
    /\ shut = "drained" => \A j \in Jobs : pc[j] = "idle"

IInv ==
    /\ TypeOK
    /\ OneAttemptPerClaim
    /\ Offline /\ OwnedIffActive /\ OwnedIsDurable /\ PositionFitsState
    /\ MemoryMatchesLedger /\ FilesWhole /\ WorkersCounted /\ ShutdownOrder
=============================================================================
