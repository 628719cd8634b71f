--------------------------- MODULE DownloadProofs ---------------------------
(* Proofs about Download for every set of jobs, models and clients and     *)
(* every number of workers.                                                *)
EXTENDS Download, FiniteSetTheorems, TLAPS

LP == INSTANCE DownloadLedgerProofs

-----------------------------------------------------------------------------
(* Counting the goroutines that hold a worker *)

\* A goroutine that takes a worker is one holder more.
LEMMA TakeWorker ==
    ASSUME TypeOK, WorkersCounted, NEW j \in Jobs, pc[j] \notin Holding,
           NEW p \in Holding, pc' = [pc EXCEPT ![j] = p],
           workers < MaxWorkers, workers' = workers + 1
    PROVE  WorkersCounted' /\ workers' \in 0 .. MaxWorkers
<1>1. Holders' = Holders \cup {j} /\ j \notin Holders
  BY DEF Holders, TypeOK
<1>2. IsFiniteSet(Holders)
  BY DownloadAssumption, FS_Subset DEF Holders
<1>3. Cardinality(Holders \cup {j}) = Cardinality(Holders) + 1
  BY <1>1, <1>2, FS_AddElement
<1> QED
  BY <1>1, <1>3, DownloadAssumption DEF WorkersCounted, TypeOK

\* A goroutine that returns its worker is one holder fewer, and there was one.
LEMMA ReturnWorker ==
    ASSUME TypeOK, WorkersCounted, NEW j \in Jobs, pc[j] \in Holding,
           NEW p \in Position \ Holding, pc' = [pc EXCEPT ![j] = p],
           workers' = workers - 1
    PROVE  WorkersCounted' /\ workers' \in 0 .. MaxWorkers
<1>1. Holders' = Holders \ {j} /\ j \in Holders
  BY DEF Holders, TypeOK
<1>2. IsFiniteSet(Holders)
  BY DownloadAssumption, FS_Subset DEF Holders
<1>3. Cardinality(Holders \ {j}) = Cardinality(Holders) - 1
  BY <1>1, <1>2, FS_RemoveElement
<1>4. Cardinality(Holders \ {j}) \in Nat
  BY <1>2, FS_RemoveElement, FS_CardinalityType
<1> QED
  BY <1>1, <1>3, <1>4, DownloadAssumption DEF WorkersCounted, TypeOK

\* A goroutine that keeps its worker, or its lack of one, leaves the count alone.
LEMMA KeepWorker ==
    ASSUME TypeOK, WorkersCounted, NEW j \in Jobs, NEW p \in Position,
           pc[j] \in Holding <=> p \in Holding,
           pc' = [pc EXCEPT ![j] = p], workers' = workers
    PROVE  WorkersCounted'
<1>1. Holders' = Holders
  BY DEF Holders, TypeOK
<1> QED
  BY <1>1 DEF WorkersCounted

\* So does a step that moves no goroutine.
LEMMA SameWorkers ==
    ASSUME WorkersCounted, pc' = pc, workers' = workers
    PROVE  WorkersCounted'
BY DEF WorkersCounted, Holders

\* With every goroutine idle the semaphore is empty.
LEMMA NoWorkers ==
    ASSUME pc = [j \in Jobs |-> "idle"], workers = 0
    PROVE  WorkersCounted
<1>1. Holders = {}
  BY DEF Holders, Holding
<1> QED
  BY <1>1, FS_EmptySet DEF WorkersCounted

-----------------------------------------------------------------------------
(* The worker count is kept by every step *)

Counted == WorkersCounted /\ workers \in 0 .. MaxWorkers

\* No path of a job's goroutine releases a worker twice or keeps one.
LEMMA CountedStep == ASSUME IInv, [Next]_vars PROVE Counted'
<1> USE DEF IInv, Counted
<1>0. workers \in 0 .. MaxWorkers
  BY DEF TypeOK
<1>1. CASE UNCHANGED <<pc, workers>>
  BY <1>0, <1>1, SameWorkers
<1>2. CASE ProcessGone
  BY <1>2, DownloadAssumption, NoWorkers, FS_EmptySet DEF ProcessGone, WorkersCounted, Holders, Holding
<1>3. ASSUME NEW c \in Clients, Accept(c) PROVE Counted'
  <2> DEFINE j == req[c].job
  <2>1. j \in Jobs /\ pc[j] = "idle"
    BY <1>3 DEF Accept, Admissible, TypeOK, Request, NoRequest, OwnedIffActive, Active
  <2>2. CASE workers < MaxWorkers
    BY <1>0, <1>3, <2>1, <2>2, TakeWorker DEF Accept, Holding
  <2>3. CASE ~(workers < MaxWorkers)
    BY <1>0, <1>3, <2>1, <2>3, KeepWorker DEF Accept, Holding, Position
  <2> QED
    BY <2>2, <2>3
<1>4. ASSUME NEW j \in Jobs, Grant(j) PROVE Counted'
  BY <1>4, TakeWorker DEF Grant, Goto, Holding
<1>5. ASSUME NEW j \in Jobs,
             AwaitCanceled(j) \/ BeginQueued(j) \/ SkipBegin(j) \/ Spawn(j) \/ Exit(j)
               \/ Finish(j) \/ FinishUnpersisted(j)
      PROVE Counted'
  <2>1. workers' = workers
    BY <1>5 DEF AwaitCanceled, BeginQueued, SkipBegin, Spawn, Exit, Finish, FinishUnpersisted
  <2>2. PICK p \in Position : /\ pc' = [pc EXCEPT ![j] = p]
                              /\ pc[j] \in Holding <=> p \in Holding
    BY <1>5 DEF AwaitCanceled, BeginQueued, SkipBegin, Spawn, Exit, Finish,
                FinishUnpersisted, Goto, Position, Holding, Finishing
  <2> QED
    BY <1>0, <2>1, <2>2, KeepWorker
<1>6. ASSUME NEW j \in Jobs, BeginQueuedFails(j) \/ SpawnFails(j) \/ Reap(j)
      PROVE Counted'
  <2>1. workers' = workers - 1 /\ pc[j] \in Holding
    BY <1>6 DEF BeginQueuedFails, SpawnFails, Reap, Goto, Holding
  <2>2. PICK p \in Position \ Holding : pc' = [pc EXCEPT ![j] = p]
    BY <1>6 DEF BeginQueuedFails, SpawnFails, Reap, Outcome, Goto, Position, Holding, Finishing
  <2> QED
    BY <2>1, <2>2, ReturnWorker
<1>7. ASSUME NEW j \in Jobs, Recheck(j) PROVE Counted'
  <2>1. CASE Canceled(j)
    BY <1>7, <2>1, ReturnWorker DEF Recheck, Goto, Holding, Position, Finishing
  <2>2. CASE ~Canceled(j)
    BY <1>0, <1>7, <2>2, KeepWorker DEF Recheck, Goto, Holding, Position
  <2> QED
    BY <2>1, <2>2
<1>8. CASE UNCHANGED vars
  BY <1>1, <1>8 DEF vars, memory
<1>9. CASE Boot \/ RestoreFails \/ Restored \/ Shutdown \/ ShutdownDrained \/ ShutdownTimesOut
  BY <1>1, <1>9 DEF Boot, RestoreFails, Restored, Shutdown, ShutdownDrained, ShutdownTimesOut, memory
<1>10. ASSUME NEW m \in Models, RegisterHF(m) \/ DeleteModel(m) PROVE Counted'
  BY <1>1, <1>10 DEF RegisterHF, DeleteModel, memory
<1>11. ASSUME NEW c \in Clients, ClientStep(c) PROVE Counted'
  BY <1>1, <1>3, <1>11 DEF ClientStep, CallStart, CallRetry, ReadModel, Reject
<1>12. ASSUME NEW j \in Jobs, RestoreRow(j) \/ Cancel(j) \/ LogLine(j) PROVE Counted'
  BY <1>1, <1>12 DEF RestoreRow, Cancel, LogLine, memory
<1> QED
  BY <1>2, <1>4, <1>5, <1>6, <1>7, <1>8, <1>9, <1>10, <1>11, <1>12
     DEF Next, Crash, ServiceExit, JobStep

-----------------------------------------------------------------------------
(* Types *)

\* finish is called with a terminal state.
LEMMA OutcomesTerminal ==
    /\ Outcomes["finSucceeded"] = "succeeded"
    /\ Outcomes["finFailed"] = "failed"
    /\ Outcomes["finCanceled"] = "canceled"
    /\ \A p \in Finishing : Outcomes[p] \in Terminal
BY DEF Outcomes, Finishing, Terminal

\* Every step keeps the types; the worker count needs the whole invariant.
LEMMA TypeStep == ASSUME IInv, [Next]_vars PROVE TypeOK'
<1> USE DEF IInv, TypeOK, State, Active, Terminal, ModelStatus, Claimable
<1>0. workers' \in 0 .. MaxWorkers
  BY CountedStep DEF Counted
<1> USE <1>0
<1>1. CASE Boot \/ RestoreFails \/ Restored
  BY <1>1 DEF Boot, RestoreFails, Restored, durable, memory, service
<1>2. CASE ProcessGone
  BY <1>2 DEF ProcessGone, durable, Position, Request
<1>3. CASE Shutdown \/ ShutdownDrained \/ ShutdownTimesOut
  BY <1>3 DEF Shutdown, ShutdownDrained, ShutdownTimesOut, durable
<1>4. ASSUME NEW m \in Models, RegisterHF(m) \/ DeleteModel(m) PROVE TypeOK'
  BY <1>4 DEF RegisterHF, DeleteModel, Registered, memory, service
<1>5. ASSUME NEW c \in Clients,
             (\E j \in Jobs, m \in Models : CallStart(c, j, m)) \/ (\E j \in Jobs : CallRetry(c, j))
      PROVE TypeOK'
  <2>1. PICK j \in Jobs, m \in Models, r \in BOOLEAN :
          req' = [req EXCEPT ![c] = [stage |-> "read", job |-> j, model |-> m, retry |-> r]]
    <3>1. CASE \E j \in Jobs, m \in Models : CallStart(c, j, m)
      BY <3>1 DEF CallStart
    <3>2. CASE \E j \in Jobs : CallRetry(c, j)
      BY <3>2 DEF CallRetry
    <3> QED
      BY <1>5, <3>1, <3>2
  <2>2. req' \in [Clients -> Request]
    BY <2>1 DEF Request
  <2> QED
    BY <1>5, <2>2 DEF CallStart, CallRetry, durable, service
<1>6. ASSUME NEW c \in Clients, ReadModel(c) \/ Reject(c) PROVE TypeOK'
  BY <1>6 DEF ReadModel, Reject, durable, service, Request, NoRequest
<1>7. ASSUME NEW c \in Clients, Accept(c) PROVE TypeOK'
  <2>1. req[c].job \in Jobs /\ req[c].model \in Models
    BY <1>7 DEF Accept, Request, NoRequest
  <2>2. req' \in [Clients -> Request]
    BY <1>7 DEF Accept, Request
  <2> QED
    BY <1>7, <2>1, <2>2 DEF Accept, PersistAcceptance, service, Position, Holding
<1>8. ASSUME NEW j \in Jobs, RestoreRow(j) \/ Finish(j) \/ FinishUnpersisted(j) PROVE TypeOK'
  <2>1. ASSUME NEW m \in Models \cup {NoModel}, NEW s \in Terminal, PersistTerminal(j, m, s)
        PROVE /\ rowState' \in [Jobs -> State]
              /\ rowModel' \in [Jobs -> Models \cup {NoModel}]
              /\ modelStatus' \in [Models -> ModelStatus]
    BY <2>1 DEF PersistTerminal, Published
  <2>2. CASE RestoreRow(j)
    <3>1. rowModel[j] \in Models \cup {NoModel}
      OBVIOUS
    <3> QED
      BY <2>1, <2>2, <3>1 DEF RestoreRow, memory, service
  <2>3. CASE Finish(j)
    <3>1. Outcomes[pc[j]] \in Terminal /\ jobModel[j] \in Models \cup {NoModel}
      BY <2>3, OutcomesTerminal DEF Finish
    <3> QED
      BY <2>1, <2>3, <3>1 DEF Finish, Position, service
  <2>4. CASE FinishUnpersisted(j)
    BY <2>4 DEF FinishUnpersisted, Position, durable
  <2> QED
    BY <1>8, <2>2, <2>3, <2>4
<1>9. ASSUME NEW j \in Jobs, Cancel(j) \/ LogLine(j) \/ Exit(j) PROVE TypeOK'
  <2>1. CASE Cancel(j)
    BY <2>1 DEF Cancel, durable, service
  <2>2. CASE LogLine(j)
    BY <2>2 DEF LogLine, PersistRow, memory, service
  <2>3. CASE Exit(j)
    BY <2>3 DEF Exit, Goto, durable, service, Position, Holding, Finishing
  <2> QED
    BY <1>9, <2>1, <2>2, <2>3
<1>10. ASSUME NEW j \in Jobs, Grant(j) \/ AwaitCanceled(j) \/ SkipBegin(j) PROVE TypeOK'
  BY <1>10 DEF Grant, AwaitCanceled, SkipBegin, Goto, durable, service, Position, Holding, Finishing
<1>11. ASSUME NEW j \in Jobs, BeginQueued(j) \/ BeginQueuedFails(j) \/ Recheck(j) PROVE TypeOK'
  BY <1>11 DEF BeginQueued, BeginQueuedFails, Recheck, Goto, PersistRow, durable, service,
               Position, Holding, Finishing
<1>12. ASSUME NEW j \in Jobs, Spawn(j) \/ SpawnFails(j) \/ Reap(j) PROVE TypeOK'
  BY <1>12 DEF Spawn, SpawnFails, Reap, Outcome, Goto, durable, service,
               Position, Holding, Finishing
<1>13. CASE UNCHANGED vars
  BY <1>13 DEF vars, durable, memory, service
<1> HIDE DEF IInv, TypeOK, State, Active, Terminal, ModelStatus, Claimable
<1> QED
  BY <1>1, <1>2, <1>3, <1>4, <1>5, <1>6, <1>7, <1>8, <1>9, <1>10, <1>11, <1>12, <1>13
     DEF Next, Crash, ServiceExit, ClientStep, JobStep

-----------------------------------------------------------------------------
(* Download implements DownloadLedger *)

\* A job a goroutine owns is an active row, linked to the model it works on,
\* and that model is claimed by it alone.
LEMMA Owned ==
    ASSUME IInv, NEW j \in Jobs, pc[j] # "idle"
    PROVE  /\ phase = "up"
           /\ rowState[j] = jobState[j] /\ jobState[j] \in Active
           /\ rowModel[j] = jobModel[j] /\ jobModel[j] \in Models
           /\ modelStatus[jobModel[j]] = "downloading"
           /\ \A k \in Jobs : k # j /\ rowState[k] \in Active => rowModel[k] # jobModel[j]
<1> USE DEF IInv
<1>1. phase = "up" /\ jobState[j] \in Active /\ rowState[j] = jobState[j] /\ rowModel[j] = jobModel[j]
  BY DEF Offline, OwnedIffActive, OwnedIsDurable
<1>2. jobModel[j] \in Models
  BY <1>1 DEF OneAttemptPerClaim, Ledger!OneAttemptPerClaim, Active, Ledger!Active, TypeOK
<1> QED
  BY <1>1, <1>2 DEF OneAttemptPerClaim, Ledger!OneAttemptPerClaim, Active, Ledger!Active, TypeOK

\* Every step of the service is a step of the ledger or leaves it alone.
LEMMA StepRefines == ASSUME IInv, [Next]_vars PROVE [Ledger!LedgerNext]_durable
<1> USE DEF durable, Active, Terminal, Ledger!Active, Ledger!Terminal
<1>1. CASE UNCHANGED durable
  BY <1>1
<1>2. ASSUME NEW m \in Models, RegisterHF(m) PROVE Ledger!LedgerNext
  BY <1>2 DEF RegisterHF, Ledger!LedgerNext, Ledger!Register
<1>3. ASSUME NEW m \in Models, DeleteModel(m) PROVE Ledger!LedgerNext
  BY <1>3 DEF DeleteModel, Registered, Ledger!LedgerNext, Ledger!Remove
<1>4. ASSUME NEW c \in Clients, Accept(c) PROVE Ledger!LedgerNext
  <2>1. req[c].job \in Jobs /\ req[c].model \in Models
    BY <1>4 DEF IInv, TypeOK, Accept, Request, NoRequest
  <2>2. PICK s \in Active : PersistAcceptance(req[c].job, req[c].model, req[c].retry, s)
    BY <1>4 DEF Accept
  <2>3. Ledger!Claim(req[c].job, req[c].model, s)
    BY <2>2 DEF PersistAcceptance, Ledger!Claim, Claimable, Ledger!Claimable
  <2> QED
    BY <2>1, <2>3 DEF Ledger!LedgerNext
<1>5. ASSUME NEW j \in Jobs, BeginQueued(j) PROVE Ledger!LedgerNext
  <2>1. pc[j] # "idle"
    BY <1>5 DEF BeginQueued, Goto
  <2>2. rowState[j] = "pending" /\ rowModel[j] = jobModel[j]
    BY <1>5, <2>1, Owned DEF BeginQueued
  <2>3. Ledger!Start(j)
    BY <1>5, <2>2 DEF BeginQueued, PersistRow, Ledger!Start, IInv, TypeOK
  <2> QED
    BY <2>3 DEF Ledger!LedgerNext
<1>6. ASSUME NEW j \in Jobs, NEW o \in Terminal, rowState[j] \in Active,
             rowModel[j] \in Models, PersistTerminal(j, rowModel[j], o)
      PROVE Ledger!LedgerNext
  <2>1. Ledger!Settle(j, o)
    BY <1>6, DownloadAssumption
       DEF PersistTerminal, Ledger!Settle, Published, Ledger!Published, IInv, TypeOK
  <2> QED
    BY <2>1 DEF Ledger!LedgerNext
<1>7. ASSUME NEW j \in Jobs, RestoreRow(j) PROVE Ledger!LedgerNext
  <2>1. rowModel[j] \in Models
    BY <1>7 DEF RestoreRow, IInv, TypeOK, OneAttemptPerClaim, Ledger!OneAttemptPerClaim
  <2> QED
    BY <1>6, <1>7, <2>1 DEF RestoreRow
<1>8. ASSUME NEW j \in Jobs, Finish(j) PROVE Ledger!LedgerNext
  <2>1. pc[j] # "idle" /\ Outcomes[pc[j]] \in Terminal
    BY <1>8, OutcomesTerminal DEF Finish, Finishing
  <2>2. rowState[j] \in Active /\ rowModel[j] = jobModel[j] /\ rowModel[j] \in Models
    BY <2>1, Owned
  <2> QED
    BY <1>6, <1>8, <2>1, <2>2 DEF Finish
<1>9. ASSUME NEW j \in Jobs, LogLine(j) PROVE UNCHANGED durable
  <2>1. pc[j] # "idle"
    BY <1>9 DEF LogLine
  <2>2. rowState[j] = jobState[j] /\ rowModel[j] = jobModel[j]
    BY <2>1, Owned
  <2> QED
    BY <1>9, <2>2 DEF LogLine, PersistRow, IInv, TypeOK
<1>10. CASE UNCHANGED vars
  BY <1>10 DEF vars
<1>11. ASSUME NEW c \in Clients, ClientStep(c) PROVE Ledger!LedgerNext \/ UNCHANGED durable
  BY <1>4, <1>11 DEF ClientStep, CallStart, CallRetry, ReadModel, Reject
<1>12. ASSUME NEW j \in Jobs, Cancel(j) \/ Grant(j) \/ Exit(j) PROVE UNCHANGED durable
  BY <1>12 DEF Cancel, Grant, Exit
<1>13. ASSUME NEW j \in Jobs, JobStep(j) PROVE Ledger!LedgerNext \/ UNCHANGED durable
  BY <1>5, <1>8, <1>13 DEF JobStep, AwaitCanceled, BeginQueuedFails, SkipBegin, Recheck, Spawn,
       SpawnFails, Reap, FinishUnpersisted
<1>14. CASE Boot \/ RestoreFails \/ Restored \/ Shutdown \/ ShutdownDrained \/ ShutdownTimesOut
            \/ Crash \/ ServiceExit
  BY <1>14 DEF Boot, RestoreFails, Restored, Shutdown, ShutdownDrained, ShutdownTimesOut,
       Crash, ServiceExit, ProcessGone
<1> QED
  BY <1>2, <1>3, <1>7, <1>9, <1>10, <1>11, <1>12, <1>13, <1>14 DEF Next

\* The ledger its proofs are about is the one Download implements.
LEMMA SameNext == [Ledger!LedgerNext]_(Ledger!ledger) => [LP!LedgerNext]_(LP!ledger)
BY DEF Ledger!ledger, LP!ledger, Ledger!LedgerNext, LP!LedgerNext,
       Ledger!Register, LP!Register, Ledger!Remove, LP!Remove, Ledger!Claim, LP!Claim,
       Ledger!Start, LP!Start, Ledger!Settle, LP!Settle, Ledger!Published, LP!Published,
       Ledger!Claimable, LP!Claimable, Ledger!Active, LP!Active, Ledger!Terminal, LP!Terminal

\* So the ledger's guarantee is kept.
LEMMA OneAttemptKept == ASSUME IInv, [Next]_vars PROVE OneAttemptPerClaim'
<1>1. LP!LedgerTypeOK /\ LP!OneAttemptPerClaim
  BY DEF IInv, TypeOK, OneAttemptPerClaim, Ledger!OneAttemptPerClaim, LP!OneAttemptPerClaim,
     LP!LedgerTypeOK, State, Active, Terminal, Ledger!Active, LP!Active, LP!Terminal,
     ModelStatus, LP!ModelStatus, Claimable, LP!Claimable
<1>2. [LP!LedgerNext]_(LP!ledger)
  BY StepRefines, SameNext DEF durable, Ledger!ledger
<1>3. LP!OneAttemptPerClaim'
  BY <1>1, <1>2, DownloadAssumption, LP!OneAttemptStep
<1> QED
  BY <1>3 DEF OneAttemptPerClaim, Ledger!OneAttemptPerClaim, LP!OneAttemptPerClaim,
     Ledger!Active, LP!Active

-----------------------------------------------------------------------------
(* Memory, goroutines and files *)

JobInv ==
    /\ Offline /\ OwnedIffActive /\ OwnedIsDurable /\ PositionFitsState
    /\ MemoryMatchesLedger /\ FilesWhole /\ ShutdownOrder

\* A goroutine that moves on, and touches neither its job nor its rows, keeps
\* what relates it to them.
LEMMA Move ==
    ASSUME IInv, NEW j \in Jobs, pc[j] # "idle", NEW p \in Position \ {"idle"},
           pc' = [pc EXCEPT ![j] = p],
           UNCHANGED <<durable, phase, jobState, jobModel, service>>
    PROVE  Offline' /\ OwnedIffActive' /\ OwnedIsDurable' /\ MemoryMatchesLedger' /\ ShutdownOrder'
<1> USE DEF IInv, durable, service
<1>1. phase = "up" /\ jobState[j] \in Active
  BY Owned
<1>2. \A k \in Jobs : pc'[k] = IF k = j THEN p ELSE pc[k]
  BY DEF TypeOK
<1>3. Offline'
  BY <1>1 DEF Offline
<1>4. OwnedIffActive'
  BY <1>1, <1>2 DEF OwnedIffActive
<1>5. OwnedIsDurable'
  BY <1>2 DEF OwnedIsDurable
<1>6. MemoryMatchesLedger'
  <2>1. jobState[j] = rowState[j]
    BY Owned
  <2> QED
    BY <1>2, <2>1 DEF MemoryMatchesLedger
<1>7. ShutdownOrder'
  BY <1>2 DEF ShutdownOrder
<1> QED
  BY <1>3, <1>4, <1>5, <1>6, <1>7

\* The steps that move a job's goroutine and change nothing else but the
\* semaphore and, in Spawn and Exit, the files it writes.
LEMMA MoveStep ==
    ASSUME IInv, NEW j \in Jobs,
           Grant(j) \/ AwaitCanceled(j) \/ BeginQueuedFails(j) \/ SkipBegin(j) \/ Recheck(j)
             \/ Spawn(j) \/ SpawnFails(j) \/ Exit(j) \/ Reap(j)
    PROVE  JobInv'
<1> USE DEF IInv
<1>1. PICK p \in Position \ {"idle"} :
        /\ pc' = [pc EXCEPT ![j] = p]
        /\ pc[j] # "idle"
  BY DEF Grant, AwaitCanceled, BeginQueuedFails, SkipBegin, Recheck, Spawn, SpawnFails, Exit, Reap,
         Outcome, Goto, Position, Holding, Finishing
<1>2. UNCHANGED <<durable, phase, jobState, jobModel, ctxDone, service>>
  BY DEF Grant, AwaitCanceled, BeginQueuedFails, SkipBegin, Recheck, Spawn, SpawnFails, Exit, Reap
<1>3. Offline' /\ OwnedIffActive' /\ OwnedIsDurable' /\ MemoryMatchesLedger' /\ ShutdownOrder'
  BY <1>1, <1>2, Move
<1>4. \A k \in Jobs : pc'[k] = IF k = j THEN p ELSE pc[k]
  BY <1>1 DEF TypeOK
<1>5. PositionFitsState'
  <2>1. /\ p \in {"await", "granted"} => jobState[j] = "pending"
        /\ p \in {"spawn", "live", "exitOk", "exitBad"} => jobState[j] = "running"
        /\ p = "recheck" => jobState[j] = "running" \/ Canceled(j)
    <3>1. jobState[j] \in {"pending", "running"}
      BY <1>1, Owned DEF Active
    <3>2. pc'[j] = p
      BY <1>4
    <3>3. CASE Grant(j)
      BY <1>4, <3>2, <3>3 DEF PositionFitsState, Grant, Goto, TypeOK
    <3>4. CASE SkipBegin(j)
      BY <1>4, <3>1, <3>2, <3>4 DEF SkipBegin, Goto, TypeOK
    <3>5. CASE Recheck(j)
      BY <1>4, <3>2, <3>5 DEF PositionFitsState, Recheck, Goto, TypeOK
    <3>6. CASE Spawn(j) \/ Exit(j)
      BY <1>4, <3>2, <3>6 DEF PositionFitsState, Spawn, Exit, Goto, TypeOK
    <3>7. CASE AwaitCanceled(j) \/ BeginQueuedFails(j) \/ SpawnFails(j) \/ Reap(j)
      BY <1>4, <3>2, <3>7 DEF AwaitCanceled, BeginQueuedFails, SpawnFails, Reap, Outcome, Goto, TypeOK
    <3> QED
      BY <3>3, <3>4, <3>5, <3>6, <3>7
  <2> QED
    BY <1>2, <1>4, <2>1 DEF PositionFitsState, Canceled, service
<1>6. FilesWhole'
  <2>1. jobModel[j] \in Models /\ modelStatus[jobModel[j]] = "downloading"
    BY <1>1, Owned
  <2>2. \A k \in Jobs : k # j /\ pc[k] # "idle" => jobModel[k] # jobModel[j]
    BY <1>1, Owned
  <2>3. CASE Spawn(j)
    <3>1. pc'[j] = "live" /\ files' = [files EXCEPT ![jobModel[j]] = "incomplete"]
      BY <2>3 DEF Spawn, Goto, TypeOK
    <3>2. ASSUME NEW k \in Jobs, pc'[k] \in {"exitOk", "finSucceeded"}
          PROVE files'[jobModel'[k]] = "complete"
      <4>1. k # j /\ pc[k] = pc'[k]
        BY <1>4, <3>1, <3>2
      <4>2. jobModel[k] \in Models /\ jobModel[k] # jobModel[j] /\ files[jobModel[k]] = "complete"
        BY <2>2, <3>2, <4>1, Owned DEF FilesWhole
      <4> QED
        BY <1>2, <2>1, <3>1, <4>2 DEF TypeOK
    <3>3. ASSUME NEW m \in Models, modelStatus'[m] = "ready" PROVE files'[m] = "complete"
      BY <1>2, <2>1, <3>1, <3>3 DEF FilesWhole, TypeOK, durable
    <3> QED
      BY <3>2, <3>3 DEF FilesWhole
  <2>4. CASE Exit(j)
    <3>1. \/ p = "exitOk" /\ files' = [files EXCEPT ![jobModel[j]] = "complete"]
          \/ p = "exitBad" /\ files' = files
      BY <1>4, <2>4 DEF Exit, Goto, TypeOK
    <3>2. \A m \in Models : files[m] = "complete" => files'[m] = "complete"
      BY <3>1 DEF TypeOK
    <3>3. \A k \in Jobs : pc[k] # "idle" => jobModel[k] \in Models
      BY Owned
    <3>4. p = "exitOk" => files'[jobModel[j]] = "complete"
      BY <2>1, <3>1 DEF TypeOK
    <3> QED
      BY <1>2, <1>4, <3>1, <3>2, <3>3, <3>4 DEF FilesWhole, durable
  <2>5. CASE Reap(j)
    BY <1>2, <2>5 DEF Reap, Outcome, FilesWhole, TypeOK, durable
  <2>6. CASE Grant(j) \/ AwaitCanceled(j) \/ BeginQueuedFails(j) \/ SkipBegin(j) \/ Recheck(j)
             \/ SpawnFails(j)
    <3>1. pc'[j] \notin {"exitOk", "finSucceeded"} /\ files' = files
      BY <1>1, <2>6 DEF Grant, AwaitCanceled, BeginQueuedFails, SkipBegin, Recheck, SpawnFails, Goto, TypeOK
    <3> QED
      BY <1>2, <1>4, <3>1 DEF FilesWhole, durable
  <2> QED
    BY <2>3, <2>4, <2>5, <2>6
<1> QED
  BY <1>3, <1>5, <1>6 DEF JobInv

\* Starting, restoring and ending the service.
LEMMA ServiceStep ==
    ASSUME IInv,
           \/ Boot \/ RestoreFails \/ Restored \/ ProcessGone
           \/ Shutdown \/ ShutdownDrained \/ ShutdownTimesOut
           \/ \E j \in Jobs : RestoreRow(j)
    PROVE  JobInv'
<1> USE DEF IInv, JobInv
<1>1. CASE Boot \/ RestoreFails
  BY <1>1 DEF Boot, RestoreFails, durable, memory, service, Offline, OwnedIffActive, OwnedIsDurable,
      PositionFitsState, MemoryMatchesLedger, FilesWhole, ShutdownOrder, Canceled
<1>2. CASE Restored
  <2>1. \A j \in Jobs : pc[j] = "idle" /\ pc'[j] = "idle"
    BY <1>2 DEF Restored, Offline
  <2>2. \A j \in Jobs : jobState'[j] = rowState[j] /\ rowState[j] \notin Active
    BY <1>2 DEF Restored
  <2>3. UNCHANGED <<durable, files, service>> /\ phase' = "up"
    BY <1>2 DEF Restored
  <2> QED
    BY <2>1, <2>2, <2>3 DEF durable, service, Offline, OwnedIffActive, OwnedIsDurable,
        PositionFitsState, MemoryMatchesLedger, FilesWhole, ShutdownOrder
<1>3. CASE ProcessGone
  BY <1>3 DEF ProcessGone, durable, Active, Offline, OwnedIffActive, OwnedIsDurable,
      PositionFitsState, MemoryMatchesLedger, FilesWhole, ShutdownOrder
<1>4. CASE Shutdown \/ ShutdownDrained \/ ShutdownTimesOut
  BY <1>4 DEF Shutdown, ShutdownDrained, ShutdownTimesOut, durable, Offline, OwnedIffActive,
      OwnedIsDurable, PositionFitsState, MemoryMatchesLedger, FilesWhole, ShutdownOrder, Canceled
<1>5. ASSUME NEW j \in Jobs, RestoreRow(j) PROVE JobInv'
  <2>1. phase = "restoring" /\ UNCHANGED <<files, phase, memory>>
    BY <1>5 DEF RestoreRow
  <2>2. \A m \in Models : modelStatus'[m] = "ready" => modelStatus[m] = "ready"
    BY <1>5 DEF RestoreRow, PersistTerminal, Published, Active, TypeOK
  <2> QED
    BY <2>1, <2>2 DEF memory, service, Offline, OwnedIffActive, OwnedIsDurable,
        PositionFitsState, MemoryMatchesLedger, FilesWhole, ShutdownOrder, Canceled
<1> QED
  BY <1>1, <1>2, <1>3, <1>4, <1>5

\* The registry's operations on a model that no goroutine owns.
LEMMA RegistryStep ==
    ASSUME IInv, NEW m \in Models, RegisterHF(m) \/ DeleteModel(m)
    PROVE  JobInv'
<1> USE DEF IInv, JobInv
<1>1. UNCHANGED <<rowState, phase, memory>>
  BY DEF RegisterHF, DeleteModel
<1>2. \A j \in Jobs : pc[j] # "idle" => rowModel'[j] = rowModel[j] /\ jobModel[j] # m
  <2> SUFFICES ASSUME NEW j \in Jobs, pc[j] # "idle"
               PROVE  rowModel'[j] = rowModel[j] /\ jobModel[j] # m
    OBVIOUS
  <2>1. modelStatus[rowModel[j]] = "downloading" /\ rowState[j] \in Active /\ rowModel[j] = jobModel[j]
    BY Owned
  <2>2. CASE RegisterHF(m)
    BY <2>1, <2>2 DEF RegisterHF
  <2>3. CASE DeleteModel(m)
    BY <2>1, <2>3 DEF DeleteModel
  <2> QED
    BY <2>2, <2>3
<1>3. \A n \in Models : modelStatus'[n] = "ready" => modelStatus[n] = "ready" /\ n # m
  BY DEF RegisterHF, DeleteModel, TypeOK
<1>4. \A n \in Models : n # m => files'[n] = files[n]
  BY DEF RegisterHF, DeleteModel, TypeOK
<1>5. \A j \in Jobs : pc[j] # "idle" => jobModel[j] \in Models
  BY Owned
<1>6. FilesWhole'
  BY <1>1, <1>2, <1>3, <1>4, <1>5 DEF FilesWhole, memory
<1>7. OwnedIsDurable'
  BY <1>1, <1>2 DEF OwnedIsDurable, memory
<1> QED
  BY <1>1, <1>6, <1>7 DEF memory, service, Offline, OwnedIffActive, PositionFitsState,
      MemoryMatchesLedger, ShutdownOrder, Canceled

\* An accepted request becomes an owned job, durable as it is in memory.
LEMMA AcceptStep == ASSUME IInv, NEW c \in Clients, Accept(c) PROVE JobInv'
<1> USE DEF IInv, JobInv
<1> DEFINE j == req[c].job
           m == req[c].model
<1>1. j \in Jobs /\ m \in Models
  BY DEF TypeOK, Accept, Request, NoRequest
<1>2. PICK s \in Active, p \in {"spawn", "await"} :
        /\ PersistAcceptance(j, m, req[c].retry, s)
        /\ jobState' = [jobState EXCEPT ![j] = s]
        /\ pc' = [pc EXCEPT ![j] = p]
        /\ s = IF p = "spawn" THEN "running" ELSE "pending"
  BY DEF Accept, Active
<1>3. /\ phase = "up" /\ ~closed /\ jobState[j] \notin Active
      /\ jobModel' = [jobModel EXCEPT ![j] = m]
      /\ ctxDone' = [ctxDone EXCEPT ![j] = FALSE]
      /\ UNCHANGED <<files, phase, service>>
  BY DEF Accept, Admissible, Active
<1>4. /\ rowState' = [rowState EXCEPT ![j] = s] /\ rowModel' = [rowModel EXCEPT ![j] = m]
      /\ modelStatus' = [modelStatus EXCEPT ![m] = "downloading"]
  BY <1>2 DEF PersistAcceptance
<1>5. \A k \in Jobs : k # j =>
        /\ jobState'[k] = jobState[k] /\ jobModel'[k] = jobModel[k] /\ pc'[k] = pc[k]
        /\ rowState'[k] = rowState[k] /\ rowModel'[k] = rowModel[k] /\ ctxDone'[k] = ctxDone[k]
  BY <1>2, <1>3, <1>4 DEF TypeOK
<1>6. /\ jobState'[j] = s /\ jobModel'[j] = m /\ pc'[j] = p
      /\ rowState'[j] = s /\ rowModel'[j] = m
  BY <1>1, <1>2, <1>3, <1>4 DEF TypeOK
<1> HIDE DEF j, m
<1>7. Offline' /\ ShutdownOrder'
  BY <1>3 DEF Offline, ShutdownOrder, service
<1>8. OwnedIffActive' /\ OwnedIsDurable' /\ MemoryMatchesLedger'
  BY <1>3, <1>5, <1>6 DEF OwnedIffActive, OwnedIsDurable, MemoryMatchesLedger, service
<1>9. PositionFitsState'
  BY <1>2, <1>3, <1>5, <1>6 DEF PositionFitsState, Canceled, service
<1>10. FilesWhole'
  <2>1. \A n \in Models : modelStatus'[n] = "ready" => modelStatus[n] = "ready"
    BY <1>1, <1>4 DEF TypeOK
  <2> QED
    BY <1>2, <1>3, <1>5, <1>6, <2>1 DEF FilesWhole
<1> QED
  BY <1>7, <1>8, <1>9, <1>10

\* The steps of a goroutine, or about it, that write its row or its job.
LEMMA JobWriteStep ==
    ASSUME IInv, NEW j \in Jobs,
           Cancel(j) \/ BeginQueued(j) \/ LogLine(j) \/ Finish(j) \/ FinishUnpersisted(j)
    PROVE  JobInv'
<1> USE DEF IInv, JobInv
<1>1. CASE Cancel(j)
  BY <1>1 DEF Cancel, durable, service, TypeOK, Offline, OwnedIffActive, OwnedIsDurable,
      PositionFitsState, MemoryMatchesLedger, FilesWhole, ShutdownOrder, Canceled
<1>2. CASE LogLine(j)
  <2>1. rowState[j] = jobState[j] /\ rowModel[j] = jobModel[j]
    BY <1>2, Owned DEF LogLine
  <2>2. UNCHANGED <<durable, files, phase, memory>>
    BY <1>2, <2>1 DEF LogLine, PersistRow, durable, TypeOK
  <2> QED
    BY <2>2 DEF durable, memory, service, Offline, OwnedIffActive, OwnedIsDurable,
        PositionFitsState, MemoryMatchesLedger, FilesWhole, ShutdownOrder, Canceled
<1>3. CASE BeginQueued(j)
  <2>1. phase = "up" /\ rowModel[j] = jobModel[j] /\ pc[j] = "granted"
    BY <1>3, Owned DEF BeginQueued, Goto
  <2>2. UNCHANGED <<modelStatus, rowModel, files, phase, jobModel, ctxDone, service>>
    BY <1>3, <2>1 DEF BeginQueued, PersistRow, TypeOK
  <2>3. \A k \in Jobs : k # j =>
          jobState'[k] = jobState[k] /\ rowState'[k] = rowState[k] /\ pc'[k] = pc[k]
    BY <1>3 DEF BeginQueued, PersistRow, Goto, TypeOK
  <2>4. jobState'[j] = "running" /\ rowState'[j] = "running" /\ pc'[j] = "recheck"
    BY <1>3 DEF BeginQueued, PersistRow, Goto, TypeOK
  <2>5. Offline' /\ ShutdownOrder'
    BY <2>1, <2>2, <2>3 DEF Offline, ShutdownOrder, service
  <2> QED
    BY <2>1, <2>2, <2>3, <2>4, <2>5 DEF Active, service, OwnedIffActive, OwnedIsDurable,
        PositionFitsState, MemoryMatchesLedger, FilesWhole, Canceled
<1>4. CASE Finish(j) \/ FinishUnpersisted(j)
  <2>1. /\ phase = "up" /\ pc[j] \in Finishing
        /\ rowState[j] \in Active /\ rowModel[j] = jobModel[j] /\ jobModel[j] \in Models
    BY <1>4, Owned DEF Finish, FinishUnpersisted, Finishing
  <2>2. UNCHANGED <<rowModel, files, phase, jobModel, closed, shut>>
    BY <1>4, <2>1 DEF Finish, FinishUnpersisted, PersistTerminal, durable, service, TypeOK
  <2>3. \A k \in Jobs : k # j =>
          /\ jobState'[k] = jobState[k] /\ rowState'[k] = rowState[k]
          /\ pc'[k] = pc[k] /\ ctxDone'[k] = ctxDone[k]
    BY <1>4 DEF Finish, FinishUnpersisted, PersistTerminal, durable, TypeOK
  <2>4. pc'[j] = "idle" /\ (terminalErr => terminalErr')
    BY <1>4 DEF Finish, FinishUnpersisted, service, TypeOK
  <2>5. /\ jobState'[j] \in Terminal
        /\ \/ rowState'[j] = jobState'[j]
           \/ rowState'[j] = rowState[j] /\ jobState'[j] = "failed" /\ terminalErr'
    BY <1>4, OutcomesTerminal DEF Finish, FinishUnpersisted, PersistTerminal, durable, Terminal, TypeOK
  <2>6. \A m \in Models : modelStatus'[m] = "ready" => files[m] = "complete"
    <3>1. CASE Finish(j)
      <4>1. Outcomes[pc[j]] = "succeeded" => pc[j] = "finSucceeded"
        BY <2>1, OutcomesTerminal DEF Finishing
      <4>2. modelStatus' = [modelStatus EXCEPT ![jobModel[j]] = Published(Outcomes[pc[j]])]
        BY <2>1, <3>1, DownloadAssumption DEF Finish, PersistTerminal
      <4>3. Published(Outcomes[pc[j]]) = "ready" => Outcomes[pc[j]] = "succeeded"
        BY DEF Published
      <4> QED
        BY <4>1, <4>2, <4>3 DEF FilesWhole, TypeOK
    <3>2. CASE FinishUnpersisted(j)
      BY <3>2 DEF FinishUnpersisted, durable, FilesWhole
    <3> QED
      BY <1>4, <3>1, <3>2
  <2>7. Offline' /\ ShutdownOrder'
    BY <2>1, <2>2, <2>3, <2>4 DEF Offline, ShutdownOrder, Finishing
  <2>8. OwnedIffActive' /\ OwnedIsDurable' /\ PositionFitsState'
    BY <2>2, <2>3, <2>4, <2>5 DEF OwnedIffActive, OwnedIsDurable, PositionFitsState, Canceled,
        Active, Terminal
  <2>9. MemoryMatchesLedger'
    BY <2>1, <2>2, <2>3, <2>4, <2>5 DEF MemoryMatchesLedger
  <2>10. FilesWhole'
    BY <2>2, <2>3, <2>4, <2>6 DEF FilesWhole
  <2> QED
    BY <2>7, <2>8, <2>9, <2>10
<1> QED
  BY <1>1, <1>2, <1>3, <1>4

\* Every step keeps what relates memory, goroutines and files to the ledger.
LEMMA JobInvStep == ASSUME IInv, [Next]_vars PROVE JobInv'
<1>1. CASE UNCHANGED <<durable, files, phase, jobState, jobModel, pc, ctxDone, service>>
  BY <1>1 DEF IInv, JobInv, durable, service, Offline, OwnedIffActive, OwnedIsDurable,
      PositionFitsState, MemoryMatchesLedger, FilesWhole, ShutdownOrder, Canceled
<1>2. CASE UNCHANGED vars
  BY <1>1, <1>2 DEF vars, memory
<1>3. CASE Boot \/ RestoreFails \/ Restored \/ Crash \/ Shutdown \/ ShutdownDrained
           \/ ShutdownTimesOut \/ ServiceExit
  BY <1>3, ServiceStep DEF Crash, ServiceExit
<1>4. ASSUME NEW m \in Models, RegisterHF(m) \/ DeleteModel(m) PROVE JobInv'
  BY <1>4, RegistryStep
<1>5. ASSUME NEW c \in Clients, ClientStep(c) PROVE JobInv'
  BY <1>1, <1>5, AcceptStep DEF ClientStep, CallStart, CallRetry, ReadModel, Reject
<1>6. ASSUME NEW j \in Jobs,
             RestoreRow(j) \/ Cancel(j) \/ Grant(j) \/ JobStep(j) \/ LogLine(j) \/ Exit(j)
      PROVE JobInv'
  BY <1>6, ServiceStep, MoveStep, JobWriteStep DEF JobStep
<1> QED
  BY <1>2, <1>3, <1>4, <1>5, <1>6 DEF Next

-----------------------------------------------------------------------------
(* Theorems *)

\* IInv is inductive.
THEOREM Inductive == Spec => []IInv
<1>1. Init => IInv
  <2> SUFFICES ASSUME Init PROVE IInv
    OBVIOUS
  <2>1. TypeOK
    <3>1. modelStatus \in [Models -> ModelStatus] /\ files \in [Models -> {"incomplete", "complete"}]
      BY DEF Init, ModelStatus
    <3>2. rowState \in [Jobs -> State] /\ rowModel \in [Jobs -> Models \cup {NoModel}]
      BY DEF Init, State
    <3>3. jobState \in [Jobs -> State] /\ jobModel \in [Jobs -> Models \cup {NoModel}]
      BY DEF Init, State
    <3>4. pc \in [Jobs -> Position] /\ ctxDone \in [Jobs -> BOOLEAN]
      BY DEF Init, Position
    <3>5. workers \in 0 .. MaxWorkers /\ req \in [Clients -> Request]
      BY DownloadAssumption DEF Init, Request
    <3> QED
      BY <3>1, <3>2, <3>3, <3>4, <3>5 DEF Init, TypeOK
  <2>2. OneAttemptPerClaim
    BY DEF Init, OneAttemptPerClaim, Ledger!OneAttemptPerClaim, Ledger!Active
  <2>3. Offline /\ OwnedIffActive /\ OwnedIsDurable /\ PositionFitsState
    BY DEF Init, Active, Offline, OwnedIffActive, OwnedIsDurable, PositionFitsState
  <2>4. MemoryMatchesLedger /\ FilesWhole /\ ShutdownOrder
    BY DEF Init, MemoryMatchesLedger, FilesWhole, ShutdownOrder
  <2>5. WorkersCounted
    BY NoWorkers DEF Init
  <2> QED
    BY <2>1, <2>2, <2>3, <2>4, <2>5 DEF IInv
<1>2. IInv /\ [Next]_vars => IInv'
  <2> SUFFICES ASSUME IInv, [Next]_vars PROVE IInv'
    OBVIOUS
  <2>1. TypeOK' /\ OneAttemptPerClaim' /\ Counted' /\ JobInv'
    BY TypeStep, OneAttemptKept, CountedStep, JobInvStep
  <2> QED
    BY <2>1 DEF IInv, Counted, JobInv
<1> QED
  BY <1>1, <1>2, PTL DEF Spec

\* Types.
THEOREM Typing == Spec => []TypeOK
BY Inductive, PTL DEF IInv

\* One active attempt per claimed model, under every interleaving of requests,
\* goroutines, failed transactions and crashes (persistAcceptanceLocked).
THEOREM OneAttempt == Spec => []OneAttemptPerClaim
BY Inductive, PTL DEF IInv

\* No CLI process exists that SQLite does not know of (awaitWorker).
THEOREM Durable == Spec => []DurableBeforeProcess
<1>1. IInv => DurableBeforeProcess
  BY Owned DEF DurableBeforeProcess, IInv, PositionFitsState
<1> QED
  BY <1>1, Inductive, PTL

\* Worker slots are neither leaked nor returned twice, and CLI processes never
\* outnumber them (downloadRequest, awaitWorker, startCommand, failStart).
THEOREM Workers == Spec => []WorkersBalanced
<1>1. IInv => WorkersBalanced
  <2> SUFFICES ASSUME IInv PROVE WorkersBalanced
    OBVIOUS
  <2> DEFINE L == {j \in Jobs : pc[j] = "live"}
  <2>1. L \subseteq Holders
    BY DEF Holders, Holding
  <2>2. IsFiniteSet(Holders)
    BY DownloadAssumption, FS_Subset DEF Holders
  <2>3. Cardinality(L) \in Nat /\ Cardinality(Holders) \in Nat /\ Cardinality(L) <= Cardinality(Holders)
    BY <2>1, <2>2, FS_Subset, FS_CardinalityType
  <2>4. workers = Cardinality(Holders) /\ workers <= MaxWorkers /\ MaxWorkers \in Nat
    BY DownloadAssumption DEF IInv, WorkersCounted, TypeOK
  <2>5. Cardinality(L) <= MaxWorkers
    BY <2>3, <2>4
  <2> QED
    BY <2>4, <2>5 DEF WorkersBalanced
<1> QED
  BY <1>1, Inductive, PTL

\* A ready model has whole files and no writer (startCommand, persistTerminalLocked).
THEOREM Complete == Spec => []ReadyIsComplete
<1>1. IInv => ReadyIsComplete
  BY Owned DEF IInv, FilesWhole, ReadyIsComplete, Holding
<1> QED
  BY <1>1, Inductive, PTL

\* Memory and SQLite tell the same story of a job (finish).
THEOREM Matches == Spec => []MemoryMatchesLedger
BY Inductive, PTL DEF IInv

\* A Shutdown without an error leaves no active row (Shutdown, finish).
THEOREM CleanShutdown == Spec => []CleanShutdownSettles
<1>1. IInv => CleanShutdownSettles
  BY DEF IInv, CleanShutdownSettles, ShutdownOrder, MemoryMatchesLedger, OwnedIffActive, Offline, Active
<1> QED
  BY <1>1, Inductive, PTL

\* Whenever the process dies, the next start accepts its rows
\* (validateLinkedRestoredJob).
THEOREM Restart == Spec => []RestoreAccepts
<1>1. IInv => RestoreAccepts
  BY DEF IInv, TypeOK, RestoreAccepts, Restorable, OneAttemptPerClaim, Ledger!OneAttemptPerClaim, Active,
     Ledger!Active
<1> QED
  BY <1>1, Inductive, PTL

\* The service implements the ledger.
THEOREM Implements == Spec => LedgerSpec
<1>1. Init => Ledger!LedgerInit
  BY DEF Init, Ledger!LedgerInit
<1>2. IInv /\ [Next]_vars => [Ledger!LedgerNext]_(Ledger!ledger)
  BY StepRefines DEF durable, Ledger!ledger
<1> QED
  BY <1>1, <1>2, Inductive, PTL DEF Spec, LedgerSpec, Ledger!LedgerSpec

\* What the ledger alone promises holds of the service.
LEMMA Lift == Spec => LP!LedgerSpec
<1>1. Ledger!LedgerInit => LP!LedgerInit
  BY DEF Ledger!LedgerInit, LP!LedgerInit
<1> QED
  BY <1>1, SameNext, Implements, PTL DEF LedgerSpec, Ledger!LedgerSpec, LP!LedgerSpec

\* A ready model is never moved back by a request that read its status earlier
\* (persistAcceptanceLocked).
THEOREM Ready == Spec => ReadyIsFinal
<1>1. LP!LedgerSpec => LP!ReadyIsFinal
  BY LP!LedgerReadyIsFinal, DownloadAssumption
<1>2. LP!ReadyIsFinal => ReadyIsFinal
  BY PTL DEF LP!ReadyIsFinal, ReadyIsFinal, Ledger!ReadyIsFinal, LP!ledger, Ledger!ledger
<1> QED
  BY <1>1, <1>2, Lift, PTL

\* A job id keeps its history (downloadRequest's id check, downloadRetrySQL).
THEOREM Identity == Spec => DurableIdentity
<1>1. LP!LedgerSpec => LP!DurableIdentity
  BY LP!LedgerIdentity, DownloadAssumption
<1>2. LP!DurableIdentity => DurableIdentity
  <2>1. ASSUME [\A j \in Jobs :
                  rowState[j] \in LP!Terminal /\ rowState'[j] # rowState[j]
                    => /\ rowState[j] # "succeeded"
                       /\ rowState'[j] \in LP!Active
                       /\ rowModel'[j] = rowModel[j]]_(LP!ledger)
        PROVE  [\A j \in Jobs :
                  rowState[j] \in Ledger!Terminal /\ rowState'[j] # rowState[j]
                    => /\ rowState[j] # "succeeded"
                       /\ rowState'[j] \in Ledger!Active
                       /\ rowModel'[j] = rowModel[j]]_(Ledger!ledger)
    BY <2>1 DEF LP!Terminal, LP!Active, Ledger!Terminal, Ledger!Active, LP!ledger, Ledger!ledger
  <2> QED
    BY <2>1, PTL DEF LP!DurableIdentity, DurableIdentity, Ledger!DurableIdentity
<1> QED
  BY <1>1, <1>2, Lift, PTL
=============================================================================
