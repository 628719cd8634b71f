--------------------------- MODULE DownloadLedger ---------------------------
(***************************************************************************)
(* What the download service promises about its SQLite tables, and nothing *)
(* about how it keeps the promise: the `models` rows it claims and settles *)
(* and the `downloads` rows that are the durable history of its attempts.  *)
(* There are no goroutines, worker slots, request handlers or crashes      *)
(* here.  Module Download implements this specification.                   *)
(***************************************************************************)
CONSTANTS
    Jobs,       \* download ids, chosen by callers
    Models,     \* registered-model ids (32 random hex digits, never reused)
    NoModel     \* a NULL downloads.model_id; the theorems assume it is no model

VARIABLES
    modelStatus,    \* models.status; "absent" and "deleted" are no row
    rowState,       \* downloads.state; "none" is no row
    rowModel        \* downloads.model_id

ledger == <<modelStatus, rowState, rowModel>>

Active   == {"pending", "running"}
Terminal == {"succeeded", "failed", "canceled"}

\* Wrong on purpose: a ready model may be downloaded again.
ClaimableReady == {"registered", "error", "failed", "canceled", "ready"}

\* The states from which a model may be claimed for a download.
Claimable == {"registered", "error", "failed", "canceled"}

ModelStatus == {"absent", "deleted", "downloading", "ready"} \cup Claimable

\* Wrong on purpose: the model takes the download's state over.
PublishedVerbatim(s) == s

\* The model status published together with a download state.
Published(s) == IF s \in Active THEN "downloading"
                ELSE IF s = "succeeded" THEN "ready"
                ELSE IF s = "canceled" THEN "canceled" ELSE "error"

LedgerTypeOK ==
    /\ modelStatus \in [Models -> ModelStatus]
    /\ rowState \in [Jobs -> {"none"} \cup Active \cup Terminal]
    /\ rowModel \in [Jobs -> Models \cup {NoModel}]

LedgerInit ==
    /\ modelStatus = [m \in Models |-> "absent"]
    /\ rowState = [j \in Jobs |-> "none"]
    /\ rowModel = [j \in Jobs |-> NoModel]

\* A Hugging Face model is registered under a fresh id.
Register(m) ==
    /\ modelStatus[m] = "absent"
    /\ modelStatus' = [modelStatus EXCEPT ![m] = "registered"]
    /\ UNCHANGED <<rowState, rowModel>>

\* Wrong on purpose: a row may be reopened for any model.
ClaimAnyRow(j, m, s) ==
    /\ modelStatus[m] \in Claimable
    /\ rowState[j] \in {"none", "failed", "canceled"}
    /\ s \in Active
    /\ modelStatus' = [modelStatus EXCEPT ![m] = "downloading"]
    /\ rowState' = [rowState EXCEPT ![j] = s]
    /\ rowModel' = [rowModel EXCEPT ![j] = m]

\* An attempt is accepted: its row and its claim on the model appear at once.
\* A row that already exists may only be reopened for the same model.
Claim(j, m, s) ==
    /\ modelStatus[m] \in Claimable
    /\ \/ rowState[j] = "none"
       \/ rowState[j] \in {"failed", "canceled"} /\ rowModel[j] = m
    /\ s \in Active
    /\ modelStatus' = [modelStatus EXCEPT ![m] = "downloading"]
    /\ rowState' = [rowState EXCEPT ![j] = s]
    /\ rowModel' = [rowModel EXCEPT ![j] = m]

\* A queued attempt becomes a running one.
Start(j) ==
    /\ rowState[j] = "pending"
    /\ rowState' = [rowState EXCEPT ![j] = "running"]
    /\ UNCHANGED <<modelStatus, rowModel>>

\* An attempt ends: its outcome and its model's status appear at once.
Settle(j, o) ==
    /\ rowState[j] \in Active
    /\ o \in Terminal
    /\ rowState' = [rowState EXCEPT ![j] = o]
    /\ modelStatus' = [modelStatus EXCEPT ![rowModel[j]] = Published(o)]
    /\ UNCHANGED rowModel

\* Wrong on purpose: the downloads of the model are not counted.
RemoveUnchecked(m) ==
    /\ modelStatus[m] \notin {"absent", "deleted"}
    /\ modelStatus' = [modelStatus EXCEPT ![m] = "deleted"]
    /\ rowModel' = [j \in Jobs |-> IF rowModel[j] = m THEN NoModel ELSE rowModel[j]]
    /\ UNCHANGED rowState

\* A model no attempt is working on is deleted; its history loses the link.
Remove(m) ==
    /\ modelStatus[m] \notin {"absent", "deleted"}
    /\ \A j \in Jobs : rowModel[j] = m => rowState[j] \notin Active
    /\ modelStatus' = [modelStatus EXCEPT ![m] = "deleted"]
    /\ rowModel' = [j \in Jobs |-> IF rowModel[j] = m THEN NoModel ELSE rowModel[j]]
    /\ UNCHANGED rowState

LedgerNext ==
    \/ \E m \in Models : Register(m) \/ Remove(m)
    \/ \E j \in Jobs, m \in Models, s \in Active : Claim(j, m, s)
    \/ \E j \in Jobs : Start(j)
    \/ \E j \in Jobs, o \in Terminal : Settle(j, o)

LedgerSpec == LedgerInit /\ [][LedgerNext]_ledger

-----------------------------------------------------------------------------
\* A model is "downloading" exactly while one attempt on it is pending or
\* running, and no two attempts are ever active on one model (the claim at
\* downloader.go:1064 and the terminal transaction at downloader.go:1106).
OneAttemptPerClaim ==
    /\ \A m \in Models :
         modelStatus[m] = "downloading"
           <=> \E j \in Jobs : rowState[j] \in Active /\ rowModel[j] = m
    /\ \A j, k \in Jobs :
         rowState[j] \in Active /\ rowState[k] \in Active /\ j # k
           => rowModel[j] # rowModel[k]
    /\ \A j \in Jobs : rowState[j] \in Active => rowModel[j] # NoModel

\* A succeeded row is history for ever; a failed or canceled row changes only by
\* becoming active again for the model it was about (downloader.go:246-252).
DurableIdentity ==
    [][\A j \in Jobs :
         rowState[j] \in Terminal /\ rowState'[j] # rowState[j]
           => /\ rowState[j] # "succeeded"
              /\ rowState'[j] \in Active
              /\ rowModel'[j] = rowModel[j]]_ledger

\* No stale request moves a ready model backwards (downloader.go:1060-1063).
ReadyIsFinal ==
    [][\A m \in Models :
         modelStatus[m] = "ready" => modelStatus'[m] \in {"ready", "deleted"}]_ledger
=============================================================================
