------------------------ MODULE DownloadLedgerProofs ------------------------
(* Proofs about the durable ledger of downloads, for every set of jobs and *)
(* models.  NoModel stands for NULL, so it is assumed to be no model.      *)
EXTENDS DownloadLedger, TLAPS

\* The tables keep their types under every ledger step.
LEMMA LedgerTyping == LedgerSpec => []LedgerTypeOK
<1> USE DEF LedgerTypeOK, ModelStatus, Claimable, Active, Terminal
<1>1. LedgerInit => LedgerTypeOK
  BY DEF LedgerInit
<1>2. LedgerTypeOK /\ [LedgerNext]_ledger => LedgerTypeOK'
  <2> SUFFICES ASSUME LedgerTypeOK, [LedgerNext]_ledger PROVE LedgerTypeOK'
    OBVIOUS
  <2>1. ASSUME NEW m \in Models, Register(m) PROVE LedgerTypeOK'
    BY <2>1 DEF Register
  <2>2. ASSUME NEW m \in Models, Remove(m) PROVE LedgerTypeOK'
    BY <2>2 DEF Remove
  <2>3. ASSUME NEW j \in Jobs, NEW m \in Models, NEW s \in Active, Claim(j, m, s)
        PROVE LedgerTypeOK'
    BY <2>3 DEF Claim
  <2>4. ASSUME NEW j \in Jobs, Start(j) PROVE LedgerTypeOK'
    BY <2>4 DEF Start
  <2>5. ASSUME NEW j \in Jobs, NEW o \in Terminal, Settle(j, o) PROVE LedgerTypeOK'
    BY <2>5 DEF Settle, Published
  <2>6. CASE UNCHANGED ledger
    BY <2>6 DEF ledger
  <2> QED
    BY <2>1, <2>2, <2>3, <2>4, <2>5, <2>6 DEF LedgerNext
<1> QED
  BY <1>1, <1>2, PTL DEF LedgerSpec

\* One active attempt per downloading model: the claim transaction of
\* persistAcceptanceLocked, the terminal transaction of persistTerminalLocked and
\* the count Registry.Delete makes before it removes the row keep it together.
LEMMA OneAttemptStep ==
    ASSUME NoModel \notin Models
    PROVE  LedgerTypeOK /\ OneAttemptPerClaim /\ [LedgerNext]_ledger => OneAttemptPerClaim'
<1> SUFFICES ASSUME LedgerTypeOK, OneAttemptPerClaim, [LedgerNext]_ledger
             PROVE OneAttemptPerClaim'
  OBVIOUS
<1> USE DEF LedgerTypeOK, OneAttemptPerClaim, Active, Terminal
<1>1. ASSUME NEW m \in Models, Register(m) PROVE OneAttemptPerClaim'
  BY <1>1 DEF Register
<1>2. ASSUME NEW m \in Models, Remove(m) PROVE OneAttemptPerClaim'
  BY <1>2 DEF Remove
<1>3. ASSUME NEW j \in Jobs, NEW m \in Models, NEW s \in Active, Claim(j, m, s)
      PROVE OneAttemptPerClaim'
  <2>1. modelStatus[m] # "downloading" /\ rowState[j] \notin Active
    BY <1>3 DEF Claim, Claimable
  <2>2. \A k \in Jobs : rowState[k] \in Active => rowModel[k] # m
    BY <2>1
  <2> QED
    BY <1>3, <2>1, <2>2 DEF Claim
<1>4. ASSUME NEW j \in Jobs, Start(j) PROVE OneAttemptPerClaim'
  BY <1>4 DEF Start
<1>5. ASSUME NEW j \in Jobs, NEW o \in Terminal, Settle(j, o) PROVE OneAttemptPerClaim'
  <2>1. rowModel[j] \in Models /\ Published(o) # "downloading"
    BY <1>5 DEF Settle, Published
  <2> QED
    BY <1>5, <2>1 DEF Settle
<1>6. CASE UNCHANGED ledger
  BY <1>6 DEF ledger
<1> QED
  BY <1>1, <1>2, <1>3, <1>4, <1>5, <1>6 DEF LedgerNext

\* Every reachable ledger has one active attempt per downloading model.
THEOREM LedgerOneAttempt ==
    ASSUME NoModel \notin Models
    PROVE  LedgerSpec => []OneAttemptPerClaim
<1>1. LedgerInit => OneAttemptPerClaim
  BY DEF LedgerInit, OneAttemptPerClaim, Active
<1> QED
  BY <1>1, OneAttemptStep, LedgerTyping, PTL DEF LedgerSpec

\* A job id keeps its history: the id check of downloadRequest and the WHERE
\* clause of downloadRetrySQL.
THEOREM LedgerIdentity == LedgerSpec => DurableIdentity
<1>1. LedgerTypeOK /\ [LedgerNext]_ledger =>
        [\A j \in Jobs :
           rowState[j] \in Terminal /\ rowState'[j] # rowState[j]
             => /\ rowState[j] # "succeeded"
                /\ rowState'[j] \in Active
                /\ rowModel'[j] = rowModel[j]]_ledger
  <2> SUFFICES ASSUME LedgerTypeOK, LedgerNext, NEW j \in Jobs,
                      rowState[j] \in Terminal, rowState'[j] # rowState[j]
               PROVE  /\ rowState[j] # "succeeded"
                      /\ rowState'[j] \in Active
                      /\ rowModel'[j] = rowModel[j]
    BY DEF ledger
  <2>1. PICK k \in Jobs, m \in Models, s \in Active : Claim(k, m, s)
    BY DEF LedgerNext, LedgerTypeOK, Register, Remove, Start, Settle, Active, Terminal
  <2>2. k = j
    BY <2>1 DEF Claim, LedgerTypeOK
  <2> QED
    BY <2>1, <2>2 DEF Claim, LedgerTypeOK, Active, Terminal
<1> QED
  BY <1>1, LedgerTyping, PTL DEF LedgerSpec, DurableIdentity

\* A ready model is never claimed again: the status list of the claim.
THEOREM LedgerReadyIsFinal ==
    ASSUME NoModel \notin Models
    PROVE  LedgerSpec => ReadyIsFinal
<1>1. LedgerTypeOK /\ OneAttemptPerClaim /\ [LedgerNext]_ledger =>
        [\A m \in Models :
           modelStatus[m] = "ready" => modelStatus'[m] \in {"ready", "deleted"}]_ledger
  <2> SUFFICES ASSUME LedgerTypeOK, OneAttemptPerClaim, LedgerNext, NEW m \in Models,
                      modelStatus[m] = "ready"
               PROVE  modelStatus'[m] \in {"ready", "deleted"}
    BY DEF ledger
  <2>1. ASSUME NEW n \in Models, Register(n) \/ Remove(n)
        PROVE modelStatus'[m] \in {"ready", "deleted"}
    BY <2>1 DEF Register, Remove, LedgerTypeOK
  <2>2. ASSUME NEW j \in Jobs, NEW n \in Models, NEW s \in Active, Claim(j, n, s)
        PROVE modelStatus'[m] \in {"ready", "deleted"}
    BY <2>2 DEF Claim, LedgerTypeOK, Claimable
  <2>3. ASSUME NEW j \in Jobs, Start(j) PROVE modelStatus'[m] \in {"ready", "deleted"}
    BY <2>3 DEF Start
  <2>4. ASSUME NEW j \in Jobs, NEW o \in Terminal, Settle(j, o)
        PROVE modelStatus'[m] \in {"ready", "deleted"}
    <3>1. rowModel[j] # m
      BY <2>4 DEF Settle, OneAttemptPerClaim
    <3> QED
      BY <2>4, <3>1 DEF Settle, LedgerTypeOK
  <2> QED
    BY <2>1, <2>2, <2>3, <2>4 DEF LedgerNext
<1> QED
  BY <1>1, LedgerTyping, LedgerOneAttempt, PTL DEF LedgerSpec, ReadyIsFinal
=============================================================================
