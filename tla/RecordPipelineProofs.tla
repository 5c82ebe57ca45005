------------------------ MODULE RecordPipelineProofs ------------------------
(***************************************************************************)
(* Safety of the record pipeline, for every set of records, number of      *)
(* attempts and set of faults: the contract's properties, the write order, *)
(* the refinement of RecordLifecycle, the types and the wallet.  The       *)
(* pipeline touches the chain only by sending, mining and evicting a       *)
(* transaction of a record, so the first invariant is about the chain and  *)
(* about what the submit worker has in hand.                               *)
(***************************************************************************)
EXTENDS RecordPipeline, TLAPS, FiniteSetTheorems, WellFoundedInduction

\* A busy worker is at a record.
WorkerInv ==
  /\ {"pc", "rec"} \subseteq DOMAIN worker
  /\ worker.pc # "idle" => worker.rec \in Records

\* What is waiting was signed for a record.
MempoolInv == \A tx \in mempool : RecordOf(tx) \in Records

\* The mirror's sequence number is that of a record on the chain: with the numbers
\* distinct (LedgerAssumption), a record mined late is not the newest.
NewestMirrored ==
  lastLedgerSeq = 0 \/ \E r \in notarised : Mirrored(r) /\ Ledger[r].seq = lastLedgerSeq

ContractInv ==
  /\ NewestMirrored
  /\ notarised \subseteq Records
  /\ lastLedgerSeq \in Nat
  /\ DOMAIN balanceOf = Members
  /\ NotarisedOnce
  /\ ReversalAfterOriginal
  /\ MirrorIsNewest

PipelineInv == WorkerInv /\ MempoolInv /\ ContractInv

ChainStep ==
  \/ \E tx : RecordOf(tx) \in Records /\ Send(tx)
  \/ \E tx \in mempool : Mine(tx) \/ Evict(tx)
  \/ UNCHANGED chainVars

\* Only the worker's broadcast sends; other steps mine, evict or leave the chain alone.
LEMMA OtherStepsDoNotSend ==
  ASSUME [Next]_vars, ~Broadcast
  PROVE  (\E tx \in mempool : Mine(tx) \/ Evict(tx)) \/ UNCHANGED chainVars
PROOF
<1>1. CASE \E r \in Records : RequestStep(r) \/ ClaimStep(r) \/ GrowOld(r)
  BY <1>1 DEF RequestStep, ClaimStep, GrowOld, requestSubmission,
     handleRetry, handleVerify, finalizeSupersede, ClaimJob
<1>2. CASE WorkerStep
  BY <1>2 DEF WorkerStep, Precheck, AssignNonce, EstimateGas, HealNonce, Recover,
     RecordTxHash, EnqueueConfirm, ResetToPending, FailTerminally
<1>3. CASE SeedWallet
  BY <1>3 DEF SeedWallet
<1>4. CASE ConfirmStep
  BY <1>4 DEF ConfirmStep, ConfirmVerified, ConfirmReverted, ConfirmGivesUp,
     ConfirmJobDone
<1>5. CASE ReconcileStep
  BY <1>5 DEF ReconcileStep, ScanInFlight, ScanPending, RoundEnds, CheckTx,
     CheckRecord, PatchPending, CheckNonce, ResetInFlight, GiveUp, Requeue
<1>6. CASE MineNext \/ EvictTx
  BY <1>6 DEF MineNext, EvictTx
<1>7. CASE Crash \/ WipeRedis \/ UNCHANGED vars
  BY <1>7 DEF Crash, WipeRedis, vars
<1> QED BY <1>1, <1>2, <1>3, <1>4, <1>5, <1>6, <1>7 DEF Next

\* Every step of the pipeline is a step of the chain or leaves it alone.
LEMMA StepsOfTheChain ==
  ASSUME WorkerInv, [Next]_vars
  PROVE  ChainStep
PROOF
<1>1. CASE Broadcast
  <2>1. RecordOf(<<worker.nonce, worker.rec>>) \in Records
    BY <1>1 DEF Broadcast, WorkerAt, WorkerInv, RecordOf
  <2> QED BY <1>1, <2>1 DEF Broadcast, ChainStep
<1>2. CASE ~Broadcast
  BY <1>2, OtherStepsDoNotSend DEF ChainStep
<1> QED BY <1>1, <1>2

\* The worker leaves "idle" only by taking a job of a record.
LEMMA WorkerKeepsRecord ==
  ASSUME WorkerInv, [Next]_vars
  PROVE  WorkerInv'
PROOF
<1> USE DEF WorkerInv, WorkerAt, Goto, HealThen, IdleWorker
<1>1. CASE \E r \in Records : RequestStep(r) \/ GrowOld(r)
  BY <1>1 DEF RequestStep, GrowOld, requestSubmission, handleRetry, handleVerify,
     finalizeSupersede
<1>2. ASSUME NEW r \in Records, ClaimStep(r)
      PROVE  WorkerInv'
  BY <1>2 DEF ClaimStep, ClaimJob
<1>3. CASE WorkerStep
  <2>1. CASE Precheck BY <2>1 DEF Precheck
  <2>2. CASE AssignNonce BY <2>2 DEF AssignNonce
  <2>3. CASE EstimateGas BY <2>3 DEF EstimateGas
  <2>4. CASE Broadcast BY <2>4 DEF Broadcast
  <2>5. CASE HealNonce BY <2>5 DEF HealNonce, JobDone
  <2>6. CASE Recover
    <3>1. worker.pc = "recover"
      BY <2>6 DEF Recover
    <3>2. CASE worker' = [worker EXCEPT !.pc = "sent", !.tx = FoundTx(worker.rec)]
      <4>1. worker'.rec = worker.rec
        BY <3>2
      <4> QED BY <3>1, <3>2, <4>1
    <3>3. CASE JobThrows
      BY <3>3 DEF JobThrows
    <3>4. CASE worker' = [worker EXCEPT !.pc = "reset"]
      BY <3>1, <3>4
    <3> QED BY <2>6, <3>2, <3>3, <3>4 DEF Recover, StepFails
  <2>7. CASE RecordTxHash BY <2>7 DEF RecordTxHash, StepFails, JobThrows
  <2>8. CASE EnqueueConfirm BY <2>8 DEF EnqueueConfirm, StepFails, JobThrows, JobDone
  <2>9. CASE ResetToPending BY <2>9 DEF ResetToPending, JobThrows
  <2>10. CASE FailTerminally BY <2>10 DEF FailTerminally, JobThrows, JobDone
  <2> QED
    BY <1>3, <2>1, <2>2, <2>3, <2>4, <2>5, <2>6, <2>7, <2>8, <2>9, <2>10 DEF WorkerStep
<1>4. CASE SeedWallet \/ MineNext \/ EvictTx \/ WipeRedis \/ UNCHANGED vars
  BY <1>4 DEF SeedWallet, MineNext, EvictTx, WipeRedis, vars
<1>5. CASE Crash
  BY <1>5 DEF Crash
<1>6. CASE ConfirmStep
  BY <1>6 DEF ConfirmStep, ConfirmVerified, ConfirmReverted, ConfirmGivesUp, ConfirmJobDone
<1>7. CASE ReconcileStep
  BY <1>7 DEF ReconcileStep, ScanInFlight, ScanPending, RoundEnds, CheckTx, CheckRecord,
     PatchPending, CheckNonce, ResetInFlight, GiveUp, Requeue
<1> QED BY <1>1, <1>2, <1>3, <1>4, <1>5, <1>6, <1>7 DEF Next

\* Mining one transaction keeps the contract's invariant.
LEMMA MineKeepsContract ==
  ASSUME ContractInv, NEW tx, RecordOf(tx) \in Records, Mine(tx)
  PROVE  ContractInv'
PROOF
<1> USE DEF ContractInv
<1> DEFINE r == RecordOf(tx)
<1>1. CASE Reverts(r)
  BY <1>1 DEF Mine, NewestMirrored, NotarisedOnce, ReversalAfterOriginal, MirrorIsNewest
<1>2. CASE ~Reverts(r)
  <2>1. /\ succeeded' = succeeded \cup {tx} /\ notarised' = notarised \cup {r}
        /\ MirrorIfNewer(r) /\ r \notin notarised /\ ~OriginalMissing(r)
    BY <1>2 DEF Mine, Reverts
  <2>2. NotarisedOnce'
    BY <2>1 DEF NotarisedOnce
  <2>3. ReversalAfterOriginal'
    BY <2>1 DEF ReversalAfterOriginal, OriginalMissing
  <2>4. Ledger[r].seq \in Nat \ {0} /\ Ledger[r].member \in Members
        /\ \A s \in notarised : Ledger[s].seq # Ledger[r].seq /\ Ledger[s].seq \in Nat \ {0}
    BY <2>1, LedgerAssumption
  <2>5. lastLedgerSeq' \in Nat /\ DOMAIN balanceOf' = Members /\ NewestMirrored'
    BY <2>1, <2>4 DEF MirrorIfNewer, NewestMirrored
  <2>6. MirrorIsNewest'
    <3>1. CASE Mirrored(r) /\ Ledger[r].seq > lastLedgerSeq
      <4>1. /\ lastLedgerSeq' = Ledger[r].seq
            /\ balanceOf' = [balanceOf EXCEPT ![Ledger[r].member] = Ledger[r].balanceAfter]
            /\ totalSupplyOf' = Ledger[r].supplyAfter
        BY <2>1, <3>1 DEF MirrorIfNewer
      <4>2. \A s \in notarised : Mirrored(s) => Ledger[s].seq <= lastLedgerSeq
        BY DEF MirrorIsNewest
      <4>3. \A s \in notarised' : Mirrored(s) => Ledger[s].seq <= lastLedgerSeq'
        BY <2>1, <2>4, <3>1, <4>1, <4>2
      <4>4. \A s \in notarised' : Mirrored(s) /\ Ledger[s].seq = lastLedgerSeq' => s = r
        BY <2>1, <2>4, <4>1
      <4>5. balanceOf'[Ledger[r].member] = Ledger[r].balanceAfter
        BY <2>4, <4>1
      <4>6. \A m \in Members : balanceOf'[m] # 0 =>
              \E s \in notarised' : Mirrored(s) /\ Ledger[s].member = m
                                   /\ Ledger[s].balanceAfter = balanceOf'[m]
        <5> SUFFICES ASSUME NEW m \in Members, balanceOf'[m] # 0
                     PROVE  \E s \in notarised' : Mirrored(s) /\ Ledger[s].member = m
                                                  /\ Ledger[s].balanceAfter = balanceOf'[m]
          OBVIOUS
        <5>1. CASE m = Ledger[r].member
          BY <2>1, <3>1, <4>5, <5>1
        <5>2. CASE m # Ledger[r].member
          <6>1. balanceOf'[m] = balanceOf[m]
            BY <4>1, <5>2
          <6> QED BY <2>1, <6>1 DEF MirrorIsNewest
        <5> QED BY <5>1, <5>2
      <4>7. r \in notarised' /\ Mirrored(r)
        BY <2>1, <3>1
      <4> QED BY <4>1, <4>3, <4>4, <4>5, <4>6, <4>7 DEF MirrorIsNewest
    <3>2. CASE ~(Mirrored(r) /\ Ledger[r].seq > lastLedgerSeq)
      <4>1. UNCHANGED <<lastLedgerSeq, balanceOf, totalSupplyOf>>
        BY <2>1, <3>2 DEF MirrorIfNewer
      <4>2. Mirrored(r) => Ledger[r].seq <= lastLedgerSeq
        BY <2>4, <3>2
      <4>3. Mirrored(r) => Ledger[r].seq # lastLedgerSeq
        <5> SUFFICES ASSUME Mirrored(r), Ledger[r].seq = lastLedgerSeq
                     PROVE  FALSE
          OBVIOUS
        <5>1. PICK s \in notarised : Mirrored(s) /\ Ledger[s].seq = lastLedgerSeq
          BY <2>4, LedgerAssumption DEF NewestMirrored
        <5> QED BY <2>4, <5>1
      <4> QED BY <2>1, <4>1, <4>2, <4>3 DEF MirrorIsNewest
    <3> QED BY <3>1, <3>2
  <2> QED BY <1>2, <2>1, <2>2, <2>3, <2>5, <2>6
<1> QED BY <1>1, <1>2

\* Sending, mining and evicting keep the contract and the mempool as they should be.
LEMMA ChainStepKeepsInv ==
  ASSUME MempoolInv, ContractInv, ChainStep
  PROVE  (MempoolInv /\ ContractInv)'
PROOF
<1> USE DEF ContractInv, MempoolInv
<1>1. CASE \E tx : RecordOf(tx) \in Records /\ Send(tx)
  BY <1>1 DEF Send, NewestMirrored, NotarisedOnce, ReversalAfterOriginal, MirrorIsNewest
<1>2. ASSUME NEW tx \in mempool, Mine(tx)
      PROVE  (MempoolInv /\ ContractInv)'
  <2>1. ContractInv'
    BY <1>2, MineKeepsContract
  <2>2. MempoolInv'
    BY <1>2 DEF Mine
  <2> QED BY <2>1, <2>2
<1>3. ASSUME NEW tx \in mempool, Evict(tx)
      PROVE  (MempoolInv /\ ContractInv)'
  BY <1>3 DEF Evict, NewestMirrored, NotarisedOnce, ReversalAfterOriginal, MirrorIsNewest
<1>4. CASE UNCHANGED chainVars
  BY <1>4 DEF chainVars, NewestMirrored, NotarisedOnce, ReversalAfterOriginal, MirrorIsNewest
<1> QED BY <1>1, <1>2, <1>3, <1>4 DEF ChainStep

\* The inductive invariant: what the worker has in hand, the mempool and the contract.
THEOREM PipelineInvHolds == Spec => []PipelineInv
PROOF
<1>1. Init => PipelineInv
  BY LedgerAssumption
  DEF Init, ChainInit, PipelineInv, WorkerInv, IdleWorker, MempoolInv, ContractInv,
      NewestMirrored, NotarisedOnce, ReversalAfterOriginal, MirrorIsNewest
<1>2. PipelineInv /\ [Next]_vars => PipelineInv'
  <2> SUFFICES ASSUME PipelineInv, [Next]_vars PROVE PipelineInv'
    OBVIOUS
  <2>1. WorkerInv'
    BY WorkerKeepsRecord DEF PipelineInv
  <2>2. (MempoolInv /\ ContractInv)'
    BY StepsOfTheChain, ChainStepKeepsInv DEF PipelineInv
  <2> QED BY <2>1, <2>2 DEF PipelineInv
<1> QED BY <1>1, <1>2, PTL DEF Spec

\* However records are retried, re-sent, reset by the reconciler and lost in crashes,
\* each is notarised by at most one transaction (the contract's require(!exists)).
THEOREM NotarisedOnceHolds == Spec => []NotarisedOnce
PROOF
<1>1. PipelineInv => NotarisedOnce
  BY DEF PipelineInv, ContractInv
<1> QED BY <1>1, PipelineInvHolds, PTL

\* Whatever the order the two records are mined in, the chain never holds a reversal
\* without the mint it reverses.
THEOREM ReversalAfterOriginalHolds == Spec => []ReversalAfterOriginal
PROOF
<1>1. PipelineInv => ReversalAfterOriginal
  BY DEF PipelineInv, ContractInv
<1> QED BY <1>1, PipelineInvHolds, PTL

\* A late or repeated record never rolls the mirrored balances and supply back.
THEOREM MirrorIsNewestHolds == Spec => []MirrorIsNewest
PROOF
<1>1. PipelineInv => MirrorIsNewest
  BY DEF PipelineInv, ContractInv
<1> QED BY <1>1, PipelineInvHolds, PTL

(***************************************************************************)
(* Write order 1 of the pipeline: a nonce is in the row before anything is *)
(* sent for the record.  No update of a row clears a nonce, whoever makes  *)
(* it; so it is enough that the worker has the nonce persisted from the    *)
(* gas estimate to the broadcast.                                          *)
(***************************************************************************)

\* Rows keep their columns, and a worker about to send has persisted its nonce.
NonceInv ==
  /\ DOMAIN row = Records
  /\ \A r \in Records : "assignedNonce" \in DOMAIN row[r]
  /\ "after" \in DOMAIN worker
  /\ worker.after \in {"none", "reset", "recover", "terminal", "skip"}
  /\ worker.pc \in {"estimate", "broadcast"} => row[worker.rec].assignedNonce # NoNonce

\* No update clears an assigned nonce, only the worker's claim of a nonce sets one.
RowsKeepNonces ==
  /\ DOMAIN row' = Records
  /\ \A r \in Records : "assignedNonce" \in DOMAIN row'[r]
  /\ \A r \in Records : row[r].assignedNonce # NoNonce => row'[r].assignedNonce # NoNonce

\* A conditional UPDATE of columns other than the nonce.
LEMMA UpdateKeepsNonces ==
  ASSUME NonceInv, NEW r, NEW from, NEW new,
         r \in Records => /\ "assignedNonce" \in DOMAIN new
                          /\ new.assignedNonce = row[r].assignedNonce,
         Update(r, from, new)
  PROVE  RowsKeepNonces
PROOF
<1>1. DOMAIN row' = Records
  BY DEF Update, NonceInv
<1>2. ASSUME NEW s \in Records
      PROVE  /\ "assignedNonce" \in DOMAIN row'[s]
             /\ row'[s].assignedNonce = row[s].assignedNonce
  <2>1. CASE s = r
    BY <2>1 DEF Update, NonceInv
  <2>2. CASE s # r
    BY <2>2 DEF Update, NonceInv
  <2> QED BY <2>1, <2>2
<1> QED BY <1>1, <1>2 DEF RowsKeepNonces

\* Status changes leave the nonce alone.
LEMMA MovedKeepsNonce ==
  ASSUME NonceInv, NEW r \in Records, NEW to
  PROVE  /\ "assignedNonce" \in DOMAIN Moved(r, to)
         /\ Moved(r, to).assignedNonce = row[r].assignedNonce
PROOF
  BY DEF Moved, NonceInv

\* transition without a patch
LEMMA TransitionKeepsNonces ==
  ASSUME NonceInv, NEW r, NEW from, NEW to, Transition(r, from, to)
  PROVE  RowsKeepNonces
PROOF
  BY MovedKeepsNonce, UpdateKeepsNonces DEF Transition

\* transition with a new attempt epoch
LEMMA ToPendingKeepsNonces ==
  ASSUME NonceInv, NEW r, NEW from, NEW e, ToPendingAgain(r, from, e)
  PROVE  RowsKeepNonces
PROOF
<1> DEFINE new == [Moved(r, "pending") EXCEPT !.attemptEpoch = e]
<1>1. r \in Records => "assignedNonce" \in DOMAIN new /\ new.assignedNonce = row[r].assignedNonce
  BY MovedKeepsNonce
<1> HIDE DEF new
<1> QED BY <1>1, UpdateKeepsNonces DEF ToPendingAgain, new

\* transition with a transaction hash
LEMMA WithTxKeepsNonces ==
  ASSUME NonceInv, NEW r, NEW from, NEW tx, NEW to,
         Update(r, from, [Moved(r, to) EXCEPT !.txHash = tx])
  PROVE  RowsKeepNonces
PROOF
<1> DEFINE new == [Moved(r, to) EXCEPT !.txHash = tx]
<1>1. r \in Records => "assignedNonce" \in DOMAIN new /\ new.assignedNonce = row[r].assignedNonce
  BY MovedKeepsNonce
<1> HIDE DEF new
<1> QED BY <1>1, UpdateKeepsNonces DEF new

\* The reconciler's recovery writes a transaction hash, whichever it found.
LEMMA RecoverKeepsNonces ==
  ASSUME NonceInv, NEW r, RecoverToVerified(r)
  PROVE  RowsKeepNonces
PROOF
  BY WithTxKeepsNonces DEF RecoverToVerified, ToVerified

\* Every step keeps every assigned nonce.
LEMMA StepsKeepNonces ==
  ASSUME NonceInv, WorkerInv, [Next]_vars
  PROVE  RowsKeepNonces
PROOF
<1>1. ASSUME UNCHANGED row
      PROVE  RowsKeepNonces
  BY <1>1 DEF NonceInv, RowsKeepNonces
<1>2. ASSUME NEW r \in Records, RequestStep(r)
      PROVE  RowsKeepNonces
  <2>1. CASE requestSubmission(r)
    BY <1>1, <2>1 DEF requestSubmission
  <2>2. CASE handleRetry(r)
    BY <2>2, ToPendingKeepsNonces DEF handleRetry
  <2>3. CASE handleVerify(r)
    BY <2>3, TransitionKeepsNonces DEF handleVerify
  <2>4. CASE \E original \in Records : finalizeSupersede(r, original)
    BY <2>4, TransitionKeepsNonces DEF finalizeSupersede
  <2> QED BY <1>2, <2>1, <2>2, <2>3, <2>4 DEF RequestStep
<1>3. ASSUME NEW r \in Records, ClaimStep(r)
      PROVE  RowsKeepNonces
  BY <1>1, <1>3, TransitionKeepsNonces DEF ClaimStep, ClaimJob
<1>4. ASSUME NEW r \in Records, GrowOld(r)
      PROVE  RowsKeepNonces
  BY <1>4 DEF GrowOld, NonceInv, RowsKeepNonces
<1>5. CASE WorkerStep
  <2>1. CASE Precheck \/ EstimateGas \/ Broadcast \/ HealNonce \/ Recover \/ EnqueueConfirm
    BY <1>1, <2>1 DEF Precheck, EstimateGas, Broadcast, HealNonce, Recover, EnqueueConfirm
  <2>2. CASE AssignNonce
    <3>1. CASE localNonce # NoNonce /\ Update(worker.rec, {"submitting"},
                   [row[worker.rec] EXCEPT !.assignedNonce = localNonce, !.age = "fresh"])
      <4> DEFINE new == [row[worker.rec] EXCEPT !.assignedNonce = localNonce, !.age = "fresh"]
      <4>1. worker.rec \in Records
        BY <2>2 DEF AssignNonce, WorkerAt, WorkerInv
      <4>2. "assignedNonce" \in DOMAIN new /\ new.assignedNonce = localNonce
        BY <4>1 DEF NonceInv
      <4> HIDE DEF new
      <4>3. Update(worker.rec, {"submitting"}, new)
        BY <3>1 DEF new
      <4> QED BY <3>1, <4>1, <4>2, <4>3 DEF Update, NonceInv, RowsKeepNonces
    <3>2. CASE UNCHANGED row
      BY <1>1, <3>2
    <3> QED BY <2>2, <3>1, <3>2 DEF AssignNonce
  <2>3. CASE RecordTxHash
    BY <1>1, <2>3, WithTxKeepsNonces DEF RecordTxHash, ToConfirming
  <2>4. CASE ResetToPending
    BY <1>1, <2>4, TransitionKeepsNonces DEF ResetToPending
  <2>5. CASE FailTerminally
    BY <1>1, <2>5, TransitionKeepsNonces DEF FailTerminally
  <2> QED BY <1>5, <2>1, <2>2, <2>3, <2>4, <2>5 DEF WorkerStep
<1>6. CASE SeedWallet \/ MineNext \/ EvictTx \/ Crash \/ WipeRedis \/ UNCHANGED vars
  BY <1>1, <1>6 DEF SeedWallet, MineNext, EvictTx, Crash, WipeRedis, vars
<1>7. CASE ConfirmStep
  BY <1>1, <1>7, TransitionKeepsNonces
  DEF ConfirmStep, ConfirmVerified, ConfirmReverted, ConfirmGivesUp
<1>8. CASE ReconcileStep
  <2>1. CASE ScanInFlight \/ ScanPending \/ RoundEnds \/ CheckNonce \/ Requeue
    BY <1>1, <2>1 DEF ScanInFlight, ScanPending, RoundEnds, CheckNonce, Requeue
  <2>2. ASSUME NEW r, CheckTx(r)
        PROVE  RowsKeepNonces
    BY <1>1, <2>2, RecoverKeepsNonces, TransitionKeepsNonces DEF CheckTx
  <2>3. ASSUME NEW r, CheckRecord(r)
        PROVE  RowsKeepNonces
    BY <1>1, <2>3, RecoverKeepsNonces DEF CheckRecord
  <2>4. ASSUME NEW r, PatchPending(r)
        PROVE  RowsKeepNonces
    BY <2>4, ToPendingKeepsNonces DEF PatchPending
  <2>5. CASE ResetInFlight
    BY <2>5, ToPendingKeepsNonces DEF ResetInFlight
  <2>6. CASE GiveUp
    BY <2>6, TransitionKeepsNonces DEF GiveUp
  <2> QED BY <1>8, <2>1, <2>2, <2>3, <2>4, <2>5, <2>6 DEF ReconcileStep
<1> QED BY <1>2, <1>3, <1>4, <1>5, <1>6, <1>7, <1>8 DEF Next

\* The inductive step: the nonce is in the row before the worker goes on to send.
LEMMA NonceInvStep ==
  ASSUME NonceInv, WorkerInv, [Next]_vars
  PROVE  NonceInv'
PROOF
<1>1. RowsKeepNonces
  BY StepsKeepNonces
<1>2. ASSUME UNCHANGED worker
      PROVE  NonceInv'
  BY <1>1, <1>2 DEF NonceInv, RowsKeepNonces, WorkerInv
<1>3. ASSUME worker' = IdleWorker
      PROVE  NonceInv'
  BY <1>1, <1>3 DEF NonceInv, RowsKeepNonces, IdleWorker
<1>4. ASSUME NEW pc, pc \notin {"estimate", "broadcast"}, Goto(pc)
      PROVE  NonceInv'
  BY <1>1, <1>4 DEF NonceInv, RowsKeepNonces, Goto, WorkerInv
<1>5. ASSUME NEW step \in {"reset", "recover", "terminal", "skip"}, HealThen(step)
      PROVE  NonceInv'
  BY <1>1, <1>5 DEF NonceInv, RowsKeepNonces, HealThen, WorkerInv
<1>6. CASE \E r \in Records : RequestStep(r) \/ GrowOld(r)
  BY <1>2, <1>6 DEF RequestStep, GrowOld, requestSubmission, handleRetry, handleVerify,
     finalizeSupersede
<1>7. ASSUME NEW r \in Records, ClaimStep(r)
      PROVE  NonceInv'
  <2>1. PICK e \in AttemptEpochs : ClaimJob(r, e)
    BY <1>7 DEF ClaimStep
  <2>2. CASE worker' = [IdleWorker EXCEPT !.pc = "precheck", !.rec = r, !.epoch = e]
    BY <1>1, <2>2 DEF NonceInv, RowsKeepNonces, IdleWorker
  <2> QED BY <1>2, <2>1, <2>2 DEF ClaimJob
<1>8. CASE WorkerStep
  <2>1. CASE Precheck
    BY <1>4, <2>1 DEF Precheck
  <2>2. CASE AssignNonce
    <3>1. CASE /\ localNonce # NoNonce /\ row[worker.rec].status = "submitting"
               /\ Update(worker.rec, {"submitting"},
                    [row[worker.rec] EXCEPT !.assignedNonce = localNonce, !.age = "fresh"])
               /\ worker' = [worker EXCEPT !.pc = "estimate", !.nonce = localNonce]
      <4>1. worker.rec \in Records
        BY <2>2 DEF AssignNonce, WorkerAt, WorkerInv
      <4>2. row'[worker.rec].assignedNonce = localNonce
        BY <3>1, <4>1 DEF Update, NonceInv
      <4>3. worker'.rec = worker.rec /\ worker'.after = worker.after
            /\ DOMAIN worker' = DOMAIN worker
        BY <3>1
      <4> QED BY <1>1, <3>1, <4>2, <4>3 DEF NonceInv, RowsKeepNonces
    <3>2. CASE HealThen("reset") \/ HealThen("skip")
      BY <1>5, <3>2
    <3> QED BY <2>2, <3>1, <3>2 DEF AssignNonce
  <2>3. CASE EstimateGas
    <3>1. CASE Goto("broadcast")
      BY <1>1, <2>3, <3>1 DEF EstimateGas, WorkerAt, Goto, NonceInv, RowsKeepNonces, WorkerInv
    <3>2. CASE HealThen("recover") \/ HealThen("terminal") \/ HealThen("reset")
      BY <1>5, <3>2
    <3> QED BY <2>3, <3>1, <3>2 DEF EstimateGas
  <2>4. CASE Broadcast
    <3>1. CASE worker' = [worker EXCEPT !.pc = "sent", !.tx = <<worker.nonce, worker.rec>>]
      <4>1. worker'.pc = "sent" /\ worker'.after = worker.after /\ DOMAIN worker' = DOMAIN worker
        BY <3>1 DEF WorkerInv
      <4> QED BY <1>1, <4>1 DEF NonceInv, RowsKeepNonces
    <3>2. CASE HealThen("reset")
      BY <1>5, <3>2
    <3> QED BY <2>4, <3>1, <3>2 DEF Broadcast
  <2>5. CASE HealNonce
    BY <1>3, <1>4, <2>5 DEF HealNonce, JobDone, NonceInv
  <2>6. CASE Recover
    <3>1. CASE worker' = [worker EXCEPT !.pc = "sent", !.tx = FoundTx(worker.rec)]
      <4>1. worker'.pc = "sent" /\ worker'.after = worker.after /\ DOMAIN worker' = DOMAIN worker
        BY <3>1 DEF WorkerInv, NonceInv
      <4> QED BY <1>1, <4>1 DEF NonceInv, RowsKeepNonces
    <3>2. CASE Goto("reset") \/ JobThrows
      BY <1>3, <1>4, <3>2 DEF JobThrows
    <3> QED BY <2>6, <3>1, <3>2 DEF Recover, StepFails
  <2>7. CASE RecordTxHash \/ EnqueueConfirm \/ ResetToPending \/ FailTerminally
    BY <1>3, <1>4, <2>7
    DEF RecordTxHash, EnqueueConfirm, ResetToPending, FailTerminally, StepFails, JobThrows,
        JobDone
  <2> QED BY <1>8, <2>1, <2>2, <2>3, <2>4, <2>5, <2>6, <2>7 DEF WorkerStep
<1>9. CASE SeedWallet \/ MineNext \/ EvictTx \/ WipeRedis \/ ConfirmStep \/ UNCHANGED vars
  BY <1>2, <1>9 DEF SeedWallet, MineNext, EvictTx, WipeRedis, vars, ConfirmStep,
     ConfirmVerified, ConfirmReverted, ConfirmGivesUp, ConfirmJobDone
<1>10. CASE Crash
  BY <1>3, <1>10 DEF Crash
<1>11. CASE ReconcileStep
  BY <1>2, <1>11 DEF ReconcileStep, ScanInFlight, ScanPending, RoundEnds, CheckTx,
     CheckRecord, PatchPending, CheckNonce, ResetInFlight, GiveUp, Requeue
<1> QED BY <1>6, <1>7, <1>8, <1>9, <1>10, <1>11 DEF Next

\* What was sent has a nonce in its row.
SentInv ==
  /\ MempoolInv
  /\ \A tx \in succeeded \cup revertedTxs : RecordOf(tx) \in Records
  /\ NonceRecordedBeforeSend

\* A transaction is sent only by the worker, which has persisted the nonce.
LEMMA SentInvStep ==
  ASSUME NonceInv, WorkerInv, SentInv, [Next]_vars
  PROVE  SentInv'
PROOF
<1> DEFINE sent == mempool \cup succeeded \cup revertedTxs
<1>1. RowsKeepNonces
  BY StepsKeepNonces
<1>2. sent' \subseteq sent
      \/ /\ worker.rec \in Records /\ row[worker.rec].assignedNonce # NoNonce
         /\ sent' \subseteq sent \cup {<<worker.nonce, worker.rec>>}
  <2>1. CASE Broadcast
    <3>1. worker.rec \in Records /\ row[worker.rec].assignedNonce # NoNonce
      BY <2>1 DEF Broadcast, WorkerAt, WorkerInv, NonceInv
    <3>2. sent' \subseteq sent \cup {<<worker.nonce, worker.rec>>}
      BY <2>1 DEF Broadcast, Send, chainVars
    <3> QED BY <3>1, <3>2
  <2>2. CASE ~Broadcast
    <3>1. \/ \E tx \in mempool : Mine(tx) \/ Evict(tx)
          \/ UNCHANGED chainVars
      BY <2>2, OtherStepsDoNotSend
    <3>2. CASE UNCHANGED chainVars
      BY <3>2 DEF chainVars
    <3>3. ASSUME NEW tx \in mempool, Mine(tx) \/ Evict(tx)
          PROVE  sent' \subseteq sent
      BY <3>3 DEF Mine, Evict
    <3> QED BY <3>1, <3>2, <3>3
  <2> QED BY <2>1, <2>2
<1>3. \A tx \in sent' : RecordOf(tx) \in Records /\ row'[RecordOf(tx)].assignedNonce # NoNonce
  BY <1>1, <1>2 DEF SentInv, MempoolInv, NonceRecordedBeforeSend, RowsKeepNonces, RecordOf
<1> QED BY <1>3 DEF SentInv, MempoolInv, NonceRecordedBeforeSend

\* Write order 1 (section 5 of the design): in every behaviour, whatever crashes and
\* races, a record some transaction was sent for has an assigned nonce, so that the
\* reconciler may reset a row that has none.
THEOREM NonceRecordedBeforeSendHolds == Spec => []NonceRecordedBeforeSend
PROOF
<1> DEFINE Inv == NonceInv /\ WorkerInv /\ SentInv
<1>1. Init => Inv
  BY DEF Init, ChainInit, NonceInv, WorkerInv, SentInv, IdleWorker, MempoolInv,
     NonceRecordedBeforeSend
<1>2. Inv /\ [Next]_vars => Inv'
  BY NonceInvStep, WorkerKeepsRecord, SentInvStep
<1>3. Inv => NonceRecordedBeforeSend
  BY DEF SentInv
<1> QED BY <1>1, <1>2, <1>3, PTL DEF Spec

(***************************************************************************)
(* The pipeline implements RecordLifecycle.  What has to be shown is that  *)
(* no step calls a record verified that is not notarised: the worker may   *)
(* go on to its recovery only for a notarised record, and a transaction    *)
(* hash, wherever it is kept, is one of the record's own transactions.     *)
(***************************************************************************)

RowColumns == {"status", "txHash"}

OwnTx(r, tx) == tx = NoTx \/ RecordOf(tx) = r

RowInv ==
  /\ DOMAIN row = Records
  /\ \A r \in Records : RowColumns \subseteq DOMAIN row[r] /\ OwnTx(r, row[r].txHash)

ReconInv ==
  /\ {"pc", "rec", "rows"} \subseteq DOMAIN recon
  /\ \A r \in DOMAIN recon.rows : OwnTx(r, recon.rows[r].txHash)

HandInv ==
  /\ {"pc", "rec", "tx", "after"} \subseteq DOMAIN worker
  /\ worker.after \notin {"sent", "enqueue"}
  /\ worker.pc \in {"sent", "enqueue"} => RecordOf(worker.tx) = worker.rec
  /\ worker.pc = "recover" \/ worker.after = "recover" => worker.rec \in notarised

RefinementInv == PipelineInv /\ RowInv /\ ReconInv /\ HandInv

\* What a reader sees of the rows does not change.
RowsSame ==
  /\ DOMAIN row' = Records
  /\ \A r \in Records : /\ RowColumns \subseteq DOMAIN row'[r]
                        /\ row'[r].status = row[r].status
                        /\ row'[r].txHash = row[r].txHash

\* One row changes its status.
Became(r, to, tx) ==
  /\ DOMAIN row' = Records
  /\ \A s \in Records : /\ RowColumns \subseteq DOMAIN row'[s]
                        /\ s # r => /\ row'[s].status = row[s].status
                                    /\ row'[s].txHash = row[s].txHash
  /\ row'[r].status = to
  /\ row'[r].txHash = tx

\* One row goes from one status to another; its transaction stays one of its own.
Changed(r, from, to) ==
  row[r].status \in from /\ \E tx : OwnTx(r, tx) /\ Became(r, to, tx)

\* All the ways in which the rows change: the edges of the life of a record.
RowStep ==
  \/ RowsSame
  \/ \E r \in Records :
       \/ Changed(r, {"pending"}, "submitting")
       \/ Changed(r, {"submitting"}, "confirming")
       \/ Changed(r, InFlight, "pending")
       \/ Changed(r, InFlight, "failed")
       \/ Changed(r, {"failed"}, "pending")
       \/ r \in notarised /\ Changed(r, InFlight, "verified")
       \/ /\ \E by \in Records : Ledger[by].original = r /\ row[by].status = "verified"
          /\ Changed(r, {"verified"}, "superseded")

\* A conditional UPDATE changes one row that is in one of the named statuses, or none.
LEMMA UpdateEffect ==
  ASSUME RowInv, NEW r, NEW from, NEW new, NEW to, NEW tx,
         r \in Records => RowColumns \subseteq DOMAIN new /\ new.status = to /\ new.txHash = tx,
         Update(r, from, new)
  PROVE  RowsSame \/ (r \in Records /\ row[r].status \in from /\ Became(r, to, tx))
PROOF
<1>1. CASE r \notin Records
  <2>1. DOMAIN row' = Records
    BY DEF Update, RowInv
  <2>2. \A s \in Records : row'[s] = row[s]
    BY <1>1 DEF Update, RowInv
  <2> QED BY <2>1, <2>2 DEF RowsSame, RowInv
<1>2. CASE r \in Records /\ row[r].status \in from
  <2>1. row' = [row EXCEPT ![r] = new]
    BY <1>2 DEF Update
  <2> QED BY <1>2, <2>1 DEF Became, RowInv
<1>3. CASE r \in Records /\ row[r].status \notin from
  BY <1>3 DEF Update, RowsSame, RowInv
<1> QED BY <1>1, <1>2, <1>3

\* The new row of a transition.
LEMMA MovedColumns ==
  ASSUME RowInv, NEW r \in Records, NEW to
  PROVE  /\ RowColumns \subseteq DOMAIN Moved(r, to)
         /\ Moved(r, to).status = to /\ Moved(r, to).txHash = row[r].txHash
PROOF
  BY DEF Moved, RowInv, RowColumns

\* transition without a patch
LEMMA TransitionEffect ==
  ASSUME RowInv, NEW r, NEW from, NEW to, Transition(r, from, to)
  PROVE  RowsSame \/ (r \in Records /\ row[r].status \in from /\ Became(r, to, row[r].txHash))
PROOF
<1> DEFINE new == Moved(r, to)
<1>1. r \in Records =>
        RowColumns \subseteq DOMAIN new /\ new.status = to /\ new.txHash = row[r].txHash
  BY MovedColumns
<1>2. Update(r, from, new)
  BY DEF Transition
<1> HIDE DEF new
<1> QED BY <1>1, <1>2, UpdateEffect

\* transition with a new attempt epoch
LEMMA ToPendingEffect ==
  ASSUME RowInv, NEW r, NEW from, NEW e, ToPendingAgain(r, from, e)
  PROVE  RowsSame \/ (r \in Records /\ row[r].status \in from
                      /\ Became(r, "pending", row[r].txHash))
PROOF
<1> DEFINE new == [Moved(r, "pending") EXCEPT !.attemptEpoch = e]
<1>1. r \in Records =>
        RowColumns \subseteq DOMAIN new /\ new.status = "pending" /\ new.txHash = row[r].txHash
  BY MovedColumns DEF RowColumns
<1>2. Update(r, from, new)
  BY DEF ToPendingAgain
<1> HIDE DEF new
<1> QED BY <1>1, <1>2, UpdateEffect

\* transition with a transaction hash
LEMMA WithTxEffect ==
  ASSUME RowInv, NEW r, NEW from, NEW to, NEW tx,
         Update(r, from, [Moved(r, to) EXCEPT !.txHash = tx])
  PROVE  RowsSame \/ (r \in Records /\ row[r].status \in from /\ Became(r, to, tx))
PROOF
<1> DEFINE new == [Moved(r, to) EXCEPT !.txHash = tx]
<1>1. r \in Records => RowColumns \subseteq DOMAIN new /\ new.status = to /\ new.txHash = tx
  BY MovedColumns DEF RowColumns
<1>2. Update(r, from, new)
  OBVIOUS
<1> HIDE DEF new
<1> QED BY <1>1, <1>2, UpdateEffect

\* The transaction of a notarised record is one of its own.
LEMMA FoundTxIsOwn ==
  ASSUME PipelineInv, NEW r \in notarised
  PROVE  RecordOf(FoundTx(r)) = r
PROOF
  BY DEF PipelineInv, ContractInv, NotarisedOnce, FoundTx

\* recoverToVerified of a notarised record
LEMMA RecoverEffect ==
  ASSUME PipelineInv, RowInv, NEW r \in notarised, RecoverToVerified(r)
  PROVE  RowStep
PROOF
<1>1. r \in Records
  BY DEF PipelineInv, ContractInv
<1>2. PICK tx \in {FoundTx(r), row[r].txHash} : ToVerified(r, InFlight, tx)
  BY DEF RecoverToVerified
<1>3. OwnTx(r, tx)
  BY <1>1, FoundTxIsOwn DEF RowInv, OwnTx
<1>4. RowsSame \/ (row[r].status \in InFlight /\ Became(r, "verified", tx))
  BY <1>2, WithTxEffect DEF ToVerified
<1> QED BY <1>1, <1>3, <1>4 DEF RowStep, Changed

\* A transition without a patch, as a change.
LEMMA TransitionChanges ==
  ASSUME RowInv, NEW r, NEW from, NEW to, Transition(r, from, to)
  PROVE  RowsSame \/ (r \in Records /\ Changed(r, from, to))
PROOF
  BY TransitionEffect DEF Changed, RowInv

\* Back to pending, as a change.
LEMMA ToPendingChanges ==
  ASSUME RowInv, NEW r, NEW from, NEW e, ToPendingAgain(r, from, e)
  PROVE  RowsSame \/ (r \in Records /\ Changed(r, from, "pending"))
PROOF
  BY ToPendingEffect DEF Changed, RowInv

\* A change from some of the statuses is a change from more.
LEMMA ChangedFromMore ==
  ASSUME NEW r, NEW from, NEW more, NEW to, from \subseteq more, Changed(r, from, to)
  PROVE  Changed(r, more, to)
PROOF
  BY DEF Changed

\* A transaction that succeeded notarised its record.
LEMMA SucceededNotarised ==
  ASSUME PipelineInv, NEW tx \in succeeded
  PROVE  RecordOf(tx) \in notarised
PROOF
  BY DEF PipelineInv, ContractInv, NotarisedOnce

\* Every step changes the rows as the life of a record allows.
LEMMA StepsOfTheRows ==
  ASSUME RefinementInv, [Next]_vars
  PROVE  RowStep
PROOF
<1> USE DEF RefinementInv
<1>1. ASSUME UNCHANGED row
      PROVE  RowStep
  BY <1>1 DEF RowInv, RowsSame, RowStep
<1>2. ASSUME NEW r \in Records, RequestStep(r)
      PROVE  RowStep
  <2>1. CASE requestSubmission(r)
    BY <1>1, <2>1 DEF requestSubmission
  <2>2. CASE handleRetry(r)
    BY <2>2, ToPendingChanges DEF handleRetry, RowStep
  <2>3. CASE handleVerify(r)
    BY <2>3, TransitionChanges, ChangedFromMore DEF handleVerify, RowStep, InFlight
  <2>4. ASSUME NEW original \in Records, finalizeSupersede(r, original)
        PROVE  RowStep
    BY <2>4, TransitionChanges DEF finalizeSupersede, RowStep
  <2> QED BY <1>2, <2>1, <2>2, <2>3, <2>4 DEF RequestStep
<1>3. ASSUME NEW r \in Records, ClaimStep(r)
      PROVE  RowStep
  BY <1>1, <1>3, TransitionChanges DEF ClaimStep, ClaimJob, RowStep
<1>4. ASSUME NEW r \in Records, GrowOld(r)
      PROVE  RowStep
  BY <1>4 DEF GrowOld, RowInv, RowsSame, RowStep, RowColumns
<1>5. CASE WorkerStep
  <2>1. CASE Precheck \/ EstimateGas \/ Broadcast \/ HealNonce \/ Recover \/ EnqueueConfirm
    BY <1>1, <2>1 DEF Precheck, EstimateGas, Broadcast, HealNonce, Recover, EnqueueConfirm
  <2>2. CASE AssignNonce
    <3> DEFINE new == [row[worker.rec] EXCEPT !.assignedNonce = localNonce, !.age = "fresh"]
    <3>1. CASE Update(worker.rec, {"submitting"}, new)
      <4>1. worker.rec \in Records =>
              /\ RowColumns \subseteq DOMAIN new
              /\ new.status = row[worker.rec].status
              /\ new.txHash = row[worker.rec].txHash
        BY DEF RowInv, RowColumns
      <4> HIDE DEF new
      <4>2. RowsSame \/ Became(worker.rec, row[worker.rec].status, row[worker.rec].txHash)
        BY <3>1, <4>1, UpdateEffect
      <4> QED BY <4>2 DEF RowsSame, Became, RowStep
    <3>2. CASE UNCHANGED row
      BY <1>1, <3>2
    <3> QED BY <2>2, <3>1, <3>2 DEF AssignNonce
  <2>3. CASE RecordTxHash
    <3>1. CASE ToConfirming(worker.rec, worker.tx)
      <4>1. OwnTx(worker.rec, worker.tx)
        BY <2>3 DEF RecordTxHash, WorkerAt, HandInv, OwnTx
      <4>2. RowsSame \/ (worker.rec \in Records /\ row[worker.rec].status \in {"submitting"}
                         /\ Became(worker.rec, "confirming", worker.tx))
        BY <3>1, WithTxEffect DEF ToConfirming
      <4> QED BY <4>1, <4>2 DEF RowStep, Changed
    <3> QED BY <1>1, <2>3, <3>1 DEF RecordTxHash
  <2>4. CASE ResetToPending
    BY <1>1, <2>4, TransitionChanges, ChangedFromMore DEF ResetToPending, RowStep, InFlight
  <2>5. CASE FailTerminally
    BY <1>1, <2>5, TransitionChanges, ChangedFromMore DEF FailTerminally, RowStep, InFlight
  <2> QED BY <1>5, <2>1, <2>2, <2>3, <2>4, <2>5 DEF WorkerStep
<1>6. CASE SeedWallet \/ MineNext \/ EvictTx \/ Crash \/ WipeRedis \/ UNCHANGED vars
  BY <1>1, <1>6 DEF SeedWallet, MineNext, EvictTx, Crash, WipeRedis, vars
<1>7. CASE ConfirmStep
  <2>1. PICK job \in confirmJobs : \/ ConfirmVerified(job[1], job[2])
                                   \/ ConfirmReverted(job[1], job[2])
                                   \/ ConfirmGivesUp(job[1], job[2])
    BY <1>7 DEF ConfirmStep
  <2>2. CASE ConfirmVerified(job[1], job[2])
    BY <2>2, TransitionChanges, ChangedFromMore DEF ConfirmVerified, RowStep, InFlight
  <2>3. CASE ConfirmReverted(job[1], job[2])
    BY <2>3, TransitionChanges, ChangedFromMore DEF ConfirmReverted, RowStep, InFlight
  <2>4. CASE ConfirmGivesUp(job[1], job[2])
    BY <1>1, <2>4 DEF ConfirmGivesUp
  <2> QED BY <2>1, <2>2, <2>3, <2>4
<1>8. CASE ReconcileStep
  <2>1. CASE ScanInFlight \/ ScanPending \/ RoundEnds \/ CheckNonce \/ Requeue
    BY <1>1, <2>1 DEF ScanInFlight, ScanPending, RoundEnds, CheckNonce, Requeue
  <2>2. ASSUME NEW r \in DOMAIN recon.rows, CheckTx(r)
        PROVE  RowStep
    <3>1. CASE recon.rows[r].txHash \in succeeded /\ RecoverToVerified(r)
      <4>1. r \in notarised
        BY <2>2, <3>1, SucceededNotarised DEF CheckTx, HasTx, ReconInv, OwnTx
      <4> QED BY <3>1, <4>1, RecoverEffect
    <3>2. CASE Transition(r, InFlight, "failed")
      BY <3>2, TransitionChanges DEF RowStep
    <3> QED BY <1>1, <2>2, <3>1, <3>2 DEF CheckTx
  <2>3. ASSUME NEW r, CheckRecord(r)
        PROVE  RowStep
    BY <1>1, <2>3, RecoverEffect DEF CheckRecord
  <2>4. ASSUME NEW r, PatchPending(r)
        PROVE  RowStep
    <3>1. ToPendingAgain(r, {"pending"}, Bump(recon.rows[r].attemptEpoch))
      BY <2>4 DEF PatchPending
    <3>2. RowsSame \/ (/\ r \in Records /\ row[r].status = "pending"
                       /\ Became(r, "pending", row[r].txHash))
      BY <3>1, ToPendingEffect
    <3> QED BY <3>2 DEF RowsSame, Became, RowStep
  <2>5. CASE ResetInFlight
    BY <2>5, ToPendingChanges DEF ResetInFlight, RowStep
  <2>6. CASE GiveUp
    BY <2>6, TransitionChanges DEF GiveUp, RowStep
  <2> QED BY <1>8, <2>1, <2>2, <2>3, <2>4, <2>5, <2>6 DEF ReconcileStep
<1> QED BY <1>2, <1>3, <1>4, <1>5, <1>6, <1>7, <1>8 DEF Next

\* The rows keep their columns and their own transactions.
LEMMA RowStepKeepsRows ==
  ASSUME RowInv, RowStep
  PROVE  RowInv'
PROOF
<1>1. CASE RowsSame
  BY <1>1 DEF RowInv, RowsSame, OwnTx
<1>2. ASSUME NEW r \in Records, NEW to, NEW tx, OwnTx(r, tx), Became(r, to, tx)
      PROVE  RowInv'
  BY <1>2 DEF RowInv, Became, OwnTx
<1> QED BY <1>1, <1>2 DEF RowStep, Changed

\* What the reconciler has read are copies of rows.
LEMMA ReconStep ==
  ASSUME RowInv, ReconInv, [Next]_vars
  PROVE  ReconInv'
PROOF
<1>1. ASSUME UNCHANGED recon
      PROVE  ReconInv'
  BY <1>1 DEF ReconInv, OwnTx
<1>2. ASSUME NEW r, NEW pc, Handle(r, pc)
      PROVE  ReconInv'
  BY <1>2 DEF Handle, ReconInv, OwnTx
<1>3. ASSUME NEW r, RowDone(r)
      PROVE  ReconInv'
  BY <1>3 DEF RowDone, Restrict, ReconInv, OwnTx
<1>4. ASSUME recon' = IdleRecon
      PROVE  ReconInv'
  BY <1>4 DEF IdleRecon, ReconInv
<1>5. ASSUME NEW pc, NEW statuses,
             recon' = [IdleRecon EXCEPT !.pc = pc, !.rows = ReadRows(statuses)]
      PROVE  ReconInv'
  <2>1. /\ {"pc", "rec", "rows"} \subseteq DOMAIN recon'
        /\ recon'.rows = ReadRows(statuses)
    BY <1>5 DEF IdleRecon
  <2> QED BY <2>1 DEF ReadRows, StaleIn, ReconInv, RowInv, OwnTx
<1>6. CASE \E r \in Records : RequestStep(r) \/ ClaimStep(r) \/ GrowOld(r)
  BY <1>1, <1>6 DEF RequestStep, ClaimStep, GrowOld, requestSubmission, handleRetry,
     handleVerify, finalizeSupersede, ClaimJob
<1>7. CASE WorkerStep
  BY <1>1, <1>7 DEF WorkerStep, Precheck, AssignNonce, EstimateGas, Broadcast, HealNonce,
     Recover, RecordTxHash, EnqueueConfirm, ResetToPending, FailTerminally
<1>8. CASE SeedWallet \/ ConfirmStep \/ MineNext \/ EvictTx \/ WipeRedis \/ UNCHANGED vars
  BY <1>1, <1>8 DEF SeedWallet, ConfirmStep, ConfirmVerified, ConfirmReverted,
     ConfirmGivesUp, ConfirmJobDone, MineNext, EvictTx, WipeRedis, vars
<1>9. CASE Crash
  BY <1>4, <1>9 DEF Crash
<1>10. CASE ReconcileStep
  <2>1. CASE ScanInFlight BY <1>5, <2>1 DEF ScanInFlight
  <2>2. CASE ScanPending BY <1>5, <2>2 DEF ScanPending
  <2>3. CASE RoundEnds BY <1>4, <2>3 DEF RoundEnds
  <2>4. CASE \E r \in DOMAIN recon.rows : CheckTx(r)
    BY <1>2, <1>3, <2>4 DEF CheckTx
  <2>5. CASE \E r \in DOMAIN recon.rows : CheckRecord(r)
    BY <1>2, <1>3, <2>5 DEF CheckRecord
  <2>6. CASE \E r \in DOMAIN recon.rows : PatchPending(r)
    BY <1>2, <1>3, <2>6 DEF PatchPending
  <2>7. CASE CheckNonce BY <1>2, <1>3, <2>7 DEF CheckNonce
  <2>8. CASE ResetInFlight BY <1>2, <2>8 DEF ResetInFlight
  <2>9. CASE GiveUp \/ Requeue BY <1>3, <2>9 DEF GiveUp, Requeue
  <2> QED BY <1>10, <2>1, <2>2, <2>3, <2>4, <2>5, <2>6, <2>7, <2>8, <2>9 DEF ReconcileStep
<1> QED BY <1>6, <1>7, <1>8, <1>9, <1>10 DEF Next

\* A record once notarised stays so, and only mining notarises one.
LEMMA NotarisedGrows ==
  ASSUME [Next]_vars
  PROVE  notarised \subseteq notarised' /\ (notarised' = notarised \/ MineNext)
PROOF
<1>1. CASE Broadcast
  BY <1>1 DEF Broadcast, Send, chainVars
<1>2. CASE MineNext
  BY <1>2 DEF MineNext, Mine
<1>3. CASE ~Broadcast /\ ~MineNext
  <2>1. [Next]_vars /\ ~MineNext => UNCHANGED notarised
    <3>1. CASE \E r \in Records : RequestStep(r) \/ ClaimStep(r) \/ GrowOld(r)
      BY <3>1 DEF RequestStep, ClaimStep, GrowOld, requestSubmission, handleRetry,
         handleVerify, finalizeSupersede, ClaimJob, chainVars
    <3>2. CASE WorkerStep
      BY <1>3, <3>2 DEF WorkerStep, Precheck, AssignNonce, EstimateGas, HealNonce, Recover,
         RecordTxHash, EnqueueConfirm, ResetToPending, FailTerminally, chainVars
    <3>3. CASE SeedWallet \/ ConfirmStep \/ ReconcileStep
      BY <3>3 DEF SeedWallet, ConfirmStep, ConfirmVerified, ConfirmReverted, ConfirmGivesUp,
         ConfirmJobDone, ReconcileStep, ScanInFlight, ScanPending, RoundEnds, CheckTx,
         CheckRecord, PatchPending, CheckNonce, ResetInFlight, GiveUp, Requeue, chainVars
    <3>4. CASE EvictTx \/ Crash \/ WipeRedis \/ UNCHANGED vars
      BY <3>4 DEF EvictTx, Evict, Crash, WipeRedis, vars, chainVars
    <3> QED BY <3>1, <3>2, <3>3, <3>4 DEF Next
  <2> QED BY <1>3, <2>1
<1> QED BY <1>1, <1>2, <1>3

\* The worker's transaction is its record's, and it recovers only a notarised record.
LEMMA HandStep ==
  ASSUME PipelineInv, HandInv, [Next]_vars
  PROVE  HandInv'
PROOF
<1>1. notarised \subseteq notarised'
  BY NotarisedGrows
<1>2. ASSUME UNCHANGED worker
      PROVE  HandInv'
  BY <1>1, <1>2 DEF HandInv
<1>3. ASSUME worker' = IdleWorker
      PROVE  HandInv'
  BY <1>3 DEF HandInv, IdleWorker
<1>4. ASSUME NEW pc \in {"assign", "estimate", "broadcast", "reset", "terminal"}, Goto(pc)
      PROVE  HandInv'
  BY <1>1, <1>4 DEF HandInv, Goto
<1>5. ASSUME NEW step \in {"reset", "terminal", "skip"}, HealThen(step)
      PROVE  HandInv'
  BY <1>1, <1>5 DEF HandInv, HealThen
<1>6. CASE \E r \in Records : RequestStep(r) \/ GrowOld(r)
  BY <1>2, <1>6 DEF RequestStep, GrowOld, requestSubmission, handleRetry, handleVerify,
     finalizeSupersede
<1>7. ASSUME NEW r \in Records, ClaimStep(r)
      PROVE  HandInv'
  <2>1. PICK e \in AttemptEpochs : ClaimJob(r, e)
    BY <1>7 DEF ClaimStep
  <2>2. CASE worker' = [IdleWorker EXCEPT !.pc = "precheck", !.rec = r, !.epoch = e]
    BY <2>2 DEF HandInv, IdleWorker
  <2> QED BY <1>2, <2>1, <2>2 DEF ClaimJob
<1>8. CASE WorkerStep
  <2>1. CASE Precheck
    <3>1. CASE worker.rec \in notarised /\ Goto("recover")
      BY <1>1, <3>1 DEF HandInv, Goto
    <3> QED BY <1>4, <2>1, <3>1 DEF Precheck
  <2>2. CASE AssignNonce
    <3>1. CASE worker' = [worker EXCEPT !.pc = "estimate", !.nonce = localNonce]
      BY <1>1, <3>1 DEF HandInv
    <3> QED BY <1>5, <2>2, <3>1 DEF AssignNonce
  <2>3. CASE EstimateGas
    <3>1. CASE worker.rec \in notarised /\ HealThen("recover")
      BY <1>1, <3>1 DEF HandInv, HealThen
    <3> QED BY <1>4, <1>5, <2>3, <3>1 DEF EstimateGas
  <2>4. CASE Broadcast
    <3>1. CASE worker' = [worker EXCEPT !.pc = "sent", !.tx = <<worker.nonce, worker.rec>>]
      BY <1>1, <3>1 DEF HandInv, RecordOf
    <3> QED BY <1>5, <2>4, <3>1 DEF Broadcast
  <2>5. CASE HealNonce
    <3>1. CASE JobDone
      BY <1>3, <3>1 DEF JobDone
    <3>2. CASE Goto(worker.after) /\ worker.after # "skip"
      BY <1>1, <2>5, <3>2 DEF HandInv, Goto, HealNonce
    <3> QED BY <2>5, <3>1, <3>2 DEF HealNonce
  <2>6. CASE Recover
    <3>1. CASE worker' = [worker EXCEPT !.pc = "sent", !.tx = FoundTx(worker.rec)]
      <4>1. worker.rec \in notarised /\ RecordOf(FoundTx(worker.rec)) = worker.rec
        BY <2>6, FoundTxIsOwn DEF HandInv, Recover, WorkerAt
      <4> QED BY <1>1, <3>1, <4>1 DEF HandInv
    <3> QED BY <1>3, <1>4, <2>6, <3>1 DEF Recover, StepFails, JobThrows
  <2>7. CASE RecordTxHash
    <3>1. CASE Goto("enqueue")
      BY <1>1, <2>7, <3>1 DEF HandInv, Goto, RecordTxHash, WorkerAt
    <3> QED BY <1>3, <1>4, <2>7, <3>1 DEF RecordTxHash, StepFails, JobThrows
  <2>8. CASE EnqueueConfirm \/ ResetToPending \/ FailTerminally
    BY <1>3, <1>4, <2>8
    DEF EnqueueConfirm, ResetToPending, FailTerminally, StepFails, JobThrows, JobDone
  <2> QED BY <1>8, <2>1, <2>2, <2>3, <2>4, <2>5, <2>6, <2>7, <2>8 DEF WorkerStep
<1>9. CASE SeedWallet \/ MineNext \/ EvictTx \/ WipeRedis \/ ConfirmStep \/ UNCHANGED vars
  BY <1>2, <1>9 DEF SeedWallet, MineNext, EvictTx, WipeRedis, vars, ConfirmStep,
     ConfirmVerified, ConfirmReverted, ConfirmGivesUp, ConfirmJobDone
<1>10. CASE Crash
  BY <1>3, <1>10 DEF Crash
<1>11. CASE ReconcileStep
  BY <1>2, <1>11 DEF ReconcileStep, ScanInFlight, ScanPending, RoundEnds, CheckTx,
     CheckRecord, PatchPending, CheckNonce, ResetInFlight, GiveUp, Requeue
<1> QED BY <1>6, <1>7, <1>8, <1>9, <1>10, <1>11 DEF Next

\* Nothing to see.
LEMMA SameIsStutter ==
  ASSUME RowsSame, notarised' = notarised
  PROVE  UNCHANGED Lifecycle!lifecycleVars
PROOF
  BY DEF RowsSame, Lifecycle!lifecycleVars

\* A change of one row is a move of one record.
LEMMA ChangedMoves ==
  ASSUME NEW r \in Records, NEW from, NEW to, Changed(r, from, to), notarised' = notarised
  PROVE  Lifecycle!Moves(r, from, to)
PROOF
<1>1. PICK tx : Became(r, to, tx)
  BY DEF Changed
<1>2. [s \in Records |-> row'[s].status]
        = [[s \in Records |-> row[s].status] EXCEPT ![r] = to]
  BY <1>1 DEF Became
<1> QED BY <1>2 DEF Changed, Lifecycle!Moves

\* A step that notarises nothing is a move of one record, or changes nothing to see.
LEMMA RowStepRefines ==
  ASSUME RowStep, notarised' = notarised
  PROVE  [Lifecycle!LifecycleNext]_(Lifecycle!lifecycleVars)
PROOF
<1>1. CASE RowsSame
  BY <1>1, SameIsStutter
<1>2. ASSUME NEW r \in Records,
             \/ Changed(r, {"pending"}, "submitting")
             \/ Changed(r, {"submitting"}, "confirming")
             \/ Changed(r, InFlight, "pending")
             \/ Changed(r, InFlight, "failed")
             \/ Changed(r, {"failed"}, "pending")
             \/ r \in notarised /\ Changed(r, InFlight, "verified")
             \/ /\ \E by \in Records : Ledger[by].original = r /\ row[by].status = "verified"
                /\ Changed(r, {"verified"}, "superseded")
      PROVE  Lifecycle!LifecycleNext
  <2>1. CASE Changed(r, {"pending"}, "submitting")
    BY <2>1, ChangedMoves DEF Lifecycle!LifecycleNext, Lifecycle!Claim
  <2>2. CASE Changed(r, {"submitting"}, "confirming")
    BY <2>2, ChangedMoves DEF Lifecycle!LifecycleNext, Lifecycle!Sent
  <2>3. CASE Changed(r, InFlight, "pending")
    BY <2>3, ChangedMoves DEF Lifecycle!LifecycleNext, Lifecycle!Release, InFlight
  <2>4. CASE Changed(r, InFlight, "failed")
    BY <2>4, ChangedMoves DEF Lifecycle!LifecycleNext, Lifecycle!Fail, InFlight
  <2>5. CASE Changed(r, {"failed"}, "pending")
    BY <2>5, ChangedMoves DEF Lifecycle!LifecycleNext, Lifecycle!Retry
  <2>6. CASE r \in notarised /\ Changed(r, InFlight, "verified")
    BY <2>6, ChangedMoves DEF Lifecycle!LifecycleNext, Lifecycle!Verify, InFlight
  <2>7. CASE /\ \E by \in Records : Ledger[by].original = r /\ row[by].status = "verified"
             /\ Changed(r, {"verified"}, "superseded")
    BY <2>7, ChangedMoves DEF Lifecycle!LifecycleNext, Lifecycle!Supersede
  <2> QED BY <1>2, <2>1, <2>2, <2>3, <2>4, <2>5, <2>6, <2>7
<1> QED BY <1>1, <1>2 DEF RowStep

\* Mining notarises one record the contract did not hold, a correction after what it
\* corrects, or reverts.
LEMMA MineRefines ==
  ASSUME PipelineInv, MineNext
  PROVE  [Lifecycle!LifecycleNext]_(Lifecycle!lifecycleVars)
PROOF
<1>1. PICK tx \in mempool : Mine(tx) /\ UNCHANGED row
  BY DEF MineNext
<1> DEFINE r == RecordOf(tx)
<1>2. r \in Records
  BY DEF PipelineInv, MempoolInv
<1>3. CASE Reverts(r)
  BY <1>1, <1>3 DEF Mine, Lifecycle!lifecycleVars
<1>4. CASE ~Reverts(r)
  <2>1. /\ notarised' = notarised \cup {r} /\ r \notin notarised
        /\ Ledger[r].original \in Records => Ledger[r].original \in notarised
    BY <1>1, <1>2, <1>4, LedgerAssumption DEF Mine, Reverts, OriginalMissing
  <2>2. Lifecycle!Notarise(r)
    BY <1>1, <1>2, <2>1 DEF Lifecycle!Notarise
  <2> QED BY <1>2, <2>2 DEF Lifecycle!LifecycleNext
<1> QED BY <1>3, <1>4

\* The strengthening is inductive.
THEOREM RefinementInvHolds == Spec => []RefinementInv
PROOF
<1>1. Init => RowInv /\ ReconInv /\ HandInv
  BY DEF Init, RowInv, RowColumns, OwnTx, IdleRecon, IdleWorker, ReconInv, HandInv
<1>2. PipelineInv /\ PipelineInv' /\ (RowInv /\ ReconInv /\ HandInv) /\ [Next]_vars
        => (RowInv /\ ReconInv /\ HandInv)'
  BY StepsOfTheRows, RowStepKeepsRows, ReconStep, HandStep DEF RefinementInv
<1>3. PipelineInv /\ RowInv /\ ReconInv /\ HandInv => RefinementInv
  BY DEF RefinementInv
<1> QED BY <1>1, <1>2, <1>3, PipelineInvHolds, PTL DEF Spec

\* The pipeline implements the life of a record: for every set of records and faults,
\* whatever workers, reconciler, retries and requests do to each other, a record is
\* shown as verified only when the contract holds it, is never taken back, and is
\* superseded only by a verified correction.
THEOREM LifecycleRefinedHolds == Spec => LifecycleRefined
PROOF
<1>1. Init => Lifecycle!LifecycleInit
  BY DEF Init, ChainInit, Lifecycle!LifecycleInit
<1>2. RefinementInv /\ [Next]_vars => [Lifecycle!LifecycleNext]_(Lifecycle!lifecycleVars)
  <2> SUFFICES ASSUME RefinementInv, [Next]_vars
               PROVE  [Lifecycle!LifecycleNext]_(Lifecycle!lifecycleVars)
    OBVIOUS
  <2>1. CASE MineNext
    BY <2>1, MineRefines DEF RefinementInv
  <2>2. CASE ~MineNext
    BY <2>2, NotarisedGrows, StepsOfTheRows, RowStepRefines
  <2> QED BY <2>1, <2>2
<1> QED BY <1>1, <1>2, RefinementInvHolds, PTL DEF Spec, LifecycleRefined, Lifecycle!LifecycleSpec

(***************************************************************************)
(* Types.  The worker and the reconciler use what they read several awaits *)
(* earlier, so it has to be shown that they have read it.                  *)
(***************************************************************************)

\* The transactions waiting are fewer than the nonces pendingCount looks at.
LEMMA PendingCountFound ==
  ASSUME latestNonce \in Nat, mempool \subseteq Txs, IsFiniteSet(mempool)
  PROVE  /\ PendingCount \in latestNonce..(latestNonce + Cardinality(mempool))
         /\ PendingCount \notin NoncesIn(mempool)
         /\ \A k \in latestNonce..(PendingCount - 1) : k \in NoncesIn(mempool)
<1> DEFINE range == latestNonce..(latestNonce + Cardinality(mempool))
           free == range \ NoncesIn(mempool)
           nonceOf == [tx \in mempool |-> NonceOf(tx)]
<1>1. Cardinality(mempool) \in Nat
  BY FS_CardinalityType
<1>2. IsFiniteSet(NoncesIn(mempool)) /\ Cardinality(NoncesIn(mempool)) <= Cardinality(mempool)
  <2>1. nonceOf \in Surjection(mempool, NoncesIn(mempool))
    BY DEF Surjection, NoncesIn
  <2> HIDE DEF nonceOf
  <2> QED BY <2>1, FS_Surjection
<1>3. IsFiniteSet(range) /\ Cardinality(range) = Cardinality(mempool) + 1
  BY <1>1, FS_Interval
<1>4. free # {}
  <2>1. SUFFICES ASSUME range \subseteq NoncesIn(mempool) PROVE FALSE
    OBVIOUS
  <2> HIDE DEF range
  <2>2. Cardinality(range) <= Cardinality(NoncesIn(mempool))
    BY <1>2, <2>1, FS_Subset
  <2>3. Cardinality(NoncesIn(mempool)) \in Nat
    BY <1>2, FS_CardinalityType
  <2> QED BY <1>1, <1>2, <1>3, <2>2, <2>3
<1>5. PICK n \in free : \A k \in free : ~ (<<k, n>> \in OpToRel(<, Nat))
  <2>1. free \subseteq Nat
    BY <1>1
  <2> HIDE DEF free
  <2> QED BY <1>4, <2>1, NatLessThanWellFounded, WFMin
<1>6. \A k \in latestNonce..(n - 1) : k \in NoncesIn(mempool)
  <2> SUFFICES ASSUME NEW k \in latestNonce..(n - 1), k \notin NoncesIn(mempool) PROVE FALSE
    OBVIOUS
  <2>1. n \in range /\ k \in free /\ k \in Nat /\ n \in Nat /\ k < n
    BY <1>1
  <2>2. <<k, n>> \in OpToRel(<, Nat)
    BY <2>1 DEF OpToRel
  <2> QED BY <1>5, <2>1, <2>2
<1>7. n \in range /\ n \notin NoncesIn(mempool)
  OBVIOUS
<1> QED BY <1>6, <1>7 DEF PendingCount

LEMMA PendingCountType == ChainTypeOK => PendingCount \in Nat
<1>1. ChainTypeOK => Cardinality(mempool) \in Nat
  BY FS_CardinalityType DEF ChainTypeOK
<1> QED BY <1>1, PendingCountFound DEF ChainTypeOK

\* What the worker and the reconciler have in hand wherever they use it.
KnownInv ==
  /\ worker.pc \in {"estimate", "broadcast"} => worker.nonce \in Nat
  /\ worker.pc \in {"sent", "enqueue"} => worker.tx \in Txs
  /\ worker.pc = "heal" => worker.after # "none"
  /\ recon.pc \in {"exists", "nonce", "reset", "giveup", "requeue", "patched"} =>
       recon.rec \in DOMAIN recon.rows

TypeInv == TypeOK /\ KnownInv

\* The chain keeps its types.
LEMMA ChainTypeStep ==
  ASSUME TypeInv, RefinementInv, [Next]_vars
  PROVE  ChainTypeOK'
<1>1. CASE UNCHANGED chainVars
  BY <1>1 DEF TypeInv, TypeOK, ChainTypeOK, chainVars
<1>2. ASSUME NEW tx \in Txs, Send(tx)
      PROVE  ChainTypeOK'
  BY <1>2, FS_AddElement DEF TypeInv, TypeOK, ChainTypeOK, Send
<1>3. ASSUME NEW tx \in mempool, Evict(tx)
      PROVE  ChainTypeOK'
  BY <1>3, FS_RemoveElement DEF TypeInv, TypeOK, ChainTypeOK, Evict
<1>4. ASSUME NEW tx \in mempool, Mine(tx)
      PROVE  ChainTypeOK'
  <2>1. tx \in Txs /\ RecordOf(tx) \in Records
    BY DEF TypeInv, TypeOK, ChainTypeOK, Txs, RecordOf
  <2>2. PICK r \in Records : r = RecordOf(tx)
    BY <2>1
  <2>3. Ledger[r].seq \in Nat /\ Ledger[r].balanceAfter \in Nat /\ Ledger[r].supplyAfter \in Nat
        /\ Ledger[r].member \in Members
    BY LedgerAssumption
  <2>4. MirrorIfNewer(r) \/ UNCHANGED <<lastLedgerSeq, balanceOf, totalSupplyOf>>
    BY <1>4, <2>2 DEF Mine
  <2>5. lastLedgerSeq' \in Nat /\ balanceOf' \in [Members -> Nat] /\ totalSupplyOf' \in Nat
    BY <2>3, <2>4 DEF TypeInv, TypeOK, ChainTypeOK, MirrorIfNewer
  <2>6. mempool' \in SUBSET Txs /\ IsFiniteSet(mempool') /\ latestNonce' \in Nat
    BY <1>4, FS_RemoveElement DEF TypeInv, TypeOK, ChainTypeOK, Mine
  <2>7. succeeded' \in SUBSET Txs /\ revertedTxs' \in SUBSET Txs /\ notarised' \in SUBSET Records
    BY <1>4, <2>1 DEF TypeInv, TypeOK, ChainTypeOK, Mine
  <2> QED BY <2>5, <2>6, <2>7 DEF ChainTypeOK
<1>5. CASE Broadcast
  <2>1. <<worker.nonce, worker.rec>> \in Txs
    BY <1>5 DEF Broadcast, WorkerAt, TypeInv, KnownInv, RefinementInv, PipelineInv, WorkerInv, Txs
  <2> QED BY <1>1, <1>2, <1>5, <2>1 DEF Broadcast
<1>6. CASE ~Broadcast
  BY <1>1, <1>3, <1>4, <1>6, OtherStepsDoNotSend
<1> QED BY <1>5, <1>6

(***************************************************************************)
(* Rows.                                                                   *)
(***************************************************************************)

LEMMA BumpType == \A e \in AttemptEpochs : Bump(e) \in AttemptEpochs
BY PipelineAssumption DEF AttemptEpochs, Bump

LEMMA MovedType ==
  ASSUME row \in [Records -> RowType], NEW r \in Records,
         NEW to \in {"pending", "submitting", "confirming", "verified", "failed", "superseded"}
  PROVE  Moved(r, to) \in RowType
BY DEF Moved, RowType, Ages

LEMMA UpdateType ==
  ASSUME row \in [Records -> RowType], NEW r, NEW from, NEW new, r \in Records => new \in RowType,
         Update(r, from, new)
  PROVE  row' \in [Records -> RowType]
BY DEF Update

LEMMA TransitionType ==
  ASSUME row \in [Records -> RowType], NEW r, NEW from,
         NEW to \in {"pending", "submitting", "confirming", "verified", "failed", "superseded"},
         Transition(r, from, to)
  PROVE  row' \in [Records -> RowType]
BY MovedType, UpdateType DEF Transition

LEMMA ToPendingType ==
  ASSUME row \in [Records -> RowType], NEW r, NEW from, NEW e \in AttemptEpochs,
         ToPendingAgain(r, from, e)
  PROVE  row' \in [Records -> RowType]
<1>1. r \in Records => [Moved(r, "pending") EXCEPT !.attemptEpoch = e] \in RowType
  BY MovedType, SMTT(30) DEF RowType
<1> QED BY <1>1, UpdateType DEF ToPendingAgain

LEMMA WithTxType ==
  ASSUME row \in [Records -> RowType], NEW r, NEW from, NEW tx \in Txs \cup {NoTx},
         NEW to \in {"confirming", "verified"},
         Update(r, from, [Moved(r, to) EXCEPT !.txHash = tx])
  PROVE  row' \in [Records -> RowType]
<1>1. r \in Records => [Moved(r, to) EXCEPT !.txHash = tx] \in RowType
  BY MovedType DEF RowType
<1> QED BY <1>1, UpdateType

LEMMA FoundTxType ==
  ASSUME PipelineInv, ChainTypeOK, NEW r \in notarised
  PROVE  FoundTx(r) \in Txs
BY DEF PipelineInv, ContractInv, NotarisedOnce, FoundTx, ChainTypeOK

LEMMA RecoverType ==
  ASSUME row \in [Records -> RowType], PipelineInv, ChainTypeOK, NEW r \in notarised,
         RecoverToVerified(r)
  PROVE  row' \in [Records -> RowType]
<1>1. PICK tx \in {FoundTx(r), row[r].txHash} : ToVerified(r, InFlight, tx)
  BY DEF RecoverToVerified
<1>2. tx \in Txs \cup {NoTx}
  BY FoundTxType DEF ChainTypeOK, RowType
<1> QED BY <1>1, <1>2, WithTxType DEF ToVerified

\* Every update keeps the columns' types.
LEMMA RowTypeStep ==
  ASSUME TypeInv, RefinementInv, [Next]_vars
  PROVE  row' \in [Records -> RowType]
<1>1. row \in [Records -> RowType] /\ PipelineInv /\ ChainTypeOK
  BY DEF TypeInv, TypeOK, RefinementInv
<1>2. CASE UNCHANGED row
  BY <1>1, <1>2
<1>3. ASSUME NEW r \in Records, RequestStep(r) \/ ClaimStep(r)
      PROVE  row' \in [Records -> RowType]
  <2>1. CASE handleRetry(r)
    <3>1. Bump(row[r].attemptEpoch) \in AttemptEpochs
      BY <1>1, BumpType DEF RowType
    <3> QED BY <1>1, <2>1, <3>1, ToPendingType DEF handleRetry
  <2> QED BY <1>1, <1>2, <1>3, <2>1, TransitionType
    DEF RequestStep, ClaimStep, requestSubmission, handleVerify, finalizeSupersede, ClaimJob
<1>4. ASSUME NEW r \in Records, GrowOld(r)
      PROVE  row' \in [Records -> RowType]
  BY <1>1, <1>4 DEF GrowOld, RowType, Ages
<1>5. CASE WorkerStep
  <2>1. CASE Precheck \/ EstimateGas \/ Broadcast \/ HealNonce \/ Recover \/ EnqueueConfirm
    BY <1>2, <2>1 DEF Precheck, EstimateGas, Broadcast, HealNonce, Recover, EnqueueConfirm
  <2>2. CASE AssignNonce
    <3>1. CASE localNonce # NoNonce
               /\ Update(worker.rec, {"submitting"},
                    [row[worker.rec] EXCEPT !.assignedNonce = localNonce, !.age = "fresh"])
      <4>1. localNonce \in Nat
        BY <3>1 DEF TypeInv, TypeOK
      <4>2. worker.rec \in Records =>
              [row[worker.rec] EXCEPT !.assignedNonce = localNonce, !.age = "fresh"] \in RowType
        BY <1>1, <4>1 DEF RowType, Ages
      <4> QED BY <1>1, <3>1, <4>2, UpdateType
    <3> QED BY <1>2, <2>2, <3>1 DEF AssignNonce
  <2>3. CASE RecordTxHash
    <3>1. worker.tx \in Txs
      BY <2>3 DEF RecordTxHash, WorkerAt, TypeInv, KnownInv
    <3> QED BY <1>1, <1>2, <2>3, <3>1, WithTxType DEF RecordTxHash, ToConfirming
  <2>4. CASE ResetToPending \/ FailTerminally
    BY <1>1, <1>2, <2>4, TransitionType DEF ResetToPending, FailTerminally
  <2> QED BY <1>5, <2>1, <2>2, <2>3, <2>4 DEF WorkerStep
<1>6. CASE SeedWallet \/ MineNext \/ EvictTx \/ Crash \/ WipeRedis \/ UNCHANGED vars
  BY <1>2, <1>6 DEF SeedWallet, MineNext, EvictTx, Crash, WipeRedis, vars
<1>7. CASE ConfirmStep
  BY <1>1, <1>2, <1>7, TransitionType DEF ConfirmStep, ConfirmVerified, ConfirmReverted, ConfirmGivesUp
<1>8. CASE ReconcileStep
  <2>1. CASE ScanInFlight \/ ScanPending \/ RoundEnds \/ CheckNonce \/ Requeue
    BY <1>2, <2>1 DEF ScanInFlight, ScanPending, RoundEnds, CheckNonce, Requeue
  <2>2. ASSUME NEW r \in DOMAIN recon.rows, CheckTx(r)
        PROVE  row' \in [Records -> RowType]
    <3>1. CASE recon.rows[r].txHash \in succeeded /\ RecoverToVerified(r)
      <4>1. r \in notarised
        BY <1>1, <2>2, <3>1, SucceededNotarised
        DEF CheckTx, HasTx, RefinementInv, ReconInv, OwnTx
      <4> QED BY <1>1, <3>1, <4>1, RecoverType
    <3> QED BY <1>1, <1>2, <2>2, <3>1, TransitionType DEF CheckTx
  <2>3. ASSUME NEW r \in DOMAIN recon.rows, CheckRecord(r)
        PROVE  row' \in [Records -> RowType]
    BY <1>1, <1>2, <2>3, RecoverType DEF CheckRecord
  <2>4. ASSUME NEW r \in DOMAIN recon.rows, PatchPending(r)
        PROVE  row' \in [Records -> RowType]
    <3>1. Bump(recon.rows[r].attemptEpoch) \in AttemptEpochs
      BY <2>4, BumpType DEF TypeInv, TypeOK, RowType
    <3> QED BY <1>1, <2>4, <3>1, ToPendingType DEF PatchPending
  <2>5. CASE ResetInFlight
    <3>1. Bump(Reading.attemptEpoch) \in AttemptEpochs
      BY <2>5, BumpType DEF ResetInFlight, Reading, TypeInv, TypeOK, KnownInv, RowType
    <3> QED BY <1>1, <2>5, <3>1, ToPendingType DEF ResetInFlight
  <2>6. CASE GiveUp
    BY <1>1, <2>6, TransitionType DEF GiveUp
  <2> QED BY <1>8, <2>1, <2>2, <2>3, <2>4, <2>5, <2>6 DEF ReconcileStep
<1> QED BY <1>3, <1>4, <1>5, <1>6, <1>7, <1>8 DEF Next

(***************************************************************************)
(* Queues, the worker and the reconciler.                                  *)
(***************************************************************************)

QueueTypes ==
  /\ submitJobs \in [Jobs -> 0..SubmitAttempts]
  /\ confirmJobs \in SUBSET (Records \X Txs) /\ confirmSeen \in SUBSET (Records \X Txs)
  /\ scheduled \in BOOLEAN

LEMMA EnqueueType ==
  ASSUME submitJobs \in [Jobs -> 0..SubmitAttempts], NEW r, NEW e, Enqueue(r, e)
  PROVE  submitJobs' \in [Jobs -> 0..SubmitAttempts]
<1>1. PICK job : job = <<r, e>>
  OBVIOUS
<1>2. SubmitAttempts \in 0..SubmitAttempts
  BY PipelineAssumption
<1> QED BY <1>1, <1>2 DEF Enqueue

\* A job completes, or has one attempt fewer.
LEMMA JobEndsType ==
  ASSUME submitJobs \in [Jobs -> 0..SubmitAttempts], JobDone \/ JobThrows
  PROVE  submitJobs' \in [Jobs -> 0..SubmitAttempts] /\ worker' = IdleWorker
<1>1. PICK job : job = <<worker.rec, worker.epoch>>
  OBVIOUS
<1>2. CASE JobDone
  <2>1. 0 \in 0..SubmitAttempts
    BY PipelineAssumption
  <2> QED BY <1>1, <1>2, <2>1 DEF JobDone
<1>3. CASE JobThrows
  <2>1. CASE job \in Jobs
    <3>1. PICK n \in 0..SubmitAttempts : n = submitJobs[job]
      BY <2>1
    <3>2. submitJobs' = [submitJobs EXCEPT ![job] = IF n > 0 THEN n - 1 ELSE 0]
      BY <1>1, <1>3, <3>1 DEF JobThrows
    <3>3. (IF n > 0 THEN n - 1 ELSE 0) \in 0..SubmitAttempts
      BY PipelineAssumption
    <3> QED BY <1>3, <3>2, <3>3 DEF JobThrows
  <2>2. CASE job \notin Jobs
    <3>1. submitJobs' = submitJobs
      BY <1>1, <1>3, <2>2 DEF JobThrows
    <3> QED BY <1>3, <3>1 DEF JobThrows
  <2> QED BY <2>1, <2>2
<1> QED BY <1>2, <1>3

LEMMA QueueTypeStep ==
  ASSUME TypeInv, RefinementInv, [Next]_vars
  PROVE  QueueTypes'
<1>1. submitJobs \in [Jobs -> 0..SubmitAttempts] /\ QueueTypes
  BY DEF TypeInv, TypeOK, QueueTypes
<1>2. CASE UNCHANGED queueVars
  BY <1>1, <1>2 DEF QueueTypes, queueVars
<1>3. ASSUME submitJobs' \in [Jobs -> 0..SubmitAttempts],
             UNCHANGED <<confirmJobs, confirmSeen, scheduled>>
      PROVE  QueueTypes'
  BY <1>1, <1>3 DEF QueueTypes
<1>4. ASSUME NEW r \in Records, RequestStep(r) \/ GrowOld(r)
      PROVE  QueueTypes'
  <2>1. CASE requestSubmission(r) \/ handleRetry(r)
    BY <1>1, <1>3, <2>1, EnqueueType DEF requestSubmission, handleRetry
  <2> QED BY <1>2, <1>4, <2>1 DEF RequestStep, GrowOld, handleVerify, finalizeSupersede
<1>5. ASSUME NEW r \in Records, NEW e \in AttemptEpochs, ClaimJob(r, e)
      PROVE  QueueTypes'
  <2>1. PICK job \in Jobs : job = <<r, e>>
    BY DEF Jobs
  <2>2. PICK n \in 0..SubmitAttempts : n = submitJobs[job]
    BY <1>1
  <2>3. n > 0 /\ n - 1 \in 0..SubmitAttempts /\ 0 \in 0..SubmitAttempts
    BY <1>5, <2>1, <2>2, PipelineAssumption DEF ClaimJob
  <2>4. \/ UNCHANGED submitJobs
        \/ submitJobs' = [submitJobs EXCEPT ![job] = 0]
        \/ submitJobs' = [submitJobs EXCEPT ![job] = n - 1]
    BY <1>5, <2>1, <2>2 DEF ClaimJob
  <2>5. submitJobs' \in [Jobs -> 0..SubmitAttempts]
    BY <1>1, <2>3, <2>4
  <2> QED BY <1>3, <1>5, <2>5 DEF ClaimJob
<1>6. CASE WorkerStep
  <2>1. CASE Precheck \/ AssignNonce \/ EstimateGas \/ Broadcast
    BY <1>2, <2>1 DEF Precheck, AssignNonce, EstimateGas, Broadcast
  <2>2. CASE HealNonce \/ Recover \/ RecordTxHash \/ ResetToPending \/ FailTerminally
    <3>1. submitJobs' \in [Jobs -> 0..SubmitAttempts]
      BY <1>1, <2>2, JobEndsType
      DEF HealNonce, Recover, RecordTxHash, ResetToPending, FailTerminally, StepFails
    <3> QED BY <1>3, <2>2, <3>1
      DEF HealNonce, Recover, RecordTxHash, ResetToPending, FailTerminally
  <2>3. CASE EnqueueConfirm
    <3>1. PICK job : job = <<worker.rec, worker.tx>>
      OBVIOUS
    <3>2. job \in Records \X Txs
      BY <2>3, <3>1 DEF EnqueueConfirm, WorkerAt, TypeInv, KnownInv, RefinementInv, PipelineInv,
         WorkerInv
    <3>3. submitJobs' \in [Jobs -> 0..SubmitAttempts]
      BY <1>1, <2>3, JobEndsType DEF EnqueueConfirm, StepFails
    <3>4. confirmJobs' \subseteq confirmJobs \cup {job} /\ confirmSeen' \subseteq confirmSeen \cup {job}
          /\ scheduled' = scheduled
      BY <2>3, <3>1 DEF EnqueueConfirm
    <3> QED BY <1>1, <3>2, <3>3, <3>4 DEF QueueTypes
  <2> QED BY <1>6, <2>1, <2>2, <2>3 DEF WorkerStep
<1>7. CASE SeedWallet \/ MineNext \/ EvictTx \/ UNCHANGED vars
  BY <1>2, <1>7 DEF SeedWallet, MineNext, EvictTx, vars
<1>8. CASE ConfirmStep
  <2>1. confirmJobs' \subseteq confirmJobs /\ UNCHANGED <<submitJobs, confirmSeen, scheduled>>
    BY <1>8 DEF ConfirmStep, ConfirmVerified, ConfirmReverted, ConfirmGivesUp, ConfirmJobDone
  <2> QED BY <1>1, <2>1 DEF QueueTypes
<1>9. CASE Crash \/ WipeRedis
  <2>1. 0 \in 0..SubmitAttempts
    BY PipelineAssumption
  <2> QED BY <1>1, <1>9, <2>1 DEF Crash, WipeRedis, QueueTypes
<1>10. CASE ReconcileStep
  <2>1. CASE Requeue
    BY <1>1, <1>3, <2>1, EnqueueType DEF Requeue
  <2> QED BY <1>2, <1>10, <2>1 DEF ReconcileStep, ScanInFlight, ScanPending, RoundEnds, CheckTx,
        CheckRecord, PatchPending, CheckNonce, ResetInFlight, GiveUp
<1> QED BY <1>4, <1>5, <1>6, <1>7, <1>8, <1>9, <1>10 DEF Next, ClaimStep

\* What the worker has in hand.
HandTypes ==
  /\ worker \in WorkerType
  /\ worker.pc \in {"estimate", "broadcast"} => worker.nonce \in Nat
  /\ worker.pc \in {"sent", "enqueue"} => worker.tx \in Txs
  /\ worker.pc = "heal" => worker.after # "none"

LEMMA HandTypeStep ==
  ASSUME TypeInv, RefinementInv, [Next]_vars
  PROVE  HandTypes'
<1>1. HandTypes /\ HandInv
  BY DEF TypeInv, TypeOK, KnownInv, HandTypes, RefinementInv
<1>2. CASE UNCHANGED worker
  BY <1>1, <1>2 DEF HandTypes
<1>3. ASSUME worker' = IdleWorker
      PROVE  HandTypes'
  BY <1>3 DEF HandTypes, IdleWorker, WorkerType
<1>4. ASSUME NEW pc \in {"assign", "recover", "reset", "terminal"}, Goto(pc)
      PROVE  HandTypes'
  BY <1>1, <1>4 DEF HandTypes, Goto, WorkerType
<1>5. ASSUME NEW step \in {"reset", "terminal", "skip", "recover"}, HealThen(step)
      PROVE  HandTypes'
  BY <1>1, <1>5 DEF HandTypes, HealThen, WorkerType
<1>6. CASE \E r \in Records : RequestStep(r) \/ GrowOld(r)
  BY <1>2, <1>6 DEF RequestStep, GrowOld, requestSubmission, handleRetry, handleVerify,
     finalizeSupersede
<1>7. ASSUME NEW r \in Records, NEW e \in AttemptEpochs, ClaimJob(r, e)
      PROVE  HandTypes'
  <2>1. CASE worker' = [IdleWorker EXCEPT !.pc = "precheck", !.rec = r, !.epoch = e]
    BY <2>1 DEF HandTypes, IdleWorker, WorkerType
  <2> QED BY <1>2, <1>7, <2>1 DEF ClaimJob
<1>8. CASE WorkerStep
  <2>1. CASE Precheck
    BY <1>4, <2>1 DEF Precheck
  <2>2. CASE AssignNonce
    <3>1. CASE /\ localNonce # NoNonce
               /\ worker' = [worker EXCEPT !.pc = "estimate", !.nonce = localNonce]
      <4>1. localNonce \in Nat
        BY <3>1 DEF TypeInv, TypeOK
      <4> QED BY <1>1, <3>1, <4>1 DEF HandTypes, WorkerType
    <3> QED BY <1>5, <2>2, <3>1 DEF AssignNonce
  <2>3. CASE EstimateGas
    <3>1. CASE Goto("broadcast")
      BY <1>1, <2>3, <3>1 DEF HandTypes, Goto, WorkerType, EstimateGas, WorkerAt
    <3> QED BY <1>5, <2>3, <3>1 DEF EstimateGas
  <2>4. CASE Broadcast
    <3>1. CASE worker' = [worker EXCEPT !.pc = "sent", !.tx = <<worker.nonce, worker.rec>>]
      <4>1. <<worker.nonce, worker.rec>> \in Txs
        BY <2>4 DEF Broadcast, WorkerAt, TypeInv, KnownInv, RefinementInv, PipelineInv,
           WorkerInv, Txs
      <4> QED BY <1>1, <3>1, <4>1 DEF HandTypes, WorkerType
    <3> QED BY <1>5, <2>4, <3>1 DEF Broadcast
  <2>5. CASE HealNonce
    <3>1. CASE Goto(worker.after) /\ worker.after # "skip"
      <4>1. worker.after \in {"reset", "recover", "terminal"}
        BY <1>1, <2>5, <3>1 DEF HandTypes, WorkerType, HealNonce, WorkerAt
      <4> QED BY <1>4, <3>1, <4>1
    <3> QED BY <1>3, <2>5, <3>1 DEF HealNonce, JobDone
  <2>6. CASE Recover
    <3>1. CASE worker' = [worker EXCEPT !.pc = "sent", !.tx = FoundTx(worker.rec)]
      <4>1. FoundTx(worker.rec) \in Txs
        BY <1>1, <2>6, FoundTxType
        DEF HandInv, Recover, WorkerAt, RefinementInv, TypeInv, TypeOK
      <4> QED BY <1>1, <3>1, <4>1 DEF HandTypes, WorkerType
    <3> QED BY <1>3, <1>4, <2>6, <3>1 DEF Recover, StepFails, JobThrows
  <2>7. CASE RecordTxHash
    <3>1. CASE Goto("enqueue")
      BY <1>1, <2>7, <3>1 DEF HandTypes, Goto, WorkerType, RecordTxHash, WorkerAt
    <3> QED BY <1>3, <1>4, <2>7, <3>1 DEF RecordTxHash, StepFails, JobThrows
  <2>8. CASE EnqueueConfirm \/ ResetToPending \/ FailTerminally
    BY <1>3, <1>4, <2>8
    DEF EnqueueConfirm, ResetToPending, FailTerminally, StepFails, JobThrows, JobDone
  <2> QED BY <1>8, <2>1, <2>2, <2>3, <2>4, <2>5, <2>6, <2>7, <2>8 DEF WorkerStep
<1>9. CASE SeedWallet \/ MineNext \/ EvictTx \/ WipeRedis \/ ConfirmStep \/ UNCHANGED vars
  BY <1>2, <1>9 DEF SeedWallet, MineNext, EvictTx, WipeRedis, vars, ConfirmStep,
     ConfirmVerified, ConfirmReverted, ConfirmGivesUp, ConfirmJobDone
<1>10. CASE Crash
  BY <1>3, <1>10 DEF Crash
<1>11. CASE ReconcileStep
  BY <1>2, <1>11 DEF ReconcileStep, ScanInFlight, ScanPending, RoundEnds, CheckTx,
     CheckRecord, PatchPending, CheckNonce, ResetInFlight, GiveUp, Requeue
<1> QED BY <1>6, <1>7, <1>8, <1>9, <1>10, <1>11 DEF Next, ClaimStep

\* What the reconciler has read.
ReadTypes ==
  /\ recon.pc \in ReconPcs /\ recon.rec \in Records \cup {NoRecord}
  /\ DOMAIN recon.rows \subseteq Records
  /\ \A r \in DOMAIN recon.rows : recon.rows[r] \in RowType
  /\ recon.pc \in {"exists", "nonce", "reset", "giveup", "requeue", "patched"} =>
       recon.rec \in DOMAIN recon.rows

LEMMA ReadTypeStep ==
  ASSUME TypeInv, RefinementInv, [Next]_vars
  PROVE  ReadTypes'
<1>1. ReadTypes /\ {"pc", "rec", "rows"} \subseteq DOMAIN recon /\ row \in [Records -> RowType]
  BY DEF TypeInv, TypeOK, KnownInv, ReadTypes, RefinementInv, ReconInv
<1>2. CASE UNCHANGED recon
  BY <1>1, <1>2 DEF ReadTypes
<1>3. ASSUME NEW r \in DOMAIN recon.rows, NEW pc \in ReconPcs, Handle(r, pc)
      PROVE  ReadTypes'
  BY <1>1, <1>3 DEF Handle, ReadTypes
<1>4. ASSUME NEW r, RowDone(r)
      PROVE  ReadTypes'
  BY <1>1, <1>4 DEF RowDone, Restrict, ReadTypes, ReconPcs
<1>5. ASSUME recon' = IdleRecon
      PROVE  ReadTypes'
  BY <1>5 DEF IdleRecon, ReadTypes, ReconPcs
<1>6. ASSUME NEW pc \in {"inflight", "pending"}, NEW statuses,
             recon' = [IdleRecon EXCEPT !.pc = pc, !.rows = ReadRows(statuses)]
      PROVE  ReadTypes'
  <2>1. recon'.pc = pc /\ recon'.rec = NoRecord /\ recon'.rows = ReadRows(statuses)
    BY <1>6 DEF IdleRecon
  <2> QED BY <1>1, <2>1 DEF ReadRows, StaleIn, ReadTypes, ReconPcs
<1>7. CASE \E r \in Records : RequestStep(r) \/ ClaimStep(r) \/ GrowOld(r)
  BY <1>2, <1>7 DEF RequestStep, ClaimStep, GrowOld, requestSubmission, handleRetry,
     handleVerify, finalizeSupersede, ClaimJob
<1>8. CASE WorkerStep
  BY <1>2, <1>8 DEF WorkerStep, Precheck, AssignNonce, EstimateGas, Broadcast, HealNonce,
     Recover, RecordTxHash, EnqueueConfirm, ResetToPending, FailTerminally
<1>9. CASE SeedWallet \/ ConfirmStep \/ MineNext \/ EvictTx \/ WipeRedis \/ UNCHANGED vars
  BY <1>2, <1>9 DEF SeedWallet, ConfirmStep, ConfirmVerified, ConfirmReverted,
     ConfirmGivesUp, ConfirmJobDone, MineNext, EvictTx, WipeRedis, vars
<1>10. CASE Crash
  BY <1>5, <1>10 DEF Crash
<1>11. CASE ReconcileStep
  <2>1. CASE ScanInFlight BY <1>6, <2>1 DEF ScanInFlight
  <2>2. CASE ScanPending BY <1>6, <2>2 DEF ScanPending
  <2>3. CASE RoundEnds BY <1>5, <2>3 DEF RoundEnds
  <2>4. CASE \E r \in DOMAIN recon.rows : CheckTx(r)
    BY <1>3, <1>4, <2>4 DEF CheckTx, ReconPcs
  <2>5. CASE \E r \in DOMAIN recon.rows : CheckRecord(r)
    <3>1. PICK r \in DOMAIN recon.rows : CheckRecord(r)
      BY <2>5
    <3>2. PICK pc \in ReconPcs :
            pc = IF recon.rows[r].assignedNonce = NoNonce THEN "reset" ELSE "nonce"
      BY DEF ReconPcs
    <3> QED BY <1>3, <1>4, <3>1, <3>2 DEF CheckRecord
  <2>6. CASE \E r \in DOMAIN recon.rows : PatchPending(r)
    BY <1>3, <1>4, <2>6 DEF PatchPending, ReconPcs
  <2>7. CASE CheckNonce
    <3>1. recon.rec \in DOMAIN recon.rows
      BY <1>1, <2>7 DEF CheckNonce, ReadTypes
    <3> QED BY <1>3, <1>4, <2>7, <3>1 DEF CheckNonce, ReconPcs
  <2>8. CASE ResetInFlight
    <3>1. recon.rec \in DOMAIN recon.rows
      BY <1>1, <2>8 DEF ResetInFlight, ReadTypes
    <3> QED BY <1>3, <2>8, <3>1 DEF ResetInFlight, ReconPcs
  <2>9. CASE GiveUp \/ Requeue BY <1>4, <2>9 DEF GiveUp, Requeue
  <2> QED BY <1>11, <2>1, <2>2, <2>3, <2>4, <2>5, <2>6, <2>7, <2>8, <2>9 DEF ReconcileStep
<1> QED BY <1>7, <1>8, <1>9, <1>10, <1>11 DEF Next

LEMMA CounterTypeStep ==
  ASSUME TypeInv, [Next]_vars
  PROVE  localNonce' \in Nat \cup {NoNonce} /\ faults' \in 0..MaxFaults
<1>1. PendingCount \in Nat
  BY PendingCountType DEF TypeInv, TypeOK
<1>2. localNonce \in Nat \cup {NoNonce} /\ faults \in 0..MaxFaults
  BY DEF TypeInv, TypeOK
<1>3. \A kind : Fault(kind) => faults' \in 0..MaxFaults
  BY <1>2, PipelineAssumption DEF Fault
<1>4. NoFault => faults' \in 0..MaxFaults
  BY <1>2 DEF NoFault
<1>5. CASE \E r \in Records : RequestStep(r) \/ ClaimStep(r) \/ GrowOld(r)
  BY <1>2, <1>3, <1>4, <1>5 DEF RequestStep, ClaimStep, GrowOld, requestSubmission, handleRetry,
     handleVerify, finalizeSupersede, ClaimJob
<1>6. CASE WorkerStep
  <2>1. CASE AssignNonce
    <3>1. localNonce # NoNonce => localNonce + 1 \in Nat
      BY <1>2
    <3> QED BY <1>2, <1>3, <1>4, <2>1, <3>1 DEF AssignNonce
  <2>2. CASE HealNonce
    BY <1>1, <1>2, <1>3, <1>4, <2>2 DEF HealNonce
  <2> QED BY <1>2, <1>3, <1>4, <1>6, <2>1, <2>2 DEF WorkerStep, Precheck, EstimateGas, Broadcast,
        Recover, RecordTxHash, EnqueueConfirm, ResetToPending, FailTerminally
<1>7. CASE SeedWallet \/ ConfirmStep \/ MineNext \/ UNCHANGED vars
  BY <1>1, <1>2, <1>7 DEF SeedWallet, ConfirmStep, ConfirmVerified, ConfirmReverted,
     ConfirmGivesUp, ConfirmJobDone, MineNext, vars
<1>8. CASE EvictTx \/ Crash \/ WipeRedis
  BY <1>2, <1>3, <1>8 DEF EvictTx, Crash, WipeRedis
<1>9. CASE ReconcileStep
  BY <1>2, <1>3, <1>4, <1>9 DEF ReconcileStep, ScanInFlight, ScanPending, RoundEnds, CheckTx,
     CheckRecord, PatchPending, CheckNonce, ResetInFlight, GiveUp, Requeue
<1> QED BY <1>5, <1>6, <1>7, <1>8, <1>9 DEF Next

LEMMA InitTypes == Init => TypeInv
<1> SUFFICES ASSUME Init PROVE TypeInv
  OBVIOUS
<1>1. ChainTypeOK
  BY FS_EmptySet DEF Init, ChainInit, ChainTypeOK
<1>2. 0 \in 0..SubmitAttempts /\ 0 \in 0..MaxFaults /\ 1 \in AttemptEpochs
  BY PipelineAssumption DEF AttemptEpochs
<1> QED BY <1>1, <1>2
  DEF Init, TypeInv, TypeOK, KnownInv, RowType, Ages, IdleWorker, WorkerType, IdleRecon, ReconPcs

\* The worker and the reconciler have in hand what they use, wherever they use it.
THEOREM TypeInvHolds == Spec => []TypeInv
<1>1. TypeInv /\ RefinementInv /\ [Next]_vars => TypeInv'
  BY ChainTypeStep, RowTypeStep, QueueTypeStep, HandTypeStep, ReadTypeStep, CounterTypeStep
  DEF TypeInv, TypeOK, KnownInv, QueueTypes, HandTypes, ReadTypes
<1> QED BY <1>1, InitTypes, RefinementInvHolds, PTL DEF Spec

\* Rows, jobs, counters and locals keep their types, whatever races and fails: no record
\* gets a negative count of attempts and no job a transaction that was not sent for one.
THEOREM PipelineTypes == Spec => []TypeOK
<1>1. TypeInv => TypeOK
  BY DEF TypeInv
<1> QED BY <1>1, TypeInvHolds, PTL

(***************************************************************************)
(* The wallet stays in step while every reseed succeeds and nothing is     *)
(* evicted.                                                                *)
(***************************************************************************)

\* Waiting transactions have different nonces, without a gap, and the counter at rest is
\* the next one.  A worker that holds a nonce has just taken it from a seeded counter.
WalletInv ==
  /\ NoNonceGap
  /\ \A t, u \in mempool : NonceOf(t) = NonceOf(u) => t = u
  /\ worker.pc \in {"estimate", "broadcast"} =>
       worker.nonce = PendingCount /\ localNonce = worker.nonce + 1
  /\ worker.pc \notin {"estimate", "broadcast", "heal"} => localNonce \in {NoNonce, PendingCount}

\* Without a gap the pending count is the end of the mempool.
LEMMA PendingCountIsEnd ==
  ASSUME ChainTypeOK, NoNonceGap
  PROVE  PendingCount = latestNonce + Cardinality(mempool) /\ Cardinality(mempool) \in Nat
<1>1. Cardinality(mempool) \in Nat
  BY FS_CardinalityType DEF ChainTypeOK
<1>2. /\ PendingCount \in latestNonce..(latestNonce + Cardinality(mempool))
      /\ PendingCount \notin latestNonce..(latestNonce + Cardinality(mempool) - 1)
  BY PendingCountFound DEF ChainTypeOK, NoNonceGap
<1> QED BY <1>1, <1>2 DEF ChainTypeOK

LEMMA CountIsEnd ==
  ChainTypeOK /\ NoNonceGap => PendingCount = latestNonce + Cardinality(mempool)
BY PendingCountIsEnd

\* The same of the next state.
LEMMA NextCountIsEnd ==
  (ChainTypeOK /\ NoNonceGap => PendingCount = latestNonce + Cardinality(mempool))'
BY CountIsEnd, PTL

\* A transaction sent at the pending count goes to the end.
LEMMA SendWallet ==
  ASSUME ChainTypeOK, ChainTypeOK', NoNonceGap, NEW tx, Send(tx), NonceOf(tx) = PendingCount,
         \A t, u \in mempool : NonceOf(t) = NonceOf(u) => t = u
  PROVE  /\ NoNonceGap' /\ PendingCount' = PendingCount + 1
         /\ \A t, u \in mempool' : NonceOf(t) = NonceOf(u) => t = u
<1>1. PendingCount = latestNonce + Cardinality(mempool) /\ Cardinality(mempool) \in Nat
  BY PendingCountIsEnd
<1>2. NonceOf(tx) \notin NoncesIn(mempool) /\ tx \notin mempool
  BY DEF Send, Accepts, NoncesIn
<1>3. Cardinality(mempool') = Cardinality(mempool) + 1 /\ latestNonce' = latestNonce
      /\ mempool' = mempool \cup {tx}
  BY <1>2, FS_AddElement DEF Send, ChainTypeOK
<1>4. NoncesIn(mempool)' = NoncesIn(mempool) \cup {PendingCount}
  BY <1>3 DEF NoncesIn
<1>5. NoNonceGap'
  <2>1. latestNonce..(latestNonce + Cardinality(mempool))
          = (latestNonce..(latestNonce + Cardinality(mempool) - 1)) \cup {PendingCount}
    BY <1>1 DEF ChainTypeOK
  <2>2. latestNonce' + Cardinality(mempool') - 1 = latestNonce + Cardinality(mempool)
    BY <1>1, <1>3 DEF ChainTypeOK
  <2> QED BY <1>3, <1>4, <2>1, <2>2 DEF NoNonceGap
<1>6. PendingCount' = latestNonce' + Cardinality(mempool')
  BY <1>5, NextCountIsEnd
<1>7. \A t, u \in mempool' : NonceOf(t) = NonceOf(u) => t = u
  BY <1>2, <1>3 DEF NoncesIn
<1> QED BY <1>1, <1>3, <1>5, <1>6, <1>7 DEF ChainTypeOK

\* Mining takes the first one.
LEMMA MineWallet ==
  ASSUME ChainTypeOK, ChainTypeOK', NoNonceGap, NEW tx, Mine(tx),
         \A t, u \in mempool : NonceOf(t) = NonceOf(u) => t = u
  PROVE  /\ NoNonceGap' /\ PendingCount' = PendingCount
         /\ \A t, u \in mempool' : NonceOf(t) = NonceOf(u) => t = u
<1>1. PendingCount = latestNonce + Cardinality(mempool) /\ Cardinality(mempool) \in Nat
  BY PendingCountIsEnd
<1>2. tx \in mempool /\ NonceOf(tx) = latestNonce /\ mempool' = mempool \ {tx}
      /\ latestNonce' = latestNonce + 1
  BY DEF Mine
<1>3. Cardinality(mempool') = Cardinality(mempool) - 1
  BY <1>2, FS_RemoveElement DEF ChainTypeOK
<1>4. NoncesIn(mempool)' = NoncesIn(mempool) \ {latestNonce}
  BY <1>2 DEF NoncesIn
<1>5. NoNonceGap'
  <2>1. (latestNonce..(latestNonce + Cardinality(mempool) - 1)) \ {latestNonce}
          = (latestNonce + 1)..(latestNonce + Cardinality(mempool) - 1)
    BY <1>1 DEF ChainTypeOK
  <2>2. latestNonce' + Cardinality(mempool') - 1 = latestNonce + Cardinality(mempool) - 1
    BY <1>1, <1>2, <1>3 DEF ChainTypeOK
  <2> QED BY <1>2, <1>4, <2>1, <2>2 DEF NoNonceGap
<1>6. PendingCount' = latestNonce' + Cardinality(mempool')
  BY <1>5, NextCountIsEnd
<1>7. \A t, u \in mempool' : NonceOf(t) = NonceOf(u) => t = u
  BY <1>2
<1> QED BY <1>1, <1>2, <1>3, <1>5, <1>6, <1>7 DEF ChainTypeOK

LEMMA WalletStep ==
  ASSUME TypeInv, TypeInv', WalletInv, [Next]_vars, FaultKinds \cap {"reseed", "evict"} = {}
  PROVE  WalletInv'
<1>1. ChainTypeOK /\ ChainTypeOK' /\ worker \in WorkerType /\ PendingCount \in Nat
  BY PendingCountType DEF TypeInv, TypeOK
<1>2. ASSUME UNCHANGED chainVars
      PROVE  /\ NoNonceGap' /\ PendingCount' = PendingCount
             /\ \A t, u \in mempool' : NonceOf(t) = NonceOf(u) => t = u
  BY <1>2 DEF chainVars, WalletInv, NoNonceGap, NoncesIn, PendingCount
<1>3. ASSUME UNCHANGED <<chainVars, localNonce>>, worker.pc \notin {"estimate", "broadcast", "heal"},
             worker'.pc \notin {"estimate", "broadcast"}
      PROVE  WalletInv'
  BY <1>2, <1>3 DEF WalletInv
<1>4. ASSUME UNCHANGED <<chainVars, localNonce, worker>>
      PROVE  WalletInv'
  BY <1>2, <1>4 DEF WalletInv
<1>5. ASSUME UNCHANGED chainVars, worker'.pc = "heal"
      PROVE  WalletInv'
  BY <1>2, <1>5 DEF WalletInv
<1>6. ASSUME NEW pc, Goto(pc)
      PROVE  worker'.pc = pc
  BY <1>1, <1>6 DEF Goto, WorkerType
<1>7. ASSUME NEW step, HealThen(step)
      PROVE  worker'.pc = "heal"
  BY <1>1, <1>7 DEF HealThen, WorkerType
<1>8. CASE \E r \in Records : RequestStep(r) \/ GrowOld(r)
  BY <1>4, <1>8 DEF RequestStep, GrowOld, requestSubmission, handleRetry, handleVerify,
     finalizeSupersede
<1>9. ASSUME NEW r \in Records, NEW e \in AttemptEpochs, ClaimJob(r, e)
      PROVE  WalletInv'
  <2>1. worker' = worker \/ worker'.pc = "precheck"
    BY <1>9 DEF ClaimJob, IdleWorker
  <2> QED BY <1>3, <1>4, <1>9, <2>1 DEF ClaimJob, WorkerAt
<1>10. CASE WorkerStep
  <2>1. CASE Precheck
    BY <1>3, <1>6, <2>1 DEF Precheck, WorkerAt
  <2>2. CASE AssignNonce
    <3>1. CASE /\ localNonce # NoNonce /\ localNonce' = localNonce + 1
               /\ worker' = [worker EXCEPT !.pc = "estimate", !.nonce = localNonce]
      <4>1. localNonce = PendingCount
        BY <2>2, <3>1 DEF WalletInv, AssignNonce, WorkerAt
      <4>2. worker'.pc = "estimate" /\ worker'.nonce = localNonce
        BY <1>1, <3>1 DEF WorkerType
      <4> QED BY <1>2, <2>2, <3>1, <4>1, <4>2 DEF WalletInv, AssignNonce
    <3> QED BY <1>5, <1>7, <2>2, <3>1 DEF AssignNonce
  <2>3. CASE EstimateGas
    <3>1. CASE Goto("broadcast")
      <4>1. worker'.pc = "broadcast" /\ worker'.nonce = worker.nonce
        BY <1>1, <3>1 DEF Goto, WorkerType
      <4> QED BY <1>2, <2>3, <4>1 DEF WalletInv, EstimateGas, WorkerAt
    <3> QED BY <1>5, <1>7, <2>3, <3>1 DEF EstimateGas
  <2>4. CASE Broadcast
    <3>1. PICK tx : tx = <<worker.nonce, worker.rec>>
      OBVIOUS
    <3>2. NonceOf(tx) = PendingCount /\ localNonce = PendingCount + 1 /\ localNonce' = localNonce
      BY <2>4, <3>1 DEF Broadcast, WorkerAt, WalletInv, NonceOf
    <3>3. CASE Send(tx)
      <4>1. /\ NoNonceGap' /\ PendingCount' = PendingCount + 1
            /\ \A t, u \in mempool' : NonceOf(t) = NonceOf(u) => t = u
        BY <1>1, <3>2, <3>3, SendWallet DEF WalletInv
      <4>2. worker'.pc \in {"sent", "heal"}
        <5>1. worker' = [worker EXCEPT !.pc = "sent", !.tx = tx] => worker'.pc = "sent"
          BY <1>1 DEF WorkerType
        <5> QED BY <1>7, <2>4, <3>1, <5>1 DEF Broadcast
      <4> QED BY <3>2, <4>1, <4>2 DEF WalletInv
    <3>4. CASE ~Send(tx)
      BY <1>5, <1>7, <2>4, <3>1, <3>4 DEF Broadcast
    <3> QED BY <3>3, <3>4
  <2>5. CASE HealNonce
    <3>1. localNonce' = PendingCount
      BY <2>5 DEF HealNonce, Fault
    <3>2. worker'.pc \notin {"estimate", "broadcast", "heal"}
      <4>1. worker.after \in {"none", "reset", "recover", "terminal", "skip"}
        BY <1>1 DEF WorkerType
      <4> QED BY <1>6, <2>5, <4>1 DEF HealNonce, JobDone, IdleWorker
    <3> QED BY <1>2, <2>5, <3>1, <3>2 DEF HealNonce, WalletInv
  <2>6. CASE Recover
    <3>1. worker'.pc \in {"sent", "reset", "idle"}
      <4>1. worker' = [worker EXCEPT !.pc = "sent", !.tx = FoundTx(worker.rec)]
              => worker'.pc = "sent"
        BY <1>1 DEF WorkerType
      <4> QED BY <1>6, <2>6, <4>1 DEF Recover, StepFails, JobThrows, IdleWorker
    <3> QED BY <1>3, <2>6, <3>1 DEF Recover, WorkerAt
  <2>7. CASE RecordTxHash \/ EnqueueConfirm \/ ResetToPending \/ FailTerminally
    <3>1. worker'.pc \in {"enqueue", "reset", "idle"}
      BY <1>6, <2>7 DEF RecordTxHash, EnqueueConfirm, ResetToPending, FailTerminally, StepFails,
         JobThrows, JobDone, IdleWorker
    <3> QED BY <1>3, <2>7, <3>1
      DEF RecordTxHash, EnqueueConfirm, ResetToPending, FailTerminally, WorkerAt
  <2> QED BY <1>10, <2>1, <2>2, <2>3, <2>4, <2>5, <2>6, <2>7 DEF WorkerStep
<1>11. CASE SeedWallet
  <2>1. worker.pc \notin {"estimate", "broadcast"}
    BY <1>1, <1>11, PipelineAssumption DEF SeedWallet, WalletInv
  <2> QED BY <1>2, <1>11, <2>1 DEF SeedWallet, WalletInv
<1>12. CASE WipeRedis \/ ConfirmStep \/ UNCHANGED vars
  BY <1>4, <1>12 DEF WipeRedis, vars, ConfirmStep, ConfirmVerified, ConfirmReverted,
     ConfirmGivesUp, ConfirmJobDone
<1>13. CASE MineNext
  <2>1. PICK tx \in mempool : Mine(tx)
    BY <1>13 DEF MineNext
  <2>2. /\ NoNonceGap' /\ PendingCount' = PendingCount
        /\ \A t, u \in mempool' : NonceOf(t) = NonceOf(u) => t = u
    BY <1>1, <2>1, MineWallet DEF WalletInv
  <2> QED BY <1>13, <2>2 DEF MineNext, WalletInv
<1>14. CASE EvictTx
  BY <1>14 DEF EvictTx, Fault
<1>15. CASE Crash
  BY <1>2, <1>15 DEF Crash, IdleWorker, WalletInv
<1>16. CASE ReconcileStep
  BY <1>4, <1>16 DEF ReconcileStep, ScanInFlight, ScanPending, RoundEnds, CheckTx,
     CheckRecord, PatchPending, CheckNonce, ResetInFlight, GiveUp, Requeue
<1> QED BY <1>8, <1>9, <1>10, <1>11, <1>12, <1>13, <1>14, <1>15, <1>16 DEF Next, ClaimStep

LEMMA InitWallet == Init => WalletInv
<1> SUFFICES ASSUME Init PROVE WalletInv
  OBVIOUS
<1>1. Cardinality({}) = 0
  BY FS_EmptySet
<1>2. NoNonceGap
  <2>1. 0..(0 + 0 - 1) = {}
    OBVIOUS
  <2> QED BY <1>1, <2>1 DEF Init, ChainInit, NoNonceGap, NoncesIn
<1> QED BY <1>2 DEF Init, ChainInit, WalletInv, IdleWorker

\* No path takes a nonce and leaves it unused: however often broadcasts fail, answers are
\* lost, jobs throw and the host restarts, what waits in the mempool has no gap - as long
\* as the reseed that heals the counter does not fail itself and nothing is evicted.
THEOREM WalletStaysInStep ==
  FaultKinds \cap {"reseed", "evict"} = {} => (Spec => []WalletInStep)
<1> SUFFICES ASSUME FaultKinds \cap {"reseed", "evict"} = {} PROVE Spec => []WalletInStep
  OBVIOUS
<1>1. TypeInv /\ TypeInv' /\ WalletInv /\ [Next]_vars => WalletInv'
  BY WalletStep
<1>2. WalletInv => WalletInStep
  BY DEF WalletInv, WalletInStep, WorkerAt
<1> QED BY <1>1, <1>2, InitWallet, TypeInvHolds, PTL DEF Spec
=============================================================================
