--------------------------- MODULE RecordPipeline ---------------------------
(***************************************************************************)
(* The record pipeline under lib/blockchain: PublicRecord rows, the submit *)
(* and confirm queues, the submit worker (one job at a time, one wallet),  *)
(* the confirm worker, the reconciler, and the API calls that touch a row. *)
(*                                                                         *)
(* An action is what runs between two awaits: one database statement, one  *)
(* RPC call or one queue call.  Every row change is a conditional UPDATE   *)
(* on the row's status, so a lost race changes nothing and is not noticed  *)
(* unless the code looks at the result.  An RPC read whose answer cannot   *)
(* change any more (a receipt, an existing record, a nonce overtaken) is   *)
(* one action with the UPDATE it leads to.                                 *)
(*                                                                         *)
(* Faults are taken from FaultKinds, at most MaxFaults in a behaviour.     *)
(***************************************************************************)
EXTENDS RecordChain

CONSTANTS
  SubmitAttempts,   \* SUBMIT_JOB_OPTIONS.attempts
  MaxAttemptEpoch,  \* bound: later attempt epochs are not told apart
  FaultKinds,       \* the faults that may happen
  MaxFaults,        \* bound: how many of them
  NoNonce, NoTx

\* crash: the worker host restarts.   rpc: an RPC call fails before it has effect.
\* reseed: reading the pending nonce fails.   lost: a broadcast's answer is lost.
\* db, redis: a database or queue call fails.   wipe: Redis loses its data.
\* slow: a row goes stale while the submit worker is at it.   evict: see Evict.
\* drift: the source row no longer rebuilds to the record's hash.
AllFaults ==
  {"crash", "rpc", "reseed", "lost", "db", "redis", "wipe", "slow", "evict", "drift"}

ASSUME PipelineAssumption ==
  /\ SubmitAttempts \in Nat \ {0} /\ MaxAttemptEpoch \in Nat \ {0} /\ MaxFaults \in Nat
  /\ FaultKinds \subseteq AllFaults
  /\ NoNonce \notin Nat
  /\ NoTx \notin Nat \X Records

VARIABLES
  row,          \* PublicRecord rows; age abstracts how long ago updatedAt was
  submitJobs,   \* attempts left of the live job submit:<r>:v<epoch>, 0 if none
  confirmJobs,  \* live jobs confirm:<r>:<tx>
  confirmSeen,  \* the same with the finished jobs the queue still retains
  scheduled,    \* the repeatable reconcile job is registered
  worker,       \* the submit worker and the locals of processSubmitJob
  localNonce,   \* the wallet's counter, NoNonce until it is seeded
  recon,        \* the reconciler, the rows it has read and not handled yet
  faults

queueVars == <<submitJobs, confirmJobs, confirmSeen, scheduled>>
vars == <<chainVars, row, queueVars, worker, localNonce, recon, faults>>

\* Stale: past the threshold for the row's status.  Hard: past the hard timeout.
Ages == {"fresh", "stale", "hard"}
InFlight == {"submitting", "confirming"}
AttemptEpochs == 1..MaxAttemptEpoch
Jobs == Records \X AttemptEpochs

Bump(e) == IF e < MaxAttemptEpoch THEN e + 1 ELSE e

Fault(kind) == kind \in FaultKinds /\ faults < MaxFaults /\ faults' = faults + 1
NoFault == UNCHANGED faults

(***************************************************************************)
(* Rows and queues.                                                        *)
(***************************************************************************)

\* transition: a conditional UPDATE; updatedAt is set by every update.
Moved(r, to) == [row[r] EXCEPT !.status = to, !.age = "fresh"]

Update(r, from, new) ==
  row' = IF row[r].status \in from THEN [row EXCEPT ![r] = new] ELSE row

Transition(r, from, to) == Update(r, from, Moved(r, to))

\* Mutant: the transaction hash is not recorded.
ToConfirmingBare(r, tx) == Update(r, {"submitting"}, Moved(r, "confirming"))

ToConfirming(r, tx) ==
  Update(r, {"submitting"}, [Moved(r, "confirming") EXCEPT !.txHash = tx])

ToPendingAgain(r, from, e) ==
  Update(r, from, [Moved(r, "pending") EXCEPT !.attemptEpoch = e])

\* Mutant: a transition that forgets which status it came from.
VerifiedFromAny(r, from, tx) ==
  row' = [row EXCEPT ![r] = [Moved(r, "verified") EXCEPT !.txHash = tx]]

ToVerified(r, from, tx) ==
  Update(r, from, [Moved(r, "verified") EXCEPT !.txHash = tx])

\* createEnqueue: a job that is still waiting or active is not added again; a
\* finished one is removed and added anew.
Enqueue(r, e) ==
  submitJobs' = IF submitJobs[<<r, e>>] = 0
                THEN [submitJobs EXCEPT ![<<r, e>>] = SubmitAttempts]
                ELSE submitJobs

\* The transaction that notarised a record, found in the event log.
FoundTx(r) == CHOOSE tx \in succeeded : RecordOf(tx) = r

\* recoverToVerified: a log that is not indexed yet leaves the row's txHash.
RecoverToVerified(r) ==
  \E tx \in {FoundTx(r), row[r].txHash} : ToVerified(r, InFlight, tx)

(***************************************************************************)
(* Requests: after a ledger commit, POST /submit, POST /retry, GET /verify,*)
(* and the supersede step that follows a verified reversal.                *)
(***************************************************************************)

\* The row is read and its job added in one action: a job keeps only the record's
\* id, so one added for an epoch already passed is the same as one left waiting.
requestSubmission(r) ==
  /\ row[r].status = "pending"
  /\ Enqueue(r, row[r].attemptEpoch)
  /\ UNCHANGED <<chainVars, row, confirmJobs, confirmSeen, scheduled, worker, localNonce,
                 recon, faults>>

handleRetry(r) ==
  /\ row[r].status = "failed"
  /\ row[r].attemptEpoch < MaxAttemptEpoch
  /\ ToPendingAgain(r, {"failed"}, Bump(row[r].attemptEpoch))
  /\ \/ Enqueue(r, Bump(row[r].attemptEpoch)) /\ NoFault
     \/ Fault("redis") /\ UNCHANGED submitJobs
  /\ UNCHANGED <<chainVars, confirmJobs, confirmSeen, scheduled, worker, localNonce, recon>>

handleVerify(r) ==
  /\ row[r].status = "confirming" /\ r \in notarised
  /\ Transition(r, {"confirming"}, "verified")
  /\ UNCHANGED <<chainVars, queueVars, worker, localNonce, recon, faults>>

finalizeSupersede(r, original) ==
  /\ Ledger[r].kind = "reversal" /\ Ledger[r].original = original
  /\ original \in Records
  /\ row[r].status = "verified" /\ row[original].status = "verified"
  /\ Transition(original, {"verified"}, "superseded")
  /\ UNCHANGED <<chainVars, queueVars, worker, localNonce, recon, faults>>

(***************************************************************************)
(* The submit worker.                                                      *)
(***************************************************************************)

IdleWorker == [pc |-> "idle", rec |-> NoRecord, epoch |-> 0, nonce |-> NoNonce,
               tx |-> NoTx, after |-> "none"]

WorkerAt(pc) == worker.pc = pc
Goto(pc) == worker' = [worker EXCEPT !.pc = pc]

\* A nonce was taken and nothing broadcast: reseed the counter, then go on.
HealThen(step) == worker' = [worker EXCEPT !.pc = "heal", !.after = step]

\* The job completes; or it throws and has one attempt fewer.
JobDone ==
  /\ worker' = IdleWorker
  /\ submitJobs' = [submitJobs EXCEPT ![<<worker.rec, worker.epoch>>] = 0]
\* Mutant: a job the queue has lost still counts its attempts down.
JobThrowsBlindly ==
  /\ worker' = IdleWorker
  /\ submitJobs' = [submitJobs EXCEPT ![<<worker.rec, worker.epoch>>] = @ - 1]
JobThrows ==
  /\ worker' = IdleWorker
  /\ submitJobs' = [submitJobs EXCEPT
       ![<<worker.rec, worker.epoch>>] = IF @ > 0 THEN @ - 1 ELSE 0]

\* An error inside processSubmitJob's try is handled by resetting the row; one
\* inside its handler (after "recover") only fails the job.
StepFails ==
  IF worker.after = "recover" THEN JobThrows ELSE Goto("reset") /\ UNCHANGED submitJobs

ClaimJob(r, e) ==
  /\ WorkerAt("idle") /\ submitJobs[<<r, e>>] > 0
  /\ \/ /\ row[r].status = "pending"
        /\ Transition(r, {"pending"}, "submitting")
        /\ worker' = [IdleWorker EXCEPT !.pc = "precheck", !.rec = r, !.epoch = e]
        /\ NoFault /\ UNCHANGED submitJobs
     \/ /\ row[r].status # "pending"       \* skipped: another job owns the row
        /\ submitJobs' = [submitJobs EXCEPT ![<<r, e>>] = 0]
        /\ NoFault /\ UNCHANGED <<row, worker>>
     \/ /\ Fault("db")
        /\ submitJobs' = [submitJobs EXCEPT ![<<r, e>>] = @ - 1]
        /\ UNCHANGED <<row, worker>>
  /\ UNCHANGED <<chainVars, confirmJobs, confirmSeen, scheduled, localNonce, recon>>

\* buildSubmittable and readChainRecord
Precheck ==
  /\ WorkerAt("precheck")
  /\ \/ worker.rec \in notarised /\ Goto("recover") /\ NoFault
     \/ worker.rec \notin notarised /\ Goto("assign") /\ NoFault
     \/ Fault("drift") /\ Goto("terminal")
     \/ Fault("rpc") /\ Goto("reset")
  /\ UNCHANGED <<chainVars, row, queueVars, localNonce, recon>>

\* Mutant: the nonce is not persisted before the broadcast.
AssignUnrecorded ==
  /\ WorkerAt("assign")
  /\ localNonce # NoNonce /\ localNonce' = localNonce + 1
  /\ worker' = [worker EXCEPT !.pc = "estimate", !.nonce = localNonce]
  /\ NoFault
  /\ UNCHANGED <<chainVars, row, queueVars, recon>>

\* Mutant: a row that changed under the worker leaks its nonce.
AssignLeaking ==
  /\ WorkerAt("assign") /\ localNonce # NoNonce
  /\ localNonce' = localNonce + 1
  /\ Update(worker.rec, {"submitting"},
            [row[worker.rec] EXCEPT !.assignedNonce = localNonce, !.age = "fresh"])
  /\ worker' = IF row[worker.rec].status = "submitting"
               THEN [worker EXCEPT !.pc = "estimate", !.nonce = localNonce]
               ELSE IdleWorker
  /\ NoFault
  /\ UNCHANGED <<chainVars, queueVars, recon>>

\* getNextNonce and patchInStatus(assignedNonce)
AssignNonce ==
  /\ WorkerAt("assign")
  /\ \/ /\ localNonce = NoNonce
        /\ HealThen("reset") /\ NoFault
        /\ UNCHANGED <<row, localNonce>>
     \/ /\ localNonce # NoNonce
        /\ localNonce' = localNonce + 1
        /\ \/ /\ Update(worker.rec, {"submitting"},
                   [row[worker.rec] EXCEPT !.assignedNonce = localNonce, !.age = "fresh"])
              /\ IF row[worker.rec].status = "submitting"
                 THEN worker' = [worker EXCEPT !.pc = "estimate", !.nonce = localNonce]
                 ELSE HealThen("skip")
              /\ NoFault
           \/ Fault("db") /\ HealThen("reset") /\ UNCHANGED row
  /\ UNCHANGED <<chainVars, queueVars, recon>>

EstimateGas ==
  /\ WorkerAt("estimate")
  /\ \/ worker.rec \in notarised /\ HealThen("recover") /\ NoFault
     \/ /\ worker.rec \notin notarised /\ OriginalMissing(worker.rec)
        /\ HealThen("terminal") /\ NoFault
     \/ ~Reverts(worker.rec) /\ Goto("broadcast") /\ NoFault
     \/ Fault("rpc") /\ HealThen("reset")
  /\ UNCHANGED <<chainVars, row, queueVars, localNonce, recon>>

Broadcast ==
  LET tx == <<worker.nonce, worker.rec>>
  IN  /\ WorkerAt("broadcast")
      /\ \/ /\ Send(tx) /\ NoFault
            /\ worker' = [worker EXCEPT !.pc = "sent", !.tx = tx]
         \/ Send(tx) /\ Fault("lost") /\ HealThen("reset")
         \/ ~Accepts(tx) /\ HealThen("reset") /\ NoFault /\ UNCHANGED chainVars
         \/ Fault("rpc") /\ HealThen("reset") /\ UNCHANGED chainVars
      /\ UNCHANGED <<row, queueVars, localNonce, recon>>

\* healLeakedNonce swallows a failed reseed.
HealNonce ==
  /\ WorkerAt("heal")
  /\ \/ localNonce' = PendingCount /\ NoFault
     \/ Fault("reseed") /\ UNCHANGED localNonce
  /\ IF worker.after = "skip" THEN JobDone
     ELSE Goto(worker.after) /\ UNCHANGED submitJobs
  /\ UNCHANGED <<chainVars, row, confirmJobs, confirmSeen, scheduled, recon>>

\* recover: the record is on the chain; look its transaction up in the log.
Recover ==
  /\ WorkerAt("recover")
  /\ \/ /\ worker' = [worker EXCEPT !.pc = "sent", !.tx = FoundTx(worker.rec)]
        /\ NoFault /\ UNCHANGED submitJobs
     \/ Fault("rpc") /\ (StepFails \/ (Goto("reset") /\ UNCHANGED submitJobs))
  /\ UNCHANGED <<chainVars, row, confirmJobs, confirmSeen, scheduled, localNonce, recon>>

\* The result of the transition is not looked at.
RecordTxHash ==
  /\ WorkerAt("sent")
  /\ \/ /\ ToConfirming(worker.rec, worker.tx)
        /\ Goto("enqueue") /\ NoFault /\ UNCHANGED submitJobs
     \/ Fault("db") /\ StepFails /\ UNCHANGED row
  /\ UNCHANGED <<chainVars, confirmJobs, confirmSeen, scheduled, localNonce, recon>>

\* A finished confirm job the queue still retains is not added again.
EnqueueConfirm ==
  LET job == <<worker.rec, worker.tx>>
  IN  /\ WorkerAt("enqueue")
      /\ \/ /\ confirmJobs' = IF job \in confirmSeen THEN confirmJobs
                              ELSE confirmJobs \cup {job}
            /\ confirmSeen' = confirmSeen \cup {job}
            /\ JobDone /\ NoFault
         \/ Fault("redis") /\ StepFails /\ UNCHANGED <<confirmJobs, confirmSeen>>
      /\ UNCHANGED <<chainVars, row, scheduled, localNonce, recon>>

\* resetToPending swallows its own failure; then the job throws.
ResetToPending ==
  /\ WorkerAt("reset")
  /\ \/ Transition(worker.rec, {"submitting"}, "pending") /\ NoFault
     \/ Fault("db") /\ UNCHANGED row
  /\ JobThrows
  /\ UNCHANGED <<chainVars, confirmJobs, confirmSeen, scheduled, localNonce, recon>>

FailTerminally ==
  /\ WorkerAt("terminal")
  /\ \/ Transition(worker.rec, {"submitting"}, "failed") /\ JobDone /\ NoFault
     \/ Fault("db") /\ JobThrows /\ UNCHANGED row
  /\ UNCHANGED <<chainVars, confirmJobs, confirmSeen, scheduled, localNonce, recon>>

\* createServerWallet's background seed, retried until it succeeds.
SeedWallet ==
  /\ localNonce = NoNonce
  /\ localNonce' = PendingCount
  /\ UNCHANGED <<chainVars, row, queueVars, worker, recon, faults>>

(***************************************************************************)
(* The confirm worker.  Receipts and the record's existence are final, so  *)
(* polling, re-reading the contract and the UPDATE are one action.  A node *)
(* whose receipt index lags answers null: then the contract decides.       *)
(***************************************************************************)

ConfirmJobDone(job) ==
  /\ confirmJobs' = confirmJobs \ {job}
  /\ UNCHANGED <<chainVars, submitJobs, confirmSeen, scheduled, worker, localNonce, recon,
                 faults>>

ConfirmVerified(r, tx) ==
  /\ <<r, tx>> \in confirmJobs /\ r \in notarised
  /\ Transition(r, {"confirming"}, "verified")
  /\ ConfirmJobDone(<<r, tx>>)

ConfirmReverted(r, tx) ==
  /\ <<r, tx>> \in confirmJobs /\ tx \in revertedTxs
  /\ Transition(r, {"confirming"}, "failed")
  /\ ConfirmJobDone(<<r, tx>>)

\* All attempts timed out; the reconciler takes over.
ConfirmGivesUp(r, tx) ==
  /\ <<r, tx>> \in confirmJobs
  /\ UNCHANGED row
  /\ ConfirmJobDone(<<r, tx>>)

(***************************************************************************)
(* The reconciler: a round reads the stale in-flight rows, handles each,   *)
(* then does the same with the stale pending rows.  What it decides comes  *)
(* from the row as it was read; what it writes is conditional on the row's *)
(* status when it writes.  A failing row does not end the round.           *)
(***************************************************************************)

IdleRecon == [pc |-> "idle", rec |-> NoRecord, rows |-> <<>>]

StaleIn(statuses) == {r \in Records : row[r].status \in statuses /\ row[r].age # "fresh"}

ReadRows(statuses) == [r \in StaleIn(statuses) |-> row[r]]

Reading == recon.rows[recon.rec]

Handle(r, pc) == recon' = [recon EXCEPT !.pc = pc, !.rec = r]

RowDone(r) ==
  recon' = [recon EXCEPT !.pc = IF @ \in {"pending", "patched"} THEN "pending" ELSE "inflight",
                         !.rec = NoRecord,
                         !.rows = Restrict(@, DOMAIN @ \ {r})]

\* A round with nothing stale would change nothing and is not a step.
ScanInFlight ==
  /\ recon.pc = "idle" /\ scheduled
  /\ StaleIn(InFlight \cup {"pending"}) # {}
  /\ recon' = [IdleRecon EXCEPT !.pc = "inflight", !.rows = ReadRows(InFlight)]
  /\ UNCHANGED <<chainVars, row, queueVars, worker, localNonce, faults>>

ScanPending ==
  /\ recon.pc = "inflight" /\ DOMAIN recon.rows = {}
  /\ recon' = [IdleRecon EXCEPT !.pc = "pending", !.rows = ReadRows({"pending"})]
  /\ UNCHANGED <<chainVars, row, queueVars, worker, localNonce, faults>>

RoundEnds ==
  /\ recon.pc = "pending" /\ DOMAIN recon.rows = {}
  /\ recon' = IdleRecon
  /\ UNCHANGED <<chainVars, row, queueVars, worker, localNonce, faults>>

HasTx(r) == recon.rows[r].status = "confirming" /\ recon.rows[r].txHash # NoTx

\* (b) a confirming row with a txHash: its transaction's status first
CheckTx(r) ==
  LET tx == recon.rows[r].txHash
  IN  /\ recon.pc = "inflight" /\ r \in DOMAIN recon.rows /\ HasTx(r)
      /\ \/ tx \in succeeded /\ RecoverToVerified(r) /\ RowDone(r) /\ NoFault
         \/ tx \in revertedTxs /\ Transition(r, InFlight, "failed") /\ RowDone(r) /\ NoFault
         \/ tx \in mempool /\ RowDone(r) /\ NoFault /\ UNCHANGED row
         \/ /\ tx \notin mempool \cup succeeded \cup revertedTxs
            /\ Handle(r, "exists") /\ NoFault /\ UNCHANGED row
         \/ Fault("rpc") /\ RowDone(r) /\ UNCHANGED row
      /\ UNCHANGED <<chainVars, queueVars, worker, localNonce>>

\* (a) does the contract hold the record?
CheckRecord(r) ==
  /\ \/ recon.pc = "inflight" /\ r \in DOMAIN recon.rows /\ ~HasTx(r)
     \/ recon.pc = "exists" /\ r = recon.rec
  /\ \/ r \in notarised /\ RecoverToVerified(r) /\ RowDone(r) /\ NoFault
     \/ /\ r \notin notarised /\ UNCHANGED row /\ NoFault
        /\ Handle(r, IF recon.rows[r].assignedNonce = NoNonce THEN "reset" ELSE "nonce")
     \/ Fault("rpc") /\ RowDone(r) /\ UNCHANGED row
  /\ UNCHANGED <<chainVars, queueVars, worker, localNonce>>

\* Mutant: nothing is given up.
CheckNonceForEver ==
  /\ recon.pc = "nonce"
  /\ \/ Reading.assignedNonce < latestNonce /\ Handle(recon.rec, "reset") /\ NoFault
     \/ Reading.assignedNonce >= latestNonce /\ RowDone(recon.rec) /\ NoFault
     \/ Fault("rpc") /\ RowDone(recon.rec)
  /\ UNCHANGED <<chainVars, row, queueVars, worker, localNonce>>

\* nonceJudgement against the number of mined transactions
CheckNonce ==
  /\ recon.pc = "nonce"
  /\ \/ Reading.assignedNonce < latestNonce /\ Handle(recon.rec, "reset") /\ NoFault
     \/ /\ Reading.assignedNonce >= latestNonce /\ NoFault
        /\ IF Reading.age = "hard" THEN Handle(recon.rec, "giveup") ELSE RowDone(recon.rec)
     \/ Fault("rpc") /\ RowDone(recon.rec)
  /\ UNCHANGED <<chainVars, row, queueVars, worker, localNonce>>

\* The row is enqueued even if it had left the in-flight statuses.
ResetInFlight ==
  /\ recon.pc = "reset"
  /\ ToPendingAgain(recon.rec, InFlight, Bump(Reading.attemptEpoch))
  /\ Handle(recon.rec, "requeue")
  /\ UNCHANGED <<chainVars, queueVars, worker, localNonce, faults>>

GiveUp ==
  /\ recon.pc = "giveup"
  /\ Transition(recon.rec, InFlight, "failed")
  /\ RowDone(recon.rec)
  /\ UNCHANGED <<chainVars, queueVars, worker, localNonce, faults>>

\* (c) a stale pending row: a fresh attempt epoch, if it is still pending
PatchPending(r) ==
  /\ recon.pc = "pending" /\ r \in DOMAIN recon.rows
  /\ ToPendingAgain(r, {"pending"}, Bump(recon.rows[r].attemptEpoch))
  /\ IF row[r].status = "pending" THEN Handle(r, "patched") ELSE RowDone(r)
  /\ UNCHANGED <<chainVars, queueVars, worker, localNonce, faults>>

Requeue ==
  /\ recon.pc \in {"requeue", "patched"}
  /\ \/ Enqueue(recon.rec, Bump(Reading.attemptEpoch)) /\ NoFault
     \/ Fault("redis") /\ UNCHANGED submitJobs
  /\ RowDone(recon.rec)
  /\ UNCHANGED <<chainVars, row, confirmJobs, confirmSeen, scheduled, worker, localNonce>>

(***************************************************************************)
(* Time, the chain, and faults of the host.                                *)
(***************************************************************************)

\* Rows the submit worker is at go stale only when it is slow.
GrowOld(r) ==
  /\ \/ row[r].age = "fresh" /\ row[r].status \in InFlight \cup {"pending"}
     \/ row[r].age = "stale" /\ row[r].status \in InFlight
  /\ row' = [row EXCEPT ![r].age = IF @ = "fresh" THEN "stale" ELSE "hard"]
  /\ IF worker.rec = r THEN Fault("slow") ELSE NoFault
  /\ UNCHANGED <<chainVars, queueVars, worker, localNonce, recon>>

MineNext ==
  /\ \E tx \in mempool : Mine(tx)
  /\ UNCHANGED <<row, queueVars, worker, localNonce, recon, faults>>

EvictTx ==
  /\ Fault("evict")
  /\ \E tx \in mempool : Evict(tx)
  /\ UNCHANGED <<row, queueVars, worker, localNonce, recon>>

\* The host restarts: locals are lost, the active job is stalled and taken again,
\* and the start registers the reconcile schedule.
Crash ==
  /\ Fault("crash")
  /\ worker' = IdleWorker /\ recon' = IdleRecon /\ localNonce' = NoNonce
  /\ scheduled' = TRUE
  /\ UNCHANGED <<chainVars, row, submitJobs, confirmJobs, confirmSeen>>

\* Every job is lost, the schedule with them.
WipeRedis ==
  /\ Fault("wipe")
  /\ submitJobs' = [job \in Jobs |-> 0] /\ confirmJobs' = {} /\ confirmSeen' = {}
  /\ scheduled' = FALSE
  /\ UNCHANGED <<chainVars, row, worker, localNonce, recon>>

(***************************************************************************)
(* The specification.                                                      *)
(***************************************************************************)

Init ==
  /\ ChainInit
  /\ row = [r \in Records |-> [status |-> "pending", assignedNonce |-> NoNonce,
                               txHash |-> NoTx, attemptEpoch |-> 1, age |-> "fresh"]]
  /\ submitJobs = [job \in Jobs |-> 0]
  /\ confirmJobs = {}
  /\ confirmSeen = {}
  /\ scheduled = TRUE
  /\ worker = IdleWorker
  /\ localNonce = NoNonce
  /\ recon = IdleRecon
  /\ faults = 0

RequestStep(r) ==
  \/ requestSubmission(r)
  \/ handleRetry(r)
  \/ handleVerify(r)
  \/ \E original \in Records : finalizeSupersede(r, original)

WorkerStep ==
  \/ Precheck
  \/ AssignNonce
  \/ EstimateGas
  \/ Broadcast
  \/ HealNonce
  \/ Recover
  \/ RecordTxHash
  \/ EnqueueConfirm
  \/ ResetToPending
  \/ FailTerminally

ConfirmStep ==
  \E job \in confirmJobs :
    \/ ConfirmVerified(job[1], job[2])
    \/ ConfirmReverted(job[1], job[2])
    \/ ConfirmGivesUp(job[1], job[2])

ReconcileStep ==
  \/ ScanInFlight
  \/ ScanPending
  \/ RoundEnds
  \/ \E r \in DOMAIN recon.rows : CheckTx(r) \/ CheckRecord(r) \/ PatchPending(r)
  \/ CheckNonce
  \/ ResetInFlight
  \/ GiveUp
  \/ Requeue

ClaimStep(r) == \E e \in AttemptEpochs : ClaimJob(r, e)

Next ==
  \/ \E r \in Records : RequestStep(r) \/ ClaimStep(r) \/ GrowOld(r)
  \/ WorkerStep
  \/ SeedWallet
  \/ ConfirmStep
  \/ ReconcileStep
  \/ MineNext
  \/ EvictTx
  \/ Crash
  \/ WipeRedis

Spec == Init /\ [][Next]_vars

\* The workers run whenever they can; BullMQ takes jobs in order, so none waits for
\* ever; the reconcile schedule repeats; time passes.  No user call is assumed.
PipelineFairness ==
  /\ WF_vars(WorkerStep)
  /\ WF_vars(SeedWallet)
  /\ WF_vars(ConfirmStep)
  /\ WF_vars(ReconcileStep)
  /\ \A r \in Records : SF_vars(ClaimStep(r)) /\ WF_vars(GrowOld(r))

\* The fairness of the chain: what can be mined is mined.
FairSpec == Spec /\ PipelineFairness /\ WF_vars(MineNext)

(***************************************************************************)
(* Types.                                                                  *)
(***************************************************************************)

RowType ==
  [status: {"pending", "submitting", "confirming", "verified", "failed", "superseded"},
   assignedNonce: Nat \cup {NoNonce}, txHash: Txs \cup {NoTx},
   attemptEpoch: AttemptEpochs, age: Ages]

WorkerType ==
  [pc: {"idle", "precheck", "assign", "estimate", "broadcast", "heal", "recover",
        "sent", "enqueue", "reset", "terminal"},
   rec: Records \cup {NoRecord}, epoch: AttemptEpochs \cup {0},
   nonce: Nat \cup {NoNonce}, tx: Txs \cup {NoTx},
   after: {"none", "reset", "recover", "terminal", "skip"}]

ReconPcs == {"idle", "inflight", "exists", "nonce", "reset", "giveup", "requeue",
             "pending", "patched"}

\* The type invariant.
TypeOK ==
  /\ ChainTypeOK
  /\ row \in [Records -> RowType]
  /\ submitJobs \in [Jobs -> 0..SubmitAttempts]
  /\ confirmJobs \in SUBSET (Records \X Txs) /\ confirmSeen \in SUBSET (Records \X Txs)
  /\ scheduled \in BOOLEAN
  /\ worker \in WorkerType
  /\ localNonce \in Nat \cup {NoNonce}
  /\ recon.pc \in ReconPcs /\ recon.rec \in Records \cup {NoRecord}
  /\ DOMAIN recon.rows \subseteq Records
  /\ \A r \in DOMAIN recon.rows : recon.rows[r] \in RowType
  /\ faults \in 0..MaxFaults

(***************************************************************************)
(* Safety properties.                                                      *)
(***************************************************************************)

Lifecycle == INSTANCE RecordLifecycle WITH
  status       <- [r \in Records |-> row[r].status],
  CorrectionOf <- [r \in Records |-> Ledger[r].original]

\* Workers, reconciler, retries and API calls together implement the life of a
\* record: none of their interleavings shows a record as verified that is not on
\* the chain, takes a verified one back or moves a row along an illegal edge.
LifecycleRefined == Lifecycle!LifecycleSpec

\* Write order 1 of section 5: whatever was sent for a record, its row had an
\* assigned nonce first, so a row without one was never sent and may be reset.
NonceRecordedBeforeSend ==
  \A tx \in mempool \cup succeeded \cup revertedTxs :
    row[RecordOf(tx)].assignedNonce # NoNonce

\* healLeakedNonce: no path takes a nonce and leaves it unused, so every waiting
\* transaction can be mined.
NoNonceGap == NoncesIn(mempool) = latestNonce..(latestNonce + Cardinality(mempool) - 1)

\* What keeps the gap away: a counter at rest is the pending count; a nonce in use
\* is the pending count, and the counter one more.
WalletInStep ==
  LET taken == WorkerAt("estimate") \/ WorkerAt("broadcast")
  IN  /\ NoNonceGap
      /\ taken => worker.nonce = PendingCount /\ localNonce \in {NoNonce, worker.nonce + 1}
      /\ ~taken /\ ~WorkerAt("heal") => localNonce \in {NoNonce, PendingCount}

(***************************************************************************)
(* Liveness.                                                               *)
(***************************************************************************)

Settled(r) == row[r].status \in {"verified", "superseded", "failed"}

\* Every record that is waiting or in flight is eventually verified or failed,
\* whatever crashes, lost answers and failed queue calls happened on the way.
EverySubmissionSettles == \A r \in Records : ~Settled(r) ~> Settled(r)

\* Without a fault every record ends up verified, and none by way of a failure.
FaultFreeVerifies ==
  [](faults = 0) => \A r \in Records : <>(row[r].status \in {"verified", "superseded"})
=============================================================================
