-------------------------------- MODULE Relay --------------------------------
(* From a signature request to the chain: approvers sign, the last signature  *)
(* queues a ChainAction, and the cron ticks submit and confirm it.  A worker  *)
(* is one serverless invocation; any number may overlap, also of one tick.    *)
(* Every write of an action's status is conditional on the status it expects. *)
EXTENDS RelayChain

CONSTANTS
  Signers,        \* approvers' keys
  Required,       \* requiredCount of a signature request
  Workers,        \* invocations running at a time
  FaultKinds,     \* which faults may happen
  MaxFaults,      \* bound on their number
  MaxSent         \* bound on broadcasts

ASSUME SignersAssumption == IsFiniteSet(Signers) /\ Required \in Nat

VARIABLES
  signatures,     \* Signature rows of an action's request
  request,        \* SignatureRequest.status
  action,         \* ChainAction rows, with the hash of the newest ChainTransaction
  worker,
  faults

relayVars == <<signatures, request, action>>

Direct == Calls("enroll")      \* calls signed outside a signature request
NoAction == [status |-> None, signed |-> {}, tx |-> 0]
Idle == [kind |-> None, step |-> None, at |-> None, todo |-> {}, seen |-> {}, from |-> 0, to |-> 0]

At(w, kind, step) == worker[w].kind = kind /\ worker[w].step = step
Goto(w, step) == worker' = [worker EXCEPT ![w].step = step]
Ends(w) == worker' = [worker EXCEPT ![w] = Idle]
Starts(w, x) == worker[w] = Idle /\ worker' = [worker EXCEPT ![w] = x]

\* The next element of a tick's list, or its end.
NextOf(w, element) ==
  LET rest == worker[w].todo \ {element} IN
  worker' = [worker EXCEPT ![w] = IF rest = {} THEN Idle
                                  ELSE [@ EXCEPT !.todo = rest, !.step = "next", !.at = None]]

Fault(kind) ==
  /\ kind \in FaultKinds
  /\ faults < MaxFaults
  /\ faults' = faults + 1

\* Mutant: the update is not conditional.
Blindly(a, from, to) == [action EXCEPT ![a].status = to]

\* A conditional update moves the row only from the status it expects.
Transition(a, from, to) ==
  IF action[a].status = from THEN [action EXCEPT ![a].status = to] ELSE action

-----------------------------------------------------------------------------
(* Signatures *)

StartSign(w) ==
  \E a \in Actions \ (Direct \cup expired), s \in Signers :
    /\ Starts(w, [Idle EXCEPT !.kind = "sign", !.step = "add", !.at = a, !.todo = {s},
                              !.seen = signatures[a]])
    /\ UNCHANGED <<chainVars, relayVars, faults>>

\* Mutant: a repeated signature counts again.
CountedTwice(w) == Cardinality(worker[w].seen) + 1

\* The count is that of the signatures read, and this one if it was not among them.
DistinctCount(w) == Cardinality(worker[w].seen \cup worker[w].todo)

\* The unique key of request and signer.
SignatureUnique(w) == worker[w].todo \cap signatures[worker[w].at] \subseteq worker[w].seen

addSignature(w) ==
  /\ At(w, "sign", "add")
  /\ SignatureUnique(w)
  /\ LET a == worker[w].at IN
     /\ signatures' = [signatures EXCEPT ![a] = @ \cup worker[w].todo]
     /\ IF DistinctCount(w) >= Required
        THEN request' = [request EXCEPT ![a] = "ready"] /\ Goto(w, "ensure")
        ELSE UNCHANGED request /\ Ends(w)
  /\ UNCHANGED <<chainVars, action, faults>>

\* The second of two inserts of one signature fails.
signatureRefused(w) ==
  /\ At(w, "sign", "add")
  /\ ~SignatureUnique(w)
  /\ Ends(w)
  /\ UNCHANGED <<chainVars, relayVars, faults>>

\* POST submit, which an administrator may send at any time; only a mint's deadline is
\* looked at.
Submittable(a) ==
  \/ action[a] # NoAction
  \/ a \in Calls("mint") /\ Cardinality(signatures[a]) >= Required
  \/ a \in Calls("reversal") /\ request[a] = "ready"

StartSubmitRequest(w) ==
  \E a \in Actions \ Direct :
    /\ a \in Calls("mint") => a \notin expired
    /\ Submittable(a)
    /\ Starts(w, [Idle EXCEPT !.kind = "sign", !.step = "ensure", !.at = a])
    /\ UNCHANGED <<chainVars, relayVars, faults>>

\* The call data are the signatures stored by now.  Of two inserts of one record hash
\* the second fails; an action there before is taken as it is.
createChainAction(w) ==
  /\ At(w, "sign", "ensure")
  /\ LET a == worker[w].at IN
     \/ /\ action[a] = NoAction
        /\ action' = [action EXCEPT ![a] = [NoAction EXCEPT !.status = "awaiting_signatures",
                                                            !.signed = signatures[a]]]
        /\ Goto(w, "mark")
     \/ /\ action[a] # NoAction
        /\ Goto(w, "mark") \/ Ends(w)
        /\ UNCHANGED action
  /\ UNCHANGED <<chainVars, signatures, request, faults>>

markReadyToSubmit(w) ==
  /\ At(w, "sign", "mark")
  /\ action' = Transition(worker[w].at, "awaiting_signatures", "ready_to_submit")
  /\ Ends(w)
  /\ UNCHANGED <<chainVars, signatures, request, faults>>

\* An enrolment's signatures come with the call, which queues it at once.
createDirectAction ==
  \E a \in Direct :
    /\ action[a] = NoAction
    /\ action' = [action EXCEPT ![a].status = "ready_to_submit"]
    /\ UNCHANGED <<chainVars, signatures, request, worker, faults>>

-----------------------------------------------------------------------------
(* submitReady *)

StartSubmit(w) ==
  LET ready == {a \in Actions : action[a].status = "ready_to_submit"} IN
  /\ ready # {}
  /\ Starts(w, [Idle EXCEPT !.kind = "submit", !.step = "next", !.todo = ready])
  /\ UNCHANGED <<chainVars, relayVars, faults>>

\* Mutant: the claim does not look at the row it moved.
ClaimUnchecked(w) ==
  \E a \in worker[w].todo :
    /\ At(w, "submit", "next")
    /\ action' = [action EXCEPT ![a].status = "submitting"]
    /\ worker' = [worker EXCEPT ![w].step = "send", ![w].at = a]
    /\ UNCHANGED <<chainVars, signatures, request, faults>>

claim(w) ==
  \E a \in worker[w].todo :
    /\ At(w, "submit", "next")
    /\ action' = Transition(a, "ready_to_submit", "submitting")
    /\ IF action[a].status = "ready_to_submit"
       THEN worker' = [worker EXCEPT ![w].step = "send", ![w].at = a]
       ELSE NextOf(w, a)
    /\ UNCHANGED <<chainVars, signatures, request, faults>>

\* sendTransaction estimates the call's gas, then broadcasts it.
send(w) ==
  /\ At(w, "submit", "send")
  /\ \/ /\ Accepts(worker[w].at)
        /\ Len(sent) < MaxSent
        /\ Send(worker[w].at)
        /\ worker' = [worker EXCEPT ![w].step = "record", ![w].to = Len(sent) + 1]
        /\ UNCHANGED faults
     \/ /\ ~Accepts(worker[w].at)
        /\ Goto(w, "requeue")
        /\ UNCHANGED <<chainVars, faults>>
     \/ Fault("rpc") /\ Goto(w, "requeue") /\ UNCHANGED chainVars
     \/ /\ Accepts(worker[w].at)
        /\ Len(sent) < MaxSent
        /\ Fault("lost") /\ Send(worker[w].at) /\ Goto(w, "requeue")
  /\ UNCHANGED relayVars

recordTransaction(w) ==
  /\ At(w, "submit", "record")
  /\ \/ action' = [action EXCEPT ![worker[w].at].tx = worker[w].to] /\ Goto(w, "submitted") /\ UNCHANGED faults
     \/ Fault("db") /\ Goto(w, "requeue") /\ UNCHANGED action
  /\ UNCHANGED <<chainVars, signatures, request>>

markSubmitted(w) ==
  /\ At(w, "submit", "submitted")
  /\ \/ /\ action' = Transition(worker[w].at, "submitting", "submitted")
        /\ NextOf(w, worker[w].at)
        /\ UNCHANGED faults
     \/ Fault("db") /\ Goto(w, "requeue") /\ UNCHANGED action
  /\ UNCHANGED <<chainVars, signatures, request>>

requeue(w) ==
  /\ At(w, "submit", "requeue")
  /\ action' = Transition(worker[w].at, "submitting", "ready_to_submit")
  /\ NextOf(w, worker[w].at)
  /\ UNCHANGED <<chainVars, signatures, request, faults>>

-----------------------------------------------------------------------------
(* confirmPending *)

StartConfirm(w) ==
  LET pending == {a \in Actions : action[a].status \in {"submitted", "confirming"}} IN
  /\ pending # {}
  /\ Starts(w, [Idle EXCEPT !.kind = "confirm", !.step = "next",
                            !.todo = {[action |-> a, from |-> action[a].status, tx |-> action[a].tx] : a \in pending}])
  /\ UNCHANGED <<chainVars, relayVars, faults>>

\* Mutant: a transaction without a receipt counts as reverted.
RevertedUnlessMined(tx) == tx \in DOMAIN mined => ~mined[tx]

Reverted(tx) == tx \in DOMAIN mined /\ ~mined[tx]

\* A receipt does not change once it is there, so its read joins the update.
checkReceipt(w) ==
  \E row \in worker[w].todo :
    /\ At(w, "confirm", "next")
    /\ action' =
         CASE Reverted(row.tx) -> Transition(row.action, row.from, "reverted")
           [] row.tx \in DOMAIN mined /\ ~Reverted(row.tx) ->
                Transition(row.action, "submitted", "confirming")
           [] OTHER -> action
    /\ NextOf(w, row)
    /\ UNCHANGED <<chainVars, signatures, request, faults>>

\* The platform ends an invocation anywhere.
Killed(w) ==
  /\ worker[w] # Idle
  /\ Fault("kill")
  /\ Ends(w)
  /\ UNCHANGED <<chainVars, relayVars>>

RelayInit ==
  /\ ChainInit
  /\ signatures = [a \in Actions |-> {}]
  /\ request = [a \in Actions |-> "collecting"]
  /\ action = [a \in Actions |-> NoAction]
  /\ worker = [w \in Workers |-> Idle]
  /\ faults = 0
=============================================================================
