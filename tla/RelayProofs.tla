----------------------------- MODULE RelayProofs -----------------------------
(***************************************************************************)
(* Safety of the relay and the indexer, for every set of calls, approvers  *)
(* and invocations and any number of faults.  What an invocation read it   *)
(* may use much later, so the invariant says of every step of every kind   *)
(* of tick what the invocation still knows of the rows and of the chain.   *)
(***************************************************************************)
EXTENDS RelayIndexer, FiniteSums, SequenceTheorems

(***************************************************************************)
(* The invariant.                                                          *)
(***************************************************************************)

\* A row of the list confirmPending read.
Pending == [action : Actions, from : {"submitted", "confirming"}, tx : Nat]

WorkerType ==
  [kind : Kinds \cup {None}, step : Steps \cup {None}, at : Actions \cup {None},
   todo : SUBSET (Signers \cup Actions \cup Pending), seen : SUBSET Signers,
   from : Nat, to : Nat]

\* A transaction index that an action or a list names is none, or is a broadcast of it.
Names(tx, a) == tx # 0 => tx \in DOMAIN sent /\ sent[tx] = a

\* A transaction of the action was mined and reverted.
Failed(a) == \E k \in DOMAIN mined : ~mined[k] /\ sent[k] = a

\* Every event up to block n is applied.
Covered(n) == \A k \in 1 .. n : k \in DOMAIN mined /\ (mined[k] => k \in applied)

Signed(a) == Cardinality(signatures[a]) >= Required

\* What an invocation still knows at each of its steps.
SignKnows(w) ==
  LET x == worker[w] IN
  /\ At(w, "sign", "add") =>
       x.at \in Actions \ Direct /\ x.todo \subseteq Signers /\ x.seen \subseteq signatures[x.at]
  /\ At(w, "sign", "ensure") =>
       x.at \in Actions \ Direct /\ (action[x.at] # NoAction \/ Signed(x.at))
  /\ At(w, "sign", "mark") => x.at \in Actions

SubmitKnows(w) ==
  LET x == worker[w] IN
  /\ x.kind = "submit" => x.todo \subseteq Actions
  /\ x.kind = "submit" /\ x.step # "next" => x.at \in Actions
  /\ At(w, "submit", "record") => x.to \in DOMAIN sent /\ sent[x.to] = x.at

ConfirmKnows(w) ==
  worker[w].kind = "confirm" =>
    \A row \in worker[w].todo : row \in Pending /\ Names(row.tx, row.action)

SyncKnows(w) ==
  LET x == worker[w] IN
  /\ At(w, "sync", "window") => x.from >= 1 /\ Covered(x.from - 1)
  /\ At(w, "sync", "apply") =>
       x.from >= 1 /\ x.from <= x.to /\ x.to <= Len(mined) /\ Covered(x.from - 1)
  /\ At(w, "sync", "advance") => x.to <= Len(mined) /\ Covered(x.to)

Knows(w) == SignKnows(w) /\ SubmitKnows(w) /\ ConfirmKnows(w) /\ SyncKnows(w)

WorkersKnow == worker \in [Workers -> WorkerType] /\ \A w \in Workers : Knows(w)

\* An action in an invocation's hands is being submitted, or its event came first.
HoldersKnow ==
  \A w \in Workers, a \in Actions :
    Holding(w, a) => action[a].status \in {"submitting", "verified"}

\* What the rows say of the chain.
ActionsKnow ==
  \A a \in Actions :
    /\ Names(action[a].tx, a)
    /\ action[a].status \in {"verified", "confirming"} => Executed(a)
    /\ action[a].status = "reverted" => Failed(a)

\* The newest applied mint decides a member's balance row: a later block has a
\* greater ledgerSeq, and no reversal has one at all.
BalanceRow(m) ==
  IF AppliedMints(m) = {} THEN balance[m].seq <= 0
  ELSE \E k \in AppliedMints(m) :
         /\ \A j \in AppliedMints(m) : j <= k
         /\ balance[m] = [amount |-> BalanceAfter(m, k), seq |-> Cardinality(Moves(k))]

ProjectionsKnow ==
  /\ \A k \in applied : k \in DOMAIN mined /\ mined[k]
  /\ Covered(cursor)
  /\ \A m \in Members :
       /\ minted[m] = SumFunction([k \in AppliedMints(m) |-> Call[sent[k]].amount])
       /\ BalanceRow(m)

RelayInv ==
  /\ TypeOK
  /\ WorkersKnow
  /\ HoldersKnow
  /\ ClaimExclusive
  /\ FullySigned
  /\ ActionsKnow
  /\ ProjectionsKnow

(***************************************************************************)
(* What a step does to an invocation.                                      *)
(***************************************************************************)

\* Invocation w becomes x and no other changes.
Becomes(w, x) == worker' = [worker EXCEPT ![w] = x]

LEMMA Became ==
  ASSUME worker \in [Workers -> WorkerType], NEW w \in Workers, NEW x \in WorkerType,
         Becomes(w, x)
  PROVE  /\ worker' \in [Workers -> WorkerType]
         /\ worker'[w] = x
         /\ \A v \in Workers \ {w} : worker'[v] = worker[v]
BY DEF Becomes

\* An idle invocation has the type of one.
LEMMA IdleType == Idle \in WorkerType
BY DEF Idle, WorkerType

\* The ways an invocation goes on.
LEMMA Ended == \A w : Ends(w) <=> Becomes(w, Idle)
BY DEF Ends, Becomes

LEMMA Started ==
  ASSUME worker \in [Workers -> WorkerType], NEW w \in Workers, NEW x, Starts(w, x)
  PROVE  worker[w] = Idle /\ Becomes(w, x)
BY DEF Starts, Becomes

LEMMA Went ==
  ASSUME worker \in [Workers -> WorkerType], NEW w \in Workers, NEW step \in Steps,
         Goto(w, step)
  PROVE  LET x == [worker[w] EXCEPT !.step = step] IN Becomes(w, x) /\ x \in WorkerType
BY DEF Goto, Becomes, WorkerType

LEMMA TookNext ==
  ASSUME worker \in [Workers -> WorkerType], NEW w \in Workers, NEW element,
         NextOf(w, element)
  PROVE  \/ Becomes(w, Idle)
         \/ LET x == [worker[w] EXCEPT !.todo = worker[w].todo \ {element},
                                       !.step = "next", !.at = None]
            IN  Becomes(w, x) /\ x \in WorkerType
BY DEF NextOf, Becomes, WorkerType, Steps

(***************************************************************************)
(* What a step does to the chain.                                          *)
(***************************************************************************)

ChainKept == UNCHANGED <<sent, mined>>
Sent(a) == sent' = Append(sent, a) /\ UNCHANGED mined
Mined == /\ Len(mined) < Len(sent)
         /\ mined' = Append(mined, Accepts(sent[Len(mined) + 1]))
         /\ UNCHANGED sent

LEMMA NextChainStep ==
  ASSUME WorkersKnow, [Next]_vars
  PROVE  ChainKept \/ Mined \/ \E a \in Actions : Sent(a)
<1>1. CASE (Mine \/ Expire) /\ UNCHANGED <<relayVars, worker, faults, projections, cursor>>
  BY <1>1 DEF Mine, Expire, ChainKept, Mined
<1>2. CASE createDirectAction \/ rebuildProjections \/ UNCHANGED vars
  BY <1>2 DEF createDirectAction, rebuildProjections, vars, chainVars, ChainKept
<1>3. ASSUME NEW w \in Workers,
             StartSign(w) \/ StartSubmitRequest(w) \/ StartSubmit(w) \/ StartConfirm(w)
               \/ Killed(w) \/ Syncs(w)
      PROVE  ChainKept
  BY <1>3 DEF StartSign, StartSubmitRequest, StartSubmit, StartConfirm, Killed, Syncs,
     StartSync, readWindow, applyEvent, advanceCursor, chainVars, ChainKept
<1>4. ASSUME NEW w \in Workers,
             addSignature(w) \/ createChainAction(w) \/ markReadyToSubmit(w)
               \/ signatureRefused(w) \/ claim(w) \/ recordTransaction(w) \/ markSubmitted(w)
               \/ requeue(w) \/ checkReceipt(w)
      PROVE  ChainKept
  BY <1>4 DEF addSignature, createChainAction, markReadyToSubmit, signatureRefused, claim,
     recordTransaction, markSubmitted, requeue, checkReceipt, chainVars, ChainKept
<1>5. ASSUME NEW w \in Workers, send(w)
      PROVE  ChainKept \/ \E a \in Actions : Sent(a)
  <2>1. worker[w].at \in Actions
    BY <1>5 DEF WorkersKnow, Knows, SubmitKnows, send, At
  <2> QED
    BY <1>5, <2>1 DEF send, Send, Sent, chainVars, ChainKept
<1> QED
  BY <1>1, <1>2, <1>3, <1>4, <1>5 DEF Next, Works

\* Transactions and blocks are never taken back.
ChainGrew ==
  /\ sent' \in Seq(Actions) /\ mined' \in Seq(BOOLEAN) /\ Len(mined') <= Len(sent')
  /\ Len(sent) <= Len(sent') /\ Len(mined) <= Len(mined')
  /\ \A k \in DOMAIN sent : k \in DOMAIN sent' /\ sent'[k] = sent[k]
  /\ \A k \in DOMAIN mined : k \in DOMAIN mined' /\ mined'[k] = mined[k]

LEMMA Lengths ==
  ASSUME TypeOK
  PROVE  /\ sent \in Seq(Actions) /\ mined \in Seq(BOOLEAN)
         /\ Len(sent) \in Nat /\ DOMAIN sent = 1 .. Len(sent)
         /\ Len(mined) \in Nat /\ DOMAIN mined = 1 .. Len(mined)
         /\ Len(mined) <= Len(sent)
         /\ \A k \in DOMAIN mined : k \in Nat /\ k \in DOMAIN sent /\ mined[k] \in BOOLEAN
         /\ \A k \in DOMAIN sent : sent[k] \in Actions
<1>1. sent \in Seq(Actions) /\ mined \in Seq(BOOLEAN) /\ Len(mined) <= Len(sent)
  BY DEF TypeOK
<1>2. /\ Len(sent) \in Nat /\ DOMAIN sent = 1 .. Len(sent)
      /\ Len(mined) \in Nat /\ DOMAIN mined = 1 .. Len(mined)
  BY <1>1, LenProperties
<1>3. /\ \A k \in DOMAIN mined : mined[k] \in BOOLEAN
      /\ \A k \in DOMAIN sent : sent[k] \in Actions
  BY <1>1, <1>2, ElementOfSeq
<1> QED
  BY <1>1, <1>2, <1>3

LEMMA NextChainGrew ==
  ASSUME TypeOK, WorkersKnow, [Next]_vars
  PROVE  ChainGrew
<1>1. /\ sent \in Seq(Actions) /\ mined \in Seq(BOOLEAN)
      /\ Len(sent) \in Nat /\ DOMAIN sent = 1 .. Len(sent)
      /\ Len(mined) \in Nat /\ DOMAIN mined = 1 .. Len(mined)
      /\ Len(mined) <= Len(sent)
  BY Lengths
<1>2. CASE ChainKept
  BY <1>1, <1>2 DEF ChainKept, ChainGrew
<1>3. CASE \E a \in Actions : Sent(a)
  <2>1. PICK a \in Actions : sent' = Append(sent, a) /\ mined' = mined
    BY <1>3 DEF Sent
  <2>2. /\ sent' \in Seq(Actions) /\ Len(sent') = Len(sent) + 1
        /\ DOMAIN sent' = DOMAIN sent \cup {Len(sent) + 1}
        /\ \A k \in DOMAIN sent : sent'[k] = sent[k]
    BY <1>1, <2>1, AppendProperties, LenProperties
  <2> QED
    BY <1>1, <2>1, <2>2 DEF ChainGrew
<1>4. CASE Mined
  <2>1. Accepts(sent[Len(mined) + 1]) \in BOOLEAN
    BY DEF Accepts
  <2>2. mined' = Append(mined, Accepts(sent[Len(mined) + 1])) /\ sent' = sent
        /\ Len(mined) < Len(sent)
    BY <1>4 DEF Mined
  <2>3. /\ mined' \in Seq(BOOLEAN) /\ Len(mined') = Len(mined) + 1
        /\ DOMAIN mined' = DOMAIN mined \cup {Len(mined) + 1}
        /\ \A k \in DOMAIN mined : mined'[k] = mined[k]
    BY <1>1, <2>1, <2>2, AppendProperties, LenProperties
  <2> QED
    BY <1>1, <2>2, <2>3 DEF ChainGrew
<1> QED
  BY <1>2, <1>3, <1>4, NextChainStep

\* What happened on chain stays so.
LEMMA ChainFactsStay ==
  ASSUME TypeOK, ChainGrew, NEW a \in Actions
  PROVE  /\ Executed(a) => Executed(a)'
         /\ Failed(a) => Failed(a)'
         /\ \A tx : Names(tx, a) => Names(tx, a)'
<1>1. \A k \in DOMAIN mined : /\ k \in DOMAIN mined' /\ mined'[k] = mined[k]
                              /\ sent'[k] = sent[k]
  BY Lengths DEF ChainGrew
<1>2. Executed(a) => Executed(a)'
  BY <1>1 DEF Executed
<1>3. Failed(a) => Failed(a)'
  BY <1>1 DEF Failed
<1>4. \A tx : Names(tx, a) => Names(tx, a)'
  BY DEF ChainGrew, Names
<1> QED
  BY <1>2, <1>3, <1>4

(***************************************************************************)
(* What a step does to the signatures and the requests.                    *)
(***************************************************************************)

SignaturesKept == UNCHANGED <<signatures, request>>

LEMMA NextSignatureStep ==
  ASSUME [Next]_vars
  PROVE  SignaturesKept \/ \E w \in Workers : addSignature(w)
<1>1. CASE (Mine \/ Expire) /\ UNCHANGED <<relayVars, worker, faults, projections, cursor>>
  BY <1>1 DEF relayVars, SignaturesKept
<1>2. CASE createDirectAction \/ rebuildProjections \/ UNCHANGED vars
  BY <1>2 DEF createDirectAction, rebuildProjections, vars, relayVars, SignaturesKept
<1>3. ASSUME NEW w \in Workers,
             StartSign(w) \/ StartSubmitRequest(w) \/ StartSubmit(w) \/ StartConfirm(w)
               \/ Killed(w) \/ Syncs(w)
      PROVE  SignaturesKept
  BY <1>3 DEF StartSign, StartSubmitRequest, StartSubmit, StartConfirm, Killed, Syncs,
     StartSync, readWindow, applyEvent, advanceCursor, relayVars, SignaturesKept
<1>4. ASSUME NEW w \in Workers,
             createChainAction(w) \/ markReadyToSubmit(w) \/ signatureRefused(w)
               \/ claim(w) \/ send(w) \/ recordTransaction(w) \/ markSubmitted(w)
               \/ requeue(w) \/ checkReceipt(w)
      PROVE  SignaturesKept
  BY <1>4 DEF createChainAction, markReadyToSubmit, signatureRefused, claim, send,
     recordTransaction, markSubmitted, requeue, checkReceipt, relayVars, SignaturesKept
<1> QED
  BY <1>1, <1>2, <1>3, <1>4 DEF Next, Works

\* A set of approvers is finite, and a larger one counts at least as many.
LEMMA SignersCount ==
  ASSUME NEW S \in SUBSET Signers, NEW T \in SUBSET S
  PROVE  /\ IsFiniteSet(S) /\ Cardinality(S) \in Nat
         /\ Cardinality(T) >= Required => Cardinality(S) >= Required
<1>1. IsFiniteSet(S)
  BY SignersAssumption, FS_Subset
<1>2. Cardinality(S) \in Nat /\ Cardinality(T) \in Nat /\ Cardinality(T) <= Cardinality(S)
  BY <1>1, FS_CardinalityType, FS_Subset
<1> QED
  BY <1>1, <1>2, SignersAssumption

\* Signatures are only added, and a request becomes ready only with enough of them.
SignaturesGrew ==
  /\ signatures' \in [Actions -> SUBSET Signers]
  /\ request' \in [Actions -> {"collecting", "ready"}]
  /\ \A a \in Actions :
       /\ signatures[a] \subseteq signatures'[a]
       /\ Signed(a) => Signed(a)'
       /\ request'[a] = "ready" => request[a] = "ready" \/ (Signed(a)' /\ a \notin Direct)

LEMMA NextSignaturesGrew ==
  ASSUME TypeOK, WorkersKnow, [Next]_vars
  PROVE  SignaturesGrew
<1>1. /\ signatures \in [Actions -> SUBSET Signers]
      /\ request \in [Actions -> {"collecting", "ready"}]
  BY DEF TypeOK
<1>2. CASE SignaturesKept
  <2>1. signatures' = signatures /\ request' = request
    BY <1>2 DEF SignaturesKept
  <2>2. ASSUME NEW a \in Actions
        PROVE  /\ signatures[a] \subseteq signatures'[a]
               /\ Signed(a) => Signed(a)'
               /\ request'[a] = "ready" => request[a] = "ready" \/ (Signed(a)' /\ a \notin Direct)
    <3>1. signatures[a] \subseteq signatures'[a]
      BY <2>1
    <3>2. Signed(a) => Signed(a)'
      BY <2>1 DEF Signed
    <3>3. request'[a] = "ready" => request[a] = "ready"
      BY <2>1
    <3> QED
      BY <3>1, <3>2, <3>3
  <2> QED
    BY <1>1, <2>1, <2>2, Zenon DEF SignaturesGrew
<1>3. ASSUME NEW w \in Workers, addSignature(w)
      PROVE  SignaturesGrew
  <2>0. PICK a \in Actions \ Direct : a = worker[w].at
    BY <1>3 DEF WorkersKnow, Knows, SignKnows, addSignature
  <2>1. worker[w].todo \subseteq Signers /\ worker[w].seen \subseteq signatures[a]
    BY <1>3, <2>0 DEF WorkersKnow, Knows, SignKnows, addSignature
  <2>2. signatures' = [signatures EXCEPT ![a] = @ \cup worker[w].todo]
    BY <1>3, <2>0 DEF addSignature
  <2>3. \/ request' = request
        \/ request' = [request EXCEPT ![a] = "ready"] /\ DistinctCount(w) >= Required
    BY <1>3, <2>0 DEF addSignature
  <2>4. signatures'[a] = signatures[a] \cup worker[w].todo
    BY <1>1, <2>1, <2>2
  <2>5. DistinctCount(w) >= Required => Signed(a)'
    <3>1. signatures'[a] \in SUBSET Signers
          /\ worker[w].seen \cup worker[w].todo \in SUBSET signatures'[a]
      BY <1>1, <2>1, <2>4
    <3>2. Cardinality(worker[w].seen \cup worker[w].todo) >= Required
            => Cardinality(signatures'[a]) >= Required
      BY <3>1, SignersCount
    <3> QED
      BY <3>2 DEF DistinctCount, Signed
  <2>6. signatures' \in [Actions -> SUBSET Signers]
    BY <1>1, <2>1, <2>2
  <2>7. request' \in [Actions -> {"collecting", "ready"}]
    BY <1>1, <2>1, <2>3
  <2>8. ASSUME NEW b \in Actions
        PROVE  /\ signatures[b] \subseteq signatures'[b]
               /\ Signed(b) => Signed(b)'
               /\ request'[b] = "ready" => request[b] = "ready" \/ (Signed(b)' /\ b \notin Direct)
    <3>1. signatures[b] \subseteq signatures'[b]
      BY <1>1, <2>1, <2>2
    <3>2. Signed(b) => Signed(b)'
      BY <2>6, <3>1, SignersCount DEF Signed
    <3>3. request'[b] = "ready" => request[b] = "ready" \/ (Signed(b)' /\ b \notin Direct)
      <4>1. CASE b = a
        <5>1. request'[a] = "ready" => request[a] = "ready" \/ Signed(a)'
          BY <2>3, <2>5
        <5> QED
          BY <4>1, <5>1, <2>0
      <4>2. CASE b # a
        <5>1. request'[b] = request[b]
          BY <1>1, <2>3, <4>2
        <5> QED
          BY <5>1
      <4> QED
        BY <4>1, <4>2
    <3> QED
      BY <3>1, <3>2, <3>3
  <2> QED
    BY <2>6, <2>7, <2>8 DEF SignaturesGrew
<1> QED
  BY <1>2, <1>3, NextSignatureStep

(***************************************************************************)
(* What a step does to the action rows.                                    *)
(***************************************************************************)

\* The row of action a becomes x and no other changes.
Sets(a, x) == action' = [action EXCEPT ![a] = x]

\* The status of a row that is there and not settled moves, to what the chain justifies;
\* only the tick that claimed it, or its event, takes it from submitting.
Justified(a, to) ==
  /\ action[a].status \notin {None, "verified", "reverted"}
  /\ to \in {"verified", "confirming"} => Executed(a)
  /\ to = "reverted" => Failed(a)
  /\ action[a].status = "submitting" /\ to # "verified"
       => \E w \in Workers : Holding(w, a) /\ worker'[w].at = None

Created(a) ==
  /\ action[a] = NoAction
  /\ \E x \in [status : {"awaiting_signatures", "ready_to_submit"}, signed : SUBSET Signers,
               tx : {0}] :
       /\ Sets(a, x)
       /\ a \notin Direct => Cardinality(x.signed) >= Required

Moved(a) ==
  \E to \in Statuses : Sets(a, [action[a] EXCEPT !.status = to]) /\ Justified(a, to)

Recorded(a) ==
  /\ action[a].status # None
  /\ \E tx \in DOMAIN sent :
       Sets(a, [action[a] EXCEPT !.tx = tx]) /\ sent[tx] = a

ActionStep ==
  \/ action' = action
  \/ \E a \in Actions : Created(a) \/ Moved(a) \/ Recorded(a)

LEMMA Transitioned ==
  ASSUME NEW a, NEW from, NEW to, action' = Transition(a, from, to)
  PROVE  \/ action' = action
         \/ action[a].status = from /\ Sets(a, [action[a] EXCEPT !.status = to])
BY DEF Transition, Sets

\* None is no status, so these are different.
LEMMA NoneDiffers ==
  /\ None \notin Statuses /\ None \notin Actions /\ None \notin Steps /\ None \notin Kinds
BY NoneAssumption

LEMMA SignActionStep ==
  ASSUME TypeOK, WorkersKnow, NEW w \in Workers,
         createChainAction(w) \/ markReadyToSubmit(w)
  PROVE  ActionStep
<1>1. CASE createChainAction(w)
  <2>1. PICK a \in Actions \ Direct : a = worker[w].at
    BY <1>1 DEF WorkersKnow, Knows, SignKnows, createChainAction
  <2>2. action[a] # NoAction \/ Signed(a)
    BY <1>1, <2>1 DEF WorkersKnow, Knows, SignKnows, createChainAction
  <2>3. CASE action[a] = NoAction
    <3> DEFINE x == [NoAction EXCEPT !.status = "awaiting_signatures", !.signed = signatures[a]]
    <3>1. Sets(a, x)
      BY <1>1, <2>1, <2>3 DEF createChainAction, Sets
    <3>2. signatures[a] \in SUBSET Signers
      BY <2>1 DEF TypeOK
    <3>3. x \in [status : {"awaiting_signatures", "ready_to_submit"}, signed : SUBSET Signers,
                 tx : {0}] /\ x.signed = signatures[a]
      BY <3>2 DEF NoAction
    <3>4. Cardinality(x.signed) >= Required
      BY <2>2, <2>3, <3>3 DEF Signed
    <3> HIDE DEF x
    <3>6. Created(a)
      BY <2>3, <3>1, <3>3, <3>4 DEF Created
    <3> QED
      BY <2>1, <3>6 DEF ActionStep
  <2>4. CASE action[a] # NoAction
    BY <1>1, <2>1, <2>4 DEF createChainAction, ActionStep
  <2> QED
    BY <2>3, <2>4
<1>2. CASE markReadyToSubmit(w)
  <2>1. PICK a \in Actions : a = worker[w].at
    BY <1>2 DEF WorkersKnow, Knows, SignKnows, markReadyToSubmit
  <2>2. action' = Transition(a, "awaiting_signatures", "ready_to_submit")
    BY <1>2, <2>1 DEF markReadyToSubmit
  <2>3. \/ action' = action
        \/ /\ action[a].status = "awaiting_signatures"
           /\ Sets(a, [action[a] EXCEPT !.status = "ready_to_submit"])
    BY <2>2, Transitioned
  <2> QED
    BY <2>1, <2>3, NoneDiffers DEF ActionStep, Moved, Justified, Statuses
<1> QED
  BY <1>1, <1>2

LEMMA SubmitActionStep ==
  ASSUME TypeOK, WorkersKnow, HoldersKnow, NEW w \in Workers,
         claim(w) \/ recordTransaction(w) \/ markSubmitted(w) \/ requeue(w)
  PROVE  ActionStep
<1>1. CASE claim(w)
  <2>1. PICK a \in worker[w].todo : /\ At(w, "submit", "next")
                                    /\ action' = Transition(a, "ready_to_submit", "submitting")
    BY <1>1 DEF claim
  <2>2. a \in Actions
    BY <2>1 DEF WorkersKnow, Knows, SubmitKnows, At
  <2>3. \/ action' = action
        \/ /\ action[a].status = "ready_to_submit"
           /\ Sets(a, [action[a] EXCEPT !.status = "submitting"])
    BY <2>1, Transitioned
  <2> QED
    BY <2>2, <2>3, NoneDiffers DEF ActionStep, Moved, Justified, Statuses
<1>2. CASE recordTransaction(w)
  <2>1. PICK a \in Actions : a = worker[w].at
    BY <1>2 DEF WorkersKnow, Knows, SubmitKnows, recordTransaction, At
  <2>2. worker[w].to \in DOMAIN sent /\ sent[worker[w].to] = a
    BY <1>2, <2>1 DEF WorkersKnow, Knows, SubmitKnows, recordTransaction
  <2>3. action[a].status # None
    BY <1>2, <2>1, NoneDiffers DEF HoldersKnow, Holding, recordTransaction, At, Statuses
  <2>4. action' = action \/ Sets(a, [action[a] EXCEPT !.tx = worker[w].to])
    BY <1>2, <2>1 DEF recordTransaction, Sets
  <2> QED
    BY <2>1, <2>2, <2>3, <2>4 DEF ActionStep, Recorded
<1>3. CASE markSubmitted(w) \/ requeue(w)
  <2>1. PICK a \in Actions : a = worker[w].at
    BY <1>3 DEF WorkersKnow, Knows, SubmitKnows, markSubmitted, requeue, At
  <2>2. Holding(w, a)
    BY <1>3, <2>1 DEF Holding, markSubmitted, requeue, At
  <2>3. \/ action' = action
        \/ /\ \/ action' = Transition(a, "submitting", "submitted")
              \/ action' = Transition(a, "submitting", "ready_to_submit")
           /\ NextOf(w, a)
    BY <1>3, <2>1 DEF markSubmitted, requeue
  <2>4. NextOf(w, a) => worker'[w].at = None
    BY DEF NextOf, Idle, WorkersKnow, WorkerType
  <2>5. \/ action' = action
        \/ /\ action[a].status = "submitting"
           /\ worker'[w].at = None
           /\ \/ Sets(a, [action[a] EXCEPT !.status = "submitted"])
              \/ Sets(a, [action[a] EXCEPT !.status = "ready_to_submit"])
    BY <2>3, <2>4, Transitioned
  <2> QED
    BY <2>1, <2>2, <2>5, NoneDiffers DEF ActionStep, Moved, Justified, Statuses
<1> QED
  BY <1>1, <1>2, <1>3

LEMMA ConfirmActionStep ==
  ASSUME TypeOK, WorkersKnow, NEW w \in Workers, checkReceipt(w)
  PROVE  ActionStep
<1>1. PICK row \in worker[w].todo :
        /\ At(w, "confirm", "next")
        /\ action' =
             CASE Reverted(row.tx) -> Transition(row.action, row.from, "reverted")
               [] row.tx \in DOMAIN mined /\ ~Reverted(row.tx) ->
                    Transition(row.action, "submitted", "confirming")
               [] OTHER -> action
  BY DEF checkReceipt
<1>2. row \in Pending /\ Names(row.tx, row.action)
  BY <1>1 DEF WorkersKnow, Knows, ConfirmKnows, At
<1>3. row.action \in Actions /\ row.from \in {"submitted", "confirming"}
  BY <1>2 DEF Pending
<1>4. row.tx \in DOMAIN mined => row.tx \in DOMAIN mined /\ sent[row.tx] = row.action
  BY <1>2, Lengths DEF Names
<1>5. CASE Reverted(row.tx)
  <2>1. Failed(row.action)
    BY <1>4, <1>5 DEF Reverted, Failed
  <2>2. \/ action' = action
        \/ /\ action[row.action].status = row.from
           /\ Sets(row.action, [action[row.action] EXCEPT !.status = "reverted"])
    BY <1>1, <1>5, Transitioned
  <2> QED
    BY <1>3, <2>1, <2>2, NoneDiffers DEF ActionStep, Moved, Justified, Statuses
<1>6. CASE row.tx \in DOMAIN mined /\ ~Reverted(row.tx)
  <2>1. Executed(row.action)
    BY <1>4, <1>6 DEF Reverted, Executed
  <2>2. \/ action' = action
        \/ /\ action[row.action].status = "submitted"
           /\ Sets(row.action, [action[row.action] EXCEPT !.status = "confirming"])
    BY <1>1, <1>6, Transitioned
  <2> QED
    BY <1>3, <2>1, <2>2, NoneDiffers DEF ActionStep, Moved, Justified, Statuses
<1>7. CASE ~Reverted(row.tx) /\ row.tx \notin DOMAIN mined
  BY <1>1, <1>7 DEF ActionStep
<1> QED
  BY <1>5, <1>6, <1>7

LEMMA SyncActionStep ==
  ASSUME TypeOK, WorkersKnow, NEW w \in Workers, applyEvent(w)
  PROVE  ActionStep
<1> DEFINE k == worker[w].from
<1>1. action' = action \/ (Unapplied(k) /\ applyBalanceEvent(k))
  BY DEF applyEvent
<1>2. k \in DOMAIN mined
  BY Lengths DEF WorkersKnow, Knows, SyncKnows, applyEvent, WorkerType
<1> HIDE DEF k
<1>3. ASSUME Unapplied(k), applyBalanceEvent(k)
      PROVE  ActionStep
  <2>1. PICK a \in Actions : a = sent[k]
    BY <1>2, Lengths
  <2>2. Executed(a)
    BY <1>2, <1>3, <2>1 DEF Executed, Unapplied
  <2>3. \/ action' = action
        \/ Unsettled(a) /\ Sets(a, [action[a] EXCEPT !.status = "verified"])
    BY <1>3, <2>1 DEF applyBalanceEvent, Sets
  <2> QED
    BY <2>1, <2>2, <2>3 DEF ActionStep, Moved, Justified, Statuses, Unsettled
<1> QED
  BY <1>1, <1>3 DEF ActionStep

LEMMA NextActionStep ==
  ASSUME TypeOK, WorkersKnow, HoldersKnow, [Next]_vars
  PROVE  ActionStep
<1>1. CASE (Mine \/ Expire) /\ UNCHANGED <<relayVars, worker, faults, projections, cursor>>
  BY <1>1 DEF relayVars, ActionStep
<1>2. CASE rebuildProjections \/ UNCHANGED vars
  BY <1>2 DEF rebuildProjections, vars, relayVars, ActionStep
<1>3. CASE createDirectAction
  <2>1. PICK a \in Direct : action[a] = NoAction /\ action' = [action EXCEPT ![a].status = "ready_to_submit"]
    BY <1>3 DEF createDirectAction
  <2> DEFINE x == [NoAction EXCEPT !.status = "ready_to_submit"]
  <2>2. Sets(a, x) /\ x \in [status : {"awaiting_signatures", "ready_to_submit"},
                             signed : SUBSET Signers, tx : {0}]
    BY <2>1 DEF Sets, NoAction
  <2> HIDE DEF x
  <2>3. a \in Actions
    BY DEF Direct, Calls
  <2>4. Created(a)
    BY <2>1, <2>2 DEF Created
  <2> QED
    BY <2>3, <2>4 DEF ActionStep
<1>4. ASSUME NEW w \in Workers,
             StartSign(w) \/ StartSubmitRequest(w) \/ StartSubmit(w) \/ StartConfirm(w)
               \/ Killed(w) \/ StartSync(w) \/ readWindow(w) \/ advanceCursor(w)
               \/ addSignature(w) \/ signatureRefused(w) \/ send(w)
      PROVE  ActionStep
  BY <1>4 DEF StartSign, StartSubmitRequest, StartSubmit, StartConfirm, Killed, StartSync,
     readWindow, advanceCursor, addSignature, signatureRefused, send, relayVars, ActionStep
<1> QED
  BY <1>1, <1>2, <1>3, <1>4, SignActionStep, SubmitActionStep, ConfirmActionStep, SyncActionStep
     DEF Next, Works, Syncs

(***************************************************************************)
(* What a step does to the invocation that takes it.                       *)
(***************************************************************************)

Claimed(a) == action[a].status = "ready_to_submit" /\ action'[a].status = "submitting"

\* Invocation w goes on, knows what its next step needs, and has an action in its hands
\* only if it had it before or claimed it now.
WorkerStep(w) ==
  /\ \E x \in WorkerType : Becomes(w, x)
  /\ Knows(w)'
  /\ \A a \in Actions : Holding(w, a)' => Holding(w, a) \/ Claimed(a)

LEMMA IdleStep ==
  ASSUME WorkersKnow, NEW w \in Workers, Becomes(w, Idle)
  PROVE  WorkerStep(w)
<1>1. worker'[w] = Idle
  BY IdleType, Became DEF WorkersKnow
<1>2. worker'[w].kind = None
  BY <1>1 DEF Idle
<1>3. Knows(w)'
  BY <1>2, NoneDiffers DEF Knows, SignKnows, SubmitKnows, ConfirmKnows, SyncKnows, At, Kinds
<1>4. \A a \in Actions : ~Holding(w, a)'
  BY <1>2, NoneDiffers DEF Holding, Kinds
<1> QED
  BY <1>3, <1>4, IdleType DEF WorkerStep

\* A tick of one kind needs to know only what its own steps need.
LEMMA KindKnows ==
  ASSUME NEW w \in Workers
  PROVE  /\ worker'[w].kind = "sign" /\ SignKnows(w)' => Knows(w)'
         /\ worker'[w].kind = "submit" /\ SubmitKnows(w)' => Knows(w)'
         /\ worker'[w].kind = "confirm" /\ ConfirmKnows(w)' => Knows(w)'
         /\ worker'[w].kind = "sync" /\ SyncKnows(w)' => Knows(w)'
BY DEF Knows, SignKnows, SubmitKnows, ConfirmKnows, SyncKnows, At

LEMMA StartSignStep ==
  ASSUME TypeOK, WorkersKnow, NEW w \in Workers, StartSign(w)
  PROVE  WorkerStep(w)
<1>1. PICK a \in Actions \ (Direct \cup expired), s \in Signers :
        /\ Starts(w, [Idle EXCEPT !.kind = "sign", !.step = "add", !.at = a, !.todo = {s},
                                  !.seen = signatures[a]])
        /\ UNCHANGED relayVars
  BY DEF StartSign
<1> DEFINE x == [Idle EXCEPT !.kind = "sign", !.step = "add", !.at = a, !.todo = {s},
                             !.seen = signatures[a]]
<1>2. signatures[a] \in SUBSET Signers /\ signatures' = signatures
  BY <1>1 DEF TypeOK, relayVars
<1>3. /\ x \in WorkerType /\ x.kind = "sign" /\ x.step = "add" /\ x.at = a /\ x.todo = {s}
      /\ x.seen = signatures[a]
  BY <1>2 DEF Idle, WorkerType, Kinds, Steps
<1>4. Becomes(w, x)
  BY <1>1 DEF Starts, Becomes
<1> HIDE DEF x
<1>5. worker'[w] = x
  BY <1>3, <1>4, Became DEF WorkersKnow
<1>6. SignKnows(w)'
  BY <1>2, <1>3, <1>5 DEF SignKnows, At
<1>7. \A b \in Actions : ~Holding(w, b)'
  BY <1>3, <1>5 DEF Holding
<1> QED
  BY <1>3, <1>4, <1>5, <1>6, <1>7, KindKnows DEF WorkerStep

LEMMA StartSubmitRequestStep ==
  ASSUME TypeOK, WorkersKnow, FullySigned, NEW w \in Workers, StartSubmitRequest(w)
  PROVE  WorkerStep(w)
<1>1. PICK a \in Actions \ Direct :
        /\ Submittable(a)
        /\ Starts(w, [Idle EXCEPT !.kind = "sign", !.step = "ensure", !.at = a])
        /\ UNCHANGED relayVars
  BY DEF StartSubmitRequest
<1> DEFINE x == [Idle EXCEPT !.kind = "sign", !.step = "ensure", !.at = a]
<1>2. signatures' = signatures /\ action' = action
  BY <1>1 DEF relayVars
<1>3. x \in WorkerType /\ x.kind = "sign" /\ x.step = "ensure" /\ x.at = a
  BY DEF Idle, WorkerType, Kinds, Steps
<1>4. Becomes(w, x)
  BY <1>1 DEF Starts, Becomes
<1> HIDE DEF x
<1>5. worker'[w] = x
  BY <1>3, <1>4, Became DEF WorkersKnow
<1>6. action[a] # NoAction \/ Cardinality(signatures[a]) >= Required
  BY <1>1 DEF Submittable, FullySigned
<1>7. SignKnows(w)'
  BY <1>2, <1>3, <1>5, <1>6 DEF SignKnows, At, Signed
<1>8. \A b \in Actions : ~Holding(w, b)'
  BY <1>3, <1>5 DEF Holding
<1> QED
  BY <1>3, <1>4, <1>5, <1>7, <1>8, KindKnows DEF WorkerStep

LEMMA AddSignatureStep ==
  ASSUME TypeOK, WorkersKnow, SignaturesGrew, NEW w \in Workers, addSignature(w)
  PROVE  WorkerStep(w)
<1>1. PICK a \in Actions \ Direct : a = worker[w].at
  BY DEF WorkersKnow, Knows, SignKnows, addSignature
<1>2. worker[w].kind = "sign" /\ worker[w].seen \subseteq signatures[a] /\ worker[w].todo \subseteq Signers
  BY <1>1 DEF WorkersKnow, Knows, SignKnows, addSignature, At
<1>3. CASE DistinctCount(w) >= Required /\ Goto(w, "ensure")
  <2> DEFINE x == [worker[w] EXCEPT !.step = "ensure"]
  <2>1. Becomes(w, x) /\ x \in WorkerType
    BY <1>3, Went DEF WorkersKnow, Steps
  <2>2. x.kind = "sign" /\ x.step = "ensure" /\ x.at = a
    BY <1>1, <1>2 DEF WorkersKnow, WorkerType
  <2> HIDE DEF x
  <2>3. worker'[w] = x
    BY <2>1, Became DEF WorkersKnow
  <2>4. signatures' = [signatures EXCEPT ![a] = @ \cup worker[w].todo]
    BY <1>1 DEF addSignature
  <2>5. signatures'[a] = signatures[a] \cup worker[w].todo /\ signatures'[a] \in SUBSET Signers
    BY <1>1, <1>2, <2>4 DEF TypeOK
  <2>6. worker[w].seen \cup worker[w].todo \in SUBSET signatures'[a]
    BY <1>2, <2>5
  <2>7. Cardinality(signatures'[a]) >= Required
    BY <1>3, <2>5, <2>6, SignersCount DEF DistinctCount
  <2>8. SignKnows(w)'
    BY <2>2, <2>3, <2>7 DEF SignKnows, At, Signed
  <2>9. \A b \in Actions : ~Holding(w, b)'
    BY <2>2, <2>3 DEF Holding
  <2> QED
    BY <2>1, <2>2, <2>3, <2>8, <2>9, KindKnows DEF WorkerStep
<1>4. CASE Ends(w)
  BY <1>4, Ended, IdleStep
<1> QED
  BY <1>3, <1>4 DEF addSignature

LEMMA CreateChainActionStep ==
  ASSUME TypeOK, WorkersKnow, NEW w \in Workers, createChainAction(w)
  PROVE  WorkerStep(w)
<1>1. worker[w].kind = "sign" /\ worker[w].at \in Actions
  BY DEF WorkersKnow, Knows, SignKnows, createChainAction, At
<1>2. CASE Goto(w, "mark")
  <2> DEFINE x == [worker[w] EXCEPT !.step = "mark"]
  <2>1. Becomes(w, x) /\ x \in WorkerType
    BY <1>2, Went DEF WorkersKnow, Steps
  <2>2. x.kind = "sign" /\ x.step = "mark" /\ x.at = worker[w].at
    BY <1>1 DEF WorkersKnow, WorkerType
  <2> HIDE DEF x
  <2>3. worker'[w] = x
    BY <2>1, Became DEF WorkersKnow
  <2>4. SignKnows(w)'
    BY <1>1, <2>2, <2>3 DEF SignKnows, At
  <2>5. \A b \in Actions : ~Holding(w, b)'
    BY <2>2, <2>3 DEF Holding
  <2> QED
    BY <2>1, <2>2, <2>3, <2>4, <2>5, KindKnows DEF WorkerStep
<1>3. CASE Ends(w)
  BY <1>3, Ended, IdleStep
<1> QED
  BY <1>2, <1>3 DEF createChainAction

LEMMA StartSubmitStep ==
  ASSUME TypeOK, WorkersKnow, NEW w \in Workers, StartSubmit(w)
  PROVE  WorkerStep(w)
<1> DEFINE ready == {a \in Actions : action[a].status = "ready_to_submit"}
           x == [Idle EXCEPT !.kind = "submit", !.step = "next", !.todo = ready]
<1>1. x \in WorkerType /\ x.kind = "submit" /\ x.step = "next" /\ x.at = None /\ x.todo \subseteq Actions
  BY DEF Idle, WorkerType, Kinds, Steps
<1>2. Becomes(w, x)
  BY DEF StartSubmit, Starts, Becomes
<1> HIDE DEF x
<1>3. worker'[w] = x
  BY <1>1, <1>2, Became DEF WorkersKnow
<1>4. SubmitKnows(w)'
  BY <1>1, <1>3 DEF SubmitKnows, At
<1>5. \A b \in Actions : ~Holding(w, b)'
  BY <1>1, <1>3, NoneDiffers DEF Holding
<1> QED
  BY <1>1, <1>2, <1>3, <1>4, <1>5, KindKnows DEF WorkerStep

\* A submit tick that leaves an action has none in its hands.
LEMMA NextSubmitStep ==
  ASSUME WorkersKnow, NEW w \in Workers, worker[w].kind = "submit", NEW element,
         NextOf(w, element)
  PROVE  WorkerStep(w)
<1> DEFINE x == [worker[w] EXCEPT !.todo = worker[w].todo \ {element}, !.step = "next",
                                  !.at = None]
<1>1. CASE Becomes(w, Idle)
  BY <1>1, IdleStep
<1>2. CASE Becomes(w, x) /\ x \in WorkerType
  <2>1. x.kind = "submit" /\ x.step = "next" /\ x.at = None /\ x.todo \subseteq Actions
    BY DEF WorkersKnow, WorkerType, Knows, SubmitKnows
  <2> HIDE DEF x
  <2>2. worker'[w] = x
    BY <1>2, Became DEF WorkersKnow
  <2>3. SubmitKnows(w)'
    BY <2>1, <2>2 DEF SubmitKnows, At
  <2>4. \A b \in Actions : ~Holding(w, b)'
    BY <2>1, <2>2, NoneDiffers DEF Holding
  <2> QED
    BY <1>2, <2>1, <2>2, <2>3, <2>4, KindKnows DEF WorkerStep
<1> QED
  BY <1>1, <1>2, TookNext DEF WorkersKnow

LEMMA ClaimStep ==
  ASSUME TypeOK, WorkersKnow, NEW w \in Workers, claim(w)
  PROVE  WorkerStep(w)
<1>1. PICK a \in worker[w].todo :
        /\ At(w, "submit", "next")
        /\ action' = Transition(a, "ready_to_submit", "submitting")
        /\ IF action[a].status = "ready_to_submit"
           THEN worker' = [worker EXCEPT ![w].step = "send", ![w].at = a]
           ELSE NextOf(w, a)
  BY DEF claim
<1>2. a \in Actions /\ worker[w].kind = "submit" /\ worker[w].todo \subseteq Actions
  BY <1>1 DEF WorkersKnow, Knows, SubmitKnows, At
<1>3. CASE action[a].status = "ready_to_submit"
  <2> DEFINE x == [worker[w] EXCEPT !.step = "send", !.at = a]
  <2>1. Becomes(w, x)
    BY <1>1, <1>3 DEF Becomes, WorkersKnow
  <2>2. /\ x \in WorkerType /\ x.kind = "submit" /\ x.step = "send" /\ x.at = a
        /\ x.todo = worker[w].todo
    BY <1>2 DEF WorkersKnow, WorkerType, Steps
  <2> HIDE DEF x
  <2>3. worker'[w] = x
    BY <2>1, <2>2, Became DEF WorkersKnow
  <2>4. SubmitKnows(w)'
    BY <1>2, <2>2, <2>3 DEF SubmitKnows, At
  <2>5. action'[a].status = "submitting"
    BY <1>1, <1>2, <1>3 DEF Transition, TypeOK
  <2>6. \A b \in Actions : Holding(w, b)' => b = a
    BY <2>2, <2>3 DEF Holding
  <2>7. Claimed(a)
    BY <1>3, <2>5 DEF Claimed
  <2> QED
    BY <2>1, <2>2, <2>3, <2>4, <2>6, <2>7, KindKnows DEF WorkerStep
<1>4. CASE action[a].status # "ready_to_submit"
  BY <1>1, <1>2, <1>4, NextSubmitStep
<1> QED
  BY <1>3, <1>4

\* A submit tick that goes on with the action in its hands.
LEMMA OnwardSubmitStep ==
  ASSUME WorkersKnow, NEW w \in Workers, worker[w].kind = "submit", worker[w].step # "next",
         NEW step \in {"send", "submitted", "requeue"}, Goto(w, step)
  PROVE  WorkerStep(w)
<1> DEFINE x == [worker[w] EXCEPT !.step = step]
<1>1. Becomes(w, x) /\ x \in WorkerType
  BY Went DEF WorkersKnow, Steps
<1>2. x.kind = "submit" /\ x.step = step /\ x.at = worker[w].at /\ x.todo = worker[w].todo
  BY DEF WorkersKnow, WorkerType
<1> HIDE DEF x
<1>3. worker'[w] = x
  BY <1>1, Became DEF WorkersKnow
<1>4. worker[w].at \in Actions /\ worker[w].todo \subseteq Actions
  BY DEF WorkersKnow, Knows, SubmitKnows
<1>5. SubmitKnows(w)'
  BY <1>2, <1>3, <1>4 DEF SubmitKnows, At
<1>6. \A b \in Actions : Holding(w, b)' => Holding(w, b)
  BY <1>2, <1>3 DEF Holding
<1> QED
  BY <1>1, <1>2, <1>3, <1>5, <1>6, KindKnows DEF WorkerStep

LEMMA SendStep ==
  ASSUME TypeOK, WorkersKnow, NEW w \in Workers, send(w)
  PROVE  WorkerStep(w)
<1>1. worker[w].kind = "submit" /\ worker[w].step = "send"
  BY DEF send, At
<1>2. worker[w].at \in Actions /\ worker[w].todo \subseteq Actions
  BY <1>1 DEF WorkersKnow, Knows, SubmitKnows
<1>3. CASE Goto(w, "requeue")
  BY <1>1, <1>3, OnwardSubmitStep
<1>4. CASE /\ Send(worker[w].at)
           /\ worker' = [worker EXCEPT ![w].step = "record", ![w].to = Len(sent) + 1]
  <2> DEFINE x == [worker[w] EXCEPT !.step = "record", !.to = Len(sent) + 1]
  <2>1. sent \in Seq(Actions) /\ Len(sent) \in Nat
    BY Lengths
  <2>2. Becomes(w, x)
    BY <1>4 DEF Becomes, WorkersKnow
  <2>3. /\ x \in WorkerType /\ x.kind = "submit" /\ x.step = "record" /\ x.at = worker[w].at
        /\ x.todo = worker[w].todo /\ x.to = Len(sent) + 1
    <3>1. worker[w] \in WorkerType /\ Len(sent) + 1 \in Nat
      BY <2>1 DEF WorkersKnow
    <3> HIDE DEF x
    <3>2. \A n \in Nat : LET y == [worker[w] EXCEPT !.step = "record", !.to = n] IN
             /\ y \in WorkerType /\ y.kind = "submit" /\ y.step = "record"
             /\ y.at = worker[w].at /\ y.todo = worker[w].todo /\ y.to = n
      BY <1>1, <3>1 DEF WorkerType, Steps
    <3> QED
      BY <3>1, <3>2 DEF x
  <2> HIDE DEF x
  <2>4. worker'[w] = x
    BY <2>2, <2>3, Became DEF WorkersKnow
  <2>5. Len(sent) + 1 \in DOMAIN sent' /\ sent'[Len(sent) + 1] = worker[w].at
    BY <1>2, <1>4, <2>1, AppendProperties, LenProperties DEF Send
  <2>6. SubmitKnows(w)'
    BY <1>2, <2>3, <2>4, <2>5 DEF SubmitKnows, At
  <2>7. \A b \in Actions : Holding(w, b)' => Holding(w, b)
    BY <1>1, <2>3, <2>4 DEF Holding
  <2> QED
    BY <2>2, <2>3, <2>4, <2>6, <2>7, KindKnows DEF WorkerStep
<1> QED
  BY <1>3, <1>4 DEF send

LEMMA RecordingStep ==
  ASSUME WorkersKnow, NEW w \in Workers,
         recordTransaction(w) \/ markSubmitted(w) \/ requeue(w)
  PROVE  WorkerStep(w)
<1>1. worker[w].kind = "submit" /\ worker[w].step \in {"record", "submitted", "requeue"}
  BY DEF recordTransaction, markSubmitted, requeue, At
<1>2. \/ \E step \in {"send", "submitted", "requeue"} : Goto(w, step)
      \/ NextOf(w, worker[w].at)
  BY DEF recordTransaction, markSubmitted, requeue
<1> QED
  BY <1>1, <1>2, OnwardSubmitStep, NextSubmitStep

LEMMA StartConfirmStep ==
  ASSUME TypeOK, WorkersKnow, ActionsKnow, NEW w \in Workers, StartConfirm(w)
  PROVE  WorkerStep(w)
<1> DEFINE pending == {a \in Actions : action[a].status \in {"submitted", "confirming"}}
           rows == {[action |-> a, from |-> action[a].status, tx |-> action[a].tx] : a \in pending}
           x == [Idle EXCEPT !.kind = "confirm", !.step = "next", !.todo = rows]
<1>1. \A row \in rows : row \in Pending /\ Names(row.tx, row.action)
  <2>1. ASSUME NEW a \in pending
        PROVE  action[a].tx \in Nat /\ Names(action[a].tx, a)
    BY Lengths DEF TypeOK, ActionsKnow
  <2> QED
    BY <2>1 DEF Pending
<1>2. sent' = sent
  BY DEF StartConfirm, chainVars
<1>3. Becomes(w, x)
  BY DEF StartConfirm, Starts, Becomes
<1> HIDE DEF rows
<1>4. x \in WorkerType /\ x.kind = "confirm" /\ x.todo = rows
  BY <1>1 DEF Idle, WorkerType, Kinds, Steps
<1> HIDE DEF x
<1>5. worker'[w] = x
  BY <1>3, <1>4, Became DEF WorkersKnow
<1>6. ConfirmKnows(w)'
  <2>1. SUFFICES ASSUME NEW row \in worker'[w].todo
                 PROVE  row \in Pending /\ Names(row.tx, row.action)'
    BY DEF ConfirmKnows
  <2>2. row \in Pending /\ Names(row.tx, row.action)
    BY <1>1, <1>4, <1>5
  <2> QED
    BY <1>2, <2>2 DEF Names
<1>7. \A b \in Actions : ~Holding(w, b)'
  BY <1>4, <1>5 DEF Holding
<1> QED
  BY <1>3, <1>4, <1>5, <1>6, <1>7, KindKnows DEF WorkerStep

LEMMA CheckReceiptStep ==
  ASSUME TypeOK, WorkersKnow, NEW w \in Workers, checkReceipt(w)
  PROVE  WorkerStep(w)
<1>1. PICK row \in worker[w].todo : At(w, "confirm", "next") /\ NextOf(w, row) /\ sent' = sent
  BY DEF checkReceipt, chainVars
<1> DEFINE x == [worker[w] EXCEPT !.todo = worker[w].todo \ {row}, !.step = "next", !.at = None]
<1>2. CASE Becomes(w, Idle)
  BY <1>2, IdleStep
<1>3. CASE Becomes(w, x) /\ x \in WorkerType
  <2>1. x.kind = "confirm" /\ x.todo \subseteq worker[w].todo
    BY <1>1 DEF WorkersKnow, WorkerType, At
  <2> HIDE DEF x
  <2>2. worker'[w] = x
    BY <1>3, Became DEF WorkersKnow
  <2>3. \A r \in worker[w].todo : r \in Pending /\ Names(r.tx, r.action)
    BY <1>1 DEF WorkersKnow, Knows, ConfirmKnows, At
  <2>4. ConfirmKnows(w)'
    <3>1. SUFFICES ASSUME NEW r \in worker'[w].todo
                   PROVE  r \in Pending /\ Names(r.tx, r.action)'
      BY DEF ConfirmKnows
    <3>2. r \in Pending /\ Names(r.tx, r.action)
      BY <2>1, <2>2, <2>3
    <3> QED
      BY <1>1, <3>2 DEF Names
  <2>5. \A b \in Actions : ~Holding(w, b)'
    BY <2>1, <2>2 DEF Holding
  <2> QED
    BY <1>3, <2>1, <2>2, <2>4, <2>5, KindKnows DEF WorkerStep
<1> QED
  BY <1>1, <1>2, <1>3, TookNext DEF WorkersKnow

LEMMA StartSyncStep ==
  ASSUME TypeOK, WorkersKnow, ProjectionsKnow, NEW w \in Workers, StartSync(w)
  PROVE  WorkerStep(w)
<1> DEFINE x == [Idle EXCEPT !.kind = "sync", !.step = "window", !.from = cursor + 1]
<1>1. cursor \in Nat
  BY Lengths DEF TypeOK
<1>2. x \in WorkerType /\ x.kind = "sync" /\ x.step = "window" /\ x.from = cursor + 1
  <2> HIDE DEF x
  <2>1. \A n \in Nat :
          LET y == [Idle EXCEPT !.kind = "sync", !.step = "window", !.from = n]
          IN  y \in WorkerType /\ y.kind = "sync" /\ y.step = "window" /\ y.from = n
    BY DEF Idle, WorkerType, Kinds, Steps
  <2>2. cursor + 1 \in Nat
    BY <1>1
  <2> QED
    BY <2>1, <2>2 DEF x
<1>3. Becomes(w, x) /\ UNCHANGED <<mined, applied>>
  BY DEF StartSync, Starts, Becomes, chainVars, projections
<1> HIDE DEF x
<1>4. worker'[w] = x
  BY <1>2, <1>3, Became DEF WorkersKnow
<1>5. x.from >= 1 /\ x.from - 1 = cursor
  BY <1>1, <1>2
<1>6. Covered(cursor)
  BY DEF ProjectionsKnow
<1>7. SyncKnows(w)'
  BY <1>2, <1>3, <1>4, <1>5, <1>6 DEF SyncKnows, At, Covered
<1>8. \A b \in Actions : ~Holding(w, b)'
  BY <1>2, <1>4 DEF Holding
<1> QED
  BY <1>2, <1>3, <1>4, <1>7, <1>8, KindKnows DEF WorkerStep

\* The smaller of two numbers.
LEMMA MinOfTwo ==
  ASSUME NEW m \in Int, NEW n \in Int
  PROVE  /\ Min({m, n}) \in {m, n}
         /\ Min({m, n}) <= m /\ Min({m, n}) <= n
<1>1. \E x \in {m, n} : \A y \in {m, n} : x <= y
  <2>1. CASE m <= n
    BY <2>1
  <2>2. CASE n <= m
    BY <2>2
  <2> QED
    BY <2>1, <2>2
<1> QED
  BY <1>1 DEF Min

LEMMA ReadWindowStep ==
  ASSUME TypeOK, WorkersKnow, NEW w \in Workers, readWindow(w)
  PROVE  WorkerStep(w)
<1> DEFINE to == Min({Len(mined), worker[w].from + MaxRange - 1})
           x == [worker[w] EXCEPT !.to = to, !.step = "apply"]
<1>1. /\ worker[w] \in WorkerType /\ worker[w].kind = "sync" /\ worker[w].from \in Nat
      /\ worker[w].from >= 1 /\ Covered(worker[w].from - 1)
  BY DEF readWindow, At, WorkersKnow, Knows, SyncKnows, WorkerType
<1>2. CASE Ends(w)
  BY <1>2, Ended, IdleStep
<1>3. CASE ~Empty(worker[w].from, to) /\ worker' = [worker EXCEPT ![w].to = to, ![w].step = "apply"]
  <2>1. Len(mined) \in Int /\ worker[w].from + MaxRange - 1 \in Int
    BY <1>1, Lengths, RangeAssumption
  <2>2. to \in Int /\ to <= Len(mined)
    BY <2>1, MinOfTwo
  <2>3. Becomes(w, x)
    BY <1>3 DEF Becomes, WorkersKnow
  <2> HIDE DEF to
  <2>4. worker[w].from <= to /\ to \in Nat
    BY <1>1, <1>3, <2>2 DEF Empty
  <2>5. x \in WorkerType /\ x.kind = "sync" /\ x.step = "apply" /\ x.from = worker[w].from /\ x.to = to
    BY <1>1, <2>4 DEF WorkerType, Steps
  <2> HIDE DEF x
  <2>6. worker'[w] = x
    BY <2>3, <2>5, Became DEF WorkersKnow
  <2>7. UNCHANGED <<mined, applied>>
    BY DEF readWindow, chainVars, projections
  <2>8. SyncKnows(w)'
    BY <1>1, <2>2, <2>4, <2>5, <2>6, <2>7 DEF SyncKnows, At, Covered
  <2>9. \A b \in Actions : ~Holding(w, b)'
    BY <2>5, <2>6 DEF Holding
  <2> QED
    BY <2>3, <2>5, <2>6, <2>8, <2>9, KindKnows DEF WorkerStep
<1> QED
  BY <1>2, <1>3 DEF readWindow

LEMMA ApplyEventStep ==
  ASSUME TypeOK, WorkersKnow, NEW w \in Workers, applyEvent(w)
  PROVE  WorkerStep(w)
<1>1. PICK k \in Nat : k = worker[w].from
  BY DEF WorkersKnow, WorkerType
<1>2. PICK to \in Nat : to = worker[w].to
  BY DEF WorkersKnow, WorkerType
<1>3. /\ worker[w] \in WorkerType /\ worker[w].kind = "sync"
      /\ 1 <= k /\ k <= to /\ to <= Len(mined) /\ Covered(k - 1)
  BY <1>1, <1>2 DEF applyEvent, At, WorkersKnow, Knows, SyncKnows
<1>4. PICK step \in {"apply", "advance"} : step = IF k = to THEN "advance" ELSE "apply"
  OBVIOUS
<1> DEFINE x == [worker[w] EXCEPT !.from = k + 1, !.step = step]
<1>5. Becomes(w, x)
  BY <1>1, <1>2, <1>4 DEF applyEvent, Becomes, WorkersKnow
<1>6. x \in WorkerType /\ x.kind = "sync" /\ x.step = step /\ x.from = k + 1 /\ x.to = to
  <2> HIDE DEF x
  <2>1. \A n \in Nat : LET y == [worker[w] EXCEPT !.from = n, !.step = step]
                      IN  /\ y \in WorkerType /\ y.kind = "sync" /\ y.step = step
                          /\ y.from = n /\ y.to = worker[w].to
    BY <1>3 DEF WorkerType, Steps
  <2>2. k + 1 \in Nat
    OBVIOUS
  <2> QED
    BY <1>2, <2>1, <2>2 DEF x
<1> HIDE DEF x
<1>7. worker'[w] = x
  BY <1>5, <1>6, Became DEF WorkersKnow
<1>8. mined' = mined
  BY DEF applyEvent, chainVars
<1>9. /\ \A j \in applied : j \in applied'
      /\ mined[k] => k \in applied'
  BY <1>1 DEF applyEvent, Unapplied, projections
<1>10. Covered(k)'
  <2>1. k \in DOMAIN mined
    BY <1>3, Lengths
  <2>2. \A j \in 1 .. k : j = k \/ j \in 1 .. (k - 1)
    BY <1>3
  <2> QED
    BY <1>3, <1>8, <1>9, <2>1, <2>2 DEF Covered
<1>11. SyncKnows(w)'
  <2>1. CASE k = to
    BY <1>3, <1>4, <1>6, <1>7, <1>8, <1>10, <2>1 DEF SyncKnows, At
  <2>2. CASE k # to
    <3>1. k + 1 <= to /\ (k + 1) - 1 = k
      BY <1>3, <2>2
    <3>2. step = "apply"
      BY <1>4, <2>2
    <3> QED
      BY <1>3, <1>6, <1>7, <1>8, <1>10, <3>1, <3>2 DEF SyncKnows, At
  <2> QED
    BY <2>1, <2>2
<1>12. \A b \in Actions : ~Holding(w, b)'
  BY <1>6, <1>7 DEF Holding
<1> QED
  BY <1>5, <1>6, <1>7, <1>11, <1>12, KindKnows DEF WorkerStep

\* Every step is taken by one invocation or by none.
LEMMA NextWorkerStep ==
  ASSUME TypeOK, WorkersKnow, FullySigned, ActionsKnow, ProjectionsKnow, [Next]_vars
  PROVE  worker' = worker \/ \E w \in Workers : WorkerStep(w)
<1>1. SignaturesGrew
  BY NextSignaturesGrew
<1>2. CASE (Mine \/ Expire) /\ UNCHANGED <<relayVars, worker, faults, projections, cursor>>
  BY <1>2
<1>3. CASE createDirectAction \/ rebuildProjections \/ UNCHANGED vars
  BY <1>3 DEF createDirectAction, rebuildProjections, vars
<1>4. ASSUME NEW w \in Workers,
             Killed(w) \/ signatureRefused(w) \/ markReadyToSubmit(w) \/ advanceCursor(w)
      PROVE  WorkerStep(w)
  BY <1>4, Ended, IdleStep DEF Killed, signatureRefused, markReadyToSubmit, advanceCursor
<1>5. ASSUME NEW w \in Workers, StartSign(w) \/ StartSubmitRequest(w) \/ addSignature(w)
                                  \/ createChainAction(w)
      PROVE  WorkerStep(w)
  BY <1>1, <1>5, StartSignStep, StartSubmitRequestStep, AddSignatureStep, CreateChainActionStep
<1>6. ASSUME NEW w \in Workers, StartSubmit(w) \/ claim(w) \/ send(w) \/ recordTransaction(w)
                                  \/ markSubmitted(w) \/ requeue(w)
      PROVE  WorkerStep(w)
  BY <1>6, StartSubmitStep, ClaimStep, SendStep, RecordingStep
<1>7. ASSUME NEW w \in Workers, StartConfirm(w) \/ checkReceipt(w)
      PROVE  WorkerStep(w)
  BY <1>7, StartConfirmStep, CheckReceiptStep
<1>8. ASSUME NEW w \in Workers, StartSync(w) \/ readWindow(w) \/ applyEvent(w)
      PROVE  WorkerStep(w)
  BY <1>8, StartSyncStep, ReadWindowStep, ApplyEventStep
<1> QED
  BY <1>2, <1>3, <1>4, <1>5, <1>6, <1>7, <1>8 DEF Next, Works, Syncs

(***************************************************************************)
(* The action rows.                                                        *)
(***************************************************************************)

\* What a step does to one row.
RowStep(a) ==
  \/ action'[a] = action[a]
  \/ /\ action[a] = NoAction
     /\ action'[a].status \in {"awaiting_signatures", "ready_to_submit"}
     /\ action'[a].tx = 0
     /\ a \notin Direct => Cardinality(action'[a].signed) >= Required
  \/ /\ Justified(a, action'[a].status)
     /\ action'[a].status \in Statuses
     /\ action'[a].tx = action[a].tx /\ action'[a].signed = action[a].signed
  \/ /\ action[a].status # None
     /\ action'[a].status = action[a].status /\ action'[a].signed = action[a].signed
     /\ action'[a].tx \in DOMAIN sent /\ sent[action'[a].tx] = a

RowType == [status : Statuses \cup {None}, signed : SUBSET Signers, tx : 0 .. Len(sent)]

LEMMA RowSteps ==
  ASSUME TypeOK, ActionStep
  PROVE  action' \in [Actions -> RowType] /\ \A b \in Actions : RowStep(b)
<1>1. action \in [Actions -> RowType]
  BY DEF TypeOK, RowType
<1>2. Len(sent) \in Nat /\ DOMAIN sent = 1 .. Len(sent)
  BY Lengths
<1>3. CASE action' = action
  BY <1>1, <1>3 DEF RowStep
<1>4. ASSUME NEW a \in Actions, NEW x \in RowType, Sets(a, x)
      PROVE  /\ action' \in [Actions -> RowType] /\ action'[a] = x
             /\ \A b \in Actions : b # a => action'[b] = action[b]
  BY <1>1, <1>4 DEF Sets
<1>5. ASSUME NEW a \in Actions, Created(a)
      PROVE  action' \in [Actions -> RowType] /\ \A b \in Actions : RowStep(b)
  <2>1. PICK x \in [status : {"awaiting_signatures", "ready_to_submit"},
                    signed : SUBSET Signers, tx : {0}] :
          /\ Sets(a, x)
          /\ a \notin Direct => Cardinality(x.signed) >= Required
    BY <1>5 DEF Created
  <2>2. x \in RowType
    BY <1>2 DEF RowType, Statuses
  <2>3. /\ action' \in [Actions -> RowType] /\ action'[a] = x
        /\ \A b \in Actions : b # a => action'[b] = action[b]
    BY <1>4, <2>1, <2>2
  <2>4. action[a] = NoAction
    BY <1>5 DEF Created
  <2>5. RowStep(a)
    BY <2>1, <2>3, <2>4 DEF RowStep
  <2> QED
    BY <2>3, <2>5 DEF RowStep
<1>6. ASSUME NEW a \in Actions, Moved(a)
      PROVE  action' \in [Actions -> RowType] /\ \A b \in Actions : RowStep(b)
  <2>1. PICK to \in Statuses : Sets(a, [action[a] EXCEPT !.status = to]) /\ Justified(a, to)
    BY <1>6 DEF Moved
  <2> DEFINE x == [action[a] EXCEPT !.status = to]
  <2>2. x \in RowType /\ x.status = to /\ x.tx = action[a].tx /\ x.signed = action[a].signed
    BY <1>1 DEF RowType
  <2> HIDE DEF x
  <2>3. /\ action' \in [Actions -> RowType] /\ action'[a] = x
        /\ \A b \in Actions : b # a => action'[b] = action[b]
    BY <1>4, <2>1, <2>2 DEF x
  <2>4. RowStep(a)
    BY <2>1, <2>2, <2>3 DEF RowStep
  <2> QED
    BY <2>3, <2>4 DEF RowStep
<1>7. ASSUME NEW a \in Actions, Recorded(a)
      PROVE  action' \in [Actions -> RowType] /\ \A b \in Actions : RowStep(b)
  <2>1. PICK tx \in DOMAIN sent : Sets(a, [action[a] EXCEPT !.tx = tx]) /\ sent[tx] = a
    BY <1>7 DEF Recorded
  <2> DEFINE x == [action[a] EXCEPT !.tx = tx]
  <2>2. x \in RowType /\ x.tx = tx /\ x.status = action[a].status /\ x.signed = action[a].signed
    BY <1>1, <1>2 DEF RowType
  <2> HIDE DEF x
  <2>3. /\ action' \in [Actions -> RowType] /\ action'[a] = x
        /\ \A b \in Actions : b # a => action'[b] = action[b]
    BY <1>4, <2>1, <2>2 DEF x
  <2>4. action[a].status # None
    BY <1>7 DEF Recorded
  <2>5. RowStep(a)
    BY <2>1, <2>2, <2>3, <2>4 DEF RowStep
  <2> QED
    BY <2>3, <2>5 DEF RowStep
<1> QED
  BY <1>3, <1>5, <1>6, <1>7 DEF ActionStep

\* A row is never taken back.
LEMMA RowStays ==
  ASSUME NEW a \in Actions, RowStep(a), action[a] # NoAction
  PROVE  action'[a] # NoAction
<1>1. NoAction.status = None
  BY DEF NoAction
<1>2. action'[a].status # None \/ action'[a] = action[a]
  BY NoneDiffers DEF RowStep, Statuses
<1> QED
  BY <1>1, <1>2

\* A row that was there keeps the signatures of its call.
LEMMA RowSignedStep ==
  ASSUME FullySigned, NEW a \in Actions \ Direct, RowStep(a), action'[a] # NoAction
  PROVE  Cardinality(action'[a].signed) >= Required
<1>1. NoAction.status = None
  BY DEF NoAction
<1>2. action[a] # NoAction => Cardinality(action[a].signed) >= Required
  BY DEF FullySigned
<1>3. CASE action'[a] = action[a]
  BY <1>2, <1>3
<1>4. CASE action[a] = NoAction /\ (a \notin Direct => Cardinality(action'[a].signed) >= Required)
  BY <1>4
<1>5. CASE action[a].status # None /\ action'[a].signed = action[a].signed
  BY <1>1, <1>2, <1>5
<1> QED
  BY <1>3, <1>4, <1>5 DEF RowStep, Justified

LEMMA FullySignedStep ==
  ASSUME FullySigned, SignaturesGrew, \A a \in Actions : RowStep(a)
  PROVE  FullySigned'
<1>1. ASSUME NEW a \in Actions \ Direct
      PROVE  request'[a] = "ready" => Cardinality(signatures'[a]) >= Required
  <2>1. request[a] = "ready" => Signed(a)
    BY DEF FullySigned, Signed
  <2>2. Signed(a) => Signed(a)'
    BY DEF SignaturesGrew
  <2>3. request'[a] = "ready" => request[a] = "ready" \/ Signed(a)'
    BY DEF SignaturesGrew
  <2> QED
    BY <2>1, <2>2, <2>3 DEF Signed
<1>2. ASSUME NEW a \in Actions \ Direct
      PROVE  action'[a] # NoAction => Cardinality(action'[a].signed) >= Required
  BY RowSignedStep
<1> QED
  BY <1>1, <1>2 DEF FullySigned, Direct, Calls, NoAction

LEMMA ActionsKnowStep ==
  ASSUME TypeOK, ActionsKnow, ChainGrew, \A a \in Actions : RowStep(a)
  PROVE  ActionsKnow'
<1> SUFFICES ASSUME NEW a \in Actions
             PROVE  /\ action'[a].tx # 0
                         => action'[a].tx \in DOMAIN sent' /\ sent'[action'[a].tx] = a
                    /\ action'[a].status \in {"verified", "confirming"} => Executed(a)'
                    /\ action'[a].status = "reverted" => Failed(a)'
  BY DEF ActionsKnow, Names
<1>1. /\ Executed(a) => Executed(a)'
      /\ Failed(a) => Failed(a)'
      /\ \A tx : Names(tx, a) => (tx # 0 => tx \in DOMAIN sent' /\ sent'[tx] = a)
  BY ChainFactsStay DEF Names
<1>2. /\ Names(action[a].tx, a)
      /\ action[a].status \in {"verified", "confirming"} => Executed(a)
      /\ action[a].status = "reverted" => Failed(a)
  BY DEF ActionsKnow
<1>3. Names(action'[a].tx, a)
  <2>1. CASE action'[a].tx = action[a].tx
    BY <1>2, <2>1 DEF Names
  <2>2. CASE action'[a].tx = 0
    BY <2>2 DEF Names
  <2>3. CASE action'[a].tx \in DOMAIN sent /\ sent[action'[a].tx] = a
    BY <2>3 DEF Names
  <2> QED
    BY <2>1, <2>2, <2>3 DEF RowStep
<1>4. /\ action'[a].status \in {"verified", "confirming"} => Executed(a)
      /\ action'[a].status = "reverted" => Failed(a)
  <2>1. CASE action'[a].status = action[a].status
    BY <1>2, <2>1
  <2>2. CASE action'[a].status \in {"awaiting_signatures", "ready_to_submit"}
    BY <2>2
  <2>3. CASE Justified(a, action'[a].status)
    BY <2>3 DEF Justified
  <2> QED
    BY <2>1, <2>2, <2>3 DEF RowStep
<1> QED
  BY <1>1, <1>3, <1>4

(***************************************************************************)
(* The claims.                                                             *)
(***************************************************************************)

InvocationStep == worker' = worker \/ \E w \in Workers : WorkerStep(w)

\* Who has an action in its hands after a step had it before, or claimed it when nobody had.
LEMMA HoldingStep ==
  ASSUME WorkersKnow, HoldersKnow, InvocationStep, NEW a \in Actions, NEW v \in Workers,
         Holding(v, a)'
  PROVE  \/ Holding(v, a)
         \/ Claimed(a) /\ \A u \in Workers \ {v} : ~Holding(u, a)'
<1>1. CASE worker' = worker
  BY <1>1 DEF Holding
<1>2. ASSUME NEW w \in Workers, WorkerStep(w)
      PROVE  \/ Holding(v, a)
             \/ Claimed(a) /\ \A u \in Workers \ {v} : ~Holding(u, a)'
  <2>1. \A u \in Workers \ {w} : worker'[u] = worker[u]
    BY <1>2, Became DEF WorkerStep, WorkersKnow
  <2>2. CASE v # w
    BY <2>1, <2>2 DEF Holding
  <2>3. CASE v = w
    <3>1. Holding(v, a) \/ Claimed(a)
      BY <1>2, <2>3 DEF WorkerStep
    <3>2. Claimed(a) => \A u \in Workers : ~Holding(u, a)
      BY DEF Claimed, HoldersKnow
    <3>3. \A u \in Workers \ {v} : worker'[u] = worker[u]
      BY <2>1, <2>3
    <3>4. Claimed(a) => \A u \in Workers \ {v} : ~Holding(u, a)'
      BY <3>2, <3>3 DEF Holding
    <3> QED
      BY <3>1, <3>4
  <2> QED
    BY <2>2, <2>3
<1> QED
  BY <1>1, <1>2 DEF InvocationStep

LEMMA ClaimExclusiveStep ==
  ASSUME WorkersKnow, HoldersKnow, ClaimExclusive, InvocationStep
  PROVE  ClaimExclusive'
<1> SUFFICES ASSUME NEW a \in Actions, NEW v \in Workers, NEW w \in Workers,
                    Holding(v, a)', Holding(w, a)'
             PROVE  v = w
  BY DEF ClaimExclusive
<1>1. Holding(v, a) /\ Holding(w, a) => v = w
  BY DEF ClaimExclusive
<1>2. Holding(v, a) \/ \A u \in Workers \ {v} : ~Holding(u, a)'
  BY HoldingStep
<1>3. Holding(w, a) \/ \A u \in Workers \ {w} : ~Holding(u, a)'
  BY HoldingStep
<1> QED
  BY <1>1, <1>2, <1>3

\* Only the tick that has an action in its hands, or its event, takes it from submitting.
LEMMA HoldersKnowStep ==
  ASSUME WorkersKnow, HoldersKnow, ClaimExclusive, InvocationStep, \A a \in Actions : RowStep(a)
  PROVE  HoldersKnow'
<1> SUFFICES ASSUME NEW v \in Workers, NEW a \in Actions, Holding(v, a)'
             PROVE  action'[a].status \in {"submitting", "verified"}
  BY DEF HoldersKnow
<1>1. CASE Claimed(a)
  BY <1>1 DEF Claimed
<1>2. CASE Holding(v, a)
  <2>1. action[a].status \in {"submitting", "verified"}
    BY <1>2 DEF HoldersKnow
  <2>2. CASE action'[a].status = action[a].status
    BY <2>1, <2>2
  <2>3. CASE action[a] = NoAction
    BY <2>1, <2>3, NoneDiffers DEF NoAction, Statuses
  <2>4. CASE Justified(a, action'[a].status)
    <3>1. SUFFICES ASSUME action'[a].status # "verified"
                   PROVE  FALSE
      OBVIOUS
    <3>2. PICK w \in Workers : Holding(w, a) /\ worker'[w].at = None
      BY <2>1, <2>4, <3>1 DEF Justified
    <3>3. w = v
      BY <1>2, <3>2 DEF ClaimExclusive
    <3>4. worker'[v].at = a
      BY DEF Holding
    <3> QED
      BY <3>2, <3>3, <3>4, NoneDiffers
  <2> QED
    BY <2>2, <2>3, <2>4 DEF RowStep
<1> QED
  BY <1>1, <1>2, HoldingStep

(***************************************************************************)
(* What the other invocations know.                                        *)
(***************************************************************************)

\* Only rebuild-projections takes back what is applied, while no sync tick is under way.
AppliedGrew ==
  \/ applied \subseteq applied'
  \/ applied' = {} /\ cursor' = 0 /\ worker' = worker /\ \A w \in Workers : worker[w].kind # "sync"

LEMMA NextAppliedGrew ==
  ASSUME [Next]_vars
  PROVE  AppliedGrew
<1>1. CASE UNCHANGED projections
  BY <1>1 DEF projections, AppliedGrew
<1>2. CASE rebuildProjections
  BY <1>2 DEF rebuildProjections, AppliedGrew
<1>3. ASSUME NEW w \in Workers, applyEvent(w)
      PROVE  AppliedGrew
  BY <1>3 DEF applyEvent, projections, AppliedGrew
<1>4. ASSUME NEW w \in Workers, StartSync(w) \/ readWindow(w) \/ advanceCursor(w)
      PROVE  UNCHANGED projections
  BY <1>4 DEF StartSync, readWindow, advanceCursor
<1> QED
  BY <1>1, <1>2, <1>3, <1>4 DEF Next, Syncs, vars

LEMMA CoveredStays ==
  ASSUME TypeOK, ChainGrew, applied \subseteq applied', NEW n, Covered(n)
  PROVE  \A k \in 1 .. n : k \in DOMAIN mined' /\ (mined'[k] => k \in applied')
<1> SUFFICES ASSUME NEW k \in 1 .. n
             PROVE  k \in DOMAIN mined' /\ (mined'[k] => k \in applied')
  OBVIOUS
<1>1. k \in DOMAIN mined /\ (mined[k] => k \in applied)
  BY DEF Covered
<1>2. k \in DOMAIN mined' /\ mined'[k] = mined[k]
  BY <1>1 DEF ChainGrew
<1> QED
  BY <1>1, <1>2

LEMMA OthersKnow ==
  ASSUME TypeOK, WorkersKnow, ChainGrew, SignaturesGrew, \A a \in Actions : RowStep(a),
         NEW v \in Workers, worker'[v] = worker[v],
         applied \subseteq applied' \/ worker[v].kind # "sync"
  PROVE  Knows(v)'
<1>0. Knows(v)
  BY DEF WorkersKnow
<1>1. SignKnows(v)'
  <2>1. SignKnows(v)
    BY <1>0 DEF Knows
  <2>2. ASSUME NEW a \in Actions
        PROVE  /\ signatures[a] \subseteq signatures'[a]
               /\ Cardinality(signatures[a]) >= Required => Cardinality(signatures'[a]) >= Required
               /\ action[a] # NoAction => action'[a] # NoAction
    <3>1. Signed(a) => Signed(a)'
      BY DEF SignaturesGrew
    <3>2. signatures[a] \subseteq signatures'[a]
      BY DEF SignaturesGrew
    <3>3. action[a] # NoAction => action'[a] # NoAction
      BY RowStays
    <3> QED
      BY <3>1, <3>2, <3>3 DEF Signed
  <2>3. At(v, "sign", "add") =>
          /\ worker[v].at \in Actions \ Direct /\ worker[v].todo \subseteq Signers
          /\ worker[v].seen \subseteq signatures'[worker[v].at]
    BY <2>1, <2>2 DEF SignKnows
  <2>4. At(v, "sign", "ensure") =>
          /\ worker[v].at \in Actions \ Direct
          /\ \/ action'[worker[v].at] # NoAction
             \/ Cardinality(signatures'[worker[v].at]) >= Required
    BY <2>1, <2>2 DEF SignKnows, Signed
  <2>5. At(v, "sign", "mark") => worker[v].at \in Actions
    BY <2>1 DEF SignKnows
  <2> QED
    BY <2>3, <2>4, <2>5 DEF SignKnows, At, Signed, Direct, Calls, NoAction
<1>2. SubmitKnows(v)'
  <2>1. \A k \in DOMAIN sent : k \in DOMAIN sent' /\ sent'[k] = sent[k]
    BY DEF ChainGrew
  <2> QED
    BY <1>0, <2>1 DEF Knows, SubmitKnows, At
<1>3. ConfirmKnows(v)'
  <2>1. SUFFICES ASSUME worker[v].kind = "confirm", NEW row \in worker[v].todo
                 PROVE  row \in Pending /\ Names(row.tx, row.action)'
    BY DEF ConfirmKnows
  <2>2. row \in Pending /\ Names(row.tx, row.action)
    BY <1>0, <2>1 DEF Knows, ConfirmKnows
  <2> QED
    BY <2>2 DEF Names, ChainGrew
<1>4. SyncKnows(v)'
  <2>1. CASE worker[v].kind # "sync"
    BY <2>1 DEF SyncKnows, At
  <2>2. CASE applied \subseteq applied'
    <3>1. SyncKnows(v)
      BY <1>0 DEF Knows
    <3>2. \A n : Covered(n) => Covered(n)'
      <4> SUFFICES ASSUME NEW n, Covered(n) PROVE Covered(n)'
        OBVIOUS
      <4>1. \A k \in 1 .. n : k \in DOMAIN mined' /\ (mined'[k] => k \in applied')
        BY <2>2, CoveredStays
      <4> QED
        BY <4>1 DEF Covered
    <3>3. PICK from \in Nat : from = worker[v].from
      BY DEF WorkersKnow, WorkerType
    <3>4. PICK to \in Nat : to = worker[v].to
      BY DEF WorkersKnow, WorkerType
    <3>5. Len(mined) <= Len(mined') /\ Len(mined) \in Nat /\ Len(mined') \in Nat
      BY Lengths, LenProperties DEF ChainGrew
    <3>6. /\ At(v, "sync", "window") => from >= 1 /\ Covered(from - 1)'
          /\ At(v, "sync", "apply") =>
               from >= 1 /\ from <= to /\ to <= Len(mined') /\ Covered(from - 1)'
          /\ At(v, "sync", "advance") => to <= Len(mined') /\ Covered(to)'
      <4>1. /\ At(v, "sync", "window") => from >= 1 /\ Covered(from - 1)
            /\ At(v, "sync", "apply") =>
                 from >= 1 /\ from <= to /\ to <= Len(mined) /\ Covered(from - 1)
            /\ At(v, "sync", "advance") => to <= Len(mined) /\ Covered(to)
        BY <3>1, <3>3, <3>4 DEF SyncKnows
      <4> QED
        BY <3>2, <3>5, <4>1
    <3>7. worker'[v].from = from /\ worker'[v].to = to
      BY <3>3, <3>4
    <3> QED
      BY <3>6, <3>7 DEF SyncKnows, At, Covered
  <2> QED
    BY <2>1, <2>2
<1> QED
  BY <1>1, <1>2, <1>3, <1>4 DEF Knows

LEMMA WorkersKnowStep ==
  ASSUME TypeOK, WorkersKnow, ChainGrew, SignaturesGrew, AppliedGrew, InvocationStep,
         \A a \in Actions : RowStep(a)
  PROVE  WorkersKnow'
<1>1. worker \in [Workers -> WorkerType]
  BY DEF WorkersKnow
<1>2. CASE worker' = worker
  <2>1. \A v \in Workers : Knows(v)'
    <3> SUFFICES ASSUME NEW v \in Workers PROVE Knows(v)'
      OBVIOUS
    <3>1. worker'[v] = worker[v]
      BY <1>2
    <3>2. applied \subseteq applied' \/ worker[v].kind # "sync"
      BY DEF AppliedGrew
    <3> QED
      BY <3>1, <3>2, OthersKnow
  <2> QED
    BY <1>1, <1>2, <2>1 DEF WorkersKnow
<1>3. ASSUME NEW w \in Workers, WorkerStep(w), worker' # worker
      PROVE  WorkersKnow'
  <2>1. worker' \in [Workers -> WorkerType] /\ \A v \in Workers \ {w} : worker'[v] = worker[v]
    BY <1>1, <1>3, Became DEF WorkerStep
  <2>2. Knows(w)'
    BY <1>3 DEF WorkerStep
  <2>3. applied \subseteq applied'
    BY <1>3 DEF AppliedGrew
  <2>4. \A v \in Workers : Knows(v)'
    <3> SUFFICES ASSUME NEW v \in Workers, v # w PROVE Knows(v)'
      BY <2>2
    <3>1. worker'[v] = worker[v]
      BY <2>1
    <3> QED
      BY <2>3, <3>1, OthersKnow
  <2> QED
    BY <2>1, <2>4 DEF WorkersKnow
<1> QED
  BY <1>2, <1>3 DEF InvocationStep

(***************************************************************************)
(* The events of the chain.                                                *)
(***************************************************************************)

\* What Call says of an action.
LEMMA CallFields ==
  ASSUME NEW a \in Actions
  PROVE  /\ Call[a].kind \in {"mint", "reversal", "enroll"}
         /\ Call[a].member \in Members /\ Call[a].amount \in Nat
         /\ Delta(a) \in Int
BY CallAssumption DEF Delta

\* The blocks up to one that was mined are a finite set of them.
LEMMA MovesFinite ==
  ASSUME TypeOK, NEW k \in DOMAIN mined
  PROVE  /\ Moves(k) \subseteq DOMAIN mined /\ \A i \in Moves(k) : i <= k
         /\ IsFiniteSet(Moves(k)) /\ Cardinality(Moves(k)) \in Nat
         /\ k \in Nat
<1>1. k \in Nat /\ 1 .. k \subseteq DOMAIN mined
  BY Lengths
<1>2. Moves(k) \subseteq 1 .. k
  BY DEF Moves, EventsUpTo
<1>3. IsFiniteSet(1 .. k)
  BY <1>1, FS_Interval
<1>4. IsFiniteSet(Moves(k))
  BY <1>2, <1>3, FS_Subset
<1> QED
  BY <1>1, <1>2, <1>4, FS_CardinalityType

LEMMA SumsAreInt ==
  ASSUME TypeOK, NEW k \in DOMAIN mined
  PROVE  /\ \A m \in Members : BalanceAfter(m, k) \in Int
         /\ SupplyAfter(k) \in Int
<1>1. Moves(k) \subseteq DOMAIN mined /\ IsFiniteSet(Moves(k))
  BY MovesFinite
<1>2. \A i \in DOMAIN mined : Delta(sent[i]) \in Int
  BY Lengths, CallFields
<1>3. ASSUME NEW S \in SUBSET Moves(k)
      PROVE  SumFunction([i \in S |-> Delta(sent[i])]) \in Int
  <2> DEFINE f == [i \in S |-> Delta(sent[i])]
  <2>1. IsFiniteSet(S)
    BY <1>1, FS_Subset
  <2>2. DOMAIN f = S /\ \A i \in S : f[i] \in Int
    BY <1>1, <1>2
  <2> HIDE DEF f
  <2>3. SumFunctionOnSet(f, S) \in Int
    BY <2>1, <2>2, SumInt
  <2> QED
    BY <2>2, <2>3 DEF SumFunction, f
<1>4. \A m \in Members : MovesOf(m, k) \in SUBSET Moves(k)
  BY DEF MovesOf
<1> QED
  BY <1>3, <1>4 DEF BalanceAfter, SupplyAfter

\* The chain up to a mined block does not change.
LEMMA MovesStay ==
  ASSUME TypeOK, ChainGrew, NEW k \in DOMAIN mined
  PROVE  /\ Moves(k)' = Moves(k)
         /\ \A m \in Members : BalanceAfter(m, k)' = BalanceAfter(m, k)
<1>1. k \in Nat /\ 1 .. k \subseteq DOMAIN mined
  BY Lengths
<1>2. \A i \in 1 .. k : mined'[i] = mined[i] /\ sent'[i] = sent[i]
  BY <1>1, Lengths DEF ChainGrew
<1>3. Moves(k)' = Moves(k)
  BY <1>2 DEF Moves, EventsUpTo
<1>4. ASSUME NEW m \in Members
      PROVE  BalanceAfter(m, k)' = BalanceAfter(m, k)
  <2>1. \A i \in Moves(k) : i \in 1 .. k
    BY DEF Moves, EventsUpTo
  <2>2. MovesOf(m, k)' = MovesOf(m, k)
    BY <1>2, <1>3, <2>1 DEF MovesOf
  <2>3. \A i \in MovesOf(m, k) : Delta(sent'[i]) = Delta(sent[i])
    BY <1>2, <2>1 DEF MovesOf
  <2>4. [i \in MovesOf(m, k)' |-> Delta(sent'[i])] = [i \in MovesOf(m, k) |-> Delta(sent[i])]
    BY <2>2, <2>3
  <2> QED
    BY <2>4 DEF BalanceAfter
<1> QED
  BY <1>3, <1>4

\* A mint's ledgerSeq is positive, and greater than that of a mint in an earlier block.
LEMMA LaterSeqGreater ==
  ASSUME TypeOK, NEW k \in DOMAIN mined, mined[k], sent[k] \in Calls("mint")
  PROVE  /\ Cardinality(Moves(k)) >= 1
         /\ \A j \in DOMAIN mined : j < k => Cardinality(Moves(j)) < Cardinality(Moves(k))
<1>1. k \in Moves(k)
  BY Lengths DEF Moves, EventsUpTo, Calls
<1>2. IsFiniteSet(Moves(k)) /\ Cardinality(Moves(k)) \in Nat /\ k \in Nat
  BY MovesFinite
<1>3. Cardinality(Moves(k) \ {k}) = Cardinality(Moves(k)) - 1 /\ IsFiniteSet(Moves(k) \ {k})
  BY <1>1, <1>2, FS_RemoveElement
<1>4. Cardinality(Moves(k) \ {k}) \in Nat
  BY <1>3, FS_CardinalityType
<1>5. ASSUME NEW j \in DOMAIN mined, j < k
      PROVE  Cardinality(Moves(j)) < Cardinality(Moves(k))
  <2>1. Moves(j) \subseteq Moves(k) \ {k}
    <3>1. j \in Nat
      BY MovesFinite
    <3>2. \A i \in 1 .. j : i \in 1 .. k /\ i # k
      BY <1>2, <1>5, <3>1
    <3> QED
      BY <3>2 DEF Moves, EventsUpTo
  <2>2. Cardinality(Moves(j)) <= Cardinality(Moves(k) \ {k})
    BY <1>3, <2>1, FS_Subset
  <2>3. Cardinality(Moves(j)) \in Nat
    BY MovesFinite
  <2> QED
    BY <1>2, <1>3, <2>2, <2>3
<1> QED
  BY <1>2, <1>3, <1>4, <1>5

\* The applied mints of a member are finitely many blocks, each a mint of that member.
LEMMA MintsFinite ==
  ASSUME TypeOK, NEW m \in Members
  PROVE  /\ IsFiniteSet(AppliedMints(m))
         /\ \A k \in AppliedMints(m) : k \in applied /\ k \in DOMAIN mined /\ sent[k] \in Actions
                                       /\ Call[sent[k]].amount \in Nat
<1>1. Len(mined) \in Nat /\ DOMAIN mined = 1 .. Len(mined)
  BY Lengths
<1>2. AppliedMints(m) \subseteq 1 .. Len(mined) /\ AppliedMints(m) \subseteq applied
  BY <1>1 DEF TypeOK, AppliedMints
<1>3. IsFiniteSet(1 .. Len(mined))
  BY <1>1, FS_Interval
<1>4. IsFiniteSet(AppliedMints(m))
  BY <1>2, <1>3, FS_Subset
<1> QED
  BY <1>1, <1>2, <1>4, Lengths, CallFields

\* The applied mints of a member after the chain has grown, or an event is applied.
LEMMA MintsStay ==
  ASSUME TypeOK, ChainGrew, NEW m \in Members
  PROVE  /\ applied' = applied => AppliedMints(m)' = AppliedMints(m)
         /\ \A k \in DOMAIN mined :
              applied' = applied \cup {k} =>
                AppliedMints(m)' = IF sent[k] \in Calls("mint") /\ Call[sent[k]].member = m
                                   THEN AppliedMints(m) \cup {k} ELSE AppliedMints(m)
<1>1. applied \subseteq DOMAIN mined /\ \A k \in DOMAIN mined : sent'[k] = sent[k]
  BY Lengths DEF TypeOK, ChainGrew
<1>2. applied' = applied => AppliedMints(m)' = AppliedMints(m)
  BY <1>1 DEF AppliedMints, Calls
<1>3. ASSUME NEW k \in DOMAIN mined, applied' = applied \cup {k}
      PROVE  AppliedMints(m)' = IF sent[k] \in Calls("mint") /\ Call[sent[k]].member = m
                                THEN AppliedMints(m) \cup {k} ELSE AppliedMints(m)
  BY <1>1, <1>3 DEF AppliedMints, Calls
<1> QED
  BY <1>2, <1>3

(***************************************************************************)
(* The projections.                                                        *)
(***************************************************************************)

\* What the rows of a member hold.
Replayed(m) ==
  /\ minted[m] = SumFunction([k \in AppliedMints(m) |-> Call[sent[k]].amount])
  /\ BalanceRow(m)

\* The rows of a member stay right while its applied mints are the same, and its balance
\* row is too or has no mint to be newest of.
LEMMA ReplayedStays ==
  ASSUME TypeOK, ChainGrew, NEW m \in Members, Replayed(m),
         AppliedMints(m)' = AppliedMints(m), minted'[m] = minted[m],
         balance'[m] = balance[m] \/ (AppliedMints(m) = {} /\ balance'[m].seq <= 0)
  PROVE  Replayed(m)'
<1>1. \A k \in AppliedMints(m) : k \in DOMAIN mined /\ sent'[k] = sent[k]
  BY MintsFinite, Lengths DEF ChainGrew
<1>2. [k \in AppliedMints(m)' |-> Call[sent'[k]].amount]
        = [k \in AppliedMints(m) |-> Call[sent[k]].amount]
  BY <1>1
<1>3. minted[m] = SumFunction([k \in AppliedMints(m) |-> Call[sent[k]].amount]) /\ BalanceRow(m)
  BY DEF Replayed
<1>4. minted'[m] = SumFunction([k \in AppliedMints(m)' |-> Call[sent'[k]].amount])
  BY <1>2, <1>3
<1>5. CASE AppliedMints(m) = {}
  <2>1. balance'[m].seq <= 0
    BY <1>3, <1>5 DEF BalanceRow
  <2>2. BalanceRow(m)'
    BY <1>5, <2>1 DEF BalanceRow
  <2> QED
    BY <1>4, <2>2 DEF Replayed
<1>6. CASE AppliedMints(m) # {}
  <2>1. PICK k \in AppliedMints(m) :
          /\ \A j \in AppliedMints(m) : j <= k
          /\ balance[m] = [amount |-> BalanceAfter(m, k), seq |-> Cardinality(Moves(k))]
    BY <1>3, <1>6 DEF BalanceRow
  <2>2. Moves(k)' = Moves(k) /\ BalanceAfter(m, k)' = BalanceAfter(m, k)
    BY <1>1, MovesStay
  <2>3. balance'[m] = [amount |-> BalanceAfter(m, k)', seq |-> Cardinality(Moves(k)')]
    BY <1>6, <2>1, <2>2
  <2>4. BalanceRow(m)'
    BY <1>6, <2>1, <2>3 DEF BalanceRow
  <2> QED
    BY <1>4, <2>4 DEF Replayed
<1> QED
  BY <1>5, <1>6

\* The first event of a rebuilt projection is no later than any.
LEMMA ReplayedFromNothing ==
  ASSUME NEW m \in Members, applied' = {}, minted'[m] = 0, balance'[m] = NoRow
  PROVE  Replayed(m)'
<1>1. AppliedMints(m)' = {}
  BY DEF AppliedMints
<1>2. SumFunction([k \in AppliedMints(m)' |-> Call[sent'[k]].amount]) = 0
  <2> DEFINE f == [k \in AppliedMints(m)' |-> Call[sent'[k]].amount]
  <2>1. DOMAIN f = {}
    BY <1>1
  <2> HIDE DEF f
  <2>2. SumFunctionOnSet(f, {}) = 0
    BY SumEmpty
  <2> QED
    BY <2>1, <2>2 DEF SumFunction, f
<1>3. balance'[m].seq <= 0
  BY DEF NoRow
<1>4. BalanceRow(m)'
  BY <1>1, <1>3 DEF BalanceRow
<1> QED
  BY <1>2, <1>4 DEF Replayed

\* The mint of block k is applied to its member's rows.
LEMMA ReplayedMint ==
  ASSUME TypeOK, ChainGrew, \A j \in applied : mined[j],
         NEW k \in DOMAIN mined, mined[k], k \notin applied,
         sent[k] \in Calls("mint"), NEW m \in Members, m = Call[sent[k]].member, Replayed(m),
         applied' = applied \cup {k},
         minted'[m] = minted[m] + Call[sent[k]].amount,
         balance'[m] = Fresher(balance[m], BalanceAfter(m, k), Cardinality(Moves(k)))
  PROVE  Replayed(m)'
<1>1. AppliedMints(m)' = AppliedMints(m) \cup {k}
  BY MintsStay
<1>2. /\ IsFiniteSet(AppliedMints(m)) /\ k \notin AppliedMints(m)
      /\ \A j \in AppliedMints(m) : j \in DOMAIN mined /\ Call[sent[j]].amount \in Nat
      /\ k \in DOMAIN mined /\ Call[sent[k]].amount \in Nat
  BY MintsFinite, Lengths, CallFields
<1>3. \A j \in AppliedMints(m) \cup {k} : sent'[j] = sent[j]
  BY <1>2, Lengths DEF ChainGrew
<1>4. minted'[m] = SumFunction([j \in AppliedMints(m)' |-> Call[sent'[j]].amount])
  <2> DEFINE f == [j \in AppliedMints(m) |-> Call[sent[j]].amount]
             g == [j \in AppliedMints(m) \cup {k} |-> Call[sent[j]].amount]
  <2>1. /\ DOMAIN f = AppliedMints(m) /\ DOMAIN g = AppliedMints(m) \cup {k}
        /\ \A j \in AppliedMints(m) : f[j] \in Int /\ g[j] = f[j]
        /\ g[k] = Call[sent[k]].amount /\ g[k] \in Int
    BY <1>2
  <2>2. [j \in AppliedMints(m)' |-> Call[sent'[j]].amount] = g
    BY <1>1, <1>3
  <2>3. minted[m] = SumFunction(f)
    BY DEF Replayed
  <2> HIDE DEF f, g
  <2>4. SumFunction(g) = SumFunction(f) + g[k]
    <3>1. PICK S : S = AppliedMints(m)
      OBVIOUS
    <3>2. IsFiniteSet(S) /\ k \notin S /\ DOMAIN f = S /\ DOMAIN g = S \cup {k}
      BY <1>2, <2>1, <3>1
    <3>3. (\A x \in S : f[x] \in Int /\ g[x] = f[x]) /\ g[k] \in Int
      BY <2>1, <3>1
    <3> QED
      BY ONLY <3>2, <3>3, SumFunctionExtended
  <2> QED
    BY <2>1, <2>2, <2>3, <2>4
<1>5. Cardinality(Moves(k)) \in Nat /\ Cardinality(Moves(k)) >= 1 /\ k \in Nat
  BY MovesFinite, LaterSeqGreater
<1>6. Moves(k)' = Moves(k) /\ BalanceAfter(m, k)' = BalanceAfter(m, k)
  BY MovesStay
<1>7. BalanceRow(m)
  BY DEF Replayed
<1>8. ASSUME balance'[m] = [amount |-> BalanceAfter(m, k), seq |-> Cardinality(Moves(k))],
             \A j \in AppliedMints(m) : j <= k
      PROVE  BalanceRow(m)'
  <2>1. balance'[m] = [amount |-> BalanceAfter(m, k)', seq |-> Cardinality(Moves(k)')]
    BY <1>6, <1>8
  <2>2. k \in AppliedMints(m)' /\ \A j \in AppliedMints(m)' : j <= k
    BY <1>1, <1>5, <1>8
  <2> QED
    BY <2>1, <2>2 DEF BalanceRow
<1>9. CASE AppliedMints(m) = {}
  <2>1. balance[m].seq <= 0 /\ balance[m].seq \in Int
    BY <1>7, <1>9 DEF BalanceRow, TypeOK, Row
  <2>2. balance'[m] = [amount |-> BalanceAfter(m, k), seq |-> Cardinality(Moves(k))]
    BY <1>5, <2>1 DEF Fresher
  <2> QED
    BY <1>4, <1>8, <1>9, <2>2 DEF Replayed
<1>10. CASE AppliedMints(m) # {}
  <2>1. PICK i \in AppliedMints(m) :
          /\ \A j \in AppliedMints(m) : j <= i
          /\ balance[m] = [amount |-> BalanceAfter(m, i), seq |-> Cardinality(Moves(i))]
    BY <1>7, <1>10 DEF BalanceRow
  <2>2. /\ i \in DOMAIN mined /\ i # k /\ i \in Nat /\ Cardinality(Moves(i)) \in Nat
        /\ \A j \in AppliedMints(m) : j \in Nat
    BY <1>2, MovesFinite
  <2>3. mined[i] /\ sent[i] \in Calls("mint")
    BY <2>1 DEF AppliedMints
  <2>4. CASE i < k
    <3>1. Cardinality(Moves(i)) < Cardinality(Moves(k))
      BY <2>2, <2>4, LaterSeqGreater
    <3>2. balance'[m] = [amount |-> BalanceAfter(m, k), seq |-> Cardinality(Moves(k))]
      BY <2>1, <3>1 DEF Fresher
    <3>3. \A j \in AppliedMints(m) : j <= k
      BY <1>5, <2>1, <2>2, <2>4
    <3> QED
      BY <1>4, <1>8, <3>2, <3>3 DEF Replayed
  <2>5. CASE k < i
    <3>1. Cardinality(Moves(k)) < Cardinality(Moves(i))
      BY <2>2, <2>3, <2>5, LaterSeqGreater
    <3>2. balance'[m] = balance[m]
      BY <1>5, <2>1, <2>2, <3>1 DEF Fresher
    <3>3. Moves(i)' = Moves(i) /\ BalanceAfter(m, i)' = BalanceAfter(m, i)
      BY <2>2, MovesStay
    <3>4. balance'[m] = [amount |-> BalanceAfter(m, i)', seq |-> Cardinality(Moves(i)')]
      BY <2>1, <3>2, <3>3
    <3>5. i \in AppliedMints(m)' /\ \A j \in AppliedMints(m)' : j <= i
      BY <1>1, <1>5, <2>1, <2>2, <2>5
    <3>6. BalanceRow(m)'
      BY <3>4, <3>5 DEF BalanceRow
    <3> QED
      BY <1>4, <3>6 DEF Replayed
  <2> QED
    BY <1>5, <2>2, <2>4, <2>5
<1> QED
  BY <1>9, <1>10

\* The event of block k, of a mint or a reversal, is applied.
LEMMA ReplayedEvent ==
  ASSUME TypeOK, ProjectionsKnow, ChainGrew, NEW k \in DOMAIN mined, Unapplied(k),
         sent[k] \notin Direct, applied' = applied \cup {k}, applyBalanceEvent(k)
  PROVE  \A m \in Members : Replayed(m)'
<1>1. PICK a \in Actions : a = sent[k]
  BY Lengths
<1>2. /\ Call[a].member \in Members /\ Call[a].amount \in Nat
      /\ Call[a].kind \in {"mint", "reversal"} /\ Call[a].kind \in {"mint", "reversal", "enroll"}
  BY <1>1, CallFields DEF Direct, Calls
<1>3. PICK n \in Members : n = Call[a].member
  BY <1>2
<1>4. /\ balance' = [balance EXCEPT ![n] = Fresher(balance[n], BalanceAfter(n, k), LedgerSeq(k))]
      /\ minted' = IF a \in Calls("mint") THEN [minted EXCEPT ![n] = minted[n] + Call[a].amount]
                   ELSE minted
  BY <1>1, <1>3 DEF applyBalanceEvent
<1>5. balance \in [Members -> Row] /\ minted \in [Members -> Nat]
  BY DEF TypeOK
<1>6. mined[k] /\ k \notin applied /\ \A j \in applied : mined[j]
  BY DEF Unapplied, ProjectionsKnow
<1> SUFFICES ASSUME NEW m \in Members PROVE Replayed(m)'
  OBVIOUS
<1>7. Replayed(m)
  BY DEF ProjectionsKnow, Replayed
<1>8. CASE m # n
  <2>1. balance'[m] = balance[m] /\ minted'[m] = minted[m]
    BY <1>3, <1>4, <1>5, <1>8
  <2>2. AppliedMints(m)' = AppliedMints(m)
    BY <1>1, <1>3, <1>8, MintsStay
  <2> QED
    BY <1>7, <2>1, <2>2, ReplayedStays
<1>9. CASE m = n /\ a \in Calls("mint")
  <2>1. balance'[m] = Fresher(balance[m], BalanceAfter(m, k), Cardinality(Moves(k)))
    BY <1>1, <1>4, <1>5, <1>9 DEF LedgerSeq
  <2>2. minted'[m] = minted[m] + Call[sent[k]].amount
    BY <1>1, <1>4, <1>5, <1>9
  <2>3. sent[k] \in Calls("mint") /\ m = Call[sent[k]].member
    BY <1>1, <1>3, <1>9
  <2> QED
    BY <1>6, <1>7, <2>1, <2>2, <2>3, ReplayedMint
<1>10. CASE m = n /\ a \notin Calls("mint")
  <2>1. balance'[m] = Fresher(balance[m], BalanceAfter(m, k), 0) /\ minted'[m] = minted[m]
    BY <1>1, <1>4, <1>5, <1>10 DEF LedgerSeq
  <2>2. AppliedMints(m)' = AppliedMints(m)
    BY <1>1, <1>10, MintsStay
  <2>3. BalanceRow(m)
    BY <1>7 DEF Replayed
  <2>4. balance'[m] = balance[m] \/ (AppliedMints(m) = {} /\ balance'[m].seq <= 0)
    <3>1. CASE AppliedMints(m) = {}
      <4>1. balance[m].seq <= 0
        BY <2>3, <3>1 DEF BalanceRow
      <4> QED
        BY <2>1, <3>1, <4>1 DEF Fresher
    <3>2. CASE AppliedMints(m) # {}
      <4>1. PICK i \in AppliedMints(m) :
              balance[m] = [amount |-> BalanceAfter(m, i), seq |-> Cardinality(Moves(i))]
        BY <2>3, <3>2 DEF BalanceRow
      <4>2. i \in DOMAIN mined
        BY MintsFinite
      <4>3. Cardinality(Moves(i)) \in Nat
        BY <4>2, MovesFinite
      <4>4. ~(0 > balance[m].seq)
        BY <4>1, <4>3
      <4> QED
        BY <2>1, <4>4 DEF Fresher
    <3> QED
      BY <3>1, <3>2
  <2> QED
    BY <1>7, <2>1, <2>2, <2>4, ReplayedStays
<1> QED
  BY <1>8, <1>9, <1>10

\* What a step does to the projections.
EventStep(k) ==
  /\ k \in DOMAIN mined
  /\ Unapplied(k)
  /\ applied' = applied \cup {k}
  /\ \/ sent[k] \in Direct /\ UNCHANGED <<balance, supply, minted>>
     \/ sent[k] \notin Direct /\ applyBalanceEvent(k)

ProjectionStep ==
  \/ UNCHANGED projections
  \/ rebuildProjections
  \/ \E k \in Nat : EventStep(k)

LEMMA NextProjectionStep ==
  ASSUME TypeOK, WorkersKnow, [Next]_vars
  PROVE  ProjectionStep
<1>1. ASSUME NEW w \in Workers, applyEvent(w)
      PROVE  ProjectionStep
  <2>1. PICK k \in Nat : k = worker[w].from
    BY DEF WorkersKnow, WorkerType
  <2>2. k \in DOMAIN mined
    <3>1. 1 <= k /\ k <= worker[w].to /\ worker[w].to <= Len(mined) /\ worker[w].to \in Nat
      BY <1>1, <2>1 DEF applyEvent, WorkersKnow, WorkerType, Knows, SyncKnows
    <3> QED
      BY <3>1, Lengths
  <2>3. CASE Unapplied(k)
    BY <1>1, <2>1, <2>2, <2>3 DEF applyEvent, ProjectionStep, EventStep
  <2>4. CASE ~Unapplied(k)
    BY <1>1, <2>1, <2>4 DEF applyEvent, ProjectionStep
  <2> QED
    BY <2>3, <2>4
<1>2. ASSUME NEW w \in Workers, StartSync(w) \/ readWindow(w) \/ advanceCursor(w)
      PROVE  UNCHANGED projections
  BY <1>2 DEF StartSync, readWindow, advanceCursor
<1> QED
  BY <1>1, <1>2 DEF Next, Syncs, vars, ProjectionStep

LEMMA ReplayedStep ==
  ASSUME TypeOK, ProjectionsKnow, ChainGrew, ProjectionStep
  PROVE  \A m \in Members : Replayed(m)'
<1>1. \A m \in Members : Replayed(m)
  BY DEF ProjectionsKnow, Replayed
<1>2. CASE UNCHANGED projections
  <2> SUFFICES ASSUME NEW m \in Members PROVE Replayed(m)'
    OBVIOUS
  <2>1. applied' = applied /\ balance'[m] = balance[m] /\ minted'[m] = minted[m]
    BY <1>2 DEF projections
  <2>2. AppliedMints(m)' = AppliedMints(m)
    BY <2>1, MintsStay
  <2> QED
    BY <1>1, <2>1, <2>2, ReplayedStays
<1>3. CASE rebuildProjections
  <2> SUFFICES ASSUME NEW m \in Members PROVE Replayed(m)'
    OBVIOUS
  <2>1. applied' = {} /\ minted'[m] = 0 /\ balance'[m] = NoRow
    BY <1>3 DEF rebuildProjections
  <2> QED
    BY <2>1, ReplayedFromNothing
<1>4. ASSUME NEW k \in Nat, EventStep(k)
      PROVE  \A m \in Members : Replayed(m)'
  <2>1. k \in DOMAIN mined /\ Unapplied(k) /\ applied' = applied \cup {k}
    BY <1>4 DEF EventStep
  <2>2. CASE sent[k] \notin Direct /\ applyBalanceEvent(k)
    BY <2>1, <2>2, ReplayedEvent
  <2>3. CASE sent[k] \in Direct /\ UNCHANGED <<balance, supply, minted>>
    <3> SUFFICES ASSUME NEW m \in Members PROVE Replayed(m)'
      OBVIOUS
    <3>1. sent[k] \notin Calls("mint")
      BY <2>3 DEF Direct, Calls
    <3>2. AppliedMints(m)' = AppliedMints(m)
      BY <2>1, <3>1, MintsStay
    <3> QED
      BY <1>1, <2>3, <3>2, ReplayedStays
  <2> QED
    BY <1>4, <2>2, <2>3 DEF EventStep
<1> QED
  BY <1>2, <1>3, <1>4 DEF ProjectionStep

\* An applied event is on the chain.
LEMMA AppliedStep ==
  ASSUME TypeOK, ProjectionsKnow, ChainGrew, ProjectionStep
  PROVE  \A k \in applied' : k \in DOMAIN mined' /\ mined'[k]
<1>1. \A k \in DOMAIN mined : k \in DOMAIN mined' /\ mined'[k] = mined[k]
  BY DEF ChainGrew
<1>2. \A k \in applied : k \in DOMAIN mined /\ mined[k]
  BY DEF ProjectionsKnow
<1>3. \A k \in applied' : k \in DOMAIN mined /\ mined[k]
  BY <1>2 DEF ProjectionStep, EventStep, Unapplied, projections, rebuildProjections
<1> QED
  BY <1>1, <1>3

\* Every event before the cursor is applied.
LEMMA CursorStep ==
  ASSUME TypeOK, WorkersKnow, ProjectionsKnow, ChainGrew, [Next]_vars
  PROVE  cursor' \in 0 .. Len(mined') /\ Covered(cursor)'
<1>1. /\ cursor \in Nat /\ cursor <= Len(mined) /\ Covered(cursor)
      /\ Len(mined) \in Nat /\ Len(mined') \in Nat /\ Len(mined) <= Len(mined')
  BY Lengths, LenProperties DEF TypeOK, ProjectionsKnow, ChainGrew
<1>2. CASE cursor' = cursor /\ applied \subseteq applied'
  <2>1. \A k \in 1 .. cursor : k \in DOMAIN mined' /\ (mined'[k] => k \in applied')
    BY <1>1, <1>2, CoveredStays
  <2> QED
    BY <1>1, <1>2, <2>1 DEF Covered
<1>3. CASE cursor' = 0
  BY <1>1, <1>3 DEF Covered
<1>4. ASSUME NEW w \in Workers, advanceCursor(w)
      PROVE  cursor' \in 0 .. Len(mined') /\ Covered(cursor)'
  <2>1. PICK to \in Nat : to = worker[w].to
    BY DEF WorkersKnow, WorkerType
  <2>2. to <= Len(mined) /\ Covered(to)
    BY <1>4, <2>1 DEF advanceCursor, WorkersKnow, Knows, SyncKnows
  <2>3. cursor' = to /\ applied' = applied
    BY <1>4, <2>1 DEF advanceCursor, AdvanceCursor, projections
  <2>4. \A k \in 1 .. to : k \in DOMAIN mined' /\ (mined'[k] => k \in applied')
    BY <2>2, <2>3, CoveredStays
  <2> QED
    BY <1>1, <2>1, <2>2, <2>3, <2>4 DEF Covered
<1>5. ASSUME NEW w \in Workers, StartSync(w) \/ readWindow(w) \/ applyEvent(w)
      PROVE  cursor' = cursor /\ applied \subseteq applied'
  BY <1>5 DEF StartSync, readWindow, applyEvent, projections
<1>6. CASE UNCHANGED <<projections, cursor>>
  BY <1>2, <1>6 DEF projections
<1>7. CASE rebuildProjections
  BY <1>3, <1>7 DEF rebuildProjections
<1>8. CASE UNCHANGED vars
  BY <1>6, <1>8 DEF vars
<1> QED
  BY <1>2, <1>4, <1>5, <1>6, <1>7, <1>8 DEF Next, Syncs

LEMMA ProjectionsKnowStep ==
  ASSUME TypeOK, WorkersKnow, ProjectionsKnow, ChainGrew, [Next]_vars
  PROVE  ProjectionsKnow'
<1>1. ProjectionStep
  BY NextProjectionStep
<1>2. \A m \in Members : Replayed(m)'
  BY <1>1, ReplayedStep
<1>3. \A k \in applied' : k \in DOMAIN mined' /\ mined'[k]
  BY <1>1, AppliedStep
<1>4. Covered(cursor)'
  BY CursorStep
<1> QED
  BY <1>2, <1>3, <1>4 DEF ProjectionsKnow, Replayed

(***************************************************************************)
(* Type correctness.                                                       *)
(***************************************************************************)

\* Folding an event into a row leaves a row.
LEMMA FreshRow ==
  ASSUME NEW row \in Row, NEW amount \in Int, NEW seq \in Int
  PROVE  Fresher(row, amount, seq) \in Row
BY DEF Fresher, Row

LEMMA ProjectionTypeStep ==
  ASSUME TypeOK, ChainGrew, ProjectionStep
  PROVE  /\ balance' \in [Members -> Row] /\ supply' \in Row
         /\ minted' \in [Members -> Nat]
<1>1. balance \in [Members -> Row] /\ supply \in Row /\ minted \in [Members -> Nat]
  BY DEF TypeOK
<1>2. CASE UNCHANGED <<balance, supply, minted>>
  BY <1>1, <1>2
<1>3. CASE rebuildProjections
  <2>1. NoRow \in Row
    BY DEF NoRow, Row
  <2> QED
    BY <1>3, <2>1 DEF rebuildProjections
<1>4. ASSUME NEW k \in DOMAIN mined, applyBalanceEvent(k)
      PROVE  /\ balance' \in [Members -> Row] /\ supply' \in Row
             /\ minted' \in [Members -> Nat]
  <2>1. PICK a \in Actions : a = sent[k]
    BY Lengths
  <2>2. PICK m \in Members : m = Call[a].member
    BY CallFields
  <2>3. Call[a].amount \in Nat
    BY CallFields
  <2>4. BalanceAfter(m, k) \in Int /\ SupplyAfter(k) \in Int
    BY SumsAreInt
  <2>5. LedgerSeq(k) \in Int
    BY MovesFinite DEF LedgerSeq
  <2>6. Fresher(balance[m], BalanceAfter(m, k), LedgerSeq(k)) \in Row
    BY <1>1, <2>4, <2>5, FreshRow
  <2>7. Fresher(supply, SupplyAfter(k), LedgerSeq(k)) \in Row
    BY <1>1, <2>4, <2>5, FreshRow
  <2>8. /\ balance' = [balance EXCEPT ![m] = Fresher(balance[m], BalanceAfter(m, k), LedgerSeq(k))]
        /\ supply' = Fresher(supply, SupplyAfter(k), LedgerSeq(k))
        /\ \/ minted' = minted
           \/ minted' = [minted EXCEPT ![m] = minted[m] + Call[a].amount]
    BY <1>4, <2>1, <2>2 DEF applyBalanceEvent
  <2>9. minted' \in [Members -> Nat]
    <3>1. minted[m] + Call[a].amount \in Nat
      BY <1>1, <2>3
    <3> QED
      BY <1>1, <2>8, <3>1
  <2> QED
    BY <1>1, <2>6, <2>7, <2>8, <2>9
<1> QED
  BY <1>2, <1>3, <1>4 DEF ProjectionStep, EventStep, projections

LEMMA TypeOKStep ==
  ASSUME TypeOK, WorkersKnow, HoldersKnow, ProjectionsKnow, WorkersKnow', [Next]_vars
  PROVE  TypeOK'
<1>1. ChainGrew /\ SignaturesGrew /\ ActionStep /\ ProjectionStep
  BY NextChainGrew, NextSignaturesGrew, NextActionStep, NextProjectionStep
<1>2. /\ sent' \in Seq(Actions) /\ mined' \in Seq(BOOLEAN) /\ Len(mined') <= Len(sent')
      /\ Len(sent) <= Len(sent') /\ Len(sent) \in Nat /\ Len(sent') \in Nat
  BY <1>1, Lengths, LenProperties DEF ChainGrew
<1>3. signatures' \in [Actions -> SUBSET Signers] /\ request' \in [Actions -> {"collecting", "ready"}]
  BY <1>1 DEF SignaturesGrew
<1>4. action' \in [Actions -> [status : Statuses \cup {None}, signed : SUBSET Signers, tx : 0 .. Len(sent')]]
  <2>1. action' \in [Actions -> RowType]
    BY <1>1, RowSteps
  <2>2. \A n \in 0 .. Len(sent) : n \in 0 .. Len(sent')
    BY <1>2
  <2> QED
    BY <2>1, <2>2 DEF RowType
<1>5. \A w \in Workers : worker'[w].step \in Steps \cup {None}
  BY DEF WorkersKnow, WorkerType
<1>6. applied' \subseteq DOMAIN mined'
  BY <1>1, AppliedStep
<1>7. balance' \in [Members -> Row] /\ supply' \in Row /\ minted' \in [Members -> Nat]
  BY <1>1, ProjectionTypeStep
<1>8. cursor' \in 0 .. Len(mined')
  BY <1>1, CursorStep
<1> QED
  BY <1>2, <1>3, <1>4, <1>5, <1>6, <1>7, <1>8 DEF TypeOK, Statuses, Steps, Row

(***************************************************************************)
(* The theorems.                                                           *)
(***************************************************************************)

LEMMA RelayInvInit ==
  ASSUME Init
  PROVE  RelayInv
<1>1. /\ sent = << >> /\ mined = << >>
      /\ signatures = [a \in Actions |-> {}] /\ request = [a \in Actions |-> "collecting"]
      /\ action = [a \in Actions |-> NoAction] /\ worker = [w \in Workers |-> Idle]
      /\ applied = {} /\ balance = [m \in Members |-> NoRow] /\ supply = NoRow
      /\ minted = [m \in Members |-> 0] /\ cursor = 0
  BY DEF Init, RelayInit, ChainInit
<1>2. \A w \in Workers : worker[w] = Idle /\ worker[w].kind = None /\ worker[w].step = None
  BY <1>1 DEF Idle
<1>3. TypeOK
  <2>1. sent \in Seq(Actions) /\ mined \in Seq(BOOLEAN) /\ Len(sent) = 0 /\ Len(mined) = 0
    BY <1>1
  <2>2. action \in [Actions -> [status : Statuses \cup {None}, signed : SUBSET Signers, tx : 0 .. Len(sent)]]
    BY <1>1, <2>1 DEF NoAction
  <2>3. NoRow \in Row
    BY DEF NoRow, Row
  <2> QED
    BY <1>1, <1>2, <2>1, <2>2, <2>3 DEF TypeOK
<1>4. WorkersKnow
  <2>1. worker \in [Workers -> WorkerType]
    BY <1>1, IdleType
  <2>2. \A w \in Workers : Knows(w)
    BY <1>2, NoneDiffers DEF Knows, SignKnows, SubmitKnows, ConfirmKnows, SyncKnows, At, Kinds
  <2> QED
    BY <2>1, <2>2 DEF WorkersKnow
<1>5. HoldersKnow /\ ClaimExclusive
  BY <1>2, NoneDiffers DEF HoldersKnow, ClaimExclusive, Holding, Kinds
<1>6. FullySigned
  BY <1>1 DEF FullySigned
<1>7. ActionsKnow
  <2>1. \A a \in Actions : action[a].status = None /\ action[a].tx = 0
    BY <1>1 DEF NoAction
  <2> QED
    BY <2>1, NoneDiffers DEF ActionsKnow, Names, Statuses
<1>8. ProjectionsKnow
  <2>1. Covered(cursor)
    BY <1>1 DEF Covered
  <2>2. ASSUME NEW m \in Members
        PROVE  /\ minted[m] = SumFunction([k \in AppliedMints(m) |-> Call[sent[k]].amount])
               /\ BalanceRow(m)
    <3>1. AppliedMints(m) = {}
      BY <1>1 DEF AppliedMints
    <3>2. SumFunction([k \in AppliedMints(m) |-> Call[sent[k]].amount]) = 0
      <4> DEFINE f == [k \in AppliedMints(m) |-> Call[sent[k]].amount]
      <4>1. DOMAIN f = {}
        BY <3>1
      <4> HIDE DEF f
      <4>2. SumFunctionOnSet(f, {}) = 0
        BY SumEmpty
      <4> QED
        BY <4>1, <4>2 DEF SumFunction, f
    <3>3. minted[m] = 0 /\ balance[m].seq <= 0
      BY <1>1 DEF NoRow
    <3> QED
      BY <3>1, <3>2, <3>3 DEF BalanceRow
  <2> QED
    BY <1>1, <2>1, <2>2 DEF ProjectionsKnow
<1> QED
  BY <1>3, <1>4, <1>5, <1>6, <1>7, <1>8 DEF RelayInv

LEMMA RelayInvStep ==
  ASSUME RelayInv, [Next]_vars
  PROVE  RelayInv'
<1>1. /\ TypeOK /\ WorkersKnow /\ HoldersKnow /\ ClaimExclusive /\ FullySigned /\ ActionsKnow
      /\ ProjectionsKnow
  BY DEF RelayInv
<1>2. ChainGrew /\ SignaturesGrew /\ AppliedGrew
  BY <1>1, NextChainGrew, NextSignaturesGrew, NextAppliedGrew
<1>3. \A a \in Actions : RowStep(a)
  BY <1>1, NextActionStep, RowSteps
<1>4. InvocationStep
  BY <1>1, NextWorkerStep DEF InvocationStep
<1>5. WorkersKnow'
  BY <1>1, <1>2, <1>3, <1>4, WorkersKnowStep
<1>6. TypeOK'
  BY <1>1, <1>5, TypeOKStep
<1>7. HoldersKnow' /\ ClaimExclusive'
  BY <1>1, <1>3, <1>4, HoldersKnowStep, ClaimExclusiveStep
<1>8. FullySigned'
  BY <1>1, <1>2, <1>3, FullySignedStep
<1>9. ActionsKnow'
  BY <1>1, <1>2, <1>3, ActionsKnowStep
<1>10. ProjectionsKnow'
  BY <1>1, <1>2, ProjectionsKnowStep
<1> QED
  BY <1>5, <1>6, <1>7, <1>8, <1>9, <1>10 DEF RelayInv

\* The invariant holds of every run of any number of invocations and faults.
THEOREM RelayInvHolds == Spec => []RelayInv
<1>1. Init => RelayInv
  BY RelayInvInit
<1>2. RelayInv /\ [Next]_vars => RelayInv'
  BY RelayInvStep
<1> QED
  BY <1>1, <1>2, PTL DEF Spec

\* Every row of the relay and of the projections keeps its type, and no transaction row
\* names a transaction that was not broadcast.
THEOREM RelayTypes == Spec => []TypeOK
<1>1. RelayInv => TypeOK
  BY DEF RelayInv
<1> QED
  BY <1>1, RelayInvHolds, PTL

\* However the signatures race, a queued call carries those of as many different approvers
\* as it needs (counted by DistinctCount from what one invocation read).
THEOREM CallsAreFullySigned == Spec => []FullySigned
<1>1. RelayInv => FullySigned
  BY DEF RelayInv
<1> QED
  BY <1>1, RelayInvHolds, PTL

\* Overlapping submit ticks never have one action in their hands together, whichever of
\* them were killed, requeued their action or saw its event come first.
THEOREM ClaimsAreExclusive == Spec => []ClaimExclusive
<1>1. RelayInv => ClaimExclusive
  BY DEF RelayInv
<1> QED
  BY <1>1, RelayInvHolds, PTL

\* An action that failed in one block and was executed in another was broadcast twice.
LEMMA TwoBroadcasts ==
  ASSUME TypeOK, NEW a \in Actions, Failed(a), Executed(a)
  PROVE  Cardinality(Broadcasts(a)) > 1
<1>1. PICK i \in DOMAIN mined : ~mined[i] /\ sent[i] = a
  BY DEF Failed
<1>2. PICK j \in DOMAIN mined : mined[j] /\ sent[j] = a
  BY DEF Executed
<1>3. i # j /\ {i, j} \subseteq Broadcasts(a)
  BY <1>1, <1>2, Lengths DEF Broadcasts
<1>4. IsFiniteSet(Broadcasts(a))
  <2>1. Broadcasts(a) \subseteq 1 .. Len(sent)
    BY Lengths DEF Broadcasts
  <2>2. IsFiniteSet(1 .. Len(sent))
    BY Lengths, FS_Interval
  <2> QED
    BY <2>1, <2>2, FS_Subset
<1>5. Cardinality({i, j}) = 2
  <2>1. IsFiniteSet({i}) /\ Cardinality({i}) = 1
    BY FS_Singleton
  <2>2. {i, j} = {i} \cup {j} /\ j \notin {i}
    BY <1>3
  <2>3. Cardinality({i} \cup {j}) = Cardinality({i}) + 1
    BY <2>1, <2>2, FS_AddElement
  <2> QED
    BY <2>1, <2>2, <2>3
<1>6. Cardinality({i, j}) <= Cardinality(Broadcasts(a))
  BY <1>3, <1>4, FS_Subset
<1> QED
  BY <1>4, <1>5, <1>6, FS_CardinalityType

\* The status the confirm and sync ticks write is what happened on chain, but for an action
\* broadcast twice.
THEOREM StatusesAreTruthful == Spec => []StatusTruthful
<1>1. RelayInv => StatusTruthful
  <2> SUFFICES ASSUME RelayInv, NEW a \in Actions
               PROVE  /\ action[a].status \in {"verified", "confirming"} => Executed(a)
                      /\ action[a].status = "reverted"
                           => ~Executed(a) \/ Cardinality(Broadcasts(a)) > 1
    BY DEF StatusTruthful
  <2>1. TypeOK /\ ActionsKnow
    BY DEF RelayInv
  <2>2. Failed(a) /\ Executed(a) => Cardinality(Broadcasts(a)) > 1
    BY <2>1, TwoBroadcasts
  <2> QED
    BY <2>1, <2>2 DEF ActionsKnow
<1> QED
  BY <1>1, RelayInvHolds, PTL

\* The projections are a replay of the chain, whatever sync ticks overlap, stop half-way or
\* move the cursor back (applyBalanceEvent compares ledgerSeq).
THEOREM ProjectionsAreReplays == Spec => []ProjectionsReplay
<1>1. RelayInv => ProjectionsReplay
  <2> SUFFICES ASSUME RelayInv PROVE ProjectionsReplay
    OBVIOUS
  <2>1. TypeOK /\ ProjectionsKnow
    BY DEF RelayInv
  <2>2. \A k \in 1 .. cursor : mined[k] => k \in applied
    BY <2>1 DEF ProjectionsKnow, Covered
  <2>3. ASSUME NEW m \in Members, AppliedMints(m) # {}
        PROVE  balance[m].amount = BalanceAfter(m, Latest(AppliedMints(m)))
    <3>1. BalanceRow(m)
      BY <2>1 DEF ProjectionsKnow
    <3>2. PICK k \in AppliedMints(m) :
            /\ \A j \in AppliedMints(m) : j <= k
            /\ balance[m] = [amount |-> BalanceAfter(m, k), seq |-> Cardinality(Moves(k))]
      BY <2>3, <3>1 DEF BalanceRow
    <3>3. \A j \in AppliedMints(m) : j \in Nat
      BY <2>1, MintsFinite, Lengths
    <3>4. Latest(AppliedMints(m)) = k
      <4>1. \A x \in AppliedMints(m) : (\A y \in AppliedMints(m) : x >= y) => x = k
        BY <3>2, <3>3
      <4>2. \A y \in AppliedMints(m) : k >= y
        BY <3>2, <3>3
      <4>3. Max(AppliedMints(m)) = k
        BY <4>1, <4>2 DEF Max
      <4> QED
        BY <2>3, <4>3 DEF Latest
    <3> QED
      BY <3>2, <3>4
  <2>4. \A m \in Members :
          minted[m] = SumFunction([k \in AppliedMints(m) |-> Call[sent[k]].amount])
    BY <2>1 DEF ProjectionsKnow
  <2> QED
    BY <2>2, <2>3, <2>4 DEF ProjectionsReplay
<1> QED
  BY <1>1, RelayInvHolds, PTL

\* No late answer of an invocation moves a verified or reverted action: every update names
\* the status it expects.
THEOREM SettledActionsStay == Spec => SettledForGood
<1>1. RelayInv /\ [Next]_vars =>
        \A a \in Actions :
          action[a].status \in {"verified", "reverted"} => action'[a].status = action[a].status
  <2> SUFFICES ASSUME RelayInv, [Next]_vars, NEW a \in Actions,
                      action[a].status \in {"verified", "reverted"}
               PROVE  action'[a].status = action[a].status
    OBVIOUS
  <2>1. RowStep(a)
    BY NextActionStep, RowSteps DEF RelayInv
  <2>2. action[a] # NoAction
    BY NoneDiffers DEF NoAction, Statuses
  <2> QED
    BY <2>1, <2>2 DEF RowStep, Justified
<1>2. RelayInv /\ [Next]_vars =>
        [\A a \in Actions :
           action[a].status \in {"verified", "reverted"} => action'[a].status = action[a].status]_vars
  BY <1>1
<1> QED
  BY <1>2, RelayInvHolds, PTL DEF Spec, SettledForGood
=============================================================================
