---------------------------- MODULE RelayIndexer ----------------------------
(* The indexer's ticks among those of the relay: they fold the contract's     *)
(* events into the projections and finish the chain actions.                  *)
EXTENDS Relay

CONSTANTS MaxRange      \* maxBlockRange

ASSUME RangeAssumption == MaxRange \in Nat

VARIABLES
  applied,        \* blocks whose ChainEvent row is applied
  balance,        \* MemberChainBalance rows: balance and ledgerSeq
  supply,         \* CommunityTokenState row
  minted,         \* MemberEpochMintCounter rows
  cursor          \* SyncCheckpoint.lastBlock

projections == <<applied, balance, supply, minted>>
vars == <<chainVars, relayVars, worker, faults, projections, cursor>>

NoRow == [amount |-> 0, seq |-> -1]

StartSync(w) ==
  /\ Starts(w, [Idle EXCEPT !.kind = "sync", !.step = "window", !.from = cursor + 1])
  /\ UNCHANGED <<chainVars, relayVars, faults, projections, cursor>>

\* Mutant: a window of one block is taken for none.
NotPast(from, to) == to <= from

Empty(from, to) == to < from

\* The head is read after the cursor.
readWindow(w) ==
  /\ At(w, "sync", "window")
  /\ LET to == Min({Len(mined), worker[w].from + MaxRange - 1}) IN
     IF Empty(worker[w].from, to) THEN Ends(w)
     ELSE worker' = [worker EXCEPT ![w].to = to, ![w].step = "apply"]
  /\ UNCHANGED <<chainVars, relayVars, faults, projections, cursor>>

\* The row is new, or older by ledgerSeq.
Fresher(row, amount, seq) == IF seq > row.seq THEN [amount |-> amount, seq |-> seq] ELSE row

Unsettled(a) == action[a].status \notin {None, "verified", "superseded", "reverted"}

applyBalanceEvent(k) ==
  LET a == sent[k]  m == Call[a].member IN
  /\ balance' = [balance EXCEPT ![m] = Fresher(@, BalanceAfter(m, k), LedgerSeq(k))]
  /\ supply' = Fresher(supply, SupplyAfter(k), LedgerSeq(k))
  /\ minted' = IF a \in Calls("mint") THEN [minted EXCEPT ![m] = @ + Call[a].amount] ELSE minted
  /\ action' = IF Unsettled(a) THEN [action EXCEPT ![a].status = "verified"] ELSE action

\* Mutant: an applied event is applied again.
Reapplied(k) == mined[k]

Unapplied(k) == mined[k] /\ k \notin applied

\* One event, in a transaction of its own; an event already applied is skipped.
applyEvent(w) ==
  /\ At(w, "sync", "apply")
  /\ LET k == worker[w].from IN
     /\ IF Unapplied(k)
        THEN /\ applied' = applied \cup {k}
             /\ IF sent[k] \in Direct THEN UNCHANGED <<balance, supply, minted, action>>
                ELSE applyBalanceEvent(k)
        ELSE UNCHANGED <<projections, action>>
     /\ worker' = [worker EXCEPT ![w].from = k + 1,
                                 ![w].step = IF k = worker[w].to THEN "advance" ELSE "apply"]
  /\ UNCHANGED <<chainVars, signatures, request, faults, cursor>>

\* Mutant: the cursor names the next block, as worker's from does.
AdvancePast(w) == cursor' = worker[w].to + 1

AdvanceCursor(w) == cursor' = worker[w].to

advanceCursor(w) ==
  /\ At(w, "sync", "advance")
  /\ AdvanceCursor(w)
  /\ Ends(w)
  /\ UNCHANGED <<chainVars, relayVars, faults, projections>>

\* scripts/rebuild-projections, run while no sync tick is under way.
rebuildProjections ==
  /\ \A w \in Workers : worker[w].kind # "sync"
  /\ Fault("rebuild")
  /\ applied' = {}
  /\ balance' = [m \in Members |-> NoRow]
  /\ supply' = NoRow
  /\ minted' = [m \in Members |-> 0]
  /\ cursor' = 0
  /\ UNCHANGED <<chainVars, relayVars, worker>>

-----------------------------------------------------------------------------

Init ==
  /\ RelayInit
  /\ applied = {}
  /\ balance = [m \in Members |-> NoRow]
  /\ supply = NoRow
  /\ minted = [m \in Members |-> 0]
  /\ cursor = 0

Works(w) ==
  \/ addSignature(w) \/ createChainAction(w) \/ markReadyToSubmit(w) \/ signatureRefused(w)
  \/ claim(w) \/ send(w) \/ recordTransaction(w) \/ markSubmitted(w) \/ requeue(w) \/ checkReceipt(w)

Syncs(w) == StartSync(w) \/ readWindow(w) \/ applyEvent(w) \/ advanceCursor(w)

Next ==
  \/ (Mine \/ Expire) /\ UNCHANGED <<relayVars, worker, faults, projections, cursor>>
  \/ createDirectAction /\ UNCHANGED <<projections, cursor>>
  \/ \E w \in Workers :
       \/ /\ \/ StartSign(w) \/ StartSubmitRequest(w) \/ StartSubmit(w) \/ StartConfirm(w)
             \/ Works(w) \/ Killed(w)
          /\ UNCHANGED <<projections, cursor>>
       \/ Syncs(w)
  \/ rebuildProjections

Spec == Init /\ [][Next]_vars

\* Every tick is started again each minute and an invocation goes on or is killed;
\* the bound on invocations does not keep the sync tick out for ever.  Nobody has to
\* sign, submit or expire anything.
FairSpec ==
  /\ Spec
  /\ WF_vars(Mine /\ UNCHANGED <<relayVars, worker, faults, projections, cursor>>)
  /\ \A w \in Workers :
       /\ WF_vars((Works(w) /\ UNCHANGED <<projections, cursor>>) \/ Syncs(w))
       /\ SF_vars(StartSync(w))

-----------------------------------------------------------------------------
(* Properties *)

Statuses == {"awaiting_signatures", "ready_to_submit", "submitting", "submitted", "confirming",
             "verified", "reverted"}
Row == [amount : Int, seq : Int]
Steps == {"add", "ensure", "mark", "next", "send", "record", "submitted", "requeue", "window", "apply", "advance"}
Kinds == {"sign", "submit", "confirm", "sync"}

ASSUME NoneAssumption == None \notin Actions \cup Statuses \cup Steps \cup Kinds

\* Every row is of its type, and a transaction row names a broadcast transaction.
TypeOK ==
  /\ sent \in Seq(Actions) /\ mined \in Seq(BOOLEAN) /\ Len(mined) <= Len(sent)
  /\ signatures \in [Actions -> SUBSET Signers]
  /\ request \in [Actions -> {"collecting", "ready"}]
  /\ action \in [Actions -> [status : Statuses \cup {None}, signed : SUBSET Signers, tx : 0 .. Len(sent)]]
  /\ \A w \in Workers : worker[w].step \in Steps \cup {None}
  /\ applied \subseteq DOMAIN mined
  /\ balance \in [Members -> Row] /\ supply \in Row
  /\ minted \in [Members -> Nat]
  /\ cursor \in 0 .. Len(mined)

\* However signatures race, a call is queued only with signatures of as many
\* different approvers as it needs.
FullySigned ==
  \A a \in Actions \ Direct :
    /\ request[a] = "ready" => Cardinality(signatures[a]) >= Required
    /\ action[a] # NoAction => Cardinality(action[a].signed) >= Required

Holding(w, a) == worker[w].kind = "submit" /\ worker[w].at = a

\* Overlapping ticks never submit one action at the same time, whatever failed before.
ClaimExclusive ==
  \A a \in Actions, v, w \in Workers : Holding(v, a) /\ Holding(w, a) => v = w

Broadcasts(a) == {k \in DOMAIN sent : sent[k] = a}

\* The status of an action says what happened on chain, except that a call broadcast
\* twice may be called reverted though the other transaction executed it.
StatusTruthful ==
  \A a \in Actions :
    /\ action[a].status \in {"verified", "confirming"} => Executed(a)
    /\ action[a].status = "reverted" => ~Executed(a) \/ Cardinality(Broadcasts(a)) > 1

\* No late answer of a tick moves a verified or reverted action.
SettledForGood ==
  [][\A a \in Actions : action[a].status \in {"verified", "reverted"} => action'[a].status = action[a].status]_vars

AppliedMints(m) == {k \in applied : sent[k] \in Calls("mint") /\ Call[sent[k]].member = m}
Latest(S) == IF S = {} THEN 0 ELSE Max(S)

\* The projections are a replay of the chain: no event before the cursor is missing,
\* none counts twice, and balances are those after the newest applied mint, whatever
\* ticks overlap, stop half-way or move the cursor back.
ProjectionsReplay ==
  /\ \A k \in 1 .. cursor : mined[k] => k \in applied
  /\ \A m \in Members :
       /\ minted[m] = SumFunction([k \in AppliedMints(m) |-> Call[sent[k]].amount])
       /\ AppliedMints(m) # {} => balance[m].amount = BalanceAfter(m, Latest(AppliedMints(m)))

\* A replayed chain gives the balances of the chain, as projection.ts:9 says of mints
\* and reversals alike.
BalancesOfChain ==
  \A m \in Members :
    (cursor = Len(mined) /\ applied # {} /\ \A w \in Workers : worker[w] = Idle)
      => (MovesOf(m, cursor) # {} => balance[m].amount = BalanceAfter(m, cursor))

\* Whatever invocations are killed, a mint or reversal that took place is shown as
\* verified in the end, unless it was broadcast twice.
ExecutedIsVerified ==
  \A a \in Actions \ Direct :
    Executed(a) ~> action[a].status = "verified" \/ Cardinality(Broadcasts(a)) > 1
=============================================================================
