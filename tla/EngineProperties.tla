-------------------------- MODULE EngineProperties --------------------------
(* What the engine's transactions promise together, whatever way they         *)
(* interleave.                                                                *)
EXTENDS EngineGovernance

Mints == {i \in DOMAIN ledger : ledger[i].kind # "reversal"}
MintsIn(n, kinds) == {i \in Mints : ledger[i].epoch = n /\ ledger[i].kind \in kinds}
AmountOver(S) == SumFunctionOnSet([i \in DOMAIN ledger |-> ledger[i].amount], S)
StandingOver(S) == AmountOver(S) - AmountOver({j \in DOMAIN ledger : ledger[j].of \in S})
SupplyAt(k) == IF k = 0 THEN 0 ELSE ledger[k].supplyAfter

-----------------------------------------------------------------------------
(* Types *)

EpochRow == [status : {"active", "closed"}, opening : Nat, base : Nat, debt : Nat,
             maxAdvance : Nat, regular : Nat, advanced : Nat]
EntryRow == [kind : {"regular", "advance", "execution", "genesis", "reversal"}, member : Members,
             amount : Nat \ {0}, balanceAfter : Nat, supplyAfter : Nat, pending : BOOLEAN,
             epoch : Nat, contribution : Contributions \cup {None}, request : Requests \cup {None},
             proposal : Proposals \cup {None}, of : Nat]
BalanceRow == [total : Nat, active : Nat, pending : Nat, earned : Nat]
PolicyRow == [version : Nat, rates : RatesOf,
              pending : {None} \cup [version : Nat, rates : RatesOf, epoch : Nat]]

\* Every row is of its type and every lock belongs to an open transaction.
TypeOK ==
  /\ epochs \in Seq(EpochRow)
  /\ supply \in Nat
  /\ ledger \in Seq(EntryRow)
  /\ balance \in [Members -> BalanceRow]
  /\ \A r \in Requests :
       request[r].status \in {None, "pending_second_approval", "pending_proposal", "approved",
                              "rejected", "executed"}
  /\ policy \in PolicyRow
  /\ versions \subseteq Nat
  /\ \A p \in Proposals : proposal[p].status \in {None, "draft", "active", "recorded"}
  /\ holder \in [Rows -> Txns \cup {Free}]
  /\ \A row \in Rows : holder[row] # Free => txn[holder[row]] # Idle

-----------------------------------------------------------------------------
(* The ledger *)

Book == INSTANCE LedgerBook
  WITH book <- [i \in DOMAIN ledger |->
                  [member |-> ledger[i].member, balanceAfter |-> ledger[i].balanceAfter,
                   change |-> IF ledger[i].kind = "reversal" THEN -ledger[i].amount ELSE ledger[i].amount,
                   supplyAfter |-> ledger[i].supplyAfter]],
       total <- [m \in Members |-> balance[m].total]

\* Mints, executions, reversals and the initial allocation, in any interleaving,
\* implement an append-only book in ledgerSeq order: no transaction computes its
\* snapshots from a balance or a supply another one is about to change.
LedgerImplementsBook == Book!Spec

\* A balance's governance columns are what its mint rows say: active and pending
\* weight are the standing amounts of the active and the pending mints, although
\* an epoch switch updates the two layers apart and a reversal reads one of them.
GovernanceLayersAgree ==
  \A m \in Members :
    LET of == {i \in Mints : ledger[i].member = m} IN
    /\ balance[m].active = StandingOver({i \in of : ~ledger[i].pending})
    /\ balance[m].pending = StandingOver({i \in of : ledger[i].pending})

MetersAgree(n) ==
  /\ epochs[n].regular = AmountOver(MintsIn(n, {"regular"}))
  /\ epochs[n].advanced = AmountOver(MintsIn(n, {"advance", "execution"}))

EarnedIn(n, m) == AmountOver({i \in MintsIn(n, {"regular"}) : ledger[i].member = m})

WithinBudgets(n) ==
  /\ MetersAgree(n)
  /\ epochs[n].regular <= Budget(epochs[n])
  /\ epochs[n].advanced <= epochs[n].maxAdvance
  /\ n \in ActiveEpochs =>
       \A m \in Members : EarnedIn(n, m) <= BpsOf(epochs[n].base, policy.rates.memberCap)

\* An epoch issues no more than its budgets, whoever mints, splits and executes at the
\* same time, and what was issued before it is covered by the budgets until then or
\* carried into it as its debt.
IssuanceCarried ==
  \A n \in DOMAIN epochs :
    /\ WithinBudgets(n)
    /\ AmountOver(UNION {MintsIn(k, {"regular", "advance", "execution"}) : k \in 1 .. n - 1})
         <= SumFunctionOnSet([k \in DOMAIN epochs |-> epochs[k].base], 1 .. n - 1) + epochs[n].debt

\* The opening supply of an epoch is the supply at one moment of the ledger, after
\* every mint of the epochs before it and before every mint of its own or later,
\* although closeEpoch reads the supply without locking it.
OpeningSupplyAfterMints ==
  \A n \in 2 .. Len(epochs) : \E k \in 0 .. Len(ledger) :
    /\ epochs[n].opening = SupplyAt(k)
    /\ \A i \in Mints : ledger[i].kind # "genesis" => (ledger[i].epoch < n <=> i <= k)

\* Two transactions never wait for each other, unless one closes an epoch: all
\* the others take the epoch, then the state, then the balance.
NoLockCycle ==
  \A t, u \in Txns : Waits(t, u) /\ Waits(u, t) => "close" \in {txn[t].kind, txn[u].kind}

ExecutesAlone(i) ==
  ledger[i].kind = "execution" =>
    \A j \in DOMAIN ledger : ledger[j].request = ledger[i].request => j <= i

ForRelatedParty(i) == ledger[i].member \in RelatedParties /\ ledger[i].contribution # None

\* An approval is used once: an execution mints on a request no mint has used, however
\* many executions and split mints of it overlap, and one passed proposal authorises
\* the mint of one contribution of a related party.
ApprovalsUsedOnce ==
  /\ \A i \in DOMAIN ledger : ExecutesAlone(i)
  /\ \A i, j \in DOMAIN ledger :
       /\ ForRelatedParty(i) /\ ForRelatedParty(j)
       /\ ledger[i].proposal = ledger[j].proposal
       /\ ledger[i].proposal \in Proposals
       => ledger[i].contribution = ledger[j].contribution

\* A contribution is minted at most once, whatever its mints drew on: the comment
\* at mint-service.ts:436 says that any earlier mint excludes another.
ContributionMintedOnce ==
  \A c \in Contributions :
    AmountOver({i \in DOMAIN ledger : ledger[i].contribution = c}) <= ContributionOf[c].amount

-----------------------------------------------------------------------------
(* Proposals, advance requests and policies *)

\* A vote is weighed by the governance weights and the supply of one moment: the
\* snapshot of a proposal is that of the ledger after some entry.
SnapshotIsOfOneMoment ==
  \A p \in Proposals : proposal[p].epoch # 0 => \E k \in 0 .. Len(ledger) :
    /\ proposal[p].supply = SupplyAt(k)
    /\ \A m \in Members :
         LET active == {i \in Mints : /\ i <= k /\ ledger[i].member = m
                                      /\ \/ ledger[i].kind \in {"regular", "genesis"}
                                         \/ ledger[i].epoch < proposal[p].epoch}
         IN proposal[p].weight[m] =
              AmountOver(active) - AmountOver({j \in 1 .. k : ledger[j].of \in active})

\* Every ballot of a recorded proposal is in its result, also one cast at the
\* deadline while end() runs.
BallotsCounted ==
  \A p \in Proposals : proposal[p].status = "recorded" => proposal[p].voters = VoterCount(p)

\* An advance is minted only on a request that a second admin or a passed
\* proposal about that very request has approved.
AdvanceAuthorised ==
  \A i \in DOMAIN ledger : ledger[i].request \in Requests =>
    \/ request[ledger[i].request].second
    \/ \E p \in Proposals :
         Passed(p) /\ proposal[p].about = [type |-> "budget_advance", target |-> ledger[i].request]

\* Every passed policy proposal has a version of its own, which is in force, has
\* been or is the pending one, also when two proposals end together.
NoVersionLost ==
  /\ \A v \in versions : v <= policy.version \/ (policy.pending # None /\ policy.pending.version = v)
  /\ Cardinality(versions) = 1 + Cardinality(
       {p \in Proposals : Passed(p) /\ proposal[p].about.type = "token_policy_change"})
=============================================================================
