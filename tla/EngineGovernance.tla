-------------------------- MODULE EngineGovernance --------------------------
(* The transactions of proposal-service and policy-service, together with     *)
(* those of the ledger: proposals are snapshot under the ledger's locks, and  *)
(* an epoch switch activates the policy a proposal has left pending.          *)
EXTENDS EngineLedger

create ==
  \E p \in Proposals, a \in Purposes :
    /\ proposal[p] = NoProposal
    /\ proposal' = [proposal EXCEPT ![p] = [NoProposal EXCEPT !.status = "draft", !.about = a]]
    /\ UNCHANGED <<epochs, supply, ledger, balance, request, policy, versions, holder, txn>>

\* The end time of an active proposal passes.
Deadline ==
  \E p \in Proposals :
    /\ proposal[p].status = "active" /\ ~proposal[p].over
    /\ proposal' = [proposal EXCEPT ![p].over = TRUE]
    /\ UNCHANGED <<epochs, supply, ledger, balance, request, policy, versions, holder, txn>>

StartActivate(t) ==
  \E p \in Proposals : proposal[p] # NoProposal /\ Start(t, "activate", [NoInput EXCEPT !.id = p])

\* The supply was read when the state row was locked, the balances are read now.
activate(t) ==
  /\ Ready(t, "activate")
  /\ LET p == txn[t].in.id IN
     /\ txn[t].seen.status = "draft"
     /\ txn[t].seen.epoch # 0
     /\ proposal' = [proposal EXCEPT ![p] =
          [@ EXCEPT !.status = "active", !.epoch = txn[t].seen.epoch, !.supply = txn[t].seen.supply,
                    !.eligible = {m \in Members : HasBalance(m)},
                    !.weight = [m \in Members |-> balance[m].active]]]
  /\ Finish(t)
  /\ UNCHANGED <<epochs, supply, ledger, balance, request, policy, versions>>

\* The clock is read before the proposal is locked.
StartCastVote(t) ==
  \E p \in Proposals, m \in Members, option \in {"approve", "reject"} :
    /\ ~proposal[p].over
    /\ Start(t, "castVote", [NoInput EXCEPT !.id = p, !.member = m, !.choice = option])

\* Mutant: a ballot is not held against the status locked.
lateVote(t) ==
  /\ Ready(t, "castVote")
  /\ LET in == txn[t].in IN
     /\ in.member \in proposal[in.id].eligible
     /\ proposal[in.id].vote[in.member] = None
     /\ proposal' = [proposal EXCEPT ![in.id].vote[in.member] = in.choice]
  /\ Finish(t)
  /\ UNCHANGED <<epochs, supply, ledger, balance, request, policy, versions>>

castVote(t) ==
  /\ Ready(t, "castVote")
  /\ LET in == txn[t].in IN
     /\ txn[t].seen.status = "active"
     /\ in.member \in proposal[in.id].eligible
     /\ proposal[in.id].vote[in.member] = None
     /\ proposal' = [proposal EXCEPT ![in.id].vote[in.member] = in.choice]
  /\ Finish(t)
  /\ UNCHANGED <<epochs, supply, ledger, balance, request, policy, versions>>

StartEnd(t) ==
  \E p \in Proposals : proposal[p].over /\ Start(t, "end", [NoInput EXCEPT !.id = p])

Voters(p, option) == {m \in Members : proposal[p].vote[m] = option}
Weight(p, option) == MapThenSumSet(LAMBDA m : proposal[p].weight[m], Voters(p, option))
VoterCount(p) == Cardinality(Voters(p, "approve")) + Cardinality(Voters(p, "reject"))

\* A plurality wins; a tie, or no vote at all, is a rejection.
Winner(p) ==
  IF \/ Weight(p, "approve") > Weight(p, "reject")
     \/ Voters(p, "approve") # {} /\ Voters(p, "reject") = {}
  THEN "approve" ELSE "reject"

\* Mutant: a quorum alone passes.
QuorumOnly(p) == VoterCount(p) >= MinVoters
Approved(p) == Winner(p) = "approve" /\ VoterCount(p) >= MinVoters

\* createPendingVersion
\* Mutant: the unique version number is not relied on.
NothingPending(t) == txn[t].seen.policy.pending = None
VersionFree(t) ==
  /\ txn[t].seen.policy.pending = None
  /\ txn[t].seen.policy.version + 1 \notin versions

PendingVersion(t, rates) ==
  [version |-> txn[t].seen.policy.version + 1, rates |-> rates, epoch |-> txn[t].seen.epoch + 1]

Settle(t, about) ==
  \/ /\ about.type = "token_policy_change"
     /\ VersionFree(t)
     /\ txn[t].seen.epoch # 0
     /\ versions' = versions \cup {txn[t].seen.policy.version + 1}
     /\ policy' = [policy EXCEPT !.pending = PendingVersion(t, about.target)]
     /\ UNCHANGED request
  \/ /\ about.type = "budget_advance"
     /\ request' = IF request[about.target].status = "pending_proposal"
                   THEN [request EXCEPT ![about.target].status = "approved"] ELSE request
     /\ UNCHANGED <<policy, versions>>
  \/ /\ about.type \notin {"token_policy_change", "budget_advance"}
     /\ UNCHANGED <<request, policy, versions>>

end(t) ==
  /\ Ready(t, "end")
  /\ LET p == txn[t].in.id IN
     /\ txn[t].seen.status = "active"
     /\ IF Approved(p)
        THEN Settle(t, proposal[p].about)
        ELSE UNCHANGED <<request, policy, versions>>
     /\ proposal' = [proposal EXCEPT ![p].status = "recorded", ![p].winner = Winner(p),
                                     ![p].voters = VoterCount(p)]
  /\ Finish(t)
  /\ UNCHANGED <<epochs, supply, ledger, balance>>

-----------------------------------------------------------------------------

Next ==
  \/ create
  \/ Deadline
  \/ \E t \in Txns :
       \/ LedgerStart(t) \/ StartActivate(t) \/ StartCastVote(t) \/ StartEnd(t)
       \/ Statement(t)
       \/ \E row \in Rows : Lock(t, row)
       \/ LedgerCommit(t) \/ activate(t) \/ castVote(t) \/ end(t)
       \/ Rollback(t)

Spec == DatabaseInit /\ [][Next]_vars
=============================================================================
