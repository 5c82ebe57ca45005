---------------------------- MODULE EngineLedger ----------------------------
(* The transactions of lib/engine that move tokens: contribution mints,       *)
(* advances, reversals, epoch switches and the initial allocation, and the    *)
(* approvals of advance requests.  Each action below is the end of such a     *)
(* transaction: the checks on what it has read and locked, and its writes.    *)
EXTENDS EngineDatabase

Entry(kind, m, amount, balanceAfter, supplyAfter) ==
  [kind |-> kind, member |-> m, amount |-> amount, balanceAfter |-> balanceAfter,
   supplyAfter |-> supplyAfter, pending |-> FALSE, epoch |-> 0, contribution |-> None,
   request |-> None, proposal |-> None, of |-> 0]

Credit(m, active, pending, earned) ==
  balance' = [balance EXCEPT ![m] = [total |-> @.total + active + pending, active |-> @.active + active,
                                     pending |-> @.pending + pending, earned |-> @.earned + earned]]

\* The guarded increments of an epoch's meters.
Metered(n, regular, advance) ==
  /\ epochs[n].regular + regular <= Budget(epochs[n])
  /\ epochs[n].advanced + advance <= epochs[n].maxAdvance
  /\ epochs' = [epochs EXCEPT ![n].regular = @ + regular, ![n].advanced = @ + advance]

\* A request is used up by what has been minted on it.
Spend(r, amount) == request' = [request EXCEPT ![r].status = "executed", ![r].approved = amount]

-----------------------------------------------------------------------------
(* mintForContribution *)

StartMint(t) ==
  \E call \in MintCalls :
    Start(t, "mint", [NoInput EXCEPT !.id = call.contribution, !.request = call.request,
                                     !.proposal = call.proposal])

WithinCap(e, earned, amount) == earned + amount <= BpsOf(e.base, policy.rates.memberCap)

\* A related party's mint needs a passed proposal for it, or a second approver.
RelatedPartyApproved(m, p) ==
  m \in RelatedParties /\ p # None =>
    /\ Passed(p)
    /\ proposal[p].about = [type |-> "related_party_mint", target |-> m]
    /\ \A i \in DOMAIN ledger : ledger[i].proposal # p

AdvanceApproved(r, e, advance) ==
  LET path == ApprovalPath(CumulativeBps(e.advanced, advance, e.base), r.member \in RelatedParties, FALSE) IN
  CASE path = "system_forbidden" -> FALSE
    [] path = "community_proposal" -> r.proposal # None /\ proposal[r.proposal].status = "recorded"
    [] path = "dual_admin" -> r.second
    [] OTHER -> TRUE

Ceiling(r) == IF r.approved # 0 THEN r.approved ELSE r.asked

SplitAllowed(r, c, e, advance) ==
  /\ r.status = "approved"
  /\ c \in r.covers
  /\ advance <= Ceiling(r)
  /\ AdvanceApproved(r, e, advance)
  /\ e.debt = 0

\* The unique key (contributionId, budgetSource).
LegsUnique(c, legs) ==
  \A i \in DOMAIN ledger : ledger[i].contribution = c => ledger[i].kind \notin {legs[k].kind : k \in DOMAIN legs}

Legs(t, regular, advance) ==
  LET seen == txn[t].seen
      m == MemberOf(txn[t])
      Leg(kind, part, upTo) ==
        [Entry(kind, m, part, seen.balance.total + upTo, seen.supply + upTo)
           EXCEPT !.epoch = seen.epoch, !.contribution = txn[t].in.id, !.proposal = txn[t].in.proposal]
  IN (IF regular > 0 THEN <<Leg("regular", regular, regular)>> ELSE << >>)
     \o (IF advance > 0
         THEN <<[Leg("advance", advance, regular + advance)
                   EXCEPT !.pending = TRUE, !.request = txn[t].in.request]>>
         ELSE << >>)

mintForContribution(t) ==
  /\ Ready(t, "mint")
  /\ LET seen == txn[t].seen
         in == txn[t].in
         c == in.id
         m == MemberOf(txn[t])
         e == epochs[seen.epoch]
         amount == ContributionOf[c].amount
         regular == IF amount <= Remaining(e) THEN amount ELSE Monus(Remaining(e), 0)
         advance == amount - regular
         legs == Legs(t, regular, advance)
     IN /\ ~seen.used
        /\ seen.epoch # 0
        /\ WithinCap(e, seen.balance.earned, amount)
        /\ RelatedPartyApproved(m, in.proposal)
        /\ advance > 0 => in.request # None /\ SplitAllowed(seen.request, c, e, advance)
        /\ LegsUnique(c, legs)
        /\ Len(ledger) + Len(legs) <= MaxLedger
        /\ ledger' = ledger \o legs
        /\ supply' = supply + amount
        /\ Credit(m, regular, advance, regular)
        /\ Metered(seen.epoch, regular, advance)
        /\ IF advance > 0 THEN Spend(in.request, advance) ELSE UNCHANGED request
  /\ Finish(t)
  /\ UNCHANGED <<policy, versions, proposal>>

-----------------------------------------------------------------------------
(* mintInitialAllocation, run by the script that seeds a community *)

StartInitialAllocation(t) == Start(t, "genesis", NoInput)

mintInitialAllocation(t) ==
  /\ Ready(t, "genesis")
  /\ ~txn[t].seen.used
  /\ Len(ledger) + Len(Allocation) <= MaxLedger
  /\ ledger' = ledger \o [k \in 1 .. Len(Allocation) |->
       LET to == Allocation[k] IN
       Entry("genesis", to.member, to.amount, balance[to.member].total + to.amount,
             txn[t].seen.supply + to.upTo)]
  /\ balance' = [m \in Members |->
       IF \E k \in DOMAIN Allocation : Allocation[k].member = m
       THEN LET k == CHOOSE k \in DOMAIN Allocation : Allocation[k].member = m IN
            [balance[m] EXCEPT !.total = @ + Allocation[k].amount, !.active = @ + Allocation[k].amount]
       ELSE balance[m]]
  /\ supply' = supply + Allocation[Len(Allocation)].upTo
  /\ Finish(t)
  /\ UNCHANGED <<epochs, request, policy, versions, proposal>>

-----------------------------------------------------------------------------
(* Advance requests *)

StartCreateRequest(t) ==
  \E r \in Requests, a \in Asks :
    /\ request[r] = NoRequest
    /\ Start(t, "createRequest", [NoInput EXCEPT !.id = r, !.choice = a])

createRequest(t) ==
  /\ Ready(t, "createRequest")
  /\ LET r == txn[t].in.id
         a == txn[t].in.choice
         n == txn[t].seen.epoch
         path == ApprovalPath(CumulativeBps(epochs[n].advanced, a.amount, epochs[n].base),
                              a.member \in RelatedParties, a.special)
     IN /\ n # 0
        /\ epochs[n].debt = 0
        /\ path \in {"dual_admin", "community_proposal"}
        /\ request[r] = NoRequest
        /\ request' = [request EXCEPT ![r] =
             [NoRequest EXCEPT !.status = IF path = "dual_admin" THEN "pending_second_approval"
                                          ELSE "pending_proposal",
                               !.member = a.member, !.asked = a.amount, !.epoch = n, !.covers = a.covers]]
  /\ Finish(t)
  /\ UNCHANGED <<epochs, supply, ledger, balance, policy, versions, proposal>>

StartOnRequest(t) ==
  \E kind \in {"secondApprove", "reject", "execute"}, r \in Requests :
    Start(t, kind, [NoInput EXCEPT !.id = r, !.request = r])

StartAttach(t) ==
  \E r \in Requests, p \in Proposals :
    /\ proposal[p].about = [type |-> "budget_advance", target |-> r]
    /\ Start(t, "attach", [NoInput EXCEPT !.id = r, !.request = r, !.proposal = p])

\* The status was read without a lock and is written whatever it is by now.
secondApprove(t) ==
  /\ Ready(t, "secondApprove")
  /\ txn[t].seen.request.status = "pending_second_approval"
  /\ request' = [request EXCEPT ![txn[t].in.id].status = "approved", ![txn[t].in.id].second = TRUE]
  /\ Finish(t)
  /\ UNCHANGED <<epochs, supply, ledger, balance, policy, versions, proposal>>

reject(t) ==
  /\ Ready(t, "reject")
  /\ txn[t].seen.request.status \in {"pending_second_approval", "pending_proposal"}
  /\ request' = [request EXCEPT ![txn[t].in.id].status = "rejected"]
  /\ Finish(t)
  /\ UNCHANGED <<epochs, supply, ledger, balance, policy, versions, proposal>>

attachProposal(t) ==
  /\ Ready(t, "attach")
  /\ txn[t].seen.request.status = "pending_proposal"
  /\ txn[t].seen.request.proposal = None
  /\ request' = [request EXCEPT ![txn[t].in.id].proposal = txn[t].in.proposal]
  /\ Finish(t)
  /\ UNCHANGED <<epochs, supply, ledger, balance, policy, versions, proposal>>

ExecutionApproved(r, bps) ==
  IF r.proposal # None THEN proposal[r.proposal].status = "recorded"
  ELSE bps <= 1000 /\ r.member \notin RelatedParties /\ r.second

\* Mutant: no check for an earlier mint on the request.
Unguarded(t) == TRUE
NotMintedOn(t) == ~MintedOn(txn[t].in.id)

ExecutionEntry(t, amount) ==
  LET seen == txn[t].seen IN
  [Entry("execution", seen.request.member, amount, seen.balance.total + amount, seen.supply + amount)
     EXCEPT !.pending = TRUE, !.epoch = seen.epoch, !.request = txn[t].in.id,
            !.proposal = seen.request.proposal]

\* It must not fit the regular budget, and there is no advance while one is repaid.
MayExecute(t, r, e, amount) ==
  LET bps == CumulativeBps(e.advanced, amount, e.base) IN
  /\ r.status = "approved"
  /\ NotMintedOn(t)
  /\ Remaining(e) < amount
  /\ e.debt = 0
  /\ bps <= 2500 /\ bps <= policy.rates.maxAdvance
  /\ ExecutionApproved(r, bps)

\* The request is the row read before the epoch was locked; an executed request,
\* or one that has a mint by now, is answered with that mint.
execute(t) ==
  /\ Ready(t, "execute")
  /\ LET r == txn[t].seen.request
         n == txn[t].seen.epoch
         amount == Ceiling(r)
     IN /\ n # 0
        /\ MayExecute(t, r, epochs[n], amount)
        /\ Len(ledger) < MaxLedger
        /\ ledger' = Append(ledger, ExecutionEntry(t, amount))
        /\ supply' = supply + amount
        /\ Credit(r.member, 0, amount, 0)
        /\ Metered(n, 0, amount)
        /\ Spend(txn[t].in.id, amount)
  /\ Finish(t)
  /\ UNCHANGED <<policy, versions, proposal>>

-----------------------------------------------------------------------------
(* reverseMint *)

StartReverse(t) ==
  \E i \in DOMAIN ledger, call \in Reversals :
    /\ ledger[i].kind # "reversal"
    /\ Start(t, "reverse", [NoInput EXCEPT !.id = i, !.proposal = call.proposal, !.choice = call])

ReversalApproved(t) ==
  LET in == txn[t].in IN
  in.choice.voted \/ (ledger[in.id].kind # "genesis" /\ MemberOf(txn[t]) \in RelatedParties) =>
    /\ in.proposal # None
    /\ Passed(in.proposal)
    /\ proposal[in.proposal].about = [type |-> "token_reversal", target |-> in.id]

reverseMint(t) ==
  /\ Ready(t, "reverse")
  /\ LET i == txn[t].in.id
         m == MemberOf(txn[t])
         seen == txn[t].seen
         asked == txn[t].in.choice.amount
         amount == IF asked = 0 THEN seen.mint.amount ELSE asked
         active == IF seen.mint.pending THEN 0 ELSE amount
         pending == amount - active
     IN /\ ReversalApproved(t)
        /\ ~Reversed(i)
        /\ amount <= seen.mint.amount
        /\ active <= seen.balance.active /\ pending <= seen.balance.pending
        /\ amount <= seen.balance.total /\ amount <= seen.supply
        /\ Len(ledger) < MaxLedger
        /\ ledger' = Append(ledger,
             [Entry("reversal", m, amount, seen.balance.total - amount, seen.supply - amount) EXCEPT !.of = i])
        /\ supply' = supply - amount
        /\ Credit(m, -active, -pending, 0)
  /\ Finish(t)
  /\ UNCHANGED <<epochs, request, policy, versions, proposal>>

-----------------------------------------------------------------------------
(* Epochs *)

StartCloseEpoch(t) ==
  \E n \in DOMAIN epochs : Start(t, "close", [NoInput EXCEPT !.id = n])

\* Mutant: the advances of the closing epoch are forgiven.
ServicedDebt(e) == Monus(e.debt, e.base)
CarriedDebt(e) == e.advanced + Monus(e.debt, e.base)

\* activatePendingVersion
PolicyDue(p, n) == p.pending # None /\ p.pending.epoch = n
Activated(p) == [version |-> p.pending.version, rates |-> p.pending.rates, pending |-> None]

closeEpoch(t) ==
  /\ Ready(t, "close")
  /\ LET n == txn[t].in.id
         seen == txn[t].seen
         due == PolicyDue(seen.policy, n + 1)
         rates == IF due THEN seen.policy.pending.rates ELSE seen.policy.rates
     IN /\ seen.epoch = n
        /\ n = Len(epochs)       \* the number of the next epoch is unique
        /\ n < MaxEpoch
        /\ epochs' = Append([epochs EXCEPT ![n].status = "closed"],
                            NewEpoch(seen.supply, CarriedDebt(epochs[n]), rates))
        /\ policy' = IF due THEN Activated(seen.policy) ELSE policy
        /\ balance' = [m \in Members |->
             [balance[m] EXCEPT !.active = @ + balance[m].pending, !.pending = 0, !.earned = 0]]
        /\ ledger' = [i \in DOMAIN ledger |->
             [ledger[i] EXCEPT !.pending = @ /\ i \notin MaturingAt(n + 1)]]
  /\ Finish(t)
  /\ UNCHANGED <<supply, request, versions, proposal>>

StartCreateNextEpoch(t) == Start(t, "createNext", NoInput)

createNextEpoch(t) ==
  /\ Ready(t, "createNext")
  /\ ~txn[t].seen.used
  /\ txn[t].seen.epoch = Len(epochs)       \* the epoch number is unique
  /\ Len(epochs) < MaxEpoch
  /\ epochs' = Append(epochs, NewEpoch(txn[t].seen.supply, 0, txn[t].seen.policy.rates))
  /\ Finish(t)
  /\ UNCHANGED <<supply, ledger, balance, request, policy, versions, proposal>>

-----------------------------------------------------------------------------

LedgerStart(t) ==
  \/ StartMint(t) \/ StartInitialAllocation(t) \/ StartCreateRequest(t) \/ StartOnRequest(t)
  \/ StartAttach(t) \/ StartReverse(t) \/ StartCloseEpoch(t) \/ StartCreateNextEpoch(t)

LedgerCommit(t) ==
  \/ mintForContribution(t) \/ mintInitialAllocation(t) \/ createRequest(t) \/ secondApprove(t)
  \/ reject(t) \/ attachProposal(t) \/ execute(t) \/ reverseMint(t) \/ closeEpoch(t) \/ createNextEpoch(t)
=============================================================================
