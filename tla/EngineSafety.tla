---------------------------- MODULE EngineSafety ----------------------------
(***************************************************************************)
(* What the ledger engine promises, proved from what its transactions know *)
(* when they commit.                                                       *)
(***************************************************************************)
EXTENDS EngineProofs

(***************************************************************************)
(* Proposals.                                                              *)
(***************************************************************************)

\* A step leaves a proposal as it was, works on one that is not decided yet, or decides
\* an active one.
Ended(p) ==
  /\ proposal[p].status = "active" /\ proposal'[p].status = "recorded"
  /\ proposal'[p].winner = Winner(p) /\ proposal'[p].voters = VoterCount(p)
  /\ proposal'[p].about = proposal[p].about /\ proposal'[p].vote = proposal[p].vote
Prepared(p) ==
  /\ proposal[p].status # "recorded" /\ proposal'[p].status # "recorded"
  /\ proposal[p].status # None => proposal'[p].about = proposal[p].about
ProposalStep(p) == proposal'[p] = proposal[p] \/ Prepared(p) \/ Ended(p)

\* Only the end of a proposal decides it.
LEMMA EndEnds ==
  ASSUME EngineInv, NEW t \in Txns, end(t)
  PROVE  \A p \in Proposals :
           IF p = txn[t].in.id THEN Ended(p) ELSE proposal'[p] = proposal[p]
<1>1. Ready(t, "end") /\ txn[t].seen.status = "active"
  BY DEF end
<1>2. GivenTo("end", txn[t].in) /\ txn[t].seen.status = proposal[txn[t].in.id].status
  BY <1>1, ReadyKnows, NoneAssumption DEF TxnKinds
<1>3. PICK p \in Proposals : p = txn[t].in.id
  BY <1>2 DEF GivenTo
<1>4. PICK w, v : w = Winner(p) /\ v = VoterCount(p)
  OBVIOUS
<1>5. proposal' = [proposal EXCEPT ![p].status = "recorded", ![p].winner = w, ![p].voters = v]
  BY <1>3, <1>4 DEF end
<1>6. PICK old \in ProposalRow : old = proposal[p]
  BY DEF EngineInv, RowsTyped, GovernanceRows
<1>7. PICK new : new = [old EXCEPT !.status = "recorded", !.winner = w, !.voters = v]
  OBVIOUS
<1>8. DOMAIN proposal = Proposals
  BY DEF EngineInv, RowsTyped, GovernanceRows
<1>9. proposal'[p] = new /\ \A q \in Proposals \ {p} : proposal'[q] = proposal[q]
  BY <1>5, <1>6, <1>7, <1>8
<1>10. /\ new.status = "recorded" /\ new.winner = w /\ new.voters = v
       /\ new.about = old.about /\ new.vote = old.vote
  BY <1>6, <1>7 DEF ProposalRow
<1> QED
  BY <1>1, <1>2, <1>3, <1>4, <1>6, <1>9, <1>10 DEF Ended

\* The steps that lead up to it.
LEMMA VotesPrepare ==
  ASSUME EngineInv, NEW t \in Txns, activate(t) \/ castVote(t)
  PROVE  \A p \in Proposals : proposal'[p] = proposal[p] \/ Prepared(p)
<1>1. PICK kind \in {"activate", "castVote"} : Ready(t, kind) /\ txn[t].seen.status \in {"draft", "active"}
  BY DEF activate, castVote
<1>2. GivenTo(kind, txn[t].in) /\ txn[t].seen.status = proposal[txn[t].in.id].status
  <2>1. CASE kind = "activate"
    BY <1>1, <2>1, ReadyKnows, NoneAssumption DEF TxnKinds
  <2>2. CASE kind = "castVote"
    BY <1>1, <2>2, ReadyKnows, NoneAssumption DEF TxnKinds
  <2> QED
    BY <2>1, <2>2
<1>3. PICK p \in Proposals : p = txn[t].in.id
  BY <1>1, <1>2 DEF GivenTo
<1>4. PICK old \in ProposalRow : old = proposal[p]
  BY DEF EngineInv, RowsTyped, GovernanceRows
<1>5. DOMAIN proposal = Proposals
  BY DEF EngineInv, RowsTyped, GovernanceRows
<1>6. PICK new : /\ proposal' = [proposal EXCEPT ![p] = new]
                 /\ new.status # "recorded" /\ new.about = old.about
  <2>1. CASE activate(t)
    <3>1. PICK n, s, e, w : proposal' = [proposal EXCEPT ![p] =
            [@ EXCEPT !.status = "active", !.epoch = n, !.supply = s, !.eligible = e, !.weight = w]]
      BY <1>3, <2>1 DEF activate
    <3>2. PICK new : new = [old EXCEPT !.status = "active", !.epoch = n, !.supply = s, !.eligible = e, !.weight = w]
      OBVIOUS
    <3>3. new.status = "active" /\ new.about = old.about
      BY <3>2 DEF ProposalRow
    <3>4. proposal' = [proposal EXCEPT ![p] = new]
      BY <1>4, <1>5, <3>1, <3>2
    <3> QED
      BY <3>3, <3>4
  <2>2. CASE castVote(t)
    <3>1. txn[t].seen.status = "active"
      BY <2>2 DEF castVote
    <3>2. PICK m, c : proposal' = [proposal EXCEPT ![p].vote[m] = c]
      BY <1>3, <2>2 DEF castVote
    <3>3. PICK new : new = [old EXCEPT !.vote[m] = c]
      OBVIOUS
    <3>4. new.status = old.status /\ new.about = old.about
      BY <3>3 DEF ProposalRow
    <3>5. proposal' = [proposal EXCEPT ![p] = new]
      BY <1>4, <1>5, <3>2, <3>3
    <3> QED
      BY <1>2, <1>3, <1>4, <3>1, <3>4, <3>5
  <2> QED
    BY <2>1, <2>2
<1>7. old.status # "recorded"
  BY <1>1, <1>2, <1>3, <1>4
<1>8. proposal'[p] = new /\ \A q \in Proposals \ {p} : proposal'[q] = proposal[q]
  BY <1>5, <1>6
<1> QED
  BY <1>4, <1>6, <1>7, <1>8 DEF Prepared

LEMMA DraftsPrepare ==
  ASSUME EngineInv, create \/ Deadline
  PROVE  \A p \in Proposals : proposal'[p] = proposal[p] \/ Prepared(p)
<1>1. DOMAIN proposal = Proposals
  BY DEF EngineInv, RowsTyped, GovernanceRows
<1>0. PICK p \in Proposals : \E new :
        /\ proposal' = [proposal EXCEPT ![p] = new]
        /\ proposal[p].status # "recorded" /\ new.status # "recorded"
        /\ proposal[p].status # None => new.about = proposal[p].about
  <2>1. CASE create
    <3>1. PICK p \in Proposals, a \in Purposes :
            /\ proposal[p] = NoProposal
            /\ proposal' = [proposal EXCEPT ![p] = [NoProposal EXCEPT !.status = "draft", !.about = a]]
      BY <2>1 DEF create
    <3>2. PICK new : new = [NoProposal EXCEPT !.status = "draft", !.about = a]
      OBVIOUS
    <3>3. new.status = "draft" /\ proposal[p].status = None
      BY <3>1, <3>2 DEF NoProposal
    <3> QED
      BY <3>1, <3>2, <3>3, NoneAssumption
  <2>2. CASE Deadline
    <3>1. PICK p \in Proposals :
            /\ proposal[p].status = "active"
            /\ proposal' = [proposal EXCEPT ![p].over = TRUE]
      BY <2>2 DEF Deadline
    <3>2. PICK old \in ProposalRow : old = proposal[p]
      BY DEF EngineInv, RowsTyped, GovernanceRows
    <3>3. PICK new : new = [old EXCEPT !.over = TRUE]
      OBVIOUS
    <3>4. new.about = old.about /\ new.status = old.status
      BY <3>3 DEF ProposalRow
    <3> QED
      BY <1>1, <3>1, <3>2, <3>3, <3>4
  <2> QED
    BY <2>1, <2>2
<1>2. PICK new :
        /\ proposal' = [proposal EXCEPT ![p] = new]
        /\ proposal[p].status # "recorded" /\ new.status # "recorded"
        /\ proposal[p].status # None => new.about = proposal[p].about
  BY <1>0
<1>3. proposal'[p] = new /\ \A q \in Proposals \ {p} : proposal'[q] = proposal[q]
  BY <1>1, <1>2
<1> QED
  BY <1>2, <1>3 DEF Prepared

\* The steps that write no proposal.
LEMMA ProposalUntouched ==
  ASSUME NEW t \in Txns,
         \/ LedgerStart(t) \/ StartActivate(t) \/ StartCastVote(t) \/ StartEnd(t)
         \/ Statement(t) \/ (\E row \in Rows : Lock(t, row)) \/ LedgerCommit(t) \/ Rollback(t)
  PROVE  UNCHANGED proposal
<1>1. ASSUME NEW kind, NEW in, Start(t, kind, in)
      PROVE  UNCHANGED proposal
  BY <1>1 DEF Start, tables
<1>2. CASE LedgerStart(t)
  BY <1>1, <1>2 DEF LedgerStart, StartMint, StartInitialAllocation, StartCreateRequest,
     StartOnRequest, StartAttach, StartReverse, StartCloseEpoch, StartCreateNextEpoch
<1>3. CASE StartActivate(t) \/ StartCastVote(t) \/ StartEnd(t)
  BY <1>1, <1>3 DEF StartActivate, StartCastVote, StartEnd
<1>4. CASE Statement(t) \/ (\E row \in Rows : Lock(t, row)) \/ Rollback(t)
  BY <1>4 DEF Statement, Lock, Rollback, tables
<1>5. CASE LedgerCommit(t)
  <2>1. mintForContribution(t) => UNCHANGED proposal
    BY DEF mintForContribution
  <2>2. mintInitialAllocation(t) \/ createRequest(t) \/ secondApprove(t) \/ reject(t) \/ attachProposal(t)
          => UNCHANGED proposal
    BY DEF mintInitialAllocation, createRequest, secondApprove, reject, attachProposal
  <2>3. ASSUME execute(t)
        PROVE  UNCHANGED proposal
    BY ONLY execute(t) DEF execute
  <2>4. reverseMint(t) => UNCHANGED proposal
    BY DEF reverseMint
  <2>5. closeEpoch(t) \/ createNextEpoch(t) => UNCHANGED proposal
    BY DEF closeEpoch, createNextEpoch
  <2> QED
    BY <1>5, <2>1, <2>2, <2>3, <2>4, <2>5 DEF LedgerCommit
<1> QED
  BY <1>2, <1>3, <1>4, <1>5

LEMMA ProposalSteps ==
  ASSUME EngineInv, [Next]_vars
  PROVE  \A p \in Proposals : ProposalStep(p)
<1>1. CASE create \/ Deadline
  BY <1>1, DraftsPrepare DEF ProposalStep
<1>2. ASSUME NEW t \in Txns, activate(t) \/ castVote(t)
      PROVE  \A p \in Proposals : ProposalStep(p)
  BY <1>2, VotesPrepare DEF ProposalStep
<1>3. ASSUME NEW t \in Txns, end(t)
      PROVE  \A p \in Proposals : ProposalStep(p)
  BY <1>3, EndEnds DEF ProposalStep
<1>4. CASE UNCHANGED proposal
  BY <1>4 DEF ProposalStep
<1>5. UNCHANGED vars => UNCHANGED proposal
  BY DEF vars, tables
<1> QED
  BY <1>1, <1>2, <1>3, <1>4, <1>5, ProposalUntouched DEF Next

\* Every ballot of a recorded proposal is in its result, also one cast at the deadline
\* while end() runs.
THEOREM BallotsAreCounted == Spec => []BallotsCounted
<1>1. DatabaseInit => BallotsCounted
  BY NoneAssumption DEF DatabaseInit, BallotsCounted, NoProposal
<1>2. EngineInv /\ BallotsCounted /\ [Next]_vars => BallotsCounted'
  <2> SUFFICES ASSUME EngineInv, BallotsCounted, [Next]_vars, NEW p \in Proposals,
                      proposal'[p].status = "recorded"
               PROVE  proposal'[p].voters = VoterCount(p)'
    BY DEF BallotsCounted
  <2>1. ProposalStep(p)
    BY ProposalSteps
  <2>2. proposal'[p].vote = proposal[p].vote => VoterCount(p)' = VoterCount(p)
    BY DEF VoterCount, Voters
  <2> QED
    BY <2>1, <2>2 DEF ProposalStep, Prepared, Ended, BallotsCounted
<1> QED
  BY <1>1, <1>2, EngineInvHolds, PTL DEF Spec

-----------------------------------------------------------------------------
(***************************************************************************)
(* Advance requests.                                                       *)
(***************************************************************************)

\* A decided proposal stays as it is, so what it approves stays approved.
About(p, r) == proposal[p].about = [type |-> "budget_advance", target |-> r]
Authorised(r) == request[r].second \/ \E p \in Proposals : Passed(p) /\ About(p, r)

LEMMA PassedStays ==
  ASSUME NEW p \in Proposals, ProposalStep(p), Passed(p)
  PROVE  Passed(p)' /\ proposal'[p] = proposal[p]
BY DEF ProposalStep, Prepared, Ended, Passed

\* A proposal that is approved as it ends has passed.
LEMMA EndPasses ==
  ASSUME NEW p \in Proposals, Ended(p), Approved(p)
  PROVE  Passed(p)'
BY DEF Ended, Approved, Passed

\* What a step does to a request.
RequestStep(r) ==
  /\ request[r].second => request'[r].second
  /\ request'[r].status \in {"approved", "executed"} =>
       \/ request[r].status \in {"approved", "executed"}
       \/ request'[r].second
       \/ \E t \in Txns : txn[t].seen.request.status = "approved" /\ txn[t].in.request = r
       \/ \E p \in Proposals : Ended(p) /\ Approved(p) /\ About(p, r)

LEMMA ApprovalStep ==
  ASSUME EngineInv, NEW t \in Txns, secondApprove(t) \/ reject(t) \/ attachProposal(t)
  PROVE  \A r \in Requests : RequestStep(r)
<1>1. DOMAIN request = Requests /\ \A r \in Requests : request[r] \in RequestRow
  BY DEF EngineInv, RowsTyped, GovernanceRows, RequestOK
<1>2. PICK i : i = txn[t].in.id
  OBVIOUS
<1>3. CASE secondApprove(t)
  <2>1. request' = [request EXCEPT ![i].status = "approved", ![i].second = TRUE]
    BY <1>2, <1>3 DEF secondApprove
  <2>2. \A r \in Requests : r # i => request'[r] = request[r]
    BY <1>1, <2>1
  <2>3. i \in Requests => request'[i].second
    BY <1>1, <2>1 DEF RequestRow
  <2> QED
    BY <2>2, <2>3 DEF RequestStep
<1>4. CASE reject(t)
  <2>1. request' = [request EXCEPT ![i].status = "rejected"]
    BY <1>2, <1>4 DEF reject
  <2>2. \A r \in Requests : r # i => request'[r] = request[r]
    BY <1>1, <2>1
  <2>3. i \in Requests => request'[i].status = "rejected" /\ request'[i].second = request[i].second
    BY <1>1, <2>1 DEF RequestRow
  <2> QED
    BY <2>2, <2>3 DEF RequestStep
<1>5. CASE attachProposal(t)
  <2>0. PICK p : p = txn[t].in.proposal
    OBVIOUS
  <2>1. request' = [request EXCEPT ![i].proposal = p]
    BY <1>2, <1>5, <2>0 DEF attachProposal
  <2>2. \A r \in Requests : r # i => request'[r] = request[r]
    BY <1>1, <2>1
  <2>3. i \in Requests => request'[i].status = request[i].status /\ request'[i].second = request[i].second
    BY <1>1, <2>1 DEF RequestRow
  <2> QED
    BY <2>2, <2>3 DEF RequestStep
<1> QED
  BY <1>3, <1>4, <1>5

\* A request is spent by a transaction that has seen it approved.
LEMMA SpendingStep ==
  ASSUME EngineInv, NEW t \in Txns, NEW i, NEW amount, txn[t].in.request = i,
         txn[t].seen.request.status = "approved",
         request' = [request EXCEPT ![i].status = "executed", ![i].approved = amount]
  PROVE  \A r \in Requests : RequestStep(r)
<1>1. DOMAIN request = Requests /\ \A r \in Requests : request[r] \in RequestRow
  BY DEF EngineInv, RowsTyped, GovernanceRows, RequestOK
<1>2. \A r \in Requests : r # i => request'[r] = request[r]
  BY <1>1
<1>3. i \in Requests => request'[i].second = request[i].second
  BY <1>1 DEF RequestRow
<1> QED
  BY <1>2, <1>3 DEF RequestStep

LEMMA MintingStep ==
  ASSUME EngineInv, NEW t \in Txns, mintForContribution(t) \/ execute(t)
  PROVE  \A r \in Requests : RequestStep(r)
<1>1. CASE mintForContribution(t)
  <2>1. PICK regular \in Nat, advance \in Nat, n \in ActiveEpochs : MintWrites(t, n, regular, advance)
    BY <1>1, MintShape
  <2>2. CASE advance > 0
    <3>1. /\ txn[t].seen.request.status = "approved"
          /\ request' = [request EXCEPT ![txn[t].in.request].status = "executed",
                                        ![txn[t].in.request].approved = advance]
      BY <2>1, <2>2 DEF MintWrites, SplitAllowed
    <3> QED
      BY <3>1, SpendingStep
  <2>3. CASE ~(advance > 0)
    BY <2>1, <2>3 DEF MintWrites, RequestStep
  <2> QED
    BY <2>2, <2>3
<1>2. CASE execute(t)
  <2>1. PICK amount \in Nat \ {0}, n \in ActiveEpochs : ExecutionWrites(t, n, amount)
    BY <1>2, ExecutionShape
  <2>2. txn[t].in.request = txn[t].in.id
    <3>1. Ready(t, "execute")
      BY ONLY <1>2 DEF execute
    <3> QED
      BY <3>1, ReadyKnows DEF TxnKinds, GivenTo
  <2> QED
    BY <2>1, <2>2, SpendingStep DEF ExecutionWrites
<1> QED
  BY <1>1, <1>2

LEMMA CreatingStep ==
  ASSUME EngineInv, NEW t \in Txns, createRequest(t)
  PROVE  \A r \in Requests : RequestStep(r)
<1>1. PICK i : i = txn[t].in.id
  OBVIOUS
<1>2. DOMAIN request = Requests
  BY DEF EngineInv, RowsTyped, GovernanceRows
<1>3. PICK s, m, a, n, c :
        /\ s \in {"pending_second_approval", "pending_proposal"} /\ request[i] = NoRequest
        /\ request' = [request EXCEPT ![i] =
             [NoRequest EXCEPT !.status = s, !.member = m, !.asked = a, !.epoch = n, !.covers = c]]
  BY <1>1 DEF createRequest
<1>4. PICK new : new = [NoRequest EXCEPT !.status = s, !.member = m, !.asked = a, !.epoch = n, !.covers = c]
  OBVIOUS
<1>5. new.status = s /\ ~request[i].second
  BY <1>3, <1>4 DEF NoRequest
<1>6. \A r \in Requests : request'[r] = IF r = i THEN new ELSE request[r]
  BY <1>2, <1>3, <1>4
<1> QED
  BY <1>3, <1>5, <1>6 DEF RequestStep

LEMMA EndingStep ==
  ASSUME EngineInv, NEW t \in Txns, end(t)
  PROVE  \A r \in Requests : RequestStep(r)
<1>1. DOMAIN request = Requests /\ \A r \in Requests : request[r] \in RequestRow
  BY DEF EngineInv, RowsTyped, GovernanceRows, RequestOK
<1>2. Ready(t, "end") /\ txn[t].seen.status = "active"
  BY DEF end
<1>3. /\ GivenTo("end", txn[t].in) /\ txn[t].seen.status = proposal[txn[t].in.id].status
  BY <1>2, ReadyKnows, NoneAssumption DEF TxnKinds
<1>4. PICK p \in Proposals : p = txn[t].in.id /\ proposal[p].status = "active"
  BY <1>2, <1>3 DEF GivenTo
<1>5. Ended(p)
  BY <1>4, EndEnds
<1>6. proposal[p].about \in Purposes
  BY <1>4, NoneAssumption DEF EngineInv, RowsTyped, GovernanceRows
<1>7. CASE UNCHANGED request
  BY <1>7 DEF RequestStep
<1>8. CASE ~UNCHANGED request
  <2>1. Approved(p) /\ Settle(t, proposal[p].about)
    BY <1>4, <1>8 DEF end
  <2>2. /\ proposal[p].about.type = "budget_advance"
        /\ request' = [request EXCEPT ![proposal[p].about.target].status = "approved"]
    BY <1>8, <2>1 DEF Settle
  <2>3. PICK i : i = proposal[p].about.target
    OBVIOUS
  <2>4. About(p, i)
    BY <1>6, <2>2, <2>3, InputsAssumption DEF About
  <2>5. \A r \in Requests : r # i => request'[r] = request[r]
    BY <1>1, <2>2, <2>3
  <2>6. i \in Requests => request'[i].second = request[i].second
    BY <1>1, <2>2, <2>3 DEF RequestRow
  <2> QED
    BY <1>5, <2>1, <2>4, <2>5, <2>6 DEF RequestStep
<1> QED
  BY <1>7, <1>8

\* The steps that write no request.
LEMMA RequestUntouched ==
  ASSUME NEW t \in Txns,
         \/ LedgerStart(t) \/ StartActivate(t) \/ StartCastVote(t) \/ StartEnd(t)
         \/ Statement(t) \/ (\E row \in Rows : Lock(t, row)) \/ Rollback(t) \/ activate(t) \/ castVote(t)
         \/ mintInitialAllocation(t) \/ reverseMint(t) \/ closeEpoch(t) \/ createNextEpoch(t)
  PROVE  UNCHANGED request
<1>1. ASSUME NEW kind, NEW in, Start(t, kind, in)
      PROVE  UNCHANGED request
  BY <1>1 DEF Start, tables
<1>2. CASE LedgerStart(t)
  BY <1>1, <1>2 DEF LedgerStart, StartMint, StartInitialAllocation, StartCreateRequest,
     StartOnRequest, StartAttach, StartReverse, StartCloseEpoch, StartCreateNextEpoch
<1>3. CASE StartActivate(t) \/ StartCastVote(t) \/ StartEnd(t)
  BY <1>1, <1>3 DEF StartActivate, StartCastVote, StartEnd
<1>4. CASE Statement(t) \/ (\E row \in Rows : Lock(t, row)) \/ Rollback(t)
  BY <1>4 DEF Statement, Lock, Rollback, tables
<1>5. CASE activate(t) \/ castVote(t) \/ mintInitialAllocation(t)
  BY <1>5 DEF activate, castVote, mintInitialAllocation
<1>6. ASSUME reverseMint(t)
      PROVE  UNCHANGED request
  BY ONLY reverseMint(t) DEF reverseMint
<1>7. CASE closeEpoch(t) \/ createNextEpoch(t)
  BY <1>7 DEF closeEpoch, createNextEpoch
<1> QED
  BY <1>2, <1>3, <1>4, <1>5, <1>6, <1>7

LEMMA RequestSteps ==
  ASSUME EngineInv, [Next]_vars
  PROVE  \A r \in Requests : RequestStep(r)
<1>1. CASE UNCHANGED request
  BY <1>1 DEF RequestStep
<1>2. UNCHANGED vars \/ create \/ Deadline => UNCHANGED request
  BY DEF vars, tables, create, Deadline
<1>3. ASSUME NEW t \in Txns, LedgerCommit(t)
      PROVE  UNCHANGED request \/ \A r \in Requests : RequestStep(r)
  BY <1>3, RequestUntouched, ApprovalStep, MintingStep, CreatingStep DEF LedgerCommit
<1> QED
  BY <1>1, <1>2, <1>3, RequestUntouched, EndingStep DEF Next

-----------------------------------------------------------------------------
(***************************************************************************)
(* What a step reads, and what it does to the ledger.                      *)
(***************************************************************************)

\* A request is read with the row of its id.
LEMMA RequestRead ==
  ASSUME NEW x, x.seen \in SeenRow, NEW statement, NEW seen, seen = ReadBy(x, statement)
  PROVE  \/ seen.request = x.seen.request
         \/ x.in.request # None /\ seen.request = request[x.in.request]
<1>1. PICK old \in SeenRow : old = x.seen
  OBVIOUS
<1>2. CASE statement = "request" /\ x.in.request # None
  <2>1. PICK r : r = request[x.in.request]
    OBVIOUS
  <2>2. seen = [old EXCEPT !.request = r]
    BY <1>1, <1>2, <2>1 DEF ReadBy
  <2>3. seen.request = r
    BY <2>2 DEF SeenRow
  <2> QED
    BY <1>2, <2>1, <2>3
<1>3. CASE ~(statement = "request" /\ x.in.request # None)
  <2>1. PICK a, b, c, d : a = MintedFor(x.in.id) /\ b = Len(epochs) /\ c = (ActiveEpochs # {}) /\ d = SomeActiveEpoch
    OBVIOUS
  <2>2. PICK g : g = (\E i \in DOMAIN ledger : ledger[i].kind = "genesis")
    OBVIOUS
  <2>3. \/ seen = old
        \/ seen = [old EXCEPT !.used = a] \/ seen = [old EXCEPT !.supply = supply, !.policy = policy]
        \/ seen = [old EXCEPT !.epoch = b, !.supply = supply, !.policy = policy]
        \/ seen = [old EXCEPT !.used = g] \/ seen = [old EXCEPT !.used = c, !.epoch = d]
        \/ seen = [old EXCEPT !.policy = policy]
    BY <1>1, <1>3, <2>1, <2>2 DEF ReadBy
  <2> QED
    BY <1>1, <2>3 DEF SeenRow
<1> QED
  BY <1>2, <1>3

\* What a transaction has seen of its request it has seen before, or is what the row says.
SeenStep(u) ==
  txn'[u].seen.request.status # None =>
    \/ txn'[u].seen.request = txn[u].seen.request /\ txn'[u].in = txn[u].in
    \/ /\ txn'[u].in.request \in Requests
       /\ txn'[u].seen.request = request[txn'[u].in.request]

LEMMA StartSees ==
  ASSUME EngineInv, EngineInv', NEW t \in Txns,
         LedgerStart(t) \/ StartActivate(t) \/ StartCastVote(t) \/ StartEnd(t)
  PROVE  \A u \in Txns : SeenStep(u)
<1>1. PICK kind \in TxnKinds : \E in : GivenTo(kind, in) /\ Start(t, kind, in)
  BY StartsAre
<1>2. PICK in : GivenTo(kind, in) /\ Start(t, kind, in)
  BY <1>1
<1>3. /\ txn' = [txn EXCEPT ![t] = txn'[t]]
      /\ txn'[t].in = in /\ txn'[t].seen = ReadBy(Begun(kind, in), Head(PlanOf(kind)))
  <2>1. /\ txn' = [txn EXCEPT ![t] = txn'[t]]
        /\ txn'[t] =
             [kind |-> kind, in |-> in, todo |-> Tail(PlanOf(kind)),
              rows |-> {r \in RowsOf(Begun(kind, in), Head(PlanOf(kind))) : holder[r] # t},
              seen |-> ReadBy(Begun(kind, in), Head(PlanOf(kind)))]
    BY <1>2, StartShape
  <2> QED
    BY ONLY <2>1
<1>4. DOMAIN txn = Txns
  BY DEF EngineInv, TxnsTyped
<1>5. \A u \in Txns \ {t} : txn'[u] = txn[u]
  BY <1>3, <1>4
<1>6. PICK x : x = Begun(kind, in)
  OBVIOUS
<1>7. x.in = in /\ x.seen = Unseen /\ Unseen \in SeenRow /\ Unseen.request.status = None
  <2>1. NoRequest \in RequestRow /\ NoRequest.status = None /\ NoBalance \in BalanceRow
    BY DEF NoRequest, NoBalance, RequestRow, BalanceRow, RequestStatus
  <2> QED
    BY <1>6, <2>1 DEF Begun, Unseen, SeenRow, ProposalStatus
<1>8. \/ txn'[t].seen.request = Unseen.request
      \/ in.request # None /\ txn'[t].seen.request = request[in.request]
  <2>1. PICK seen : seen = ReadBy(x, Head(PlanOf(kind)))
    OBVIOUS
  <2>2. \/ seen.request = x.seen.request
        \/ x.in.request # None /\ seen.request = request[x.in.request]
    BY <1>7, <2>1, RequestRead
  <2> QED
    BY <1>3, <1>6, <1>7, <2>1, <2>2
<1>9. in.request \in Requests \cup {None}
  BY <1>2 DEF GivenTo
<1>10. SeenStep(t)
  BY <1>3, <1>7, <1>8, <1>9 DEF SeenStep
<1> QED
  BY <1>5, <1>10 DEF SeenStep

LEMMA StatementSees ==
  ASSUME EngineInv, NEW t \in Txns, Statement(t)
  PROVE  \A u \in Txns : SeenStep(u)
<1>1. /\ txn' = [txn EXCEPT ![t] = txn'[t]]
      /\ txn'[t].in = txn[t].in /\ txn'[t].seen = ReadBy(txn[t], Head(txn[t].todo))
  <2>1. /\ txn' = [txn EXCEPT ![t] = txn'[t]]
        /\ txn'[t] =
             [kind |-> txn[t].kind, in |-> txn[t].in, todo |-> Tail(txn[t].todo),
              rows |-> {r \in RowsOf(txn[t], Head(txn[t].todo)) : holder[r] # t},
              seen |-> ReadBy(txn[t], Head(txn[t].todo))]
    BY StatementShape
  <2> QED
    BY ONLY <2>1
<1>2. DOMAIN txn = Txns /\ txn[t].seen \in SeenRow
  BY DEF EngineInv, TxnsTyped, TxnRow
<1>3. \A u \in Txns \ {t} : txn'[u] = txn[u]
  BY <1>1, <1>2
<1>4. \/ txn'[t].seen.request = txn[t].seen.request
      \/ txn[t].in.request # None /\ txn'[t].seen.request = request[txn[t].in.request]
  <2>1. PICK x, seen : x = txn[t] /\ seen = ReadBy(x, Head(x.todo))
    OBVIOUS
  <2>2. \/ seen.request = x.seen.request
        \/ x.in.request # None /\ seen.request = request[x.in.request]
    BY <1>2, <2>1, RequestRead
  <2> QED
    BY <1>1, <2>1, <2>2
<1>5. txn[t].in.request \in Requests \cup {None}
  BY DEF EngineInv, Sound, Given, GivenTo
<1> QED
  BY <1>1, <1>3, <1>4, <1>5 DEF SeenStep

LEMMA LockSees ==
  ASSUME EngineInv, NEW t \in Txns, NEW row \in Rows, Lock(t, row)
  PROVE  \A u \in Txns : SeenStep(u)
<1>1. row \in txn[t].rows /\ DOMAIN txn = Txns /\ TxnRow(txn[t])
  BY DEF Lock, EngineInv, TxnsTyped
<1>2. PICK rows, seen : rows = txn[t].rows \ {row} /\ seen = LockedBy(t, row)
  OBVIOUS
<1>3. txn' = [txn EXCEPT ![t].rows = rows, ![t].seen = seen]
  BY <1>2 DEF Lock
<1>4. txn'[t].seen = seen /\ txn'[t].in = txn[t].in /\ \A u \in Txns \ {t} : txn'[u] = txn[u]
  BY <1>1, <1>3 DEF TxnRow
<1>5. seen.request = txn[t].seen.request
  BY <1>1, <1>2, LockedRead
<1> QED
  BY <1>4, <1>5 DEF SeenStep

LEMMA FinishSees ==
  ASSUME EngineInv, NEW t \in Txns, Finish(t)
  PROVE  \A u \in Txns : SeenStep(u)
<1>1. txn'[t] = Idle /\ \A u \in Txns \ {t} : txn'[u] = txn[u]
  BY DEF Finish, EngineInv, TxnsTyped
<1>2. Idle.seen.request.status = None
  BY DEF Idle, Unseen, NoRequest
<1> QED
  BY <1>1, <1>2 DEF SeenStep

\* Every commit ends its transaction.
LEMMA CommitFinishes ==
  ASSUME NEW t \in Txns, LedgerCommit(t) \/ activate(t) \/ castVote(t) \/ end(t) \/ Rollback(t)
  PROVE  Finish(t)
<1>1. ASSUME mintForContribution(t)
      PROVE  Finish(t)
  BY ONLY mintForContribution(t) DEF mintForContribution
<1>2. ASSUME execute(t)
      PROVE  Finish(t)
  BY ONLY execute(t) DEF execute
<1>3. ASSUME reverseMint(t)
      PROVE  Finish(t)
  BY ONLY reverseMint(t) DEF reverseMint
<1>4. ASSUME closeEpoch(t) \/ createNextEpoch(t)
      PROVE  Finish(t)
  BY ONLY <1>4 DEF closeEpoch, createNextEpoch
<1>5. ASSUME mintInitialAllocation(t) \/ createRequest(t) \/ secondApprove(t) \/ reject(t) \/ attachProposal(t)
      PROVE  Finish(t)
  BY ONLY <1>5 DEF mintInitialAllocation, createRequest, secondApprove, reject, attachProposal
<1>6. ASSUME activate(t) \/ castVote(t) \/ end(t) \/ Rollback(t)
      PROVE  Finish(t)
  BY ONLY <1>6 DEF activate, castVote, end, Rollback
<1> QED
  BY <1>1, <1>2, <1>3, <1>4, <1>5, <1>6 DEF LedgerCommit

LEMMA SeenSteps ==
  ASSUME EngineInv, EngineInv', [Next]_vars
  PROVE  \A u \in Txns : SeenStep(u)
<1>1. CASE UNCHANGED txn
  BY <1>1 DEF SeenStep, EngineInv, Sound, Read
<1>2. create \/ Deadline \/ UNCHANGED vars => UNCHANGED txn
  BY DEF create, Deadline, vars
<1> QED
  BY <1>1, <1>2, StartSees, StatementSees, LockSees, FinishSees, CommitFinishes DEF Next

\* The steps that move tokens.
Moves(t) ==
  \/ Ready(t, "mint") /\ \E regular, advance \in Nat : \E n \in ActiveEpochs :
       n \in Nat /\ MintWrites(t, n, regular, advance)
  \/ Ready(t, "execute") /\ \E amount \in Nat \ {0} : \E n \in ActiveEpochs :
       n \in Nat /\ ExecutionWrites(t, n, amount)
  \/ Ready(t, "reverse") /\ \E amount \in Nat \ {0}, pending \in Nat :
       pending <= amount /\ ReversalWrites(t, amount, pending)
       /\ UNCHANGED epochs
  \/ mintInitialAllocation(t)

LEMMA CommitMoves ==
  ASSUME EngineInv, NEW t \in Txns, LedgerCommit(t)
  PROVE  \/ UNCHANGED <<epochs, supply, ledger, balance>>
         \/ Moves(t) \/ closeEpoch(t) \/ createNextEpoch(t)
<1>6. ASSUME createRequest(t) \/ secondApprove(t) \/ reject(t) \/ attachProposal(t)
      PROVE  UNCHANGED <<epochs, supply, ledger, balance>>
  BY <1>6 DEF createRequest, secondApprove, reject, attachProposal
<1>7. ASSUME mintForContribution(t)
      PROVE  Moves(t)
  <2>1. Ready(t, "mint")
    BY ONLY <1>7 DEF mintForContribution
  <2> QED
    BY <1>7, <2>1, MintShape DEF Moves
<1>8. ASSUME execute(t)
      PROVE  Moves(t)
  <2>1. Ready(t, "execute")
    BY ONLY <1>8 DEF execute
  <2> QED
    BY <1>8, <2>1, ExecutionShape DEF Moves
<1>9. ASSUME reverseMint(t)
      PROVE  Moves(t)
  <2>1. Ready(t, "reverse") /\ UNCHANGED epochs
    BY ONLY <1>9 DEF reverseMint
  <2> QED
    BY <1>9, <2>1, ReversalShape DEF Moves
<1> QED
  BY <1>6, <1>7, <1>8, <1>9 DEF LedgerCommit, Moves

LEMMA LedgerSteps ==
  ASSUME EngineInv, [Next]_vars
  PROVE  \/ UNCHANGED <<epochs, supply, ledger, balance>>
         \/ \E t \in Txns : Moves(t) \/ closeEpoch(t) \/ createNextEpoch(t)
<1>1. CASE create \/ Deadline \/ UNCHANGED vars
  BY <1>1 DEF create, Deadline, vars, tables
<1>2. ASSUME NEW t \in Txns, NEW kind, NEW in, Start(t, kind, in)
      PROVE  UNCHANGED <<epochs, supply, ledger, balance>>
  BY <1>2 DEF Start, tables
<1>3. ASSUME NEW t \in Txns, LedgerStart(t) \/ StartActivate(t) \/ StartCastVote(t) \/ StartEnd(t)
      PROVE  UNCHANGED <<epochs, supply, ledger, balance>>
  BY <1>2, <1>3, StartsAre
<1>4. ASSUME NEW t \in Txns, Statement(t) \/ (\E row \in Rows : Lock(t, row)) \/ Rollback(t)
      PROVE  UNCHANGED <<epochs, supply, ledger, balance>>
  BY <1>4 DEF Statement, Lock, Rollback, tables
<1>5. ASSUME NEW t \in Txns, activate(t) \/ castVote(t) \/ end(t)
      PROVE  UNCHANGED <<epochs, supply, ledger, balance>>
  BY <1>5 DEF activate, castVote, end
<1> QED
  BY <1>1, <1>3, <1>4, <1>5, CommitMoves DEF Next

\* A ledger that has been added to.
LEMMA Grown ==
  ASSUME RowsTyped, NEW entries \in Seq(EntryRow), ledger' = ledger \o entries
  PROVE  /\ Len(ledger) \in Nat /\ Len(entries) \in Nat /\ Len(ledger') = Len(ledger) + Len(entries)
         /\ DOMAIN ledger = 1 .. Len(ledger) /\ DOMAIN entries = 1 .. Len(entries)
         /\ DOMAIN ledger' = 1 .. Len(ledger) + Len(entries)
         /\ \A i \in DOMAIN ledger : ledger'[i] = ledger[i]
         /\ \A k \in DOMAIN entries : ledger'[Len(ledger) + k] = entries[k]
         /\ \A i \in DOMAIN ledger' \ DOMAIN ledger :
              \E k \in DOMAIN entries : i = Len(ledger) + k /\ ledger'[i] = entries[k]
<1>1. ledger \in Seq(EntryRow)
  BY DEF RowsTyped, LedgerRows
<1>2. PICK S : S = EntryRow
  OBVIOUS
<1>3. PICK n \in Nat, k \in Nat : n = Len(ledger) /\ k = Len(entries)
  BY <1>1
<1>4. /\ ledger' \in Seq(S) /\ Len(ledger') = n + k
      /\ \A i \in 1 .. n + k : ledger'[i] = IF i <= n THEN ledger[i] ELSE entries[i - n]
  BY <1>1, <1>2, <1>3, ConcatProperties
<1>5. DOMAIN ledger = 1 .. n /\ DOMAIN entries = 1 .. k /\ DOMAIN ledger' = 1 .. n + k
  BY <1>1, <1>3, <1>4
<1>6. \A i \in 1 .. n : ledger'[i] = ledger[i]
  <2>1. \A i \in 1 .. n : i \in 1 .. n + k /\ i <= n
    OBVIOUS
  <2> QED
    BY ONLY <1>4, <2>1
<1>7. \A i \in n + 1 .. n + k : ledger'[i] = entries[i - n] /\ i - n \in 1 .. k /\ i = n + (i - n)
  BY <1>4
<1>8. \A j \in 1 .. k : n + j \in n + 1 .. n + k /\ (n + j) - n = j
  OBVIOUS
<1>9. \A j \in 1 .. k : ledger'[n + j] = entries[j]
  BY <1>7, <1>8
<1>10. ASSUME NEW i \in (1 .. n + k) \ (1 .. n)
       PROVE  \E j \in 1 .. k : i = n + j /\ ledger'[i] = entries[j]
  <2>1. i \in n + 1 .. n + k
    OBVIOUS
  <2>2. PICK j \in 1 .. k : j = i - n /\ i = n + j
    BY <2>1
  <2> QED
    BY <1>7, <2>1, <2>2
<1>11. /\ \A i \in DOMAIN ledger : ledger'[i] = ledger[i]
       /\ \A j \in DOMAIN entries : ledger'[n + j] = entries[j]
       /\ \A i \in DOMAIN ledger' \ DOMAIN ledger : \E j \in DOMAIN entries : i = n + j /\ ledger'[i] = entries[j]
  BY ONLY <1>5, <1>6, <1>9, <1>10, Zenon
<1>12. /\ Len(ledger) \in Nat /\ Len(entries) \in Nat /\ Len(ledger') = Len(ledger) + Len(entries)
       /\ DOMAIN ledger = 1 .. Len(ledger) /\ DOMAIN entries = 1 .. Len(entries)
       /\ DOMAIN ledger' = 1 .. Len(ledger) + Len(entries)
  BY ONLY n \in Nat, k \in Nat, <1>3, <1>4, <1>5
<1> QED
  BY ONLY <1>3, <1>11, <1>12

\* Amounts that have been added to.
LEMMA RaisedAmounts == \A a, b, c \in Nat : a + b + c >= 0 /\ a + b >= 0 /\ a + c >= 0
OBVIOUS

\* One entry.
LEMMA OneEntry ==
  ASSUME NEW e \in EntryRow
  PROVE  /\ <<e>> \in Seq(EntryRow) /\ Len(<<e>>) = 1 /\ DOMAIN <<e>> = {1}
         /\ \A k \in DOMAIN <<e>> : <<e>>[k] = e
<1>1. PICK S : S = EntryRow
  OBVIOUS
<1>2. e \in S
  BY <1>1
<1>3. <<e>> \in Seq(S) /\ Len(<<e>>) = 1 /\ DOMAIN <<e>> = {1} /\ <<e>>[1] = e
  BY ONLY <1>2
<1> QED
  BY <1>1, <1>3

\* The legs of a mint are what it draws on the budget and what it draws on the request.
LEMMA LegCases ==
  ASSUME EngineInv, NEW t \in Txns, Ready(t, "mint"), NEW regular \in Nat, NEW advance \in Nat,
         NEW n \in Nat, MintWrites(t, n, regular, advance)
  PROVE  \A k \in DOMAIN Legs(t, regular, advance) :
           \/ regular > 0 /\ k = 1 /\ Legs(t, regular, advance)[k] = RegularLeg(t, regular)
           \/ /\ advance > 0 /\ k = (IF regular > 0 THEN 2 ELSE 1)
              /\ Legs(t, regular, advance)[k] = AdvanceLeg(t, regular, advance)
<1>1. PICK legs \in Seq(EntryRow) : legs = Legs(t, regular, advance)
  BY DEF MintWrites
<1>2. /\ Len(legs) = (IF regular > 0 THEN 1 ELSE 0) + (IF advance > 0 THEN 1 ELSE 0)
      /\ regular > 0 => legs[1] = RegularLeg(t, regular)
      /\ advance > 0 => legs[Len(legs)] = AdvanceLeg(t, regular, advance)
  BY <1>1, LegsShape
<1>3. DOMAIN legs = 1 .. Len(legs) /\ Len(legs) \in Nat
  BY <1>1
<1>4. PICK len \in Nat : len = Len(legs)
  BY <1>3
<1>5. len = (IF regular > 0 THEN 1 ELSE 0) + (IF advance > 0 THEN 1 ELSE 0)
  BY <1>2, <1>4
<1>6. \A k \in 1 .. len :
        \/ regular > 0 /\ k = 1
        \/ advance > 0 /\ k = len /\ k = (IF regular > 0 THEN 2 ELSE 1)
  <2>1. CASE regular > 0 /\ advance > 0
    <3>1. len = 2
      BY ONLY <1>5, <2>1
    <3> QED
      BY ONLY <2>1, <3>1
  <2>2. CASE regular > 0 /\ ~(advance > 0)
    <3>1. len = 1
      BY ONLY <1>5, <2>2
    <3> QED
      BY ONLY <2>2, <3>1
  <2>3. CASE ~(regular > 0) /\ advance > 0
    <3>1. len = 1
      BY ONLY <1>5, <2>3
    <3> QED
      BY ONLY <2>3, <3>1
  <2>4. CASE ~(regular > 0) /\ ~(advance > 0)
    <3>1. len = 0
      BY ONLY <1>5, <2>4
    <3> QED
      BY ONLY <3>1
  <2> QED
    BY ONLY <2>1, <2>2, <2>3, <2>4
<1> QED
  BY <1>1, <1>2, <1>3, <1>4, <1>6

\* The columns an epoch switch leaves alone.
LEMMA CloseLedger ==
  ASSUME EngineInv, NEW t \in Txns, closeEpoch(t)
  PROVE  /\ DOMAIN ledger' = DOMAIN ledger /\ Len(ledger') = Len(ledger)
         /\ \A i \in DOMAIN ledger :
              /\ \A f \in EntryFields \ {"pending"} : ledger'[i][f] = ledger[i][f]
              /\ ledger'[i].pending = (ledger[i].pending /\ i \notin MaturingAt(txn[t].in.id + 1))
<1>1. LedgerRows
  BY DEF EngineInv, RowsTyped
<1>2. ledger' = [i \in DOMAIN ledger |-> Matured(t, i)]
  BY CloseShape
<1>3. /\ ledger' \in Seq(EntryRow) /\ Len(ledger') = Len(ledger)
      /\ \A i \in DOMAIN ledger :
           /\ ledger'[i].pending = (ledger[i].pending /\ i \notin MaturingAt(txn[t].in.id + 1))
           /\ \A f \in EntryFields \ {"pending"} : ledger'[i][f] = ledger[i][f]
  BY <1>1, <1>2, LedgerMatured
<1>4. DOMAIN ledger' = DOMAIN ledger
  BY <1>1, <1>2
<1> QED
  BY <1>3, <1>4

\* An entry is there already, or it draws on a request its transaction has seen approved,
\* or on none.
EntryStep(i) ==
  \/ /\ i \in DOMAIN ledger /\ ledger'[i].request = ledger[i].request
  \/ ledger'[i].request \notin Requests
  \/ \E t \in Txns : txn[t].seen.request.status = "approved" /\ txn[t].in.request = ledger'[i].request

LEMMA EntrySteps ==
  ASSUME EngineInv, [Next]_vars
  PROVE  \A i \in DOMAIN ledger' : EntryStep(i)
<1>0. RowsTyped
  BY DEF EngineInv
<1>1. CASE UNCHANGED ledger
  BY <1>1 DEF EntryStep
<1>2. ASSUME NEW t \in Txns, createNextEpoch(t)
      PROVE  UNCHANGED ledger
  BY <1>2 DEF createNextEpoch
<1>3. ASSUME NEW t \in Txns, closeEpoch(t)
      PROVE  \A i \in DOMAIN ledger' : EntryStep(i)
  BY <1>3, CloseLedger DEF EntryStep, EntryFields
<1>4. ASSUME NEW t \in Txns, NEW regular \in Nat, NEW advance \in Nat, NEW n \in Nat,
             Ready(t, "mint"), MintWrites(t, n, regular, advance)
      PROVE  \A i \in DOMAIN ledger' : EntryStep(i)
  <2>1. PICK legs \in Seq(EntryRow) : legs = Legs(t, regular, advance) /\ ledger' = ledger \o legs
    BY <1>4 DEF MintWrites
  <2>2. \A k \in DOMAIN legs :
          \/ legs[k] = RegularLeg(t, regular)
          \/ advance > 0 /\ legs[k] = AdvanceLeg(t, regular, advance)
    BY <1>4, <2>1, LegCases
  <2>3. advance > 0 => txn[t].seen.request.status = "approved"
    BY <1>4 DEF MintWrites, SplitAllowed
  <2>4. \A k \in DOMAIN legs :
          \/ legs[k].request \notin Requests
          \/ txn[t].seen.request.status = "approved" /\ legs[k].request = txn[t].in.request
    BY <2>2, <2>3, NoneAssumption DEF RegularLeg, AdvanceLeg
  <2>5. /\ \A i \in DOMAIN ledger : ledger'[i] = ledger[i]
        /\ \A i \in DOMAIN ledger' \ DOMAIN ledger : \E k \in DOMAIN legs : ledger'[i] = legs[k]
    BY <1>0, <2>1, Grown, ZenonT(60)
  <2> QED
    BY <2>4, <2>5 DEF EntryStep
<1>5. ASSUME NEW t \in Txns, NEW e \in EntryRow, ledger' = ledger \o <<e>>,
             \/ e.request \notin Requests
             \/ txn[t].seen.request.status = "approved" /\ e.request = txn[t].in.request
      PROVE  \A i \in DOMAIN ledger' : EntryStep(i)
  <2>1. PICK es \in Seq(EntryRow) : es = <<e>> /\ \A k \in DOMAIN es : es[k] = e
    BY OneEntry
  <2>2. /\ \A i \in DOMAIN ledger : ledger'[i] = ledger[i]
        /\ \A i \in DOMAIN ledger' \ DOMAIN ledger : \E k \in DOMAIN es : ledger'[i] = es[k]
    BY <1>0, <1>5, <2>1, Grown
  <2> QED
    BY <1>5, <2>1, <2>2 DEF EntryStep
<1>6. ASSUME NEW t \in Txns, NEW amount \in Nat \ {0}, NEW n \in Nat,
             Ready(t, "execute"), ExecutionWrites(t, n, amount)
      PROVE  \A i \in DOMAIN ledger' : EntryStep(i)
  <2>1. txn[t].in.request = txn[t].in.id
    BY <1>6, ReadyKnows DEF TxnKinds, GivenTo
  <2>2. PICK e \in EntryRow : e = Execution(t, amount)
    BY <1>6 DEF ExecutionWrites
  <2>3. e.request = txn[t].in.request
    BY <2>1, <2>2 DEF Execution
  <2> QED
    BY <1>5, <1>6, <2>2, <2>3 DEF ExecutionWrites
<1>7. ASSUME NEW t \in Txns, NEW amount \in Nat \ {0}, NEW pending \in Nat, ReversalWrites(t, amount, pending)
      PROVE  \A i \in DOMAIN ledger' : EntryStep(i)
  <2>1. PICK e \in EntryRow : e = Reversal(t, amount)
    BY <1>7 DEF ReversalWrites
  <2>2. e.request \notin Requests
    BY <2>1, NoneAssumption DEF Reversal
  <2> QED
    BY <1>5, <1>7, <2>1, <2>2 DEF ReversalWrites
<1>8. ASSUME NEW t \in Txns, mintInitialAllocation(t)
      PROVE  \A i \in DOMAIN ledger' : EntryStep(i)
  <2>1. Ready(t, "genesis") /\ ledger' = ledger \o Allotments(t)
    BY <1>8, GenesisShape
  <2>2. PICK es \in Seq(EntryRow) :
          es = Allotments(t) /\ Len(es) = Len(Allocation) /\ \A k \in 1 .. Len(Allocation) : es[k] = Allotment(t, k)
    BY <2>1, AllotmentsType
  <2>3. \A k \in DOMAIN es : es[k].request \notin Requests
    <3>1. DOMAIN es = 1 .. Len(Allocation)
      BY <2>2
    <3>2. \A k \in 1 .. Len(Allocation) : es[k].request = None
      <4>1. \A k : Allotment(t, k).request = None
        BY ONLY TRUE DEF Allotment
      <4> QED
        BY ONLY <2>2, <4>1
    <3> QED
      BY <3>1, <3>2, NoneAssumption
  <2>4. /\ \A i \in DOMAIN ledger : ledger'[i] = ledger[i]
        /\ \A i \in DOMAIN ledger' \ DOMAIN ledger : \E k \in DOMAIN es : ledger'[i] = es[k]
    BY <1>0, <2>1, <2>2, Grown
  <2> QED
    BY <2>3, <2>4 DEF EntryStep
<1> QED
  BY <1>1, <1>2, <1>3, <1>4, <1>6, <1>7, <1>8, LedgerSteps DEF Moves

\* An approved request, whether it is spent, seen or waiting, is an authorised one.
AuthInv ==
  /\ \A r \in Requests : request[r].status \in {"approved", "executed"} => Authorised(r)
  /\ \A t \in Txns : txn[t].seen.request.status = "approved" => Authorised(txn[t].in.request)
  /\ \A i \in DOMAIN ledger : ledger[i].request \in Requests => Authorised(ledger[i].request)

LEMMA AuthStep ==
  ASSUME EngineInv, EngineInv', AuthInv, [Next]_vars
  PROVE  AuthInv'
<1>1. /\ \A r \in Requests : RequestStep(r)
      /\ \A t \in Txns : SeenStep(t)
      /\ \A i \in DOMAIN ledger' : EntryStep(i)
      /\ \A p \in Proposals : ProposalStep(p)
  BY RequestSteps, SeenSteps, EntrySteps, ProposalSteps
<1>2. ASSUME NEW r \in Requests, Authorised(r)
      PROVE  Authorised(r)'
  <2>1. CASE request[r].second
    BY <1>1, <2>1 DEF Authorised, RequestStep
  <2>2. ASSUME NEW p \in Proposals, Passed(p), About(p, r)
        PROVE  Authorised(r)'
    BY <1>1, <2>2, PassedStays DEF Authorised, About
  <2> QED
    BY <1>2, <2>1, <2>2 DEF Authorised
<1>3. ASSUME NEW t \in Txns, txn[t].seen.request.status = "approved"
      PROVE  txn[t].in.request \in Requests
  BY <1>3, NoneAssumption DEF EngineInv, Sound, Read
<1>4. ASSUME NEW r \in Requests, request'[r].status \in {"approved", "executed"}
      PROVE  Authorised(r)'
  <2>1. CASE request[r].status \in {"approved", "executed"}
    BY <1>2, <2>1 DEF AuthInv
  <2>2. CASE request'[r].second
    BY <2>2 DEF Authorised
  <2>3. ASSUME NEW t \in Txns, txn[t].seen.request.status = "approved", txn[t].in.request = r
        PROVE  Authorised(r)'
    BY <1>2, <2>3 DEF AuthInv
  <2>4. ASSUME NEW p \in Proposals, Ended(p), Approved(p), About(p, r)
        PROVE  Authorised(r)'
    <3>1. Passed(p)'
      BY <2>4, EndPasses
    <3>2. About(p, r)'
      BY <2>4 DEF Ended, About
    <3> QED
      BY <3>1, <3>2 DEF Authorised
  <2> QED
    BY <1>1, <1>4, <2>1, <2>2, <2>3, <2>4 DEF RequestStep
<1>5. ASSUME NEW t \in Txns, txn'[t].seen.request.status = "approved"
      PROVE  Authorised(txn[t].in.request)'
  <2>1. CASE txn'[t].seen.request = txn[t].seen.request /\ txn'[t].in = txn[t].in
    <3>1. txn[t].in.request \in Requests /\ Authorised(txn[t].in.request)
      BY <1>3, <1>5, <2>1 DEF AuthInv
    <3>2. PICK r \in Requests : r = txn[t].in.request /\ r = txn'[t].in.request
      BY <2>1, <3>1
    <3>3. Authorised(r)'
      BY <1>2, <3>1, <3>2
    <3> QED
      BY <3>2, <3>3 DEF Authorised
  <2>2. CASE txn'[t].in.request \in Requests /\ txn'[t].seen.request = request[txn'[t].in.request]
    <3>1. PICK r \in Requests : r = txn'[t].in.request
      BY <2>2
    <3>2. request[r].status = "approved"
      BY <1>5, <2>2, <3>1
    <3>3. Authorised(r)'
      BY <1>2, <3>2 DEF AuthInv
    <3> QED
      BY <3>1, <3>3 DEF Authorised
  <2> QED
    BY <1>1, <1>5, <2>1, <2>2, NoneAssumption DEF SeenStep
<1>6. ASSUME NEW i \in DOMAIN ledger', ledger'[i].request \in Requests
      PROVE  Authorised(ledger[i].request)'
  <2>1. PICK r \in Requests : r = ledger'[i].request
    BY <1>6
  <2>2. Authorised(r)
    BY <1>1, <1>6, <2>1 DEF EntryStep, AuthInv
  <2>3. Authorised(r)'
    BY <1>2, <2>2
  <2> QED
    BY <2>1, <2>3 DEF Authorised
<1> QED
  BY <1>4, <1>5, <1>6 DEF AuthInv

\* An advance is minted only on a request that a second admin or a passed proposal about
\* that very request has approved, although the approval is read before the epoch is
\* locked and may be rejected, spent or given again by then.
THEOREM AdvancesAreAuthorised == Spec => []AdvanceAuthorised
<1>1. DatabaseInit => AuthInv
  <2>1. ASSUME DatabaseInit
        PROVE  AuthInv
    <3>1. \A r \in Requests : request[r].status = None
      BY <2>1 DEF DatabaseInit, NoRequest
    <3>2. \A t \in Txns : txn[t].seen.request.status = None
      BY <2>1 DEF DatabaseInit, Idle, Unseen, NoRequest
    <3>3. DOMAIN ledger = {}
      BY <2>1 DEF DatabaseInit
    <3> QED
      BY <3>1, <3>2, <3>3, NoneAssumption DEF AuthInv
  <2> QED
    BY <2>1
<1>2. EngineInv /\ EngineInv' /\ AuthInv /\ [Next]_vars => AuthInv'
  BY AuthStep
<1>3. AuthInv => AdvanceAuthorised
  BY DEF AuthInv, AdvanceAuthorised, Authorised, About
<1> QED
  BY <1>1, <1>2, <1>3, EngineInvHolds, PTL DEF Spec

-----------------------------------------------------------------------------
(***************************************************************************)
(* Policy versions.                                                        *)
(***************************************************************************)

\* The policy a transaction works with has been read.
PolicyRead(x, left) ==
  \/ x.kind = "close" /\ left <= 3
  \/ x.kind = "end" /\ left <= 1
PolicyTaken(u) == PolicyRead(txn[u], Left(u))

\* It is the one it has read before, or is the policy.
PolicySeen(u) ==
  PolicyTaken(u)' =>
    \/ /\ PolicyTaken(u) /\ txn'[u].kind = txn[u].kind /\ txn'[u].in = txn[u].in
       /\ txn'[u].seen.policy = txn[u].seen.policy
    \/ txn'[u].seen.policy = policy /\ UNCHANGED <<policy, epochs>>

\* A transaction that starts has not read it, and the others go on.
LEMMA StartTakes ==
  ASSUME EngineInv, NEW t \in Txns, LedgerStart(t) \/ StartActivate(t) \/ StartCastVote(t) \/ StartEnd(t)
  PROVE  ~PolicyTaken(t)' /\ \A u \in Txns \ {t} : txn'[u] = txn[u]
<1>1. PICK kind \in TxnKinds : \E in : GivenTo(kind, in) /\ Start(t, kind, in)
  BY StartsAre
<1>2. PICK in : GivenTo(kind, in) /\ Start(t, kind, in)
  BY <1>1
<1>3. txn' = [txn EXCEPT ![t] = txn'[t]] /\ txn'[t].kind = kind /\ txn'[t].todo = Tail(PlanOf(kind))
  <2>1. /\ txn' = [txn EXCEPT ![t] = txn'[t]]
        /\ txn'[t] =
             [kind |-> kind, in |-> in, todo |-> Tail(PlanOf(kind)),
              rows |-> {r \in RowsOf(Begun(kind, in), Head(PlanOf(kind))) : holder[r] # t},
              seen |-> ReadBy(Begun(kind, in), Head(PlanOf(kind)))]
    BY <1>2, StartShape
  <2> QED
    BY ONLY <2>1
<1>4. \A u \in Txns \ {t} : txn'[u] = txn[u]
  BY <1>3 DEF EngineInv, TxnsTyped
<1>5. kind \in {"close", "end"} => Left(t)' = IF kind = "close" THEN 4 ELSE 2
  <2>1. PICK plan \in Seq(Statements) : plan = PlanOf(kind)
    BY PlansAreSequences
  <2>2. kind \in {"close", "end"} => Len(plan) = IF kind = "close" THEN 5 ELSE 3
    BY <2>1, PlanLengths
  <2>3. CASE kind \in {"close", "end"}
    <3>1. PICK S : S = Statements
      OBVIOUS
    <3>2. plan # << >>
      BY <2>2, <2>3
    <3>3. Len(Tail(plan)) = Len(plan) - 1
      BY <2>1, <3>1, <3>2, HeadTailProperties
    <3>4. Left(t)' = Len(Tail(plan))
      BY <1>3, <2>1 DEF Left
    <3>5. PICK len \in {3, 5} : len = Len(plan) /\ len = IF kind = "close" THEN 5 ELSE 3
      BY <2>2, <2>3
    <3> QED
      BY ONLY <3>3, <3>4, <3>5
  <2> QED
    BY <2>3
<1>6. ~PolicyTaken(t)'
  BY <1>3, <1>5 DEF PolicyTaken, PolicyRead
<1> QED
  BY <1>4, <1>6

LEMMA StartPolicy ==
  ASSUME EngineInv, NEW t \in Txns, LedgerStart(t) \/ StartActivate(t) \/ StartCastVote(t) \/ StartEnd(t)
  PROVE  \A u \in Txns : PolicySeen(u)
<1>1. ~PolicyTaken(t)' /\ \A u \in Txns \ {t} : txn'[u] = txn[u]
  BY StartTakes
<1>2. \A u \in Txns \ {t} : PolicySeen(u)
  BY <1>1 DEF PolicySeen, PolicyTaken, PolicyRead, Left
<1> QED
  BY <1>1, <1>2 DEF PolicySeen

\* A statement takes what it reads.
StatementReads(t, statement) ==
  /\ txn'[t].kind = txn[t].kind /\ txn'[t].in = txn[t].in
  /\ txn'[t].seen = ReadBy(txn[t], statement)
  /\ Left(t) \in Nat /\ Left(t) > 0 /\ Left(t)' = Left(t) - 1
  /\ Next1(txn[t].kind, Left(t), statement)
  /\ RowsTyped /\ TxnRow(txn[t]) /\ Given(t) /\ Read(t)
  /\ \A u \in Txns \ {t} : txn'[u] = txn[u]

LEMMA StatementTakes ==
  ASSUME EngineInv, NEW t \in Txns, Statement(t)
  PROVE  UNCHANGED tables /\ \E statement : StatementReads(t, statement)
<1>0. txn[t].todo # << >> /\ UNCHANGED tables
  BY DEF Statement
<1>1. /\ txn' = [txn EXCEPT ![t] = txn'[t]] /\ txn'[t].kind = txn[t].kind
      /\ txn'[t].in = txn[t].in /\ txn'[t].seen = ReadBy(txn[t], Head(txn[t].todo))
      /\ txn'[t].todo = Tail(txn[t].todo)
  <2>1. /\ txn' = [txn EXCEPT ![t] = txn'[t]]
        /\ txn'[t] =
             [kind |-> txn[t].kind, in |-> txn[t].in, todo |-> Tail(txn[t].todo),
              rows |-> {r \in RowsOf(txn[t], Head(txn[t].todo)) : holder[r] # t},
              seen |-> ReadBy(txn[t], Head(txn[t].todo))]
    BY StatementShape
  <2> QED
    BY ONLY <2>1
<1>2. RowsTyped /\ TxnRow(txn[t]) /\ Given(t) /\ Read(t) /\ Follows(t) /\ DOMAIN txn = Txns
  BY DEF EngineInv, TxnsTyped, Sound
<1>3. /\ Left(t) \in Nat /\ Left(t) > 0
      /\ Next1(txn[t].kind, Left(t), Head(txn[t].todo))
      /\ Len(Tail(txn[t].todo)) = Left(t) - 1
  BY <1>0, <1>2, NextTaken
<1>4. \A u \in Txns \ {t} : txn'[u] = txn[u]
  BY <1>1, <1>2
<1>5. Left(t)' = Left(t) - 1
  BY <1>1, <1>3 DEF Left
<1> QED
  BY <1>0, <1>1, <1>2, <1>3, <1>4, <1>5 DEF StatementReads

LEMMA StatementPolicy ==
  ASSUME EngineInv, NEW t \in Txns, Statement(t)
  PROVE  \A u \in Txns : PolicySeen(u)
<1>0. UNCHANGED <<policy, epochs>>
  BY StatementTakes DEF tables
<1>1. PICK statement : StatementReads(t, statement)
  BY StatementTakes
<1>2. RowsTyped /\ TxnRow(txn[t]) /\ Given(t) /\ Read(t) /\ Next1(txn[t].kind, Left(t), statement)
  BY <1>1 DEF StatementReads
<1>3. PICK seen : seen = ReadBy(txn[t], statement)
  OBVIOUS
<1>4. /\ statement \in {"closing", "lastEpoch", "policy"} => seen.policy = policy
      /\ statement \notin {"closing", "lastEpoch", "policy"} => seen.policy = txn[t].seen.policy
  <2>1. t \in Txns
    OBVIOUS
  <2>2. statement \in {"closing", "lastEpoch", "policy"} => seen.policy = policy
    BY ONLY <1>2, <1>3, <2>1, StatementRead
  <2>3. statement \notin {"closing", "lastEpoch", "policy"} => seen.policy = txn[t].seen.policy
    BY ONLY <1>2, <1>3, <2>1, StatementRead
  <2> QED
    BY <2>2, <2>3
<1>5. \A u \in Txns \ {t} : PolicySeen(u)
  BY <1>1 DEF StatementReads, PolicySeen, PolicyTaken, PolicyRead, Left
<1>6. CASE statement \in {"closing", "lastEpoch", "policy"}
  <2>1. txn'[t].seen.policy = policy
    BY <1>1, <1>3, <1>4, <1>6 DEF StatementReads
  <2>2. PolicySeen(t)
    BY <1>0, <2>1 DEF PolicySeen
  <2> QED
    BY <1>5, <2>2
<1>7. CASE statement \notin {"closing", "lastEpoch", "policy"}
  <2>1. /\ txn'[t].kind = txn[t].kind /\ txn'[t].in = txn[t].in
        /\ Left(t) \in Nat /\ Left(t)' = Left(t) - 1
    BY <1>1 DEF StatementReads
  <2>2. PolicyTaken(t)' => PolicyTaken(t)
    BY <1>2, <1>7, <2>1 DEF PolicyTaken, PolicyRead, Next1
  <2>3. txn'[t].seen.policy = txn[t].seen.policy
    BY <1>1, <1>3, <1>4, <1>7 DEF StatementReads
  <2>4. PolicySeen(t)
    BY ONLY <2>1, <2>2, <2>3 DEF PolicySeen
  <2> QED
    BY <1>5, <2>4
<1> QED
  BY <1>6, <1>7

LEMMA LockPolicy ==
  ASSUME EngineInv, NEW t \in Txns, NEW row \in Rows, Lock(t, row)
  PROVE  \A u \in Txns : PolicySeen(u)
<1>1. row \in txn[t].rows /\ DOMAIN txn = Txns /\ TxnRow(txn[t])
  BY DEF Lock, EngineInv, TxnsTyped
<1>2. PICK rows, seen : rows = txn[t].rows \ {row} /\ seen = LockedBy(t, row)
  OBVIOUS
<1>3. txn' = [txn EXCEPT ![t].rows = rows, ![t].seen = seen]
  BY <1>2 DEF Lock
<1>4. /\ txn'[t].seen = seen /\ txn'[t].in = txn[t].in /\ txn'[t].kind = txn[t].kind
      /\ txn'[t].todo = txn[t].todo /\ \A u \in Txns \ {t} : txn'[u] = txn[u]
  BY <1>1, <1>3 DEF TxnRow
<1>5. seen.policy = txn[t].seen.policy
  BY <1>1, <1>2, LockedRead
<1> QED
  BY <1>4, <1>5 DEF PolicySeen, PolicyTaken, PolicyRead, Left

LEMMA PolicySteps ==
  ASSUME EngineInv, [Next]_vars
  PROVE  \A u \in Txns : PolicySeen(u)
<1>1. CASE UNCHANGED txn
  BY <1>1 DEF PolicySeen, PolicyTaken, PolicyRead, Left
<1>2. create \/ Deadline \/ UNCHANGED vars => UNCHANGED txn
  BY DEF create, Deadline, vars
<1>3. ASSUME NEW t \in Txns, Finish(t)
      PROVE  \A u \in Txns : PolicySeen(u)
  <2>1. txn'[t] = Idle /\ \A u \in Txns \ {t} : txn'[u] = txn[u]
    BY <1>3 DEF Finish, EngineInv, TxnsTyped
  <2>2. ~PolicyTaken(t)'
    BY <2>1, NoneAssumption DEF PolicyTaken, PolicyRead, Idle
  <2>3. \A u \in Txns \ {t} : PolicySeen(u)
    BY <2>1 DEF PolicySeen, PolicyTaken, PolicyRead, Left
  <2> QED
    BY <2>2, <2>3 DEF PolicySeen
<1> QED
  BY <1>1, <1>2, <1>3, StartPolicy, StatementPolicy, LockPolicy, CommitFinishes DEF Next

\* A policy proposal that passes takes the next version number.
PolicyPassed == {p \in Proposals : Passed(p) /\ proposal[p].about.type = "token_policy_change"}

LEMMA EndSettles ==
  ASSUME EngineInv, NEW t \in Txns, end(t)
  PROVE  \E p \in Proposals :
           /\ Ended(p) /\ \A q \in Proposals \ {p} : proposal'[q] = proposal[q]
           /\ UNCHANGED epochs
           /\ \/ /\ Approved(p) /\ proposal[p].about.type = "token_policy_change" /\ VersionFree(t)
                 /\ proposal[p].about.target \in RatesOf
                 /\ PolicyTaken(t) /\ txn[t].seen.policy \in PolicyRow
                 /\ versions' = versions \cup {txn[t].seen.policy.version + 1}
                 /\ policy' = [policy EXCEPT !.pending = PendingVersion(t, proposal[p].about.target)]
              \/ /\ ~Approved(p) \/ proposal[p].about.type # "token_policy_change"
                 /\ UNCHANGED <<policy, versions>>
<1>1. Ready(t, "end") /\ UNCHANGED epochs
  BY DEF end
<1>2. /\ GivenTo("end", txn[t].in) /\ txn[t].seen.policy \in PolicyRow
      /\ txn[t].kind = "end" /\ Left(t) = 0
  BY <1>1, ReadyKnows DEF TxnKinds
<1>3. PICK p \in Proposals : p = txn[t].in.id
  BY <1>2 DEF GivenTo
<1>4. Ended(p) /\ \A q \in Proposals \ {p} : proposal'[q] = proposal[q]
  BY <1>3, EndEnds
<1>5. PolicyTaken(t)
  BY <1>2 DEF PolicyTaken, PolicyRead
<1>6. proposal[p].about \in Purposes
  BY <1>4, NoneAssumption DEF Ended, EngineInv, RowsTyped, GovernanceRows
<1>7. IF Approved(p) THEN Settle(t, proposal[p].about) ELSE UNCHANGED <<request, policy, versions>>
  BY <1>3 DEF end
<1>8. CASE Approved(p) /\ proposal[p].about.type = "token_policy_change"
  <2>1. proposal[p].about.target \in RatesOf
    BY <1>6, <1>8, InputsAssumption
  <2>2. /\ VersionFree(t) /\ versions' = versions \cup {txn[t].seen.policy.version + 1}
        /\ policy' = [policy EXCEPT !.pending = PendingVersion(t, proposal[p].about.target)]
    BY <1>7, <1>8 DEF Settle
  <2> QED
    BY <1>1, <1>2, <1>4, <1>5, <1>8, <2>1, <2>2
<1>9. CASE ~Approved(p) \/ proposal[p].about.type # "token_policy_change"
  <2>1. UNCHANGED <<policy, versions>>
    BY <1>7, <1>9 DEF Settle
  <2> QED
    BY <1>1, <1>4, <1>9, <2>1
<1> QED
  BY <1>8, <1>9


\* What a step does to the versions: nothing, an epoch switch that may activate the
\* pending one, or the end of a proposal that adds one.
LeavesPolicy ==
  /\ UNCHANGED <<policy, versions>> /\ Len(epochs') >= Len(epochs)
  /\ \A p \in Proposals : proposal'[p] = proposal[p] \/ Prepared(p)
SwitchesPolicy(t) ==
  /\ txn[t].kind = "close" /\ PolicyTaken(t) /\ txn[t].in.id = Len(epochs)
  /\ Len(epochs') = Len(epochs) + 1
  /\ UNCHANGED <<versions, proposal>>
  /\ policy' = IF PolicyDue(txn[t].seen.policy, txn[t].in.id + 1)
               THEN Activated(txn[t].seen.policy) ELSE policy
EndsProposal(t, p) ==
  /\ Ended(p) /\ \A q \in Proposals \ {p} : proposal'[q] = proposal[q]
  /\ UNCHANGED epochs
  /\ \/ /\ Approved(p) /\ proposal[p].about.type = "token_policy_change" /\ VersionFree(t)
        /\ proposal[p].about.target \in RatesOf
        /\ PolicyTaken(t) /\ txn[t].seen.policy \in PolicyRow
        /\ versions' = versions \cup {txn[t].seen.policy.version + 1}
        /\ policy' = [policy EXCEPT !.pending = PendingVersion(t, proposal[p].about.target)]
     \/ /\ ~Approved(p) \/ proposal[p].about.type # "token_policy_change"
        /\ UNCHANGED <<policy, versions>>

\* No commit but the switch and the end of a proposal writes a policy or decides one.
LEMMA CommitsLeavePolicy ==
  ASSUME NEW t \in Txns,
         \/ mintForContribution(t) \/ mintInitialAllocation(t) \/ createRequest(t) \/ secondApprove(t)
         \/ reject(t) \/ attachProposal(t) \/ execute(t) \/ reverseMint(t) \/ createNextEpoch(t)
  PROVE  UNCHANGED <<policy, versions>>
<1>1. ASSUME mintForContribution(t)
      PROVE  UNCHANGED <<policy, versions>>
  BY ONLY mintForContribution(t) DEF mintForContribution
<1>2. ASSUME execute(t)
      PROVE  UNCHANGED <<policy, versions>>
  <2>1. UNCHANGED policy
    BY ONLY execute(t) DEF execute
  <2>2. UNCHANGED versions
    BY ONLY execute(t) DEF execute
  <2> QED
    BY <2>1, <2>2
<1>3. ASSUME reverseMint(t)
      PROVE  UNCHANGED <<policy, versions>>
  BY ONLY reverseMint(t) DEF reverseMint
<1>4. CASE mintInitialAllocation(t)
  BY ONLY <1>4 DEF mintInitialAllocation
<1>5. CASE createRequest(t) \/ secondApprove(t) \/ reject(t) \/ attachProposal(t) \/ createNextEpoch(t)
  BY ONLY <1>5 DEF createRequest, secondApprove, reject, attachProposal, createNextEpoch
<1> QED
  BY <1>1, <1>2, <1>3, <1>4, <1>5

\* An epoch that has been opened stays there.
LEMMA EpochsStay ==
  ASSUME EngineInv, NEW t \in Txns, Moves(t) \/ createNextEpoch(t)
  PROVE  Len(epochs) \in Nat /\ Len(epochs') >= Len(epochs)
<1>1. LedgerRows /\ epochs \in Seq(EpochRow) /\ Len(epochs) \in Nat
  BY DEF EngineInv, RowsTyped, LedgerRows
<1>2. CASE createNextEpoch(t)
  <2>1. PICK e : epochs' = Append(epochs, e)
    BY <1>2 DEF createNextEpoch
  <2> QED
    BY <1>1, <2>1
<1>3. ASSUME NEW n, NEW regular, NEW advance, Metered(n, regular, advance)
      PROVE  Len(epochs') = Len(epochs)
  BY <1>1, <1>3 DEF Metered
<1>4. CASE Moves(t)
  <2>1. ASSUME NEW regular \in Nat, NEW advance \in Nat, NEW n \in ActiveEpochs, MintWrites(t, n, regular, advance)
        PROVE  Len(epochs') = Len(epochs)
    BY <1>3, <2>1 DEF MintWrites
  <2>2. ASSUME NEW amount \in Nat \ {0}, NEW n \in ActiveEpochs, ExecutionWrites(t, n, amount)
        PROVE  Len(epochs') = Len(epochs)
    BY <1>3, <2>2 DEF ExecutionWrites
  <2>3. mintInitialAllocation(t) => UNCHANGED epochs
    BY DEF mintInitialAllocation
  <2> QED
    BY <1>1, <1>4, <2>1, <2>2, <2>3 DEF Moves
<1> QED
  BY <1>1, <1>2, <1>4

LEMMA VersionSteps ==
  ASSUME EngineInv, [Next]_vars
  PROVE  \/ LeavesPolicy
         \/ \E t \in Txns : SwitchesPolicy(t)
         \/ \E t \in Txns, p \in Proposals : EndsProposal(t, p)
<1>0. Len(epochs) \in Nat
  BY DEF EngineInv, RowsTyped, LedgerRows
<1>1. CASE create \/ Deadline
  <2>1. UNCHANGED <<policy, versions, epochs>>
    BY <1>1 DEF create, Deadline
  <2> QED
    BY <1>0, <1>1, <2>1, DraftsPrepare DEF LeavesPolicy
<1>2. ASSUME NEW t \in Txns, activate(t) \/ castVote(t)
      PROVE  LeavesPolicy
  <2>1. UNCHANGED <<policy, versions, epochs>>
    BY <1>2 DEF activate, castVote
  <2> QED
    BY <1>0, <1>2, <2>1, VotesPrepare DEF LeavesPolicy
<1>3. ASSUME NEW t \in Txns, end(t)
      PROVE  \E p \in Proposals : EndsProposal(t, p)
  BY <1>3, EndSettles DEF EndsProposal
<1>4. ASSUME NEW t \in Txns, closeEpoch(t)
      PROVE  SwitchesPolicy(t)
  <2>1. /\ Ready(t, "close") /\ UNCHANGED <<versions, proposal>> /\ txn[t].in.id = Len(epochs)
        /\ \E s, e : epochs' = Append(s, e) /\ s = [epochs EXCEPT ![txn[t].in.id].status = "closed"]
        /\ policy' = IF PolicyDue(txn[t].seen.policy, txn[t].in.id + 1)
                     THEN Activated(txn[t].seen.policy) ELSE policy
    BY <1>4, CloseShape
  <2>2. txn[t].kind = "close" /\ Left(t) = 0
    BY <2>1, ReadyKnows DEF TxnKinds
  <2>3. PolicyTaken(t)
    BY <2>2 DEF PolicyTaken, PolicyRead
  <2>4. LedgerRows'
    BY <1>4, CloseKeeps DEF EngineInv, RowsTyped
  <2>5. Len(epochs') = Len(epochs) + 1
    <3>1. PICK s, e : epochs' = Append(s, e) /\ s = [epochs EXCEPT ![txn[t].in.id].status = "closed"]
      BY <2>1
    <3>2. PICK old \in EpochRow : old = epochs[txn[t].in.id] /\ txn[t].in.id \in 1 .. Len(epochs)
      <4>1. GivenTo("close", txn[t].in)
        BY <2>1, ReadyKnows DEF TxnKinds
      <4>2. txn[t].in.id \in DOMAIN epochs /\ epochs \in Seq(EpochRow)
        BY <4>1 DEF GivenTo, EngineInv, RowsTyped, LedgerRows
      <4> QED
        BY <4>2
    <3>3. PICK new : new = [old EXCEPT !.status = "closed"]
      OBVIOUS
    <3>4. new \in EpochRow
      BY <3>3 DEF EpochRow
    <3>5. PICK S : S = EpochRow
      OBVIOUS
    <3>6. epochs \in Seq(S)
      BY <3>5 DEF EngineInv, RowsTyped, LedgerRows
    <3>7. s = [epochs EXCEPT ![txn[t].in.id] = new]
      BY <3>1, <3>2, <3>3
    <3>8. s \in Seq(S) /\ Len(s) = Len(epochs)
      BY <3>2, <3>4, <3>5, <3>6, <3>7, ExceptSeq
    <3> QED
      BY <3>1, <3>8
  <2> QED
    BY <2>1, <2>2, <2>3, <2>5 DEF SwitchesPolicy
<1>5. ASSUME NEW t \in Txns, LedgerCommit(t), ~closeEpoch(t)
      PROVE  LeavesPolicy
  <2>1. UNCHANGED proposal
    BY <1>5, ProposalUntouched
  <2>2. UNCHANGED <<policy, versions>>
    BY <1>5, CommitsLeavePolicy DEF LedgerCommit
  <2>3. Len(epochs') >= Len(epochs)
    BY <1>0, <1>5, CommitMoves, EpochsStay
  <2> QED
    BY <2>1, <2>2, <2>3 DEF LeavesPolicy
<1>6. ASSUME NEW t \in Txns,
             \/ LedgerStart(t) \/ StartActivate(t) \/ StartCastVote(t) \/ StartEnd(t)
             \/ Statement(t) \/ (\E row \in Rows : Lock(t, row)) \/ Rollback(t)
      PROVE  LeavesPolicy
  <2>1. UNCHANGED tables
    BY <1>6, StartsAre DEF Start, Statement, Lock, Rollback
  <2> QED
    BY <1>0, <2>1 DEF LeavesPolicy, tables
<1>7. CASE UNCHANGED vars
  BY <1>0, <1>7 DEF LeavesPolicy, vars, tables
<1> QED
  BY <1>1, <1>2, <1>3, <1>4, <1>5, <1>6, <1>7 DEF Next

\* The last version number given away.
Top == IF policy.pending = None THEN policy.version ELSE policy.pending.version

\* The numbers given away are those up to the last one, the pending version is the next
\* one, nobody has read a later policy, and the one a switch of the last epoch has read
\* with a pending version is still there: nobody else can have taken a number since.
VersionsInv ==
  /\ policy.pending # None => policy.pending.version = policy.version + 1
  /\ versions = 1 .. Top
  /\ Top = 1 + Cardinality(PolicyPassed)
  /\ \A u \in Txns : PolicyTaken(u) => txn[u].seen.policy.version <= policy.version
  /\ \A u \in Txns :
       PolicyTaken(u) /\ txn[u].kind = "close" /\ txn[u].in.id = Len(epochs)
         /\ txn[u].seen.policy.pending # None
         => txn[u].seen.policy = policy

\* What the types say of a policy.
LEMMA PolicyNat ==
  ASSUME NEW p \in PolicyRow
  PROVE  p.version \in Nat /\ (p.pending # None => p.pending.version \in Nat)
BY DEF PolicyRow

\* A transaction that has read the policy has read one.
LEMMA TakenPolicy ==
  ASSUME EngineInv, NEW u \in Txns, PolicyTaken(u)
  PROVE  txn[u].seen.policy \in PolicyRow
<1>1. Read(u)
  BY DEF EngineInv, Sound
<1> QED
  BY <1>1 DEF Read, PolicyTaken, PolicyRead

LEMMA LeavesPolicyStep ==
  ASSUME EngineInv, VersionsInv, \A u \in Txns : PolicySeen(u), LeavesPolicy
  PROVE  VersionsInv'
<1>1. UNCHANGED <<policy, versions>> /\ Len(epochs') >= Len(epochs)
  BY DEF LeavesPolicy
<1>2. PolicyPassed' = PolicyPassed
  <2>1. \A p \in Proposals : (p \in PolicyPassed)' <=> p \in PolicyPassed
    BY DEF LeavesPolicy, Prepared, PolicyPassed, Passed
  <2> QED
    BY <2>1 DEF PolicyPassed
<1>3. Top' = Top
  BY <1>1 DEF Top
<1>4. policy \in PolicyRow /\ policy.version \in Nat
  BY PolicyNat DEF EngineInv, RowsTyped, GovernanceRows
<1>5. ASSUME NEW u \in Txns, PolicyTaken(u)'
      PROVE  txn'[u].seen.policy.version <= policy'.version
  BY <1>1, <1>4, <1>5 DEF PolicySeen, VersionsInv
<1>6. ASSUME NEW u \in Txns, PolicyTaken(u)', txn'[u].kind = "close", txn'[u].in.id = Len(epochs'),
             txn'[u].seen.policy.pending # None
      PROVE  txn'[u].seen.policy = policy'
  <2>1. CASE /\ PolicyTaken(u) /\ txn'[u].kind = txn[u].kind /\ txn'[u].in = txn[u].in
             /\ txn'[u].seen.policy = txn[u].seen.policy
    <3>1. Given(u) /\ txn[u].kind = "close"
      BY <1>6, <2>1 DEF EngineInv, Sound
    <3>2. PICK n \in Nat : n = Len(epochs) /\ DOMAIN epochs = 1 .. n
      BY DEF EngineInv, RowsTyped, LedgerRows
    <3>3. txn[u].in.id \in 1 .. n
      BY <3>1, <3>2 DEF Given, GivenTo
    <3>4. txn[u].in.id = Len(epochs)
      BY <1>1, <1>6, <2>1, <3>2, <3>3
    <3> QED
      BY <1>1, <1>6, <2>1, <3>4 DEF VersionsInv
  <2>2. CASE txn'[u].seen.policy = policy
    BY <1>1, <2>2
  <2> QED
    BY <1>6, <2>1, <2>2 DEF PolicySeen
<1> QED
  BY <1>1, <1>2, <1>3, <1>5, <1>6 DEF VersionsInv

LEMMA SwitchesPolicyStep ==
  ASSUME EngineInv, EngineInv', VersionsInv, \A u \in Txns : PolicySeen(u), NEW t \in Txns, SwitchesPolicy(t)
  PROVE  VersionsInv'
<1>1. /\ UNCHANGED <<versions, proposal>> /\ Len(epochs') = Len(epochs) + 1
      /\ policy \in PolicyRow /\ Len(epochs) \in Nat /\ txn[t].seen.policy \in PolicyRow
  BY TakenPolicy DEF SwitchesPolicy, EngineInv, RowsTyped, GovernanceRows, LedgerRows
<1>2. PolicyPassed' = PolicyPassed
  BY <1>1 DEF PolicyPassed, Passed
<1>3. CASE UNCHANGED policy
  BY <1>1, <1>2, <1>3, LeavesPolicyStep DEF LeavesPolicy
<1>4. CASE PolicyDue(txn[t].seen.policy, txn[t].in.id + 1) /\ policy' = Activated(txn[t].seen.policy)
  <2>1. policy.pending # None /\ policy' = Activated(policy)
    BY <1>4 DEF VersionsInv, SwitchesPolicy, PolicyDue
  <2>2. policy'.version = policy.version + 1 /\ policy'.pending = None /\ policy.version \in Nat
    BY <1>1, <2>1, PolicyNat DEF VersionsInv, Activated
  <2>3. Top' = Top
    BY <2>1, <2>2 DEF Top, VersionsInv
  <2>4. ASSUME NEW u \in Txns, PolicyTaken(u)'
        PROVE  /\ txn'[u].seen.policy.version <= policy'.version
               /\ ~(txn'[u].kind = "close" /\ txn'[u].in.id = Len(epochs'))
    <3>1. /\ PolicyTaken(u) /\ txn'[u].kind = txn[u].kind /\ txn'[u].in = txn[u].in
          /\ txn'[u].seen.policy = txn[u].seen.policy
      <4>1. ~UNCHANGED <<policy, epochs>>
        BY <1>1
      <4> QED
        BY <2>4, <4>1 DEF PolicySeen
    <3>2. txn[u].seen.policy \in PolicyRow /\ txn[u].seen.policy.version \in Nat
      BY <3>1, TakenPolicy, PolicyNat
    <3>3. txn[u].seen.policy.version <= policy.version
      BY <3>1 DEF VersionsInv
    <3>4. txn[u].kind = "close" => txn[u].in.id \in 1 .. Len(epochs)
      <4>1. Given(u) /\ epochs \in Seq(EpochRow)
        BY DEF EngineInv, Sound, RowsTyped, LedgerRows
      <4> QED
        BY <4>1 DEF Given, GivenTo
    <3> QED
      BY <1>1, <2>2, <3>1, <3>2, <3>3, <3>4
  <2> QED
    BY <1>1, <1>2, <2>2, <2>3, <2>4 DEF VersionsInv
<1> QED
  BY <1>3, <1>4 DEF SwitchesPolicy

LEMMA EndsProposalStep ==
  ASSUME EngineInv, EngineInv', VersionsInv, \A u \in Txns : PolicySeen(u),
         NEW t \in Txns, NEW p \in Proposals, EndsProposal(t, p)
  PROVE  VersionsInv'
<1>1. /\ Ended(p) /\ \A q \in Proposals \ {p} : proposal'[q] = proposal[q]
      /\ UNCHANGED epochs /\ policy \in PolicyRow /\ policy.version \in Nat
  BY PolicyNat DEF EndsProposal, EngineInv, RowsTyped, GovernanceRows
<1>2. p \notin PolicyPassed
  BY <1>1 DEF Ended, PolicyPassed, Passed
<1>3. \A q \in Proposals \ {p} : (q \in PolicyPassed)' <=> q \in PolicyPassed
  BY <1>1 DEF PolicyPassed, Passed
<1>4. (p \in PolicyPassed)' <=> Approved(p) /\ proposal[p].about.type = "token_policy_change"
  BY <1>1 DEF Ended, Approved, PolicyPassed, Passed
<1>5. CASE UNCHANGED <<policy, versions>> /\ ~(Approved(p) /\ proposal[p].about.type = "token_policy_change")
  <2>1. PolicyPassed' = PolicyPassed
    <3>1. \A q \in Proposals : (q \in PolicyPassed)' <=> q \in PolicyPassed
      BY <1>2, <1>3, <1>4, <1>5
    <3> QED
      BY <3>1 DEF PolicyPassed
  <2>2. Top' = Top
    BY <1>5 DEF Top
  <2>3. \A u \in Txns : PolicyTaken(u)' =>
          \/ /\ PolicyTaken(u) /\ txn'[u].kind = txn[u].kind /\ txn'[u].in = txn[u].in
             /\ txn'[u].seen.policy = txn[u].seen.policy
          \/ txn'[u].seen.policy = policy
    BY DEF PolicySeen
  <2> QED
    BY <1>1, <1>5, <2>1, <2>2, <2>3 DEF VersionsInv
<1>6. CASE /\ Approved(p) /\ proposal[p].about.type = "token_policy_change" /\ VersionFree(t)
           /\ proposal[p].about.target \in RatesOf
           /\ PolicyTaken(t) /\ txn[t].seen.policy \in PolicyRow
           /\ versions' = versions \cup {txn[t].seen.policy.version + 1}
           /\ policy' = [policy EXCEPT !.pending = PendingVersion(t, proposal[p].about.target)]
  <2>1. PICK v \in Nat : v = txn[t].seen.policy.version
    BY <1>6, PolicyNat
  <2>2. v + 1 \notin 1 .. Top /\ v <= policy.version
    BY <1>6, <2>1 DEF VersionFree, VersionsInv
  <2>3. policy.pending = None /\ v = policy.version /\ Top = v
    BY <1>1, <2>2, PolicyNat DEF VersionsInv, Top
  <2>4. PICK new : new = PendingVersion(t, proposal[p].about.target)
    OBVIOUS
  <2>5. new # None /\ new.version = v + 1
    <3>1. txn[t].seen.epoch + 1 \in Nat
      BY DEF EngineInv, TxnsTyped, TxnRow, SeenRow
    <3>2. new \in [version : Nat, rates : RatesOf, epoch : Nat]
      BY <1>6, <2>1, <2>4, <3>1 DEF PendingVersion
    <3> QED
      BY <2>1, <2>4, <3>2, NoneAssumption DEF PendingVersion
  <2>6. policy'.version = policy.version /\ policy'.pending = new
    BY <1>1, <1>6, <2>4 DEF PolicyRow
  <2>7. Top' = v + 1
    BY <2>5, <2>6 DEF Top
  <2>8. versions' = 1 .. v + 1
    <3>1. versions' = (1 .. v) \cup {v + 1}
      BY <1>6, <2>1, <2>3 DEF VersionsInv
    <3> QED
      BY <3>1
  <2>9. Top' = 1 + Cardinality(PolicyPassed')
    <3>1. PolicyPassed' = PolicyPassed \cup {p}
      <4>1. \A q \in Proposals : (q \in PolicyPassed)' <=> q \in PolicyPassed \cup {p}
        BY <1>3, <1>4, <1>6
      <4> QED
        BY <4>1 DEF PolicyPassed
    <3>2. IsFiniteSet(PolicyPassed)
      BY ProposalsAssumption, FS_Subset DEF PolicyPassed
    <3>3. Cardinality(PolicyPassed \cup {p}) = Cardinality(PolicyPassed) + 1
      BY <1>2, <3>2, FS_AddElement
    <3>4. Cardinality(PolicyPassed) \in Nat
      BY <3>2, FS_CardinalityType
    <3> QED
      BY <2>3, <2>7, <3>1, <3>3, <3>4 DEF VersionsInv
  <2>10. ASSUME NEW u \in Txns, PolicyTaken(u)'
         PROVE  /\ PolicyTaken(u) /\ txn'[u].kind = txn[u].kind /\ txn'[u].in = txn[u].in
                /\ txn'[u].seen.policy = txn[u].seen.policy
    <3>1. ~UNCHANGED <<policy, epochs>>
      <4>1. policy'.pending # policy.pending
        BY <2>3, <2>5, <2>6
      <4> QED
        BY <4>1
    <3> QED
      BY <2>10, <3>1 DEF PolicySeen
  <2>11. ASSUME NEW u \in Txns, PolicyTaken(u)'
         PROVE  txn'[u].seen.policy.version <= policy'.version
    BY <2>6, <2>10, <2>11 DEF VersionsInv
  <2>12. ASSUME NEW u \in Txns, PolicyTaken(u)', txn'[u].kind = "close", txn'[u].in.id = Len(epochs'),
                txn'[u].seen.policy.pending # None
         PROVE  txn'[u].seen.policy = policy'
    BY <1>1, <2>3, <2>10, <2>12 DEF VersionsInv
  <2>13. policy'.pending # None => policy'.pending.version = policy'.version + 1
    BY <2>3, <2>5, <2>6
  <2> QED
    BY <2>7, <2>8, <2>9, <2>11, <2>12, <2>13 DEF VersionsInv
<1> QED
  BY <1>1, <1>5, <1>6 DEF EndsProposal

\* Every passed policy proposal has a version of its own, which is in force, has been or
\* is the pending one: two proposals that end together cannot both be given the number
\* they have both read, and an epoch switch cannot bring back a policy it has read before.
THEOREM VersionsAreKept == Spec => []NoVersionLost
<1>1. DatabaseInit => VersionsInv
  <2> SUFFICES ASSUME DatabaseInit
               PROVE  VersionsInv
    OBVIOUS
  <2>1. policy.version = 1 /\ policy.pending = None /\ Top = 1 /\ versions = 1 .. 1
    BY DEF DatabaseInit, Top
  <2>2. PolicyPassed = {}
    BY NoneAssumption DEF DatabaseInit, PolicyPassed, Passed, NoProposal
  <2>3. Cardinality(PolicyPassed) = 0
    BY <2>2, FS_EmptySet
  <2>4. \A u \in Txns : ~PolicyTaken(u)
    BY NoneAssumption DEF DatabaseInit, Idle, PolicyTaken, PolicyRead
  <2> QED
    BY <2>1, <2>3, <2>4 DEF VersionsInv
<1>2. EngineInv /\ EngineInv' /\ VersionsInv /\ [Next]_vars => VersionsInv'
  <2> SUFFICES ASSUME EngineInv, EngineInv', VersionsInv, [Next]_vars
               PROVE  VersionsInv'
    OBVIOUS
  <2>1. \A u \in Txns : PolicySeen(u)
    BY PolicySteps
  <2> QED
    BY <2>1, VersionSteps, LeavesPolicyStep, SwitchesPolicyStep, EndsProposalStep
<1>3. VersionsInv /\ EngineInv => NoVersionLost
  <2> SUFFICES ASSUME VersionsInv, EngineInv
               PROVE  NoVersionLost
    OBVIOUS
  <2>1. IsFiniteSet(PolicyPassed) /\ Cardinality(PolicyPassed) \in Nat
    BY ProposalsAssumption, FS_Subset, FS_CardinalityType DEF PolicyPassed
  <2>2. PICK n \in Nat : n = Cardinality(PolicyPassed) /\ Top = 1 + n
    BY <2>1 DEF VersionsInv
  <2>3. Cardinality(versions) = 1 + n
    <3>1. PICK top \in Int : top = 1 + n
      OBVIOUS
    <3>2. Cardinality(1 .. top) = top
      BY <3>1, FS_Interval
    <3> QED
      BY <2>2, <3>1, <3>2 DEF VersionsInv
  <2>4. policy.version \in Nat
    BY PolicyNat DEF EngineInv, RowsTyped, GovernanceRows
  <2>5. \A v \in versions : v <= policy.version \/ (policy.pending # None /\ policy.pending.version = v)
    BY <2>4 DEF VersionsInv, Top
  <2> QED
    BY <2>2, <2>3, <2>5 DEF NoVersionLost, PolicyPassed
<1> QED
  BY <1>1, <1>2, <1>3, EngineInvHolds, PTL DEF Spec

-----------------------------------------------------------------------------
(***************************************************************************)
(* The ledger as a book.                                                   *)
(***************************************************************************)

BookFrom(rows) ==
  [i \in DOMAIN rows |->
     [member |-> rows[i].member, balanceAfter |-> rows[i].balanceAfter,
      change |-> IF rows[i].kind = "reversal" THEN -rows[i].amount ELSE rows[i].amount,
      supplyAfter |-> rows[i].supplyAfter]]
BookOf == BookFrom(ledger)
Totals == [m \in Members |-> balance[m].total]
BookEntry == [member : Members, balanceAfter : Nat, change : Int, supplyAfter : Nat]

\* A member who has entries has a last one.
HasLast(b) ==
  \A m \in Members : (\E j \in DOMAIN b : b[j].member = m) => \E j \in DOMAIN b : Book!LastOf(b, j, m)
Kept(b, s, amounts) == Book!Chained(b) /\ Book!Settles(b, s, amounts) /\ HasLast(b)

\* Entries after the n-th that go on from a supply and from amounts, the first of a member
\* from the member's amount and a second one from the first, right before it.
GoesOn(c, n, s, amounts) ==
  /\ \A i \in n + 1 .. Len(c) :
       c[i].supplyAfter = c[i].change + (IF i = n + 1 THEN s ELSE c[i - 1].supplyAfter)
  /\ \A i \in n + 1 .. Len(c) :
       \/ /\ \A j \in n + 1 .. i - 1 : c[j].member # c[i].member
          /\ c[i].balanceAfter = amounts[c[i].member] + c[i].change
       \/ /\ i - 1 > n /\ c[i - 1].member = c[i].member
          /\ c[i].balanceAfter = c[i - 1].balanceAfter + c[i].change

\* They leave the amounts the last of them state.
LeavesAmounts(c, n, amounts, after) ==
  \A m \in Members :
    \/ (\A i \in n + 1 .. Len(c) : c[i].member # m) /\ after[m] = amounts[m]
    \/ \E i \in n + 1 .. Len(c) : Book!LastOf(c, i, m) /\ after[m] = c[i].balanceAfter

LEMMA BookGrows ==
  ASSUME NEW b \in Seq(BookEntry), NEW c \in Seq(BookEntry), NEW n \in Nat, Len(b) = n, Len(c) > n,
         \A i \in 1 .. n : c[i] = b[i],
         NEW s \in Nat, NEW amounts \in [Members -> Nat], Kept(b, s, amounts),
         NEW after \in [Members -> Nat],
         GoesOn(c, n, s, amounts), LeavesAmounts(c, n, amounts, after)
  PROVE  Book!Extends(c, b) /\ Kept(c, c[Len(c)].supplyAfter, after)
<1>1. PICK len \in Nat : len = Len(c) /\ len > n
  OBVIOUS
<1>2. DOMAIN b = 1 .. n /\ DOMAIN c = 1 .. len
  BY <1>1
<1>3. /\ \A i \in 1 .. len : c[i] \in BookEntry
      /\ \A i \in 1 .. len : c[i].member \in Members /\ c[i].balanceAfter \in Int /\ c[i].supplyAfter \in Int /\ c[i].change \in Int
  <2>1. \A i \in 1 .. len : c[i] \in BookEntry
    BY <1>1
  <2>2. \A e \in BookEntry : e.member \in Members /\ e.balanceAfter \in Int /\ e.supplyAfter \in Int /\ e.change \in Int
    BY DEF BookEntry
  <2> QED
    BY ONLY <2>1, <2>2
<1>4. s = IF n = 0 THEN 0 ELSE b[n].supplyAfter
  <2>1. n = 0 <=> b = << >>
    OBVIOUS
  <2> QED
    BY <2>1 DEF Kept, Book!Settles
<1>5. /\ \A m \in Members : \A j \in 1 .. n : Book!LastOf(b, j, m) => amounts[m] = b[j].balanceAfter
      /\ \A m \in Members : (\A j \in 1 .. n : b[j].member # m) => amounts[m] = 0
  BY <1>2 DEF Kept, Book!Settles
<1>6. \A i \in 1 .. n :
        /\ b[i].supplyAfter = b[i].change + (IF i = 1 THEN 0 ELSE b[i - 1].supplyAfter)
        /\ \A j \in 1 .. n : Book!Precedes(b, j, i) => b[i].balanceAfter = b[j].balanceAfter + b[i].change
        /\ (\A j \in 1 .. n : ~Book!Precedes(b, j, i)) => b[i].balanceAfter = b[i].change
  BY <1>2 DEF Kept, Book!Chained
<1>7. ASSUME NEW i \in 1 .. len
      PROVE  c[i].supplyAfter = c[i].change + (IF i = 1 THEN 0 ELSE c[i - 1].supplyAfter)
  <2>1. CASE i <= n
    BY <1>6, <2>1
  <2>2. CASE i > n
    <3>1. c[i].supplyAfter = c[i].change + (IF i = n + 1 THEN s ELSE c[i - 1].supplyAfter)
      BY <1>1, <2>2 DEF GoesOn
    <3> QED
      BY <1>4, <2>2, <3>1
  <2> QED
    BY <2>1, <2>2
<1>0. /\ \A j, i : Book!Precedes(c, j, i) <=>
           /\ j < i /\ c[j].member = c[i].member
           /\ \A k \in 1 .. len : j < k /\ k < i => c[k].member # c[i].member
      /\ \A j, i : Book!Precedes(b, j, i) <=>
           /\ j < i /\ b[j].member = b[i].member
           /\ \A k \in 1 .. n : j < k /\ k < i => b[k].member # b[i].member
      /\ \A j, m : Book!LastOf(c, j, m) <=> c[j].member = m /\ \A k \in 1 .. len : j < k => c[k].member # m
      /\ \A j, m : Book!LastOf(b, j, m) <=> b[j].member = m /\ \A k \in 1 .. n : j < k => b[k].member # m
  BY <1>2 DEF Book!Precedes, Book!LastOf
<1>15. \A k \in 1 .. n : k \in 1 .. len /\ c[k] = b[k]
  BY <1>1
<1>8. ASSUME NEW i \in 1 .. n, NEW j \in 1 .. len
      PROVE  Book!Precedes(c, j, i) <=> j \in 1 .. n /\ Book!Precedes(b, j, i)
  <2>1. j < i => j \in 1 .. n
    OBVIOUS
  <2>2. \A k \in 1 .. len : k < i => k \in 1 .. n
    OBVIOUS
  <2> QED
    <3>1. CASE j \in 1 .. n
      <4>1. Book!Precedes(c, j, i) <=>
              /\ j < i /\ b[j].member = b[i].member
              /\ \A k \in 1 .. n : j < k /\ k < i => b[k].member # b[i].member
        <5>1. c[j] = b[j] /\ c[i] = b[i]
          BY <1>15, <3>1
        <5>2. (\A k \in 1 .. len : j < k /\ k < i => c[k].member # c[i].member)
                <=> \A k \in 1 .. n : j < k /\ k < i => b[k].member # b[i].member
          BY <1>15, <2>2, <5>1
        <5>3. Book!Precedes(c, j, i) <=>
                /\ j < i /\ c[j].member = c[i].member
                /\ \A k \in 1 .. len : j < k /\ k < i => c[k].member # c[i].member
          BY ONLY <1>0, Zenon
        <5>4. c[j].member = c[i].member <=> b[j].member = b[i].member
          BY ONLY <5>1
        <5> QED
          BY ONLY <5>2, <5>3, <5>4, Zenon
      <4> QED
        BY <1>0, <3>1, <4>1
    <3>2. CASE j \notin 1 .. n
      BY <1>0, <2>1, <3>2
    <3> QED
      BY <3>1, <3>2
<1>9. ASSUME NEW j \in 1 .. n, NEW m, \A i \in n + 1 .. len : c[i].member # m
      PROVE  Book!LastOf(c, j, m) <=> Book!LastOf(b, j, m)
  <2>1. \A k \in 1 .. len : k \in 1 .. n \/ k \in n + 1 .. len
    OBVIOUS
  <2> QED
    <3>1. c[j] = b[j]
      BY <1>15
    <3>2. (\A k \in 1 .. len : j < k => c[k].member # m) <=> \A k \in 1 .. n : j < k => b[k].member # m
      BY <1>9, <1>15, <2>1
    <3>3. Book!LastOf(c, j, m) <=> c[j].member = m /\ \A k \in 1 .. len : j < k => c[k].member # m
      BY ONLY <1>0, Zenon
    <3>4. c[j].member = m <=> b[j].member = m
      BY ONLY <3>1
    <3>5. Book!LastOf(b, j, m) <=> b[j].member = m /\ \A k \in 1 .. n : j < k => b[k].member # m
      BY ONLY <1>0, Zenon
    <3> QED
      BY ONLY <3>2, <3>3, <3>4, <3>5, Zenon
<1>10. ASSUME NEW i \in 1 .. len
       PROVE  /\ \A j \in 1 .. len : Book!Precedes(c, j, i) => c[i].balanceAfter = c[j].balanceAfter + c[i].change
              /\ (\A j \in 1 .. len : ~Book!Precedes(c, j, i)) => c[i].balanceAfter = c[i].change
  <2>1. CASE i <= n
    <3>1. i \in 1 .. n /\ c[i] = b[i] /\ \A j \in 1 .. n : j \in 1 .. len /\ c[j] = b[j]
      BY <1>1, <2>1
    <3> QED
      BY ONLY <1>6, <1>8, <3>1
  <2>2. CASE /\ i > n /\ \A j \in n + 1 .. i - 1 : c[j].member # c[i].member
             /\ c[i].balanceAfter = amounts[c[i].member] + c[i].change
    <3>1. PICK m \in Members : m = c[i].member
      BY <1>3
    <3>2. ASSUME NEW j \in 1 .. len
          PROVE  Book!Precedes(c, j, i) <=> j \in 1 .. n /\ Book!LastOf(b, j, m)
      <4>1. j \in 1 .. n \/ j > n
        OBVIOUS
      <4>2. CASE j > n
        <5>1. j < i => j \in n + 1 .. i - 1
          BY <4>2
        <5> QED
          BY <1>0, <2>2, <3>1, <4>2, <5>1
      <4>3. CASE j \in 1 .. n
        <5>1. j < i /\ \A k \in 1 .. len : j < k /\ k < i => k \in 1 .. n \/ k \in n + 1 .. i - 1
          BY <2>2, <4>3
        <5>2. \A k \in 1 .. n : k < i
          BY <2>2
        <5> QED
          <6>1. c[j] = b[j]
            BY <1>15, <4>3
          <6>2. (\A k \in 1 .. len : j < k /\ k < i => c[k].member # m) <=> \A k \in 1 .. n : j < k => b[k].member # m
            BY <1>15, <2>2, <3>1, <5>1, <5>2
          <6>0. Book!Precedes(c, j, i) <=>
                  /\ j < i /\ c[j].member = c[i].member
                  /\ \A k \in 1 .. len : j < k /\ k < i => c[k].member # c[i].member
            BY ONLY <1>0, Zenon
          <6>3. Book!Precedes(c, j, i) <=>
                  /\ j < i /\ c[j].member = m
                  /\ \A k \in 1 .. len : j < k /\ k < i => c[k].member # m
            BY ONLY <6>0, <3>1
          <6>4. c[j].member = m <=> b[j].member = m
            BY ONLY <6>1
          <6>5. Book!LastOf(b, j, m) <=> b[j].member = m /\ \A k \in 1 .. n : j < k => b[k].member # m
            BY ONLY <1>0, Zenon
          <6>6. j < i
            BY <5>1
          <6>7. Book!Precedes(c, j, i) <=> Book!LastOf(b, j, m)
            BY ONLY <6>2, <6>3, <6>4, <6>5, <6>6, Zenon
          <6> QED
            BY ONLY <4>3, <6>7
      <4> QED
        BY <4>1, <4>2, <4>3
    <3>3. (\A j \in 1 .. len : ~Book!Precedes(c, j, i)) => amounts[m] = 0
      <4> SUFFICES ASSUME \A j \in 1 .. len : ~Book!Precedes(c, j, i)
                   PROVE  amounts[m] = 0
        OBVIOUS
      <4>1. \A j \in 1 .. n : j \in 1 .. len
        BY <1>1
      <4>2. \A j \in 1 .. n : ~Book!LastOf(b, j, m)
        BY <3>2, <4>1
      <4>3. \A j \in 1 .. n : b[j].member # m
        BY <1>2, <4>2 DEF Kept, HasLast
      <4> QED
        BY <1>5, <4>3
    <3>4. \A j \in 1 .. len : Book!Precedes(c, j, i) => amounts[m] = c[j].balanceAfter
      BY <1>5, <3>2
    <3> QED
      BY <1>3, <2>2, <3>1, <3>3, <3>4
  <2>3. CASE /\ i > n /\ i - 1 > n /\ c[i - 1].member = c[i].member
             /\ c[i].balanceAfter = c[i - 1].balanceAfter + c[i].change
    <3>1. i - 1 \in 1 .. len
      BY <2>3
    <3>2. Book!Precedes(c, i - 1, i)
      <4>1. i - 1 < i /\ \A k \in 1 .. len : ~(i - 1 < k /\ k < i)
        OBVIOUS
      <4> QED
        BY <1>0, <2>3, <4>1
    <3>3. ASSUME NEW j \in 1 .. len, Book!Precedes(c, j, i)
          PROVE  j = i - 1
      <4>1. j < i => j = i - 1 \/ (j < i - 1 /\ i - 1 < i)
        OBVIOUS
      <4>2. c[i - 1].member = c[i].member
        BY <2>3
      <4>3. Book!Precedes(c, j, i) <=>
              /\ j < i /\ c[j].member = c[i].member
              /\ \A k \in 1 .. len : j < k /\ k < i => c[k].member # c[i].member
        BY ONLY <1>0, Zenon
      <4>4. j < i /\ \A k \in 1 .. len : j < k /\ k < i => c[k].member # c[i].member
        BY ONLY <3>3, <4>3
      <4> QED
        BY ONLY <3>1, <4>1, <4>2, <4>4
    <3> QED
      BY <2>3, <3>1, <3>2, <3>3
  <2>4. i > n => i \in n + 1 .. Len(c)
    BY <1>1
  <2> QED
    BY <2>1, <2>2, <2>3, <2>4 DEF GoesOn
<1>11. Book!Chained(c)
  BY <1>2, <1>7, <1>10 DEF Book!Chained
<1>12. ASSUME NEW m \in Members
       PROVE  /\ \A j \in 1 .. len : Book!LastOf(c, j, m) => after[m] = c[j].balanceAfter
              /\ (\A j \in 1 .. len : c[j].member # m) => after[m] = 0
              /\ (\E j \in 1 .. len : c[j].member = m) => \E j \in 1 .. len : Book!LastOf(c, j, m)
  <2>1. CASE (\A i \in n + 1 .. len : c[i].member # m) /\ after[m] = amounts[m]
    <3>1. \A j \in 1 .. len : c[j].member = m => j \in 1 .. n /\ b[j].member = m
      BY <2>1
    <3>2. \A j \in 1 .. len : Book!LastOf(c, j, m) => j \in 1 .. n /\ Book!LastOf(b, j, m)
      <4>1. \A j \in 1 .. len : Book!LastOf(c, j, m) => c[j].member = m
        BY DEF Book!LastOf
      <4> QED
        BY <1>9, <2>1, <3>1, <4>1
    <3>3. \A j \in 1 .. n : j \in 1 .. len /\ c[j] = b[j]
      BY <1>1
    <3>4. ASSUME NEW j \in 1 .. len, c[j].member = m
          PROVE  \E k \in 1 .. len : Book!LastOf(c, k, m)
      <4>1. PICK k \in 1 .. n : Book!LastOf(b, k, m)
        BY <1>2, <3>1, <3>4 DEF Kept, HasLast
      <4>2. Book!LastOf(c, k, m)
        BY <1>9, <2>1, <4>1
      <4> QED
        BY <3>3, <4>2
    <3>5. ASSUME NEW j \in 1 .. len, Book!LastOf(c, j, m)
          PROVE  after[m] = c[j].balanceAfter
      BY <1>5, <2>1, <3>2, <3>3, <3>5
    <3>6. ASSUME \A j \in 1 .. len : c[j].member # m
          PROVE  after[m] = 0
      BY <1>5, <2>1, <3>3, <3>6
    <3> QED
      BY <3>4, <3>5, <3>6
  <2>2. ASSUME NEW i \in n + 1 .. len, Book!LastOf(c, i, m), after[m] = c[i].balanceAfter
        PROVE  /\ \A j \in 1 .. len : Book!LastOf(c, j, m) => after[m] = c[j].balanceAfter
               /\ (\A j \in 1 .. len : c[j].member # m) => after[m] = 0
               /\ (\E j \in 1 .. len : c[j].member = m) => \E j \in 1 .. len : Book!LastOf(c, j, m)
    <3>1. i \in 1 .. len /\ c[i].member = m
      BY <2>2 DEF Book!LastOf
    <3>2. \A j \in 1 .. len : Book!LastOf(c, j, m) => j = i
      <4>1. \A j \in 1 .. len : j = i \/ j < i \/ i < j
        BY <3>1
      <4> QED
        BY <1>2, <2>2, <3>1, <4>1 DEF Book!LastOf
    <3> QED
      BY <2>2, <3>1, <3>2
  <2> QED
    BY <1>1, <2>1, <2>2 DEF LeavesAmounts
<1>13. Book!Settles(c, c[Len(c)].supplyAfter, after)
  <2>1. c # << >>
    BY <1>1
  <2> QED
    BY <1>2, <1>12, <2>1 DEF Book!Settles
<1>14. HasLast(c)
  BY <1>2, <1>12 DEF HasLast
<1>16. Book!Extends(c, b)
  BY <1>1, <1>2 DEF Book!Extends
<1> QED
  BY <1>11, <1>13, <1>14, <1>16 DEF Kept

\* A step that leaves the members, the amounts and the figures of the entries leaves the book.
LEMMA BookUnchanged ==
  ASSUME DOMAIN ledger' = DOMAIN ledger,
         \A i \in DOMAIN ledger :
           /\ ledger'[i].member = ledger[i].member /\ ledger'[i].amount = ledger[i].amount
           /\ ledger'[i].kind = ledger[i].kind /\ ledger'[i].balanceAfter = ledger[i].balanceAfter
           /\ ledger'[i].supplyAfter = ledger[i].supplyAfter
  PROVE  BookOf' = BookOf
BY DEF BookOf, BookFrom

\* The book of a ledger.
LEMMA BookType ==
  ASSUME NEW rows \in Seq(EntryRow)
  PROVE  /\ BookFrom(rows) \in Seq(BookEntry) /\ Len(BookFrom(rows)) = Len(rows)
         /\ DOMAIN BookFrom(rows) = 1 .. Len(rows) /\ Len(rows) \in Nat
         /\ \A i \in 1 .. Len(rows) :
              /\ BookFrom(rows)[i].member = rows[i].member
              /\ BookFrom(rows)[i].balanceAfter = rows[i].balanceAfter
              /\ BookFrom(rows)[i].change = IF rows[i].kind = "reversal" THEN -rows[i].amount ELSE rows[i].amount
              /\ BookFrom(rows)[i].supplyAfter = rows[i].supplyAfter
<1>1. PICK n \in Nat : n = Len(rows) /\ DOMAIN rows = 1 .. n
  OBVIOUS
<1>2. \A i \in 1 .. n : rows[i] \in EntryRow
  BY <1>1
<1>3. \A e \in EntryRow :
        [member |-> e.member, balanceAfter |-> e.balanceAfter,
         change |-> IF e.kind = "reversal" THEN -e.amount ELSE e.amount, supplyAfter |-> e.supplyAfter]
          \in BookEntry
  <2> SUFFICES ASSUME NEW e \in EntryRow
               PROVE  [member |-> e.member, balanceAfter |-> e.balanceAfter,
                       change |-> IF e.kind = "reversal" THEN -e.amount ELSE e.amount,
                       supplyAfter |-> e.supplyAfter] \in BookEntry
    OBVIOUS
  <2>1. PICK change \in Int : change = IF e.kind = "reversal" THEN -e.amount ELSE e.amount
    BY DEF EntryRow
  <2>2. e.member \in Members /\ e.balanceAfter \in Nat /\ e.supplyAfter \in Nat
    BY DEF EntryRow
  <2> QED
    BY <2>1, <2>2 DEF BookEntry
<1>4. \A i \in 1 .. n :
        BookFrom(rows)[i] =
          [member |-> rows[i].member, balanceAfter |-> rows[i].balanceAfter,
           change |-> IF rows[i].kind = "reversal" THEN -rows[i].amount ELSE rows[i].amount,
           supplyAfter |-> rows[i].supplyAfter]
  BY <1>1 DEF BookFrom
<1>5. \A i \in 1 .. n : BookFrom(rows)[i] \in BookEntry
  BY <1>2, <1>3, <1>4
<1>6. BookFrom(rows) \in [1 .. n -> BookEntry]
  <2>1. BookFrom(rows) = [i \in 1 .. n |-> BookFrom(rows)[i]]
    BY <1>1 DEF BookFrom
  <2> QED
    BY <1>5, <2>1
<1>7. BookFrom(rows) \in Seq(BookEntry) /\ Len(BookFrom(rows)) = n
  <2>1. PICK S, b : S = BookEntry /\ b = BookFrom(rows)
    OBVIOUS
  <2>2. b \in [1 .. n -> S]
    BY <1>6, <2>1
  <2>3. b \in Seq(S) /\ Len(b) = n
    BY <2>2
  <2> QED
    BY <2>1, <2>3
<1> QED
  BY <1>1, <1>4, <1>6, <1>7

LEMMA BookPosted ==
  ASSUME RowsTyped, RowsTyped', Kept(BookOf, supply, Totals),
         Len(ledger') > Len(ledger), \A i \in DOMAIN ledger : ledger'[i] = ledger[i],
         GoesOn(BookOf', Len(ledger), supply, Totals),
         LeavesAmounts(BookOf', Len(ledger), Totals, Totals'),
         supply' = ledger'[Len(ledger')].supplyAfter
  PROVE  Book!Post /\ Kept(BookOf, supply, Totals)'
<1>0. \A bs \in [Members -> BalanceRow] : [m \in Members |-> bs[m].total] \in [Members -> Nat]
  BY DEF BalanceRow
<1>1. PICK b \in Seq(BookEntry), n \in Nat, s \in Nat, amounts \in [Members -> Nat] :
        b = BookOf /\ n = Len(ledger) /\ s = supply /\ amounts = Totals /\ Len(b) = n
  <2>1. ledger \in Seq(EntryRow) /\ supply \in Nat /\ balance \in [Members -> BalanceRow]
    BY DEF RowsTyped, LedgerRows
  <2>2. Totals \in [Members -> Nat]
    BY <1>0, <2>1 DEF Totals
  <2> QED
    BY <2>1, <2>2, BookType DEF BookOf
<1>2. /\ BookOf' \in Seq(BookEntry) /\ Len(BookOf') = Len(ledger') /\ Totals' \in [Members -> Nat]
      /\ Len(ledger') \in Nat
      /\ \A i \in 1 .. Len(ledger') : BookOf'[i].supplyAfter = ledger'[i].supplyAfter
  <2>1. ledger' \in Seq(EntryRow) /\ balance' \in [Members -> BalanceRow]
    BY DEF RowsTyped, LedgerRows
  <2>2. Totals' \in [Members -> Nat]
    BY <1>0, <2>1 DEF Totals
  <2> QED
    BY <2>1, <2>2, BookType DEF BookOf
<1>3. PICK c \in Seq(BookEntry), after \in [Members -> Nat], k \in Nat :
        c = BookOf' /\ after = Totals' /\ k = Len(ledger') /\ Len(c) = k
  BY <1>2
<1>4. \A i \in 1 .. n : c[i] = b[i]
  <2>1. DOMAIN ledger = 1 .. n /\ DOMAIN ledger' = 1 .. k
    BY <1>1, <1>3 DEF RowsTyped, LedgerRows
  <2>2. \A i \in 1 .. n : i \in 1 .. k
    BY <1>1, <1>3
  <2> QED
    BY <1>1, <1>3, <2>1, <2>2 DEF BookOf, BookFrom
<1>5. Kept(b, s, amounts) /\ GoesOn(c, n, s, amounts) /\ LeavesAmounts(c, n, amounts, after)
  BY <1>1, <1>3
<1>6. Book!Extends(c, b) /\ Kept(c, c[Len(c)].supplyAfter, after)
  BY <1>1, <1>3, <1>4, <1>5, BookGrows
<1>7. c[Len(c)].supplyAfter = supply'
  BY <1>1, <1>2, <1>3
<1>8. Kept(c, supply', after)
  BY <1>6, <1>7
<1> QED
  BY <1>1, <1>3, <1>6, <1>8 DEF Book!Post, Kept, BookOf, BookFrom, Totals

\* What an entry adds to the balance of its member and to the supply.
Change(e) == IF e.kind = "reversal" THEN -e.amount ELSE e.amount

\* Entries that go on from the supply and from the balances of their members, and leave
\* the supply and the balances the last of them state.
Posts(es) ==
  /\ Len(es) > 0
  /\ \A k \in 1 .. Len(es) :
       es[k].supplyAfter = Change(es[k]) + (IF k = 1 THEN supply ELSE es[k - 1].supplyAfter)
  /\ \A k \in 1 .. Len(es) :
       \/ /\ \A j \in 1 .. k - 1 : es[j].member # es[k].member
          /\ es[k].balanceAfter = balance[es[k].member].total + Change(es[k])
       \/ /\ k > 1 /\ es[k - 1].member = es[k].member
          /\ es[k].balanceAfter = es[k - 1].balanceAfter + Change(es[k])
  /\ \A m \in Members :
       \/ (\A k \in 1 .. Len(es) : es[k].member # m) /\ balance'[m].total = balance[m].total
       \/ \E k \in 1 .. Len(es) :
            /\ es[k].member = m /\ balance'[m].total = es[k].balanceAfter
            /\ \A j \in 1 .. Len(es) : k < j => es[j].member # m
  /\ supply' = es[Len(es)].supplyAfter

LEMMA EntriesBooked ==
  ASSUME RowsTyped, RowsTyped', Kept(BookOf, supply, Totals),
         NEW es \in Seq(EntryRow), ledger' = ledger \o es, Posts(es)
  PROVE  Book!Post /\ Kept(BookOf, supply, Totals)'
<1>1. PICK n \in Nat, len \in Nat, k \in Nat :
        /\ n = Len(ledger) /\ k = Len(es) /\ len = Len(ledger') /\ len = n + k /\ k > 0
        /\ DOMAIN ledger = 1 .. n /\ DOMAIN es = 1 .. k /\ DOMAIN ledger' = 1 .. len
  BY Grown DEF Posts
<1>2. /\ \A i \in DOMAIN ledger : ledger'[i] = ledger[i]
      /\ \A j \in 1 .. k : ledger'[n + j] = es[j]
  BY <1>1, Grown
<1>3. \A i \in n + 1 .. len : i - n \in 1 .. k /\ n + (i - n) = i
  BY <1>1
<1>4. PICK c \in Seq(BookEntry) :
        /\ c = BookOf' /\ Len(c) = len
        /\ \A i \in 1 .. len :
             /\ c[i].member = ledger'[i].member /\ c[i].balanceAfter = ledger'[i].balanceAfter
             /\ c[i].change = Change(ledger'[i]) /\ c[i].supplyAfter = ledger'[i].supplyAfter
  <2>1. ledger' \in Seq(EntryRow)
    BY DEF RowsTyped, LedgerRows
  <2>2. PICK c \in Seq(BookEntry) : c = BookFrom(ledger')
    BY <2>1, BookType
  <2>3. /\ Len(c) = len
        /\ \A i \in 1 .. len :
             /\ c[i].member = ledger'[i].member /\ c[i].balanceAfter = ledger'[i].balanceAfter
             /\ c[i].change = IF ledger'[i].kind = "reversal" THEN -ledger'[i].amount ELSE ledger'[i].amount
             /\ c[i].supplyAfter = ledger'[i].supplyAfter
    BY <1>1, <2>1, <2>2, BookType
  <2>4. BookOf' = c
    BY <2>2 DEF BookOf
  <2>5. \A i : Change(ledger'[i]) = IF ledger'[i].kind = "reversal" THEN -ledger'[i].amount ELSE ledger'[i].amount
    BY DEF Change
  <2> QED
    BY ONLY <2>3, <2>4, <2>5
<1>5. \A i \in n + 1 .. len :
        /\ i - n \in 1 .. k
        /\ c[i].member = es[i - n].member /\ c[i].balanceAfter = es[i - n].balanceAfter
        /\ c[i].change = Change(es[i - n]) /\ c[i].supplyAfter = es[i - n].supplyAfter
  <2>1. \A i \in n + 1 .. len : i \in 1 .. len /\ ledger'[i] = es[i - n]
    BY <1>1, <1>2, <1>3
  <2> QED
    BY ONLY <1>3, <1>4, <2>1
<1>6. \A e \in EntryRow : e.member \in Members /\ e.supplyAfter \in Int /\ e.balanceAfter \in Int /\ Change(e) \in Int
  <2> SUFFICES ASSUME NEW e \in EntryRow
               PROVE  e.member \in Members /\ e.supplyAfter \in Int /\ e.balanceAfter \in Int /\ Change(e) \in Int
    OBVIOUS
  <2>1. e.member \in Members /\ e.supplyAfter \in Int /\ e.balanceAfter \in Int /\ e.amount \in Int
    BY DEF EntryRow
  <2> QED
    BY <2>1 DEF Change
<1>7. \A j \in 1 .. k :
        /\ es[j].member \in Members /\ es[j].supplyAfter \in Int /\ es[j].balanceAfter \in Int /\ Change(es[j]) \in Int
  <2>1. \A j \in 1 .. k : es[j] \in EntryRow
    BY <1>1
  <2> QED
    BY ONLY <1>6, <2>1
<1>8. \A m \in Members : Totals[m] = balance[m].total /\ Totals'[m] = balance'[m].total
  BY DEF Totals
<1>9. GoesOn(c, n, supply, Totals)
  <2>1. ASSUME NEW i \in n + 1 .. len
        PROVE  c[i].supplyAfter = c[i].change + (IF i = n + 1 THEN supply ELSE c[i - 1].supplyAfter)
    <3>1. PICK j \in 1 .. k : j = i - n
      BY <1>3
    <3>2. es[j].supplyAfter = Change(es[j]) + (IF j = 1 THEN supply ELSE es[j - 1].supplyAfter)
      BY <1>1 DEF Posts
    <3>3. CASE j = 1
      BY <1>5, <3>1, <3>2, <3>3
    <3>4. CASE j # 1
      <4>1. i - 1 \in n + 1 .. len /\ (i - 1) - n = j - 1 /\ i # n + 1
        BY <3>1, <3>4
      <4>2. c[i - 1].supplyAfter = es[j - 1].supplyAfter
        BY <1>5, <4>1
      <4> QED
        BY <1>5, <3>1, <3>2, <3>4, <4>1, <4>2
    <3> QED
      BY <3>3, <3>4
  <2>2. ASSUME NEW i \in n + 1 .. len
        PROVE  \/ /\ \A j \in n + 1 .. i - 1 : c[j].member # c[i].member
                  /\ c[i].balanceAfter = Totals[c[i].member] + c[i].change
               \/ /\ i - 1 > n /\ c[i - 1].member = c[i].member
                  /\ c[i].balanceAfter = c[i - 1].balanceAfter + c[i].change
    <3>1. PICK j \in 1 .. k : j = i - n
      BY <1>3
    <3>2. c[i].member = es[j].member /\ c[i].balanceAfter = es[j].balanceAfter /\ c[i].change = Change(es[j])
      BY <1>5, <3>1
    <3>3. CASE /\ \A l \in 1 .. j - 1 : es[l].member # es[j].member
               /\ es[j].balanceAfter = balance[es[j].member].total + Change(es[j])
      <4>1. ASSUME NEW l \in n + 1 .. i - 1
            PROVE  c[l].member # c[i].member
        <5>1. l \in n + 1 .. len /\ l - n \in 1 .. j - 1
          BY <3>1
        <5> QED
          BY <1>5, <3>2, <3>3, <5>1
      <4> QED
        BY <1>7, <1>8, <3>2, <3>3, <4>1
    <3>4. CASE /\ j > 1 /\ es[j - 1].member = es[j].member
               /\ es[j].balanceAfter = es[j - 1].balanceAfter + Change(es[j])
      <4>1. i - 1 \in n + 1 .. len /\ (i - 1) - n = j - 1 /\ i - 1 > n
        <5>1. j \in Nat /\ j > 1 /\ i = n + j /\ n \in Nat /\ i <= len
          BY <3>1, <3>4
        <5>2. len \in Nat
          BY <1>3
        <5>3. PICK a \in Nat, b1 \in Nat, c1 \in Nat : a = n /\ b1 = j /\ c1 = len
          BY <5>1, <5>2
        <5>4. (a + b1) - 1 \in a + 1 .. c1 /\ ((a + b1) - 1) - a = b1 - 1 /\ (a + b1) - 1 > a
          BY ONLY <5>1, <5>3
        <5> QED
          BY ONLY <5>1, <5>3, <5>4
      <4>2. c[i - 1].member = es[j - 1].member /\ c[i - 1].balanceAfter = es[j - 1].balanceAfter
        BY <1>5, <4>1
      <4> QED
        BY <3>2, <3>4, <4>1, <4>2
    <3> QED
      BY <1>1, <3>3, <3>4 DEF Posts
  <2> QED
    BY <1>4, <2>1, <2>2 DEF GoesOn
<1>10. LeavesAmounts(c, n, Totals, Totals')
  <2> SUFFICES ASSUME NEW m \in Members
               PROVE  \/ (\A i \in n + 1 .. len : c[i].member # m) /\ Totals'[m] = Totals[m]
                      \/ \E i \in n + 1 .. len : Book!LastOf(c, i, m) /\ Totals'[m] = c[i].balanceAfter
    BY <1>4 DEF LeavesAmounts
  <2>1. CASE (\A j \in 1 .. k : es[j].member # m) /\ balance'[m].total = balance[m].total
    BY <1>5, <1>8, <2>1
  <2>2. ASSUME NEW j \in 1 .. k, es[j].member = m, balance'[m].total = es[j].balanceAfter,
               \A l \in 1 .. k : j < l => es[l].member # m
        PROVE  \E i \in n + 1 .. len : Book!LastOf(c, i, m) /\ Totals'[m] = c[i].balanceAfter
    <3>0. n + j \in n + 1 .. len /\ (n + j) - n = j
      BY <1>1
    <3>1. PICK i \in n + 1 .. len : i = n + j /\ i - n = j
      BY ONLY <3>0
    <3>2. c[i].member = m /\ Totals'[m] = c[i].balanceAfter
      BY <1>5, <1>8, <2>2, <3>1
    <3>3. ASSUME NEW l \in 1 .. len, i < l
          PROVE  c[l].member # m
      <4>1. l \in n + 1 .. len /\ l - n \in 1 .. k /\ j < l - n
        BY <1>1, <3>1, <3>3
      <4> QED
        BY <1>5, <2>2, <4>1
    <3>4. DOMAIN c = 1 .. len
      BY <1>4
    <3> QED
      BY <3>2, <3>3, <3>4 DEF Book!LastOf
  <2> QED
    BY <1>1, <2>1, <2>2 DEF Posts
<1>11. supply' = ledger'[Len(ledger')].supplyAfter
  <2>1. ledger'[n + k] = es[k]
    BY <1>1, <1>2
  <2> QED
    BY <1>1, <2>1 DEF Posts
<1> QED
  BY <1>1, <1>2, <1>4, <1>9, <1>10, <1>11, BookPosted

\* A single entry.
LEMMA OnePosts ==
  ASSUME NEW es, NEW m \in Members, Len(es) = 1, es[1].member = m,
         es[1].supplyAfter = Change(es[1]) + supply, es[1].balanceAfter = balance[m].total + Change(es[1]),
         supply' = es[1].supplyAfter, balance'[m].total = es[1].balanceAfter,
         \A k \in Members : k # m => balance'[k].total = balance[k].total
  PROVE  Posts(es)
<1>1. /\ Len(es) > 0 /\ 1 \in 1 .. Len(es) /\ \A k \in 1 .. Len(es) : k = 1
      /\ \A j \in 1 .. 1 - 1 : FALSE
  OBVIOUS
<1>2. \A k \in 1 .. Len(es) : es[k].supplyAfter = Change(es[k]) + (IF k = 1 THEN supply ELSE es[k - 1].supplyAfter)
  BY <1>1
<1>3. \A k \in 1 .. Len(es) :
        /\ \A j \in 1 .. k - 1 : es[j].member # es[k].member
        /\ es[k].balanceAfter = balance[es[k].member].total + Change(es[k])
  BY <1>1
<1>4. \A k \in Members :
        \/ (\A j \in 1 .. Len(es) : es[j].member # k) /\ balance'[k].total = balance[k].total
        \/ \E i \in 1 .. Len(es) :
             /\ es[i].member = k /\ balance'[k].total = es[i].balanceAfter
             /\ \A j \in 1 .. Len(es) : i < j => es[j].member # k
  <2> SUFFICES ASSUME NEW k \in Members
               PROVE  \/ (\A j \in 1 .. Len(es) : es[j].member # k) /\ balance'[k].total = balance[k].total
                      \/ \E i \in 1 .. Len(es) :
                           /\ es[i].member = k /\ balance'[k].total = es[i].balanceAfter
                           /\ \A j \in 1 .. Len(es) : i < j => es[j].member # k
    OBVIOUS
  <2>1. CASE k = m
    <3>1. \A j \in 1 .. Len(es) : ~(1 < j)
      BY <1>1
    <3> QED
      BY <1>1, <2>1, <3>1
  <2>2. CASE k # m
    BY <1>1, <2>2
  <2> QED
    BY <2>1, <2>2
<1> QED
  BY <1>1, <1>2, <1>3, <1>4 DEF Posts

\* A mint posts its legs.
LEMMA MintPosts ==
  ASSUME EngineInv, EngineInv', NEW t \in Txns, Ready(t, "mint"), NEW regular \in Nat, NEW advance \in Nat,
         NEW n \in Nat, MintWrites(t, n, regular, advance)
  PROVE  Posts(Legs(t, regular, advance))
<1>1. PICK es \in Seq(EntryRow) : es = Legs(t, regular, advance)
  BY DEF MintWrites
<1>2. PICK m \in Members : m = MemberOf(txn[t])
  BY DEF MintWrites
<1>3. /\ txn[t].seen.supply = supply /\ txn[t].seen.balance = balance[m] /\ balance[m].total \in Nat /\ supply \in Nat
      /\ LedgerRows
  <2>1. txn[t].seen.supply = supply /\ txn[t].seen.balance = balance[m]
    BY <1>2, ReadyKnows DEF TxnKinds
  <2>2. LedgerRows /\ balance[m] \in BalanceRow /\ supply \in Nat
    BY DEF EngineInv, RowsTyped, LedgerRows
  <2> QED
    BY <2>1, <2>2 DEF BalanceRow
<1>4. PICK total \in Nat : total = balance[m].total
  BY <1>3
<1>5. PICK s \in Nat : s = supply
  BY <1>3
<1>6. /\ supply' = s + (regular + advance) /\ balance'[m].total = total + regular + advance
      /\ \A k \in Members \ {m} : balance'[k] = balance[k]
      /\ regular > 0 \/ advance > 0
  <2>1. /\ Credit(m, regular, advance, regular) /\ supply' = s + (regular + advance)
        /\ regular > 0 \/ advance > 0
    BY <1>2, <1>5 DEF MintWrites
  <2>2. balance[m] \in BalanceRow
    BY <1>3 DEF LedgerRows
  <2>3. /\ balance[m].total + regular + advance >= 0 /\ balance[m].active + regular >= 0
        /\ balance[m].pending + advance >= 0 /\ balance[m].earned + regular >= 0
    <3>1. PICK b \in BalanceRow : b = balance[m]
      BY <2>2
    <3>2. b.total \in Nat /\ b.active \in Nat /\ b.pending \in Nat /\ b.earned \in Nat
      BY DEF BalanceRow
    <3>3. /\ b.total + regular + advance >= 0 /\ b.active + regular >= 0
          /\ b.pending + advance >= 0 /\ b.earned + regular >= 0
      BY ONLY <3>2, RaisedAmounts, regular \in Nat, advance \in Nat
    <3> QED
      BY <3>1, <3>3
  <2>4. regular \in Int /\ advance \in Int
    OBVIOUS
  <2> QED
    BY <1>3, <1>4, <2>1, <2>3, <2>4, Credited
<1>7. /\ Len(es) = (IF regular > 0 THEN 1 ELSE 0) + (IF advance > 0 THEN 1 ELSE 0)
      /\ regular > 0 => es[1] = RegularLeg(t, regular)
      /\ advance > 0 => es[Len(es)] = AdvanceLeg(t, regular, advance)
  BY <1>1, LegsShape
<1>8. /\ RegularLeg(t, regular).member = m /\ AdvanceLeg(t, regular, advance).member = m
      /\ Change(RegularLeg(t, regular)) = regular /\ Change(AdvanceLeg(t, regular, advance)) = advance
      /\ RegularLeg(t, regular).supplyAfter = s + regular
      /\ RegularLeg(t, regular).balanceAfter = total + regular
      /\ AdvanceLeg(t, regular, advance).supplyAfter = s + (regular + advance)
      /\ AdvanceLeg(t, regular, advance).balanceAfter = total + (regular + advance)
  BY <1>2, <1>3, <1>4, <1>5 DEF RegularLeg, AdvanceLeg, Change
<1>9. \A k \in 1 .. Len(es) : es[k].member = m
  BY <1>1, <1>8, LegCases
<1>10. \A k \in Members : k # m => balance'[k].total = balance[k].total
  BY <1>6
<1>11. CASE regular > 0 /\ advance > 0
  <2>1. Len(es) = 2 /\ es[1] = RegularLeg(t, regular) /\ es[2] = AdvanceLeg(t, regular, advance)
    BY <1>7, <1>11
  <2>2. \A k \in 1 .. Len(es) : k = 1 \/ (k = 2 /\ k - 1 = 1 /\ k > 1)
    BY <2>1
  <2>3. /\ es[1].supplyAfter = Change(es[1]) + supply /\ es[1].balanceAfter = balance[m].total + Change(es[1])
        /\ es[2].supplyAfter = Change(es[2]) + es[1].supplyAfter
        /\ es[2].balanceAfter = es[1].balanceAfter + Change(es[2])
        /\ supply' = es[2].supplyAfter /\ balance'[m].total = es[2].balanceAfter
    <3>1. /\ es[1].supplyAfter = s + regular /\ es[1].balanceAfter = total + regular /\ Change(es[1]) = regular
          /\ es[2].supplyAfter = s + (regular + advance) /\ es[2].balanceAfter = total + (regular + advance)
          /\ Change(es[2]) = advance
      BY ONLY <1>8, <2>1
    <3>2. supply = s /\ balance[m].total = total
      BY <1>4, <1>5
    <3> QED
      BY ONLY <1>6, <3>1, <3>2, s \in Nat, total \in Nat, regular \in Nat, advance \in Nat
  <2>4. \A k \in 1 .. Len(es) : es[k].supplyAfter = Change(es[k]) + (IF k = 1 THEN supply ELSE es[k - 1].supplyAfter)
    BY ONLY <2>2, <2>3
  <2>5. \A k \in 1 .. Len(es) :
          \/ /\ \A j \in 1 .. k - 1 : es[j].member # es[k].member
             /\ es[k].balanceAfter = balance[es[k].member].total + Change(es[k])
          \/ /\ k > 1 /\ es[k - 1].member = es[k].member
             /\ es[k].balanceAfter = es[k - 1].balanceAfter + Change(es[k])
    <3>1. 1 \in 1 .. Len(es) /\ 2 \in 1 .. Len(es) /\ \A j \in 1 .. 1 - 1 : FALSE
      BY <2>1
    <3>2. es[1].member = m /\ es[2].member = m
      BY <1>9, <3>1
    <3> QED
      BY ONLY <2>2, <2>3, <3>1, <3>2
  <2>6. 2 \in 1 .. Len(es) /\ es[2].member = m /\ \A j \in 1 .. Len(es) : ~(2 < j)
    BY <1>9, <2>1
  <2> QED
    BY <1>1, <1>9, <1>10, <2>1, <2>3, <2>4, <2>5, <2>6 DEF Posts
<1>12. CASE ~(regular > 0 /\ advance > 0)
  <2>1. /\ Len(es) = 1 /\ es[1].member = m
        /\ es[1].supplyAfter = Change(es[1]) + supply /\ es[1].balanceAfter = balance[m].total + Change(es[1])
        /\ supply' = es[1].supplyAfter /\ balance'[m].total = es[1].balanceAfter
    <3>1. CASE regular > 0 /\ ~(advance > 0)
      <4>1. Len(es) = 1 /\ es[1] = RegularLeg(t, regular) /\ advance = 0
        BY <1>7, <3>1
      <4> QED
        BY <1>4, <1>5, <1>6, <1>8, <4>1
    <3>2. CASE ~(regular > 0) /\ advance > 0
      <4>1. Len(es) = 1 /\ es[1] = AdvanceLeg(t, regular, advance) /\ regular = 0
        BY <1>7, <3>2
      <4> QED
        BY <1>4, <1>5, <1>6, <1>8, <4>1
    <3> QED
      BY <1>6, <1>12, <3>1, <3>2
  <2> QED
    BY <1>1, <1>10, <2>1, OnePosts
<1> QED
  BY <1>11, <1>12

\* An execution posts its entry.
LEMMA ExecutionPosts ==
  ASSUME EngineInv, EngineInv', NEW t \in Txns, Ready(t, "execute"), NEW amount \in Nat \ {0},
         NEW n \in Nat, ExecutionWrites(t, n, amount)
  PROVE  Posts(<<Execution(t, amount)>>)
<1>1. PICK m \in Members : m = MemberOf(txn[t]) /\ m = txn[t].seen.request.member
  <2>1. MemberOf(txn[t]) = txn[t].seen.request.member
    BY DEF MemberOf, Ready
  <2> QED
    BY <2>1 DEF ExecutionWrites
<1>2. /\ txn[t].seen.supply = supply /\ txn[t].seen.balance = balance[m]
      /\ LedgerRows /\ balance[m] \in BalanceRow /\ supply \in Nat
  BY <1>1, ReadyKnows DEF TxnKinds, EngineInv, RowsTyped, LedgerRows
<1>3. PICK total \in Nat, s \in Nat : total = balance[m].total /\ s = supply
  BY <1>2 DEF BalanceRow
<1>4. /\ supply' = s + amount /\ balance'[m].total = total + 0 + amount
      /\ \A k \in Members \ {m} : balance'[k] = balance[k]
  <2>1. Credit(m, 0, amount, 0) /\ supply' = s + amount
    BY <1>1, <1>3 DEF ExecutionWrites
  <2>3. /\ balance[m].total + 0 + amount >= 0 /\ balance[m].active + 0 >= 0
        /\ balance[m].pending + amount >= 0 /\ balance[m].earned + 0 >= 0
    BY <1>2 DEF BalanceRow
  <2>4. 0 \in Int /\ amount \in Int
    OBVIOUS
  <2> QED
    BY <1>2, <1>3, <2>1, <2>3, <2>4, Credited
<1>5. PICK e \in EntryRow : e = Execution(t, amount)
  BY DEF ExecutionWrites
<1>6. e.member = m /\ Change(e) = amount /\ e.supplyAfter = s + amount /\ e.balanceAfter = total + amount
  BY <1>1, <1>2, <1>3, <1>5 DEF Execution, Change
<1>7. PICK es \in Seq(EntryRow) : es = <<e>> /\ Len(es) = 1 /\ es[1] = e
  BY OneEntry
<1>8. \A k \in Members : k # m => balance'[k].total = balance[k].total
  BY <1>4
<1>9. /\ es[1].supplyAfter = Change(es[1]) + supply /\ es[1].balanceAfter = balance[m].total + Change(es[1])
      /\ supply' = es[1].supplyAfter /\ balance'[m].total = es[1].balanceAfter
  BY <1>3, <1>4, <1>6, <1>7
<1> QED
  BY <1>5, <1>6, <1>7, <1>8, <1>9, OnePosts

\* A reversal posts its entry.
LEMMA ReversalPosts ==
  ASSUME EngineInv, EngineInv', NEW t \in Txns, Ready(t, "reverse"), NEW amount \in Nat \ {0},
         NEW pending \in Nat, pending <= amount, ReversalWrites(t, amount, pending)
  PROVE  Posts(<<Reversal(t, amount)>>)
<1>1. PICK m \in Members : m = MemberOf(txn[t])
  BY DEF ReversalWrites
<1>2. /\ txn[t].seen.supply = supply /\ txn[t].seen.balance = balance[m]
      /\ LedgerRows /\ balance[m] \in BalanceRow /\ supply \in Nat
  BY <1>1, ReadyKnows DEF TxnKinds, EngineInv, RowsTyped, LedgerRows
<1>3. PICK total \in Nat, s \in Nat : total = balance[m].total /\ s = supply
  BY <1>2 DEF BalanceRow
<1>4. /\ supply' = s - amount /\ balance'[m].total = total + (-(amount - pending)) + (-pending)
      /\ \A k \in Members \ {m} : balance'[k] = balance[k]
  <2>1. /\ Credit(m, -(amount - pending), -pending, 0) /\ supply' = s - amount
        /\ amount - pending <= balance[m].active /\ pending <= balance[m].pending
        /\ amount <= balance[m].total
    BY <1>1, <1>3 DEF ReversalWrites
  <2>2. PICK old \in BalanceRow : old = balance[m]
    BY <1>2
  <2>3. /\ old.total + (-(amount - pending)) + (-pending) >= 0 /\ old.active + (-(amount - pending)) >= 0
        /\ old.pending + (-pending) >= 0 /\ old.earned + 0 >= 0
    BY <2>1, <2>2 DEF BalanceRow
  <2>4. -(amount - pending) \in Int /\ -pending \in Int /\ 0 \in Int
    OBVIOUS
  <2> QED
    BY <1>2, <1>3, <2>1, <2>2, <2>3, <2>4, Credited
<1>5. PICK e \in EntryRow : e = Reversal(t, amount)
  BY DEF ReversalWrites
<1>6. e.member = m /\ Change(e) = -amount /\ e.supplyAfter = s - amount /\ e.balanceAfter = total - amount
  BY <1>1, <1>2, <1>3, <1>5 DEF Reversal, Change
<1>7. PICK es \in Seq(EntryRow) : es = <<e>> /\ Len(es) = 1 /\ es[1] = e
  BY OneEntry
<1>8. \A k \in Members : k # m => balance'[k].total = balance[k].total
  BY <1>4
<1>9. /\ es[1].supplyAfter = Change(es[1]) + supply /\ es[1].balanceAfter = balance[m].total + Change(es[1])
      /\ supply' = es[1].supplyAfter /\ balance'[m].total = es[1].balanceAfter
  BY <1>3, <1>4, <1>6, <1>7
<1> QED
  BY <1>5, <1>6, <1>7, <1>8, <1>9, OnePosts

\* The initial allocation posts one entry for each of its members.
LEMMA GenesisPosts ==
  ASSUME EngineInv, EngineInv', NEW t \in Txns, mintInitialAllocation(t)
  PROVE  Posts(Allotments(t))
<1>1. Ready(t, "genesis") /\ supply' = supply + Allocation[Len(Allocation)].upTo
  BY GenesisShape
<1>2. txn[t].seen.supply = supply
  BY <1>1, ReadyKnows DEF TxnKinds
<1>3. PICK es \in Seq(EntryRow), len \in Nat :
        /\ es = Allotments(t) /\ Len(es) = len /\ len = Len(Allocation)
        /\ \A k \in 1 .. len : es[k] = Allotment(t, k)
  <2>1. Len(Allocation) \in Nat
    BY AllocationAssumption
  <2> QED
    BY <1>1, <2>1, AllotmentsType
<1>4. len > 0 /\ DOMAIN Allocation = 1 .. len
  BY <1>3, AllocationAssumption
<1>5. \A k \in 1 .. len :
        /\ es[k].member = Allocation[k].member /\ Change(es[k]) = Allocation[k].amount
        /\ es[k].supplyAfter = supply + Allocation[k].upTo
        /\ es[k].balanceAfter = balance[Allocation[k].member].total + Allocation[k].amount
  <2>1. \A k : /\ Allotment(t, k).member = Allocation[k].member /\ Allotment(t, k).kind # "reversal"
               /\ Allotment(t, k).amount = Allocation[k].amount
               /\ Allotment(t, k).supplyAfter = txn[t].seen.supply + Allocation[k].upTo
               /\ Allotment(t, k).balanceAfter = balance[Allocation[k].member].total + Allocation[k].amount
    BY ONLY TRUE DEF Allotment
  <2> QED
    BY <1>2, <1>3, <2>1 DEF Change
<1>6. \A k \in 1 .. len :
        /\ Allocation[k].upTo = Allocation[k].amount + (IF k = 1 THEN 0 ELSE Allocation[k - 1].upTo)
        /\ \A j \in 1 .. len : j # k => Allocation[j].member # Allocation[k].member
        /\ Allocation[k].member \in Members /\ Allocation[k].amount \in Nat /\ Allocation[k].upTo \in Nat
  BY <1>4, AllocationAssumption, AllocatedTo
<1>7. supply \in Nat
  BY DEF EngineInv, RowsTyped, LedgerRows
<1>8. \A k \in 1 .. len : es[k].supplyAfter = Change(es[k]) + (IF k = 1 THEN supply ELSE es[k - 1].supplyAfter)
  <2> SUFFICES ASSUME NEW k \in 1 .. len
               PROVE  es[k].supplyAfter = Change(es[k]) + (IF k = 1 THEN supply ELSE es[k - 1].supplyAfter)
    OBVIOUS
  <2>1. CASE k = 1
    BY <1>5, <1>6, <1>7, <2>1
  <2>2. CASE k # 1
    <3>1. k - 1 \in 1 .. len
      BY <2>2
    <3>2. PICK a \in Nat, u \in Nat, v \in Nat : a = Allocation[k].amount /\ u = Allocation[k].upTo /\ v = Allocation[k - 1].upTo
      BY <1>6, <3>1
    <3>3. u = a + v /\ es[k].supplyAfter = supply + u /\ es[k - 1].supplyAfter = supply + v /\ Change(es[k]) = a
      BY <1>5, <1>6, <2>2, <3>1, <3>2
    <3> QED
      BY <1>7, <2>2, <3>3
  <2> QED
    BY <2>1, <2>2
<1>9. \A k \in 1 .. len :
        /\ \A j \in 1 .. k - 1 : es[j].member # es[k].member
        /\ es[k].balanceAfter = balance[es[k].member].total + Change(es[k])
  <2>1. \A k \in 1 .. len : \A j \in 1 .. k - 1 : j \in 1 .. len /\ j # k
    OBVIOUS
  <2> QED
    BY <1>5, <1>6, <2>1
<1>10. ASSUME NEW m \in Members
       PROVE  \/ (\A k \in 1 .. len : es[k].member # m) /\ balance'[m].total = balance[m].total
              \/ \E k \in 1 .. len :
                   /\ es[k].member = m /\ balance'[m].total = es[k].balanceAfter
                   /\ \A j \in 1 .. len : k < j => es[j].member # m
  <2>1. CASE \A k \in 1 .. len : Allocation[k].member # m
    <3>1. balance'[m] = balance[m]
      BY <1>4, <2>1, GenesisBalances
    <3> QED
      BY <1>5, <2>1, <3>1
  <2>2. ASSUME NEW k \in 1 .. len, Allocation[k].member = m
        PROVE  \E i \in 1 .. len :
                 /\ es[i].member = m /\ balance'[m].total = es[i].balanceAfter
                 /\ \A j \in 1 .. len : i < j => es[j].member # m
    <3>1. balance'[m] =
            [total |-> balance[Allocation[k].member].total + Allocation[k].amount,
             active |-> balance[Allocation[k].member].active + Allocation[k].amount,
             pending |-> balance[Allocation[k].member].pending,
             earned |-> balance[Allocation[k].member].earned]
      BY <1>4, <2>2, GenesisBalances
    <3>2. balance'[m].total = es[k].balanceAfter
      BY ONLY <1>5, <3>1
    <3>3. \A j \in 1 .. len : k < j => es[j].member # m
      BY <1>5, <1>6, <2>2
    <3> QED
      BY <1>5, <2>2, <3>2, <3>3
  <2> QED
    BY <2>1, <2>2
<1>11. supply' = es[len].supplyAfter
  BY <1>1, <1>3, <1>4, <1>5
<1> QED
  BY <1>3, <1>4, <1>8, <1>9, <1>10, <1>11 DEF Posts

\* A step that moves tokens posts entries.
LEMMA MovesPost ==
  ASSUME EngineInv, EngineInv', Kept(BookOf, supply, Totals), NEW t \in Txns, Moves(t)
  PROVE  Book!Post /\ Kept(BookOf, supply, Totals)'
<1>1. RowsTyped /\ RowsTyped'
  BY DEF EngineInv
<1>2. ASSUME NEW es \in Seq(EntryRow), ledger' = ledger \o es, Posts(es)
      PROVE  Book!Post /\ Kept(BookOf, supply, Totals)'
  BY <1>1, <1>2, EntriesBooked
<1>3. ASSUME NEW regular \in Nat, NEW advance \in Nat, NEW n \in Nat,
             Ready(t, "mint"), MintWrites(t, n, regular, advance)
      PROVE  Book!Post /\ Kept(BookOf, supply, Totals)'
  <2>1. Legs(t, regular, advance) \in Seq(EntryRow) /\ ledger' = ledger \o Legs(t, regular, advance)
    BY ONLY <1>3 DEF MintWrites
  <2>2. Posts(Legs(t, regular, advance))
    BY <1>3, MintPosts
  <2> QED
    BY ONLY <1>2, <2>1, <2>2
<1>4. ASSUME NEW amount \in Nat \ {0}, NEW n \in Nat, Ready(t, "execute"), ExecutionWrites(t, n, amount)
      PROVE  Book!Post /\ Kept(BookOf, supply, Totals)'
  <2>1. Execution(t, amount) \in EntryRow /\ ledger' = ledger \o <<Execution(t, amount)>>
    BY ONLY <1>4 DEF ExecutionWrites
  <2>2. <<Execution(t, amount)>> \in Seq(EntryRow)
    BY <2>1, OneEntry
  <2>3. Posts(<<Execution(t, amount)>>)
    BY <1>4, ExecutionPosts
  <2> QED
    BY ONLY <1>2, <2>1, <2>2, <2>3
<1>5. ASSUME NEW amount \in Nat \ {0}, NEW pending \in Nat, pending <= amount, Ready(t, "reverse"),
             ReversalWrites(t, amount, pending)
      PROVE  Book!Post /\ Kept(BookOf, supply, Totals)'
  <2>1. Reversal(t, amount) \in EntryRow /\ ledger' = ledger \o <<Reversal(t, amount)>>
    BY ONLY <1>5 DEF ReversalWrites
  <2>2. <<Reversal(t, amount)>> \in Seq(EntryRow)
    BY <2>1, OneEntry
  <2>3. Posts(<<Reversal(t, amount)>>)
    BY <1>5, ReversalPosts
  <2> QED
    BY ONLY <1>2, <2>1, <2>2, <2>3
<1>6. ASSUME mintInitialAllocation(t)
      PROVE  Book!Post /\ Kept(BookOf, supply, Totals)'
  <2>1. ledger' = ledger \o Allotments(t) /\ Ready(t, "genesis")
    BY <1>6, GenesisShape
  <2>2. Allotments(t) \in Seq(EntryRow)
    BY <2>1, AllotmentsType
  <2>3. Posts(Allotments(t))
    BY <1>6, GenesisPosts
  <2> QED
    BY ONLY <1>2, <2>1, <2>2, <2>3
<1> QED
  BY ONLY Moves(t), <1>3, <1>4, <1>5, <1>6 DEF Moves

\* An epoch switch changes no figure of the book.
LEMMA CloseLeavesBook ==
  ASSUME EngineInv, NEW t \in Txns, closeEpoch(t)
  PROVE  BookOf' = BookOf /\ supply' = supply /\ Totals' = Totals
<1>1. supply' = supply
  BY CloseShape
<1>2. Totals' = Totals
  <2>1. balance' = [m \in Members |->
          [balance[m] EXCEPT !.active = @ + balance[m].pending, !.pending = 0, !.earned = 0]]
    BY CloseShape
  <2>2. ASSUME NEW m \in Members
        PROVE  balance'[m].total = balance[m].total
    <3>1. PICK b \in BalanceRow : b = balance[m]
      BY DEF EngineInv, RowsTyped, LedgerRows
    <3>2. balance'[m] = [b EXCEPT !.active = @ + b.pending, !.pending = 0, !.earned = 0]
      BY <2>1, <3>1
    <3>3. [b EXCEPT !.active = @ + b.pending, !.pending = 0, !.earned = 0] =
            [total |-> b.total, active |-> b.active + b.pending, pending |-> 0, earned |-> 0]
      BY ONLY BalanceMatured, b \in BalanceRow
    <3> QED
      BY ONLY <3>1, <3>2, <3>3
  <2> QED
    BY <2>2 DEF Totals
<1>3. BookOf' = BookOf
  <2>1. DOMAIN ledger' = DOMAIN ledger
    BY CloseLedger
  <2>2. ASSUME NEW i \in DOMAIN ledger
        PROVE  /\ ledger'[i].member = ledger[i].member /\ ledger'[i].amount = ledger[i].amount
               /\ ledger'[i].kind = ledger[i].kind /\ ledger'[i].balanceAfter = ledger[i].balanceAfter
               /\ ledger'[i].supplyAfter = ledger[i].supplyAfter
    <3>1. \A f \in EntryFields \ {"pending"} : ledger'[i][f] = ledger[i][f]
      BY CloseLedger
    <3>2. {"member", "amount", "kind", "balanceAfter", "supplyAfter"} \subseteq EntryFields \ {"pending"}
      BY DEF EntryFields
    <3> QED
      BY ONLY <3>1, <3>2
  <2> QED
    BY <2>1, <2>2, BookUnchanged
<1> QED
  BY <1>1, <1>2, <1>3

LEMMA BookStep ==
  ASSUME EngineInv, EngineInv', Kept(BookOf, supply, Totals), [Next]_vars
  PROVE  /\ Book!Post \/ (BookOf' = BookOf /\ supply' = supply /\ Totals' = Totals)
         /\ Kept(BookOf, supply, Totals)'
<1>1. ASSUME BookOf' = BookOf, supply' = supply, Totals' = Totals
      PROVE  Kept(BookOf, supply, Totals)'
  <2>1. Kept(BookOf', supply', Totals')
    BY ONLY <1>1, Kept(BookOf, supply, Totals)
  <2> QED
    BY ONLY <2>1 DEF Kept, HasLast, Book!Chained, Book!Settles, Book!LastOf, Book!Precedes, BookOf, BookFrom, Totals
<1>2. ASSUME UNCHANGED <<epochs, supply, ledger, balance>>
      PROVE  BookOf' = BookOf /\ supply' = supply /\ Totals' = Totals
  BY <1>2 DEF BookOf, BookFrom, Totals
<1>3. ASSUME NEW t \in Txns, Moves(t)
      PROVE  Book!Post /\ Kept(BookOf, supply, Totals)'
  BY <1>3, MovesPost
<1>4. ASSUME NEW t \in Txns, closeEpoch(t)
      PROVE  BookOf' = BookOf /\ supply' = supply /\ Totals' = Totals
  BY <1>4, CloseLeavesBook
<1>5. ASSUME NEW t \in Txns, createNextEpoch(t)
      PROVE  BookOf' = BookOf /\ supply' = supply /\ Totals' = Totals
  <2>1. UNCHANGED <<supply, ledger, balance>>
    BY ONLY <1>5 DEF createNextEpoch
  <2> QED
    BY ONLY <2>1 DEF BookOf, BookFrom, Totals
<1> QED
  BY ONLY <1>1, <1>2, <1>3, <1>4, <1>5, LedgerSteps, EngineInv, [Next]_vars

LEMMA BookStart == DatabaseInit => Kept(BookOf, supply, Totals)
<1> SUFFICES ASSUME DatabaseInit
             PROVE  Kept(BookOf, supply, Totals)
  OBVIOUS
<1>1. DOMAIN ledger = {} /\ supply = 0
  BY DEF DatabaseInit
<1>2. DOMAIN BookOf = {} /\ BookOf = << >>
  BY <1>1 DEF BookOf, BookFrom
<1>3. \A m \in Members : Totals[m] = 0
  BY DEF DatabaseInit, Totals, NoBalance
<1> QED
  BY <1>1, <1>2, <1>3 DEF Kept, HasLast, Book!Chained, Book!Settles

\* The ledger is a book: for any number of members, transactions and rows, and whatever the
\* mints, executions, reversals, allocations and epoch switches do to each other, it only
\* grows, its entries chain, and supply and balances are those of the last entries.
THEOREM LedgerRefinesBook == Spec => LedgerImplementsBook
<1>1. DatabaseInit => Kept(BookOf, supply, Totals)
  BY BookStart
<1>2. EngineInv /\ EngineInv' /\ Kept(BookOf, supply, Totals) /\ [Next]_vars
        => Kept(BookOf, supply, Totals)'
  BY BookStep
<1>3. Spec => []Kept(BookOf, supply, Totals)
  BY <1>1, <1>2, EngineInvHolds, PTL DEF Spec
<1>4. Kept(BookOf, supply, Totals) => Book!Init
  BY DEF Kept, Book!Init, BookOf, BookFrom, Totals
<1>5. EngineInv /\ EngineInv' /\ Kept(BookOf, supply, Totals) /\ [Next]_vars
        => [Book!Post]_<<[i \in DOMAIN ledger |->
              [member |-> ledger[i].member, balanceAfter |-> ledger[i].balanceAfter,
               change |-> IF ledger[i].kind = "reversal" THEN -ledger[i].amount ELSE ledger[i].amount,
               supplyAfter |-> ledger[i].supplyAfter]],
              supply, [m \in Members |-> balance[m].total]>>
  BY BookStep DEF BookOf, BookFrom, Totals
<1> QED
  BY <1>1, <1>3, <1>4, <1>5, EngineInvHolds, PTL DEF Spec, LedgerImplementsBook, Book!Spec

-----------------------------------------------------------------------------
(***************************************************************************)
(* Locks.                                                                  *)
(***************************************************************************)

\* What createNextEpoch looks for before its transaction, and two calls that overlap can
\* both find.
OneActive == \A k, n \in ActiveEpochs : k = n

\* The rows that t has locked or is about to.
Taken(t) == txn[t].rows \cup {row \in Rows : holder[row] = t}
OneOfRank(t) == \A row, other \in Taken(t) : Rank(row) = Rank(other) => row = other
LockInv == \A t \in Txns : txn[t].kind \notin {"close", "genesis"} => OneOfRank(t)

\* The statements that lock more than one row are those of an epoch switch and of the
\* initial allocation.
LEMMA OneRow ==
  ASSUME OneActive, NEW x, NEW statement,
         statement \notin {"balances", "allocated", "pendingBalances", "pendingMints"}
  PROVE  \A row, other \in RowsOf(x, statement) : row = other
BY DEF OneActive, RowsOf

LEMMA LockStart ==
  ASSUME EngineInv, OneActive, LockInv, NEW t \in Txns,
         LedgerStart(t) \/ StartActivate(t) \/ StartCastVote(t) \/ StartEnd(t)
  PROVE  LockInv'
<1>1. PICK kind \in TxnKinds : \E in : GivenTo(kind, in) /\ Start(t, kind, in)
  BY StartsAre
<1>2. PICK in : GivenTo(kind, in) /\ Start(t, kind, in)
  BY <1>1
<1>3. PICK x, statement : x = Begun(kind, in) /\ statement = Head(PlanOf(kind))
  OBVIOUS
<1>4. /\ UNCHANGED holder /\ txn' = [txn EXCEPT ![t] = txn'[t]]
      /\ txn'[t].kind = kind /\ txn'[t].rows \subseteq RowsOf(x, statement)
      /\ \A row \in Rows : holder[row] # t
  <2>1. /\ UNCHANGED <<tables, holder>> /\ txn' = [txn EXCEPT ![t] = txn'[t]]
        /\ txn'[t] =
             [kind |-> kind, in |-> in, todo |-> Tail(PlanOf(kind)),
              rows |-> {r \in RowsOf(Begun(kind, in), Head(PlanOf(kind))) : holder[r] # t},
              seen |-> ReadBy(Begun(kind, in), Head(PlanOf(kind)))]
        /\ \A row \in Rows : holder[row] # t
    BY <1>2, StartShape
  <2> QED
    BY ONLY <1>3, <2>1
<1>5. DOMAIN txn = Txns
  BY DEF EngineInv, TxnsTyped
<1>6. \A u \in Txns \ {t} : txn'[u] = txn[u]
  BY <1>4, <1>5
<1>7. statement \notin {"balances", "allocated", "pendingBalances", "pendingMints"}
  BY <1>3, FirstOfPlan DEF TxnKinds
<1>8. \A row, other \in RowsOf(x, statement) : row = other
  BY <1>7, OneRow
<1>9. Taken(t)' \subseteq RowsOf(x, statement)
  BY <1>4 DEF Taken
<1>10. \A u \in Txns \ {t} : Taken(u)' = Taken(u)
  BY <1>4, <1>6 DEF Taken
<1> QED
  BY <1>6, <1>8, <1>9, <1>10 DEF LockInv, OneOfRank

LEMMA LockStatement ==
  ASSUME EngineInv, EngineInv', OneActive, LockInv, NEW t \in Txns, Statement(t)
  PROVE  LockInv'
<1>1. PICK x, statement : x = txn[t] /\ statement = Head(txn[t].todo)
  OBVIOUS
<1>2. /\ UNCHANGED holder /\ txn' = [txn EXCEPT ![t] = txn'[t]] /\ txn[t].rows = {}
      /\ txn'[t].kind = txn[t].kind /\ txn'[t].rows \subseteq RowsOf(x, statement)
      /\ txn[t].todo # << >> /\ Continues(t, statement)
  <2>1. /\ UNCHANGED <<tables, holder>> /\ txn' = [txn EXCEPT ![t] = txn'[t]] /\ txn[t].rows = {}
        /\ txn'[t] =
              [kind |-> txn[t].kind, in |-> txn[t].in, todo |-> Tail(txn[t].todo),
               rows |-> {r \in RowsOf(txn[t], Head(txn[t].todo)) : holder[r] # t},
               seen |-> ReadBy(txn[t], Head(txn[t].todo))]
        /\ Continues(t, Head(txn[t].todo))
    BY StatementShape
  <2>2. txn[t].todo # << >>
    BY DEF Statement
  <2> QED
    BY ONLY <1>1, <2>1, <2>2
<1>3. DOMAIN txn = Txns
  BY DEF EngineInv, TxnsTyped
<1>4. \A u \in Txns \ {t} : txn'[u] = txn[u]
  BY <1>2, <1>3
<1>5. \A u \in Txns \ {t} : Taken(u)' = Taken(u)
  BY <1>2, <1>4 DEF Taken
<1>6. ASSUME txn[t].kind \notin {"close", "genesis"}
      PROVE  OneOfRank(t)'
  <2>1. TxnRow(txn[t]) /\ Follows(t) /\ Given(t) /\ Read(t) /\ Ordered(t) /\ RowsTyped
    BY DEF EngineInv, TxnsTyped, Sound
  <2>2. Next1(txn[t].kind, Left(t), statement)
    BY <1>1, <1>2, <2>1, NextTaken
  <2>3. statement \notin {"balances", "allocated", "pendingBalances", "pendingMints"}
    BY <1>6, <2>2 DEF Next1
  <2>4. \A row, other \in RowsOf(x, statement) : row = other
    BY <2>3, OneRow
  <2>5. \A row \in RowsOf(x, statement) : Level(txn[t].kind, Left(t)) < Rank(row)
    BY <1>1, <1>2, <1>6, <2>1, <2>2, StatementRows
  <2>6. \A row \in Rows : holder[row] = t => Rank(row) <= Level(txn[t].kind, Left(t))
    BY <1>6, <2>1 DEF Ordered
  <2>7. \A row \in Taken(t) : row \in Rows /\ holder[row] = t
    BY <1>2 DEF Taken
  <2>8. OneOfRank(t)
    BY <1>6 DEF LockInv
  <2>9. \A row \in Taken(t)' : row \in RowsOf(x, statement) \/ (row \in Taken(t) /\ holder[row] = t /\ row \in Rows)
    BY <1>2, <2>7 DEF Taken
  <2>10. \A row \in RowsOf(x, statement), other \in Rows : holder[other] = t => Rank(row) # Rank(other)
    <3> SUFFICES ASSUME NEW row \in RowsOf(x, statement), NEW other \in Rows, holder[other] = t
                 PROVE  Rank(row) # Rank(other)
      OBVIOUS
    <3>1. PICK level : level = Level(txn[t].kind, Left(t))
      OBVIOUS
    <3>2. level < Rank(row) /\ Rank(other) <= level
      BY <2>5, <2>6, <3>1
    <3>3. level \in Int
      BY <3>1 DEF Level
    <3>4. Rank(other) \in Int
      BY RankInt
    <3> QED
      BY <3>2, <3>3, <3>4
  <2> QED
    BY <2>4, <2>8, <2>9, <2>10 DEF OneOfRank
<1> QED
  BY <1>2, <1>4, <1>5, <1>6 DEF LockInv, OneOfRank

LEMMA LockLock ==
  ASSUME EngineInv, LockInv, NEW t \in Txns, NEW row \in Rows, Lock(t, row)
  PROVE  LockInv'
<1>1. /\ row \in txn[t].rows /\ holder[row] = Free /\ holder' = [holder EXCEPT ![row] = t]
      /\ DOMAIN txn = Txns /\ TxnRow(txn[t]) /\ DOMAIN holder = Rows
  BY DEF Lock, EngineInv, TxnsTyped
<1>2. PICK rows, seen : rows = txn[t].rows \ {row} /\ seen = LockedBy(t, row)
  OBVIOUS
<1>3. txn' = [txn EXCEPT ![t].rows = rows, ![t].seen = seen]
  BY <1>2 DEF Lock
<1>4. txn'[t].rows = rows /\ txn'[t].kind = txn[t].kind /\ \A u \in Txns \ {t} : txn'[u] = txn[u]
  BY <1>1, <1>3 DEF TxnRow
<1>5. \A u \in Txns : Taken(u)' \subseteq Taken(u)
  BY <1>1, <1>2, <1>4, NotATransaction DEF Taken
<1> QED
  BY <1>4, <1>5 DEF LockInv, OneOfRank

LEMMA LockFinish ==
  ASSUME EngineInv, LockInv, NEW t \in Txns, Finish(t)
  PROVE  LockInv'
<1>1. txn'[t] = Idle /\ \A u \in Txns \ {t} : txn'[u] = txn[u]
  BY DEF Finish, EngineInv, TxnsTyped
<1>2. holder' = [r \in Rows |-> IF holder[r] = t THEN Free ELSE holder[r]]
  BY DEF Finish
<1>3. \A u \in Txns : Taken(u)' \subseteq Taken(u)
  BY <1>1, <1>2, NotATransaction DEF Taken, Idle
<1>4. Taken(t)' = {}
  BY <1>1, <1>2, NotATransaction DEF Taken, Idle
<1> QED
  BY <1>1, <1>3, <1>4 DEF LockInv, OneOfRank

LEMMA LockStep ==
  ASSUME EngineInv, EngineInv', OneActive, LockInv, [Next]_vars
  PROVE  LockInv'
<1>1. create \/ Deadline \/ UNCHANGED vars => UNCHANGED <<txn, holder>>
  BY DEF create, Deadline, vars
<1>2. ASSUME UNCHANGED <<txn, holder>>
      PROVE  LockInv'
  BY <1>2 DEF LockInv, OneOfRank, Taken
<1> QED
  BY <1>1, <1>2, LockStart, LockStatement, LockLock, LockFinish, CommitFinishes DEF Next

\* Two transactions that wait for each other would wait for rows of one rank.
LEMMA NoCycle ==
  ASSUME EngineInv, LockInv, NEW t \in Txns, NEW u \in Txns, Waits(t, u), Waits(u, t),
         txn[t].kind # "close", txn[u].kind # "close"
  PROVE  FALSE
<1>1. PICK row \in txn[t].rows, other \in txn[u].rows : holder[row] = u /\ holder[other] = t
  BY DEF Waits
<1>2. row \in Rows /\ other \in Rows /\ t # u
  <2>1. txn[t].rows \subseteq Rows /\ txn[u].rows \subseteq Rows
    BY DEF EngineInv, TxnsTyped, TxnRow
  <2>2. holder[row] # t
    BY DEF EngineInv, Sound, Locks, Waiting
  <2> QED
    BY <1>1, <2>1, <2>2
<1>3. PICK a, b : a = Level(txn[t].kind, Left(t)) /\ b = Level(txn[u].kind, Left(u))
  OBVIOUS
<1>4. Rank(row) = a /\ Rank(other) <= a /\ Rank(other) = b /\ Rank(row) <= b
  BY <1>1, <1>2, <1>3 DEF EngineInv, Sound, Ordered
<1>5. Rank(row) \in 1 .. 5 /\ Rank(other) \in 1 .. 5
  BY <1>2, RankInt
<1>6. Rank(row) = Rank(other)
  BY <1>4, <1>5
<1>7. row # other
  BY <1>1, <1>2
<1>8. row \in Taken(t) /\ other \in Taken(t) /\ row \in Taken(u) /\ other \in Taken(u)
  BY <1>1, <1>2 DEF Taken
<1>9. txn[t].kind = "genesis" /\ txn[u].kind = "genesis"
  BY <1>6, <1>7, <1>8 DEF LockInv, OneOfRank
<1>10. Rank(row) # 4
  <2>1. \A r \in Rows : Rank(r) = 4 => r = StateLock
    BY RowCases, RowsApart
  <2> QED
    BY <1>2, <1>6, <1>7, <2>1
<1>11. ASSUME NEW v \in {t, u}
       PROVE  holder[StateLock] = v
  <2>1. Level(txn[v].kind, Left(v)) = Rank(row)
    BY <1>3, <1>4, <1>6
  <2>2. Left(v) <= 1 /\ Level(txn[v].kind, Left(v)) = 5
    <3>1. txn[v].kind = "genesis" /\ Left(v) < Len(PlanOf(txn[v].kind)) /\ Left(v) \in Nat
      <4>1. Follows(v) /\ TxnRow(txn[v]) /\ txn[v].kind = "genesis"
        BY <1>9 DEF EngineInv, Sound, TxnsTyped
      <4>2. txn[v].kind # None
        BY <4>1, NoneAssumption
      <4>3. Left(v) \in Nat
        BY <4>1, LenProperties DEF Left, TxnRow
      <4> QED
        BY <4>1, <4>2, <4>3 DEF Follows
    <3>2. Left(v) \in 0 .. 2
      <4>1. Left(v) < 3 /\ Left(v) \in Nat
        BY <3>1, PlanLengths
      <4> QED
        BY ONLY <4>1
    <3> QED
      BY <1>5, <1>10, <2>1, <3>1, <3>2 DEF Level
  <2>3. StateLock \in txn[v].rows \/ holder[StateLock] = v
    BY <1>9, <2>2 DEF EngineInv, Sound, Locks, StateKnown, StateTaken
  <2>4. StateLock \notin txn[v].rows
    <3>1. \A r \in txn[v].rows : Rank(r) = Level(txn[v].kind, Left(v))
      BY <1>9 DEF EngineInv, Sound, Ordered
    <3> QED
      BY <2>2, <3>1, RowsApart
  <2> QED
    BY <2>3, <2>4
<1> QED
  BY <1>2, <1>11

\* As long as one epoch is active, no two of any number of transactions wait for each other,
\* unless one of them closes an epoch: all the others lock rows in the order of their ranks,
\* and one row of a rank, the initial allocation behind the state row.
THEOREM LocksInOrder == Spec /\ []OneActive => []NoLockCycle
<1>1. DatabaseInit => LockInv
  BY NotATransaction DEF DatabaseInit, LockInv, OneOfRank, Taken, Idle
<1>2. EngineInv /\ EngineInv' /\ OneActive /\ LockInv /\ [Next]_vars => LockInv'
  BY LockStep
<1>3. EngineInv /\ LockInv => NoLockCycle
  BY NoCycle DEF NoLockCycle
<1> QED
  BY <1>1, <1>2, <1>3, EngineInvHolds, PTL DEF Spec

-----------------------------------------------------------------------------
(***************************************************************************)
(* Sums over the ledger.                                                   *)
(***************************************************************************)

AmountIn(rows, S) == SumFunctionOnSet([i \in DOMAIN rows |-> rows[i].amount], S)
UndoneIn(rows, S) == {j \in DOMAIN rows : rows[j].of \in S}
StandingIn(rows, S) == AmountIn(rows, S) - AmountIn(rows, UndoneIn(rows, S))

\* Amounts are natural numbers, and there are finitely many of them.
LEMMA AmountsNat ==
  ASSUME NEW rows \in Seq(EntryRow)
  PROVE  /\ IsFiniteSet(DOMAIN rows)
         /\ \A S \in SUBSET DOMAIN rows : IsFiniteSet(S)
         /\ \A i \in DOMAIN rows : [k \in DOMAIN rows |-> rows[k].amount][i] = rows[i].amount
                                   /\ rows[i].amount \in Nat
         /\ \A S \in SUBSET DOMAIN rows : AmountIn(rows, S) \in Nat
<1> DEFINE f == [k \in DOMAIN rows |-> rows[k].amount]
<1>1. DOMAIN rows = 1 .. Len(rows) /\ Len(rows) \in Nat
  OBVIOUS
<1>2. IsFiniteSet(DOMAIN rows)
  BY <1>1, FS_Interval
<1>3. \A i \in DOMAIN rows : f[i] = rows[i].amount /\ rows[i].amount \in Nat
  <2> TAKE i \in DOMAIN rows
  <2>1. PICK R : R = EntryRow
    OBVIOUS
  <2>2. rows[i] \in R
    BY <1>1, <2>1
  <2>3. rows[i].amount \in Nat
    BY <2>1, <2>2 DEF EntryRow
  <2> QED
    BY <2>3
<1>4. ASSUME NEW S \in SUBSET DOMAIN rows
      PROVE  IsFiniteSet(S)
  BY <1>2, FS_Subset
<1> HIDE DEF f
<1>5. ASSUME NEW S \in SUBSET DOMAIN rows
      PROVE  SumFunctionOnSet(f, S) \in Nat
  <2>1. \A x \in S : f[x] \in Nat
    BY <1>3
  <2> QED
    BY <1>4, <2>1, SumNat
<1> QED
  BY <1>2, <1>3, <1>4, <1>5 DEF AmountIn, f

\* Entries that have the same amounts have the same sum.
LEMMA AmountKept ==
  ASSUME NEW rows \in Seq(EntryRow), NEW all \in Seq(EntryRow), NEW S \in SUBSET DOMAIN rows,
         S \subseteq DOMAIN all, \A i \in S : all[i].amount = rows[i].amount
  PROVE  AmountIn(all, S) = AmountIn(rows, S)
<1> DEFINE f == [k \in DOMAIN rows |-> rows[k].amount]
           g == [k \in DOMAIN all |-> all[k].amount]
<1>1. \A i \in S : f[i] = rows[i].amount /\ rows[i].amount \in Nat /\ g[i] = all[i].amount
  BY AmountsNat
<1>2. IsFiniteSet(S)
  BY AmountsNat
<1> HIDE DEF f, g
<1>3. \A i \in S : g[i] \in Int /\ g[i] = f[i]
  BY <1>1
<1>4. SumFunctionOnSet(g, S) = SumFunctionOnSet(f, S)
  BY <1>2, <1>3, SumCongruence
<1> QED
  BY <1>4 DEF AmountIn, f, g

\* The sum over two disjoint sets of entries, and over one more entry.
LEMMA AmountUnion ==
  ASSUME NEW rows \in Seq(EntryRow), NEW S \in SUBSET DOMAIN rows, NEW T \in SUBSET DOMAIN rows,
         S \cap T = {}
  PROVE  AmountIn(rows, S \cup T) = AmountIn(rows, S) + AmountIn(rows, T)
<1> DEFINE f == [k \in DOMAIN rows |-> rows[k].amount]
<1>1. \A i \in S \cup T : f[i] = rows[i].amount /\ rows[i].amount \in Nat
  BY AmountsNat
<1>2. \A i \in S \cup T : f[i] \in Int
  BY <1>1
<1>3. IsFiniteSet(S) /\ IsFiniteSet(T)
  BY AmountsNat
<1> HIDE DEF f
<1>4. SumFunctionOnSet(f, S \cup T) = SumFunctionOnSet(f, S) + SumFunctionOnSet(f, T)
  BY <1>2, <1>3, SumUnion
<1> QED
  BY <1>4 DEF AmountIn, f

LEMMA AmountOfOne ==
  ASSUME NEW rows \in Seq(EntryRow), NEW n \in DOMAIN rows
  PROVE  AmountIn(rows, {n}) = rows[n].amount
<1> DEFINE f == [k \in DOMAIN rows |-> rows[k].amount]
<1>1. f[n] = rows[n].amount /\ rows[n].amount \in Nat
  BY AmountsNat
<1>2. IsFiniteSet({}) /\ \A i \in {} \cup {n} : f[i] \in Int
  BY <1>1, FS_EmptySet
<1> HIDE DEF f
<1>3. SumFunctionOnSet(f, {} \cup {n}) = SumFunctionOnSet(f, {}) + f[n]
  BY <1>2, SumAdd
<1>4. {} \cup {n} = {n} /\ SumFunctionOnSet(f, {}) = 0
  BY SumEmpty
<1>5. SumFunctionOnSet(f, {n}) = f[n]
  BY <1>1, <1>3, <1>4
<1> QED
  BY <1>1, <1>5 DEF AmountIn, f

LEMMA AmountOfNone == \A rows : AmountIn(rows, {}) = 0
BY SumEmpty DEF AmountIn

\* What a set of old and new entries amounts to.
LEMMA AmountGrown ==
  ASSUME NEW rows \in Seq(EntryRow), NEW all \in Seq(EntryRow), DOMAIN rows \subseteq DOMAIN all,
         \A i \in DOMAIN rows : all[i].amount = rows[i].amount,
         NEW S \in SUBSET DOMAIN rows, NEW N \in SUBSET (DOMAIN all \ DOMAIN rows)
  PROVE  /\ AmountIn(all, S \cup N) = AmountIn(rows, S) + AmountIn(all, N)
         /\ AmountIn(rows, S) \in Nat /\ AmountIn(all, N) \in Nat
<1>1. S \in SUBSET DOMAIN all /\ N \in SUBSET DOMAIN all /\ S \cap N = {}
  OBVIOUS
<1>2. AmountIn(all, S) = AmountIn(rows, S)
  BY <1>1, AmountKept
<1>3. AmountIn(all, S \cup N) = AmountIn(all, S) + AmountIn(all, N)
  BY <1>1, AmountUnion
<1> QED
  BY <1>1, <1>2, <1>3, AmountsNat

\* What stands of old and of new mints when no reversal is added.
LEMMA StandingMinted ==
  ASSUME NEW rows \in Seq(EntryRow), NEW all \in Seq(EntryRow), DOMAIN rows \subseteq DOMAIN all,
         \A i \in DOMAIN rows : /\ all[i].amount = rows[i].amount /\ all[i].of = rows[i].of
                                /\ rows[i].of \in DOMAIN rows \cup {0},
         \A i \in DOMAIN all \ DOMAIN rows : all[i].of = 0,
         NEW S \in SUBSET DOMAIN rows, NEW N \in SUBSET (DOMAIN all \ DOMAIN rows)
  PROVE  StandingIn(all, S \cup N) = StandingIn(rows, S) + AmountIn(all, N)
<1>1. 0 \notin DOMAIN all
  OBVIOUS
<1>2. UndoneIn(all, S \cup N) = UndoneIn(rows, S)
  BY <1>1 DEF UndoneIn
<1>3. UndoneIn(rows, S) \in SUBSET DOMAIN rows
  BY DEF UndoneIn
<1>4. AmountIn(all, UndoneIn(rows, S)) = AmountIn(rows, UndoneIn(rows, S))
  BY <1>3, AmountKept
<1>5. /\ AmountIn(all, S \cup N) = AmountIn(rows, S) + AmountIn(all, N)
      /\ AmountIn(rows, S) \in Nat /\ AmountIn(all, N) \in Nat
  <2>1. \A i \in DOMAIN rows : all[i].amount = rows[i].amount
    OBVIOUS
  <2> QED
    BY <2>1, AmountGrown
<1>6. AmountIn(rows, UndoneIn(rows, S)) \in Nat
  BY <1>3, AmountsNat
<1>7. StandingIn(all, S \cup N) = AmountIn(all, S \cup N) - AmountIn(rows, UndoneIn(rows, S))
  BY <1>2, <1>4 DEF StandingIn
<1> QED
  BY <1>5, <1>6, <1>7 DEF StandingIn

\* What stands of mints when one reversal is added.
LEMMA StandingReversed ==
  ASSUME NEW rows \in Seq(EntryRow), NEW all \in Seq(EntryRow), DOMAIN rows \subseteq DOMAIN all,
         \A i \in DOMAIN rows : all[i].amount = rows[i].amount /\ all[i].of = rows[i].of,
         NEW n, DOMAIN all \ DOMAIN rows = {n}, NEW S \in SUBSET DOMAIN rows
  PROVE  StandingIn(all, S) = StandingIn(rows, S) - (IF all[n].of \in S THEN all[n].amount ELSE 0)
<1>1. n \in DOMAIN all /\ n \notin DOMAIN rows
  OBVIOUS
<1>2. UndoneIn(rows, S) \in SUBSET DOMAIN rows
  BY DEF UndoneIn
<1>3. /\ AmountIn(all, S) = AmountIn(rows, S)
      /\ AmountIn(all, UndoneIn(rows, S)) = AmountIn(rows, UndoneIn(rows, S))
      /\ AmountIn(rows, S) \in Nat /\ AmountIn(rows, UndoneIn(rows, S)) \in Nat
      /\ all[n].amount \in Nat
  <2>1. S \subseteq DOMAIN all /\ UndoneIn(rows, S) \subseteq DOMAIN all
    BY <1>2
  <2> QED
    BY <1>1, <1>2, <2>1, AmountKept, AmountsNat
<1>4. CASE all[n].of \in S
  <2>1. UndoneIn(all, S) = UndoneIn(rows, S) \cup {n}
    BY <1>1, <1>4 DEF UndoneIn
  <2>2. {n} \in SUBSET (DOMAIN all \ DOMAIN rows)
    BY <1>1
  <2>3. AmountIn(all, UndoneIn(rows, S) \cup {n}) = AmountIn(rows, UndoneIn(rows, S)) + AmountIn(all, {n})
    <3>1. PICK U \in SUBSET DOMAIN all, N \in SUBSET DOMAIN all :
            U = UndoneIn(rows, S) /\ N = {n} /\ U \cap N = {}
      BY <1>1, <1>2
    <3>2. AmountIn(all, U \cup N) = AmountIn(all, U) + AmountIn(all, N)
      BY <3>1, AmountUnion
    <3> QED
      BY <1>3, <3>1, <3>2
  <2>4. AmountIn(all, {n}) = all[n].amount
    BY <1>1, AmountOfOne
  <2>5. AmountIn(all, UndoneIn(all, S)) = AmountIn(rows, UndoneIn(rows, S)) + all[n].amount
    BY <2>1, <2>3, <2>4
  <2> QED
    BY <1>3, <1>4, <2>5 DEF StandingIn
<1>5. CASE all[n].of \notin S
  <2>1. UndoneIn(all, S) = UndoneIn(rows, S)
    BY <1>1, <1>5 DEF UndoneIn
  <2>2. AmountIn(all, UndoneIn(all, S)) = AmountIn(rows, UndoneIn(rows, S))
    BY <1>3, <2>1
  <2> QED
    BY <1>3, <1>5, <2>2 DEF StandingIn
<1> QED
  BY <1>4, <1>5

\* What stands of two disjoint sets of mints.
LEMMA StandingUnion ==
  ASSUME NEW rows \in Seq(EntryRow), NEW S \in SUBSET DOMAIN rows, NEW T \in SUBSET DOMAIN rows,
         S \cap T = {}
  PROVE  StandingIn(rows, S \cup T) = StandingIn(rows, S) + StandingIn(rows, T)
<1>1. /\ UndoneIn(rows, S) \in SUBSET DOMAIN rows /\ UndoneIn(rows, T) \in SUBSET DOMAIN rows
      /\ UndoneIn(rows, S) \cap UndoneIn(rows, T) = {}
      /\ UndoneIn(rows, S \cup T) = UndoneIn(rows, S) \cup UndoneIn(rows, T)
  BY DEF UndoneIn
<1>2. /\ AmountIn(rows, S \cup T) = AmountIn(rows, S) + AmountIn(rows, T)
      /\ AmountIn(rows, UndoneIn(rows, S) \cup UndoneIn(rows, T)) =
           AmountIn(rows, UndoneIn(rows, S)) + AmountIn(rows, UndoneIn(rows, T))
  BY <1>1, AmountUnion
<1>3. /\ AmountIn(rows, S) \in Nat /\ AmountIn(rows, T) \in Nat
      /\ AmountIn(rows, UndoneIn(rows, S)) \in Nat /\ AmountIn(rows, UndoneIn(rows, T)) \in Nat
  BY <1>1, AmountsNat
<1>4. AmountIn(rows, UndoneIn(rows, S \cup T)) =
        AmountIn(rows, UndoneIn(rows, S)) + AmountIn(rows, UndoneIn(rows, T))
  BY <1>1, <1>2
<1> QED
  BY <1>2, <1>3, <1>4 DEF StandingIn

\* What stands of mints when amounts and references stay.
LEMMA StandingKept ==
  ASSUME NEW rows \in Seq(EntryRow), NEW all \in Seq(EntryRow), DOMAIN all = DOMAIN rows,
         \A i \in DOMAIN rows : all[i].amount = rows[i].amount /\ all[i].of = rows[i].of,
         NEW S \in SUBSET DOMAIN rows
  PROVE  StandingIn(all, S) = StandingIn(rows, S)
<1>1. UndoneIn(all, S) = UndoneIn(rows, S) /\ UndoneIn(rows, S) \in SUBSET DOMAIN rows
  BY DEF UndoneIn
<1>2. /\ AmountIn(all, S) = AmountIn(rows, S)
      /\ AmountIn(all, UndoneIn(rows, S)) = AmountIn(rows, UndoneIn(rows, S))
  BY <1>1, AmountKept
<1> QED
  BY <1>1, <1>2 DEF StandingIn

-----------------------------------------------------------------------------
(***************************************************************************)
(* The layers of a balance, and what an epoch issues.                      *)
(***************************************************************************)

\* With one active epoch at a time, it is the last one; an entry is pending as long
\* as it is of an advance of that epoch, and a reversal undoes a mint.
EntryFits(i) ==
  /\ ledger[i].kind \in {"genesis", "reversal"} => ledger[i].epoch = 0
  /\ ledger[i].kind \notin {"genesis", "reversal"} => ledger[i].epoch \in DOMAIN epochs
  /\ ledger[i].pending <=> ledger[i].kind \in {"advance", "execution"} /\ ledger[i].epoch = Len(epochs)
  /\ ledger[i].kind = "reversal" => ledger[i].of \in Mints
  /\ ledger[i].kind # "reversal" => ledger[i].of = 0
LastActive == Len(epochs) > 0 => ActiveEpochs = {Len(epochs)}
Numbered == LastActive /\ \A i \in DOMAIN ledger : EntryFits(i)

\* A step that issues tokens to a member in an epoch: an amount that counts now, and
\* one that counts from the next epoch on.
Issues(es, m, n, now, later) ==
  /\ n \in ActiveEpochs /\ n \in Nat /\ m \in Members
  /\ ledger' = ledger \o es
  /\ \A k \in DOMAIN es :
       /\ es[k].member = m /\ es[k].epoch = n /\ es[k].of = 0
       /\ \/ es[k].kind = "regular" /\ ~es[k].pending /\ es[k].amount = now
          \/ es[k].kind \in {"advance", "execution"} /\ es[k].pending /\ es[k].amount = later
  /\ \A j, k \in DOMAIN es : es[j].pending = es[k].pending => j = k
  /\ now > 0 => \E k \in DOMAIN es : ~es[k].pending
  /\ later > 0 => \E k \in DOMAIN es : es[k].pending
  /\ balance'[m].active = balance[m].active + now
  /\ balance'[m].pending = balance[m].pending + later
  /\ balance'[m].earned = balance[m].earned + now
  /\ \A k \in Members \ {m} : balance'[k] = balance[k]
  /\ Metered(n, now, later)
  /\ now > 0 => WithinCap(epochs[n], balance[m].earned, now)

\* A mint issues what fits the budget now and the rest later.
LEMMA MintIssues ==
  ASSUME EngineInv, NEW t \in Txns, Ready(t, "mint"), NEW now \in Nat, NEW later \in Nat,
         NEW n \in Nat, n \in ActiveEpochs, MintWrites(t, n, now, later)
  PROVE  \E es \in Seq(EntryRow), m \in Members : Issues(es, m, n, now, later)
<1>0. LedgerRows
  BY DEF EngineInv, RowsTyped
<1>1. PICK es \in Seq(EntryRow) : es = Legs(t, now, later)
  BY DEF MintWrites
<1>2. PICK m \in Members : m = MemberOf(txn[t])
  BY DEF MintWrites
<1>3. /\ n = txn[t].seen.epoch /\ ledger' = ledger \o es
      /\ Credit(m, now, later, now) /\ Metered(n, now, later)
      /\ WithinCap(epochs[n], balance[m].earned, now + later)
  BY <1>1, <1>2 DEF MintWrites
<1>4. \A k \in DOMAIN es :
        \/ now > 0 /\ k = 1 /\ es[k] = RegularLeg(t, now)
        \/ later > 0 /\ k = (IF now > 0 THEN 2 ELSE 1) /\ es[k] = AdvanceLeg(t, now, later)
  BY <1>1, LegCases
<1>5. /\ RegularLeg(t, now).member = m /\ RegularLeg(t, now).epoch = n /\ RegularLeg(t, now).of = 0
      /\ RegularLeg(t, now).kind = "regular" /\ RegularLeg(t, now).pending = FALSE
      /\ RegularLeg(t, now).amount = now
  BY <1>2, <1>3 DEF RegularLeg
<1>6. /\ AdvanceLeg(t, now, later).member = m /\ AdvanceLeg(t, now, later).epoch = n
      /\ AdvanceLeg(t, now, later).of = 0 /\ AdvanceLeg(t, now, later).kind = "advance"
      /\ AdvanceLeg(t, now, later).pending = TRUE /\ AdvanceLeg(t, now, later).amount = later
  BY <1>2, <1>3 DEF AdvanceLeg
<1>7. \A k \in DOMAIN es :
        \/ k = 1 /\ now > 0 /\ es[k].pending = FALSE
        \/ k = (IF now > 0 THEN 2 ELSE 1) /\ es[k].pending = TRUE
  BY <1>4, <1>5, <1>6
<1>8. \A j, k \in DOMAIN es : es[j].pending = es[k].pending => j = k
  BY <1>7
<1>9. /\ Len(es) = (IF now > 0 THEN 1 ELSE 0) + (IF later > 0 THEN 1 ELSE 0)
      /\ now > 0 => es[1] = RegularLeg(t, now)
      /\ later > 0 => es[Len(es)] = AdvanceLeg(t, now, later)
  BY <1>1, LegsShape
<1>10. DOMAIN es = 1 .. Len(es)
  BY <1>1
<1>11. now > 0 => \E k \in DOMAIN es : ~es[k].pending
  <2>1. now > 0 => 1 \in DOMAIN es
    BY <1>9, <1>10
  <2> QED
    BY <1>5, <1>9, <2>1
<1>12. later > 0 => \E k \in DOMAIN es : es[k].pending
  <2>1. later > 0 => Len(es) \in DOMAIN es
    BY <1>9, <1>10
  <2> QED
    BY <1>6, <1>9, <2>1
<1>13. PICK b \in BalanceRow : b = balance[m]
  BY <1>0 DEF LedgerRows
<1>14. b.total \in Nat /\ b.active \in Nat /\ b.pending \in Nat /\ b.earned \in Nat
  BY DEF BalanceRow
<1>15. /\ b.total + now + later >= 0 /\ b.active + now >= 0 /\ b.pending + later >= 0 /\ b.earned + now >= 0
  BY ONLY <1>14, RaisedAmounts, now \in Nat, later \in Nat
<1>16. /\ balance'[m].active = balance[m].active + now
       /\ balance'[m].pending = balance[m].pending + later
       /\ balance'[m].earned = balance[m].earned + now
       /\ \A k \in Members \ {m} : balance'[k] = balance[k]
  BY <1>0, <1>3, <1>13, <1>15, Credited
<1>17. WithinCap(epochs[n], balance[m].earned, now)
  <2>1. PICK cap : cap = BpsOf(epochs[n].base, policy.rates.memberCap)
    OBVIOUS
  <2>2. cap \in Nat
    <3>1. epochs[n].base \in Nat /\ policy.rates.memberCap \in Nat
      <4>1. PICK e \in EpochRow : e = epochs[n]
        BY <1>0 DEF LedgerRows, ActiveEpochs
      <4>2. policy \in PolicyRow
        BY DEF EngineInv, RowsTyped, GovernanceRows
      <4>3. e.base \in Nat
        BY DEF EpochRow
      <4>4. policy.rates.memberCap \in Nat
        BY <4>2 DEF PolicyRow, RatesOf
      <4> QED
        BY <4>1, <4>3, <4>4
    <3> QED
      BY <2>1, <3>1, BpsNat
  <2>3. b.earned + (now + later) <= cap
    BY <1>3, <1>13, <2>1 DEF WithinCap
  <2>4. b.earned + now <= cap
    BY <1>14, <2>2, <2>3
  <2> QED
    BY <1>13, <2>1, <2>4 DEF WithinCap
<1>18. \A k \in DOMAIN es :
         /\ es[k].member = m /\ es[k].epoch = n /\ es[k].of = 0
         /\ \/ es[k].kind = "regular" /\ ~es[k].pending /\ es[k].amount = now
            \/ es[k].kind \in {"advance", "execution"} /\ es[k].pending /\ es[k].amount = later
  BY <1>4, <1>5, <1>6
<1>19. Issues(es, m, n, now, later)
  BY <1>3, <1>8, <1>11, <1>12, <1>16, <1>17, <1>18 DEF Issues
<1> QED
  BY <1>19

\* An execution issues all it mints later.
LEMMA ExecutionIssues ==
  ASSUME EngineInv, NEW t \in Txns, NEW later \in Nat \ {0},
         NEW n \in Nat, n \in ActiveEpochs, ExecutionWrites(t, n, later)
  PROVE  \E es \in Seq(EntryRow), m \in Members : Issues(es, m, n, 0, later)
<1>0. LedgerRows
  BY DEF EngineInv, RowsTyped
<1>1. PICK e \in EntryRow : e = Execution(t, later)
  BY DEF ExecutionWrites
<1>2. PICK m \in Members : m = txn[t].seen.request.member
  BY DEF ExecutionWrites
<1>3. PICK es \in Seq(EntryRow) : es = <<e>> /\ DOMAIN es = {1} /\ \A k \in DOMAIN es : es[k] = e
  BY OneEntry
<1>4. /\ n = txn[t].seen.epoch /\ ledger' = ledger \o es
      /\ Credit(m, 0, later, 0) /\ Metered(n, 0, later)
  BY <1>1, <1>2, <1>3 DEF ExecutionWrites
<1>5. e.member = m /\ e.epoch = n /\ e.of = 0 /\ e.kind = "execution" /\ e.pending = TRUE /\ e.amount = later
  BY <1>1, <1>2, <1>4 DEF Execution
<1>6. PICK b \in BalanceRow : b = balance[m]
  BY <1>0 DEF LedgerRows
<1>7. b.total \in Nat /\ b.active \in Nat /\ b.pending \in Nat /\ b.earned \in Nat
  BY DEF BalanceRow
<1>8. b.total + 0 + later >= 0 /\ b.active + 0 >= 0 /\ b.pending + later >= 0 /\ b.earned + 0 >= 0
  BY ONLY <1>7, RaisedAmounts, 0 \in Nat, later \in Nat
<1>9. /\ balance'[m].active = balance[m].active + 0
      /\ balance'[m].pending = balance[m].pending + later
      /\ balance'[m].earned = balance[m].earned + 0
      /\ \A k \in Members \ {m} : balance'[k] = balance[k]
  <2>1. PICK z \in Int : z = 0
    OBVIOUS
  <2>2. /\ balance[m].total + z + later >= 0 /\ balance[m].active + z >= 0
        /\ balance[m].pending + later >= 0 /\ balance[m].earned + z >= 0
    BY <1>6, <1>8, <2>1
  <2>3. Credit(m, z, later, z)
    BY <1>4, <2>1
  <2>4. later \in Int /\ m \in Members
    OBVIOUS
  <2>5. /\ balance'[m].active = balance[m].active + z
        /\ balance'[m].pending = balance[m].pending + later
        /\ balance'[m].earned = balance[m].earned + z
        /\ \A k \in Members \ {m} : balance'[k] = balance[k]
    BY <1>0, <2>2, <2>3, <2>4, Credited
  <2> QED
    BY <2>1, <2>5
<1>10. \A k \in DOMAIN es :
         /\ es[k].member = m /\ es[k].epoch = n /\ es[k].of = 0
         /\ es[k].kind \in {"advance", "execution"} /\ es[k].pending /\ es[k].amount = later
  BY <1>3, <1>5
<1>11. \E k \in DOMAIN es : es[k].pending
  BY <1>3, <1>10
<1>12. \A j, k \in DOMAIN es : es[j].pending = es[k].pending => j = k
  BY <1>3
<1>13. Issues(es, m, n, 0, later)
  BY <1>4, <1>9, <1>10, <1>11, <1>12 DEF Issues
<1> QED
  BY <1>13

\* What it issues is what its entries amount to.
Added == DOMAIN ledger' \ DOMAIN ledger
AddedNow(x) == {i \in Added : ledger'[i].kind # "reversal" /\ ledger'[i].member = x /\ ~ledger'[i].pending}
AddedLater(x) == {i \in Added : ledger'[i].kind # "reversal" /\ ledger'[i].member = x /\ ledger'[i].pending}

\* The same, whoever they are for.
Immediate == {i \in Added : ledger'[i].kind # "reversal" /\ ~ledger'[i].pending}
Deferred == {i \in Added : ledger'[i].kind # "reversal" /\ ledger'[i].pending}
Summed(now, later) == AmountIn(ledger', Immediate) = now /\ AmountIn(ledger', Deferred) = later

LEMMA IssuedEntries ==
  ASSUME EngineInv, EngineInv', NEW es \in Seq(EntryRow), NEW m \in Members, NEW n, NEW now \in Nat, NEW later \in Nat,
         Issues(es, m, n, now, later)
  PROVE  /\ \A i \in DOMAIN ledger : ledger'[i] = ledger[i]
         /\ DOMAIN ledger \subseteq DOMAIN ledger'
         /\ \A i \in Added :
              /\ ledger'[i].member = m /\ ledger'[i].epoch = n /\ ledger'[i].of = 0
              /\ \/ ledger'[i].kind = "regular" /\ ~ledger'[i].pending /\ ledger'[i].amount = now
                 \/ /\ ledger'[i].kind \in {"advance", "execution"}
                    /\ ledger'[i].pending /\ ledger'[i].amount = later
         /\ Summed(now, later)
<1>1. /\ \A k \in DOMAIN es :
           /\ es[k].member = m /\ es[k].epoch = n /\ es[k].of = 0
           /\ \/ es[k].kind = "regular" /\ ~es[k].pending /\ es[k].amount = now
              \/ es[k].kind \in {"advance", "execution"} /\ es[k].pending /\ es[k].amount = later
      /\ \A j, k \in DOMAIN es : es[j].pending = es[k].pending => j = k
      /\ now > 0 => \E k \in DOMAIN es : ~es[k].pending
      /\ later > 0 => \E k \in DOMAIN es : es[k].pending
      /\ ledger' = ledger \o es
  BY DEF Issues
<1>2. RowsTyped
  BY DEF EngineInv
<1>3. /\ Len(ledger) \in Nat /\ DOMAIN ledger = 1 .. Len(ledger) /\ DOMAIN es = 1 .. Len(es)
      /\ Len(es) \in Nat /\ DOMAIN ledger' = 1 .. Len(ledger) + Len(es)
      /\ \A i \in DOMAIN ledger : ledger'[i] = ledger[i]
      /\ \A k \in DOMAIN es : ledger'[Len(ledger) + k] = es[k]
      /\ \A i \in DOMAIN ledger' \ DOMAIN ledger :
           \E k \in DOMAIN es : i = Len(ledger) + k /\ ledger'[i] = es[k]
  BY <1>1, <1>2, Grown
<1>4. DOMAIN ledger \subseteq DOMAIN ledger'
  BY <1>3
<1>5. \A k \in DOMAIN es : Len(ledger) + k \in Added
  BY <1>3 DEF Added
<1>6. \A i \in Added : \E k \in DOMAIN es : i = Len(ledger) + k /\ ledger'[i] = es[k]
  BY <1>3 DEF Added
<1>7. \A i \in Added :
        /\ ledger'[i].member = m /\ ledger'[i].epoch = n /\ ledger'[i].of = 0
        /\ \/ ledger'[i].kind = "regular" /\ ~ledger'[i].pending /\ ledger'[i].amount = now
           \/ /\ ledger'[i].kind \in {"advance", "execution"}
              /\ ledger'[i].pending /\ ledger'[i].amount = later
  BY <1>1, <1>6
<1>8. PICK all \in Seq(EntryRow) : all = ledger'
  BY DEF EngineInv, RowsTyped, LedgerRows
<1>9. \A i \in Added : all[i].amount \in Nat \ {0}
  <2>1. \A i \in DOMAIN all : all[i] \in EntryRow
    BY <1>8
  <2> QED
    BY <1>8, <2>1 DEF Added, EntryRow
<1>10. AmountIn(all, AddedNow(m)) = now
  <2>1. CASE now > 0
    <3>1. PICK k \in DOMAIN es : ~es[k].pending
      BY <1>1, <2>1
    <3>2. PICK i \in Added : i = Len(ledger) + k /\ ledger'[i] = es[k]
      BY <1>3, <1>5
    <3>3. ~ledger'[i].pending /\ ledger'[i].amount = now
      BY <1>7, <3>1, <3>2
    <3>4. AddedNow(m) = {i}
      <4>1. i \in AddedNow(m)
        BY <1>7, <3>2, <3>3 DEF AddedNow
      <4>2. ASSUME NEW h \in AddedNow(m)
            PROVE  h = i
        <5>1. PICK j \in DOMAIN es : h = Len(ledger) + j /\ ledger'[h] = es[j] /\ ~es[j].pending
          BY <1>6 DEF AddedNow
        <5>2. es[j].pending = es[k].pending
          <6>1. \A i1 \in DOMAIN es : es[i1].pending \in BOOLEAN
            <7>1. \A i1 \in DOMAIN es : es[i1] \in EntryRow
              OBVIOUS
            <7> QED
              BY <7>1 DEF EntryRow
          <6> QED
            BY <3>1, <5>1, <6>1
        <5> QED
          BY <1>1, <3>2, <5>1, <5>2
      <4> QED
        BY <4>1, <4>2
    <3>5. i \in DOMAIN all
      BY <1>8 DEF Added
    <3> QED
      BY <1>8, <3>3, <3>4, <3>5, AmountOfOne
  <2>2. CASE ~(now > 0)
    <3>1. now = 0
      BY <2>2
    <3>2. AddedNow(m) = {}
      BY <1>7, <1>8, <1>9, <3>1 DEF AddedNow
    <3> QED
      BY <3>1, <3>2, AmountOfNone
  <2> QED
    BY <2>1, <2>2
<1>11. AmountIn(all, AddedLater(m)) = later
  <2>1. CASE later > 0
    <3>1. PICK k \in DOMAIN es : es[k].pending
      BY <1>1, <2>1
    <3>2. PICK i \in Added : i = Len(ledger) + k /\ ledger'[i] = es[k]
      BY <1>3, <1>5
    <3>3. ledger'[i].pending /\ ledger'[i].amount = later
      BY <1>7, <3>1, <3>2
    <3>4. AddedLater(m) = {i}
      <4>1. i \in AddedLater(m)
        BY <1>7, <3>2, <3>3 DEF AddedLater
      <4>2. ASSUME NEW h \in AddedLater(m)
            PROVE  h = i
        <5>1. PICK j \in DOMAIN es : h = Len(ledger) + j /\ ledger'[h] = es[j] /\ es[j].pending
          BY <1>6 DEF AddedLater
        <5>2. es[j].pending = es[k].pending
          <6>1. \A i1 \in DOMAIN es : es[i1].pending \in BOOLEAN
            <7>1. \A i1 \in DOMAIN es : es[i1] \in EntryRow
              OBVIOUS
            <7> QED
              BY <7>1 DEF EntryRow
          <6> QED
            BY <3>1, <5>1, <6>1
        <5> QED
          BY <1>1, <3>2, <5>1, <5>2
      <4> QED
        BY <4>1, <4>2
    <3>5. i \in DOMAIN all
      BY <1>8 DEF Added
    <3> QED
      BY <1>8, <3>3, <3>4, <3>5, AmountOfOne
  <2>2. CASE ~(later > 0)
    <3>1. later = 0
      BY <2>2
    <3>2. AddedLater(m) = {}
      BY <1>7, <1>8, <1>9, <3>1 DEF AddedLater
    <3> QED
      BY <3>1, <3>2, AmountOfNone
  <2> QED
    BY <2>1, <2>2
<1>12. AmountIn(ledger', AddedNow(m)) = now /\ AmountIn(ledger', AddedLater(m)) = later
  BY <1>8, <1>10, <1>11
<1>13. \A i \in Added : ledger'[i].member = m
  BY <1>7
<1>14. AddedNow(m) = Immediate /\ AddedLater(m) = Deferred
  BY <1>13 DEF AddedNow, AddedLater, Immediate, Deferred
<1>15. AmountIn(ledger', Immediate) = now /\ AmountIn(ledger', Deferred) = later
  BY <1>12, <1>14
<1> QED
  BY <1>3, <1>4, <1>7, <1>15 DEF Summed

\* What is added to the ledger fits the epochs.
Fitting(e) ==
  /\ e.kind \in {"genesis", "reversal"} => e.epoch = 0
  /\ e.kind \notin {"genesis", "reversal"} => e.epoch = Len(epochs) /\ Len(epochs) > 0
  /\ e.pending <=> e.kind \in {"advance", "execution"}
  /\ e.kind = "reversal" => e.of \in Mints
  /\ e.kind # "reversal" => e.of = 0

LEMMA AddedFit ==
  ASSUME EngineInv, EngineInv', Numbered, DOMAIN epochs' = DOMAIN epochs,
         \A k \in DOMAIN epochs : epochs'[k].status = epochs[k].status,
         NEW es \in Seq(EntryRow), ledger' = ledger \o es, \A k \in DOMAIN es : Fitting(es[k])
  PROVE  Numbered'
<1>1. RowsTyped /\ epochs \in Seq(EpochRow) /\ epochs' \in Seq(EpochRow)
  BY DEF EngineInv, RowsTyped, LedgerRows
<1>2. /\ DOMAIN epochs = 1 .. Len(epochs) /\ DOMAIN epochs' = 1 .. Len(epochs')
      /\ Len(epochs) \in Nat /\ Len(epochs') \in Nat
  BY <1>1
<1>3. Len(epochs') = Len(epochs)
  BY <1>2
<1>4. ActiveEpochs' = ActiveEpochs
  BY DEF ActiveEpochs
<1>5. LastActive'
  BY <1>3, <1>4 DEF Numbered, LastActive
<1>6. /\ \A i \in DOMAIN ledger : ledger'[i] = ledger[i]
      /\ \A i \in DOMAIN ledger' \ DOMAIN ledger : \E k \in DOMAIN es : ledger'[i] = es[k]
      /\ DOMAIN ledger \subseteq DOMAIN ledger'
  <2>1. /\ Len(ledger) \in Nat /\ Len(es) \in Nat /\ DOMAIN ledger = 1 .. Len(ledger)
        /\ DOMAIN ledger' = 1 .. Len(ledger) + Len(es)
    BY <1>1, Grown
  <2>2. \A i \in DOMAIN ledger : ledger'[i] = ledger[i]
    BY <1>1, Grown
  <2>3. \A i \in DOMAIN ledger' \ DOMAIN ledger :
          \E k \in DOMAIN es : i = Len(ledger) + k /\ ledger'[i] = es[k]
    BY <1>1, Grown
  <2>4. \A a, b \in Nat : 1 .. a \subseteq 1 .. a + b
    OBVIOUS
  <2>5. DOMAIN ledger \subseteq DOMAIN ledger'
    BY <2>1, <2>4
  <2> QED
    BY <2>2, <2>3, <2>5
<1>7. Mints \subseteq Mints'
  BY <1>6 DEF Mints
<1>8. ASSUME NEW i \in DOMAIN ledger
      PROVE  EntryFits(i)'
  BY <1>3, <1>6, <1>7, <1>8 DEF Numbered, EntryFits
<1>9. ASSUME NEW i \in DOMAIN ledger' \ DOMAIN ledger
      PROVE  EntryFits(i)'
  <2>1. PICK k \in DOMAIN es : ledger'[i] = es[k] /\ Fitting(es[k])
    BY <1>6
  <2>2. es[k].kind \notin {"genesis", "reversal"} => es[k].epoch \in DOMAIN epochs'
    BY <1>2, <1>3, <2>1 DEF Fitting
  <2>3. es[k].kind \in {"advance", "execution"} => es[k].epoch = Len(epochs')
    BY <1>3, <2>1 DEF Fitting
  <2>4. es[k].kind = "reversal" => es[k].of \in Mints'
    BY <1>7, <2>1 DEF Fitting
  <2> QED
    BY <2>1, <2>2, <2>3, <2>4 DEF EntryFits, Fitting
<1> QED
  BY <1>5, <1>8, <1>9 DEF Numbered

\* The epochs after a switch.
LEMMA EpochClosed ==
  ASSUME EngineInv, NEW t \in Txns, closeEpoch(t)
  PROVE  \E n \in Nat : \E e \in EpochRow :
           /\ n = txn[t].in.id /\ n = Len(epochs) /\ n \in DOMAIN epochs /\ DOMAIN epochs = 1 .. n
           /\ Len(epochs') = n + 1 /\ DOMAIN epochs' = 1 .. n + 1
           /\ \A k \in DOMAIN epochs \ {n} : epochs'[k] = epochs[k]
           /\ epochs'[n].status = "closed"
           /\ \A f \in {"opening", "base", "debt", "maxAdvance", "regular", "advanced"} :
                epochs'[n][f] = epochs[n][f]
           /\ epochs'[n + 1] = e /\ e.status = "active"
           /\ e = NewEpoch(txn[t].seen.supply, CarriedDebt(epochs[n]), DuePolicy(t))
<1>1. LedgerRows
  BY DEF EngineInv, RowsTyped
<1>2. txn[t].in.id \in DOMAIN epochs /\ txn[t].seen.policy \in PolicyRow /\ txn[t].seen \in SeenRow
  <2>1. Ready(t, "close")
    BY CloseShape
  <2>2. GivenTo("close", txn[t].in) => txn[t].in.id \in DOMAIN epochs
    BY DEF GivenTo
  <2> QED
    BY <2>1, <2>2, ReadyKnows DEF TxnKinds
<1>3. epochs \in Seq(EpochRow) /\ Len(epochs) \in Nat /\ DOMAIN epochs = 1 .. Len(epochs)
  BY <1>1 DEF LedgerRows
<1>4. PICK n \in Nat : n = Len(epochs) /\ n = txn[t].in.id /\ n \in DOMAIN epochs /\ DOMAIN epochs = 1 .. n
  BY <1>2, <1>3, CloseShape
<1>5. DuePolicy(t) \in RatesOf
  <2>1. PICK p \in PolicyRow : p = txn[t].seen.policy
    BY <1>2
  <2>2. PolicyDue(p, n + 1) => p.pending \in [version : Nat, rates : RatesOf, epoch : Nat]
    BY DEF PolicyDue, PolicyRow
  <2> QED
    BY <1>4, <2>1, <2>2 DEF DuePolicy, PolicyRow
<1>6. PICK old \in EpochRow : old = epochs[n]
  BY <1>3, <1>4
<1>7. PICK e \in EpochRow : /\ e = NewEpoch(txn[t].seen.supply, CarriedDebt(epochs[n]), DuePolicy(t))
                            /\ e.status = "active"
  <2>1. txn[t].seen.supply \in Nat
    BY <1>2 DEF SeenRow
  <2>2. CarriedDebt(epochs[n]) \in Nat
    <3>1. PICK a \in Nat, d \in Nat, b \in Nat : a = old.advanced /\ d = old.debt /\ b = old.base
      BY DEF EpochRow
    <3>2. Monus(d, b) \in Nat
      BY MonusNat
    <3>3. a + Monus(d, b) \in Nat
      BY ONLY <3>2, a \in Nat
    <3> QED
      BY <1>6, <3>1, <3>3 DEF CarriedDebt
  <2> QED
    BY <1>5, <2>1, <2>2, NewEpochType
<1>8. epochs' = Append([epochs EXCEPT ![n].status = "closed"], e)
  BY <1>4, <1>7, CloseShape
<1>9. /\ Len(epochs') = Len(epochs) + 1 /\ DOMAIN epochs' = 1 .. Len(epochs) + 1
      /\ \A k \in DOMAIN epochs \ {n} : epochs'[k] = epochs[k]
      /\ epochs'[n] = [epochs[n] EXCEPT !.status = "closed"]
      /\ epochs'[Len(epochs) + 1] = e
  BY <1>1, <1>4, <1>7, <1>8, EpochsSwitched
<1>10. PICK new : new = [old EXCEPT !.status = "closed"]
  OBVIOUS
<1>11. /\ new.status = "closed"
       /\ \A f \in {"opening", "base", "debt", "maxAdvance", "regular", "advanced"} : new[f] = old[f]
  BY <1>10 DEF EpochRow
<1>12. epochs'[n] = new
  BY <1>6, <1>9, <1>10
<1>13. /\ Len(epochs') = n + 1 /\ DOMAIN epochs' = 1 .. n + 1 /\ epochs'[n + 1] = e
       /\ \A k \in DOMAIN epochs \ {n} : epochs'[k] = epochs[k]
       /\ epochs'[n].status = "closed"
       /\ \A f \in {"opening", "base", "debt", "maxAdvance", "regular", "advanced"} :
            epochs'[n][f] = epochs[n][f]
  BY <1>4, <1>6, <1>9, <1>11, <1>12
<1> QED
  BY <1>4, <1>7, <1>13

\* The epochs after the opening of one, with at most one active: it is the first.
LEMMA EpochOpened ==
  ASSUME EngineInv, OneActive', LastActive, NEW t \in Txns, createNextEpoch(t)
  PROVE  \E e \in EpochRow :
           /\ DOMAIN epochs = {} /\ Len(epochs) = 0
           /\ Len(epochs') = 1 /\ DOMAIN epochs' = {1}
           /\ epochs'[1] = e /\ e.status = "active"
           /\ e = NewEpoch(txn[t].seen.supply, 0, txn[t].seen.policy.rates)
           /\ UNCHANGED <<supply, ledger, balance, request, policy, versions, proposal>>
<1>1. /\ Ready(t, "createNext")
      /\ UNCHANGED <<supply, ledger, balance, request, policy, versions, proposal>>
      /\ epochs' = Append(epochs, NewEpoch(txn[t].seen.supply, 0, txn[t].seen.policy.rates))
  BY DEF createNextEpoch
<1>2. txn[t].seen.supply \in Nat /\ txn[t].seen.policy.rates \in RatesOf
  <2>1. txn[t].seen.policy \in PolicyRow /\ txn[t].seen \in SeenRow
    BY <1>1, ReadyKnows DEF TxnKinds
  <2> QED
    BY <2>1 DEF PolicyRow, SeenRow
<1>3. PICK e \in EpochRow : e = NewEpoch(txn[t].seen.supply, 0, txn[t].seen.policy.rates) /\ e.status = "active"
  BY <1>2, NewEpochType
<1>4. LedgerRows /\ epochs \in Seq(EpochRow)
  BY DEF EngineInv, RowsTyped, LedgerRows
<1>5. /\ Len(epochs') = Len(epochs) + 1 /\ Len(epochs) \in Nat /\ DOMAIN epochs = 1 .. Len(epochs)
      /\ DOMAIN epochs' = 1 .. Len(epochs) + 1 /\ \A k \in DOMAIN epochs : epochs'[k] = epochs[k]
      /\ epochs'[Len(epochs) + 1] = e
  BY <1>1, <1>3, <1>4, EpochAppended
<1>6. PICK n \in Nat : n = Len(epochs)
  BY <1>5
<1>7. n = 0
  <2> SUFFICES ASSUME n > 0
               PROVE  FALSE
    BY <1>6
  <2>1. n \in ActiveEpochs
    BY <1>6 DEF LastActive
  <2>2. n \in DOMAIN epochs /\ epochs[n].status = "active" /\ n \in DOMAIN epochs'
    BY <1>5, <1>6, <2>1 DEF ActiveEpochs
  <2>3. n \in ActiveEpochs'
    BY <1>5, <2>2 DEF ActiveEpochs
  <2>4. n + 1 \in ActiveEpochs'
    BY <1>3, <1>5, <1>6 DEF ActiveEpochs
  <2>5. n = n + 1
    BY <2>3, <2>4 DEF OneActive
  <2> QED
    BY <2>5
<1>8. /\ DOMAIN epochs = {} /\ Len(epochs) = 0 /\ Len(epochs') = 1 /\ DOMAIN epochs' = {1} /\ epochs'[1] = e
  BY <1>5, <1>6, <1>7
<1> QED
  BY <1>1, <1>3, <1>8

\* A switch closes the last epoch and matures all that is pending.
LEMMA CloseFits ==
  ASSUME EngineInv, Numbered, NEW t \in Txns, closeEpoch(t)
  PROVE  /\ Numbered'
         /\ \A i \in DOMAIN ledger : ~ledger'[i].pending
<1>3. PICK n \in Nat, e \in EpochRow :
        /\ n = txn[t].in.id /\ n = Len(epochs) /\ n \in DOMAIN epochs /\ DOMAIN epochs = 1 .. n
        /\ Len(epochs') = n + 1 /\ DOMAIN epochs' = 1 .. n + 1
        /\ \A k \in DOMAIN epochs \ {n} : epochs'[k] = epochs[k]
        /\ epochs'[n].status = "closed" /\ epochs'[n + 1] = e /\ e.status = "active"
  BY EpochClosed
<1>8. ActiveEpochs = {n}
  BY <1>3 DEF Numbered, LastActive
<1>9. ActiveEpochs' = {n + 1}
  <2>1. \A k \in 1 .. n + 1 : k = n + 1 \/ k = n \/ k \in DOMAIN epochs \ {n}
    BY <1>3
  <2>2. \A k \in DOMAIN epochs \ {n} : epochs[k].status # "active"
    BY <1>8 DEF ActiveEpochs
  <2>3. n + 1 \in 1 .. n + 1
    OBVIOUS
  <2>4. \A k \in DOMAIN epochs' : epochs'[k].status = "active" <=> k = n + 1
    BY <1>3, <2>1, <2>2
  <2> QED
    BY <1>3, <2>3, <2>4 DEF ActiveEpochs
<1>10. LastActive'
  BY <1>3, <1>9 DEF LastActive
<1>11. /\ DOMAIN ledger' = DOMAIN ledger
       /\ \A i \in DOMAIN ledger :
            /\ ledger'[i].kind = ledger[i].kind /\ ledger'[i].epoch = ledger[i].epoch
            /\ ledger'[i].of = ledger[i].of
            /\ ledger'[i].pending = (ledger[i].pending /\ i \notin MaturingAt(n + 1))
  BY <1>3, CloseLedger DEF EntryFields
<1>12. ASSUME NEW i \in DOMAIN ledger
       PROVE  ~ledger'[i].pending
  <2>1. ledger[i].pending => ledger[i].epoch = n
    BY <1>3 DEF Numbered, EntryFits
  <2>2. ledger[i].pending => i \in MaturingAt(n + 1)
    BY <2>1 DEF MaturingAt
  <2> QED
    BY <1>11, <2>2
<1>13. Mints' = Mints
  BY <1>11 DEF Mints
<1>14. ASSUME NEW i \in DOMAIN ledger'
       PROVE  EntryFits(i)'
  <2>1. EntryFits(i) /\ i \in DOMAIN ledger
    BY <1>11 DEF Numbered
  <2>2. ledger[i].epoch # n + 1
    <3>1. ledger[i].epoch \in 1 .. n \/ ledger[i].epoch = 0
      BY <1>3, <2>1 DEF EntryFits
    <3> QED
      BY <3>1
  <2>3. ledger[i].epoch \in DOMAIN epochs => ledger[i].epoch \in DOMAIN epochs'
    BY <1>3
  <2> QED
    BY <1>3, <1>11, <1>12, <1>13, <2>1, <2>2, <2>3 DEF EntryFits
<1> QED
  BY <1>10, <1>12, <1>14 DEF Numbered

LEMMA IssueFits ==
  ASSUME EngineInv, EngineInv', Numbered, NEW es \in Seq(EntryRow), NEW m, NEW n,
         NEW now \in Nat, NEW later \in Nat, Issues(es, m, n, now, later)
  PROVE  Numbered'
<1>1. LedgerRows /\ epochs \in Seq(EpochRow) /\ epochs' \in Seq(EpochRow)
  BY DEF EngineInv, RowsTyped, LedgerRows
<1>2. n \in ActiveEpochs /\ n \in DOMAIN epochs /\ ledger' = ledger \o es /\ Metered(n, now, later)
  BY DEF Issues, ActiveEpochs
<1>3. Len(epochs) > 0 /\ n = Len(epochs)
  <2>1. Len(epochs) > 0
    BY <1>1, <1>2
  <2> QED
    BY <1>2, <2>1 DEF Numbered, LastActive
<1>4. Len(epochs') = Len(epochs) /\ \A k \in DOMAIN epochs : epochs'[k].status = epochs[k].status
  BY <1>1, <1>2, MeteredShape
<1>5. DOMAIN epochs' = DOMAIN epochs
  BY <1>1, <1>4
<1>6. \A k \in DOMAIN es :
        /\ es[k].epoch = n /\ es[k].of = 0
        /\ \/ es[k].kind = "regular" /\ ~es[k].pending
           \/ es[k].kind \in {"advance", "execution"} /\ es[k].pending
  BY DEF Issues
<1>7. \A k \in DOMAIN es : Fitting(es[k])
  BY <1>3, <1>6 DEF Fitting
<1> QED
  BY <1>2, <1>4, <1>5, <1>7, AddedFit

\* With at most one active epoch, the entries fit the epochs at every step.
LEMMA NumberedStep ==
  ASSUME EngineInv, EngineInv', OneActive', Numbered, [Next]_vars
  PROVE  Numbered'
<1>1. CASE UNCHANGED <<epochs, supply, ledger, balance>>
  BY <1>1 DEF Numbered, LastActive, ActiveEpochs, EntryFits, Mints
<1>2. ASSUME NEW t \in Txns, NEW now \in Nat, NEW later \in Nat, NEW n \in ActiveEpochs, n \in Nat,
             Ready(t, "mint"), MintWrites(t, n, now, later)
      PROVE  Numbered'
  <2>1. PICK es \in Seq(EntryRow), m \in Members : Issues(es, m, n, now, later)
    BY <1>2, MintIssues
  <2> QED
    BY <2>1, IssueFits
<1>3. ASSUME NEW t \in Txns, NEW later \in Nat \ {0}, NEW n \in ActiveEpochs, n \in Nat,
             ExecutionWrites(t, n, later)
      PROVE  Numbered'
  <2>1. PICK es \in Seq(EntryRow), m \in Members : Issues(es, m, n, 0, later)
    BY <1>3, ExecutionIssues
  <2> QED
    BY <2>1, IssueFits
<1>4. ASSUME NEW t \in Txns, NEW amount \in Nat \ {0}, NEW pending \in Nat,
             ReversalWrites(t, amount, pending), UNCHANGED epochs
      PROVE  Numbered'
  <2>1. PICK e \in EntryRow : e = Reversal(t, amount)
    BY <1>4 DEF ReversalWrites
  <2>2. PICK es \in Seq(EntryRow) : es = <<e>> /\ \A k \in DOMAIN es : es[k] = e
    BY OneEntry
  <2>3. ledger' = ledger \o es /\ txn[t].in.id \in Mints
    BY <1>4, <2>1, <2>2 DEF ReversalWrites, Mints
  <2>4. e.kind = "reversal" /\ e.epoch = 0 /\ e.pending = FALSE /\ e.of = txn[t].in.id
    BY <2>1 DEF Reversal
  <2>5. \A k \in DOMAIN es : Fitting(es[k])
    BY <2>2, <2>3, <2>4 DEF Fitting
  <2> QED
    BY <1>4, <2>3, <2>5, AddedFit
<1>5. ASSUME NEW t \in Txns, mintInitialAllocation(t)
      PROVE  Numbered'
  <2>1. Ready(t, "genesis") /\ ledger' = ledger \o Allotments(t) /\ UNCHANGED epochs
    BY <1>5, GenesisShape
  <2>2. PICK es \in Seq(EntryRow) :
          es = Allotments(t) /\ Len(es) = Len(Allocation) /\ \A k \in 1 .. Len(Allocation) : es[k] = Allotment(t, k)
    BY <2>1, AllotmentsType
  <2>3. DOMAIN es = 1 .. Len(Allocation)
    BY <2>2
  <2>4. \A k : /\ Allotment(t, k).kind = "genesis" /\ Allotment(t, k).epoch = 0
               /\ Allotment(t, k).pending = FALSE /\ Allotment(t, k).of = 0
    BY ONLY TRUE DEF Allotment
  <2>5. \A k \in DOMAIN es : Fitting(es[k])
    BY <2>2, <2>3, <2>4 DEF Fitting
  <2> QED
    BY <2>1, <2>2, <2>5, AddedFit
<1>6. ASSUME NEW t \in Txns, createNextEpoch(t)
      PROVE  Numbered'
  <2>1. LastActive
    BY DEF Numbered
  <2>2. PICK e \in EpochRow :
           /\ DOMAIN epochs = {} /\ Len(epochs) = 0
           /\ Len(epochs') = 1 /\ DOMAIN epochs' = {1} /\ epochs'[1] = e /\ e.status = "active"
           /\ UNCHANGED ledger
    BY <1>6, <2>1, EpochOpened
  <2>3. ActiveEpochs' = {1}
    BY <2>2 DEF ActiveEpochs
  <2>4. LastActive'
    BY <2>2, <2>3 DEF LastActive
  <2>5. Mints' = Mints
    BY <2>2 DEF Mints
  <2>6. \A i \in DOMAIN ledger : EntryFits(i)'
    <3> TAKE i \in DOMAIN ledger
    <3>1. EntryFits(i)
      BY DEF Numbered
    <3>2. ledger[i].kind \in {"genesis", "reversal"} /\ ledger[i].epoch = 0 /\ ~ledger[i].pending
      BY <2>2, <3>1 DEF EntryFits
    <3> QED
      BY <2>2, <2>5, <3>1, <3>2 DEF EntryFits
  <2> QED
    BY <2>2, <2>4, <2>6 DEF Numbered
<1> QED
  BY <1>1, <1>2, <1>3, <1>4, <1>5, <1>6, CloseFits, LedgerSteps DEF Moves

\* The active and the pending mints of a member.
ActiveOf(x) == {i \in Mints : ledger[i].member = x /\ ~ledger[i].pending}
PendingOf(x) == {i \in Mints : ledger[i].member = x /\ ledger[i].pending}
Layers(x) ==
  /\ balance[x].active = StandingIn(ledger, ActiveOf(x))
  /\ balance[x].pending = StandingIn(ledger, PendingOf(x))

LEMMA LayersAre == (\A x \in Members : Layers(x)) => GovernanceLayersAgree
<1> SUFFICES ASSUME \A x \in Members : Layers(x), NEW m \in Members
             PROVE  LET of == {i \in Mints : ledger[i].member = m} IN
                    /\ balance[m].active = StandingOver({i \in of : ~ledger[i].pending})
                    /\ balance[m].pending = StandingOver({i \in of : ledger[i].pending})
  BY DEF GovernanceLayersAgree
<1> DEFINE of == {i \in Mints : ledger[i].member = m}
<1>1. {i \in of : ~ledger[i].pending} = ActiveOf(m) /\ {i \in of : ledger[i].pending} = PendingOf(m)
  BY DEF ActiveOf, PendingOf
<1>2. \A S : StandingOver(S) = StandingIn(ledger, S)
  BY DEF StandingOver, StandingIn, AmountOver, AmountIn, UndoneIn
<1>3. /\ balance[m].active = StandingOver(ActiveOf(m))
      /\ balance[m].pending = StandingOver(PendingOf(m))
  BY <1>2 DEF Layers
<1> QED
  BY <1>1, <1>3, Zenon

\* What entries say of the entry they undo.
LEMMA UndoneEntries ==
  ASSUME Numbered
  PROVE  \A i \in DOMAIN ledger : ledger[i].of \in DOMAIN ledger \cup {0}
BY DEF Numbered, EntryFits, Mints

\* New mints stand with their amounts.
LEMMA LayersGrown ==
  ASSUME EngineInv, EngineInv', Numbered, DOMAIN ledger \subseteq DOMAIN ledger',
         \A i \in DOMAIN ledger : ledger'[i] = ledger[i],
         \A i \in Added : ledger'[i].of = 0 /\ ledger'[i].kind # "reversal",
         NEW x \in Members
  PROVE  /\ StandingIn(ledger', ActiveOf(x)') = StandingIn(ledger, ActiveOf(x)) + AmountIn(ledger', AddedNow(x))
         /\ StandingIn(ledger', PendingOf(x)') = StandingIn(ledger, PendingOf(x)) + AmountIn(ledger', AddedLater(x))
<1>1. PICK rows \in Seq(EntryRow), all \in Seq(EntryRow) : rows = ledger /\ all = ledger'
  BY DEF EngineInv, RowsTyped, LedgerRows
<1>2. /\ DOMAIN rows \subseteq DOMAIN all
      /\ \A i \in DOMAIN rows : /\ all[i].amount = rows[i].amount /\ all[i].of = rows[i].of
                                /\ rows[i].of \in DOMAIN rows \cup {0}
      /\ \A i \in DOMAIN all \ DOMAIN rows : all[i].of = 0
  BY <1>1, UndoneEntries DEF Added
<1>3. /\ ActiveOf(x) \in SUBSET DOMAIN rows /\ AddedNow(x) \in SUBSET (DOMAIN all \ DOMAIN rows)
      /\ PendingOf(x) \in SUBSET DOMAIN rows /\ AddedLater(x) \in SUBSET (DOMAIN all \ DOMAIN rows)
  BY <1>1 DEF ActiveOf, PendingOf, AddedNow, AddedLater, Mints, Added
<1>4. /\ ActiveOf(x)' = ActiveOf(x) \cup AddedNow(x)
      /\ PendingOf(x)' = PendingOf(x) \cup AddedLater(x)
  <2>1. \A i \in DOMAIN ledger : i \in DOMAIN ledger' /\ ledger'[i] = ledger[i]
    OBVIOUS
  <2>2. ActiveOf(x)' = {i \in DOMAIN ledger' : /\ ledger'[i].kind # "reversal" /\ ledger'[i].member = x
                                              /\ ~ledger'[i].pending}
    BY DEF ActiveOf, Mints
  <2>3. PendingOf(x)' = {i \in DOMAIN ledger' : /\ ledger'[i].kind # "reversal" /\ ledger'[i].member = x
                                               /\ ledger'[i].pending}
    BY DEF PendingOf, Mints
  <2> QED
    BY <2>1, <2>2, <2>3 DEF ActiveOf, PendingOf, AddedNow, AddedLater, Mints, Added
<1>5. PICK A \in SUBSET DOMAIN rows, P \in SUBSET DOMAIN rows,
           N \in SUBSET (DOMAIN all \ DOMAIN rows), L \in SUBSET (DOMAIN all \ DOMAIN rows) :
        A = ActiveOf(x) /\ P = PendingOf(x) /\ N = AddedNow(x) /\ L = AddedLater(x)
  BY <1>3
<1>6. /\ StandingIn(all, A \cup N) = StandingIn(rows, A) + AmountIn(all, N)
      /\ StandingIn(all, P \cup L) = StandingIn(rows, P) + AmountIn(all, L)
  BY <1>2, StandingMinted
<1> QED
  BY <1>1, <1>4, <1>5, <1>6

LEMMA LayersIssued ==
  ASSUME EngineInv, EngineInv', Numbered, \A x \in Members : Layers(x),
         NEW es \in Seq(EntryRow), NEW m, NEW n, NEW now \in Nat, NEW later \in Nat,
         Issues(es, m, n, now, later)
  PROVE  \A x \in Members : Layers(x)'
<1>1. /\ m \in Members
      /\ balance'[m].active = balance[m].active + now /\ balance'[m].pending = balance[m].pending + later
      /\ \A k \in Members \ {m} : balance'[k] = balance[k]
  BY DEF Issues
<1>2. /\ \A i \in DOMAIN ledger : ledger'[i] = ledger[i]
      /\ DOMAIN ledger \subseteq DOMAIN ledger'
      /\ \A i \in Added : ledger'[i].member = m /\ ledger'[i].of = 0 /\ ledger'[i].kind # "reversal"
      /\ AmountIn(ledger', AddedNow(m)) = now /\ AmountIn(ledger', AddedLater(m)) = later
  <2>1. \A i \in DOMAIN ledger : ledger'[i] = ledger[i]
    BY <1>1, IssuedEntries
  <2>2. DOMAIN ledger \subseteq DOMAIN ledger'
    BY <1>1, IssuedEntries
  <2>3. \A i \in Added :
             /\ ledger'[i].member = m /\ ledger'[i].epoch = n /\ ledger'[i].of = 0
             /\ \/ ledger'[i].kind = "regular" /\ ~ledger'[i].pending /\ ledger'[i].amount = now
                \/ /\ ledger'[i].kind \in {"advance", "execution"}
                   /\ ledger'[i].pending /\ ledger'[i].amount = later
    BY <1>1, IssuedEntries
  <2>4. Summed(now, later)
    BY <1>1, IssuedEntries
  <2>6. \A i \in Added : ledger'[i].member = m /\ ledger'[i].of = 0 /\ ledger'[i].kind # "reversal"
    BY <2>3
  <2>7. AddedNow(m) = Immediate /\ AddedLater(m) = Deferred
    BY <2>6 DEF AddedNow, AddedLater, Immediate, Deferred
  <2>8. AmountIn(ledger', AddedNow(m)) = now /\ AmountIn(ledger', AddedLater(m)) = later
    BY <2>4, <2>7 DEF Summed
  <2> QED
    BY <2>1, <2>2, <2>6, <2>8
<1>3. ASSUME NEW x \in Members
      PROVE  /\ StandingIn(ledger', ActiveOf(x)') = StandingIn(ledger, ActiveOf(x)) + AmountIn(ledger', AddedNow(x))
             /\ StandingIn(ledger', PendingOf(x)') = StandingIn(ledger, PendingOf(x)) + AmountIn(ledger', AddedLater(x))
  BY <1>2, LayersGrown
<1>4. Layers(m)'
  BY <1>1, <1>2, <1>3 DEF Layers
<1>5. ASSUME NEW x \in Members \ {m}
      PROVE  Layers(x)'
  <2>1. AddedNow(x) = {} /\ AddedLater(x) = {}
    BY <1>2 DEF AddedNow, AddedLater
  <2>2. AmountIn(ledger', AddedNow(x)) = 0 /\ AmountIn(ledger', AddedLater(x)) = 0
    BY <2>1, AmountOfNone
  <2>3. PICK b \in BalanceRow : b = balance[x] /\ b.active \in Nat /\ b.pending \in Nat
    BY DEF EngineInv, RowsTyped, LedgerRows, BalanceRow
  <2>4. StandingIn(ledger', ActiveOf(x)') = b.active + 0 /\ StandingIn(ledger', PendingOf(x)') = b.pending + 0
    BY <1>3, <2>2, <2>3 DEF Layers
  <2> QED
    BY <1>1, <2>3, <2>4 DEF Layers
<1> QED
  BY <1>4, <1>5

\* A reversal takes its amount off the layer of the mint it undoes.
LEMMA LayersReversed ==
  ASSUME EngineInv, EngineInv', Numbered, \A x \in Members : Layers(x),
         NEW t \in Txns, NEW amount \in Nat \ {0}, NEW pending \in Nat, pending <= amount,
         ReversalWrites(t, amount, pending)
  PROVE  \A x \in Members : Layers(x)'
<1>1. PICK rows \in Seq(EntryRow), all \in Seq(EntryRow) : rows = ledger /\ all = ledger'
  BY DEF EngineInv, RowsTyped, LedgerRows
<1>2. PICK i \in DOMAIN ledger : i = txn[t].in.id
  BY DEF ReversalWrites
<1>3. PICK m \in Members : m = MemberOf(txn[t])
  BY DEF ReversalWrites
<1>4. /\ m = ledger[i].member /\ ledger[i].kind # "reversal"
      /\ pending = IF ledger[i].pending THEN amount ELSE 0
      /\ amount - pending <= balance[m].active /\ pending <= balance[m].pending
      /\ amount <= balance[m].total
      /\ Credit(m, -(amount - pending), -pending, 0)
  BY <1>2, <1>3 DEF ReversalWrites
<1>5. PICK e \in EntryRow : e = Reversal(t, amount) /\ ledger' = ledger \o <<e>>
  BY DEF ReversalWrites
<1>6. e.kind = "reversal" /\ e.of = i /\ e.amount = amount
  BY <1>2, <1>5 DEF Reversal
<1>7. PICK n \in Nat : n = Len(ledger) + 1
  BY DEF EngineInv, RowsTyped, LedgerRows
<1>8. /\ DOMAIN rows \subseteq DOMAIN all /\ DOMAIN all \ DOMAIN rows = {n}
      /\ \A k \in DOMAIN rows : all[k] = rows[k]
      /\ all[n] = e
  <2>1. PICK es \in Seq(EntryRow) : es = <<e>> /\ Len(es) = 1 /\ DOMAIN es = {1} /\ \A k \in DOMAIN es : es[k] = e
    BY OneEntry
  <2>2. RowsTyped /\ ledger' = ledger \o es
    BY <1>5, <2>1 DEF EngineInv
  <2>3. /\ Len(ledger) \in Nat /\ DOMAIN ledger = 1 .. Len(ledger)
        /\ DOMAIN ledger' = 1 .. Len(ledger) + Len(es)
        /\ \A k \in DOMAIN ledger : ledger'[k] = ledger[k]
        /\ \A k \in DOMAIN es : ledger'[Len(ledger) + k] = es[k]
    BY <2>2, Grown
  <2>4. ledger'[n] = e
    BY <1>7, <2>1, <2>3
  <2>5. DOMAIN ledger' = 1 .. n /\ DOMAIN ledger = 1 .. n - 1
    BY <1>7, <2>1, <2>3
  <2>6. 1 .. n - 1 \subseteq 1 .. n /\ (1 .. n) \ (1 .. n - 1) = {n}
    BY <1>7, <2>3
  <2>7. DOMAIN rows = 1 .. n - 1 /\ DOMAIN all = 1 .. n
    BY <1>1, <2>5
  <2> QED
    BY <1>1, <2>3, <2>4, <2>6, <2>7
<1>9. \A x \in Members : ActiveOf(x)' = ActiveOf(x) /\ PendingOf(x)' = PendingOf(x)
  <2> TAKE x \in Members
  <2>1. \A k \in DOMAIN all : k = n \/ k \in DOMAIN rows
    BY <1>8
  <2>2. \A k \in DOMAIN all : all[k].kind # "reversal" <=> k \in DOMAIN rows /\ rows[k].kind # "reversal"
    BY <1>6, <1>8, <2>1
  <2> QED
    BY <1>1, <1>8, <2>2 DEF ActiveOf, PendingOf, Mints
<1>10. \A x \in Members : ActiveOf(x) \in SUBSET DOMAIN rows /\ PendingOf(x) \in SUBSET DOMAIN rows
  BY <1>1 DEF ActiveOf, PendingOf, Mints
<1>11. \A S \in SUBSET DOMAIN rows : StandingIn(all, S) = StandingIn(rows, S) - (IF i \in S THEN amount ELSE 0)
  <2> TAKE S \in SUBSET DOMAIN rows
  <2>1. \A k \in DOMAIN rows : all[k].amount = rows[k].amount /\ all[k].of = rows[k].of
    BY <1>8
  <2>2. StandingIn(all, S) = StandingIn(rows, S) - (IF all[n].of \in S THEN all[n].amount ELSE 0)
    BY <1>8, <2>1, StandingReversed
  <2> QED
    BY <1>6, <1>8, <2>2
<1>12. i \in Mints
  BY <1>4 DEF Mints
<1>13. PICK b \in BalanceRow : b = balance[m] /\ b.active \in Nat /\ b.pending \in Nat /\ b.total \in Nat /\ b.earned \in Nat
  BY DEF EngineInv, RowsTyped, LedgerRows, BalanceRow
<1>14. /\ balance'[m].active = b.active - (amount - pending)
       /\ balance'[m].pending = b.pending - pending
       /\ \A k \in Members \ {m} : balance'[k] = balance[k]
  <2>1. PICK a \in Int, p \in Int, z \in Int : a = -(amount - pending) /\ p = -pending /\ z = 0
    OBVIOUS
  <2>2. Credit(m, a, p, z) /\ LedgerRows
    BY <1>4, <2>1 DEF EngineInv, RowsTyped
  <2>3. b.total + a + p >= 0 /\ b.active + a >= 0 /\ b.pending + p >= 0 /\ b.earned + z >= 0
    <3>1. PICK bt \in Nat, ba \in Nat, bp \in Nat, be \in Nat :
            bt = b.total /\ ba = b.active /\ bp = b.pending /\ be = b.earned
      BY <1>13
    <3>2. amount - pending <= ba /\ pending <= bp /\ amount <= bt
      BY <1>4, <1>13, <3>1
    <3>3. bt + a + p >= 0 /\ ba + a >= 0 /\ bp + p >= 0 /\ be + z >= 0
      BY ONLY <2>1, <3>2, pending \in Nat, amount \in Nat \ {0}
    <3> QED
      BY ONLY <3>1, <3>3
  <2>4. /\ balance[m].total + a + p >= 0 /\ balance[m].active + a >= 0
        /\ balance[m].pending + p >= 0 /\ balance[m].earned + z >= 0
    BY <1>13, <2>3
  <2>5. /\ balance'[m].active = balance[m].active + a /\ balance'[m].pending = balance[m].pending + p
        /\ \A k \in Members \ {m} : balance'[k] = balance[k]
    BY <2>2, <2>4, Credited
  <2>6. b.active + a = b.active - (amount - pending) /\ b.pending + p = b.pending - pending
    BY <1>13, <2>1
  <2> QED
    BY <1>13, <2>5, <2>6
<1>15. Layers(m)'
  <2>1. /\ i \in ActiveOf(m) <=> ~ledger[i].pending
        /\ i \in PendingOf(m) <=> ledger[i].pending
    BY <1>4, <1>12 DEF ActiveOf, PendingOf
  <2>2. /\ b.active = StandingIn(rows, ActiveOf(m)) /\ b.pending = StandingIn(rows, PendingOf(m))
    BY <1>1, <1>13 DEF Layers
  <2>3. /\ StandingIn(all, ActiveOf(m)) = b.active - (IF ledger[i].pending THEN 0 ELSE amount)
        /\ StandingIn(all, PendingOf(m)) = b.pending - (IF ledger[i].pending THEN amount ELSE 0)
    BY <1>10, <1>11, <2>1, <2>2
  <2>4. /\ balance'[m].active = StandingIn(all, ActiveOf(m))
        /\ balance'[m].pending = StandingIn(all, PendingOf(m))
    BY <1>4, <1>13, <1>14, <2>3
  <2> QED
    BY <1>1, <1>9, <2>4 DEF Layers
<1>16. ASSUME NEW x \in Members \ {m}
       PROVE  Layers(x)'
  <2>1. i \notin ActiveOf(x) /\ i \notin PendingOf(x)
    BY <1>4 DEF ActiveOf, PendingOf
  <2>2. /\ StandingIn(all, ActiveOf(x)) = StandingIn(rows, ActiveOf(x)) - 0
        /\ StandingIn(all, PendingOf(x)) = StandingIn(rows, PendingOf(x)) - 0
    BY <1>10, <1>11, <2>1
  <2>3. PICK c \in BalanceRow : c = balance[x] /\ c.active \in Nat /\ c.pending \in Nat
    BY DEF EngineInv, RowsTyped, LedgerRows, BalanceRow
  <2>4. StandingIn(all, ActiveOf(x)) = c.active /\ StandingIn(all, PendingOf(x)) = c.pending
    BY <1>1, <2>2, <2>3 DEF Layers
  <2> QED
    BY <1>1, <1>9, <1>14, <2>3, <2>4 DEF Layers
<1> QED
  BY <1>15, <1>16

\* The initial allocation is active from the start.
LEMMA LayersAllotted ==
  ASSUME EngineInv, EngineInv', Numbered, \A x \in Members : Layers(x),
         NEW t \in Txns, mintInitialAllocation(t)
  PROVE  \A x \in Members : Layers(x)'
<1>1. Ready(t, "genesis") /\ ledger' = ledger \o Allotments(t)
  BY GenesisShape
<1>2. PICK es \in Seq(EntryRow) :
        /\ es = Allotments(t) /\ Len(es) = Len(Allocation)
        /\ \A k \in 1 .. Len(Allocation) : es[k] = Allotment(t, k)
  BY <1>1, AllotmentsType
<1>3. DOMAIN es = 1 .. Len(Allocation) /\ DOMAIN Allocation = 1 .. Len(Allocation)
  BY <1>2, AllocationAssumption
<1>4. \A k : /\ Allotment(t, k).kind = "genesis" /\ Allotment(t, k).of = 0
             /\ Allotment(t, k).pending = FALSE
             /\ Allotment(t, k).member = Allocation[k].member /\ Allotment(t, k).amount = Allocation[k].amount
  BY ONLY TRUE DEF Allotment
<1>5. RowsTyped
  BY DEF EngineInv
<1>6. /\ Len(ledger) \in Nat /\ DOMAIN ledger = 1 .. Len(ledger) /\ DOMAIN ledger' = 1 .. Len(ledger) + Len(es)
      /\ \A i \in DOMAIN ledger : ledger'[i] = ledger[i]
      /\ \A k \in DOMAIN es : ledger'[Len(ledger) + k] = es[k]
      /\ \A i \in DOMAIN ledger' \ DOMAIN ledger : \E k \in DOMAIN es : i = Len(ledger) + k /\ ledger'[i] = es[k]
  BY <1>1, <1>2, <1>5, Grown
<1>7. DOMAIN ledger \subseteq DOMAIN ledger' /\ \A k \in DOMAIN es : Len(ledger) + k \in Added
  BY <1>1, <1>2, <1>5, Grown DEF Added
<1>8. \A i \in Added : \E k \in DOMAIN Allocation :
        /\ i = Len(ledger) + k /\ ledger'[i].member = Allocation[k].member
        /\ ledger'[i].kind = "genesis" /\ ledger'[i].of = 0 /\ ledger'[i].pending = FALSE
  <2> TAKE i \in Added
  <2>1. i \in DOMAIN ledger' \ DOMAIN ledger
    BY DEF Added
  <2>2. PICK k \in DOMAIN es : i = Len(ledger) + k /\ ledger'[i] = es[k]
    BY <1>6, <2>1
  <2>3. k \in DOMAIN Allocation /\ ledger'[i] = Allotment(t, k)
    BY <1>2, <1>3, <2>2
  <2> QED
    BY <1>4, <2>2, <2>3
<1>9. ASSUME NEW x \in Members
      PROVE  /\ StandingIn(ledger', ActiveOf(x)') = StandingIn(ledger, ActiveOf(x)) + AmountIn(ledger', AddedNow(x))
             /\ StandingIn(ledger', PendingOf(x)') = StandingIn(ledger, PendingOf(x)) + AmountIn(ledger', AddedLater(x))
  <2>1. \A i \in Added : ledger'[i].of = 0 /\ ledger'[i].kind # "reversal"
    BY <1>8
  <2> QED
    BY <1>6, <1>7, <2>1, LayersGrown
<1>10. \A x \in Members : AmountIn(ledger', AddedLater(x)) = 0
  <2>1. \A x \in Members : AddedLater(x) = {}
    BY <1>8 DEF AddedLater
  <2> QED
    BY <2>1, AmountOfNone
<1>11. PICK all \in Seq(EntryRow) : all = ledger'
  BY DEF EngineInv, RowsTyped, LedgerRows
<1>12. ASSUME NEW x \in Members, NEW k \in DOMAIN Allocation, Allocation[k].member = x
       PROVE  Layers(x)'
  <2>1. PICK i \in Added : i = Len(ledger) + k /\ ledger'[i] = es[k]
    BY <1>3, <1>6, <1>7
  <2>2. ledger'[i].kind = "genesis" /\ ledger'[i].member = x /\ ledger'[i].pending = FALSE
        /\ ledger'[i].amount = Allocation[k].amount
    BY <1>2, <1>3, <1>4, <1>12, <2>1
  <2>3. ASSUME NEW h \in AddedNow(x)
        PROVE  h = i
    <3>1. PICK j \in DOMAIN Allocation : h = Len(ledger) + j /\ Allocation[j].member = x
      BY <1>8 DEF AddedNow
    <3>2. j = k
      BY <1>12, <3>1, AllocationAssumption
    <3> QED
      BY <2>1, <3>1, <3>2
  <2>4. AddedNow(x) = {i}
    BY <2>2, <2>3 DEF AddedNow
  <2>5. i \in DOMAIN all
    BY <1>11 DEF Added
  <2>6. AmountIn(ledger', AddedNow(x)) = Allocation[k].amount
    BY <1>11, <2>2, <2>4, <2>5, AmountOfOne
  <2>7. PICK a \in Nat : a = Allocation[k].amount
    BY AllocatedTo
  <2>8. PICK b \in BalanceRow : b = balance[x] /\ b.active \in Nat /\ b.pending \in Nat
    BY DEF EngineInv, RowsTyped, LedgerRows, BalanceRow
  <2>9. balance'[x] = [total |-> b.total + a, active |-> b.active + a, pending |-> b.pending, earned |-> b.earned]
    BY <1>12, <2>7, <2>8, GenesisBalances
  <2>10. /\ StandingIn(ledger', ActiveOf(x)') = b.active + a
         /\ StandingIn(ledger', PendingOf(x)') = b.pending + 0
    BY <1>9, <1>10, <2>6, <2>7, <2>8 DEF Layers
  <2> QED
    BY <2>8, <2>9, <2>10 DEF Layers
<1>13. ASSUME NEW x \in Members, \A k \in DOMAIN Allocation : Allocation[k].member # x
       PROVE  Layers(x)'
  <2>1. balance'[x] = balance[x]
    BY <1>13, GenesisBalances
  <2>2. AddedNow(x) = {}
    BY <1>8, <1>13 DEF AddedNow
  <2>3. AmountIn(ledger', AddedNow(x)) = 0
    BY <2>2, AmountOfNone
  <2>4. PICK b \in BalanceRow : b = balance[x] /\ b.active \in Nat /\ b.pending \in Nat
    BY DEF EngineInv, RowsTyped, LedgerRows, BalanceRow
  <2>5. /\ StandingIn(ledger', ActiveOf(x)') = b.active + 0
        /\ StandingIn(ledger', PendingOf(x)') = b.pending + 0
    BY <1>9, <1>10, <2>3, <2>4 DEF Layers
  <2> QED
    BY <2>1, <2>4, <2>5 DEF Layers
<1> QED
  BY <1>12, <1>13

\* An epoch switch turns the pending layer into the active one.
LEMMA LayersSwitched ==
  ASSUME EngineInv, EngineInv', Numbered, \A x \in Members : Layers(x),
         NEW t \in Txns, closeEpoch(t)
  PROVE  \A x \in Members : Layers(x)'
<1>1. PICK rows \in Seq(EntryRow), all \in Seq(EntryRow) : rows = ledger /\ all = ledger'
  BY DEF EngineInv, RowsTyped, LedgerRows
<1>2. /\ DOMAIN all = DOMAIN rows
      /\ \A i \in DOMAIN rows :
           /\ all[i].amount = rows[i].amount /\ all[i].of = rows[i].of
           /\ all[i].kind = rows[i].kind /\ all[i].member = rows[i].member
  BY <1>1, CloseLedger DEF EntryFields
<1>3. \A i \in DOMAIN rows : ~all[i].pending
  BY <1>1, CloseFits
<1> TAKE x \in Members
<1>4. PICK b \in BalanceRow : b = balance[x] /\ b.active \in Nat /\ b.pending \in Nat
  BY DEF EngineInv, RowsTyped, LedgerRows, BalanceRow
<1>5. balance'[x].active = b.active + b.pending /\ balance'[x].pending = 0
  <2>1. balance'[x] = [balance[x] EXCEPT !.active = @ + balance[x].pending, !.pending = 0, !.earned = 0]
    BY CloseShape
  <2>2. balance'[x] = [b EXCEPT !.active = @ + b.pending, !.pending = 0, !.earned = 0]
    BY <1>4, <2>1
  <2>3. balance'[x] = [total |-> b.total, active |-> b.active + b.pending, pending |-> 0, earned |-> 0]
    BY <2>2, BalanceMatured
  <2> QED
    BY <2>3
<1>6. PICK A \in SUBSET DOMAIN rows, P \in SUBSET DOMAIN rows : A = ActiveOf(x) /\ P = PendingOf(x) /\ A \cap P = {}
  <2>1. \A i \in ActiveOf(x) : i \in DOMAIN rows /\ ~rows[i].pending
    BY <1>1 DEF ActiveOf, Mints
  <2>2. \A i \in PendingOf(x) : i \in DOMAIN rows /\ rows[i].pending
    BY <1>1 DEF PendingOf, Mints
  <2>3. ActiveOf(x) \cap PendingOf(x) = {}
    BY <2>1, <2>2
  <2> QED
    BY <2>1, <2>2, <2>3
<1>7. ActiveOf(x)' = A \cup P /\ PendingOf(x)' = {}
  BY <1>1, <1>2, <1>3, <1>6 DEF ActiveOf, PendingOf, Mints
<1>8. StandingIn(all, A \cup P) = StandingIn(rows, A) + StandingIn(rows, P)
  <2>1. StandingIn(rows, A \cup P) = StandingIn(rows, A) + StandingIn(rows, P)
    BY <1>6, StandingUnion
  <2>2. PICK U \in SUBSET DOMAIN rows : U = A \cup P
    OBVIOUS
  <2>3. StandingIn(all, U) = StandingIn(rows, U)
    BY <1>2, StandingKept
  <2> QED
    BY <2>1, <2>2, <2>3
<1>9. StandingIn(all, {}) = 0
  <2>1. UndoneIn(all, {}) = {}
    BY DEF UndoneIn
  <2>2. PICK z \in Int : z = AmountIn(all, {}) /\ z = 0
    BY AmountOfNone
  <2>3. StandingIn(all, {}) = AmountIn(all, {}) - AmountIn(all, UndoneIn(all, {}))
    BY DEF StandingIn
  <2>4. StandingIn(all, {}) = z - z
    BY <2>1, <2>2, <2>3
  <2> QED
    BY <2>2, <2>4
<1>10. b.active = StandingIn(rows, A) /\ b.pending = StandingIn(rows, P)
  BY <1>1, <1>4, <1>6 DEF Layers
<1> QED
  BY <1>1, <1>5, <1>7, <1>8, <1>9, <1>10 DEF Layers

LEMMA LayersStep ==
  ASSUME EngineInv, EngineInv', OneActive', Numbered, \A x \in Members : Layers(x), [Next]_vars
  PROVE  \A x \in Members : Layers(x)'
<1>1. CASE UNCHANGED <<epochs, supply, ledger, balance>>
  BY <1>1 DEF Layers, ActiveOf, PendingOf, Mints
<1>2. ASSUME NEW t \in Txns, NEW now \in Nat, NEW later \in Nat, NEW n \in ActiveEpochs, n \in Nat,
             Ready(t, "mint"), MintWrites(t, n, now, later)
      PROVE  \A x \in Members : Layers(x)'
  <2>1. PICK es \in Seq(EntryRow), m \in Members : Issues(es, m, n, now, later)
    BY <1>2, MintIssues
  <2> QED
    BY <2>1, LayersIssued
<1>3. ASSUME NEW t \in Txns, NEW later \in Nat \ {0}, NEW n \in ActiveEpochs, n \in Nat,
             ExecutionWrites(t, n, later)
      PROVE  \A x \in Members : Layers(x)'
  <2>1. PICK es \in Seq(EntryRow), m \in Members : Issues(es, m, n, 0, later)
    BY <1>3, ExecutionIssues
  <2> QED
    BY <2>1, LayersIssued
<1>4. ASSUME NEW t \in Txns, createNextEpoch(t)
      PROVE  \A x \in Members : Layers(x)'
  <2>1. UNCHANGED <<ledger, balance>>
    BY <1>4 DEF createNextEpoch
  <2> QED
    BY <2>1 DEF Layers, ActiveOf, PendingOf, Mints
<1> QED
  BY <1>1, <1>2, <1>3, <1>4, LayersReversed, LayersAllotted, LayersSwitched, LedgerSteps DEF Moves

LEMMA LayersStart == DatabaseInit => Numbered /\ \A x \in Members : Layers(x)
<1> SUFFICES ASSUME DatabaseInit
             PROVE  Numbered /\ \A x \in Members : Layers(x)
  OBVIOUS
<1>1. epochs = << >> /\ ledger = << >> /\ balance = [m \in Members |-> NoBalance]
  BY DEF DatabaseInit
<1>2. Numbered
  BY <1>1 DEF Numbered, LastActive
<1>3. ASSUME NEW x \in Members
      PROVE  Layers(x)
  <2>1. ActiveOf(x) = {} /\ PendingOf(x) = {} /\ UndoneIn(ledger, {}) = {}
    BY <1>1 DEF ActiveOf, PendingOf, Mints, UndoneIn
  <2>2. StandingIn(ledger, {}) = 0
    BY <2>1, AmountOfNone DEF StandingIn
  <2>3. balance[x].active = 0 /\ balance[x].pending = 0
    BY <1>1 DEF NoBalance
  <2> QED
    BY <2>1, <2>2, <2>3 DEF Layers
<1> QED
  BY <1>2, <1>3

\* A balance's governance columns are the standing amounts of the active and the pending
\* mints, whatever mints, executions, reversals and switches interleave, as long as no
\* two epochs are active.
THEOREM LayersAgree == Spec /\ []OneActive => []GovernanceLayersAgree
<1>1. DatabaseInit => Numbered /\ \A x \in Members : Layers(x)
  BY LayersStart
<1>2. /\ EngineInv /\ EngineInv' /\ OneActive /\ OneActive'
      /\ Numbered /\ (\A x \in Members : Layers(x)) /\ [Next]_vars
      => Numbered' /\ (\A x \in Members : Layers(x))'
  BY NumberedStep, LayersStep
<1>3. (\A x \in Members : Layers(x)) => GovernanceLayersAgree
  BY LayersAre
<1> QED
  BY <1>1, <1>2, <1>3, EngineInvHolds, PTL DEF Spec


-----------------------------------------------------------------------------
(***************************************************************************)
(* The moments of the ledger that snapshots and openings are of.           *)
(***************************************************************************)

\* The ledger grows, and what it says of an entry stays, but for its maturing.
Stays ==
  /\ Len(ledger) <= Len(ledger') /\ DOMAIN ledger \subseteq DOMAIN ledger'
  /\ \A i \in DOMAIN ledger :
       /\ ledger'[i].kind = ledger[i].kind /\ ledger'[i].member = ledger[i].member
       /\ ledger'[i].amount = ledger[i].amount /\ ledger'[i].epoch = ledger[i].epoch
       /\ ledger'[i].of = ledger[i].of /\ ledger'[i].supplyAfter = ledger[i].supplyAfter

LEMMA Appended ==
  ASSUME RowsTyped, NEW es \in Seq(EntryRow), ledger' = ledger \o es
  PROVE  Stays
<1>1. /\ Len(ledger) \in Nat /\ Len(es) \in Nat /\ Len(ledger') = Len(ledger) + Len(es)
      /\ DOMAIN ledger = 1 .. Len(ledger) /\ DOMAIN ledger' = 1 .. Len(ledger) + Len(es)
  BY Grown
<1>2. \A i \in DOMAIN ledger : ledger'[i] = ledger[i]
  BY Grown
<1>3. \A a, b \in Nat : a <= a + b /\ 1 .. a \subseteq 1 .. a + b
  OBVIOUS
<1>4. Len(ledger) <= Len(ledger') /\ DOMAIN ledger \subseteq DOMAIN ledger'
  BY <1>1, <1>3
<1> QED
  BY <1>2, <1>4 DEF Stays

LEMMA LedgerStays ==
  ASSUME EngineInv, [Next]_vars
  PROVE  Stays
<1>1. RowsTyped /\ Len(ledger) \in Nat
  BY DEF EngineInv, RowsTyped, LedgerRows
<1>2. ASSUME UNCHANGED ledger
      PROVE  Stays
  BY <1>1, <1>2 DEF Stays
<1>3. ASSUME NEW t \in Txns, Moves(t)
      PROVE  Stays
  <2>1. ASSUME NEW e \in EntryRow, ledger' = ledger \o <<e>>
        PROVE  Stays
    <3>1. PICK es \in Seq(EntryRow) : es = <<e>>
      BY OneEntry
    <3> QED
      BY <1>1, <2>1, <3>1, Appended
  <2>2. ASSUME NEW now \in Nat, NEW later \in Nat, NEW n \in Nat, MintWrites(t, n, now, later)
        PROVE  Stays
    <3>1. Legs(t, now, later) \in Seq(EntryRow) /\ ledger' = ledger \o Legs(t, now, later)
      BY ONLY <2>2 DEF MintWrites
    <3> QED
      BY <1>1, <3>1, Appended
  <2>3. ASSUME NEW amount \in Nat \ {0}, NEW n \in Nat, ExecutionWrites(t, n, amount)
        PROVE  Stays
    BY <2>1, <2>3 DEF ExecutionWrites
  <2>4. ASSUME NEW amount \in Nat \ {0}, NEW pending \in Nat, ReversalWrites(t, amount, pending)
        PROVE  Stays
    BY <2>1, <2>4 DEF ReversalWrites
  <2>5. ASSUME mintInitialAllocation(t)
        PROVE  Stays
    <3>1. Ready(t, "genesis") /\ ledger' = ledger \o Allotments(t)
      BY <2>5, GenesisShape
    <3>2. Allotments(t) \in Seq(EntryRow)
      BY <3>1, AllotmentsType
    <3> QED
      BY <1>1, <3>1, <3>2, Appended
  <2> QED
    BY <1>3, <2>2, <2>3, <2>4, <2>5 DEF Moves
<1>4. ASSUME NEW t \in Txns, closeEpoch(t)
      PROVE  Stays
  <2>1. /\ DOMAIN ledger' = DOMAIN ledger /\ Len(ledger') = Len(ledger)
        /\ \A i \in DOMAIN ledger : \A f \in EntryFields \ {"pending"} : ledger'[i][f] = ledger[i][f]
    BY <1>4, CloseLedger
  <2>2. {"kind", "member", "amount", "epoch", "of", "supplyAfter"} \subseteq EntryFields \ {"pending"}
    BY DEF EntryFields
  <2>3. \A i \in DOMAIN ledger :
          /\ ledger'[i].kind = ledger[i].kind /\ ledger'[i].member = ledger[i].member
          /\ ledger'[i].amount = ledger[i].amount /\ ledger'[i].epoch = ledger[i].epoch
          /\ ledger'[i].of = ledger[i].of /\ ledger'[i].supplyAfter = ledger[i].supplyAfter
    BY ONLY <2>1, <2>2
  <2> QED
    BY <1>1, <2>1, <2>3 DEF Stays
<1>5. ASSUME NEW t \in Txns, createNextEpoch(t)
      PROVE  UNCHANGED ledger
  BY <1>5 DEF createNextEpoch
<1> QED
  BY <1>2, <1>3, <1>4, <1>5, LedgerSteps

\* What the first k entries say of a member's weight in epoch n.
WeighedAt(k, n, m) ==
  {i \in Mints : /\ i <= k /\ ledger[i].member = m
                 /\ \/ ledger[i].kind \in {"regular", "genesis"}
                    \/ ledger[i].epoch < n}
UndoneBy(k, S) == {j \in 1 .. k : ledger[j].of \in S}
WeightAt(k, n, m) ==
  AmountIn(ledger, WeighedAt(k, n, m)) - AmountIn(ledger, UndoneBy(k, WeighedAt(k, n, m)))
SnapshotAt(p, k) ==
  /\ proposal[p].supply = SupplyAt(k)
  /\ \A m \in Members : proposal[p].weight[m] = WeightAt(k, proposal[p].epoch, m)
Snapshots == \A p \in Proposals : proposal[p].epoch # 0 => \E k \in 0 .. Len(ledger) : SnapshotAt(p, k)

LEMMA SnapshotsAre == Snapshots => SnapshotIsOfOneMoment
BY DEF Snapshots, SnapshotAt, WeightAt, WeighedAt, UndoneBy, SnapshotIsOfOneMoment, AmountOver, AmountIn

\* It says the same after every step.
LEMMA MomentStays ==
  ASSUME EngineInv, EngineInv', Stays, NEW k \in 0 .. Len(ledger)
  PROVE  /\ SupplyAt(k)' = SupplyAt(k)
         /\ \A n, m : WeightAt(k, n, m)' = WeightAt(k, n, m)
<1>1. PICK rows \in Seq(EntryRow), all \in Seq(EntryRow) : rows = ledger /\ all = ledger'
  BY DEF EngineInv, RowsTyped, LedgerRows
<1>2. /\ k \in Nat /\ DOMAIN rows = 1 .. Len(rows) /\ DOMAIN all = 1 .. Len(all)
      /\ Len(rows) \in Nat /\ Len(all) \in Nat
  BY <1>1
<1>3. k <= Len(rows) /\ k <= Len(all)
  BY <1>1, <1>2 DEF Stays
<1>4. 1 .. k \subseteq DOMAIN rows /\ 1 .. k \subseteq DOMAIN all
  BY <1>2, <1>3
<1>5. \A i \in DOMAIN rows :
        /\ all[i].kind = rows[i].kind /\ all[i].member = rows[i].member
        /\ all[i].amount = rows[i].amount /\ all[i].epoch = rows[i].epoch
        /\ all[i].of = rows[i].of /\ all[i].supplyAfter = rows[i].supplyAfter
  BY <1>1 DEF Stays
<1>6. SupplyAt(k)' = SupplyAt(k)
  <2>1. k # 0 => k \in 1 .. k
    BY <1>2
  <2> QED
    BY <1>1, <1>4, <1>5, <2>1 DEF SupplyAt
<1>7. ASSUME NEW n, NEW m
      PROVE  WeightAt(k, n, m)' = WeightAt(k, n, m)
  <2>1. /\ \A i \in DOMAIN rows : i <= k => i \in 1 .. k
        /\ \A i \in DOMAIN all : i <= k => i \in 1 .. k
        /\ \A i \in 1 .. k : i <= k
    BY <1>2
  <2>2. WeighedAt(k, n, m) =
          {i \in 1 .. k : /\ rows[i].kind # "reversal" /\ rows[i].member = m
                          /\ \/ rows[i].kind \in {"regular", "genesis"}
                             \/ rows[i].epoch < n}
    BY <1>1, <1>4, <2>1 DEF WeighedAt, Mints
  <2>3. WeighedAt(k, n, m)' =
          {i \in 1 .. k : /\ all[i].kind # "reversal" /\ all[i].member = m
                          /\ \/ all[i].kind \in {"regular", "genesis"}
                             \/ all[i].epoch < n}
    BY <1>1, <1>4, <2>1 DEF WeighedAt, Mints
  <2>4. WeighedAt(k, n, m)' = WeighedAt(k, n, m)
    BY <1>4, <1>5, <2>2, <2>3
  <2>5. PICK W \in SUBSET (1 .. k) : W = WeighedAt(k, n, m)
    BY <2>2
  <2>6. PICK U \in SUBSET (1 .. k) : U = {j \in 1 .. k : rows[j].of \in W}
    OBVIOUS
  <2>7. UndoneBy(k, W) = U
    BY <1>1, <2>6 DEF UndoneBy
  <2>8. UndoneBy(k, W)' = U
    BY <1>1, <1>4, <1>5, <2>6 DEF UndoneBy
  <2>9. AmountIn(all, W) = AmountIn(rows, W) /\ AmountIn(all, U) = AmountIn(rows, U)
    <3>1. \A S \in SUBSET (1 .. k) :
            /\ S \in SUBSET DOMAIN rows /\ S \subseteq DOMAIN all
            /\ \A i \in S : all[i].amount = rows[i].amount
      BY <1>4, <1>5
    <3> QED
      BY <3>1, AmountKept
  <2>10. WeightAt(k, n, m) = AmountIn(rows, W) - AmountIn(rows, U)
    BY <1>1, <2>5, <2>7 DEF WeightAt
  <2>11. WeightAt(k, n, m)' = AmountIn(all, W) - AmountIn(all, U)
    BY <1>1, <2>4, <2>5, <2>8 DEF WeightAt
  <2> QED
    BY <2>9, <2>10, <2>11
<1> QED
  BY <1>6, <1>7

\* The weights of now are the balances' active layer.
LEMMA WeightNow ==
  ASSUME EngineInv, Numbered, \A x \in Members : Layers(x), NEW n \in ActiveEpochs
  PROVE  \A m \in Members : balance[m].active = WeightAt(Len(ledger), n, m)
<1> TAKE m \in Members
<1>1. LedgerRows
  BY DEF EngineInv, RowsTyped
<1>2. DOMAIN ledger = 1 .. Len(ledger) /\ Len(ledger) \in Nat /\ DOMAIN epochs = 1 .. Len(epochs) /\ Len(epochs) \in Nat
  BY <1>1 DEF LedgerRows
<1>3. n = Len(epochs) /\ n \in DOMAIN epochs
  <2>1. n \in DOMAIN epochs
    BY DEF ActiveEpochs
  <2>2. Len(epochs) > 0
    BY <1>2, <2>1
  <2> QED
    BY <2>1, <2>2 DEF Numbered, LastActive
<1>4. ASSUME NEW i \in Mints
      PROVE  (~ledger[i].pending) <=> (ledger[i].kind \in {"regular", "genesis"} \/ ledger[i].epoch < n)
  <2>1. i \in DOMAIN ledger /\ ledger[i].kind # "reversal"
    BY DEF Mints
  <2>2. EntryFits(i)
    BY <2>1 DEF Numbered
  <2>3. PICK e \in EntryRow : e = ledger[i]
    BY <1>1, <2>1 DEF LedgerRows
  <2>4. e.kind \in {"regular", "advance", "execution", "genesis"}
    BY <2>1, <2>3 DEF EntryRow
  <2>5. e.pending <=> e.kind \in {"advance", "execution"} /\ e.epoch = n
    BY <1>3, <2>2, <2>3 DEF EntryFits
  <2>6. e.kind \in {"advance", "execution"} => e.epoch \in 1 .. n
    BY <1>2, <1>3, <2>2, <2>3 DEF EntryFits
  <2>7. e.kind \in {"advance", "execution"} => (e.epoch # n <=> e.epoch < n)
    BY <1>2, <1>3, <2>6
  <2> QED
    BY <2>3, <2>4, <2>5, <2>7
<1>5. WeighedAt(Len(ledger), n, m) = ActiveOf(m)
  <2>1. \A i \in Mints : i <= Len(ledger)
    BY <1>2 DEF Mints
  <2> QED
    BY <1>4, <2>1 DEF WeighedAt, ActiveOf
<1>6. UndoneBy(Len(ledger), ActiveOf(m)) = UndoneIn(ledger, ActiveOf(m))
  BY <1>2 DEF UndoneBy, UndoneIn
<1> QED
  BY <1>5, <1>6 DEF Layers, WeightAt, StandingIn

\* A step keeps the snapshot of a proposal, or takes it.
KeepsSnapshot(p) ==
  /\ proposal'[p].epoch = proposal[p].epoch /\ proposal'[p].supply = proposal[p].supply
  /\ proposal'[p].weight = proposal[p].weight
TakesSnapshot(p) ==
  /\ \E n \in ActiveEpochs : proposal'[p].epoch = n
  /\ proposal'[p].supply = supply
  /\ \A m \in Members : proposal'[p].weight[m] = balance[m].active
  /\ UNCHANGED <<ledger, epochs>>

LEMMA WrittenKeeps ==
  ASSUME EngineInv, NEW p \in Proposals, NEW new, proposal' = [proposal EXCEPT ![p] = new],
         new.epoch = proposal[p].epoch, new.supply = proposal[p].supply, new.weight = proposal[p].weight
  PROVE  \A q \in Proposals : KeepsSnapshot(q)
<1>1. DOMAIN proposal = Proposals
  BY DEF EngineInv, RowsTyped, GovernanceRows
<1>2. proposal'[p] = new /\ \A q \in Proposals \ {p} : proposal'[q] = proposal[q]
  BY <1>1
<1> QED
  BY <1>2 DEF KeepsSnapshot

LEMMA ActivationTakes ==
  ASSUME EngineInv, NEW t \in Txns, activate(t)
  PROVE  \A p \in Proposals : KeepsSnapshot(p) \/ TakesSnapshot(p)
<1>1. Ready(t, "activate") /\ UNCHANGED <<ledger, epochs>> /\ txn[t].seen.epoch # 0
  BY DEF activate
<1>2. /\ GivenTo("activate", txn[t].in) /\ txn[t].seen.supply = supply
      /\ txn[t].seen.epoch \in ActiveEpochs
  BY <1>1, ReadyKnows DEF TxnKinds
<1>3. PICK p \in Proposals : p = txn[t].in.id
  BY <1>2 DEF GivenTo
<1>4. PICK n, s, w : n = txn[t].seen.epoch /\ s = txn[t].seen.supply /\ w = [m \in Members |-> balance[m].active]
  OBVIOUS
<1>5. PICK old \in ProposalRow : old = proposal[p]
  BY DEF EngineInv, RowsTyped, GovernanceRows
<1>6. PICK e : proposal' = [proposal EXCEPT ![p] =
        [@ EXCEPT !.status = "active", !.epoch = n, !.supply = s, !.eligible = e, !.weight = w]]
  BY <1>3, <1>4 DEF activate
<1>7. PICK new : new = [old EXCEPT !.status = "active", !.epoch = n, !.supply = s, !.eligible = e, !.weight = w]
  OBVIOUS
<1>8. new.epoch = n /\ new.supply = s /\ new.weight = w
  BY <1>7 DEF ProposalRow
<1>9. DOMAIN proposal = Proposals
  BY DEF EngineInv, RowsTyped, GovernanceRows
<1>10. proposal'[p] = new /\ \A q \in Proposals \ {p} : proposal'[q] = proposal[q]
  BY <1>5, <1>6, <1>7, <1>9
<1>11. TakesSnapshot(p)
  BY <1>1, <1>2, <1>4, <1>8, <1>10 DEF TakesSnapshot
<1> QED
  BY <1>10, <1>11 DEF KeepsSnapshot

LEMMA SnapshotSteps ==
  ASSUME EngineInv, [Next]_vars
  PROVE  \A p \in Proposals : KeepsSnapshot(p) \/ TakesSnapshot(p)
<1>1. DOMAIN proposal = Proposals /\ \A p \in Proposals : proposal[p] \in ProposalRow
  BY DEF EngineInv, RowsTyped, GovernanceRows
<1>2. CASE create
  <2>1. PICK p \in Proposals, a \in Purposes :
          /\ proposal[p] = NoProposal
          /\ proposal' = [proposal EXCEPT ![p] = [NoProposal EXCEPT !.status = "draft", !.about = a]]
    BY <1>2 DEF create
  <2>2. PICK new : new = [NoProposal EXCEPT !.status = "draft", !.about = a]
    OBVIOUS
  <2>3. new.epoch = proposal[p].epoch /\ new.supply = proposal[p].supply /\ new.weight = proposal[p].weight
    BY <2>1, <2>2 DEF NoProposal
  <2> QED
    BY <2>1, <2>2, <2>3, WrittenKeeps
<1>3. CASE Deadline
  <2>1. PICK p \in Proposals : proposal' = [proposal EXCEPT ![p].over = TRUE]
    BY <1>3 DEF Deadline
  <2>2. PICK old \in ProposalRow : old = proposal[p]
    BY <1>1
  <2>3. PICK new : new = [old EXCEPT !.over = TRUE]
    OBVIOUS
  <2>4. new.epoch = old.epoch /\ new.supply = old.supply /\ new.weight = old.weight
    BY <2>3 DEF ProposalRow
  <2>5. proposal' = [proposal EXCEPT ![p] = new]
    BY <1>1, <2>1, <2>2, <2>3
  <2> QED
    BY <2>2, <2>4, <2>5, WrittenKeeps
<1>4. ASSUME NEW t \in Txns, castVote(t)
      PROVE  \A p \in Proposals : KeepsSnapshot(p)
  <2>1. Ready(t, "castVote")
    BY <1>4 DEF castVote
  <2>2. PICK p \in Proposals : p = txn[t].in.id
    BY <2>1, ReadyKnows DEF TxnKinds, GivenTo
  <2>3. PICK m, c : proposal' = [proposal EXCEPT ![p].vote[m] = c]
    BY <1>4, <2>2 DEF castVote
  <2>4. PICK old \in ProposalRow : old = proposal[p]
    BY <1>1
  <2>5. PICK new : new = [old EXCEPT !.vote[m] = c]
    OBVIOUS
  <2>6. new.epoch = old.epoch /\ new.supply = old.supply /\ new.weight = old.weight
    BY <2>5 DEF ProposalRow
  <2>7. proposal' = [proposal EXCEPT ![p] = new]
    BY <1>1, <2>3, <2>4, <2>5
  <2> QED
    BY <2>4, <2>6, <2>7, WrittenKeeps
<1>5. ASSUME NEW t \in Txns, end(t)
      PROVE  \A p \in Proposals : KeepsSnapshot(p)
  <2>1. Ready(t, "end")
    BY <1>5 DEF end
  <2>2. PICK p \in Proposals : p = txn[t].in.id
    BY <2>1, ReadyKnows DEF TxnKinds, GivenTo
  <2>3. PICK w, v : w = Winner(p) /\ v = VoterCount(p)
    OBVIOUS
  <2>4. proposal' = [proposal EXCEPT ![p].status = "recorded", ![p].winner = w, ![p].voters = v]
    BY <1>5, <2>2, <2>3 DEF end
  <2>5. PICK old \in ProposalRow : old = proposal[p]
    BY <1>1
  <2>6. PICK new : new = [old EXCEPT !.status = "recorded", !.winner = w, !.voters = v]
    OBVIOUS
  <2>7. new.epoch = old.epoch /\ new.supply = old.supply /\ new.weight = old.weight
    BY <2>6 DEF ProposalRow
  <2>8. proposal' = [proposal EXCEPT ![p] = new]
    BY <1>1, <2>4, <2>5, <2>6
  <2> QED
    BY <2>5, <2>7, <2>8, WrittenKeeps
<1>6. UNCHANGED proposal => \A p \in Proposals : KeepsSnapshot(p)
  BY DEF KeepsSnapshot
<1>7. UNCHANGED vars => UNCHANGED proposal
  BY DEF vars, tables
<1> QED
  BY <1>2, <1>3, <1>4, <1>5, <1>6, <1>7, ActivationTakes, ProposalUntouched DEF Next

\* The supply is what the last entry says.
LEMMA SupplyNow ==
  ASSUME EngineInv, Kept(BookOf, supply, Totals)
  PROVE  supply = SupplyAt(Len(ledger))
<1>1. ledger \in Seq(EntryRow)
  BY DEF EngineInv, RowsTyped, LedgerRows
<1>2. /\ BookOf \in Seq(BookEntry) /\ Len(BookOf) = Len(ledger)
      /\ \A i \in 1 .. Len(ledger) : BookOf[i].supplyAfter = ledger[i].supplyAfter
  BY <1>1, BookType DEF BookOf
<1>3. supply = IF BookOf = << >> THEN 0 ELSE BookOf[Len(BookOf)].supplyAfter
  BY DEF Kept, Book!Settles
<1>4. Len(ledger) = 0 <=> BookOf = << >>
  BY <1>2
<1>5. Len(ledger) # 0 => Len(ledger) \in 1 .. Len(ledger)
  BY <1>1
<1> QED
  BY <1>2, <1>3, <1>4, <1>5 DEF SupplyAt

LEMMA SnapshotStep ==
  ASSUME EngineInv, EngineInv', Kept(BookOf, supply, Totals), Numbered,
         \A x \in Members : Layers(x), Snapshots, [Next]_vars
  PROVE  Snapshots'
<1>1. Stays /\ Len(ledger) \in Nat /\ Len(ledger') \in Nat /\ Len(ledger) <= Len(ledger')
  BY LedgerStays DEF EngineInv, RowsTyped, LedgerRows, Stays
<1>2. 0 .. Len(ledger) \subseteq 0 .. Len(ledger')
  BY <1>1
<1>3. ASSUME NEW p \in Proposals, KeepsSnapshot(p), proposal'[p].epoch # 0
      PROVE  \E k \in 0 .. Len(ledger') : SnapshotAt(p, k)'
  <2>1. PICK k \in 0 .. Len(ledger) : SnapshotAt(p, k)
    BY <1>3 DEF Snapshots, KeepsSnapshot
  <2>2. SupplyAt(k)' = SupplyAt(k) /\ \A n, m : WeightAt(k, n, m)' = WeightAt(k, n, m)
    BY <1>1, MomentStays
  <2>3. SnapshotAt(p, k)'
    BY <1>3, <2>1, <2>2 DEF SnapshotAt, KeepsSnapshot
  <2> QED
    BY <1>2, <2>3
<1>4. ASSUME NEW p \in Proposals, TakesSnapshot(p)
      PROVE  \E k \in 0 .. Len(ledger') : SnapshotAt(p, k)'
  <2>1. PICK n \in ActiveEpochs : proposal'[p].epoch = n
    BY <1>4 DEF TakesSnapshot
  <2>2. PICK k \in 0 .. Len(ledger) : k = Len(ledger)
    BY <1>1
  <2>3. SupplyAt(k)' = SupplyAt(k) /\ \A y, m : WeightAt(k, y, m)' = WeightAt(k, y, m)
    BY <1>1, MomentStays
  <2>4. supply = SupplyAt(k) /\ \A m \in Members : balance[m].active = WeightAt(k, n, m)
    BY <2>1, <2>2, SupplyNow, WeightNow
  <2>5. SnapshotAt(p, k)'
    BY <1>4, <2>1, <2>3, <2>4 DEF SnapshotAt, TakesSnapshot
  <2> QED
    BY <1>2, <2>5
<1> QED
  BY <1>3, <1>4, SnapshotSteps DEF Snapshots

\* A vote is weighed by the governance weights and the supply of one moment, whatever
\* mints, reversals and switches run beside the activation of a proposal, as long as no two
\* epochs are active.
THEOREM SnapshotsAreOfOneMoment == Spec /\ []OneActive => []SnapshotIsOfOneMoment
<1>1. DatabaseInit => Numbered /\ (\A x \in Members : Layers(x)) /\ Kept(BookOf, supply, Totals)
  BY LayersStart, BookStart
<1>2. DatabaseInit => Snapshots
  BY DEF DatabaseInit, Snapshots, NoProposal
<1>3. /\ EngineInv /\ EngineInv' /\ OneActive /\ OneActive'
      /\ Numbered /\ (\A x \in Members : Layers(x)) /\ Kept(BookOf, supply, Totals) /\ Snapshots /\ [Next]_vars
      => Numbered' /\ (\A x \in Members : Layers(x))' /\ Kept(BookOf, supply, Totals)' /\ Snapshots'
  <2> SUFFICES ASSUME EngineInv, EngineInv', OneActive, OneActive', Numbered, \A x \in Members : Layers(x),
                      Kept(BookOf, supply, Totals), Snapshots, [Next]_vars
               PROVE  Numbered' /\ (\A x \in Members : Layers(x))' /\ Kept(BookOf, supply, Totals)' /\ Snapshots'
    OBVIOUS
  <2>1. Numbered' /\ (\A x \in Members : Layers(x))'
    BY NumberedStep, LayersStep
  <2>2. Kept(BookOf, supply, Totals)'
    BY BookStep
  <2>3. Snapshots'
    BY SnapshotStep
  <2> QED
    BY <2>1, <2>2, <2>3
<1>4. Snapshots => SnapshotIsOfOneMoment
  BY SnapshotsAre
<1> QED
  BY <1>1, <1>2, <1>3, <1>4, EngineInvHolds, PTL DEF Spec

-----------------------------------------------------------------------------
(***************************************************************************)
(* What a step does to the ledger: it issues tokens in an epoch, corrects  *)
(* the ledger beside the epochs, or switches them.                         *)
(***************************************************************************)

IssuedBy(t) ==
  /\ txn[t].kind \in {"mint", "execute"}
  /\ \E es \in Seq(EntryRow), m \in Members, n \in Nat, now \in Nat, later \in Nat :
       Issues(es, m, n, now, later) /\ holder[EpochLock(n)] = t
Corrects ==
  /\ UNCHANGED epochs
  /\ \A i \in DOMAIN ledger : ledger'[i] = ledger[i]
  /\ DOMAIN ledger \subseteq DOMAIN ledger'
  /\ \A i \in Added : ledger'[i].kind \in {"genesis", "reversal"}
  /\ \A m \in Members : balance'[m].earned = balance[m].earned

LEMMA ReversalCorrects ==
  ASSUME EngineInv, NEW t \in Txns, NEW amount \in Nat \ {0}, NEW pending \in Nat, pending <= amount,
         ReversalWrites(t, amount, pending), UNCHANGED epochs
  PROVE  Corrects
<1>1. PICK m \in Members : m = MemberOf(txn[t])
  BY DEF ReversalWrites
<1>2. /\ amount - pending <= balance[m].active /\ pending <= balance[m].pending /\ amount <= balance[m].total
      /\ Credit(m, -(amount - pending), -pending, 0)
  BY <1>1 DEF ReversalWrites
<1>3. PICK e \in EntryRow : e = Reversal(t, amount) /\ ledger' = ledger \o <<e>>
  BY DEF ReversalWrites
<1>4. e.kind = "reversal"
  BY <1>3 DEF Reversal
<1>5. PICK es \in Seq(EntryRow) : es = <<e>> /\ \A k \in DOMAIN es : es[k] = e
  BY OneEntry
<1>6. RowsTyped /\ LedgerRows /\ ledger' = ledger \o es
  BY <1>3, <1>5 DEF EngineInv, RowsTyped
<1>7. /\ \A i \in DOMAIN ledger : ledger'[i] = ledger[i]
      /\ \A i \in DOMAIN ledger' \ DOMAIN ledger : \E k \in DOMAIN es : i = Len(ledger) + k /\ ledger'[i] = es[k]
      /\ DOMAIN ledger \subseteq DOMAIN ledger'
  BY <1>6, Grown, Appended DEF Stays
<1>8. \A i \in Added : ledger'[i].kind = "reversal"
  BY <1>4, <1>5, <1>7 DEF Added
<1>9. PICK bt \in Nat, ba \in Nat, bp \in Nat, be \in Nat :
        bt = balance[m].total /\ ba = balance[m].active /\ bp = balance[m].pending /\ be = balance[m].earned
  BY <1>6 DEF LedgerRows, BalanceRow
<1>10. PICK a \in Int, p \in Int, z \in Int : a = -(amount - pending) /\ p = -pending /\ z = 0
  OBVIOUS
<1>11. amount - pending <= ba /\ pending <= bp /\ amount <= bt
  BY ONLY <1>2, <1>9
<1>12. bt + a + p >= 0 /\ ba + a >= 0 /\ bp + p >= 0 /\ be + z >= 0
  BY ONLY <1>10, <1>11, pending \in Nat, amount \in Nat \ {0}
<1>13. /\ balance[m].total + a + p >= 0 /\ balance[m].active + a >= 0
       /\ balance[m].pending + p >= 0 /\ balance[m].earned + z >= 0
  BY ONLY <1>9, <1>12
<1>14. Credit(m, a, p, z)
  BY <1>2, <1>10
<1>15. balance'[m].earned = balance[m].earned + z /\ \A k \in Members \ {m} : balance'[k] = balance[k]
  BY <1>6, <1>13, <1>14, Credited
<1>16. balance'[m].earned = balance[m].earned
  BY ONLY <1>9, <1>10, <1>15
<1> QED
  BY <1>7, <1>8, <1>15, <1>16 DEF Corrects

LEMMA GenesisCorrects ==
  ASSUME EngineInv, NEW t \in Txns, mintInitialAllocation(t)
  PROVE  Corrects
<1>1. Ready(t, "genesis") /\ ledger' = ledger \o Allotments(t) /\ UNCHANGED epochs
  BY GenesisShape
<1>2. PICK es \in Seq(EntryRow) :
        es = Allotments(t) /\ Len(es) = Len(Allocation) /\ \A k \in 1 .. Len(Allocation) : es[k] = Allotment(t, k)
  BY <1>1, AllotmentsType
<1>3. DOMAIN es = 1 .. Len(Allocation)
  BY <1>2
<1>4. \A k : Allotment(t, k).kind = "genesis"
  BY ONLY TRUE DEF Allotment
<1>5. RowsTyped /\ ledger' = ledger \o es
  BY <1>1, <1>2 DEF EngineInv
<1>6. /\ \A i \in DOMAIN ledger : ledger'[i] = ledger[i]
      /\ \A i \in DOMAIN ledger' \ DOMAIN ledger : \E k \in DOMAIN es : i = Len(ledger) + k /\ ledger'[i] = es[k]
      /\ DOMAIN ledger \subseteq DOMAIN ledger'
  BY <1>5, Grown, Appended DEF Stays
<1>7. \A i \in Added : ledger'[i].kind = "genesis"
  BY <1>2, <1>3, <1>4, <1>6 DEF Added
<1>8. ASSUME NEW m \in Members
      PROVE  balance'[m].earned = balance[m].earned
  <2>1. CASE \E k \in DOMAIN Allocation : Allocation[k].member = m
    <3>1. PICK k \in DOMAIN Allocation : Allocation[k].member = m
      BY <2>1
    <3>2. balance'[m] = [total |-> balance[m].total + Allocation[k].amount,
                         active |-> balance[m].active + Allocation[k].amount,
                         pending |-> balance[m].pending, earned |-> balance[m].earned]
      BY <3>1, GenesisBalances
    <3> QED
      BY ONLY <3>2
  <2>2. CASE \A k \in DOMAIN Allocation : Allocation[k].member # m
    BY <2>2, GenesisBalances
  <2> QED
    BY <2>1, <2>2
<1> QED
  BY <1>1, <1>6, <1>7, <1>8 DEF Corrects

LEMMA LedgerChanges ==
  ASSUME EngineInv, [Next]_vars
  PROVE  \/ \E t \in Txns : IssuedBy(t)
         \/ Corrects
         \/ \E t \in Txns : closeEpoch(t) \/ createNextEpoch(t)
<1>1. UNCHANGED <<epochs, supply, ledger, balance>> => Corrects
  BY DEF Corrects, Added
<1>2. ASSUME NEW t \in Txns, NEW now \in Nat, NEW later \in Nat, NEW n \in ActiveEpochs, n \in Nat,
             Ready(t, "mint"), MintWrites(t, n, now, later)
      PROVE  IssuedBy(t)
  <2>1. PICK es \in Seq(EntryRow), m \in Members : Issues(es, m, n, now, later)
    BY <1>2, MintIssues
  <2>2. holder[EpochLock(n)] = t
    BY ONLY <1>2 DEF MintWrites
  <2>3. txn[t].kind = "mint"
    BY <1>2 DEF Ready
  <2> QED
    BY <1>2, <2>1, <2>2, <2>3 DEF IssuedBy
<1>3. ASSUME NEW t \in Txns, NEW later \in Nat \ {0}, NEW n \in ActiveEpochs, n \in Nat,
             Ready(t, "execute"), ExecutionWrites(t, n, later)
      PROVE  IssuedBy(t)
  <2>1. PICK es \in Seq(EntryRow), m \in Members : Issues(es, m, n, 0, later)
    BY <1>3, ExecutionIssues
  <2>2. holder[EpochLock(n)] = t
    BY ONLY <1>3 DEF ExecutionWrites
  <2>3. txn[t].kind = "execute"
    BY <1>3 DEF Ready
  <2>4. PICK z \in Nat : z = 0
    OBVIOUS
  <2>5. Issues(es, m, n, z, later)
    BY <2>1, <2>4
  <2> QED
    BY <1>3, <2>2, <2>3, <2>5 DEF IssuedBy
<1> QED
  BY <1>1, <1>2, <1>3, ReversalCorrects, GenesisCorrects, LedgerSteps DEF Moves

-----------------------------------------------------------------------------
(***************************************************************************)
(* The opening supply.                                                     *)
(***************************************************************************)

\* An epoch switch has read the supply.
SupplyTaken(u) == txn[u].kind = "close" /\ Left(u) <= 3

\* It is the one it has read before, or is the supply.
SupplySeen(u) ==
  SupplyTaken(u)' =>
    \/ SupplyTaken(u) /\ txn'[u].seen.supply = txn[u].seen.supply
    \/ txn'[u].seen.supply = supply /\ UNCHANGED <<supply, ledger>>

LEMMA StatementSupply ==
  ASSUME EngineInv, NEW t \in Txns, Statement(t)
  PROVE  \A u \in Txns : SupplySeen(u)
<1>0. UNCHANGED <<supply, ledger>>
  BY StatementTakes DEF tables
<1>1. PICK statement : StatementReads(t, statement)
  BY StatementTakes
<1>2. RowsTyped /\ TxnRow(txn[t]) /\ Given(t) /\ Read(t) /\ Next1(txn[t].kind, Left(t), statement)
  BY <1>1 DEF StatementReads
<1>3. PICK seen : seen = ReadBy(txn[t], statement)
  OBVIOUS
<1>4. /\ statement = "closing" => seen.supply = supply
      /\ statement \notin {"closing", "lastEpoch"} => seen.supply = txn[t].seen.supply
  <2>0. t \in Txns
    OBVIOUS
  <2>1. statement \notin {"closing", "lastEpoch"} => seen.supply = txn[t].seen.supply
    BY ONLY <1>2, <1>3, <2>0, StatementRead
  <2>2. ASSUME statement = "closing"
        PROVE  seen.supply = supply
    <3>1. seen = [txn[t].seen EXCEPT !.supply = supply, !.policy = policy]
      BY <1>3, <2>2 DEF ReadBy
    <3>2. txn[t].seen \in SeenRow
      BY <1>2 DEF TxnRow
    <3> QED
      BY <3>1, <3>2 DEF SeenRow
  <2> QED
    BY <2>1, <2>2
<1>5. \A u \in Txns \ {t} : SupplySeen(u)
  BY <1>1 DEF StatementReads, SupplySeen, SupplyTaken, Left
<1>6. /\ txn'[t].kind = txn[t].kind /\ txn'[t].seen = seen
      /\ Left(t) \in Nat /\ Left(t)' = Left(t) - 1
  BY <1>1, <1>3 DEF StatementReads
<1>7. CASE statement = "closing"
  <2>1. txn'[t].seen.supply = supply
    BY <1>4, <1>6, <1>7
  <2>2. SupplySeen(t)
    BY <1>0, <2>1 DEF SupplySeen
  <2> QED
    BY <1>5, <2>2
<1>8. CASE statement # "closing"
  <2>1. SupplyTaken(t)' => SupplyTaken(t) /\ statement # "lastEpoch"
    BY <1>2, <1>6, <1>8 DEF SupplyTaken, Next1
  <2>2. SupplyTaken(t)' => txn'[t].seen.supply = txn[t].seen.supply
    BY <1>4, <1>6, <1>8, <2>1
  <2>3. SupplySeen(t)
    BY ONLY <2>1, <2>2 DEF SupplySeen
  <2> QED
    BY <1>5, <2>3
<1> QED
  BY <1>7, <1>8

LEMMA LockSupply ==
  ASSUME EngineInv, NEW t \in Txns, NEW row \in Rows, Lock(t, row)
  PROVE  \A u \in Txns : SupplySeen(u)
<1>1. row \in txn[t].rows /\ DOMAIN txn = Txns /\ TxnRow(txn[t]) /\ UNCHANGED <<supply, ledger>>
  BY DEF Lock, EngineInv, TxnsTyped, tables
<1>2. PICK rows, seen : rows = txn[t].rows \ {row} /\ seen = LockedBy(t, row)
  OBVIOUS
<1>3. txn' = [txn EXCEPT ![t].rows = rows, ![t].seen = seen]
  BY <1>2 DEF Lock
<1>4. /\ txn'[t].seen = seen /\ txn'[t].kind = txn[t].kind
      /\ txn'[t].todo = txn[t].todo /\ \A u \in Txns \ {t} : txn'[u] = txn[u]
  BY <1>1, <1>3 DEF TxnRow
<1>5. seen.supply = IF row = StateLock THEN supply ELSE txn[t].seen.supply
  BY <1>1, <1>2, LockedRead
<1> QED
  BY <1>1, <1>4, <1>5 DEF SupplySeen, SupplyTaken, Left

LEMMA SupplySteps ==
  ASSUME EngineInv, [Next]_vars
  PROVE  \A u \in Txns : SupplySeen(u)
<1>1. CASE UNCHANGED txn
  BY <1>1 DEF SupplySeen, SupplyTaken, Left
<1>2. create \/ Deadline \/ UNCHANGED vars => UNCHANGED txn
  BY DEF create, Deadline, vars
<1>3. ASSUME NEW t \in Txns, Finish(t)
      PROVE  \A u \in Txns : SupplySeen(u)
  <2>1. txn'[t] = Idle /\ \A u \in Txns \ {t} : txn'[u] = txn[u]
    BY <1>3 DEF Finish, EngineInv, TxnsTyped
  <2>2. ~SupplyTaken(t)'
    BY <2>1, NoneAssumption DEF SupplyTaken, Idle
  <2>3. \A u \in Txns \ {t} : SupplySeen(u)
    BY <2>1 DEF SupplySeen, SupplyTaken, Left
  <2> QED
    BY <2>2, <2>3 DEF SupplySeen
<1>4. ASSUME NEW t \in Txns, LedgerStart(t) \/ StartActivate(t) \/ StartCastVote(t) \/ StartEnd(t)
      PROVE  \A u \in Txns : SupplySeen(u)
  <2>1. ~PolicyTaken(t)' /\ \A u \in Txns \ {t} : txn'[u] = txn[u]
    BY <1>4, StartTakes
  <2>2. ~SupplyTaken(t)'
    BY <2>1 DEF SupplyTaken, PolicyTaken, PolicyRead
  <2>3. \A u \in Txns \ {t} : SupplySeen(u)
    BY <2>1 DEF SupplySeen, SupplyTaken, Left
  <2> QED
    BY <2>2, <2>3 DEF SupplySeen
<1> QED
  BY <1>1, <1>2, <1>3, <1>4, StatementSupply, LockSupply, CommitFinishes DEF Next

\* The moment at which an epoch was opened, and the one at which a switch has read the
\* supply: whoever would mint in between waits for the epoch the switch has locked.
OpenedAt(n, k) ==
  /\ epochs[n].opening = SupplyAt(k)
  /\ \A i \in Mints : ledger[i].kind # "genesis" => (ledger[i].epoch < n <=> i <= k)
Openings == \A n \in 2 .. Len(epochs) : \E k \in 0 .. Len(ledger) : OpenedAt(n, k)
ReadAt(u, k) ==
  /\ txn[u].seen.supply = SupplyAt(k)
  /\ \A i \in Mints : ledger[i].kind # "genesis" => i <= k
Closings == \A u \in Txns : SupplyTaken(u) => \E k \in 0 .. Len(ledger) : ReadAt(u, k)

\* What is added to the ledger beside the corrections is of the last epoch.
AddedLast ==
  \A i \in Added : ledger'[i].kind \notin {"genesis", "reversal"} => ledger'[i].epoch = Len(epochs)

LEMMA StepAddsLast ==
  ASSUME EngineInv, EngineInv', Numbered, [Next]_vars
  PROVE  AddedLast
<1>1. Len(epochs) \in Nat /\ DOMAIN epochs = 1 .. Len(epochs)
  BY DEF EngineInv, RowsTyped, LedgerRows
<1>2. ASSUME NEW t \in Txns, IssuedBy(t)
      PROVE  AddedLast
  <2>1. PICK es \in Seq(EntryRow), m \in Members, n \in Nat, now \in Nat, later \in Nat :
          Issues(es, m, n, now, later)
    BY <1>2 DEF IssuedBy
  <2>2. \A i \in Added : ledger'[i].epoch = n
    BY <2>1, IssuedEntries
  <2>3. n \in ActiveEpochs
    BY ONLY <2>1 DEF Issues
  <2>5. n \in DOMAIN epochs /\ Len(epochs) > 0
    BY <1>1, <2>3 DEF ActiveEpochs
  <2>4. n = Len(epochs)
    BY <2>3, <2>5 DEF Numbered, LastActive
  <2> QED
    BY <2>2, <2>4 DEF AddedLast
<1>3. Corrects => AddedLast
  BY DEF Corrects, AddedLast
<1>4. ASSUME NEW t \in Txns, closeEpoch(t)
      PROVE  AddedLast
  <2>1. DOMAIN ledger' = DOMAIN ledger
    BY <1>4, CloseLedger
  <2> QED
    BY <2>1 DEF AddedLast, Added
<1>5. ASSUME NEW t \in Txns, createNextEpoch(t)
      PROVE  AddedLast
  <2>1. UNCHANGED ledger
    BY <1>5 DEF createNextEpoch
  <2> QED
    BY <2>1 DEF AddedLast, Added
<1> QED
  BY <1>2, <1>3, <1>4, <1>5, LedgerChanges

\* The mints there are after a step.
LEMMA MintsAfter ==
  ASSUME EngineInv, EngineInv', Stays, NEW i \in Mints'
  PROVE  \/ i \in Mints /\ ledger'[i].kind = ledger[i].kind /\ ledger'[i].epoch = ledger[i].epoch
         \/ i \in Added /\ i > Len(ledger)
<1>1. i \in DOMAIN ledger' /\ ledger'[i].kind # "reversal"
  BY DEF Mints
<1>2. CASE i \in DOMAIN ledger
  BY <1>1, <1>2 DEF Stays, Mints
<1>3. CASE i \notin DOMAIN ledger
  <2>1. /\ DOMAIN ledger = 1 .. Len(ledger) /\ DOMAIN ledger' = 1 .. Len(ledger')
        /\ Len(ledger) \in Nat /\ Len(ledger') \in Nat
    BY DEF EngineInv, RowsTyped, LedgerRows
  <2>2. i > Len(ledger)
    BY <1>1, <1>3, <2>1
  <2> QED
    BY <1>1, <1>3, <2>2 DEF Added
<1> QED
  BY <1>2, <1>3

\* An opened epoch stays opened at its moment.
LEMMA OpenedStays ==
  ASSUME EngineInv, EngineInv', Stays, AddedLast, NEW n \in 2 .. Len(epochs), NEW k \in 0 .. Len(ledger),
         epochs'[n].opening = epochs[n].opening, OpenedAt(n, k)
  PROVE  OpenedAt(n, k)'
<1>1. SupplyAt(k)' = SupplyAt(k)
  BY MomentStays
<1>2. ASSUME NEW i \in Mints', ledger'[i].kind # "genesis"
      PROVE  ledger'[i].epoch < n <=> i <= k
  <2>1. CASE i \in Mints /\ ledger'[i].kind = ledger[i].kind /\ ledger'[i].epoch = ledger[i].epoch
    BY <1>2, <2>1 DEF OpenedAt
  <2>2. CASE i \in Added /\ i > Len(ledger)
    <3>1. ledger'[i].epoch = Len(epochs)
      BY <1>2, <2>2 DEF AddedLast, Mints
    <3>2. Len(epochs) \in Nat /\ Len(ledger) \in Nat /\ i \in Nat
      BY <2>2 DEF EngineInv, RowsTyped, LedgerRows, Added
    <3>3. ~(Len(epochs) < n) /\ ~(i <= k)
      BY <2>2, <3>2
    <3> QED
      BY <3>1, <3>3
  <2> QED
    BY <2>1, <2>2, MintsAfter
<1> QED
  BY <1>1, <1>2 DEF OpenedAt

\* A mint is beside the switch that has read the supply, or waits for it.
LEMMA ClosingsStep ==
  ASSUME EngineInv, EngineInv', OneActive, Numbered, Kept(BookOf, supply, Totals), Closings, [Next]_vars
  PROVE  Closings'
<1>1. /\ Stays /\ Len(ledger) \in Nat /\ Len(ledger') \in Nat /\ Len(ledger) <= Len(ledger')
      /\ DOMAIN ledger = 1 .. Len(ledger)
  BY LedgerStays DEF EngineInv, RowsTyped, LedgerRows, Stays
<1>2. 0 .. Len(ledger) \subseteq 0 .. Len(ledger')
  BY <1>1
<1>3. ASSUME NEW u \in Txns, SupplyTaken(u)
      PROVE  \A i \in Added : ledger'[i].kind \in {"genesis", "reversal"}
  <2>1. ASSUME NEW t \in Txns, IssuedBy(t)
        PROVE  FALSE
    <3>1. PICK es \in Seq(EntryRow), m \in Members, n \in Nat, now \in Nat, later \in Nat :
            Issues(es, m, n, now, later) /\ holder[EpochLock(n)] = t
      BY <2>1 DEF IssuedBy
    <3>2. n \in ActiveEpochs
      BY ONLY <3>1 DEF Issues
    <3>3. txn[u].kind = "close" /\ EpochKnown(u) /\ Given(u) /\ Left(u) <= 3
      BY <1>3 DEF SupplyTaken, EngineInv, Sound, Locks
    <3>4. txn[u].in.id \in DOMAIN epochs /\ txn[u].seen.epoch = txn[u].in.id
      BY <3>3 DEF EpochKnown, Given, GivenTo
    <3>5. txn[u].seen.epoch # 0
      BY <3>4 DEF EngineInv, RowsTyped, LedgerRows
    <3>6. txn[u].seen.epoch \in ActiveEpochs /\ holder[EpochLock(txn[u].seen.epoch)] = u
      BY <3>3, <3>5 DEF EpochKnown
    <3>7. t = u
      BY <3>1, <3>2, <3>6 DEF OneActive
    <3> QED
      BY <2>1, <3>3, <3>7 DEF IssuedBy
  <2>2. ASSUME NEW t \in Txns, closeEpoch(t) \/ createNextEpoch(t)
        PROVE  Added = {}
    <3>1. createNextEpoch(t) => UNCHANGED ledger
      BY DEF createNextEpoch
    <3>2. closeEpoch(t) => DOMAIN ledger' = DOMAIN ledger
      BY CloseLedger
    <3> QED
      BY <2>2, <3>1, <3>2 DEF Added
  <2> QED
    BY <2>1, <2>2, LedgerChanges DEF Corrects
<1>4. ASSUME NEW u \in Txns, SupplyTaken(u), txn'[u].seen.supply = txn[u].seen.supply
      PROVE  \E k \in 0 .. Len(ledger') : ReadAt(u, k)'
  <2>1. PICK k \in 0 .. Len(ledger) : ReadAt(u, k)
    BY <1>4 DEF Closings
  <2>2. SupplyAt(k)' = SupplyAt(k)
    BY <1>1, MomentStays
  <2>3. \A i \in Mints' : ledger'[i].kind # "genesis" => i <= k
    <3> SUFFICES ASSUME NEW i \in Mints', ledger'[i].kind # "genesis"
                 PROVE  i <= k
      OBVIOUS
    <3>1. i \notin Added
      BY <1>3, <1>4 DEF Mints
    <3>2. i \in Mints /\ ledger'[i].kind = ledger[i].kind
      BY <1>1, <3>1, MintsAfter
    <3> QED
      BY <2>1, <3>2 DEF ReadAt
  <2>4. ReadAt(u, k)'
    BY <1>4, <2>1, <2>2, <2>3 DEF ReadAt
  <2> QED
    BY <1>2, <2>4
<1>5. ASSUME NEW u \in Txns, txn'[u].seen.supply = supply, UNCHANGED <<supply, ledger>>
      PROVE  \E k \in 0 .. Len(ledger') : ReadAt(u, k)'
  <2>0. Len(ledger) \in 0 .. Len(ledger')
    BY <1>1
  <2>1. PICK k \in 0 .. Len(ledger') : k = Len(ledger)
    BY <2>0
  <2>2. supply = SupplyAt(k)
    BY <2>1, SupplyNow
  <2>3. SupplyAt(k)' = SupplyAt(k)
    BY <1>5 DEF SupplyAt
  <2>4. \A i \in Mints' : i <= k
    BY <1>1, <1>5, <2>1 DEF Mints
  <2>5. ReadAt(u, k)'
    BY <1>5, <2>2, <2>3, <2>4 DEF ReadAt
  <2> QED
    BY <2>5
<1> QED
  BY <1>4, <1>5, SupplySteps DEF Closings, SupplySeen

LEMMA OpeningsStep ==
  ASSUME EngineInv, EngineInv', OneActive', Numbered, Openings, Closings, [Next]_vars
  PROVE  Openings'
<1>1. /\ Stays /\ Len(ledger) \in Nat /\ Len(ledger') \in Nat /\ Len(ledger) <= Len(ledger')
      /\ DOMAIN epochs = 1 .. Len(epochs) /\ Len(epochs) \in Nat /\ LedgerRows
  BY LedgerStays DEF EngineInv, RowsTyped, LedgerRows, Stays
<1>2. 0 .. Len(ledger) \subseteq 0 .. Len(ledger')
  BY <1>1
<1>3. ASSUME NEW n \in 2 .. Len(epochs), epochs'[n].opening = epochs[n].opening
      PROVE  \E k \in 0 .. Len(ledger') : OpenedAt(n, k)'
  <2>1. PICK k \in 0 .. Len(ledger) : OpenedAt(n, k)
    BY DEF Openings
  <2>2. OpenedAt(n, k)'
    BY <1>1, <1>3, <2>1, StepAddsLast, OpenedStays
  <2> QED
    BY <1>2, <2>2
<1>4. ASSUME NEW t \in Txns, IssuedBy(t)
      PROVE  Openings'
  <2>1. PICK es \in Seq(EntryRow), m \in Members, n \in Nat, now \in Nat, later \in Nat :
          Issues(es, m, n, now, later)
    BY <1>4 DEF IssuedBy
  <2>2. n \in ActiveEpochs /\ Metered(n, now, later)
    BY ONLY <2>1 DEF Issues
  <2>3. /\ Len(epochs') = Len(epochs)
        /\ \A k \in DOMAIN epochs \ {n} : epochs'[k] = epochs[k]
        /\ epochs'[n].opening = epochs[n].opening
    BY <1>1, <2>2, MeteredShape DEF ActiveEpochs
  <2>4. \A k \in 2 .. Len(epochs) : epochs'[k].opening = epochs[k].opening
    BY <1>1, <2>3
  <2> QED
    BY <1>3, <2>3, <2>4 DEF Openings
<1>5. ASSUME Corrects
      PROVE  Openings'
  BY <1>3, <1>5 DEF Openings, Corrects
<1>6. ASSUME NEW t \in Txns, closeEpoch(t)
      PROVE  Openings'
  <2>1. PICK n \in Nat, e \in EpochRow :
           /\ n = Len(epochs) /\ n \in DOMAIN epochs
           /\ Len(epochs') = n + 1
           /\ \A k \in DOMAIN epochs \ {n} : epochs'[k] = epochs[k]
           /\ \A f \in {"opening", "base", "debt", "maxAdvance", "regular", "advanced"} :
                epochs'[n][f] = epochs[n][f]
           /\ epochs'[n + 1] = e
           /\ e = NewEpoch(txn[t].seen.supply, CarriedDebt(epochs[n]), DuePolicy(t))
    BY <1>6, EpochClosed
  <2>2. \A k \in 2 .. n : epochs'[k].opening = epochs[k].opening
    BY <1>1, <2>1
  <2>3. Ready(t, "close")
    BY <1>6, CloseShape
  <2>4. SupplyTaken(t)
    BY <2>3, ReadyKnows DEF SupplyTaken, TxnKinds
  <2>5. PICK k \in 0 .. Len(ledger) : ReadAt(t, k)
    BY <2>4 DEF Closings
  <2>6. SupplyAt(k)' = SupplyAt(k)
    BY <1>1, MomentStays
  <2>7. e.opening = txn[t].seen.supply
    BY <2>1 DEF NewEpoch
  <2>8. ASSUME NEW i \in Mints', ledger'[i].kind # "genesis"
        PROVE  ledger'[i].epoch < n + 1 /\ i <= k
    <3>1. DOMAIN ledger' = DOMAIN ledger
      BY <1>6, CloseLedger
    <3>2. i \in Mints /\ ledger'[i].kind = ledger[i].kind /\ ledger'[i].epoch = ledger[i].epoch
      BY <1>1, <3>1, MintsAfter DEF Added
    <3>3. EntryFits(i)
      BY <3>2 DEF Numbered, Mints
    <3>4. ledger[i].epoch \in DOMAIN epochs
      BY <2>8, <3>2, <3>3 DEF EntryFits, Mints
    <3>5. i <= k
      BY <2>5, <2>8, <3>2 DEF ReadAt
    <3> QED
      BY <1>1, <2>1, <3>2, <3>4, <3>5
  <2>9. OpenedAt(n + 1, k)'
    BY <2>1, <2>5, <2>6, <2>7, <2>8 DEF OpenedAt, ReadAt
  <2>10. \A j \in 2 .. n + 1 : j \in 2 .. n \/ j = n + 1
    BY <2>1
  <2> QED
    BY <1>2, <1>3, <2>1, <2>2, <2>5, <2>9, <2>10 DEF Openings
<1>7. ASSUME NEW t \in Txns, createNextEpoch(t)
      PROVE  Openings'
  <2>1. LastActive
    BY DEF Numbered
  <2>2. Len(epochs') = 1
    BY <1>7, <2>1, EpochOpened
  <2> QED
    BY <2>2 DEF Openings
<1> QED
  BY <1>4, <1>5, <1>6, <1>7, LedgerChanges

LEMMA OpeningsAre == Openings => OpeningSupplyAfterMints
BY DEF Openings, OpenedAt, OpeningSupplyAfterMints

\* The opening supply of an epoch is the supply at one moment of the ledger, after every
\* mint of the epochs before it and before every mint of its own or later, although
\* closeEpoch reads the supply without a lock, as long as no two epochs are active.
THEOREM OpeningsFollowMints == Spec /\ []OneActive => []OpeningSupplyAfterMints
<1>1. DatabaseInit => Numbered /\ (\A x \in Members : Layers(x)) /\ Kept(BookOf, supply, Totals)
  BY LayersStart, BookStart
<1>2. DatabaseInit => Openings /\ Closings
  <2> SUFFICES ASSUME DatabaseInit
               PROVE  Openings /\ Closings
    OBVIOUS
  <2>1. Len(epochs) = 0
    BY DEF DatabaseInit
  <2>2. \A u \in Txns : ~SupplyTaken(u)
    BY NoneAssumption DEF DatabaseInit, SupplyTaken, Idle
  <2> QED
    BY <2>1, <2>2 DEF Openings, Closings
<1>3. /\ EngineInv /\ EngineInv' /\ OneActive /\ OneActive'
      /\ Numbered /\ Kept(BookOf, supply, Totals) /\ Openings /\ Closings /\ [Next]_vars
      => Numbered' /\ Kept(BookOf, supply, Totals)' /\ Openings' /\ Closings'
  <2> SUFFICES ASSUME EngineInv, EngineInv', OneActive, OneActive', Numbered, Kept(BookOf, supply, Totals),
                      Openings, Closings, [Next]_vars
               PROVE  Numbered' /\ Kept(BookOf, supply, Totals)' /\ Openings' /\ Closings'
    OBVIOUS
  <2>1. Numbered' /\ Kept(BookOf, supply, Totals)'
    BY NumberedStep, BookStep
  <2>2. Openings' /\ Closings'
    BY OpeningsStep, ClosingsStep
  <2> QED
    BY <2>1, <2>2
<1> QED
  BY <1>1, <1>2, <1>3, OpeningsAre, EngineInvHolds, PTL DEF Spec

-----------------------------------------------------------------------------
(***************************************************************************)
(* What the epochs issue.                                                  *)
(***************************************************************************)

Issuing == {"regular", "advance", "execution"}
EarnedBy(n, m) == {i \in MintsIn(n, {"regular"}) : ledger[i].member = m}
Before(n) == UNION {MintsIn(k, {"regular", "advance", "execution"}) : k \in 1 .. n - 1}
Bases(n) == SumFunctionOnSet([k \in DOMAIN epochs |-> epochs[k].base], 1 .. n - 1)

\* The meters of an epoch, what its members have earned, and what it has taken over from
\* the epochs before it.
Meters(n) ==
  /\ MetersAgree(n) /\ epochs[n].regular <= Budget(epochs[n])
  /\ epochs[n].advanced <= epochs[n].maxAdvance
Earns(m) ==
  /\ balance[m].earned = AmountIn(ledger, EarnedBy(Len(epochs), m))
  /\ Len(epochs) > 0 => balance[m].earned <= BpsOf(epochs[Len(epochs)].base, policy.rates.memberCap)
Carries(n) == AmountIn(ledger, Before(n)) <= Bases(n) + epochs[n].debt
Issuance ==
  /\ \A n \in DOMAIN epochs : Meters(n) /\ Carries(n)
  /\ \A m \in Members : Earns(m)

LEMMA IssuanceIs ==
  ASSUME EngineInv, Numbered, Issuance
  PROVE  IssuanceCarried
<1>1. DOMAIN epochs = 1 .. Len(epochs) /\ Len(epochs) \in Nat
  BY DEF EngineInv, RowsTyped, LedgerRows
<1>2. ASSUME NEW n \in DOMAIN epochs
      PROVE  WithinBudgets(n)
  <2>1. Meters(n)
    BY DEF Issuance
  <2>2. ASSUME NEW m \in Members, n \in ActiveEpochs
        PROVE  EarnedIn(n, m) <= BpsOf(epochs[n].base, policy.rates.memberCap)
    <3>1. Len(epochs) > 0
      BY <1>1
    <3>2. n = Len(epochs)
      BY <2>2, <3>1 DEF Numbered, LastActive
    <3>3. EarnedIn(n, m) = AmountIn(ledger, EarnedBy(n, m))
      BY DEF EarnedIn, EarnedBy, AmountOver, AmountIn
    <3> QED
      BY <3>1, <3>2, <3>3 DEF Issuance, Earns
  <2> QED
    BY <2>1, <2>2 DEF WithinBudgets, Meters
<1>3. ASSUME NEW n \in DOMAIN epochs
      PROVE  AmountOver(UNION {MintsIn(k, {"regular", "advance", "execution"}) : k \in 1 .. n - 1})
               <= SumFunctionOnSet([k \in DOMAIN epochs |-> epochs[k].base], 1 .. n - 1) + epochs[n].debt
  BY DEF Issuance, Carries, Before, Bases, AmountOver, AmountIn
<1> QED
  BY <1>2, <1>3 DEF IssuanceCarried

\* What is issued in an epoch stays there.
LEMMA AmountStays ==
  ASSUME EngineInv, EngineInv', Stays, NEW S \in SUBSET DOMAIN ledger
  PROVE  AmountIn(ledger', S) = AmountIn(ledger, S) /\ AmountIn(ledger, S) \in Nat
<1>1. PICK rows \in Seq(EntryRow), all \in Seq(EntryRow) : rows = ledger /\ all = ledger'
  BY DEF EngineInv, RowsTyped, LedgerRows
<1>2. S \in SUBSET DOMAIN rows /\ S \subseteq DOMAIN all /\ \A i \in S : all[i].amount = rows[i].amount
  BY <1>1 DEF Stays
<1>3. AmountIn(all, S) = AmountIn(rows, S)
  BY <1>2, AmountKept
<1>4. AmountIn(rows, S) \in Nat
  BY <1>2, AmountsNat
<1> QED
  BY <1>1, <1>3, <1>4

LEMMA MintsStay ==
  ASSUME Stays, NEW n, NEW K \in SUBSET Issuing,
         \A i \in Added : ledger'[i].kind \notin K \/ ledger'[i].epoch # n
  PROVE  /\ MintsIn(n, K)' = MintsIn(n, K) /\ MintsIn(n, K) \in SUBSET DOMAIN ledger
         /\ \A m : {i \in MintsIn(n, K)' : ledger'[i].member = m} = {i \in MintsIn(n, K) : ledger[i].member = m}
<1>1. \A i \in DOMAIN ledger' : i \in DOMAIN ledger \/ i \in Added
  BY DEF Added
<1>2. MintsIn(n, K) = {i \in DOMAIN ledger : ledger[i].epoch = n /\ ledger[i].kind \in K}
  BY DEF MintsIn, Mints, Issuing
<1>3. MintsIn(n, K)' = {i \in DOMAIN ledger' : ledger'[i].epoch = n /\ ledger'[i].kind \in K}
  BY DEF MintsIn, Mints, Issuing
<1>4. MintsIn(n, K)' = MintsIn(n, K)
  BY <1>1, <1>2, <1>3 DEF Stays
<1> QED
  BY <1>2, <1>4 DEF Stays

\* Nothing is issued in the epochs to come.
LEMMA NothingAhead ==
  ASSUME EngineInv, Numbered, NEW n \in Nat, n > Len(epochs), NEW K \in SUBSET Issuing
  PROVE  MintsIn(n, K) = {} /\ AmountIn(ledger, MintsIn(n, K)) = 0
<1>1. DOMAIN epochs = 1 .. Len(epochs) /\ Len(epochs) \in Nat
  BY DEF EngineInv, RowsTyped, LedgerRows
<1>2. ASSUME NEW i \in MintsIn(n, K)
      PROVE  FALSE
  <2>1. i \in DOMAIN ledger /\ ledger[i].kind \in Issuing /\ ledger[i].epoch = n
    BY <1>2 DEF MintsIn, Mints
  <2>2. EntryFits(i)
    BY <2>1 DEF Numbered
  <2>3. n \in DOMAIN epochs
    BY <2>1, <2>2 DEF EntryFits, Issuing
  <2> QED
    BY <1>1, <2>3
<1>3. MintsIn(n, K) = {}
  BY <1>2
<1> QED
  BY <1>3, AmountOfNone

\* A later epoch changes nothing of what the earlier ones have issued.
LEMMA BeforeStays ==
  ASSUME EngineInv, EngineInv', Stays, AddedLast, NEW n \in 1 .. Len(epochs)
  PROVE  /\ Before(n)' = Before(n) /\ Before(n) \in SUBSET DOMAIN ledger
         /\ AmountIn(ledger, Before(n))' = AmountIn(ledger, Before(n))
         /\ AmountIn(ledger, Before(n)) \in Nat
<1>1. Len(epochs) \in Nat
  BY DEF EngineInv, RowsTyped, LedgerRows
<1>2. ASSUME NEW k \in 1 .. n - 1
      PROVE  /\ MintsIn(k, {"regular", "advance", "execution"})' = MintsIn(k, {"regular", "advance", "execution"})
             /\ MintsIn(k, {"regular", "advance", "execution"}) \in SUBSET DOMAIN ledger
  <2>1. k # Len(epochs)
    BY <1>1
  <2>2. \A i \in Added : ledger'[i].kind \notin Issuing \/ ledger'[i].epoch # k
    BY <2>1 DEF AddedLast, Issuing
  <2>3. Issuing = {"regular", "advance", "execution"}
    BY DEF Issuing
  <2> QED
    BY <2>2, <2>3, MintsStay
<1>3. Before(n)' = Before(n) /\ Before(n) \in SUBSET DOMAIN ledger
  BY <1>2 DEF Before
<1>4. AmountIn(ledger', Before(n)) = AmountIn(ledger, Before(n)) /\ AmountIn(ledger, Before(n)) \in Nat
  BY <1>3, AmountStays
<1> QED
  BY <1>3, <1>4

\* The sums of the bases.
LEMMA BasesStay ==
  ASSUME EngineInv, EngineInv', NEW n \in 1 .. Len(epochs) + 1, DOMAIN epochs \subseteq DOMAIN epochs',
         \A k \in DOMAIN epochs : epochs'[k].base = epochs[k].base
  PROVE  Bases(n)' = Bases(n) /\ Bases(n) \in Nat
<1>1. DOMAIN epochs = 1 .. Len(epochs) /\ Len(epochs) \in Nat /\ \A k \in DOMAIN epochs : epochs[k].base \in Nat
  <2>1. epochs \in Seq(EpochRow)
    BY DEF EngineInv, RowsTyped, LedgerRows
  <2>2. \A k \in DOMAIN epochs : epochs[k] \in EpochRow
    BY <2>1
  <2> QED
    BY <2>1, <2>2 DEF EpochRow
<1> DEFINE f == [k \in DOMAIN epochs |-> epochs[k].base]
           g == [k \in DOMAIN epochs' |-> epochs'[k].base]
<1>2. PICK S : S = 1 .. n - 1
  OBVIOUS
<1>3. IsFiniteSet(S) /\ \A k \in S : k \in DOMAIN epochs
  BY <1>1, <1>2, FS_Interval
<1>4. \A k \in S : f[k] \in Nat /\ f[k] \in Int /\ f[k] = g[k]
  BY <1>1, <1>3
<1> HIDE DEF f, g
<1>5. SumFunctionOnSet(f, S) = SumFunctionOnSet(g, S)
  BY <1>3, <1>4, SumCongruence
<1>6. SumFunctionOnSet(f, S) \in Nat
  BY <1>3, <1>4, SumNat
<1> QED
  BY <1>2, <1>5, <1>6 DEF f, g, Bases

LEMMA BasesGrow ==
  ASSUME EngineInv, NEW n \in 1 .. Len(epochs)
  PROVE  Bases(n + 1) = Bases(n) + epochs[n].base
<1>1. DOMAIN epochs = 1 .. Len(epochs) /\ Len(epochs) \in Nat /\ \A k \in DOMAIN epochs : epochs[k].base \in Nat
  <2>1. epochs \in Seq(EpochRow)
    BY DEF EngineInv, RowsTyped, LedgerRows
  <2>2. \A k \in DOMAIN epochs : epochs[k] \in EpochRow
    BY <2>1
  <2> QED
    BY <2>1, <2>2 DEF EpochRow
<1> DEFINE f == [k \in DOMAIN epochs |-> epochs[k].base]
<1>2. PICK S : S = 1 .. n - 1
  OBVIOUS
<1>3. IsFiniteSet(S) /\ n \notin S /\ S \cup {n} = 1 .. (n + 1) - 1 /\ \A k \in S \cup {n} : k \in DOMAIN epochs
  <2>1. n \in Nat \ {0} /\ n - 1 \in Int
    BY <1>1
  <2>2. IsFiniteSet(S)
    BY <1>2, <2>1, FS_Interval
  <2>3. n \notin S /\ S \cup {n} = 1 .. (n + 1) - 1
    BY <1>2, <2>1
  <2>4. \A k \in 1 .. (n + 1) - 1 : k \in DOMAIN epochs
    BY <1>1
  <2> QED
    BY ONLY <2>2, <2>3, <2>4
<1>4. /\ \A k \in S \cup {n} : f[k] \in Int
      /\ f[n] = epochs[n].base
  BY <1>1, <1>3
<1> HIDE DEF f
<1>5. SumFunctionOnSet(f, S \cup {n}) = SumFunctionOnSet(f, S) + f[n]
  BY <1>3, <1>4, SumAdd
<1> QED
  BY <1>2, <1>3, <1>4, <1>5 DEF f, Bases

\* A mint or an execution adds to the meters what it adds to the ledger.
LEMMA IssuedMints ==
  ASSUME EngineInv, EngineInv', Stays, NEW es \in Seq(EntryRow), NEW m \in Members, NEW n \in Nat,
         NEW now \in Nat, NEW later \in Nat, Issues(es, m, n, now, later)
  PROVE  /\ AmountIn(ledger, MintsIn(n, {"regular"}))' = AmountIn(ledger, MintsIn(n, {"regular"})) + now
         /\ AmountIn(ledger, MintsIn(n, {"advance", "execution"}))'
              = AmountIn(ledger, MintsIn(n, {"advance", "execution"})) + later
         /\ AmountIn(ledger, EarnedBy(n, m))' = AmountIn(ledger, EarnedBy(n, m)) + now
         /\ \A x \in Members \ {m} :
              AmountIn(ledger, EarnedBy(n, x))' = AmountIn(ledger, EarnedBy(n, x))
<1>1. PICK rows \in Seq(EntryRow), all \in Seq(EntryRow) : rows = ledger /\ all = ledger'
  BY DEF EngineInv, RowsTyped, LedgerRows
<1>2. /\ \A i \in DOMAIN ledger : ledger'[i] = ledger[i]
      /\ DOMAIN ledger \subseteq DOMAIN ledger'
  BY IssuedEntries
<1>3. \A i \in Added :
        /\ ledger'[i].member = m /\ ledger'[i].epoch = n /\ ledger'[i].of = 0
        /\ \/ ledger'[i].kind = "regular" /\ ~ledger'[i].pending /\ ledger'[i].amount = now
           \/ /\ ledger'[i].kind \in {"advance", "execution"}
              /\ ledger'[i].pending /\ ledger'[i].amount = later
  BY IssuedEntries
<1>4. Summed(now, later)
  BY IssuedEntries
<1>5. \A i \in DOMAIN ledger' : i \in DOMAIN ledger \/ i \in Added
  BY DEF Added
<1>6. \A i \in Added : i \notin DOMAIN ledger /\ i \in DOMAIN ledger'
  BY DEF Added
<1>7. MintsIn(n, {"regular"})' = MintsIn(n, {"regular"}) \cup Immediate
  BY <1>2, <1>3, <1>5, <1>6 DEF MintsIn, Mints, Immediate
<1>8. MintsIn(n, {"advance", "execution"})' = MintsIn(n, {"advance", "execution"}) \cup Deferred
  BY <1>2, <1>3, <1>5, <1>6 DEF MintsIn, Mints, Deferred
<1>9. EarnedBy(n, m)' = EarnedBy(n, m) \cup Immediate
  <2>1. EarnedBy(n, m)' = {i \in MintsIn(n, {"regular"})' : ledger'[i].member = m}
    BY DEF EarnedBy
  <2>2. \A i \in MintsIn(n, {"regular"}) : ledger'[i].member = ledger[i].member
    BY <1>2 DEF MintsIn, Mints
  <2>3. \A i \in Immediate : ledger'[i].member = m
    BY <1>3 DEF Immediate
  <2> QED
    BY <1>7, <2>1, <2>2, <2>3 DEF EarnedBy
<1>10. ASSUME NEW x \in Members \ {m}
       PROVE  EarnedBy(n, x)' = EarnedBy(n, x)
  <2>1. EarnedBy(n, x)' = {i \in MintsIn(n, {"regular"})' : ledger'[i].member = x}
    BY DEF EarnedBy
  <2>2. \A i \in MintsIn(n, {"regular"}) : ledger'[i].member = ledger[i].member
    BY <1>2 DEF MintsIn, Mints
  <2>3. \A i \in Immediate : ledger'[i].member = m
    BY <1>3 DEF Immediate
  <2> QED
    BY <1>7, <1>10, <2>1, <2>2, <2>3 DEF EarnedBy
<1>11. /\ MintsIn(n, {"regular"}) \in SUBSET DOMAIN rows /\ MintsIn(n, {"advance", "execution"}) \in SUBSET DOMAIN rows
       /\ \A x : EarnedBy(n, x) \in SUBSET DOMAIN rows
  BY <1>1 DEF MintsIn, Mints, EarnedBy
<1>12. Immediate \in SUBSET (DOMAIN all \ DOMAIN rows) /\ Deferred \in SUBSET (DOMAIN all \ DOMAIN rows)
  BY <1>1 DEF Immediate, Deferred, Added
<1>13. ASSUME NEW S \in SUBSET DOMAIN rows, NEW N \in SUBSET (DOMAIN all \ DOMAIN rows)
       PROVE  AmountIn(all, S \cup N) = AmountIn(rows, S) + AmountIn(all, N)
  <2>1. DOMAIN rows \subseteq DOMAIN all
    BY <1>1, <1>2
  <2>2. \A i \in DOMAIN rows : all[i].amount = rows[i].amount
    BY <1>1, <1>2
  <2>3. /\ AmountIn(all, S \cup N) = AmountIn(rows, S) + AmountIn(all, N)
        /\ AmountIn(rows, S) \in Nat /\ AmountIn(all, N) \in Nat
    BY <2>1, <2>2, AmountGrown
  <2> QED
    BY <2>3
<1>14. AmountIn(all, Immediate) = now /\ AmountIn(all, Deferred) = later
  BY <1>1, <1>4 DEF Summed
<1>15. AmountIn(all, MintsIn(n, {"regular"}) \cup Immediate) = AmountIn(rows, MintsIn(n, {"regular"})) + now
  BY <1>11, <1>12, <1>13, <1>14
<1>16. AmountIn(all, MintsIn(n, {"advance", "execution"}) \cup Deferred)
         = AmountIn(rows, MintsIn(n, {"advance", "execution"})) + later
  BY <1>11, <1>12, <1>13, <1>14
<1>17. AmountIn(all, EarnedBy(n, m) \cup Immediate) = AmountIn(rows, EarnedBy(n, m)) + now
  BY <1>11, <1>12, <1>13, <1>14
<1>18. \A x \in Members \ {m} : AmountIn(ledger, EarnedBy(n, x))' = AmountIn(ledger, EarnedBy(n, x))
  BY <1>1, <1>10, <1>11, AmountStays
<1> QED
  BY <1>1, <1>7, <1>8, <1>9, <1>15, <1>16, <1>17, <1>18

\* The meters of an epoch in which nothing is issued.
LEMMA MetersStay ==
  ASSUME EngineInv, EngineInv', Stays, NEW n \in DOMAIN epochs, Meters(n),
         \A f \in {"base", "debt", "maxAdvance", "regular", "advanced"} : epochs'[n][f] = epochs[n][f],
         \A i \in Added : ledger'[i].kind \notin Issuing \/ ledger'[i].epoch # n
  PROVE  Meters(n)'
<1>1. /\ epochs'[n].base = epochs[n].base /\ epochs'[n].debt = epochs[n].debt
      /\ epochs'[n].maxAdvance = epochs[n].maxAdvance
      /\ epochs'[n].regular = epochs[n].regular /\ epochs'[n].advanced = epochs[n].advanced
  OBVIOUS
<1>2. ASSUME NEW K \in SUBSET Issuing
      PROVE  AmountIn(ledger, MintsIn(n, K))' = AmountIn(ledger, MintsIn(n, K))
  <2>1. \A i \in Added : ledger'[i].kind \notin K \/ ledger'[i].epoch # n
    BY <1>2
  <2>2. MintsIn(n, K)' = MintsIn(n, K) /\ MintsIn(n, K) \in SUBSET DOMAIN ledger
    BY <2>1, MintsStay
  <2> QED
    BY <2>2, AmountStays
<1>3. {"regular"} \in SUBSET Issuing /\ {"advance", "execution"} \in SUBSET Issuing
  BY DEF Issuing
<1>4. /\ AmountIn(ledger, MintsIn(n, {"regular"}))' = AmountIn(ledger, MintsIn(n, {"regular"}))
      /\ AmountIn(ledger, MintsIn(n, {"advance", "execution"}))' = AmountIn(ledger, MintsIn(n, {"advance", "execution"}))
  BY <1>2, <1>3
<1>5. MetersAgree(n) <=>
        /\ epochs[n].regular = AmountIn(ledger, MintsIn(n, {"regular"}))
        /\ epochs[n].advanced = AmountIn(ledger, MintsIn(n, {"advance", "execution"}))
  BY DEF MetersAgree, AmountOver, AmountIn
<1>6. MetersAgree(n)' <=>
        /\ epochs'[n].regular = AmountIn(ledger, MintsIn(n, {"regular"}))'
        /\ epochs'[n].advanced = AmountIn(ledger, MintsIn(n, {"advance", "execution"}))'
  BY DEF MetersAgree, AmountOver, AmountIn
<1>7. MetersAgree(n)'
  BY <1>1, <1>4, <1>5, <1>6 DEF Meters
<1>8. Budget(epochs'[n]) = Budget(epochs[n])
  BY <1>1 DEF Budget
<1> QED
  BY <1>1, <1>7, <1>8 DEF Meters

LEMMA IssuanceIssued ==
  ASSUME EngineInv, EngineInv', Stays, AddedLast, Numbered, Issuance,
         NEW es \in Seq(EntryRow), NEW m \in Members, NEW n \in Nat, NEW now \in Nat, NEW later \in Nat,
         Issues(es, m, n, now, later), policy'.rates = policy.rates
  PROVE  Issuance'
<1>1. /\ DOMAIN epochs = 1 .. Len(epochs) /\ Len(epochs) \in Nat /\ LedgerRows
      /\ DOMAIN epochs' = 1 .. Len(epochs')
  BY DEF EngineInv, RowsTyped, LedgerRows
<1>2. n \in ActiveEpochs /\ Metered(n, now, later)
  BY DEF Issues
<1>3. n \in DOMAIN epochs /\ Len(epochs) > 0
  BY <1>1, <1>2 DEF ActiveEpochs
<1>4. n = Len(epochs)
  BY <1>2, <1>3 DEF Numbered, LastActive
<1>5. /\ Len(epochs') = Len(epochs)
      /\ \A k \in DOMAIN epochs \ {n} : epochs'[k] = epochs[k]
      /\ epochs'[n].regular = epochs[n].regular + now
      /\ epochs'[n].advanced = epochs[n].advanced + later
      /\ epochs'[n].base = epochs[n].base
      /\ epochs'[n].debt = epochs[n].debt /\ epochs'[n].maxAdvance = epochs[n].maxAdvance
  BY <1>1, <1>2, <1>3, MeteredShape
<1>6. epochs[n].regular + now <= Budget(epochs[n]) /\ epochs[n].advanced + later <= epochs[n].maxAdvance
  BY <1>2 DEF Metered
<1>7. /\ AmountIn(ledger, MintsIn(n, {"regular"}))' = AmountIn(ledger, MintsIn(n, {"regular"})) + now
      /\ AmountIn(ledger, MintsIn(n, {"advance", "execution"}))'
           = AmountIn(ledger, MintsIn(n, {"advance", "execution"})) + later
      /\ AmountIn(ledger, EarnedBy(n, m))' = AmountIn(ledger, EarnedBy(n, m)) + now
      /\ \A x \in Members \ {m} : AmountIn(ledger, EarnedBy(n, x))' = AmountIn(ledger, EarnedBy(n, x))
  BY IssuedMints
<1>8. \A k : MetersAgree(k) <=>
        /\ epochs[k].regular = AmountIn(ledger, MintsIn(k, {"regular"}))
        /\ epochs[k].advanced = AmountIn(ledger, MintsIn(k, {"advance", "execution"}))
  BY DEF MetersAgree, AmountOver, AmountIn
<1>9. \A k : MetersAgree(k)' <=>
        /\ epochs'[k].regular = AmountIn(ledger, MintsIn(k, {"regular"}))'
        /\ epochs'[k].advanced = AmountIn(ledger, MintsIn(k, {"advance", "execution"}))'
  BY DEF MetersAgree, AmountOver, AmountIn
<1>10. Meters(n)'
  <2>1. MetersAgree(n)
    BY <1>3 DEF Issuance, Meters
  <2>2. MetersAgree(n)'
    BY <1>5, <1>7, <1>8, <1>9, <2>1
  <2>3. Budget(epochs'[n]) = Budget(epochs[n])
    BY <1>5 DEF Budget
  <2> QED
    BY <1>5, <1>6, <2>2, <2>3 DEF Meters
<1>11. ASSUME NEW k \in DOMAIN epochs \ {n}
       PROVE  Meters(k)'
  <2>1. Meters(k) /\ epochs'[k] = epochs[k]
    BY <1>5 DEF Issuance
  <2>2. \A i \in Added : ledger'[i].kind \notin Issuing \/ ledger'[i].epoch # k
    BY <1>4, <1>11 DEF AddedLast, Issuing
  <2>3. \A f \in {"base", "debt", "maxAdvance", "regular", "advanced"} : epochs'[k][f] = epochs[k][f]
    BY <2>1
  <2> QED
    BY <2>1, <2>2, <2>3, MetersStay
<1>12. ASSUME NEW k \in DOMAIN epochs
       PROVE  Carries(k)'
  <2>1. Carries(k)
    BY DEF Issuance
  <2>2. epochs'[k].debt = epochs[k].debt /\ \A j \in DOMAIN epochs : epochs'[j].base = epochs[j].base
    BY <1>5
  <2>3. Bases(k)' = Bases(k)
    BY <1>1, <1>5, <2>2, BasesStay
  <2>4. AmountIn(ledger, Before(k))' = AmountIn(ledger, Before(k))
    BY <1>1, BeforeStays
  <2> QED
    BY <2>1, <2>2, <2>3, <2>4 DEF Carries
<1>13. ASSUME NEW x \in Members
       PROVE  Earns(x)'
  <2>1. Earns(x) /\ Earns(m)
    BY DEF Issuance
  <2>2. /\ balance'[m].earned = balance[m].earned + now /\ (now > 0 => WithinCap(epochs[n], balance[m].earned, now))
        /\ \A k \in Members \ {m} : balance'[k] = balance[k]
    BY DEF Issues
  <2>3. PICK b \in Nat, c \in Nat : b = balance[m].earned /\ c = balance[x].earned
    BY <1>1 DEF LedgerRows, BalanceRow
  <2>4. PICK cap : cap = BpsOf(epochs[n].base, policy.rates.memberCap)
    OBVIOUS
  <2>5. BpsOf(epochs'[n].base, policy'.rates.memberCap) = cap
    BY <1>5, <2>4
  <2>6. b + now <= cap
    <3>1. CASE now > 0
      BY <2>2, <2>3, <2>4, <3>1 DEF WithinCap
    <3>2. CASE ~(now > 0)
      <4>1. b <= cap
        BY <1>3, <1>4, <2>1, <2>3, <2>4 DEF Earns
      <4>2. b + now = b
        BY <3>2
      <4> QED
        BY <4>1, <4>2
    <3> QED
      BY <3>1, <3>2
  <2>7. CASE x = m
    <3>1. balance'[x].earned = b + now
      BY <2>2, <2>3, <2>7
    <3>2. AmountIn(ledger, EarnedBy(n, m)) = b
      BY <1>4, <2>1, <2>3 DEF Earns
    <3>3. balance'[x].earned = AmountIn(ledger, EarnedBy(n, x))'
      BY <1>7, <2>7, <3>1, <3>2
    <3> QED
      BY <1>4, <1>5, <2>5, <2>6, <3>1, <3>3 DEF Earns
  <2>8. CASE x # m
    <3>1. balance'[x].earned = balance[x].earned
      BY <2>2, <2>8
    <3>2. AmountIn(ledger, EarnedBy(n, x))' = AmountIn(ledger, EarnedBy(n, x))
      BY <1>7, <2>8
    <3>3. balance'[x].earned = AmountIn(ledger, EarnedBy(n, x))'
      BY <1>4, <2>1, <3>1, <3>2 DEF Earns
    <3>4. balance'[x].earned <= cap
      BY <1>3, <1>4, <2>1, <2>4, <3>1 DEF Earns
    <3> QED
      BY <1>4, <1>5, <2>5, <3>3, <3>4 DEF Earns
  <2> QED
    BY <2>7, <2>8
<1> QED
  BY <1>1, <1>5, <1>10, <1>11, <1>12, <1>13 DEF Issuance

\* The rates change when an epoch switch activates a policy, and only then.
LEMMA RatesStay ==
  ASSUME EngineInv, [Next]_vars, Len(epochs') = Len(epochs)
  PROVE  policy'.rates = policy.rates
<1>1. Len(epochs) \in Nat /\ policy \in PolicyRow
  BY DEF EngineInv, RowsTyped, LedgerRows, GovernanceRows
<1>2. LeavesPolicy => policy'.rates = policy.rates
  BY DEF LeavesPolicy
<1>3. ASSUME NEW t \in Txns, SwitchesPolicy(t)
      PROVE  FALSE
  <2>1. Len(epochs') = Len(epochs) + 1
    BY <1>3 DEF SwitchesPolicy
  <2> QED
    BY <1>1, <2>1
<1>4. ASSUME NEW t \in Txns, NEW p \in Proposals, EndsProposal(t, p)
      PROVE  policy'.rates = policy.rates
  <2>1. \A v : policy' = [policy EXCEPT !.pending = v] => policy'.rates = policy.rates
    BY <1>1 DEF PolicyRow
  <2>2. \/ UNCHANGED policy
        \/ policy' = [policy EXCEPT !.pending = PendingVersion(t, proposal[p].about.target)]
    BY <1>4 DEF EndsProposal
  <2> QED
    BY <2>1, <2>2
<1> QED
  BY <1>2, <1>3, <1>4, VersionSteps

\* A correction issues nothing.
LEMMA IssuanceCorrected ==
  ASSUME EngineInv, EngineInv', Stays, AddedLast, Issuance, Corrects, policy'.rates = policy.rates
  PROVE  Issuance'
<1>1. DOMAIN epochs = 1 .. Len(epochs) /\ Len(epochs) \in Nat /\ UNCHANGED epochs
  BY DEF EngineInv, RowsTyped, LedgerRows, Corrects
<1>2. \A i \in Added : ledger'[i].kind \notin Issuing
  BY DEF Corrects, Issuing
<1>3. ASSUME NEW n \in DOMAIN epochs
      PROVE  Meters(n)' /\ Carries(n)'
  <2>1. Meters(n) /\ Carries(n)
    BY DEF Issuance
  <2>2. Meters(n)'
    BY <1>1, <1>2, <2>1, MetersStay
  <2>3. Bases(n)' = Bases(n)
    BY <1>1 DEF Bases
  <2>4. AmountIn(ledger, Before(n))' = AmountIn(ledger, Before(n))
    BY <1>1, BeforeStays
  <2> QED
    BY <1>1, <2>1, <2>2, <2>3, <2>4 DEF Carries
<1>4. ASSUME NEW x \in Members
      PROVE  Earns(x)'
  <2>1. Earns(x) /\ balance'[x].earned = balance[x].earned
    BY DEF Issuance, Corrects
  <2>2. {"regular"} \in SUBSET Issuing
    BY DEF Issuing
  <2>3. EarnedBy(Len(epochs), x)' = EarnedBy(Len(epochs), x) /\ EarnedBy(Len(epochs), x) \in SUBSET DOMAIN ledger
    <3>1. PICK n \in Nat : n = Len(epochs) /\ n = Len(epochs')
      BY <1>1
    <3>2. \A i \in Added : ledger'[i].kind \notin {"regular"} \/ ledger'[i].epoch # n
      BY <1>2, <2>2
    <3>3. /\ MintsIn(n, {"regular"}) \in SUBSET DOMAIN ledger
          /\ \A m : {i \in MintsIn(n, {"regular"})' : ledger'[i].member = m}
                     = {i \in MintsIn(n, {"regular"}) : ledger[i].member = m}
      BY <2>2, <3>2, MintsStay
    <3>4. EarnedBy(n, x)' = EarnedBy(n, x) /\ EarnedBy(n, x) \in SUBSET DOMAIN ledger
      BY <3>3 DEF EarnedBy
    <3> QED
      BY <3>1, <3>4
  <2>4. AmountIn(ledger, EarnedBy(Len(epochs), x))' = AmountIn(ledger, EarnedBy(Len(epochs), x))
    BY <2>3, AmountStays
  <2> QED
    BY <1>1, <2>1, <2>4 DEF Earns
<1> QED
  BY <1>1, <1>3, <1>4 DEF Issuance

\* What an epoch adds to what was issued before the next one.
LEMMA BeforeGrows ==
  ASSUME EngineInv, NEW n \in 1 .. Len(epochs), MetersAgree(n), Before(n) \in SUBSET DOMAIN ledger
  PROVE  AmountIn(ledger, Before(n + 1))
           = AmountIn(ledger, Before(n)) + epochs[n].regular + epochs[n].advanced
<1>1. PICK rows \in Seq(EntryRow) : rows = ledger
  BY DEF EngineInv, RowsTyped, LedgerRows
<1>2. Len(epochs) \in Nat /\ n \in Nat
  BY DEF EngineInv, RowsTyped, LedgerRows
<1>3. PICK B, R, A : B = Before(n) /\ R = MintsIn(n, {"regular"}) /\ A = MintsIn(n, {"advance", "execution"})
  OBVIOUS
<1>4. R \in SUBSET DOMAIN rows /\ A \in SUBSET DOMAIN rows /\ B \in SUBSET DOMAIN rows /\ R \cup A \in SUBSET DOMAIN rows
  BY <1>1, <1>3 DEF MintsIn, Mints
<1>5. MintsIn(n, {"regular", "advance", "execution"}) = R \cup A
  BY <1>3 DEF MintsIn
<1>6. R \cap A = {}
  BY <1>3 DEF MintsIn
<1>7. B \cap (R \cup A) = {}
  <2>1. \A k \in 1 .. n - 1 : k # n
    BY <1>2
  <2>2. \A i \in B : \E k \in 1 .. n - 1 : i \in MintsIn(k, {"regular", "advance", "execution"})
    BY <1>3 DEF Before
  <2> QED
    BY <1>3, <2>1, <2>2 DEF MintsIn
<1>8. Before(n + 1) = B \cup (R \cup A)
  <2>1. 1 .. (n + 1) - 1 = (1 .. n - 1) \cup {n}
    BY <1>2
  <2> QED
    BY <1>3, <1>5, <2>1 DEF Before
<1>9. AmountIn(rows, B \cup (R \cup A)) = AmountIn(rows, B) + AmountIn(rows, R \cup A)
  BY <1>4, <1>7, AmountUnion
<1>10. AmountIn(rows, R \cup A) = AmountIn(rows, R) + AmountIn(rows, A)
  BY <1>4, <1>6, AmountUnion
<1>11. AmountIn(rows, B) \in Nat /\ AmountIn(rows, R) \in Nat /\ AmountIn(rows, A) \in Nat
  BY <1>4, AmountsNat
<1>12. AmountIn(rows, R) = epochs[n].regular /\ AmountIn(rows, A) = epochs[n].advanced
  BY <1>1, <1>3 DEF MetersAgree, AmountOver, AmountIn
<1>13. AmountIn(rows, B \cup (R \cup A)) = AmountIn(rows, B) + epochs[n].regular + epochs[n].advanced
  BY <1>9, <1>10, <1>11, <1>12
<1> QED
  BY <1>1, <1>3, <1>8, <1>13

\* The debt carried on covers what its epoch has advanced and has not paid back.
LEMMA DebtCovers ==
  ASSUME NEW base \in Nat, NEW debt \in Nat, NEW regular \in Nat, NEW advanced \in Nat,
         NEW bases \in Nat, NEW issued \in Nat,
         regular <= Monus(base, debt), issued <= bases + debt
  PROVE  issued + regular + advanced <= bases + base + (advanced + Monus(debt, base))
BY DEF Monus

\* An epoch that begins after the ledger has issued nothing.
LEMMA MetersBegin ==
  ASSUME EngineInv, EngineInv', Numbered, Stays, Added = {}, NEW n \in Nat, n = Len(epochs) + 1,
         NEW e \in EpochRow, epochs'[n] = e, e.regular = 0, e.advanced = 0
  PROVE  /\ Meters(n)'
         /\ \A m \in Members : AmountIn(ledger', EarnedBy(n, m)') = 0
<1>1. n > Len(epochs)
  BY DEF EngineInv, RowsTyped, LedgerRows
<1>2. ASSUME NEW K \in SUBSET Issuing
      PROVE  MintsIn(n, K)' = {}
  <2>1. MintsIn(n, K) = {}
    BY <1>1, NothingAhead
  <2>2. MintsIn(n, K)' = MintsIn(n, K)
    BY MintsStay
  <2> QED
    BY <2>1, <2>2
<1>3. MintsIn(n, {"regular"})' = {} /\ MintsIn(n, {"advance", "execution"})' = {}
  BY <1>2 DEF Issuing
<1>4. AmountIn(ledger', {}) = 0
  BY AmountOfNone
<1>5. MetersAgree(n)' <=>
        /\ epochs'[n].regular = AmountIn(ledger', MintsIn(n, {"regular"})')
        /\ epochs'[n].advanced = AmountIn(ledger', MintsIn(n, {"advance", "execution"})')
  BY DEF MetersAgree, AmountOver, AmountIn
<1>6. MetersAgree(n)'
  BY <1>3, <1>4, <1>5
<1>7. e.base \in Nat /\ e.debt \in Nat /\ e.maxAdvance \in Nat
  BY DEF EpochRow
<1>8. 0 <= Budget(e) /\ 0 <= e.maxAdvance
  BY <1>7 DEF Budget, Monus
<1>9. \A m \in Members : EarnedBy(n, m)' = {}
  BY <1>3 DEF EarnedBy
<1> QED
  BY <1>4, <1>6, <1>8, <1>9 DEF Meters

\* Nobody has earned anything in an epoch that begins.
LEMMA EarnsBegin ==
  ASSUME EngineInv', NEW n \in Nat, Len(epochs') = n, NEW e \in EpochRow, epochs'[n] = e,
         NEW x \in Members, balance'[x].earned = 0, AmountIn(ledger', EarnedBy(n, x)') = 0
  PROVE  Earns(x)'
<1>1. policy' \in PolicyRow
  BY DEF EngineInv, RowsTyped, GovernanceRows, LedgerRows
<1>2. PICK cap \in Nat : cap = policy'.rates.memberCap
  BY <1>1 DEF PolicyRow, RatesOf
<1>3. e.base \in Nat
  BY DEF EpochRow
<1>4. BpsOf(e.base, cap) \in Nat
  BY <1>3, BpsNat
<1>5. 0 <= BpsOf(e.base, cap)
  BY <1>4
<1> QED
  BY <1>2, <1>5 DEF Earns

\* An epoch switch carries what its epoch has issued.
LEMMA IssuanceSwitched ==
  ASSUME EngineInv, EngineInv', Stays, AddedLast, Numbered, Issuance, NEW t \in Txns, closeEpoch(t)
  PROVE  Issuance'
<1>1. PICK n \in Nat, e \in EpochRow :
         /\ n = Len(epochs) /\ n \in DOMAIN epochs /\ DOMAIN epochs = 1 .. n
         /\ Len(epochs') = n + 1 /\ DOMAIN epochs' = 1 .. n + 1
         /\ \A k \in DOMAIN epochs \ {n} : epochs'[k] = epochs[k]
         /\ \A f \in {"opening", "base", "debt", "maxAdvance", "regular", "advanced"} :
              epochs'[n][f] = epochs[n][f]
         /\ epochs'[n + 1] = e
         /\ e = NewEpoch(txn[t].seen.supply, CarriedDebt(epochs[n]), DuePolicy(t))
  BY EpochClosed
<1>2. Added = {}
  <2>1. DOMAIN ledger' = DOMAIN ledger
    BY CloseLedger
  <2> QED
    BY <2>1 DEF Added
<1>3. \A k \in 1 .. n : \A f \in {"base", "debt", "maxAdvance", "regular", "advanced"} : epochs'[k][f] = epochs[k][f]
  BY <1>1
<1>4. \A k \in 1 .. n : epochs'[k].base = epochs[k].base /\ epochs'[k].debt = epochs[k].debt
  BY <1>3
<1>5. \A k \in 1 .. n : Meters(k) /\ Carries(k)
  BY <1>1 DEF Issuance
<1>6. \A k \in 1 .. n : Meters(k)'
  BY <1>1, <1>2, <1>3, <1>5, MetersStay
<1>7. \A k \in 1 .. n + 1 : Bases(k)' = Bases(k) /\ Bases(k) \in Nat
  BY <1>1, <1>4, BasesStay
<1>8. e.regular = 0 /\ e.advanced = 0 /\ e.debt = CarriedDebt(epochs[n])
  BY <1>1 DEF NewEpoch
<1>9. PICK N \in Nat : N = n + 1
  OBVIOUS
<1>10. Meters(N)' /\ \A m \in Members : AmountIn(ledger', EarnedBy(N, m)') = 0
  BY <1>1, <1>2, <1>8, <1>9, MetersBegin
<1>11. \A k \in 1 .. n : Carries(k)'
  BY <1>1, <1>4, <1>5, <1>7, BeforeStays DEF Carries
<1>12. Carries(N)'
  <2>1. n \in 1 .. Len(epochs) /\ N \in 1 .. n + 1 /\ n \in 1 .. n + 1
    BY <1>1, <1>9
  <2>2. Before(n) \in SUBSET DOMAIN ledger /\ AmountIn(ledger, Before(n)) \in Nat
    BY <2>1, BeforeStays
  <2>3. AmountIn(ledger, Before(N)) = AmountIn(ledger, Before(n)) + epochs[n].regular + epochs[n].advanced
    BY <1>5, <1>9, <2>1, <2>2, BeforeGrows DEF Meters
  <2>4. Before(N)' = Before(N) /\ Before(N) \in SUBSET DOMAIN ledger
    <3>1. \A k : /\ MintsIn(k, {"regular", "advance", "execution"})' = MintsIn(k, {"regular", "advance", "execution"})
                 /\ MintsIn(k, {"regular", "advance", "execution"}) \in SUBSET DOMAIN ledger
      <4>1. {"regular", "advance", "execution"} \in SUBSET Issuing
        BY DEF Issuing
      <4> QED
        BY <1>2, <4>1, MintsStay
    <3> QED
      BY <3>1 DEF Before
  <2>5. AmountIn(ledger, Before(N))' = AmountIn(ledger, Before(N))
    BY <2>4, AmountStays
  <2>6. Bases(N) = Bases(n) + epochs[n].base
    BY <1>9, <2>1, BasesGrow
  <2>7. PICK old \in EpochRow : old = epochs[n]
    <3>1. epochs \in Seq(EpochRow)
      BY DEF EngineInv, RowsTyped, LedgerRows
    <3> QED
      BY <1>1, <3>1
  <2>8. old.base \in Nat /\ old.debt \in Nat /\ old.regular \in Nat /\ old.advanced \in Nat
    BY DEF EpochRow
  <2>9. /\ old.regular <= Monus(old.base, old.debt)
        /\ AmountIn(ledger, Before(n)) <= Bases(n) + old.debt
    BY <1>5, <2>1, <2>7 DEF Meters, Carries, Budget
  <2>10. AmountIn(ledger, Before(n)) + old.regular + old.advanced
           <= Bases(n) + old.base + (old.advanced + Monus(old.debt, old.base))
    BY <1>7, <2>1, <2>2, <2>8, <2>9, DebtCovers
  <2>11. epochs'[N].debt = old.advanced + Monus(old.debt, old.base)
    BY <1>1, <1>8, <1>9, <2>7 DEF CarriedDebt
  <2>12. Bases(N)' = Bases(N)
    BY <1>7, <2>1
  <2> QED
    BY <2>3, <2>5, <2>6, <2>7, <2>10, <2>11, <2>12 DEF Carries
<1>13. ASSUME NEW x \in Members
       PROVE  Earns(x)'
  <2>1. balance'[x].earned = 0
    <3>1. balance[x] \in BalanceRow
      BY DEF EngineInv, RowsTyped, LedgerRows
    <3>2. balance'[x] = [balance[x] EXCEPT !.active = @ + balance[x].pending, !.pending = 0, !.earned = 0]
      BY CloseShape
    <3>3. PICK b \in BalanceRow : b = balance[x]
      BY <3>1
    <3>4. balance'[x] = [total |-> b.total, active |-> b.active + b.pending, pending |-> 0, earned |-> 0]
      BY <3>2, <3>3, BalanceMatured
    <3> QED
      BY <3>4
  <2> QED
    BY <1>1, <1>9, <1>10, <2>1, EarnsBegin
<1>14. \A k \in 1 .. n + 1 : k \in 1 .. n \/ k = N
  BY <1>9
<1> QED
  BY <1>1, <1>6, <1>10, <1>11, <1>12, <1>13, <1>14 DEF Issuance

\* The first epoch has issued nothing and owes nothing.
LEMMA IssuanceOpened ==
  ASSUME EngineInv, EngineInv', OneActive', Stays, Numbered, Issuance, NEW t \in Txns, createNextEpoch(t)
  PROVE  Issuance'
<1>1. PICK e \in EpochRow :
         /\ Len(epochs) = 0 /\ Len(epochs') = 1 /\ DOMAIN epochs' = {1} /\ epochs'[1] = e
         /\ e = NewEpoch(txn[t].seen.supply, 0, txn[t].seen.policy.rates)
         /\ UNCHANGED <<supply, ledger, balance, request, policy, versions, proposal>>
  <2>1. LastActive
    BY DEF Numbered
  <2> QED
    BY <2>1, EpochOpened
<1>2. Added = {}
  BY <1>1 DEF Added
<1>3. e.regular = 0 /\ e.advanced = 0 /\ e.debt = 0
  BY <1>1 DEF NewEpoch
<1>4. PICK n \in Nat, z \in Nat : n = 1 /\ z = 0
  OBVIOUS
<1>5. Meters(n)' /\ \A m \in Members : AmountIn(ledger', EarnedBy(n, m)') = 0
  BY <1>1, <1>2, <1>3, <1>4, MetersBegin
<1>6. Carries(n)'
  <2>1. 1 .. n - 1 = {}
    BY <1>4
  <2>2. Before(n)' = {} /\ Bases(n)' = 0
    BY <2>1, SumEmpty DEF Before, Bases
  <2>3. AmountIn(ledger', {}) = 0
    BY AmountOfNone
  <2>4. AmountIn(ledger, Before(n))' = 0 /\ epochs'[n].debt = 0
    BY <1>1, <1>3, <1>4, <2>2, <2>3
  <2> QED
    BY <2>2, <2>4 DEF Carries
<1>7. ASSUME NEW x \in Members
      PROVE  Earns(x)'
  <2>1. EarnedBy(z, x) = {}
    <3>1. \A i \in DOMAIN ledger : ledger[i].kind = "regular" => ledger[i].epoch # 0
      <4>1. \A i \in DOMAIN ledger : EntryFits(i)
        BY DEF Numbered
      <4>2. DOMAIN epochs = 1 .. Len(epochs)
        BY DEF EngineInv, RowsTyped, LedgerRows
      <4>3. \A k \in DOMAIN epochs : k # 0
        BY <1>1, <4>2
      <4> QED
        BY <4>1, <4>3 DEF EntryFits
    <3> QED
      BY <1>4, <3>1 DEF EarnedBy, MintsIn, Mints
  <2>2. balance[x].earned = AmountIn(ledger, EarnedBy(z, x))
    BY <1>1, <1>4 DEF Issuance, Earns
  <2>3. balance'[x].earned = 0
    BY <1>1, <2>1, <2>2, AmountOfNone
  <2> QED
    BY <1>1, <1>4, <1>5, <2>3, EarnsBegin
<1> QED
  BY <1>1, <1>4, <1>5, <1>6, <1>7 DEF Issuance

LEMMA IssuanceStep ==
  ASSUME EngineInv, EngineInv', OneActive', Numbered, Issuance, [Next]_vars
  PROVE  Issuance'
<1>1. Stays /\ AddedLast
  BY LedgerStays, StepAddsLast
<1>2. ASSUME NEW t \in Txns, IssuedBy(t)
      PROVE  Issuance'
  <2>1. PICK es \in Seq(EntryRow), m \in Members, n \in Nat, now \in Nat, later \in Nat :
          Issues(es, m, n, now, later)
    BY <1>2 DEF IssuedBy
  <2>2. n \in ActiveEpochs /\ Metered(n, now, later)
    BY ONLY <2>1 DEF Issues
  <2>3. Len(epochs') = Len(epochs)
    <3>1. LedgerRows
      BY DEF EngineInv, RowsTyped
    <3> QED
      BY <2>2, <3>1, MeteredShape DEF ActiveEpochs
  <2>4. policy'.rates = policy.rates
    BY <2>3, RatesStay
  <2> QED
    BY <1>1, <2>1, <2>4, IssuanceIssued
<1>3. ASSUME Corrects
      PROVE  Issuance'
  <2>1. policy'.rates = policy.rates
    BY <1>3, RatesStay DEF Corrects
  <2> QED
    BY <1>1, <1>3, <2>1, IssuanceCorrected
<1>4. \A t \in Txns : closeEpoch(t) => Issuance'
  BY <1>1, IssuanceSwitched
<1>5. \A t \in Txns : createNextEpoch(t) => Issuance'
  BY <1>1, IssuanceOpened
<1> QED
  BY <1>2, <1>3, <1>4, <1>5, LedgerChanges

LEMMA IssuanceStart == DatabaseInit => Issuance
<1> SUFFICES ASSUME DatabaseInit
             PROVE  Issuance
  OBVIOUS
<1>1. epochs = << >> /\ ledger = << >> /\ balance = [m \in Members |-> NoBalance]
  BY DEF DatabaseInit
<1>2. DOMAIN epochs = {} /\ DOMAIN ledger = {} /\ Len(epochs) = 0
  BY <1>1
<1>3. ASSUME NEW x \in Members
      PROVE  Earns(x)
  <2>1. EarnedBy(Len(epochs), x) = {}
    BY <1>2 DEF EarnedBy, MintsIn, Mints
  <2>2. balance[x].earned = 0
    BY <1>1 DEF NoBalance
  <2> QED
    BY <1>2, <2>1, <2>2, AmountOfNone DEF Earns
<1> QED
  BY <1>2, <1>3 DEF Issuance

\* An epoch issues no more than its budget and its advance allowance, and to a member no
\* more than the cap, and what was issued before an epoch is covered by the budgets until
\* then or carried into it as its debt, whoever mints, splits, executes and reverses at the
\* same time, as long as no two epochs are active.
THEOREM IssuanceIsCarried == Spec /\ []OneActive => []IssuanceCarried
<1>1. DatabaseInit => Numbered /\ Issuance
  BY LayersStart, IssuanceStart
<1>2. EngineInv /\ EngineInv' /\ OneActive' /\ Numbered /\ Issuance /\ [Next]_vars => Numbered' /\ Issuance'
  BY NumberedStep, IssuanceStep
<1>3. EngineInv /\ Numbered /\ Issuance => IssuanceCarried
  BY IssuanceIs
<1> QED
  BY <1>1, <1>2, <1>3, EngineInvHolds, PTL DEF Spec

-----------------------------------------------------------------------------
(***************************************************************************)
(* What an approval is used for.                                           *)
(***************************************************************************)

\* An entry that is there already, one that uses no approval, and the ones that do.
SameUse(i) ==
  /\ i \in DOMAIN ledger
  /\ ledger'[i].kind = ledger[i].kind /\ ledger'[i].member = ledger[i].member
  /\ ledger'[i].contribution = ledger[i].contribution
  /\ ledger'[i].request = ledger[i].request /\ ledger'[i].proposal = ledger[i].proposal
UsesNothing(i) ==
  ledger'[i].kind # "execution" /\ ledger'[i].contribution = None /\ ledger'[i].request \notin Requests
ExecutedBy(t, i) ==
  /\ ledger'[i].contribution = None /\ ledger'[i].request = txn[t].in.request
  /\ \A j \in DOMAIN ledger' : j <= i
MintedBy(t, i) ==
  /\ ledger'[i].kind # "execution"
  /\ ledger'[i].contribution = txn[t].in.id /\ ledger'[i].member = MemberOf(txn[t])
  /\ ledger'[i].proposal = txn[t].in.proposal
  /\ ledger'[i].request \in Requests => ledger'[i].request = txn[t].in.request

\* A request is drawn on by a transaction that has seen it approved, and is spent by it.
Draws(t) ==
  /\ txn[t].in.request \in Requests
  /\ txn[t].seen.request.status = "approved"
  /\ request'[txn[t].in.request].status = "executed"
Commits(t, kind) ==
  txn[t].kind = kind /\ Left(t) = 0 /\ holder[StateLock] = t /\ Finish(t)

UsesNone == \A i \in DOMAIN ledger' : SameUse(i) \/ (i \notin DOMAIN ledger /\ UsesNothing(i))
UsesByExecution(t) ==
  /\ Commits(t, "execute") /\ Draws(t) /\ ~MintedOn(txn[t].in.request)
  /\ \A i \in DOMAIN ledger' : SameUse(i) \/ (i \notin DOMAIN ledger /\ ExecutedBy(t, i))
UsesByMint(t) ==
  /\ Commits(t, "mint") /\ RelatedPartyApproved(MemberOf(txn[t]), txn[t].in.proposal)
  /\ \A i \in DOMAIN ledger' :
       \/ SameUse(i)
       \/ i \notin DOMAIN ledger /\ MintedBy(t, i) /\ (ledger'[i].request \in Requests => Draws(t))

LEMMA MintUses ==
  ASSUME EngineInv, NEW t \in Txns, mintForContribution(t)
  PROVE  UsesByMint(t)
<1>0. RowsTyped
  BY DEF EngineInv
<1>1. Ready(t, "mint") /\ Finish(t)
  BY ONLY mintForContribution(t) DEF mintForContribution
<1>2. Commits(t, "mint")
  BY <1>1, ReadyKnows DEF Commits, TxnKinds
<1>3. PICK regular \in Nat, advance \in Nat, n \in ActiveEpochs : n \in Nat /\ MintWrites(t, n, regular, advance)
  BY MintShape
<1>4. PICK legs \in Seq(EntryRow) : legs = Legs(t, regular, advance) /\ ledger' = ledger \o legs
  BY <1>3 DEF MintWrites
<1>5. \A k \in DOMAIN legs :
        \/ legs[k] = RegularLeg(t, regular)
        \/ advance > 0 /\ legs[k] = AdvanceLeg(t, regular, advance)
  BY <1>1, <1>3, <1>4, LegCases
<1>6. advance > 0 => Draws(t)
  <2> SUFFICES ASSUME advance > 0
               PROVE  Draws(t)
    OBVIOUS
  <2>1. PICK r \in Requests : r = txn[t].in.request
    BY <1>3 DEF MintWrites
  <2>2. SplitAllowed(txn[t].seen.request, txn[t].in.id, epochs[n], advance)
    BY <1>3 DEF MintWrites
  <2>3. request' = [request EXCEPT ![r].status = "executed", ![r].approved = advance]
    BY <1>3, <2>1 DEF MintWrites
  <2>4. DOMAIN request = Requests /\ request[r] \in RequestRow
    BY <1>0 DEF RowsTyped, GovernanceRows, RequestOK
  <2>5. request'[r].status = "executed"
    BY <2>3, <2>4 DEF RequestRow
  <2>6. txn[t].seen.request.status = "approved"
    BY <2>2 DEF SplitAllowed
  <2> QED
    BY <2>1, <2>5, <2>6 DEF Draws
<1>7. /\ \A i \in DOMAIN ledger : ledger'[i] = ledger[i]
      /\ \A i \in DOMAIN ledger' \ DOMAIN ledger : \E k \in DOMAIN legs : ledger'[i] = legs[k]
  <2>1. \A i \in DOMAIN ledger : ledger'[i] = ledger[i]
    BY <1>0, <1>4, Grown
  <2>2. \A i \in DOMAIN ledger' \ DOMAIN ledger : \E k \in DOMAIN legs : i = Len(ledger) + k /\ ledger'[i] = legs[k]
    BY <1>0, <1>4, Grown
  <2> QED
    BY <2>1, <2>2
<1>8. ASSUME NEW i \in DOMAIN ledger', i \notin DOMAIN ledger
      PROVE  MintedBy(t, i) /\ (ledger'[i].request \in Requests => Draws(t))
  <2>1. \/ ledger'[i] = RegularLeg(t, regular)
        \/ advance > 0 /\ ledger'[i] = AdvanceLeg(t, regular, advance)
    BY <1>5, <1>7, <1>8
  <2>2. CASE ledger'[i] = RegularLeg(t, regular)
    BY <2>2, NoneAssumption DEF RegularLeg, MintedBy
  <2>3. CASE advance > 0 /\ ledger'[i] = AdvanceLeg(t, regular, advance)
    BY <1>6, <2>3 DEF AdvanceLeg, MintedBy
  <2> QED
    BY <2>1, <2>2, <2>3
<1>9. RelatedPartyApproved(MemberOf(txn[t]), txn[t].in.proposal)
  BY <1>3 DEF MintWrites
<1> QED
  BY <1>2, <1>7, <1>8, <1>9 DEF UsesByMint, SameUse

LEMMA ExecutionUses ==
  ASSUME EngineInv, NEW t \in Txns, execute(t)
  PROVE  UsesByExecution(t)
<1>0. RowsTyped /\ Len(ledger) \in Nat
  BY DEF EngineInv, RowsTyped, LedgerRows
<1>1. Ready(t, "execute") /\ Finish(t)
  BY ONLY execute(t) DEF execute
<1>2. Commits(t, "execute") /\ txn[t].in.request = txn[t].in.id
  BY <1>1, ReadyKnows DEF Commits, TxnKinds, GivenTo
<1>3. PICK amount \in Nat \ {0}, n \in ActiveEpochs : n \in Nat /\ ExecutionWrites(t, n, amount)
  BY ExecutionShape
<1>4. PICK e \in EntryRow : e = Execution(t, amount) /\ ledger' = ledger \o <<e>>
  BY <1>3 DEF ExecutionWrites
<1>5. PICK es \in Seq(EntryRow) : es = <<e>> /\ Len(es) = 1 /\ DOMAIN es = {1} /\ \A k \in DOMAIN es : es[k] = e
  BY OneEntry
<1>6. PICK r \in Requests : /\ r = txn[t].in.request /\ ~MintedOn(r)
                            /\ txn[t].seen.request.status = "approved"
                            /\ request' = [request EXCEPT ![r].status = "executed", ![r].approved = amount]
  BY <1>2, <1>3 DEF ExecutionWrites
<1>7. request'[r].status = "executed"
  <2>1. DOMAIN request = Requests /\ request[r] \in RequestRow
    BY <1>0 DEF RowsTyped, GovernanceRows, RequestOK
  <2> QED
    BY <1>6, <2>1 DEF RequestRow
<1>8. Draws(t)
  BY <1>6, <1>7 DEF Draws
<1>9. /\ \A i \in DOMAIN ledger : ledger'[i] = ledger[i]
      /\ DOMAIN ledger' = 1 .. Len(ledger) + Len(es)
      /\ \A i \in DOMAIN ledger' \ DOMAIN ledger : \E k \in DOMAIN es : i = Len(ledger) + k /\ ledger'[i] = es[k]
  <2>1. \A i \in DOMAIN ledger : ledger'[i] = ledger[i]
    BY <1>0, <1>4, <1>5, Grown
  <2>2. DOMAIN ledger' = 1 .. Len(ledger) + Len(es)
    BY <1>0, <1>4, <1>5, Grown
  <2>3. \A i \in DOMAIN ledger' \ DOMAIN ledger : \E k \in DOMAIN es : i = Len(ledger) + k /\ ledger'[i] = es[k]
    BY <1>0, <1>4, <1>5, Grown
  <2> QED
    BY <2>1, <2>2, <2>3
<1>10. \A i \in DOMAIN ledger' \ DOMAIN ledger : i = Len(ledger) + 1 /\ ledger'[i] = e
  BY <1>5, <1>9
<1>11. \A j \in DOMAIN ledger' : j <= Len(ledger) + 1
  BY <1>0, <1>5, <1>9
<1>12. e.contribution = None /\ e.request = txn[t].in.request
  BY <1>2, <1>4 DEF Execution
<1>13. ASSUME NEW i \in DOMAIN ledger', i \notin DOMAIN ledger
       PROVE  ExecutedBy(t, i)
  BY <1>10, <1>11, <1>12, <1>13 DEF ExecutedBy
<1> QED
  BY <1>2, <1>6, <1>8, <1>9, <1>13 DEF UsesByExecution, SameUse

LEMMA OthersUse ==
  ASSUME EngineInv, NEW t \in Txns, mintInitialAllocation(t) \/ reverseMint(t) \/ closeEpoch(t)
  PROVE  UsesNone
<1>0. RowsTyped
  BY DEF EngineInv
<1>1. ASSUME NEW es \in Seq(EntryRow), ledger' = ledger \o es,
             \A k \in DOMAIN es :
               es[k].kind # "execution" /\ es[k].contribution = None /\ es[k].request \notin Requests
      PROVE  UsesNone
  <2>1. \A i \in DOMAIN ledger : ledger'[i] = ledger[i]
    BY <1>0, <1>1, Grown
  <2>2. \A i \in DOMAIN ledger' \ DOMAIN ledger : \E k \in DOMAIN es : i = Len(ledger) + k /\ ledger'[i] = es[k]
    BY <1>0, <1>1, Grown
  <2> QED
    BY <1>1, <2>1, <2>2 DEF UsesNone, SameUse, UsesNothing
<1>2. CASE mintInitialAllocation(t)
  <2>1. Ready(t, "genesis") /\ ledger' = ledger \o Allotments(t)
    BY <1>2, GenesisShape
  <2>2. PICK es \in Seq(EntryRow) :
          es = Allotments(t) /\ Len(es) = Len(Allocation) /\ \A k \in 1 .. Len(Allocation) : es[k] = Allotment(t, k)
    BY <2>1, AllotmentsType
  <2>3. DOMAIN es = 1 .. Len(Allocation)
    BY <2>2
  <2>4. \A k : /\ Allotment(t, k).kind = "genesis" /\ Allotment(t, k).contribution = None
               /\ Allotment(t, k).request = None
    BY ONLY TRUE DEF Allotment
  <2>5. \A k \in DOMAIN es :
          es[k].kind # "execution" /\ es[k].contribution = None /\ es[k].request \notin Requests
    BY <2>2, <2>3, <2>4, NoneAssumption
  <2> QED
    BY <1>1, <2>1, <2>2, <2>5
<1>3. CASE reverseMint(t)
  <2>1. PICK amount \in Nat \ {0}, pending \in Nat : ReversalWrites(t, amount, pending)
    BY <1>3, ReversalShape
  <2>2. PICK e \in EntryRow : e = Reversal(t, amount) /\ ledger' = ledger \o <<e>>
    BY <2>1 DEF ReversalWrites
  <2>3. PICK es \in Seq(EntryRow) : es = <<e>> /\ \A k \in DOMAIN es : es[k] = e
    BY OneEntry
  <2>4. e.kind # "execution" /\ e.contribution = None /\ e.request \notin Requests
    BY <2>2, NoneAssumption DEF Reversal
  <2>5. \A k \in DOMAIN es :
          es[k].kind # "execution" /\ es[k].contribution = None /\ es[k].request \notin Requests
    BY <2>3, <2>4
  <2> QED
    BY <1>1, <2>2, <2>3, <2>5
<1>4. CASE closeEpoch(t)
  <2>1. /\ DOMAIN ledger' = DOMAIN ledger
        /\ \A i \in DOMAIN ledger : \A f \in EntryFields \ {"pending"} : ledger'[i][f] = ledger[i][f]
    BY <1>4, CloseLedger
  <2>2. {"kind", "member", "contribution", "request", "proposal"} \subseteq EntryFields \ {"pending"}
    BY DEF EntryFields
  <2>3. \A i \in DOMAIN ledger :
          /\ ledger'[i].kind = ledger[i].kind /\ ledger'[i].member = ledger[i].member
          /\ ledger'[i].contribution = ledger[i].contribution
          /\ ledger'[i].request = ledger[i].request /\ ledger'[i].proposal = ledger[i].proposal
    BY ONLY <2>1, <2>2
  <2> QED
    BY <2>1, <2>3 DEF UsesNone, SameUse
<1> QED
  BY <1>2, <1>3, <1>4

LEMMA UseSteps ==
  ASSUME EngineInv, [Next]_vars
  PROVE  \/ UsesNone
         \/ \E t \in Txns : UsesByExecution(t) \/ UsesByMint(t)
<1>1. UNCHANGED ledger => UsesNone
  BY DEF UsesNone, SameUse
<1>2. create \/ Deadline \/ UNCHANGED vars => UNCHANGED ledger
  BY DEF create, Deadline, vars, tables
<1>3. ASSUME NEW t \in Txns, NEW kind, NEW in, Start(t, kind, in)
      PROVE  UNCHANGED ledger
  BY <1>3 DEF Start, tables
<1>4. ASSUME NEW t \in Txns, LedgerStart(t) \/ StartActivate(t) \/ StartCastVote(t) \/ StartEnd(t)
      PROVE  UNCHANGED ledger
  BY <1>3, <1>4, StartsAre
<1>5. ASSUME NEW t \in Txns, Statement(t) \/ (\E row \in Rows : Lock(t, row)) \/ Rollback(t)
      PROVE  UNCHANGED ledger
  BY <1>5 DEF Statement, Lock, Rollback, tables
<1>6. ASSUME NEW t \in Txns, activate(t) \/ castVote(t) \/ end(t)
      PROVE  UNCHANGED ledger
  BY <1>6 DEF activate, castVote, end
<1>7. ASSUME NEW t \in Txns, createRequest(t) \/ secondApprove(t) \/ reject(t) \/ attachProposal(t) \/ createNextEpoch(t)
      PROVE  UNCHANGED ledger
  BY <1>7 DEF createRequest, secondApprove, reject, attachProposal, createNextEpoch
<1>8. ASSUME NEW t \in Txns, LedgerCommit(t)
      PROVE  UNCHANGED ledger \/ UsesNone \/ UsesByExecution(t) \/ UsesByMint(t)
  BY <1>7, <1>8, MintUses, ExecutionUses, OthersUse DEF LedgerCommit
<1> QED
  BY <1>1, <1>2, <1>4, <1>5, <1>6, <1>8 DEF Next

\* The mint of a related party uses a proposal nothing has been minted on.
RelatedOnce ==
  \A i, j \in DOMAIN ledger :
    /\ ForRelatedParty(i) /\ ForRelatedParty(j)
    /\ ledger[i].proposal = ledger[j].proposal
    /\ ledger[i].proposal \in Proposals
    => ledger[i].contribution = ledger[j].contribution

LEMMA RelatedStep ==
  ASSUME EngineInv, RelatedOnce, [Next]_vars
  PROVE  RelatedOnce'
<1>1. ASSUME NEW i \in DOMAIN ledger', NEW j \in DOMAIN ledger', SameUse(i), SameUse(j),
             ForRelatedParty(i)', ForRelatedParty(j)',
             ledger'[i].proposal = ledger'[j].proposal, ledger'[i].proposal \in Proposals
      PROVE  ledger'[i].contribution = ledger'[j].contribution
  BY <1>1 DEF SameUse, RelatedOnce, ForRelatedParty
<1>2. ASSUME UsesNone
      PROVE  RelatedOnce'
  <2>1. \A i \in DOMAIN ledger' : ForRelatedParty(i)' => SameUse(i)
    BY <1>2 DEF UsesNone, UsesNothing, ForRelatedParty
  <2> QED
    BY <1>1, <2>1 DEF RelatedOnce
<1>3. ASSUME NEW t \in Txns, UsesByExecution(t)
      PROVE  RelatedOnce'
  <2>1. \A i \in DOMAIN ledger' : ForRelatedParty(i)' => SameUse(i)
    BY <1>3 DEF UsesByExecution, ExecutedBy, ForRelatedParty
  <2> QED
    BY <1>1, <2>1 DEF RelatedOnce
<1>4. ASSUME NEW t \in Txns, UsesByMint(t)
      PROVE  RelatedOnce'
  <2>1. \A i \in DOMAIN ledger' : SameUse(i) \/ MintedBy(t, i)
    BY <1>4 DEF UsesByMint
  <2>2. ASSUME NEW i \in DOMAIN ledger', NEW j \in DOMAIN ledger', SameUse(i), MintedBy(t, j),
               ForRelatedParty(j)', ledger'[i].proposal = ledger'[j].proposal, ledger'[i].proposal \in Proposals
        PROVE  FALSE
    <3>1. PICK p \in Proposals : p = txn[t].in.proposal /\ ledger[i].proposal = p
      BY <2>2 DEF SameUse, MintedBy
    <3>2. MemberOf(txn[t]) \in RelatedParties
      BY <2>2 DEF MintedBy, ForRelatedParty
    <3>3. \A k \in DOMAIN ledger : ledger[k].proposal # p
      BY <1>4, <3>1, <3>2, NoneAssumption DEF UsesByMint, RelatedPartyApproved
    <3> QED
      BY <2>2, <3>1, <3>3 DEF SameUse
  <2>3. \A i, j \in DOMAIN ledger' :
          MintedBy(t, i) /\ MintedBy(t, j) => ledger'[i].contribution = ledger'[j].contribution
    BY DEF MintedBy
  <2> QED
    BY <1>1, <2>1, <2>2, <2>3 DEF RelatedOnce
<1> QED
  BY <1>2, <1>3, <1>4, UseSteps

\* One passed proposal authorises the mint of one contribution of a related party, however
\* many mints that name it overlap: who commits second sees the first one's entry.
THEOREM ProposalsMintOnce == Spec => []RelatedOnce
<1>1. DatabaseInit => RelatedOnce
  BY DEF DatabaseInit, RelatedOnce
<1>2. EngineInv /\ RelatedOnce /\ [Next]_vars => RelatedOnce'
  BY RelatedStep
<1> QED
  BY <1>1, <1>2, EngineInvHolds, PTL DEF Spec

\* A mint whose request it has read approved.
Approves(u) == txn[u].kind = "mint" /\ Left(u) = 0 /\ txn[u].seen.request.status = "approved"
ApprovalSeen(u) ==
  Approves(u)' =>
    \/ Approves(u) /\ txn'[u].in = txn[u].in
    \/ /\ UNCHANGED ledger /\ txn'[u].in.request \in Requests
       /\ request[txn'[u].in.request].status = "approved"

LEMMA ApprovalSteps ==
  ASSUME EngineInv, EngineInv', [Next]_vars
  PROVE  \A u \in Txns : ApprovalSeen(u)
<1>1. ASSUME NEW u \in Txns, txn'[u] = txn[u]
      PROVE  ApprovalSeen(u)
  BY <1>1 DEF ApprovalSeen, Approves, Left
<1>2. ASSUME NEW u \in Txns, UNCHANGED ledger, txn[u].seen.request.status # "approved"
      PROVE  ApprovalSeen(u)
  <2>1. SeenStep(u)
    BY SeenSteps
  <2> QED
    BY <1>2, <2>1, NoneAssumption DEF ApprovalSeen, Approves, SeenStep
<1>3. ASSUME NEW t \in Txns, LedgerStart(t) \/ StartActivate(t) \/ StartCastVote(t) \/ StartEnd(t)
      PROVE  \A u \in Txns : ApprovalSeen(u)
  <2>1. \A u \in Txns \ {t} : txn'[u] = txn[u]
    BY <1>3, StartTakes
  <2>2. PICK kind \in TxnKinds : \E in : Start(t, kind, in)
    BY <1>3, StartsAre
  <2>3. UNCHANGED ledger /\ txn[t] = Idle
    BY <2>2 DEF Start, tables
  <2>4. txn[t].seen.request.status # "approved"
    BY <2>3, NoneAssumption DEF Idle, Unseen, NoRequest
  <2> QED
    BY <1>1, <1>2, <2>1, <2>3, <2>4
<1>4. ASSUME NEW t \in Txns, Statement(t)
      PROVE  \A u \in Txns : ApprovalSeen(u)
  <2>1. PICK statement : StatementReads(t, statement)
    BY <1>4, StatementTakes
  <2>2. UNCHANGED ledger
    BY <1>4, StatementTakes DEF tables
  <2>3. \A u \in Txns \ {t} : txn'[u] = txn[u]
    BY <2>1 DEF StatementReads
  <2>4. ASSUME Approves(t)', txn[t].seen.request.status = "approved"
        PROVE  txn'[t].in.request \in Requests /\ request[txn'[t].in.request].status = "approved"
    <3>1. txn[t].kind = "mint" /\ txn'[t].in = txn[t].in
      BY <2>1, <2>4 DEF StatementReads, Approves
    <3>2. Left(t) \in Nat /\ Left(t)' = Left(t) - 1 /\ Left(t)' = 0
      BY <2>1, <2>4 DEF StatementReads, Approves
    <3>3. Left(t) = 1
      BY <3>2
    <3>4. Next1("mint", 1, statement)
      BY <2>1, <3>1, <3>3 DEF StatementReads
    <3>5. statement = "request"
      BY ONLY <3>4 DEF Next1
    <3>6. txn[t].in.request \in Requests
      BY <2>1, <2>4, NoneAssumption DEF StatementReads, Read
    <3>7. PICK x, r : x = txn[t] /\ r = request[txn[t].in.request]
      OBVIOUS
    <3>8. txn'[t].seen = ReadBy(x, "request")
      BY <2>1, <3>5, <3>7 DEF StatementReads
    <3>9. x.seen \in SeenRow /\ x.in.request # None
      BY <2>1, <3>6, <3>7, NoneAssumption DEF StatementReads, TxnRow
    <3>10. ReadBy(x, "request") = [x.seen EXCEPT !.request = r]
      BY <3>7, <3>9 DEF ReadBy
    <3>11. txn'[t].seen.request = r
      BY <3>8, <3>9, <3>10 DEF SeenRow
    <3> QED
      BY <2>4, <3>1, <3>6, <3>7, <3>11 DEF Approves
  <2>5. ApprovalSeen(t)
    BY <1>2, <2>2, <2>4 DEF ApprovalSeen
  <2> QED
    BY <1>1, <2>3, <2>5
<1>5. ASSUME NEW t \in Txns, NEW row \in Rows, Lock(t, row)
      PROVE  \A u \in Txns : ApprovalSeen(u)
  <2>1. row \in txn[t].rows /\ DOMAIN txn = Txns /\ TxnRow(txn[t])
    BY <1>5 DEF Lock, EngineInv, TxnsTyped
  <2>2. PICK rows, seen : rows = txn[t].rows \ {row} /\ seen = LockedBy(t, row)
    OBVIOUS
  <2>3. txn' = [txn EXCEPT ![t].rows = rows, ![t].seen = seen]
    BY <1>5, <2>2 DEF Lock
  <2>4. /\ txn'[t].kind = txn[t].kind /\ txn'[t].in = txn[t].in /\ txn'[t].todo = txn[t].todo
        /\ txn'[t].seen = seen /\ \A u \in Txns \ {t} : txn'[u] = txn[u]
    BY <2>1, <2>3 DEF TxnRow
  <2>5. seen.request = txn[t].seen.request
    BY <2>1, <2>2, LockedRead
  <2>6. ApprovalSeen(t)
    BY <2>4, <2>5 DEF ApprovalSeen, Approves, Left
  <2> QED
    BY <1>1, <2>4, <2>6
<1>6. ASSUME NEW t \in Txns, Finish(t)
      PROVE  \A u \in Txns : ApprovalSeen(u)
  <2>1. txn'[t] = Idle /\ \A u \in Txns \ {t} : txn'[u] = txn[u]
    BY <1>6 DEF Finish, EngineInv, TxnsTyped
  <2>2. ~Approves(t)'
    BY <2>1, NoneAssumption DEF Approves, Idle
  <2> QED
    BY <1>1, <2>1, <2>2 DEF ApprovalSeen
<1>7. create \/ Deadline \/ UNCHANGED vars => UNCHANGED txn
  BY DEF create, Deadline, vars
<1> QED
  BY <1>1, <1>3, <1>4, <1>5, <1>6, <1>7, CommitFinishes DEF Next

\* A second approval finds its request still waiting for it.
PromptApprovals ==
  \A t \in Txns : secondApprove(t) => request[txn[t].in.id].status = "pending_second_approval"

\* A request that has been used is not approved again.
Closed(r) == request[r].status \in {"executed", "rejected"}

LEMMA ClosedStays ==
  ASSUME EngineInv, [Next]_vars, [PromptApprovals]_vars, NEW r \in Requests, Closed(r)
  PROVE  Closed(r)'
<1>1. DOMAIN request = Requests /\ request[r] \in RequestRow /\ request[r].status \in {"executed", "rejected"}
  BY DEF EngineInv, RowsTyped, GovernanceRows, RequestOK, Closed
<1>2. UNCHANGED request => Closed(r)'
  BY DEF Closed
<1>3. UNCHANGED vars \/ create \/ Deadline => UNCHANGED request
  BY DEF vars, tables, create, Deadline
<1>4. ASSUME NEW i, NEW new, request' = [request EXCEPT ![i] = new], i = r => new.status \in {"executed", "rejected"}
      PROVE  Closed(r)'
  BY <1>1, <1>4 DEF Closed
<1>5. ASSUME NEW t \in Txns, secondApprove(t)
      PROVE  Closed(r)'
  <2>1. txn[t].in.id # r
    <3>1. Ready(t, "secondApprove")
      BY <1>5 DEF secondApprove
    <3>2. txn[t] # Idle
      BY <3>1, NoneAssumption DEF Ready, Idle
    <3>3. txn'[t] = Idle
      BY <1>5 DEF secondApprove, Finish, EngineInv, TxnsTyped
    <3>4. PromptApprovals
      BY <3>2, <3>3 DEF vars
    <3> QED
      BY <1>1, <1>5, <3>4 DEF PromptApprovals
  <2>2. PICK i : i = txn[t].in.id
    OBVIOUS
  <2>3. request' = [request EXCEPT ![i].status = "approved", ![i].second = TRUE]
    BY <1>5, <2>2 DEF secondApprove
  <2>4. request'[r] = request[r]
    BY <1>1, <2>1, <2>2, <2>3
  <2> QED
    BY <1>1, <2>4 DEF Closed
<1>6. ASSUME NEW t \in Txns, reject(t)
      PROVE  Closed(r)'
  <2>1. PICK i : i = txn[t].in.id
    OBVIOUS
  <2>2. request' = [request EXCEPT ![i].status = "rejected"]
    BY <1>6, <2>1 DEF reject
  <2>3. request'[r].status = IF i = r THEN "rejected" ELSE request[r].status
    BY <1>1, <2>2 DEF RequestRow
  <2> QED
    BY <1>1, <2>3 DEF Closed
<1>7. ASSUME NEW t \in Txns, attachProposal(t)
      PROVE  Closed(r)'
  <2>1. PICK i, p : i = txn[t].in.id /\ p = txn[t].in.proposal
    OBVIOUS
  <2>2. request' = [request EXCEPT ![i].proposal = p]
    BY <1>7, <2>1 DEF attachProposal
  <2>3. request'[r].status = request[r].status
    BY <1>1, <2>2 DEF RequestRow
  <2> QED
    BY <1>1, <2>3 DEF Closed
<1>8. ASSUME NEW t \in Txns, createRequest(t)
      PROVE  Closed(r)'
  <2>1. PICK i, new : request[i] = NoRequest /\ request' = [request EXCEPT ![i] = new]
    BY <1>8 DEF createRequest
  <2>2. i # r
    BY <1>1, <2>1, NoneAssumption DEF NoRequest
  <2> QED
    BY <1>4, <2>1, <2>2
<1>9. ASSUME NEW i, NEW amount, request' = [request EXCEPT ![i].status = "executed", ![i].approved = amount]
      PROVE  Closed(r)'
  <2>1. request'[r].status = IF i = r THEN "executed" ELSE request[r].status
    BY <1>1, <1>9 DEF RequestRow
  <2> QED
    BY <1>1, <2>1 DEF Closed
<1>10. ASSUME NEW t \in Txns, mintForContribution(t) \/ execute(t)
       PROVE  Closed(r)'
  <2>1. CASE mintForContribution(t)
    <3>1. PICK regular \in Nat, advance \in Nat, n \in ActiveEpochs : MintWrites(t, n, regular, advance)
      BY <2>1, MintShape
    <3>2. \/ UNCHANGED request
          \/ request' = [request EXCEPT ![txn[t].in.request].status = "executed",
                                        ![txn[t].in.request].approved = advance]
      BY <3>1 DEF MintWrites
    <3> QED
      BY <1>2, <1>9, <3>2
  <2>2. CASE execute(t)
    <3>1. PICK amount \in Nat \ {0}, n \in ActiveEpochs : ExecutionWrites(t, n, amount)
      BY <2>2, ExecutionShape
    <3>2. request' = [request EXCEPT ![txn[t].in.id].status = "executed", ![txn[t].in.id].approved = amount]
      BY <3>1 DEF ExecutionWrites
    <3> QED
      BY <1>9, <3>2
  <2> QED
    BY <1>10, <2>1, <2>2
<1>11. ASSUME NEW t \in Txns, end(t)
       PROVE  Closed(r)'
  <2>1. \/ UNCHANGED request
        \/ \E i : /\ request[i].status = "pending_proposal"
                  /\ request' = [request EXCEPT ![i].status = "approved"]
    BY <1>11 DEF end, Settle
  <2>2. ASSUME NEW i, request[i].status = "pending_proposal", request' = [request EXCEPT ![i].status = "approved"]
        PROVE  Closed(r)'
    <3>1. i # r
      BY <1>1, <2>2
    <3>2. request'[r] = request[r]
      BY <1>1, <2>2, <3>1
    <3> QED
      BY <1>1, <3>2 DEF Closed
  <2> QED
    BY <1>2, <2>1, <2>2
<1>12. ASSUME NEW t \in Txns, LedgerCommit(t)
       PROVE  UNCHANGED request \/ Closed(r)'
  BY <1>5, <1>6, <1>7, <1>8, <1>10, <1>12, RequestUntouched DEF LedgerCommit
<1> QED
  BY <1>2, <1>3, <1>11, <1>12, RequestUntouched DEF Next

\* A request that has a mint is closed, and a mint that has read its request approved holds
\* the state, so nobody else mints on it.
Used ==
  /\ \A i \in DOMAIN ledger : ledger[i].kind = "execution" => ledger[i].request \in Requests
  /\ \A i \in DOMAIN ledger : ledger[i].request \in Requests => Closed(ledger[i].request)
  /\ \A u \in Txns : Approves(u) => ~MintedOn(txn[u].in.request)
  /\ \A i \in DOMAIN ledger : ExecutesAlone(i)

LEMMA ApproverHolds ==
  ASSUME EngineInv, NEW u \in Txns, Approves(u)
  PROVE  holder[StateLock] = u
<1>1. txn[u].kind = "mint" /\ Left(u) = 0 /\ StateKnown(u) /\ Ordered(u)
  BY DEF EngineInv, Sound, Locks, Approves
<1>2. Rank(StateLock) = 4 /\ Level("mint", 0) = 5
  BY DEF Rank, StateLock, Level
<1>3. StateLock \notin txn[u].rows
  BY <1>1, <1>2 DEF Ordered
<1> QED
  BY <1>1, <1>3 DEF StateKnown, StateTaken

LEMMA UsedStep ==
  ASSUME EngineInv, EngineInv', Used, [Next]_vars, [PromptApprovals]_vars
  PROVE  Used'
<1>1. /\ DOMAIN ledger = 1 .. Len(ledger) /\ DOMAIN ledger' = 1 .. Len(ledger') /\ Stays
      /\ \A i \in DOMAIN ledger' : i \notin DOMAIN ledger => \A j \in DOMAIN ledger : j <= i
  <2>1. /\ DOMAIN ledger = 1 .. Len(ledger) /\ DOMAIN ledger' = 1 .. Len(ledger')
        /\ Len(ledger) \in Nat /\ Len(ledger') \in Nat
    BY DEF EngineInv, RowsTyped, LedgerRows
  <2>2. \A i \in DOMAIN ledger' : i \notin DOMAIN ledger => \A j \in DOMAIN ledger : j <= i
    BY <2>1
  <2> QED
    BY <2>1, <2>2, LedgerStays
<1>2. \A u \in Txns : ApprovalSeen(u)
  BY ApprovalSteps
<1>3. ASSUME NEW u \in Txns, Approves(u)', UNCHANGED ledger, txn'[u].in.request \in Requests,
             request[txn'[u].in.request].status = "approved"
      PROVE  ~MintedOn(txn[u].in.request)'
  BY <1>3 DEF Used, Closed, MintedOn
<1>4. ASSUME NEW r \in Requests, Closed(r)
      PROVE  Closed(r)'
  BY <1>4, ClosedStays
<1>5. ASSUME NEW i \in DOMAIN ledger', SameUse(i)
      PROVE  /\ ledger'[i].kind = "execution" => ledger'[i].request \in Requests
             /\ ledger'[i].request \in Requests => Closed(ledger[i].request)'
  <2>1. i \in DOMAIN ledger /\ ledger'[i].kind = ledger[i].kind /\ ledger'[i].request = ledger[i].request
    BY <1>5 DEF SameUse
  <2>2. ASSUME ledger'[i].request \in Requests
        PROVE  Closed(ledger[i].request)'
    <3>1. PICK r \in Requests : r = ledger'[i].request
      BY <2>2
    <3>2. Closed(r)'
      BY <1>4, <2>1, <3>1 DEF Used
    <3> QED
      BY <3>1, <3>2 DEF Closed
  <2> QED
    BY <2>1, <2>2 DEF Used
<1>6. CASE UsesNone
  <2>1. \A i \in DOMAIN ledger' :
          /\ ledger'[i].kind = "execution" => SameUse(i)
          /\ ledger'[i].request \in Requests => SameUse(i)
    BY <1>6 DEF UsesNone, UsesNothing
  <2>2. ASSUME NEW u \in Txns, Approves(u)'
        PROVE  ~MintedOn(txn[u].in.request)'
    <3>1. CASE Approves(u) /\ txn'[u].in = txn[u].in
      <4>1. ~MintedOn(txn[u].in.request) /\ txn[u].in.request \in Requests
        BY <3>1, NoneAssumption DEF Used, Approves, EngineInv, Sound, Read
      <4> QED
        BY <2>1, <3>1, <4>1 DEF MintedOn, SameUse
    <3> QED
      BY <1>2, <1>3, <2>2, <3>1 DEF ApprovalSeen
  <2>3. ASSUME NEW i \in DOMAIN ledger'
        PROVE  ExecutesAlone(i)'
    <3> SUFFICES ASSUME ledger'[i].kind = "execution", NEW j \in DOMAIN ledger',
                        ledger'[j].request = ledger'[i].request
                 PROVE  j <= i
      BY DEF ExecutesAlone
    <3>1. SameUse(i) /\ ledger'[i].request \in Requests
      BY <1>5, <2>1
    <3>2. SameUse(j)
      BY <2>1, <3>1
    <3> QED
      BY <3>1, <3>2 DEF SameUse, Used, ExecutesAlone
  <2> QED
    BY <1>5, <2>1, <2>2, <2>3 DEF Used
<1>7. ASSUME NEW t \in Txns, UsesByExecution(t) \/ UsesByMint(t)
      PROVE  Used'
  <2>1. /\ Finish(t) /\ holder[StateLock] = t
        /\ \A i \in DOMAIN ledger' :
             \/ SameUse(i)
             \/ /\ i \notin DOMAIN ledger
                /\ ledger'[i].request \in Requests => ledger'[i].request = txn[t].in.request /\ Draws(t)
                /\ \/ ledger'[i].kind # "execution"
                   \/ ledger'[i].request \in Requests /\ \A j \in DOMAIN ledger' : j <= i
    BY <1>7 DEF UsesByExecution, UsesByMint, Commits, ExecutedBy, MintedBy, Draws
  <2>2. Draws(t) => ~MintedOn(txn[t].in.request)
    <3>1. UsesByMint(t) /\ Draws(t) => Approves(t)
      BY DEF UsesByMint, Commits, Draws, Approves
    <3> QED
      BY <1>7, <3>1 DEF UsesByExecution, Used
  <2>3. ASSUME NEW i \in DOMAIN ledger', ledger'[i].request \in Requests
        PROVE  Closed(ledger[i].request)'
    <3>1. CASE SameUse(i)
      BY <1>5, <2>3, <3>1
    <3>2. CASE ledger'[i].request = txn[t].in.request /\ Draws(t)
      BY <3>2 DEF Draws, Closed
    <3> QED
      BY <2>1, <2>3, <3>1, <3>2
  <2>4. ASSUME NEW u \in Txns, Approves(u)'
        PROVE  ~MintedOn(txn[u].in.request)'
    <3>1. u # t
      <4>1. txn'[t] = Idle
        BY <2>1 DEF Finish, EngineInv, TxnsTyped
      <4> QED
        BY <2>4, <4>1, NoneAssumption DEF Approves, Idle
    <3>2. ~Approves(u)
      BY <2>1, <3>1, ApproverHolds
    <3> QED
      BY <1>2, <1>3, <2>4, <3>2 DEF ApprovalSeen
  <2>5. ASSUME NEW i \in DOMAIN ledger'
        PROVE  ExecutesAlone(i)'
    <3> SUFFICES ASSUME ledger'[i].kind = "execution", NEW j \in DOMAIN ledger',
                        ledger'[j].request = ledger'[i].request
                 PROVE  j <= i
      BY DEF ExecutesAlone
    <3>1. CASE SameUse(i)
      <4>1. i \in DOMAIN ledger /\ ledger[i].kind = "execution" /\ ledger[i].request = ledger'[i].request
        BY <3>1 DEF SameUse
      <4>2. ledger[i].request \in Requests
        BY <4>1 DEF Used
      <4>3. CASE SameUse(j)
        BY <4>1, <4>3 DEF SameUse, Used, ExecutesAlone
      <4>4. CASE ledger'[j].request = txn[t].in.request /\ Draws(t)
        <5>1. ledger[i].request = txn[t].in.request
          BY <4>1, <4>4
        <5> QED
          BY <2>2, <4>1, <4>4, <5>1 DEF MintedOn
      <4> QED
        BY <2>1, <4>1, <4>2, <4>3, <4>4
    <3>2. CASE \A k \in DOMAIN ledger' : k <= i
      BY <3>2
    <3> QED
      BY <2>1, <3>1, <3>2
  <2>6. \A i \in DOMAIN ledger' : ledger'[i].kind = "execution" => ledger'[i].request \in Requests
    BY <1>5, <2>1
  <2> QED
    BY <2>3, <2>4, <2>5, <2>6 DEF Used
<1> QED
  BY <1>6, <1>7, UseSteps

LEMMA UsedStart == DatabaseInit => Used
<1> SUFFICES ASSUME DatabaseInit
             PROVE  Used
  OBVIOUS
<1>1. DOMAIN ledger = {}
  BY DEF DatabaseInit
<1>2. \A u \in Txns : ~Approves(u)
  BY NoneAssumption DEF DatabaseInit, Approves, Idle
<1> QED
  BY <1>1, <1>2 DEF Used

\* An approval is used once: an execution mints on a request no mint has used, although
\* the request was read before the locks, and a passed proposal authorises the mint of one
\* contribution, as long as no second approval is written on a request that has moved on.
THEOREM ApprovalsAreUsedOnce == Spec /\ [][PromptApprovals]_vars => []ApprovalsUsedOnce
<1>1. DatabaseInit => Used /\ RelatedOnce
  <2>1. DatabaseInit => RelatedOnce
    BY DEF DatabaseInit, RelatedOnce
  <2> QED
    BY <2>1, UsedStart
<1>2. EngineInv /\ EngineInv' /\ Used /\ RelatedOnce /\ [Next]_vars /\ [PromptApprovals]_vars
      => Used' /\ RelatedOnce'
  BY UsedStep, RelatedStep
<1>3. Used /\ RelatedOnce => ApprovalsUsedOnce
  BY DEF Used, RelatedOnce, ApprovalsUsedOnce
<1> QED
  BY <1>1, <1>2, <1>3, EngineInvHolds, PTL DEF Spec
=============================================================================
