------------------------------ MODULE MCEngine ------------------------------
(* Small communities for the engine.  A seeded one has its initial            *)
(* allocation, a mint of 17 of the 20 of its first budget, an approved advance *)
(* request and a passed related-party proposal; an empty one is seeded first, *)
(* then holds two proposals on the policy, or one on an advance request, or   *)
(* one while a mint is reversed.                                              *)
EXTENDS EngineProperties, TLC

CONSTANTS m1, m2, c0, c1, c2, c3, r1, p1

MCRates == [inflation |-> 1000, maxAdvance |-> 2500, memberCap |-> 9000]
UncappedRates == [MCRates EXCEPT !.memberCap = 10000]
LowerRates == [MCRates EXCEPT !.inflation = 500]
MCAllocation == <<[member |-> m1, amount |-> 100, upTo |-> 100]>>

Work(m, amount) == [member |-> m, amount |-> amount]
MCContributions == 
  (c0 :> Work(m2, 17)) @@ (c1 :> Work(m2, 1)) @@ (c2 :> Work(m1, 3)) @@ (c3 :> Work(m2, 2))
FullContribution ==
  (c0 :> Work(m2, 17)) @@ (c1 :> Work(m1, 3)) @@ (c2 :> Work(m1, 1))
FirstContribution == c1 :> Work(m1, 10)

Call(c, r, p) == [contribution |-> c, request |-> r, proposal |-> p]
MCCalls == {Call(c1, None, p1), Call(c2, r1, None), Call(c3, None, p1)}
PlainCalls == {Call(c1, None, None), Call(c2, r1, None)}
FirstCall == {Call(c1, None, None)}

Whole == [proposal |-> None, voted |-> FALSE, amount |-> 0]
OneToken == [Whole EXCEPT !.amount = 1]
MCReversals == {OneToken}
OneReversal == {Whole}

MCAsks == {[member |-> m1, amount |-> 1, special |-> b, covers |-> {}] : b \in BOOLEAN}

AboutPolicy == [type |-> "token_policy_change", target |-> LowerRates]
AboutAdvance == [type |-> "budget_advance", target |-> r1]
AboutDecision == [type |-> "community_decision", target |-> None]
AboutMember == [type |-> "related_party_mint", target |-> m2]
SeededPurposes == {AboutMember}
MCPurposes == {AboutPolicy, AboutAdvance, AboutDecision}

Interchangeable == Permutations(Txns)
AllInterchangeable == Permutations(Txns) \cup Permutations(Proposals)

-----------------------------------------------------------------------------

SeededInit ==
  /\ epochs = <<[NewEpoch(200, 0, GenesisRates) EXCEPT !.regular = 17]>>
  /\ ledger = <<Entry("genesis", m1, 200, 200, 200),
                [Entry("regular", m2, 17, 17, 217) EXCEPT !.epoch = 1, !.contribution = c0]>>
  /\ supply = 217
  /\ balance = [m \in Members |->
       IF m = m1 THEN [NoBalance EXCEPT !.total = 200, !.active = 200]
       ELSE [total |-> 17, active |-> 17, pending |-> 0, earned |-> 17]]
  /\ request = [r \in Requests |->
       [NoRequest EXCEPT !.status = "approved", !.member = m1, !.asked = 1, !.epoch = 1,
                         !.second = TRUE, !.covers = {c2}]]
  /\ policy = [version |-> 1, rates |-> GenesisRates, pending |-> None]
  /\ versions = {1}
  /\ proposal = [p \in Proposals |->
       [NoProposal EXCEPT !.status = "recorded", !.about = AboutMember, !.over = TRUE, !.epoch = 1,
                          !.supply = 200, !.weight = [m \in Members |-> IF m = m1 THEN 200 ELSE 0],
                          !.eligible = {m1}, !.winner = "approve", !.voters = 1,
                          !.vote = [m \in Members |-> IF m = m1 THEN "approve" ELSE None]]]
  /\ holder = [r \in Rows |-> Free]
  /\ txn = [t \in Txns |-> Idle]

SeededSpec == SeededInit /\ [][Next]_vars

-----------------------------------------------------------------------------

Seeded == Len(epochs) > 0 /\ Len(ledger) > 1

\* Nothing is asked or proposed before the first contribution, which uses up the
\* first budget; the community is seeded once.
SeededFirst ==
  IF Seeded
  THEN /\ Cardinality(ActiveEpochs) = 1
       /\ \A t \in Txns : txn[t].kind \notin {"genesis", "createNext", "mint"}
  ELSE /\ \A p \in Proposals : proposal[p] = NoProposal
       /\ \A r \in Requests : request[r] = NoRequest
       /\ Len(epochs) <= 1
       /\ \A t \in Txns : txn[t].kind \in {None, "genesis", "createNext", "mint"}

Proposed == {p \in Proposals : proposal[p] # NoProposal}
Topics == {proposal[p].about : p \in Proposed}
Requested == \E r \in Requests : request[r] # NoRequest
Open(kind) == \E t \in Txns : txn[t].kind = kind
Reversing == Open("reverse") \/ \E i \in DOMAIN ledger : ledger[i].kind = "reversal"

\* Two proposals on the policy, whose ends and an epoch switch overlap; or one on an
\* advance request within one epoch; or a decision while a mint is reversed.
PolicyTopic ==
  /\ Topics \subseteq {AboutPolicy}
  /\ ~Requested /\ ~Reversing
  /\ \A t \in Txns : txn[t].kind \in {"activate", "castVote"} =>
       /\ txn[t].in.choice # "reject"
       /\ \A u \in Txns \ {t} : txn[u] = Idle
AdvanceTopic ==
  Topics \subseteq {AboutAdvance} /\ Cardinality(Proposed) <= 1 /\ ~Open("close") /\ ~Reversing
DecisionTopic ==
  Topics \subseteq {AboutDecision} /\ Cardinality(Proposed) <= 1 /\ ~Open("close") /\ ~Requested

Bounded == SeededFirst' /\ (PolicyTopic' \/ AdvanceTopic' \/ DecisionTopic')
=============================================================================
