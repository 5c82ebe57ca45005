-------------------------- MODULE MCRecordPipeline --------------------------
(* A ledger of two mints to two members and the reversal of the first.        *)
EXTENDS RecordPipeline, TLC

CONSTANTS r1, r2, r3, m1, m2

Mint(m, seq, balance, supply) ==
  [kind |-> "mint", member |-> m, seq |-> seq, balanceAfter |-> balance,
   supplyAfter |-> supply, original |-> NoRecord]

MCLedger ==
  (r1 :> Mint(m1, 1, 5, 5)) @@ (r2 :> Mint(m2, 2, 3, 8)) @@
  (r3 :> [Mint(m1, 3, 0, 3) EXCEPT !.kind = "reversal", !.original = r1])

MCOneMint == r1 :> Mint(m1, 1, 5, 5)

\* Nobody has asked for the record yet, and no time has passed for it.
Dormant(r) ==
  /\ row[r] = [status |-> "pending", assignedNonce |-> NoNonce, txHash |-> NoTx,
               attemptEpoch |-> 1, age |-> "fresh"]
  /\ \A e \in AttemptEpochs : submitJobs[<<r, e>>] = 0

\* Bound: one record meets faults; without a fault a second one joins it, the other
\* mint or the reversal.
OneOrTwoRecords ==
  LET awake == {r \in Records : ~Dormant(r)'} IN
  \/ awake \subseteq {r1}
  \/ (awake \subseteq {r1, r2} \/ awake \subseteq {r1, r3}) /\ faults' = 0
=============================================================================
