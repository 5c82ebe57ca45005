---------------------- MODULE YouFenGovernanceLedger ------------------------
(***************************************************************************)
(* Safety of the contract's ledger, for every value of the constants: the  *)
(* issuance bound, the governance weights that back every balance, the tally *)
(* that is the snapshot of those who voted, and the running totals, which are *)
(* the sums of the records: balances, budgets and minted totals replay from *)
(* them, a proposal pays one record, a member's holdings keep to the cap and *)
(* advances keep to their tiers.  A step adds one record to each set a total *)
(* is over, or leaves the set alone.                                       *)
(***************************************************************************)
EXTENDS YouFenGovernanceVotes, FiniteSums

(***************************************************************************)
(* What a step does to the ledger.                                         *)
(***************************************************************************)

LedgerKept == UNCHANGED <<ledgerVars, exists, policy, proposalConsumedForMint>>

MintStep ==
  \E m \in Members, c \in Contributions, h \in RecordHashes,
     regular, advance \in Nat, related \in BOOLEAN, p \in ProposalIds :
    executeMint(m, c, h, regular, advance, related, p)

ReversalStep ==
  \E m \in Members, original \in Originals, h \in RecordHashes, amount \in Nat,
     p \in ProposalIds :
    executeReversal(m, original, h, amount, p)

\* Only these four actions write the ledger.
LEMMA NextLedgerStep ==
  ASSUME [Next]_vars
  PROVE  LedgerKept \/ createCommunity \/ rollEpoch \/ MintStep \/ ReversalStep
<1>1. CASE CommunityStep
  <2>1. CASE \E s \in Signers, b \in BOOLEAN : setApprover(s, b)
    BY <2>1 DEF setApprover, communityVars, LedgerKept
  <2>2. CASE \E m \in Members, s \in Signers, auth \in Signers \cup {Owner}, n \in Nonces :
               enrollMember(m, s, auth, n)
    BY <2>2 DEF enrollMember, communityVars, LedgerKept
  <2>3. CASE \E m \in Members, s \in Signers : rotateKey(m, s)
    BY <2>3 DEF rotateKey, communityVars, LedgerKept
  <2>4. CASE pause \/ unpause
    BY <2>4 DEF pause, unpause, communityVars, LedgerKept
  <2> QED
    BY <1>1, <2>1, <2>2, <2>3, <2>4 DEF CommunityStep
<1>2. CASE LedgerStep
  <2>1. Amounts \subseteq Nat
    BY InputAssumption
  <2>2. CASE rollEpoch
    BY <2>2
  <2>3. CASE \E m \in Members, c \in Contributions, h \in RecordHashes,
                regular, advance \in Amounts, related \in BOOLEAN,
                p \in ProposalIds :
               executeMint(m, c, h, regular, advance, related, p)
    BY <2>1, <2>3 DEF MintStep
  <2>4. CASE \E m \in Members, original \in Originals, h \in RecordHashes, amount \in Amounts,
                p \in ProposalIds :
               executeReversal(m, original, h, amount, p)
    BY <2>1, <2>4 DEF ReversalStep
  <2> QED
    BY <1>2, <2>2, <2>3, <2>4 DEF LedgerStep
<1>3. CASE GovernanceStep
  <2>1. ASSUME NEW p \in ProposalIds, NEW kind \in Kinds, NEW ballot \in Ballots,
               NEW endTime \in 0..MaxTime, NEW minVoters \in MinVoterCounts,
               NEW target \in Members, NEW rates \in PolicyRates,
               createProposal(p, kind, ballot, endTime, minVoters, target, rates)
        PROVE  LedgerKept
    BY <2>1 DEF createProposal, communityVars, LedgerKept
  <2>2. ASSUME NEW p \in ProposalIds, NEW m \in Members, NEW option \in Options,
               NEW n \in Nonces, castVote(p, m, option, n)
        PROVE  LedgerKept
    BY <2>2 DEF castVote, communityVars, LedgerKept
  <2>3. ASSUME NEW p \in ProposalIds, finalizeProposal(p) \/ executeProposal(p)
        PROVE  LedgerKept
    BY <2>3 DEF finalizeProposal, executeProposal, communityVars, LedgerKept
  <2> QED
    BY <1>3, <2>1, <2>2, <2>3 DEF GovernanceStep
<1>4. CASE Tick \/ UNCHANGED vars
  BY <1>4 DEF Tick, vars, communityVars, LedgerKept
<1> QED
  BY <1>1, <1>2, <1>3, <1>4 DEF Next

(***************************************************************************)
(* Issuance.  IssuanceCovered is not inductive: rollEpoch needs to know    *)
(* how the epoch it closes came by its tokens.  IssuanceInductive says it: *)
(* what was issued before the epoch is covered by the closed budgets and   *)
(* the inherited debt, and the epoch's regular mints by what the debt      *)
(* leaves of its base budget.                                              *)
(***************************************************************************)

\* The strengthening implies the bound.
LEMMA InductiveCovers ==
  ASSUME TypeOK, IssuanceInductive
  PROVE  IssuanceCovered
BY DEF TypeOK, LedgerTypeOK, EpochType, IssuanceInductive, IssuanceCovered, NextDebt,
       FloorMinus

\* No token is issued before the community exists.
LEMMA InitIssuance == Init => IssuanceInductive
<1> SUFFICES ASSUME Init PROVE IssuanceInductive
  OBVIOUS
<1>1. /\ epoch.regularMinted = 0
      /\ epoch.advanceMinted = 0
      /\ epoch.advanceDebtFromPrev = 0
      /\ epoch.effectiveRegularBudget = FloorMinus(epoch.baseMintBudget, 0)
  BY DEF Init, OpenEpoch
<1>2. epoch.baseMintBudget \in Nat
  BY InitType DEF Init, TypeOK, LedgerTypeOK, EpochType
<1> QED
  BY <1>1, <1>2 DEF Init, IssuanceInductive, FloorMinus

\* Opening the first epoch issues nothing.
LEMMA CreateIssuance ==
  ASSUME TypeOK, TypeOK', IssuanceInductive, createCommunity
  PROVE  IssuanceInductive'
<1>1. /\ epoch'.regularMinted = 0
      /\ epoch'.advanceMinted = 0
      /\ epoch'.advanceDebtFromPrev = 0
      /\ epoch'.effectiveRegularBudget = FloorMinus(epoch'.baseMintBudget, 0)
  BY DEF createCommunity, OpenEpoch
<1>2. issued' = 0
  BY DEF createCommunity, IssuanceInductive
<1>3. granted' \in Nat
  BY DEF TypeOK, LedgerTypeOK
<1>4. exists'
  BY DEF createCommunity
<1>5. epoch'.effectiveRegularBudget \in Nat
  BY DEF TypeOK, LedgerTypeOK, EpochType
<1>6. issued' <= granted' + epoch'.advanceDebtFromPrev
                   + epoch'.regularMinted + epoch'.advanceMinted
  <2>1. \A x \in Nat : 0 <= x + 0 + 0 + 0
    OBVIOUS
  <2> QED
    BY <1>1, <1>2, <1>3, <2>1
<1> QED
  BY <1>1, <1>4, <1>5, <1>6 DEF IssuanceInductive

\* A mint stays within the regular budget or is added to the open epoch's debt.
LEMMA MintIssuance ==
  ASSUME TypeOK, IssuanceInductive,
         NEW m \in Members, NEW c \in Contributions, NEW h \in RecordHashes,
         NEW regular \in Nat, NEW advance \in Nat, NEW related \in BOOLEAN,
         NEW p \in ProposalIds,
         executeMint(m, c, h, regular, advance, related, p)
  PROVE  IssuanceInductive'
<1>1. /\ epoch'.regularMinted = epoch.regularMinted + regular
      /\ epoch'.advanceMinted = epoch.advanceMinted + advance
      /\ epoch'.advanceDebtFromPrev = epoch.advanceDebtFromPrev
      /\ epoch'.baseMintBudget = epoch.baseMintBudget
      /\ epoch'.effectiveRegularBudget = epoch.effectiveRegularBudget
  BY DEF executeMint, ApplyMint, TypeOK, LedgerTypeOK, EpochType
<1>2. issued' = issued + regular + advance /\ granted' = granted /\ exists' = exists /\ exists
  BY DEF executeMint, ApplyMint, communityVars
<1>3. epoch.regularMinted + regular <= epoch.effectiveRegularBudget
  BY DEF executeMint, BudgetOK, TypeOK, LedgerTypeOK, EpochType
<1>4. FloorMinus(epoch'.baseMintBudget, epoch'.advanceDebtFromPrev)
        = FloorMinus(epoch.baseMintBudget, epoch.advanceDebtFromPrev)
  BY <1>1
<1> QED
  BY <1>1, <1>2, <1>3, <1>4 DEF IssuanceInductive, TypeOK, LedgerTypeOK, EpochType

\* A roll hands the uncovered part of what was issued to the next epoch as debt.
LEMMA RollIssuance ==
  ASSUME TypeOK, TypeOK', IssuanceInductive, rollEpoch
  PROVE  IssuanceInductive'
<1>1. /\ epoch'.regularMinted = 0
      /\ epoch'.advanceMinted = 0
      /\ epoch'.advanceDebtFromPrev = NextDebt
      /\ epoch'.effectiveRegularBudget = FloorMinus(epoch'.baseMintBudget, NextDebt)
  BY DEF rollEpoch, OpenEpoch
<1>2. /\ issued' = issued
      /\ granted' = granted + epoch.baseMintBudget
      /\ exists'
  BY DEF rollEpoch, supplyVars
<1>3. issued' <= granted' + NextDebt
  <2>1. issued <= granted + epoch.baseMintBudget + NextDebt
    BY InductiveCovers DEF IssuanceCovered
  <2> QED
    BY <1>2, <2>1
<1>4. 0 <= epoch'.effectiveRegularBudget /\ NextDebt \in Nat /\ granted' \in Nat
  BY <1>1 DEF TypeOK, LedgerTypeOK, EpochType
<1> QED
  BY <1>1, <1>2, <1>3, <1>4 DEF IssuanceInductive

\* A step that leaves supply and epoch alone keeps the strengthening.
LEMMA FrameIssuance ==
  ASSUME IssuanceInductive, UNCHANGED <<supplyVars, epochVars>>, exists => exists'
  PROVE  IssuanceInductive'
BY DEF IssuanceInductive, supplyVars, epochVars

\* Every step preserves the inductive form.
LEMMA NextIssuance ==
  ASSUME TypeOK, IssuanceInductive, [Next]_vars
  PROVE  IssuanceInductive'
<1>1. TypeOK'
  BY NextType
<1>2. CASE MintStep
  BY <1>2, MintIssuance DEF MintStep
<1>3. CASE ReversalStep
  BY <1>3 DEF ReversalStep, executeReversal, IssuanceInductive, epochVars, communityVars
<1>4. CASE LedgerKept
  BY <1>4, FrameIssuance DEF LedgerKept, ledgerVars
<1> QED
  BY <1>1, <1>2, <1>3, <1>4, NextLedgerStep, CreateIssuance, RollIssuance

\* The strengthening holds in every reachable state.
THEOREM IssuanceInductiveHolds == Spec => []IssuanceInductive
<1>1. TypeOK /\ IssuanceInductive /\ [Next]_vars => IssuanceInductive'
  BY NextIssuance
<1> QED
  BY InitIssuance, TypeCorrect, <1>1, PTL DEF Spec

\* Debt is never forgiven: for any genesis, policy rates, amounts and number of
\* epochs, the tokens ever minted stay within the base budgets of the epochs
\* opened so far and the debt the open epoch hands on.
THEOREM IssuanceIsCovered == Spec => []IssuanceCovered
<1>1. TypeOK /\ IssuanceInductive => IssuanceCovered
  BY InductiveCovers
<1> QED
  BY TypeCorrect, IssuanceInductiveHolds, <1>1, PTL

(***************************************************************************)
(* What a read of a checkpoint array finds.                                *)
(***************************************************************************)

\* Regular checkpoints in order, none after sequence number g.
SortedRegs(R, g) ==
  /\ \A i, j \in DOMAIN R : i < j => R[i].seq < R[j].seq
  /\ \A i \in DOMAIN R : R[i].seq <= g

\* Grants in order, none after sequence number g or maturing after epoch n.
SortedGrants(A, g, n) ==
  /\ \A i, j \in DOMAIN A :
       i < j => A[i].seq < A[j].seq /\ A[i].activationEpoch <= A[j].activationEpoch
  /\ \A i \in DOMAIN A : A[i].seq <= g /\ A[i].activationEpoch <= n

\* The last element that a nonempty array offers is its own last.
LEMMA LastChosen ==
  ASSUME NEW n \in Nat, n # 0
  PROVE  (CHOOSE i \in 1..n : \A j \in 1..n : j <= i) = n
<1>1. n \in 1..n /\ \A j \in 1..n : j <= n
  OBVIOUS
<1>2. \A i \in 1..n : (\A j \in 1..n : j <= i) => i = n
  BY <1>1
<1> QED
  BY <1>1, <1>2

\* A read at or after the last sequence number finds the running total.
LEMMA RegReadLast ==
  ASSUME NEW R \in Seq(RegCkptType), NEW s \in Nat, \A i \in DOMAIN R : R[i].seq <= s
  PROVE  RegAt(R, s) = LastReg(R)
<1> DEFINE upTo == {i \in DOMAIN R : R[i].seq <= s}
<1>1. upTo = 1..Len(R) /\ Len(R) \in Nat
  BY LenProperties
<1>2. CASE Len(R) = 0
  <2>1. R = <<>>
    BY <1>2, EmptySeq
  <2> QED
    BY <1>1, <1>2, <2>1 DEF RegAt, LastReg
<1>3. CASE Len(R) # 0
  <2>1. R # <<>>
    BY <1>3, EmptySeq
  <2>2. upTo # {}
    BY <1>1, <1>3
  <2>3. RegAt(R, s) = R[CHOOSE i \in upTo : \A j \in upTo : j <= i].cumRegularGov
    BY <2>2 DEF RegAt
  <2>4. (CHOOSE i \in upTo : \A j \in upTo : j <= i) = Len(R)
    <3> HIDE DEF upTo
    <3> QED
      BY <1>1, <1>3, LastChosen
  <2> QED
    BY <2>1, <2>3, <2>4 DEF LastReg
<1> QED
  BY <1>2, <1>3

\* A read after every grant is made and mature finds the running total.
LEMMA AdvReadLast ==
  ASSUME NEW A \in Seq(GrantType), NEW s \in Nat, NEW e \in Nat,
         \A i \in DOMAIN A : A[i].seq <= s /\ A[i].activationEpoch <= e
  PROVE  AdvAt(A, s, e) = LastAdv(A)
<1> DEFINE mature == {i \in DOMAIN A : A[i].seq <= s /\ A[i].activationEpoch <= e}
<1>1. mature = 1..Len(A) /\ Len(A) \in Nat
  BY LenProperties
<1>2. CASE Len(A) = 0
  <2>1. A = <<>>
    BY <1>2, EmptySeq
  <2> QED
    BY <1>1, <1>2, <2>1 DEF AdvAt, LastAdv
<1>3. CASE Len(A) # 0
  <2>1. A # <<>>
    BY <1>3, EmptySeq
  <2>2. mature # {}
    BY <1>1, <1>3
  <2>3. AdvAt(A, s, e) = A[CHOOSE i \in mature : \A j \in mature : j <= i].cumAdvancePrefix
    BY <2>2 DEF AdvAt
  <2>4. (CHOOSE i \in mature : \A j \in mature : j <= i) = Len(A)
    <3> HIDE DEF mature
    <3> QED
      BY <1>1, <1>3, LastChosen
  <2> QED
    BY <2>1, <2>3, <2>4 DEF LastAdv
<1> QED
  BY <1>2, <1>3

\* A checkpoint with the next sequence number keeps the array sorted; reads after g
\* find its total, reads up to g do not see it.
LEMMA RegPush ==
  ASSUME NEW R \in Seq(RegCkptType), NEW g \in Nat, SortedRegs(R, g),
         NEW x \in RegCkptType, x.seq = g + 1
  PROVE  /\ SortedRegs(Append(R, x), g + 1)
         /\ LastReg(Append(R, x)) = x.cumRegularGov
         /\ \A s \in Nat :
              RegAt(Append(R, x), s) = IF s > g THEN x.cumRegularGov ELSE RegAt(R, s)
<1> DEFINE Q == Append(R, x)
           c == x.cumRegularGov
<1>1. x \in RegCkptType /\ x.seq = g + 1 /\ x.cumRegularGov = c
  OBVIOUS
<1>2. Q = Append(R, x)
  OBVIOUS
<1> HIDE DEF Q, c
<1>3. /\ Q \in Seq(RegCkptType)
      /\ DOMAIN Q = DOMAIN R \cup {Len(R) + 1}
      /\ \A i \in DOMAIN R : Q[i] = R[i]
      /\ Q[Len(R) + 1] = x /\ Len(Q) = Len(R) + 1 /\ Q # <<>>
  BY <1>1, <1>2, AppendProperties, LenProperties
<1>4. \A i \in DOMAIN R : i \in Nat /\ i <= Len(R) /\ R[i].seq \in Nat
  <2>1. \A i \in DOMAIN R : R[i] \in RegCkptType
    OBVIOUS
  <2> QED
    BY <2>1, LenProperties DEF RegCkptType
<1>5. Len(R) \in Nat
  BY LenProperties
<1>6. \A i \in DOMAIN Q : Q[i].seq <= g + 1
  BY <1>1, <1>3, <1>4 DEF SortedRegs
<1>7. SortedRegs(Q, g + 1)
  <2>1. ASSUME NEW i \in DOMAIN Q, NEW j \in DOMAIN Q, i < j
        PROVE  Q[i].seq < Q[j].seq
    <3>1. i \in DOMAIN R
      BY <1>3, <1>4, <1>5, <2>1
    <3>2. CASE j \in DOMAIN R
      BY <1>3, <2>1, <3>1, <3>2 DEF SortedRegs
    <3>3. CASE j = Len(R) + 1
      BY <1>1, <1>3, <1>4, <3>1, <3>3 DEF SortedRegs
    <3> QED
      BY <1>3, <3>2, <3>3
  <2> QED
    BY <1>6, <2>1 DEF SortedRegs
<1>8. LastReg(Q) = c
  BY <1>1, <1>3 DEF LastReg
<1>9. ASSUME NEW s \in Nat PROVE RegAt(Q, s) = IF s > g THEN c ELSE RegAt(R, s)
  <2>1. CASE s > g
    <3>1. \A i \in DOMAIN Q : Q[i].seq \in Nat
      BY <1>1, <1>3, <1>4
    <3>2. \A i \in DOMAIN Q : Q[i].seq <= s
      BY <1>6, <2>1, <3>1
    <3> QED
      BY <1>3, <1>8, <2>1, <3>2, RegReadLast
  <2>2. CASE ~(s > g)
    <3>1. s < x.seq
      BY <1>1, <2>2
    <3>2. RegAt(Append(R, x), s) = RegAt(R, s)
      BY <1>1, <3>1, RegAppendInvisible
    <3> QED
      BY <1>2, <2>2, <3>2
  <2> QED
    BY <2>1, <2>2
<1> QED
  BY <1>7, <1>8, <1>9 DEF Q, c

\* A grant with the next sequence number that matures no earlier than the others keeps
\* the array sorted; it is read after g from its activation epoch on.
LEMMA GrantPush ==
  ASSUME NEW A \in Seq(GrantType), NEW g \in Nat, NEW n \in Nat, SortedGrants(A, g, n),
         NEW x \in GrantType, x.seq = g + 1, x.activationEpoch = n
  PROVE  /\ SortedGrants(Append(A, x), g + 1, n)
         /\ LastAdv(Append(A, x)) = x.cumAdvancePrefix
         /\ \A s, e \in Nat :
              AdvAt(Append(A, x), s, e) =
                IF s > g /\ e >= n THEN x.cumAdvancePrefix ELSE AdvAt(A, s, e)
<1> DEFINE Q == Append(A, x)
           c == x.cumAdvancePrefix
<1>1. x \in GrantType /\ x.seq = g + 1 /\ x.activationEpoch = n /\ x.cumAdvancePrefix = c
  OBVIOUS
<1>2. Q = Append(A, x)
  OBVIOUS
<1> HIDE DEF Q, c
<1>3. /\ Q \in Seq(GrantType)
      /\ DOMAIN Q = DOMAIN A \cup {Len(A) + 1}
      /\ \A i \in DOMAIN A : Q[i] = A[i]
      /\ Q[Len(A) + 1] = x /\ Len(Q) = Len(A) + 1 /\ Q # <<>>
  BY <1>1, <1>2, AppendProperties, LenProperties
<1>4. \A i \in DOMAIN A : /\ i \in Nat /\ i <= Len(A)
                          /\ A[i].seq \in Nat /\ A[i].activationEpoch \in Nat
  <2>1. \A i \in DOMAIN A : A[i] \in GrantType
    OBVIOUS
  <2> QED
    BY <2>1, LenProperties DEF GrantType
<1>5. Len(A) \in Nat
  BY LenProperties
<1>6. \A i \in DOMAIN Q : Q[i].seq <= g + 1 /\ Q[i].activationEpoch <= n
  BY <1>1, <1>3, <1>4 DEF SortedGrants
<1>7. SortedGrants(Q, g + 1, n)
  <2>1. ASSUME NEW i \in DOMAIN Q, NEW j \in DOMAIN Q, i < j
        PROVE  Q[i].seq < Q[j].seq /\ Q[i].activationEpoch <= Q[j].activationEpoch
    <3>1. i \in DOMAIN A
      BY <1>3, <1>4, <1>5, <2>1
    <3>2. CASE j \in DOMAIN A
      BY <1>3, <2>1, <3>1, <3>2 DEF SortedGrants
    <3>3. CASE j = Len(A) + 1
      BY <1>1, <1>3, <1>4, <3>1, <3>3 DEF SortedGrants
    <3> QED
      BY <1>3, <3>2, <3>3
  <2> QED
    BY <1>6, <2>1 DEF SortedGrants
<1>8. LastAdv(Q) = c
  BY <1>1, <1>3 DEF LastAdv
<1>9. ASSUME NEW s \in Nat, NEW e \in Nat
      PROVE  AdvAt(Q, s, e) = IF s > g /\ e >= n THEN c ELSE AdvAt(A, s, e)
  <2>1. CASE s > g /\ e >= n
    <3>1. \A i \in DOMAIN Q : Q[i].seq \in Nat /\ Q[i].activationEpoch \in Nat
      BY <1>1, <1>3, <1>4
    <3>2. \A i \in DOMAIN Q : Q[i].seq <= s /\ Q[i].activationEpoch <= e
      BY <1>6, <2>1, <3>1
    <3> QED
      BY <1>3, <1>8, <2>1, <3>2, AdvReadLast
  <2>2. CASE ~(s > g /\ e >= n)
    <3>1. s < x.seq \/ e < x.activationEpoch
      BY <1>1, <2>2
    <3>2. AdvAt(Append(A, x), s, e) = AdvAt(A, s, e)
      BY <1>1, <3>1, AdvAppendInvisible
    <3> QED
      BY <1>2, <2>2, <3>2
  <2> QED
    BY <2>1, <2>2
<1> QED
  BY <1>7, <1>8, <1>9 DEF Q, c

(***************************************************************************)
(* What a mint does to the reads.                                          *)
(***************************************************************************)

\* All grants made so far mature by the epoch after the open one; a member's running
\* totals cover the balance; and while nothing is reversed the community's weight is,
\* at every sequence number and epoch, the sum of its members'.
MembersWeight(s, e) == SumFunction([m \in Members |-> governanceBalanceAt(m, s, e)])

RunningWeight(h) == LastReg(regCkpt[h]) + LastAdv(advGrant[h])

WeightInductive ==
  /\ \A h \in Holders : /\ SortedRegs(regCkpt[h], govSeq)
                        /\ SortedGrants(advGrant[h], govSeq, epoch.epochNumber + 1)
  /\ ~exists => epoch.epochNumber = 0
  /\ \A m \in Members : /\ balances[m] <= RunningWeight(m)
                        /\ reversed = {} => balances[m] = RunningWeight(m)
  /\ reversed = {} => \A s, e \in Nat :
       governanceBalanceAt(Community, s, e) = MembersWeight(s, e)

\* The arrays are of checkpoints and grants, their running totals natural.
LEMMA ArrayTypes ==
  ASSUME TypeOK, NEW h \in Holders
  PROVE  /\ regCkpt[h] \in Seq(RegCkptType) /\ LastReg(regCkpt[h]) \in Nat
         /\ advGrant[h] \in Seq(GrantType) /\ LastAdv(advGrant[h]) \in Nat
         /\ govSeq \in Nat /\ epoch.epochNumber \in Nat
<1>1. regCkpt[h] \in Seq(RegCkptType) /\ advGrant[h] \in Seq(GrantType)
  BY DEF TypeOK, CheckpointTypeOK
<1>2. LastReg(regCkpt[h]) \in Nat
  <2>1. CASE regCkpt[h] = <<>>
    BY <2>1 DEF LastReg
  <2>2. CASE regCkpt[h] # <<>>
    <3>1. regCkpt[h][Len(regCkpt[h])] \in RegCkptType
      BY <1>1, <2>2, LenProperties, EmptySeq, ElementOfSeq
    <3> QED
      BY <2>2, <3>1 DEF LastReg, RegCkptType
  <2> QED
    BY <2>1, <2>2
<1>3. LastAdv(advGrant[h]) \in Nat
  <2>1. CASE advGrant[h] = <<>>
    BY <2>1 DEF LastAdv
  <2>2. CASE advGrant[h] # <<>>
    <3>1. advGrant[h][Len(advGrant[h])] \in GrantType
      BY <1>1, <2>2, LenProperties, EmptySeq, ElementOfSeq
    <3> QED
      BY <2>2, <3>1 DEF LastAdv, GrantType
  <2> QED
    BY <2>1, <2>2
<1>4. govSeq \in Nat /\ epoch.epochNumber \in Nat
  BY DEF TypeOK, CheckpointTypeOK, LedgerTypeOK, EpochType
<1> QED
  BY <1>1, <1>2, <1>3, <1>4

\* Reads are natural numbers.
LEMMA ReadTypes ==
  ASSUME TypeOK, NEW h \in Holders, NEW s \in Nat, NEW e \in Nat
  PROVE  /\ RegAt(regCkpt[h], s) \in Nat /\ AdvAt(advGrant[h], s, e) \in Nat
         /\ governanceBalanceAt(h, s, e) \in Nat
<1>1. RegAt(regCkpt[h], s) \in Nat
  BY ArrayTypes, RegAtType
<1>2. AdvAt(advGrant[h], s, e) \in Nat
  BY ArrayTypes, AdvAtType
<1> QED
  BY <1>1, <1>2 DEF governanceBalanceAt

\* A step adds d to what holder h's regular checkpoints show after the step.
RegMoved(h, d) ==
  /\ SortedRegs(regCkpt'[h], govSeq + 1)
  /\ LastReg(regCkpt'[h]) = LastReg(regCkpt[h]) + d
  /\ \A s \in Nat :
       RegAt(regCkpt'[h], s) = RegAt(regCkpt[h], s) + (IF s > govSeq THEN d ELSE 0)

\* A step adds d to what holder h's grants show after the step, from the next epoch on.
AdvMoved(h, d) ==
  /\ SortedGrants(advGrant'[h], govSeq + 1, epoch.epochNumber + 1)
  /\ LastAdv(advGrant'[h]) = LastAdv(advGrant[h]) + d
  /\ \A s, e \in Nat :
       AdvAt(advGrant'[h], s, e) = AdvAt(advGrant[h], s, e)
         + (IF s > govSeq /\ e > epoch.epochNumber THEN d ELSE 0)

\* Sorted arrays stay sorted as the sequence number and the epoch advance.
LEMMA SortedStays ==
  ASSUME TypeOK, NEW h \in Holders, NEW g \in Nat, g >= govSeq,
         NEW n \in Nat, n >= epoch.epochNumber + 1
  PROVE  /\ SortedRegs(regCkpt[h], govSeq) => SortedRegs(regCkpt[h], g)
         /\ SortedGrants(advGrant[h], govSeq, epoch.epochNumber + 1)
              => SortedGrants(advGrant[h], g, n)
<1>1. /\ \A i \in DOMAIN regCkpt[h] : regCkpt[h][i].seq \in Nat
      /\ \A i \in DOMAIN advGrant[h] : /\ advGrant[h][i].seq \in Nat
                                       /\ advGrant[h][i].activationEpoch \in Nat
  <2>1. /\ \A i \in DOMAIN regCkpt[h] : regCkpt[h][i] \in RegCkptType
        /\ \A i \in DOMAIN advGrant[h] : advGrant[h][i] \in GrantType
    BY ArrayTypes
  <2> QED
    BY <2>1 DEF RegCkptType, GrantType
<1>2. govSeq \in Nat /\ epoch.epochNumber \in Nat
  BY ArrayTypes
<1> QED
  BY <1>1, <1>2 DEF SortedRegs, SortedGrants

\* The regular checkpoints of a mint.
LEMMA MintRegs ==
  ASSUME TypeOK, NEW h \in Holders, SortedRegs(regCkpt[h], govSeq),
         NEW m, NEW regular \in Nat, NEW advance, ApplyMint(m, regular, advance)
  PROVE  RegMoved(h, IF h \in {m, Community} THEN regular ELSE 0)
<1> DEFINE R == regCkpt[h]
<1>1. R \in Seq(RegCkptType) /\ LastReg(R) \in Nat /\ govSeq \in Nat
  BY ArrayTypes
<1>2. \A s \in Nat : s > govSeq => RegAt(R, s) = LastReg(R)
  <2> SUFFICES ASSUME NEW s \in Nat, s > govSeq PROVE RegAt(R, s) = LastReg(R)
    OBVIOUS
  <2>1. \A i \in DOMAIN R : R[i] \in RegCkptType
    BY <1>1
  <2>2. \A i \in DOMAIN R : R[i].seq <= s
    BY <1>1, <2>1 DEF SortedRegs, RegCkptType
  <2> QED
    BY <1>1, <2>2, RegReadLast
<1>3. CASE h \in {m, Community} /\ regular > 0
  <2> DEFINE c == LastReg(R) + regular
             Q == regCkpt'[h]
             x == [seq |-> govSeq + 1, cumRegularGov |-> c]
  <2>1. Q = Append(R, x)
    BY <1>3 DEF ApplyMint, PushRegularDelta
  <2>2. x \in RegCkptType /\ x.seq = govSeq + 1 /\ x.cumRegularGov = c
    BY <1>1 DEF RegCkptType
  <2>3. c = LastReg(R) + regular /\ SortedRegs(R, govSeq)
    OBVIOUS
  <2> HIDE DEF c, Q, R, x
  <2>4. /\ SortedRegs(Q, govSeq + 1)
        /\ LastReg(Q) = c
        /\ \A s \in Nat : RegAt(Q, s) = IF s > govSeq THEN c ELSE RegAt(R, s)
    BY ONLY <1>1, <2>1, <2>2, <2>3, RegPush
  <2>5. ASSUME NEW s \in Nat
        PROVE  RegAt(Q, s) = RegAt(R, s) + (IF s > govSeq THEN regular ELSE 0)
    <3>1. RegAt(R, s) \in Nat
      BY <1>1, RegAtType
    <3> QED
      BY <1>2, <2>3, <2>4, <3>1
  <2> QED
    BY <1>3, <2>3, <2>4, <2>5 DEF RegMoved, Q, R
<1>4. CASE ~(h \in {m, Community} /\ regular > 0)
  <2>1. regCkpt'[h] = R
    <3>1. CASE regular > 0
      BY <1>4, <3>1 DEF ApplyMint, PushRegularDelta
    <3>2. CASE ~(regular > 0)
      BY <3>2 DEF ApplyMint
    <3> QED
      BY <3>1, <3>2
  <2>2. SortedRegs(R, govSeq + 1)
    <3>1. \A i \in DOMAIN R : R[i] \in RegCkptType
      BY <1>1
    <3> QED
      BY <1>1, <3>1 DEF SortedRegs, RegCkptType
  <2>3. (IF h \in {m, Community} THEN regular ELSE 0) = 0
    BY <1>4
  <2>4. \A s \in Nat : RegAt(R, s) = RegAt(R, s) + (IF s > govSeq THEN 0 ELSE 0)
    BY <1>1, RegAtType
  <2>5. RegMoved(h, 0)
    <3>1. LastReg(regCkpt'[h]) = LastReg(regCkpt[h]) + 0
      BY <1>1, <2>1
    <3>2. \A s \in Nat : RegAt(regCkpt'[h], s)
            = RegAt(regCkpt[h], s) + (IF s > govSeq THEN 0 ELSE 0)
      BY <2>1, <2>4
    <3>3. SortedRegs(regCkpt'[h], govSeq + 1)
      BY <2>1, <2>2
    <3> QED
      BY ONLY <3>1, <3>2, <3>3 DEF RegMoved
  <2> QED
    BY <2>3, <2>5
<1> QED
  BY <1>3, <1>4

\* The grants of a mint.
LEMMA MintGrants ==
  ASSUME TypeOK, NEW h \in Holders,
         SortedGrants(advGrant[h], govSeq, epoch.epochNumber + 1),
         NEW m, NEW regular, NEW advance \in Nat, ApplyMint(m, regular, advance)
  PROVE  AdvMoved(h, IF h \in {m, Community} THEN advance ELSE 0)
<1> DEFINE A == advGrant[h]
           n == epoch.epochNumber + 1
<1>1. A \in Seq(GrantType) /\ LastAdv(A) \in Nat /\ govSeq \in Nat /\ n \in Nat
      /\ epoch.epochNumber \in Nat
  BY ArrayTypes
<1>2. \A s, e \in Nat : s > govSeq /\ e >= n => AdvAt(A, s, e) = LastAdv(A)
  <2> SUFFICES ASSUME NEW s \in Nat, NEW e \in Nat, s > govSeq, e >= n
               PROVE  AdvAt(A, s, e) = LastAdv(A)
    OBVIOUS
  <2>1. \A i \in DOMAIN A : A[i] \in GrantType
    BY <1>1
  <2>2. \A i \in DOMAIN A : A[i].seq <= govSeq /\ A[i].activationEpoch <= n
    BY DEF SortedGrants
  <2>3. \A i \in DOMAIN A : A[i].seq \in Nat /\ A[i].activationEpoch \in Nat
    BY <2>1 DEF GrantType
  <2> HIDE DEF A, n
  <2>4. \A i \in DOMAIN A : A[i].seq <= s /\ A[i].activationEpoch <= e
    BY <1>1, <2>2, <2>3
  <2> QED
    BY <1>1, <2>4, AdvReadLast
<1>3. CASE h \in {m, Community} /\ advance > 0
  <2> DEFINE c == LastAdv(A) + advance
             Q == advGrant'[h]
             x == [seq |-> govSeq + 1, activationEpoch |-> n, cumAdvancePrefix |-> c]
  <2>1. Q = Append(A, x)
    BY <1>3 DEF ApplyMint, PushAdvance
  <2>2. x \in GrantType /\ x.seq = govSeq + 1 /\ x.activationEpoch = n /\ x.cumAdvancePrefix = c
    BY <1>1 DEF GrantType
  <2>3. c = LastAdv(A) + advance
    OBVIOUS
  <2>4. SortedGrants(A, govSeq, n)
    OBVIOUS
  <2> HIDE DEF c, Q, A, x
  <2>5. \A e \in Nat : e > epoch.epochNumber <=> e >= n
    BY <1>1
  <2> HIDE DEF n
  <2>6. /\ SortedGrants(Q, govSeq + 1, n)
        /\ LastAdv(Q) = c
        /\ \A s, e \in Nat : AdvAt(Q, s, e) = IF s > govSeq /\ e >= n THEN c ELSE AdvAt(A, s, e)
    BY ONLY <1>1, <2>1, <2>2, <2>4, GrantPush
  <2>7. ASSUME NEW s \in Nat, NEW e \in Nat
        PROVE  AdvAt(Q, s, e) = AdvAt(A, s, e)
                 + (IF s > govSeq /\ e > epoch.epochNumber THEN advance ELSE 0)
    <3>1. AdvAt(A, s, e) \in Nat
      BY <1>1, AdvAtType
    <3>2. AdvAt(Q, s, e) = IF s > govSeq /\ e >= n THEN c ELSE AdvAt(A, s, e)
      BY <2>6
    <3> QED
      BY <1>2, <2>3, <2>5, <3>1, <3>2
  <2> QED
    BY <1>3, <2>3, <2>6, <2>7 DEF AdvMoved, Q, A, n
<1>4. CASE ~(h \in {m, Community} /\ advance > 0)
  <2>1. advGrant'[h] = A
    <3>1. CASE advance > 0
      BY <1>4, <3>1 DEF ApplyMint, PushAdvance
    <3>2. CASE ~(advance > 0)
      BY <3>2 DEF ApplyMint
    <3> QED
      BY <3>1, <3>2
  <2>2. SortedGrants(A, govSeq + 1, n)
    <3>1. \A i \in DOMAIN A : A[i] \in GrantType
      BY <1>1
    <3> QED
      BY <1>1, <3>1 DEF SortedGrants, GrantType
  <2>3. (IF h \in {m, Community} THEN advance ELSE 0) = 0
    BY <1>4
  <2>4. \A s, e \in Nat : AdvAt(A, s, e)
          = AdvAt(A, s, e) + (IF s > govSeq /\ e > epoch.epochNumber THEN 0 ELSE 0)
    BY <1>1, AdvAtType
  <2>5. AdvMoved(h, 0)
    <3>1. LastAdv(advGrant'[h]) = LastAdv(advGrant[h]) + 0
      BY <1>1, <2>1
    <3>2. \A s, e \in Nat : AdvAt(advGrant'[h], s, e)
            = AdvAt(advGrant[h], s, e) + (IF s > govSeq /\ e > epoch.epochNumber THEN 0 ELSE 0)
      BY <2>1, <2>4
    <3>3. SortedGrants(advGrant'[h], govSeq + 1, epoch.epochNumber + 1)
      BY <2>1, <2>2
    <3> QED
      BY ONLY <3>1, <3>2, <3>3 DEF AdvMoved
  <2> QED
    BY <2>3, <2>5
<1> QED
  BY <1>3, <1>4

\* A weight in the next state, read from the arrays of the next state.
LEMMA ReadAfter ==
  ASSUME NEW h, NEW s, NEW e
  PROVE  governanceBalanceAt(h, s, e)' = RegAt(regCkpt'[h], s) + AdvAt(advGrant'[h], s, e)
BY DEF governanceBalanceAt

\* If a step adds the same to the weights of one member and of the community, and
\* changes no other, the community's weight stays the sum.
LEMMA SumKeepsUp ==
  ASSUME TypeOK, TypeOK', NEW m \in Members, NEW s \in Nat, NEW e \in Nat, NEW d \in Int,
         \A h \in Holders : governanceBalanceAt(h, s, e)'
           = governanceBalanceAt(h, s, e) + (IF h \in {m, Community} THEN d ELSE 0),
         governanceBalanceAt(Community, s, e) = MembersWeight(s, e)
  PROVE  governanceBalanceAt(Community, s, e)' = MembersWeight(s, e)'
<1> DEFINE f == [x \in Members |-> governanceBalanceAt(x, s, e)]
           g == [x \in Members |-> governanceBalanceAt(x, s, e)']
           v == f[m] + d
<1>1. /\ f \in [Members -> Int] /\ v \in Int /\ f[m] \in Int
      /\ \A x \in Members : governanceBalanceAt(x, s, e) \in Int
  <2>1. \A x \in Members : governanceBalanceAt(x, s, e) \in Nat
    BY ReadTypes DEF Holders
  <2> QED
    BY <2>1
<1>2. \A x \in Members : g[x] = IF x = m THEN v ELSE f[x]
  <2> SUFFICES ASSUME NEW x \in Members PROVE g[x] = IF x = m THEN v ELSE f[x]
    OBVIOUS
  <2>1. x \in Holders /\ x # Community
    BY SentinelAssumption DEF Holders
  <2>2. g[x] = governanceBalanceAt(x, s, e) + (IF x = m THEN d ELSE 0)
    BY <2>1
  <2> QED
    BY <1>1, <2>2
<1>3. g = [f EXCEPT ![m] = v]
  <2>1. g \in [Members -> {g[x] : x \in Members}] /\ DOMAIN g = Members
    OBVIOUS
  <2>2. DOMAIN f = Members
    OBVIOUS
  <2>3. g = [x \in Members |-> g[x]]
    OBVIOUS
  <2> HIDE DEF f, g, v
  <2> QED
    BY <1>1, <1>2, <2>1, <2>2, <2>3
<1>4. MembersWeight(s, e) = SumFunction(f) /\ MembersWeight(s, e)' = SumFunction(g)
  BY DEF MembersWeight
<1>5. governanceBalanceAt(Community, s, e)' = governanceBalanceAt(Community, s, e) + d
  BY DEF Holders
<1>6. v - f[m] = d
  BY <1>1
<1> HIDE DEF f, g, v
<1>7. SumFunction(g) = SumFunction(f) - f[m] + v
  BY <1>1, <1>3, MembersAssumption, SumFunctionUpdated
<1>8. SumFunction(f) \in Int
  <2>1. DOMAIN f = Members /\ \A x \in Members : f[x] \in Int
    BY <1>1
  <2> QED
    BY <2>1, MembersAssumption, SumInt DEF SumFunction
<1> QED
  BY <1>1, <1>4, <1>5, <1>6, <1>7, <1>8

\* A mint adds to a member's weights, the community's, and the member's balance alike.
LEMMA MintWeights ==
  ASSUME TypeOK, TypeOK', WeightInductive,
         NEW m \in Members, NEW c, NEW r, NEW regular \in Nat, NEW advance \in Nat,
         NEW related, NEW p, executeMint(m, c, r, regular, advance, related, p)
  PROVE  WeightInductive'
<1> DEFINE reg(h) == IF h \in {m, Community} THEN regular ELSE 0
           adv(h) == IF h \in {m, Community} THEN advance ELSE 0
<1>1. ApplyMint(m, regular, advance)
  BY DEF executeMint
<1>2. /\ epoch'.epochNumber = epoch.epochNumber
      /\ govSeq' = govSeq + 1 /\ reversed' = reversed /\ exists'
      /\ balances' = [balances EXCEPT ![m] = @ + regular + advance]
  BY <1>1 DEF executeMint, ApplyMint, communityVars, TypeOK, LedgerTypeOK, EpochType
<1>3. \A h \in Holders : RegMoved(h, reg(h)) /\ AdvMoved(h, adv(h))
  BY <1>1, MintRegs, MintGrants DEF WeightInductive
<1>4. \A h \in Holders : /\ SortedRegs(regCkpt[h], govSeq)'
                         /\ SortedGrants(advGrant[h], govSeq, epoch.epochNumber + 1)'
  BY <1>2, <1>3 DEF RegMoved, AdvMoved
<1>5. ASSUME NEW x \in Members
      PROVE  /\ balances'[x] <= RunningWeight(x)'
             /\ reversed' = {} => balances'[x] = RunningWeight(x)'
  <2>1. x \in Holders /\ x # Community
    BY SentinelAssumption DEF Holders
  <2>2. /\ LastReg(regCkpt'[x]) = LastReg(regCkpt[x]) + (IF x = m THEN regular ELSE 0)
        /\ LastAdv(advGrant'[x]) = LastAdv(advGrant[x]) + (IF x = m THEN advance ELSE 0)
    BY <1>3, <2>1 DEF RegMoved, AdvMoved
  <2>3. balances'[x] = balances[x] + (IF x = m THEN regular ELSE 0) + (IF x = m THEN advance ELSE 0)
    BY <1>2 DEF TypeOK, LedgerTypeOK
  <2>4. LastReg(regCkpt[x]) \in Nat /\ LastAdv(advGrant[x]) \in Nat /\ balances[x] \in Nat
    BY <2>1, ArrayTypes DEF TypeOK, LedgerTypeOK
  <2>5. /\ balances[x] <= RunningWeight(x)
        /\ reversed = {} => balances[x] = RunningWeight(x)
    BY DEF WeightInductive
  <2> QED
    BY <1>2, <2>2, <2>3, <2>4, <2>5 DEF RunningWeight
<1>6. ASSUME reversed' = {}, NEW s \in Nat, NEW e \in Nat
      PROVE  governanceBalanceAt(Community, s, e)' = MembersWeight(s, e)'
  <2> DEFINE d == (IF s > govSeq THEN regular ELSE 0)
                    + (IF s > govSeq /\ e > epoch.epochNumber THEN advance ELSE 0)
  <2>1. governanceBalanceAt(Community, s, e) = MembersWeight(s, e)
    BY <1>2, <1>6 DEF WeightInductive
  <2>2. ASSUME NEW h \in Holders
        PROVE  governanceBalanceAt(h, s, e)'
                 = governanceBalanceAt(h, s, e) + (IF h \in {m, Community} THEN d ELSE 0)
    <3>1. RegAt(regCkpt'[h], s) = RegAt(regCkpt[h], s) + (IF s > govSeq THEN reg(h) ELSE 0)
      BY <1>3 DEF RegMoved
    <3>2. AdvAt(advGrant'[h], s, e) = AdvAt(advGrant[h], s, e)
            + (IF s > govSeq /\ e > epoch.epochNumber THEN adv(h) ELSE 0)
      BY <1>3 DEF AdvMoved
    <3>3. RegAt(regCkpt[h], s) \in Nat /\ AdvAt(advGrant[h], s, e) \in Nat
      BY ReadTypes
    <3>4. governanceBalanceAt(h, s, e) = RegAt(regCkpt[h], s) + AdvAt(advGrant[h], s, e)
      BY DEF governanceBalanceAt
    <3>5. governanceBalanceAt(h, s, e)' = RegAt(regCkpt'[h], s) + AdvAt(advGrant'[h], s, e)
      BY ReadAfter
    <3> QED
      BY <3>1, <3>2, <3>3, <3>4, <3>5
  <2>3. d \in Int
    OBVIOUS
  <2> HIDE DEF d
  <2> QED
    BY <2>1, <2>2, <2>3, SumKeepsUp
<1> QED
  BY <1>2, <1>4, <1>5, <1>6 DEF WeightInductive

\* A reversal takes no more from a member's weight than from the balance.
LEMMA ReversalWeights ==
  ASSUME TypeOK, TypeOK', WeightInductive,
         NEW m \in Members, NEW original, NEW r, NEW amount \in Nat, NEW p,
         executeReversal(m, original, r, amount, p)
  PROVE  WeightInductive'
<1>1. /\ epoch' = epoch /\ govSeq' = govSeq + 1 /\ reversed' # {} /\ exists'
      /\ advGrant' = advGrant /\ amount <= balances[m]
      /\ balances' = [balances EXCEPT ![m] = @ - amount]
      /\ PushRegularDelta(m, govSeq + 1, amount, FALSE)
  BY DEF executeReversal, communityVars, epochVars
<1>2. ASSUME NEW h \in Holders
      PROVE  /\ SortedRegs(regCkpt'[h], govSeq + 1)
             /\ LastReg(regCkpt'[h]) = IF h \in {m, Community}
                                       THEN FloorMinus(LastReg(regCkpt[h]), amount)
                                       ELSE LastReg(regCkpt[h])
  <2> DEFINE R == regCkpt[h]
             x == [seq |-> govSeq + 1, cumRegularGov |-> FloorMinus(LastReg(R), amount)]
  <2>1. R \in Seq(RegCkptType) /\ LastReg(R) \in Nat /\ govSeq \in Nat
    BY ArrayTypes
  <2>2. SortedRegs(R, govSeq)
    BY DEF WeightInductive
  <2>3. CASE h \in {m, Community}
    <3>1. regCkpt'[h] = Append(R, x)
      BY <1>1, <2>3 DEF PushRegularDelta
    <3>2. /\ x \in RegCkptType /\ x.seq = govSeq + 1
          /\ x.cumRegularGov = FloorMinus(LastReg(R), amount)
      BY <2>1 DEF RegCkptType, FloorMinus
    <3> HIDE DEF R, x
    <3>3. SortedRegs(Append(R, x), govSeq + 1) /\ LastReg(Append(R, x)) = x.cumRegularGov
      BY ONLY <2>1, <2>2, <3>2, RegPush
    <3> QED
      BY <2>3, <3>1, <3>2, <3>3 DEF R
  <2>4. CASE h \notin {m, Community}
    <3>1. regCkpt'[h] = R
      BY <1>1, <2>4 DEF PushRegularDelta
    <3>2. govSeq + 1 \in Nat /\ govSeq + 1 >= govSeq
          /\ epoch.epochNumber + 1 \in Nat /\ epoch.epochNumber + 1 >= epoch.epochNumber + 1
      BY ArrayTypes
    <3>3. SortedRegs(R, govSeq + 1)
      BY <2>2, <3>2, SortedStays
    <3> QED
      BY <2>4, <3>1, <3>3
  <2> QED
    BY <2>3, <2>4
<1>3. ASSUME NEW h \in Holders
      PROVE  SortedGrants(advGrant'[h], govSeq + 1, epoch.epochNumber + 1)
  <2>1. govSeq + 1 \in Nat /\ govSeq + 1 >= govSeq
        /\ epoch.epochNumber + 1 \in Nat /\ epoch.epochNumber + 1 >= epoch.epochNumber + 1
    BY ArrayTypes
  <2>2. SortedGrants(advGrant[h], govSeq, epoch.epochNumber + 1)
    BY DEF WeightInductive
  <2> QED
    BY <1>1, <2>1, <2>2, SortedStays
<1>4. ASSUME NEW x \in Members PROVE balances'[x] <= RunningWeight(x)'
  <2>1. x \in Holders /\ x # Community
    BY SentinelAssumption DEF Holders
  <2>2. LastReg(regCkpt[x]) \in Nat /\ LastAdv(advGrant[x]) \in Nat /\ balances[x] \in Nat
    BY <2>1, ArrayTypes DEF TypeOK, LedgerTypeOK
  <2>3. balances[x] <= LastReg(regCkpt[x]) + LastAdv(advGrant[x])
    BY DEF WeightInductive, RunningWeight
  <2>4. balances'[x] = IF x = m THEN balances[x] - amount ELSE balances[x]
    BY <1>1 DEF TypeOK, LedgerTypeOK
  <2>5. LastReg(regCkpt'[x]) = IF x = m THEN FloorMinus(LastReg(regCkpt[x]), amount)
                               ELSE LastReg(regCkpt[x])
    BY <1>2, <2>1
  <2>6. balances'[x] <= LastReg(regCkpt'[x]) + LastAdv(advGrant'[x])
    BY <1>1, <2>2, <2>3, <2>4, <2>5 DEF FloorMinus
  <2> QED
    BY <2>6 DEF RunningWeight
<1> QED
  BY <1>1, <1>2, <1>3, <1>4 DEF WeightInductive

\* Any step preserves the strengthening.
LEMMA NextWeights ==
  ASSUME TypeOK, WeightInductive, [Next]_vars
  PROVE  WeightInductive'
<1>1. TypeOK'
  BY NextType
<1>2. CASE MintStep
  BY <1>1, <1>2, MintWeights DEF MintStep
<1>3. CASE ReversalStep
  BY <1>1, <1>3, ReversalWeights DEF ReversalStep
<1>4. ASSUME UNCHANGED <<ckptVars, balances, reversed>>, epoch'.epochNumber >= epoch.epochNumber,
             ~exists' => epoch'.epochNumber = 0
      PROVE  WeightInductive'
  <2>1. UNCHANGED <<govSeq, regCkpt, advGrant, balances, reversed>>
    BY <1>4 DEF ckptVars
  <2>2. \A h \in Holders : /\ SortedRegs(regCkpt[h], govSeq)'
                           /\ SortedGrants(advGrant[h], govSeq, epoch.epochNumber + 1)'
    <3> SUFFICES ASSUME NEW h \in Holders
                 PROVE  /\ SortedRegs(regCkpt[h], govSeq)
                        /\ SortedGrants(advGrant[h], govSeq, epoch'.epochNumber + 1)
      BY <2>1
    <3>1. /\ govSeq \in Nat /\ govSeq >= govSeq
          /\ epoch'.epochNumber + 1 \in Nat /\ epoch'.epochNumber + 1 >= epoch.epochNumber + 1
      <4>1. epoch \in EpochType /\ epoch' \in EpochType /\ govSeq \in Nat
        BY <1>1 DEF TypeOK, CheckpointTypeOK, LedgerTypeOK
      <4>2. epoch.epochNumber \in Nat /\ epoch'.epochNumber \in Nat
        BY <4>1 DEF EpochType
      <4> QED
        BY <1>4, <4>1, <4>2
    <3>2. /\ SortedRegs(regCkpt[h], govSeq)
          /\ SortedGrants(advGrant[h], govSeq, epoch.epochNumber + 1)
      BY DEF WeightInductive
    <3> QED
      BY <3>1, <3>2, SortedStays
  <2>3. \A m \in Members : RunningWeight(m)' = RunningWeight(m)
    BY <2>1 DEF RunningWeight
  <2>4. \A h, s, e : governanceBalanceAt(h, s, e)' = governanceBalanceAt(h, s, e)
    BY <2>1 DEF governanceBalanceAt
  <2>5. \A s, e : MembersWeight(s, e)' = MembersWeight(s, e)
    BY <2>4 DEF MembersWeight
  <2> QED
    BY <1>4, <2>1, <2>2, <2>3, <2>4, <2>5 DEF WeightInductive
<1>5. epoch.epochNumber \in Nat
  BY DEF TypeOK, LedgerTypeOK, EpochType
<1>6. CASE createCommunity
  <2>1. epoch.epochNumber = 0 /\ epoch'.epochNumber = 1
    BY <1>6 DEF createCommunity, OpenEpoch, WeightInductive
  <2>2. UNCHANGED <<ckptVars, balances, reversed>> /\ (~exists' => epoch'.epochNumber = 0)
    BY <1>6 DEF createCommunity, recordVars
  <2>3. epoch'.epochNumber >= epoch.epochNumber
    BY <2>1
  <2> QED
    BY <1>4, <2>2, <2>3
<1>7. CASE rollEpoch
  <2>1. epoch'.epochNumber = epoch.epochNumber + 1
    BY <1>7 DEF rollEpoch, OpenEpoch
  <2> QED
    BY <1>4, <1>5, <1>7, <2>1 DEF rollEpoch, supplyVars, recordVars
<1>8. CASE LedgerKept
  BY <1>4, <1>5, <1>8 DEF LedgerKept, ledgerVars, supplyVars, epochVars, recordVars, WeightInductive
<1> QED
  BY <1>2, <1>3, <1>6, <1>7, <1>8, NextLedgerStep

\* At first no array holds anything and every weight is nothing.
LEMMA InitWeights == Init => WeightInductive
<1> SUFFICES ASSUME Init PROVE WeightInductive
  OBVIOUS
<1>1. \A h \in Holders : regCkpt[h] = <<>> /\ advGrant[h] = <<>>
  BY DEF Init
<1>2. \A h \in Holders : /\ SortedRegs(regCkpt[h], govSeq)
                         /\ SortedGrants(advGrant[h], govSeq, epoch.epochNumber + 1)
  BY <1>1 DEF SortedRegs, SortedGrants
<1>3. epoch.epochNumber = 0
  BY DEF Init, OpenEpoch
<1>4. \A m \in Members : balances[m] = 0 /\ RunningWeight(m) = 0
  BY <1>1 DEF Init, RunningWeight, LastReg, LastAdv, Holders
<1>5. \A h \in Holders, s, e \in Nat : governanceBalanceAt(h, s, e) = 0
  BY <1>1 DEF governanceBalanceAt, RegAt, AdvAt
<1>6. \A s, e \in Nat : MembersWeight(s, e) = 0
  <2> SUFFICES ASSUME NEW s \in Nat, NEW e \in Nat PROVE MembersWeight(s, e) = 0
    OBVIOUS
  <2> DEFINE f == [m \in Members |-> governanceBalanceAt(m, s, e)]
  <2>1. DOMAIN f = Members /\ \A m \in Members : f[m] = 0
    BY <1>5 DEF Holders
  <2>2. MembersWeight(s, e) = SumFunctionOnSet(f, Members)
    BY <2>1 DEF MembersWeight, SumFunction
  <2> HIDE DEF f
  <2> QED
    BY <2>1, <2>2, MembersAssumption, SumZero
<1> QED
  BY <1>2, <1>3, <1>4, <1>5, <1>6 DEF WeightInductive, Holders

\* The strengthening holds in every reachable state.
THEOREM WeightInductiveHolds == Spec => []WeightInductive
<1>1. TypeOK /\ WeightInductive /\ [Next]_vars => WeightInductive'
  BY NextWeights
<1> QED
  BY InitWeights, TypeCorrect, <1>1, PTL DEF Spec

\* After the last sequence number and the next epoch both searches find the totals.
LEMMA MaturedIsRunning ==
  ASSUME TypeOK, WeightInductive, NEW h \in Holders
  PROVE  MaturedWeight(h) = RunningWeight(h)
<1>1. /\ regCkpt[h] \in Seq(RegCkptType) /\ advGrant[h] \in Seq(GrantType)
      /\ govSeq \in Nat /\ epoch.epochNumber + 1 \in Nat
  BY ArrayTypes
<1>2. RegAt(regCkpt[h], govSeq) = LastReg(regCkpt[h])
  BY <1>1, RegReadLast DEF WeightInductive, SortedRegs
<1>3. AdvAt(advGrant[h], govSeq, epoch.epochNumber + 1) = LastAdv(advGrant[h])
  <2>1. \A i \in DOMAIN advGrant[h] : /\ advGrant[h][i].seq <= govSeq
                                      /\ advGrant[h][i].activationEpoch <= epoch.epochNumber + 1
    BY DEF WeightInductive, SortedGrants
  <2> QED
    BY <1>1, <2>1, AdvReadLast
<1> QED
  BY <1>2, <1>3 DEF MaturedWeight, RunningWeight, governanceBalanceAt

\* Both searches read sorted arrays, a member's matured weight is never less than the
\* balance, and without a reversal the two agree: for any mints, reversals and rolls.
THEOREM WeightsCoverBalances == Spec => []WeightCoversBalance
<1>1. TypeOK /\ WeightInductive => WeightCoversBalance
  <2> SUFFICES ASSUME TypeOK, WeightInductive PROVE WeightCoversBalance
    OBVIOUS
  <2>1. CheckpointsSorted
    BY DEF CheckpointsSorted, WeightInductive, SortedRegs, SortedGrants
  <2>2. \A m \in Members : MaturedWeight(m) = RunningWeight(m)
    BY MaturedIsRunning DEF Holders
  <2> QED
    BY <2>1, <2>2 DEF WeightCoversBalance, WeightInductive
<1> QED
  BY <1>1, TypeCorrect, WeightInductiveHolds, PTL

(***************************************************************************)
(* The tally.                                                              *)
(***************************************************************************)

TallyFields == {"totalVoteWeight", "optionWeight", "voterCount", "hasVoted",
                "activeGovSupplySnapshot"}

TallyKept(p) ==
  /\ Opened(p) /\ Opened(p)'
  /\ \A field \in TallyFields : proposals'[p][field] = proposals[p][field]

TallyOpened(p) ==
  /\ Opened(p)'
  /\ proposals'[p].totalVoteWeight = 0
  /\ proposals'[p].optionWeight = [o \in Options |-> 0]
  /\ proposals'[p].voterCount = 0
  /\ proposals'[p].hasVoted = {}
  /\ proposals'[p].activeGovSupplySnapshot = SnapshotWeight(p, Community)'

TallyVoted(p) ==
  /\ Opened(p) /\ Opened(p)'
  /\ \E m \in Members \ proposals[p].hasVoted, o \in Options :
       /\ proposals'[p].hasVoted = proposals[p].hasVoted \cup {m}
       /\ proposals'[p].optionWeight =
            [proposals[p].optionWeight EXCEPT ![o] = @ + SnapshotWeight(p, m)]
       /\ proposals'[p].totalVoteWeight = proposals[p].totalVoteWeight + SnapshotWeight(p, m)
       /\ proposals'[p].voterCount = proposals[p].voterCount + 1
       /\ proposals'[p].activeGovSupplySnapshot = proposals[p].activeGovSupplySnapshot

\* A step opens a proposal with an empty tally, counts one new voter, or leaves the
\* tally of every opened proposal alone.
LEMMA NextTallyStep ==
  ASSUME TypeOK, [Next]_vars, NEW q \in ProposalIds, Opened(q)'
  PROVE  TallyKept(q) \/ TallyOpened(q) \/ TallyVoted(q)
<1>1. ASSUME proposals'[q] = proposals[q] PROVE TallyKept(q)
  BY <1>1 DEF Opened, TallyKept
<1>2. CASE GovernanceStep
  <2>1. ASSUME NEW p \in ProposalIds, NEW kind \in Kinds, NEW ballot \in Ballots,
               NEW endTime \in 0..MaxTime, NEW minVoters \in MinVoterCounts,
               NEW target \in Members, NEW rates \in PolicyRates,
               createProposal(p, kind, ballot, endTime, minVoters, target, rates)
        PROVE  TallyKept(q) \/ TallyOpened(q)
    <3>1. CASE q = p
      <4>1. proposals'[q] =
              [status |-> "ACTIVE", kind |-> kind, approved |-> FALSE,
               snapshotSeq |-> govSeq, snapshotEpoch |-> epoch.epochNumber,
               activeGovSupplySnapshot |->
                 governanceBalanceAt(Community, govSeq, epoch.epochNumber),
               endTime |-> endTime, minVoterCount |-> LargerOf(minVoters, MinVoterCount),
               voterCount |-> 0, winningOptionId |-> NoOption, totalVoteWeight |-> 0,
               target |-> target, rates |-> rates, ballot |-> ballot,
               optionWeight |-> [o \in Options |-> 0], hasVoted |-> {}]
        BY <2>1, <3>1 DEF createProposal, TypeOK, GovernanceTypeOK
      <4>2. UNCHANGED <<regCkpt, advGrant>>
        BY <2>1 DEF createProposal, ledgerVars, ckptVars
      <4>3. SnapshotWeight(q, Community)'
              = governanceBalanceAt(Community, govSeq, epoch.epochNumber)
        BY <4>1, <4>2 DEF SnapshotWeight, governanceBalanceAt
      <4> QED
        BY <4>1, <4>3 DEF TallyOpened
    <3>2. CASE q # p
      BY <1>1, <2>1, <3>2 DEF createProposal, TypeOK, GovernanceTypeOK
    <3> QED
      BY <3>1, <3>2
  <2>2. ASSUME NEW p \in ProposalIds, NEW m \in Members, NEW option \in Options,
               NEW n \in Nonces, castVote(p, m, option, n)
        PROVE  TallyKept(q) \/ TallyVoted(q)
    <3>1. CASE q = p
      <4>1. proposals[q] \in ProposalType /\ Opened(q)
        BY <2>2, <3>1, OpenedType DEF castVote, VoteAccepted, TypeOK, Opened
      <4>2. VoteWeight(q, m) = SnapshotWeight(q, m) /\ m \notin proposals[q].hasVoted
        BY <2>2, <3>1 DEF VoteWeight, SnapshotWeight, castVote, VoteAccepted
      <4>3. /\ proposals'[q].hasVoted = proposals[q].hasVoted \cup {m}
            /\ proposals'[q].optionWeight =
                 [proposals[q].optionWeight EXCEPT ![option] = @ + VoteWeight(q, m)]
            /\ proposals'[q].totalVoteWeight = proposals[q].totalVoteWeight + VoteWeight(q, m)
            /\ proposals'[q].voterCount = proposals[q].voterCount + 1
            /\ proposals'[q].activeGovSupplySnapshot = proposals[q].activeGovSupplySnapshot
        BY <2>2, <3>1, <4>1 DEF castVote, TypeOK, GovernanceTypeOK, ProposalType
      <4> QED
        BY <4>1, <4>2, <4>3 DEF TallyVoted
    <3>2. CASE q # p
      BY <1>1, <2>2, <3>2 DEF castVote, TypeOK, GovernanceTypeOK
    <3> QED
      BY <3>1, <3>2
  <2>3. ASSUME NEW p \in ProposalIds, finalizeProposal(p) \/ executeProposal(p)
        PROVE  TallyKept(q)
    <3>1. CASE q = p
      <4>1. proposals[q] \in ProposalType /\ Opened(q)
        BY <2>3, <3>1, OpenedType
           DEF finalizeProposal, VotingOver, executeProposal, Executable, TypeOK, Opened
      <4>2. \A field \in TallyFields : proposals'[q][field] = proposals[q][field]
        BY <2>3, <3>1, <4>1
           DEF finalizeProposal, executeProposal, TypeOK, GovernanceTypeOK, ProposalType,
               TallyFields
      <4> QED
        BY <4>1, <4>2 DEF TallyKept
    <3>2. CASE q # p
      BY <1>1, <2>3, <3>2 DEF finalizeProposal, executeProposal, TypeOK, GovernanceTypeOK
    <3> QED
      BY <3>1, <3>2
  <2> QED
    BY <1>2, <2>1, <2>2, <2>3 DEF GovernanceStep
<1>3. CASE CommunityStep \/ LedgerStep \/ Tick \/ UNCHANGED vars
  BY <1>1, <1>3, OtherStep
<1> QED
  BY <1>2, <1>3 DEF Next

\* The weights counted so far are the snapshot weights of the members that voted.
VotedWeight(p) == SumFunction([m \in proposals[p].hasVoted |-> SnapshotWeight(p, m)])

TallyInductive ==
  \A p \in ProposalIds : Opened(p) =>
    /\ proposals[p].totalVoteWeight = VotedWeight(p)
    /\ proposals[p].totalVoteWeight = SumFunction(proposals[p].optionWeight)
    /\ proposals[p].voterCount = Cardinality(proposals[p].hasVoted)
    /\ proposals[p].activeGovSupplySnapshot = SnapshotWeight(p, Community)

\* An opened proposal has the fields of one, and every snapshot weight is natural.
LEMMA OpenedProposal ==
  ASSUME TypeOK, NEW p \in ProposalIds, Opened(p)
  PROVE  /\ proposals[p] \in ProposalType
         /\ IsFiniteSet(proposals[p].hasVoted) /\ proposals[p].hasVoted \subseteq Members
         /\ \A h \in Holders : SnapshotWeight(p, h) \in Nat
<1>1. proposals[p] \in ProposalType
  BY OpenedType DEF Opened, TypeOK
<1>2. proposals[p].hasVoted \subseteq Members
  BY <1>1 DEF ProposalType
<1>3. IsFiniteSet(proposals[p].hasVoted)
  BY <1>2, MembersAssumption, FS_Subset
<1>4. proposals[p].snapshotSeq \in Nat /\ proposals[p].snapshotEpoch \in Nat
  BY <1>1 DEF ProposalType
<1>5. \A h \in Holders : SnapshotWeight(p, h) \in Nat
  BY <1>4, ReadTypes DEF SnapshotWeight
<1> QED
  BY <1>1, <1>2, <1>3, <1>5

\* A step keeps each part of the tally.
LEMMA NextTally ==
  ASSUME TypeOK, GovernanceInductive, TallyInductive, [Next]_vars
  PROVE  TallyInductive'
<1> SUFFICES ASSUME NEW p \in ProposalIds, Opened(p)'
             PROVE  /\ proposals'[p].totalVoteWeight = VotedWeight(p)'
                    /\ proposals'[p].totalVoteWeight = SumFunction(proposals'[p].optionWeight)
                    /\ proposals'[p].voterCount = Cardinality(proposals'[p].hasVoted)
                    /\ proposals'[p].activeGovSupplySnapshot = SnapshotWeight(p, Community)'
  BY DEF TallyInductive
<1>1. Opened(p) => \A h \in Holders : SnapshotWeight(p, h)' = SnapshotWeight(p, h)
  BY FrozenStep
<1>2. Opened(p) => /\ proposals[p].totalVoteWeight = VotedWeight(p)
                   /\ proposals[p].totalVoteWeight = SumFunction(proposals[p].optionWeight)
                   /\ proposals[p].voterCount = Cardinality(proposals[p].hasVoted)
                   /\ proposals[p].activeGovSupplySnapshot = SnapshotWeight(p, Community)
  BY DEF TallyInductive
<1>3. CASE TallyKept(p)
  <2>1. /\ proposals'[p].totalVoteWeight = proposals[p].totalVoteWeight
        /\ proposals'[p].optionWeight = proposals[p].optionWeight
        /\ proposals'[p].voterCount = proposals[p].voterCount
        /\ proposals'[p].hasVoted = proposals[p].hasVoted
        /\ proposals'[p].activeGovSupplySnapshot = proposals[p].activeGovSupplySnapshot
    BY <1>3 DEF TallyKept, TallyFields
  <2>2. proposals[p].hasVoted \subseteq Holders /\ Community \in Holders
    BY <1>3, OpenedProposal DEF TallyKept, Holders
  <2>3. VotedWeight(p)' = VotedWeight(p)
    <3>1. \A m \in proposals[p].hasVoted : SnapshotWeight(p, m)' = SnapshotWeight(p, m)
      BY <1>1, <1>3, <2>2 DEF TallyKept
    <3> QED
      BY <2>1, <3>1 DEF VotedWeight
  <2> QED
    BY <1>1, <1>2, <1>3, <2>1, <2>2, <2>3 DEF TallyKept
<1>4. CASE TallyOpened(p)
  <2>1. SumFunction([o \in Options |-> 0]) = 0
    <3> DEFINE f == [o \in Options |-> 0]
    <3>1. DOMAIN f = Options /\ \A o \in Options : f[o] = 0
      OBVIOUS
    <3> HIDE DEF f
    <3>2. SumFunctionOnSet(f, Options) = 0
      BY <3>1, OptionsAssumption, SumZero
    <3> QED
      BY <3>1, <3>2 DEF SumFunction, f
  <2>2. VotedWeight(p)' = 0
    <3> DEFINE f == [m \in {} |-> SnapshotWeight(p, m)']
    <3>1. DOMAIN f = {} /\ VotedWeight(p)' = SumFunction(f)
      BY <1>4 DEF TallyOpened, VotedWeight
    <3> HIDE DEF f
    <3> QED
      BY <3>1, SumEmpty DEF SumFunction
  <2> QED
    BY <1>4, <2>1, <2>2, FS_EmptySet DEF TallyOpened
<1>5. CASE TallyVoted(p)
  <2>1. PICK m \in Members \ proposals[p].hasVoted, o \in Options :
       /\ proposals'[p].hasVoted = proposals[p].hasVoted \cup {m}
       /\ proposals'[p].optionWeight =
            [proposals[p].optionWeight EXCEPT ![o] = @ + SnapshotWeight(p, m)]
       /\ proposals'[p].totalVoteWeight = proposals[p].totalVoteWeight + SnapshotWeight(p, m)
       /\ proposals'[p].voterCount = proposals[p].voterCount + 1
       /\ proposals'[p].activeGovSupplySnapshot = proposals[p].activeGovSupplySnapshot
    BY <1>5 DEF TallyVoted
  <2> DEFINE w == SnapshotWeight(p, m)
             S == proposals[p].hasVoted
             f == [x \in S |-> SnapshotWeight(p, x)]
             g == [x \in S \cup {m} |-> SnapshotWeight(p, x)']
             weights == proposals[p].optionWeight
  <2>2. /\ Opened(p) /\ IsFiniteSet(S) /\ S \subseteq Members /\ m \notin S /\ m \in Members
        /\ \A h \in Holders : SnapshotWeight(p, h) \in Nat /\ SnapshotWeight(p, h)' = SnapshotWeight(p, h)
        /\ weights \in [Options -> Nat] /\ proposals[p].totalVoteWeight \in Nat
    BY <1>1, <1>5, <2>1, OpenedProposal DEF TallyVoted, ProposalType
  <2>3. VotedWeight(p)' = VotedWeight(p) + w
    <3>1. /\ DOMAIN f = S /\ DOMAIN g = S \cup {m} /\ g[m] \in Int /\ g[m] = w
          /\ \A x \in S : f[x] \in Int /\ g[x] = f[x]
      BY <2>2 DEF Holders
    <3>2. VotedWeight(p) = SumFunction(f) /\ VotedWeight(p)' = SumFunction(g)
      BY <2>1 DEF VotedWeight
    <3>3. IsFiniteSet(S) /\ m \notin S
      BY <2>2
    <3> HIDE DEF f, g, S
    <3>4. SumFunction(g) = SumFunction(f) + g[m]
      BY ONLY <3>1, <3>3, SumFunctionExtended
    <3> QED
      BY <3>1, <3>2, <3>4
  <2>4. SumFunction(proposals'[p].optionWeight) = SumFunction(weights) + w
    <3>1. weights \in [Options -> Int] /\ weights[o] \in Int /\ w \in Int /\ weights[o] + w \in Int
      BY <2>2 DEF Holders
    <3>2. proposals'[p].optionWeight = [weights EXCEPT ![o] = weights[o] + w]
      BY <2>1
    <3>3. SumFunction(weights) \in Int
      <4>1. DOMAIN weights = Options /\ \A x \in Options : weights[x] \in Int
        BY <3>1
      <4> QED
        BY <4>1, OptionsAssumption, SumInt DEF SumFunction
    <3> HIDE DEF weights, w
    <3>4. SumFunction([weights EXCEPT ![o] = weights[o] + w])
            = SumFunction(weights) - weights[o] + (weights[o] + w)
      BY <3>1, OptionsAssumption, SumFunctionUpdated
    <3> QED
      BY <3>1, <3>2, <3>3, <3>4
  <2>5. Cardinality(proposals'[p].hasVoted) = Cardinality(S) + 1
    BY <2>1, <2>2, FS_AddElement
  <2>6. SnapshotWeight(p, Community)' = SnapshotWeight(p, Community)
    BY <2>2 DEF Holders
  <2> HIDE DEF w
  <2> QED
    BY <1>2, <2>1, <2>2, <2>3, <2>4, <2>5, <2>6 DEF w
<1> QED
  BY <1>3, <1>4, <1>5, NextTallyStep

\* While nothing is reversed, those that voted hold no more than the community does.
LEMMA TallyWithinSupply ==
  ASSUME TypeOK, WeightInductive, TallyInductive, reversed = {},
         NEW p \in ProposalIds, Opened(p)
  PROVE  proposals[p].totalVoteWeight <= proposals[p].activeGovSupplySnapshot
<1> DEFINE s == proposals[p].snapshotSeq
           e == proposals[p].snapshotEpoch
           S == proposals[p].hasVoted
           f == [m \in Members |-> governanceBalanceAt(m, s, e)]
           g == [m \in S |-> SnapshotWeight(p, m)]
<1>1. s \in Nat /\ e \in Nat /\ S \in SUBSET Members
  BY OpenedProposal DEF ProposalType
<1>2. governanceBalanceAt(Community, s, e) = SumFunction(f)
  BY <1>1 DEF WeightInductive, MembersWeight
<1>3. proposals[p].activeGovSupplySnapshot = SumFunction(f)
  BY <1>2 DEF TallyInductive, SnapshotWeight
<1>4. proposals[p].totalVoteWeight = SumFunction(g)
  BY DEF TallyInductive, VotedWeight
<1>5. /\ DOMAIN f = Members /\ \A m \in Members : f[m] \in Nat
      /\ DOMAIN g = S /\ \A m \in S : g[m] \in Int /\ g[m] = f[m]
  <2>1. \A m \in Members : governanceBalanceAt(m, s, e) \in Nat
    BY <1>1, ReadTypes DEF Holders
  <2>2. \A m \in S : SnapshotWeight(p, m) = governanceBalanceAt(m, s, e)
    BY DEF SnapshotWeight
  <2> HIDE DEF s, e
  <2> QED
    BY <1>1, <2>1, <2>2
<1>6. IsFiniteSet(S) /\ IsFiniteSet(Members)
  BY <1>1, MembersAssumption, FS_Subset
<1> HIDE DEF s, e, S, f, g
<1>7. SumFunctionOnSet(f, S) <= SumFunctionOnSet(f, Members)
  BY ONLY <1>1, <1>5, <1>6, SumSubset
<1>8. SumFunctionOnSet(g, S) = SumFunctionOnSet(f, S)
  BY ONLY <1>5, <1>6, SumCongruence
<1>9. SumFunction(f) = SumFunctionOnSet(f, Members) /\ SumFunction(g) = SumFunctionOnSet(g, S)
  BY <1>5 DEF SumFunction
<1> QED
  BY <1>3, <1>4, <1>7, <1>8, <1>9

\* A tally is of frozen weights: for any number of members and options and whatever
\* is minted, reversed or rolled since, a proposal's weights are the snapshot weights
\* of those that voted, each counted once, and while nothing is reversed they are at
\* most the snapshot of the community.
THEOREM TalliesAreSnapshots == Spec => []TallyIsSnapshot
<1>1. Init => TallyInductive
  BY DEF Init, TallyInductive, Opened, NoProposalYet
<1>2. TypeOK /\ GovernanceInductive /\ TallyInductive /\ [Next]_vars => TallyInductive'
  BY NextTally
<1>3. TypeOK /\ WeightInductive /\ TallyInductive => TallyIsSnapshot
  BY TallyWithinSupply DEF TallyIsSnapshot, TallyInductive, VotedWeight
<1> QED
  BY <1>1, <1>2, <1>3, TypeCorrect, GovernanceInductiveHolds, WeightInductiveHolds, PTL DEF Spec
-----------------------------------------------------------------------------

(***************************************************************************)
(* The ledger's records.  Every total of LedgerReplay, MemberCapHeld and   *)
(* AdvanceGates is a sum over a set of records that a step extends by the  *)
(* record it writes, or leaves alone.                                      *)
(***************************************************************************)

\* Sets of records are finite.
LEMMA RecordsFinite ==
  ASSUME LedgerInductive, NEW S \in SUBSET RecordHashes, \A h \in S : RecordExists(h)
  PROVE  IsFiniteSet(S)
BY FS_Subset DEF LedgerInductive

\* A mint record has the fields of one.
LEMMA MintRecordType ==
  ASSUME TypeOK, NEW h \in RecordsOf("mint")
  PROVE  /\ h \in RecordHashes /\ RecordExists(h) /\ records[h] \in MintType
         /\ RegularLeg(h) \in Nat /\ AdvanceLeg(h) \in Nat /\ BothLegs(h) \in Nat
<1>1. h \in RecordHashes /\ RecordExists(h) /\ records[h] \in MintType
  BY DEF TypeOK, LedgerTypeOK, RecordsOf, RecordExists, ReversalType
<1> QED
  BY <1>1 DEF MintType, RegularLeg, AdvanceLeg, BothLegs

\* A reversal record has the fields of one.
LEMMA ReversalRecordType ==
  ASSUME TypeOK, NEW h \in RecordsOf("reversal")
  PROVE  /\ h \in RecordHashes /\ RecordExists(h) /\ records[h] \in ReversalType
         /\ ReversedAmount(h) \in Nat
<1>1. h \in RecordHashes /\ RecordExists(h) /\ records[h] \in ReversalType
  BY DEF TypeOK, LedgerTypeOK, RecordsOf, RecordExists, MintType
<1> QED
  BY <1>1 DEF ReversalType, ReversedAmount

\* The record a mint writes.
MintWritten(m, h, regular, advance, p) ==
  /\ h \in RecordHashes /\ ~RecordExists(h)
  /\ records'[h] \in MintType
  /\ records'[h].member = m
  /\ records'[h].regular = regular
  /\ records'[h].advance = advance
  /\ records'[h].proposal = p
  /\ records'[h].epochNumber = epoch.epochNumber
  /\ epoch'.epochNumber = epoch.epochNumber
  /\ \A x \in RecordHashes : x # h => records'[x] = records[x]

\* The record a reversal writes.
ReversalWritten(m, h, amount) ==
  /\ h \in RecordHashes /\ ~RecordExists(h)
  /\ records'[h] \in ReversalType
  /\ records'[h].member = m
  /\ records'[h].amount = amount
  /\ epoch'.epochNumber = epoch.epochNumber
  /\ \A x \in RecordHashes : x # h => records'[x] = records[x]

\* executeMint writes one mint record and no other.
LEMMA MintWrites ==
  ASSUME TypeOK, NEW m \in Members, NEW c \in Contributions, NEW h \in RecordHashes,
         NEW regular \in Nat, NEW advance \in Nat, NEW related \in BOOLEAN,
         NEW p \in ProposalIds,
         executeMint(m, c, h, regular, advance, related, p)
  PROVE  MintWritten(m, h, regular, advance, ProposalOfMint(advance, related, p))
<1> DEFINE used == ProposalOfMint(advance, related, p)
<1>1. PICK sigs \in SUBSET isApprover, n \in Nonces :
        /\ usedNonce' = usedNonce \cup {<<s, n>> : s \in sigs}
        /\ records' = [records EXCEPT ![h] =
             [type |-> "mint", member |-> m, contribution |-> c,
              regular |-> regular, advance |-> advance,
              epochNumber |-> epoch.epochNumber, related |-> related,
              proposal |-> used, approvers |-> Cardinality(sigs)]]
  BY DEF executeMint
<1>0. used \in ProposalIds \cup {NoProposal}
  BY DEF ProposalOfMint
<1> HIDE DEF used
<1>2. records'[h] = [type |-> "mint", member |-> m, contribution |-> c,
                     regular |-> regular, advance |-> advance,
                     epochNumber |-> epoch.epochNumber, related |-> related,
                     proposal |-> used, approvers |-> Cardinality(sigs)]
  BY <1>1 DEF TypeOK, LedgerTypeOK
<1>3. \A x \in RecordHashes : x # h => records'[x] = records[x]
  BY <1>1 DEF TypeOK, LedgerTypeOK
<1>4. records'[h] \in MintType
  <2>1. records'[h] \in MintType \cup ReversalType \cup {NoRecord}
    BY ExecuteMintType DEF TypeOK, LedgerTypeOK
  <2>2. Cardinality(sigs) \in Nat /\ epoch.epochNumber \in Nat
    <3>1. sigs \subseteq Signers
      BY DEF TypeOK, GovernanceTypeOK
    <3> QED
      BY <3>1, SignersAssumption, FS_Subset, FS_CardinalityType
         DEF TypeOK, LedgerTypeOK, EpochType
  <2> QED
    BY <1>0, <1>2, <2>2 DEF MintType
<1>5. epoch'.epochNumber = epoch.epochNumber
  BY DEF executeMint, ApplyMint, TypeOK, LedgerTypeOK, EpochType
<1> QED
  BY <1>2, <1>3, <1>4, <1>5 DEF MintWritten, executeMint, used

\* executeReversal writes one reversal record and no other.
LEMMA ReversalWrites ==
  ASSUME TypeOK, NEW m \in Members, NEW original \in Originals,
         NEW h \in RecordHashes, NEW amount \in Nat,
         NEW p \in ProposalIds,
         executeReversal(m, original, h, amount, p)
  PROVE  ReversalWritten(m, h, amount)
<1> DEFINE cited == IF ReversalAuthorized(p, m) THEN p ELSE NoProposal
<1>1. PICK sigs \in SUBSET isApprover, n \in Nonces :
        /\ usedNonce' = usedNonce \cup {<<s, n>> : s \in sigs}
        /\ records' = [records EXCEPT ![h] =
             [type |-> "reversal", member |-> m, original |-> original,
              amount |-> amount, approvers |-> Cardinality(sigs), proposal |-> cited]]
  BY DEF executeReversal
<1>2. cited \in ProposalIds \cup {NoProposal}
  OBVIOUS
<1> HIDE DEF cited
<1>3. records'[h] = [type |-> "reversal", member |-> m, original |-> original,
                     amount |-> amount, approvers |-> Cardinality(sigs), proposal |-> cited]
  BY <1>1 DEF TypeOK, LedgerTypeOK
<1>4. \A x \in RecordHashes : x # h => records'[x] = records[x]
  BY <1>1 DEF TypeOK, LedgerTypeOK
<1>5. records'[h] \in ReversalType
  <2>1. sigs \subseteq Signers
    BY DEF TypeOK, GovernanceTypeOK
  <2>2. Cardinality(sigs) \in Nat
    BY <2>1, SignersAssumption, FS_Subset, FS_CardinalityType
  <2> QED
    BY <1>2, <1>3, <2>2 DEF ReversalType
<1>6. epoch'.epochNumber = epoch.epochNumber
  BY DEF executeReversal, epochVars
<1> QED
  BY <1>3, <1>4, <1>5, <1>6 DEF ReversalWritten, executeReversal

\* Which sets of records a mint extends.
LEMMA MintSets ==
  ASSUME TypeOK, NEW m, NEW h, NEW regular, NEW advance, NEW p,
         MintWritten(m, h, regular, advance, p)
  PROVE  /\ RecordExists(h)' /\ h \notin RecordsOf("mint") /\ h \notin RecordsOf("reversal")
         /\ RecordsOf("mint")' = RecordsOf("mint") \cup {h}
         /\ RecordsOf("reversal")' = RecordsOf("reversal")
         /\ MintsOfEpoch' = MintsOfEpoch \cup {h}
<1>1. records'[h] # NoRecord /\ records'[h].type = "mint"
  BY RecordSentinelAssumption DEF MintWritten, MintType
<1>2. ~RecordExists(h) /\ h \in RecordHashes
  BY DEF MintWritten
<1>3. /\ RecordsOf("mint")' = RecordsOf("mint") \cup {h}
      /\ RecordsOf("reversal")' = RecordsOf("reversal")
  BY <1>1, <1>2 DEF RecordsOf, RecordExists, MintWritten
<1>4. MintsOfEpoch' = MintsOfEpoch \cup {h}
  BY <1>1, <1>2, <1>3 DEF MintsOfEpoch, RecordsOf, RecordExists, MintWritten
<1> QED
  BY <1>1, <1>2, <1>3, <1>4 DEF RecordsOf, RecordExists

\* Which sets of records a reversal extends.
LEMMA ReversalSets ==
  ASSUME TypeOK, NEW m, NEW h, NEW amount, ReversalWritten(m, h, amount)
  PROVE  /\ RecordExists(h)' /\ h \notin RecordsOf("mint") /\ h \notin RecordsOf("reversal")
         /\ RecordsOf("mint")' = RecordsOf("mint")
         /\ RecordsOf("reversal")' = RecordsOf("reversal") \cup {h}
         /\ MintsOfEpoch' = MintsOfEpoch
<1>1. records'[h] # NoRecord /\ records'[h].type = "reversal"
  BY RecordSentinelAssumption DEF ReversalWritten, ReversalType
<1>2. ~RecordExists(h) /\ h \in RecordHashes
  BY DEF ReversalWritten
<1>3. /\ RecordsOf("mint")' = RecordsOf("mint")
      /\ RecordsOf("reversal")' = RecordsOf("reversal") \cup {h}
  BY <1>1, <1>2 DEF RecordsOf, RecordExists, ReversalWritten
<1>4. MintsOfEpoch' = MintsOfEpoch
  BY <1>1, <1>2, <1>3 DEF MintsOfEpoch, RecordsOf, RecordExists, ReversalWritten
<1> QED
  BY <1>1, <1>2, <1>3, <1>4 DEF RecordsOf, RecordExists

\* The sums of the legs, with the records they are read from as a parameter.
RegularSum(recs, S) == SumFunction([x \in S |-> recs[x].regular])
AdvanceSum(recs, S) == SumFunction([x \in S |-> recs[x].advance])
BothSum(recs, S) == SumFunction([x \in S |-> recs[x].regular + recs[x].advance])
ReversedSum(recs, S) == SumFunction([x \in S |-> recs[x].amount])

\* A total is such a sum, before and after a step.
LEMMA TotalsAreSums ==
  ASSUME NEW m
  PROVE  /\ Total(OfMember(RecordsOf("mint"), m), BothLegs)
              = BothSum(records, OfMember(RecordsOf("mint"), m))
         /\ Total(OfMember(RecordsOf("mint"), m), BothLegs)'
              = BothSum(records', OfMember(RecordsOf("mint"), m)')
         /\ Total(OfMember(RecordsOf("reversal"), m), ReversedAmount)
              = ReversedSum(records, OfMember(RecordsOf("reversal"), m))
         /\ Total(OfMember(RecordsOf("reversal"), m), ReversedAmount)'
              = ReversedSum(records', OfMember(RecordsOf("reversal"), m)')
         /\ Total(MintsOfEpoch, RegularLeg) = RegularSum(records, MintsOfEpoch)
         /\ Total(MintsOfEpoch, RegularLeg)' = RegularSum(records', MintsOfEpoch')
         /\ Total(MintsOfEpoch, AdvanceLeg) = AdvanceSum(records, MintsOfEpoch)
         /\ Total(MintsOfEpoch, AdvanceLeg)' = AdvanceSum(records', MintsOfEpoch')
         /\ Total(OfMember(MintsOfEpoch, m), RegularLeg)
              = RegularSum(records, OfMember(MintsOfEpoch, m))
         /\ Total(OfMember(MintsOfEpoch, m), RegularLeg)'
              = RegularSum(records', OfMember(MintsOfEpoch, m)')
BY DEF Total, BothLegs, ReversedAmount, RegularLeg, AdvanceLeg,
       BothSum, ReversedSum, RegularSum, AdvanceSum

\* One more record adds its regular.
LEMMA RegularSumAdded ==
  ASSUME NEW S, IsFiniteSet(S), NEW h, h \notin S, NEW old, NEW new,
         \A x \in S : new[x] = old[x] /\ old[x].regular \in Int,
         new[h].regular \in Int
  PROVE  RegularSum(new, S \cup {h}) = RegularSum(old, S) + (new[h].regular)
<1> DEFINE f == [x \in S |-> old[x].regular]
           g == [x \in S \cup {h} |-> new[x].regular]
<1>1. /\ DOMAIN f = S /\ DOMAIN g = S \cup {h}
      /\ g[h] \in Int /\ \A x \in S : f[x] \in Int /\ g[x] = f[x]
  OBVIOUS
<1>2. g[h] = new[h].regular
  OBVIOUS
<1> HIDE DEF f, g
<1>3. SumFunction(g) = SumFunction(f) + g[h]
  BY ONLY IsFiniteSet(S), h \notin S, <1>1, SumFunctionExtended
<1> QED
  BY <1>2, <1>3 DEF f, g, RegularSum

\* One more record adds its advance.
LEMMA AdvanceSumAdded ==
  ASSUME NEW S, IsFiniteSet(S), NEW h, h \notin S, NEW old, NEW new,
         \A x \in S : new[x] = old[x] /\ old[x].advance \in Int,
         new[h].advance \in Int
  PROVE  AdvanceSum(new, S \cup {h}) = AdvanceSum(old, S) + (new[h].advance)
<1> DEFINE f == [x \in S |-> old[x].advance]
           g == [x \in S \cup {h} |-> new[x].advance]
<1>1. /\ DOMAIN f = S /\ DOMAIN g = S \cup {h}
      /\ g[h] \in Int /\ \A x \in S : f[x] \in Int /\ g[x] = f[x]
  OBVIOUS
<1>2. g[h] = new[h].advance
  OBVIOUS
<1> HIDE DEF f, g
<1>3. SumFunction(g) = SumFunction(f) + g[h]
  BY ONLY IsFiniteSet(S), h \notin S, <1>1, SumFunctionExtended
<1> QED
  BY <1>2, <1>3 DEF f, g, AdvanceSum

\* The same, for a record the step appends to a set of the records it keeps.
LEMMA AdvanceAdded ==
  ASSUME NEW S, NEW h
  PROVE  IsFiniteSet(S) /\ h \notin S /\ records'[h].advance \in Int
         /\ (\A x \in S : records'[x] = records[x] /\ records[x].advance \in Int)
         => AdvanceSum(records', S \cup {h}) = AdvanceSum(records, S) + records'[h].advance
<1> SUFFICES ASSUME IsFiniteSet(S), h \notin S, records'[h].advance \in Int,
                    \A x \in S : records'[x] = records[x] /\ records[x].advance \in Int
             PROVE  AdvanceSum(records', S \cup {h})
                      = AdvanceSum(records, S) + records'[h].advance
  OBVIOUS
<1>1. h \notin S /\ IsFiniteSet(S)
  OBVIOUS
<1>2. records'[h].advance \in Int
      /\ \A x \in S : records'[x] = records[x] /\ records[x].advance \in Int
  OBVIOUS
<1> QED
  BY ONLY <1>1, <1>2, AdvanceSumAdded

\* One more record adds its regular and advance.
LEMMA BothSumAdded ==
  ASSUME NEW S, IsFiniteSet(S), NEW h, h \notin S, NEW old, NEW new,
         \A x \in S : new[x] = old[x] /\ old[x].regular + old[x].advance \in Int,
         new[h].regular + new[h].advance \in Int
  PROVE  BothSum(new, S \cup {h}) = BothSum(old, S) + (new[h].regular + new[h].advance)
<1> DEFINE f == [x \in S |-> old[x].regular + old[x].advance]
           g == [x \in S \cup {h} |-> new[x].regular + new[x].advance]
<1>1. /\ DOMAIN f = S /\ DOMAIN g = S \cup {h}
      /\ g[h] \in Int /\ \A x \in S : f[x] \in Int /\ g[x] = f[x]
  OBVIOUS
<1>2. g[h] = new[h].regular + new[h].advance
  OBVIOUS
<1> HIDE DEF f, g
<1>3. SumFunction(g) = SumFunction(f) + g[h]
  BY ONLY IsFiniteSet(S), h \notin S, <1>1, SumFunctionExtended
<1> QED
  BY <1>2, <1>3 DEF f, g, BothSum

\* One more record adds its amount.
LEMMA ReversedSumAdded ==
  ASSUME NEW S, IsFiniteSet(S), NEW h, h \notin S, NEW old, NEW new,
         \A x \in S : new[x] = old[x] /\ old[x].amount \in Int,
         new[h].amount \in Int
  PROVE  ReversedSum(new, S \cup {h}) = ReversedSum(old, S) + (new[h].amount)
<1> DEFINE f == [x \in S |-> old[x].amount]
           g == [x \in S \cup {h} |-> new[x].amount]
<1>1. /\ DOMAIN f = S /\ DOMAIN g = S \cup {h}
      /\ g[h] \in Int /\ \A x \in S : f[x] \in Int /\ g[x] = f[x]
  OBVIOUS
<1>2. g[h] = new[h].amount
  OBVIOUS
<1> HIDE DEF f, g
<1>3. SumFunction(g) = SumFunction(f) + g[h]
  BY ONLY IsFiniteSet(S), h \notin S, <1>1, SumFunctionExtended
<1> QED
  BY <1>2, <1>3 DEF f, g, ReversedSum

\* Only the records summed over count.
LEMMA SumsKept ==
  ASSUME NEW S, NEW old, NEW new, \A x \in S : new[x] = old[x]
  PROVE  /\ RegularSum(new, S) = RegularSum(old, S)
         /\ AdvanceSum(new, S) = AdvanceSum(old, S)
         /\ BothSum(new, S) = BothSum(old, S)
         /\ ReversedSum(new, S) = ReversedSum(old, S)
<1>1. /\ [x \in S |-> new[x].regular] = [x \in S |-> old[x].regular]
      /\ [x \in S |-> new[x].advance] = [x \in S |-> old[x].advance]
      /\ [x \in S |-> new[x].regular + new[x].advance]
           = [x \in S |-> old[x].regular + old[x].advance]
      /\ [x \in S |-> new[x].amount] = [x \in S |-> old[x].amount]
  OBVIOUS
<1> QED
  BY <1>1 DEF RegularSum, AdvanceSum, BothSum, ReversedSum

\* A sum over no record.
LEMMA SumsEmpty ==
  \A recs : /\ RegularSum(recs, {}) = 0 /\ AdvanceSum(recs, {}) = 0
            /\ BothSum(recs, {}) = 0 /\ ReversedSum(recs, {}) = 0
BY SumEmpty DEF RegularSum, AdvanceSum, BothSum, ReversedSum, SumFunction

\* Totals are natural numbers.
LEMMA TotalsNat ==
  ASSUME TypeOK, LedgerInductive
  PROVE  /\ \A x \in Members :
              /\ Total(OfMember(RecordsOf("mint"), x), BothLegs) \in Nat
              /\ Total(OfMember(RecordsOf("reversal"), x), ReversedAmount) \in Nat
              /\ Total(OfMember(MintsOfEpoch, x), RegularLeg) \in Nat
         /\ Total(MintsOfEpoch, RegularLeg) \in Nat
         /\ Total(MintsOfEpoch, AdvanceLeg) \in Nat
<1>1. ASSUME NEW S \in SUBSET RecordsOf("mint")
      PROVE  /\ RegularSum(records, S) \in Nat
             /\ AdvanceSum(records, S) \in Nat
             /\ BothSum(records, S) \in Nat
  <2>1. IsFiniteSet(S)
    BY MintRecordType, RecordsFinite
  <2>2. \A x \in S : /\ records[x].regular \in Nat /\ records[x].advance \in Nat
                     /\ records[x].regular + records[x].advance \in Nat
    BY MintRecordType DEF RegularLeg, AdvanceLeg
  <2> DEFINE f == [x \in S |-> records[x].regular]
             g == [x \in S |-> records[x].advance]
             b == [x \in S |-> records[x].regular + records[x].advance]
  <2>3. /\ DOMAIN f = S /\ \A x \in S : f[x] \in Nat
        /\ DOMAIN g = S /\ \A x \in S : g[x] \in Nat
        /\ DOMAIN b = S /\ \A x \in S : b[x] \in Nat
    BY <2>2
  <2> HIDE DEF f, g, b
  <2>4. SumFunction(f) \in Nat /\ SumFunction(g) \in Nat /\ SumFunction(b) \in Nat
    BY <2>1, <2>3, SumNat DEF SumFunction
  <2> QED
    BY <2>4 DEF f, g, b, RegularSum, AdvanceSum, BothSum
<1>2. ASSUME NEW S \in SUBSET RecordsOf("reversal")
      PROVE  ReversedSum(records, S) \in Nat
  <2>1. IsFiniteSet(S)
    BY ReversalRecordType, RecordsFinite
  <2> DEFINE f == [x \in S |-> records[x].amount]
  <2>2. DOMAIN f = S /\ \A x \in S : f[x] \in Nat
    BY ReversalRecordType DEF ReversedAmount
  <2> HIDE DEF f
  <2>3. SumFunction(f) \in Nat
    BY <2>1, <2>2, SumNat DEF SumFunction
  <2> QED
    BY <2>3 DEF f, ReversedSum
<1>3. /\ MintsOfEpoch \subseteq RecordsOf("mint")
      /\ \A x \in Members : /\ OfMember(MintsOfEpoch, x) \subseteq RecordsOf("mint")
                            /\ OfMember(RecordsOf("mint"), x) \subseteq RecordsOf("mint")
                            /\ OfMember(RecordsOf("reversal"), x) \subseteq RecordsOf("reversal")
  BY DEF MintsOfEpoch, OfMember
<1>4. /\ Total(MintsOfEpoch, RegularLeg) \in Nat
      /\ Total(MintsOfEpoch, AdvanceLeg) \in Nat
  BY <1>1, <1>3, TotalsAreSums
<1>5. ASSUME NEW x \in Members
      PROVE  /\ Total(OfMember(RecordsOf("mint"), x), BothLegs) \in Nat
             /\ Total(OfMember(RecordsOf("reversal"), x), ReversedAmount) \in Nat
             /\ Total(OfMember(MintsOfEpoch, x), RegularLeg) \in Nat
  BY <1>1, <1>2, <1>3, TotalsAreSums
<1> QED
  BY <1>4, <1>5

\* The totals after a mint.
LEMMA MintTotals ==
  ASSUME TypeOK, LedgerInductive, NEW m \in Members, NEW h, NEW regular \in Nat,
         NEW advance \in Nat, NEW p, MintWritten(m, h, regular, advance, p)
  PROVE  /\ \A x \in Members :
              Total(OfMember(RecordsOf("mint"), x), BothLegs)'
                = IF x = m THEN Total(OfMember(RecordsOf("mint"), x), BothLegs)
                                  + (regular + advance)
                  ELSE Total(OfMember(RecordsOf("mint"), x), BothLegs)
         /\ \A x \in Members :
              Total(OfMember(RecordsOf("reversal"), x), ReversedAmount)'
                = Total(OfMember(RecordsOf("reversal"), x), ReversedAmount)
         /\ Total(MintsOfEpoch, RegularLeg)' = Total(MintsOfEpoch, RegularLeg) + regular
         /\ Total(MintsOfEpoch, AdvanceLeg)' = Total(MintsOfEpoch, AdvanceLeg) + advance
         /\ \A x \in Members :
              Total(OfMember(MintsOfEpoch, x), RegularLeg)'
                = IF x = m THEN Total(OfMember(MintsOfEpoch, x), RegularLeg) + regular
                  ELSE Total(OfMember(MintsOfEpoch, x), RegularLeg)
<1>1. /\ RecordsOf("mint")' = RecordsOf("mint") \cup {h}
      /\ RecordsOf("reversal")' = RecordsOf("reversal")
      /\ MintsOfEpoch' = MintsOfEpoch \cup {h}
      /\ h \notin RecordsOf("mint") /\ h \notin RecordsOf("reversal")
  BY MintSets
<1>2. MintsOfEpoch \subseteq RecordsOf("mint")
  BY DEF MintsOfEpoch
<1>3. /\ \A y \in RecordsOf("mint") \cup RecordsOf("reversal") : records'[y] = records[y]
      /\ records'[h].member = m
      /\ records'[h].regular = regular
      /\ records'[h].advance = advance
  BY <1>1 DEF RecordsOf, MintWritten
<1>4. \A S \in SUBSET RecordsOf("mint") :
        /\ RegularSum(records', S \cup {h}) = RegularSum(records, S) + regular
        /\ AdvanceSum(records', S \cup {h}) = AdvanceSum(records, S) + advance
        /\ BothSum(records', S \cup {h}) = BothSum(records, S) + (regular + advance)
  <2> SUFFICES ASSUME NEW S \in SUBSET RecordsOf("mint")
               PROVE  /\ RegularSum(records', S \cup {h}) = RegularSum(records, S) + regular
                      /\ AdvanceSum(records', S \cup {h}) = AdvanceSum(records, S) + advance
                      /\ BothSum(records', S \cup {h})
                           = BothSum(records, S) + (regular + advance)
    OBVIOUS
  <2>1. h \notin S /\ IsFiniteSet(S)
    BY <1>1, MintRecordType, RecordsFinite
  <2>2. \A x \in S : /\ records'[x] = records[x]
                     /\ records[x].regular \in Int /\ records[x].advance \in Int
                     /\ records[x].regular + records[x].advance \in Int
    BY <1>3, MintRecordType DEF RegularLeg, AdvanceLeg
  <2>3. records'[h].regular + records'[h].advance = regular + advance
    BY <1>3
  <2>4. RegularSum(records', S \cup {h}) = RegularSum(records, S) + records'[h].regular
    <3>1. records'[h].regular \in Int /\ \A x \in S : records'[x] = records[x] /\ records[x].regular \in Int
      BY <1>3, <2>2
    <3> QED
      BY ONLY <2>1, <3>1, RegularSumAdded
  <2>5. AdvanceSum(records', S \cup {h}) = AdvanceSum(records, S) + records'[h].advance
    <3>1. records'[h].advance \in Int /\ \A x \in S : records'[x] = records[x] /\ records[x].advance \in Int
      BY <1>3, <2>2
    <3> QED
      BY ONLY <2>1, <3>1, AdvanceSumAdded
  <2>6. BothSum(records', S \cup {h})
          = BothSum(records, S) + (records'[h].regular + records'[h].advance)
    <3>1. /\ records'[h].regular + records'[h].advance \in Int
          /\ \A x \in S : /\ records'[x] = records[x]
                           /\ records[x].regular + records[x].advance \in Int
      BY <2>2, <2>3
    <3> QED
      BY ONLY <2>1, <3>1, BothSumAdded
  <2> QED
    BY <1>3, <2>3, <2>4, <2>5, <2>6
<1>5. \A S \in SUBSET (RecordsOf("mint") \cup RecordsOf("reversal")) :
        /\ RegularSum(records', S) = RegularSum(records, S)
        /\ BothSum(records', S) = BothSum(records, S)
        /\ ReversedSum(records', S) = ReversedSum(records, S)
  BY <1>3, SumsKept
<1>6. ASSUME NEW x \in Members
      PROVE  /\ OfMember(RecordsOf("mint"), x)' = IF x = m THEN OfMember(RecordsOf("mint"), x) \cup {h}
                                                 ELSE OfMember(RecordsOf("mint"), x)
             /\ OfMember(MintsOfEpoch, x)' = IF x = m THEN OfMember(MintsOfEpoch, x) \cup {h}
                                            ELSE OfMember(MintsOfEpoch, x)
             /\ OfMember(RecordsOf("reversal"), x)' = OfMember(RecordsOf("reversal"), x)
             /\ OfMember(RecordsOf("mint"), x) \subseteq RecordsOf("mint")
             /\ OfMember(RecordsOf("reversal"), x) \subseteq RecordsOf("reversal")
             /\ OfMember(MintsOfEpoch, x) \subseteq RecordsOf("mint")
  BY <1>1, <1>2, <1>3 DEF OfMember
<1>7. ASSUME NEW x \in Members
      PROVE  Total(OfMember(RecordsOf("mint"), x), BothLegs)'
               = IF x = m THEN Total(OfMember(RecordsOf("mint"), x), BothLegs)
                                 + (regular + advance)
                 ELSE Total(OfMember(RecordsOf("mint"), x), BothLegs)
  BY <1>4, <1>5, <1>6, TotalsAreSums
<1>8. ASSUME NEW x \in Members
      PROVE  Total(OfMember(RecordsOf("reversal"), x), ReversedAmount)'
               = Total(OfMember(RecordsOf("reversal"), x), ReversedAmount)
  BY <1>5, <1>6, TotalsAreSums
<1>9. ASSUME NEW x \in Members
      PROVE  Total(OfMember(MintsOfEpoch, x), RegularLeg)'
               = IF x = m THEN Total(OfMember(MintsOfEpoch, x), RegularLeg) + regular
                 ELSE Total(OfMember(MintsOfEpoch, x), RegularLeg)
  BY <1>4, <1>5, <1>6, TotalsAreSums
<1>10. /\ Total(MintsOfEpoch, RegularLeg)' = Total(MintsOfEpoch, RegularLeg) + regular
       /\ Total(MintsOfEpoch, AdvanceLeg)' = Total(MintsOfEpoch, AdvanceLeg) + advance
  BY <1>1, <1>2, <1>4, TotalsAreSums
<1> QED
  BY <1>7, <1>8, <1>9, <1>10

\* The totals after a reversal.
LEMMA ReversalTotals ==
  ASSUME TypeOK, LedgerInductive, NEW m \in Members, NEW h, NEW amount \in Nat,
         ReversalWritten(m, h, amount)
  PROVE  /\ \A x \in Members :
              Total(OfMember(RecordsOf("mint"), x), BothLegs)'
                = Total(OfMember(RecordsOf("mint"), x), BothLegs)
         /\ \A x \in Members :
              Total(OfMember(RecordsOf("reversal"), x), ReversedAmount)'
                = IF x = m THEN Total(OfMember(RecordsOf("reversal"), x), ReversedAmount) + amount
                  ELSE Total(OfMember(RecordsOf("reversal"), x), ReversedAmount)
         /\ Total(MintsOfEpoch, RegularLeg)' = Total(MintsOfEpoch, RegularLeg)
         /\ Total(MintsOfEpoch, AdvanceLeg)' = Total(MintsOfEpoch, AdvanceLeg)
         /\ \A x \in Members :
              Total(OfMember(MintsOfEpoch, x), RegularLeg)'
                = Total(OfMember(MintsOfEpoch, x), RegularLeg)
<1>1. /\ RecordsOf("mint")' = RecordsOf("mint")
      /\ RecordsOf("reversal")' = RecordsOf("reversal") \cup {h}
      /\ MintsOfEpoch' = MintsOfEpoch
      /\ h \notin RecordsOf("mint") /\ h \notin RecordsOf("reversal")
  BY ReversalSets
<1>2. MintsOfEpoch \subseteq RecordsOf("mint")
  BY DEF MintsOfEpoch
<1>3. /\ \A y \in RecordsOf("mint") \cup RecordsOf("reversal") : records'[y] = records[y]
      /\ records'[h].member = m
      /\ records'[h].amount = amount
  BY <1>1 DEF RecordsOf, ReversalWritten
<1>4. ASSUME NEW S \in SUBSET RecordsOf("reversal")
      PROVE  ReversedSum(records', S \cup {h}) = ReversedSum(records, S) + amount
  <2>1. h \notin S /\ IsFiniteSet(S)
    BY <1>1, ReversalRecordType, RecordsFinite
  <2>2. /\ records'[h].amount \in Int
        /\ \A x \in S : records'[x] = records[x] /\ records[x].amount \in Int
    BY <1>3, ReversalRecordType DEF ReversedAmount
  <2>3. ReversedSum(records', S \cup {h}) = ReversedSum(records, S) + records'[h].amount
    BY ONLY <2>1, <2>2, ReversedSumAdded
  <2> QED
    BY <1>3, <2>3
<1>5. \A S \in SUBSET (RecordsOf("mint") \cup RecordsOf("reversal")) :
        /\ RegularSum(records', S) = RegularSum(records, S)
        /\ AdvanceSum(records', S) = AdvanceSum(records, S)
        /\ BothSum(records', S) = BothSum(records, S)
        /\ ReversedSum(records', S) = ReversedSum(records, S)
  BY <1>3, SumsKept
<1>6. ASSUME NEW x \in Members
      PROVE  /\ OfMember(RecordsOf("mint"), x)' = OfMember(RecordsOf("mint"), x)
             /\ OfMember(MintsOfEpoch, x)' = OfMember(MintsOfEpoch, x)
             /\ OfMember(RecordsOf("reversal"), x)'
                  = IF x = m THEN OfMember(RecordsOf("reversal"), x) \cup {h}
                    ELSE OfMember(RecordsOf("reversal"), x)
             /\ OfMember(RecordsOf("mint"), x) \subseteq RecordsOf("mint")
             /\ OfMember(RecordsOf("reversal"), x) \subseteq RecordsOf("reversal")
             /\ OfMember(MintsOfEpoch, x) \subseteq RecordsOf("mint")
  BY <1>1, <1>2, <1>3 DEF OfMember
<1>7. ASSUME NEW x \in Members
      PROVE  Total(OfMember(RecordsOf("mint"), x), BothLegs)'
               = Total(OfMember(RecordsOf("mint"), x), BothLegs)
  BY <1>5, <1>6, TotalsAreSums
<1>8. ASSUME NEW x \in Members
      PROVE  Total(OfMember(RecordsOf("reversal"), x), ReversedAmount)'
               = IF x = m THEN Total(OfMember(RecordsOf("reversal"), x), ReversedAmount) + amount
                 ELSE Total(OfMember(RecordsOf("reversal"), x), ReversedAmount)
  BY <1>4, <1>5, <1>6, TotalsAreSums
<1>9. ASSUME NEW x \in Members
      PROVE  Total(OfMember(MintsOfEpoch, x), RegularLeg)'
               = Total(OfMember(MintsOfEpoch, x), RegularLeg)
  BY <1>5, <1>6, TotalsAreSums
<1>10. /\ Total(MintsOfEpoch, RegularLeg)' = Total(MintsOfEpoch, RegularLeg)
       /\ Total(MintsOfEpoch, AdvanceLeg)' = Total(MintsOfEpoch, AdvanceLeg)
  BY <1>1, <1>2, <1>5, TotalsAreSums
<1> QED
  BY <1>7, <1>8, <1>9, <1>10

\* An epoch that has just opened: it has no mint, and no record is written.
EpochOpened == UNCHANGED records /\ MintsOfEpoch' = {}

\* The totals once an epoch has opened.
LEMMA OpenedTotals ==
  ASSUME EpochOpened
  PROVE  /\ \A x \in Members :
              Total(OfMember(RecordsOf("mint"), x), BothLegs)'
                = Total(OfMember(RecordsOf("mint"), x), BothLegs)
         /\ \A x \in Members :
              Total(OfMember(RecordsOf("reversal"), x), ReversedAmount)'
                = Total(OfMember(RecordsOf("reversal"), x), ReversedAmount)
         /\ Total(MintsOfEpoch, RegularLeg)' = 0
         /\ Total(MintsOfEpoch, AdvanceLeg)' = 0
         /\ \A x \in Members : Total(OfMember(MintsOfEpoch, x), RegularLeg)' = 0
<1>1. \A x \in Members : /\ OfMember(RecordsOf("mint"), x)' = OfMember(RecordsOf("mint"), x)
                         /\ OfMember(RecordsOf("reversal"), x)' = OfMember(RecordsOf("reversal"), x)
                         /\ OfMember(MintsOfEpoch, x)' = {}
  BY DEF OfMember, RecordsOf, RecordExists, EpochOpened
<1>2. records' = records /\ MintsOfEpoch' = {}
  BY DEF EpochOpened
<1>3. /\ Total(MintsOfEpoch, RegularLeg)' = 0
      /\ Total(MintsOfEpoch, AdvanceLeg)' = 0
  BY <1>2, TotalsAreSums, SumsEmpty
<1>4. ASSUME NEW x \in Members
      PROVE  Total(OfMember(MintsOfEpoch, x), RegularLeg)' = 0
  BY <1>1, TotalsAreSums, SumsEmpty
<1>5. ASSUME NEW x \in Members
      PROVE  /\ Total(OfMember(RecordsOf("mint"), x), BothLegs)'
                  = Total(OfMember(RecordsOf("mint"), x), BothLegs)
             /\ Total(OfMember(RecordsOf("reversal"), x), ReversedAmount)'
                  = Total(OfMember(RecordsOf("reversal"), x), ReversedAmount)
  BY <1>1, <1>2, TotalsAreSums
<1> QED
  BY <1>3, <1>4, <1>5

\* The totals when the ledger is left alone.
LEMMA KeptTotals ==
  ASSUME UNCHANGED <<records, epoch>>
  PROVE  /\ \A x \in Members :
              Total(OfMember(RecordsOf("mint"), x), BothLegs)'
                = Total(OfMember(RecordsOf("mint"), x), BothLegs)
         /\ \A x \in Members :
              Total(OfMember(RecordsOf("reversal"), x), ReversedAmount)'
                = Total(OfMember(RecordsOf("reversal"), x), ReversedAmount)
         /\ Total(MintsOfEpoch, RegularLeg)' = Total(MintsOfEpoch, RegularLeg)
         /\ Total(MintsOfEpoch, AdvanceLeg)' = Total(MintsOfEpoch, AdvanceLeg)
         /\ \A x \in Members :
              Total(OfMember(MintsOfEpoch, x), RegularLeg)'
                = Total(OfMember(MintsOfEpoch, x), RegularLeg)
<1>1. MintsOfEpoch' = MintsOfEpoch
  BY DEF MintsOfEpoch, RecordsOf, RecordExists
<1>2. \A x \in Members : /\ OfMember(RecordsOf("mint"), x)' = OfMember(RecordsOf("mint"), x)
                         /\ OfMember(RecordsOf("reversal"), x)' = OfMember(RecordsOf("reversal"), x)
                         /\ OfMember(MintsOfEpoch, x)' = OfMember(MintsOfEpoch, x)
  BY <1>1 DEF OfMember, RecordsOf, RecordExists
<1> QED
  BY <1>1, <1>2, TotalsAreSums

(***************************************************************************)
(* LedgerReplay and its strengthening, action by action.                   *)
(***************************************************************************)

\* The first epoch and a roll open an epoch without mints.
LEMMA OpenedStep ==
  ASSUME TypeOK, LedgerInductive, createCommunity \/ rollEpoch
  PROVE  /\ EpochOpened
         /\ exists'
         /\ epoch'.regularMinted = 0 /\ epoch'.advanceMinted = 0
         /\ UNCHANGED <<balances, proposals, proposalConsumedForMint>>
         /\ \A h \in RecordsOf("mint") : records[h].epochNumber < epoch'.epochNumber
<1>1. CASE createCommunity
  <2>1. RecordsOf("mint") = {}
    BY <1>1 DEF createCommunity, LedgerInductive, RecordsOf
  <2>2. UNCHANGED <<records, balances, proposals, proposalConsumedForMint>> /\ exists'
    BY <1>1 DEF createCommunity, recordVars
  <2>3. MintsOfEpoch' = {}
    BY <2>1, <2>2 DEF MintsOfEpoch, RecordsOf, RecordExists
  <2>4. epoch'.regularMinted = 0 /\ epoch'.advanceMinted = 0
    BY <1>1 DEF createCommunity, OpenEpoch
  <2> QED
    BY <2>1, <2>2, <2>3, <2>4 DEF EpochOpened
<1>2. CASE rollEpoch
  <2>1. UNCHANGED <<records, balances, proposals, proposalConsumedForMint>> /\ exists'
    BY <1>2 DEF rollEpoch, recordVars, supplyVars
  <2>2. epoch'.epochNumber = epoch.epochNumber + 1
        /\ epoch'.regularMinted = 0 /\ epoch'.advanceMinted = 0
    BY <1>2 DEF rollEpoch, OpenEpoch
  <2>3. ASSUME NEW h \in RecordsOf("mint")
        PROVE  records[h].epochNumber < epoch'.epochNumber
    <3>1. records[h].epochNumber \in Nat /\ epoch.epochNumber \in Nat
      BY MintRecordType DEF MintType, TypeOK, LedgerTypeOK, EpochType
    <3> QED
      BY <2>2, <3>1 DEF LedgerInductive
  <2>4. MintsOfEpoch' = {}
    <3>1. ASSUME NEW h \in RecordsOf("mint")
          PROVE  records[h].epochNumber # epoch'.epochNumber
      BY <2>3, MintRecordType DEF MintType
    <3> QED
      BY <2>1, <3>1 DEF MintsOfEpoch, RecordsOf, RecordExists
  <2> QED
    BY <2>1, <2>2, <2>3, <2>4 DEF EpochOpened
<1> QED
  BY <1>1, <1>2

\* The balances' sum is a number.
LEMMA BalancesSum == TypeOK => SumFunction(balances) \in Int
<1> SUFFICES ASSUME TypeOK PROVE SumFunction(balances) \in Int
  OBVIOUS
<1>1. DOMAIN balances = Members /\ \A x \in Members : balances[x] \in Int
  BY DEF TypeOK, LedgerTypeOK
<1> QED
  BY <1>1, SumInt, MembersAssumption DEF SumFunction

\* A mint is added to the member's balance, to the supply and to the epoch's totals.
LEMMA MintReplays ==
  ASSUME TypeOK, LedgerInductive, LedgerReplay, MintStep
  PROVE  LedgerReplay'
<1>1. PICK m \in Members, c \in Contributions, h \in RecordHashes, regular \in Nat,
           advance \in Nat, related \in BOOLEAN, p \in ProposalIds :
        executeMint(m, c, h, regular, advance, related, p)
  BY DEF MintStep
<1>2. MintWritten(m, h, regular, advance, ProposalOfMint(advance, related, p))
  BY <1>1, MintWrites
<1>3. /\ balances' = [balances EXCEPT ![m] = @ + regular + advance]
      /\ currentTotalSupply' = currentTotalSupply + regular + advance
      /\ epoch' = [epoch EXCEPT !.regularMinted = @ + regular, !.advanceMinted = @ + advance]
      /\ exists
  BY <1>1 DEF executeMint, ApplyMint
<1>4. /\ balances \in [Members -> Nat] /\ currentTotalSupply \in Nat
      /\ epoch \in EpochType
  BY DEF TypeOK, LedgerTypeOK
<1>5. ASSUME NEW x \in Members
      PROVE  balances'[x] = Total(OfMember(RecordsOf("mint"), x), BothLegs)'
                              - Total(OfMember(RecordsOf("reversal"), x), ReversedAmount)'
  <2> DEFINE minted == Total(OfMember(RecordsOf("mint"), x), BothLegs)
             taken == Total(OfMember(RecordsOf("reversal"), x), ReversedAmount)
  <2>1. balances[x] = minted - taken
    BY DEF LedgerReplay
  <2>2. minted \in Nat /\ taken \in Nat
    BY TotalsNat
  <2>3. minted' = (IF x = m THEN minted + (regular + advance) ELSE minted) /\ taken' = taken
    BY <1>2, MintTotals
  <2>4. balances'[x] = IF x = m THEN balances[x] + regular + advance ELSE balances[x]
    BY <1>3, <1>4
  <2> HIDE DEF minted, taken
  <2>5. balances'[x] = minted' - taken'
    BY <2>1, <2>2, <2>3, <2>4
  <2> QED
    BY <2>5 DEF minted, taken
<1>6. currentTotalSupply' = GenesisSupply + SumFunction(balances')
  <2> DEFINE v == balances[m] + regular + advance
  <2>1. balances \in [Members -> Int] /\ v \in Int /\ balances' = [balances EXCEPT ![m] = v]
    BY <1>3, <1>4
  <2>2. SumFunction([balances EXCEPT ![m] = v]) = SumFunction(balances) - balances[m] + v
    <3> HIDE DEF v
    <3> QED
      BY <2>1, SumFunctionUpdated, MembersAssumption
  <2>3. currentTotalSupply = GenesisSupply + SumFunction(balances)
    BY <1>3 DEF LedgerReplay
  <2>4. balances[m] \in Nat /\ GenesisSupply \in Nat /\ SumFunction(balances) \in Int
    BY <1>4, BalancesSum, GenesisAssumption
  <2> QED
    BY <1>3, <2>1, <2>2, <2>3, <2>4
<1>7. /\ epoch'.regularMinted = Total(MintsOfEpoch, RegularLeg)'
      /\ epoch'.advanceMinted = Total(MintsOfEpoch, AdvanceLeg)'
  <2>1. /\ epoch'.regularMinted = epoch.regularMinted + regular
        /\ epoch'.advanceMinted = epoch.advanceMinted + advance
    BY <1>3, <1>4 DEF EpochType
  <2>2. /\ Total(MintsOfEpoch, RegularLeg)' = Total(MintsOfEpoch, RegularLeg) + regular
        /\ Total(MintsOfEpoch, AdvanceLeg)' = Total(MintsOfEpoch, AdvanceLeg) + advance
    BY <1>2, MintTotals, ZenonT(60)
  <2>3. /\ epoch.regularMinted = Total(MintsOfEpoch, RegularLeg)
        /\ epoch.advanceMinted = Total(MintsOfEpoch, AdvanceLeg)
    BY DEF LedgerReplay
  <2> QED
    BY ONLY <2>1, <2>2, <2>3
<1> QED
  BY <1>5, <1>6, <1>7 DEF LedgerReplay

\* A reversal is taken from the member's balance and from the supply.
LEMMA ReversalReplays ==
  ASSUME TypeOK, LedgerInductive, LedgerReplay, ReversalStep
  PROVE  LedgerReplay'
<1>1. PICK m \in Members, original \in Originals, h \in RecordHashes, amount \in Nat,
           p \in ProposalIds :
        executeReversal(m, original, h, amount, p)
  BY DEF ReversalStep
<1>2. ReversalWritten(m, h, amount)
  BY <1>1, ReversalWrites
<1>3. /\ balances' = [balances EXCEPT ![m] = @ - amount]
      /\ currentTotalSupply' = currentTotalSupply - amount
      /\ epoch' = epoch
      /\ exists
  BY <1>1 DEF executeReversal, epochVars
<1>4. /\ balances \in [Members -> Nat] /\ currentTotalSupply \in Nat
      /\ epoch \in EpochType
  BY DEF TypeOK, LedgerTypeOK
<1>5. ASSUME NEW x \in Members
      PROVE  balances'[x] = Total(OfMember(RecordsOf("mint"), x), BothLegs)'
                              - Total(OfMember(RecordsOf("reversal"), x), ReversedAmount)'
  <2> DEFINE minted == Total(OfMember(RecordsOf("mint"), x), BothLegs)
             taken == Total(OfMember(RecordsOf("reversal"), x), ReversedAmount)
  <2>1. balances[x] = minted - taken
    BY DEF LedgerReplay
  <2>2. minted \in Nat /\ taken \in Nat
    BY TotalsNat
  <2>3. minted' = minted /\ taken' = (IF x = m THEN taken + amount ELSE taken)
    BY <1>2, ReversalTotals
  <2>4. balances'[x] = IF x = m THEN balances[x] - amount ELSE balances[x]
    BY <1>3, <1>4
  <2> HIDE DEF minted, taken
  <2>5. balances'[x] = minted' - taken'
    BY <2>1, <2>2, <2>3, <2>4
  <2> QED
    BY <2>5 DEF minted, taken
<1>6. currentTotalSupply' = GenesisSupply + SumFunction(balances')
  <2> DEFINE v == balances[m] - amount
  <2>1. balances \in [Members -> Int] /\ v \in Int /\ balances' = [balances EXCEPT ![m] = v]
    BY <1>3, <1>4
  <2>2. SumFunction([balances EXCEPT ![m] = v]) = SumFunction(balances) - balances[m] + v
    <3> HIDE DEF v
    <3> QED
      BY <2>1, SumFunctionUpdated, MembersAssumption
  <2>3. currentTotalSupply = GenesisSupply + SumFunction(balances)
    BY <1>3 DEF LedgerReplay
  <2>4. balances[m] \in Nat /\ GenesisSupply \in Nat /\ SumFunction(balances) \in Int
    BY <1>4, BalancesSum, GenesisAssumption
  <2> QED
    BY <1>3, <2>1, <2>2, <2>3, <2>4
<1>7. /\ epoch'.regularMinted = Total(MintsOfEpoch, RegularLeg)'
      /\ epoch'.advanceMinted = Total(MintsOfEpoch, AdvanceLeg)'
  BY <1>2, <1>3, ReversalTotals DEF LedgerReplay
<1> QED
  BY <1>5, <1>6, <1>7 DEF LedgerReplay

\* An opening epoch starts its totals at zero; the first one starts the supply.
LEMMA OpeningReplays ==
  ASSUME TypeOK, LedgerInductive, LedgerReplay, createCommunity \/ rollEpoch
  PROVE  LedgerReplay'
<1>1. EpochOpened /\ epoch'.regularMinted = 0 /\ epoch'.advanceMinted = 0 /\ balances' = balances
  BY OpenedStep
<1>2. \A x \in Members :
        balances'[x] = Total(OfMember(RecordsOf("mint"), x), BothLegs)'
                         - Total(OfMember(RecordsOf("reversal"), x), ReversedAmount)'
  BY <1>1, OpenedTotals DEF LedgerReplay
<1>3. currentTotalSupply' = GenesisSupply + SumFunction(balances')
  <2>1. CASE createCommunity
    <3>1. currentTotalSupply' = GenesisSupply /\ ~exists /\ GenesisSupply \in Nat
      BY <2>1, GenesisAssumption DEF createCommunity
    <3>2. \A x \in Members : balances[x] = 0
      <4>1. RecordsOf("mint") = {} /\ RecordsOf("reversal") = {}
        BY <3>1 DEF LedgerInductive, RecordsOf
      <4>2. ASSUME NEW x \in Members PROVE balances[x] = 0
        <5>1. OfMember(RecordsOf("mint"), x) = {} /\ OfMember(RecordsOf("reversal"), x) = {}
          BY <4>1 DEF OfMember
        <5>2. /\ Total(OfMember(RecordsOf("mint"), x), BothLegs) = 0
              /\ Total(OfMember(RecordsOf("reversal"), x), ReversedAmount) = 0
          BY <5>1, TotalsAreSums, SumsEmpty
        <5> QED
          BY <5>2 DEF LedgerReplay
      <4> QED
        BY <4>2
    <3>3. SumFunction(balances) = 0
      <4>1. DOMAIN balances = Members
        BY DEF TypeOK, LedgerTypeOK
      <4> QED
        BY <3>2, <4>1, SumZero, MembersAssumption DEF SumFunction
    <3> QED
      BY <1>1, <3>1, <3>3
  <2>2. CASE rollEpoch
    BY <1>1, <2>2 DEF rollEpoch, supplyVars, LedgerReplay
  <2> QED
    BY <2>1, <2>2
<1>4. /\ epoch'.regularMinted = Total(MintsOfEpoch, RegularLeg)'
      /\ epoch'.advanceMinted = Total(MintsOfEpoch, AdvanceLeg)'
  BY <1>1, OpenedTotals
<1> QED
  BY <1>2, <1>3, <1>4 DEF LedgerReplay

\* Every step keeps the ledger replayable.
LEMMA NextReplay ==
  ASSUME TypeOK, LedgerInductive, LedgerReplay, [Next]_vars
  PROVE  LedgerReplay'
<1>1. CASE LedgerKept
  <2>1. UNCHANGED <<records, epoch, balances, currentTotalSupply, exists>>
    BY <1>1 DEF LedgerKept, ledgerVars, supplyVars, epochVars, recordVars
  <2> QED
    BY <2>1, KeptTotals DEF LedgerReplay
<1> QED
  BY <1>1, NextLedgerStep, MintReplays, ReversalReplays, OpeningReplays

\* The records a mint or a reversal writes keep the record part of the strengthening.
LEMMA WritesKeepRecords ==
  ASSUME LedgerInductive, NEW h \in RecordHashes,
         \A x \in RecordHashes : x # h => records'[x] = records[x]
  PROVE  /\ IsFiniteSet({x \in RecordHashes : RecordExists(x)'})
         /\ \A x \in RecordHashes : x # h => RecordExists(x)' = RecordExists(x)
<1> DEFINE E == {x \in RecordHashes : RecordExists(x)}
           F == {x \in RecordHashes : RecordExists(x)'}
<1>1. \A x \in RecordHashes : x # h => RecordExists(x)' = RecordExists(x)
  BY DEF RecordExists
<1>2. IsFiniteSet(E \cup {h})
  BY FS_AddElement DEF LedgerInductive
<1>3. F \subseteq E \cup {h}
  BY <1>1
<1>4. IsFiniteSet(F)
  BY <1>2, <1>3, FS_Subset
<1> QED
  BY <1>1, <1>4

\* A proposal a mint cites was not consumed before, was opened, and is consumed now.
LEMMA MintCites ==
  ASSUME NEW m \in Members, NEW c \in Contributions, NEW h \in RecordHashes,
         NEW regular \in Nat, NEW advance \in Nat, NEW related \in BOOLEAN,
         NEW p \in ProposalIds, ProposalOfMint(advance, related, p) # NoProposal,
         executeMint(m, c, h, regular, advance, related, p)
  PROVE  /\ ProposalOfMint(advance, related, p) = p
         /\ ProposalUsable(p)
         /\ proposalConsumedForMint' = proposalConsumedForMint \cup {p}
<1>1. PICK sigs \in SUBSET isApprover, n \in Nonces :
        MintApproved(m, advance, related, p, sigs, n)
  BY DEF executeMint
<1>2. ApprovalTier(advance, related, p) = 3 /\ ProposalOfMint(advance, related, p) = p
  BY DEF ProposalOfMint
<1>3. MintProposalSatisfied(p, m)
  BY <1>1, <1>2 DEF MintApproved
<1>4. proposalConsumedForMint' = proposalConsumedForMint \cup ({p} \ {NoProposal})
  BY <1>2 DEF executeMint
<1> QED
  BY <1>2, <1>3, <1>4, SentinelAssumption DEF MintProposalSatisfied, ProposalAuthorizes

\* So is a proposal a reversal cites.
LEMMA ReversalCites ==
  ASSUME TypeOK, NEW m \in Members, NEW original \in Originals,
         NEW h \in RecordHashes, NEW amount \in Nat,
         NEW p \in ProposalIds,
         executeReversal(m, original, h, amount, p)
  PROVE  \/ /\ records'[h].proposal = NoProposal
            /\ proposalConsumedForMint' = proposalConsumedForMint
         \/ /\ records'[h].proposal = p /\ ProposalUsable(p)
            /\ proposalConsumedForMint' = proposalConsumedForMint \cup {p}
<1>1. records'[h].proposal = IF ReversalAuthorized(p, m) THEN p ELSE NoProposal
  BY DEF executeReversal, TypeOK, LedgerTypeOK
<1> QED
  BY <1>1 DEF executeReversal, ReversalAuthorized, ProposalAuthorizes

\* Opened proposals stay open and keep their kind.
LEMMA KindStays ==
  ASSUME TypeOK, [Next]_vars, NEW p \in ProposalIds, Opened(p)
  PROVE  Opened(p)' /\ proposals'[p].kind = proposals[p].kind
<1>1. proposals[p] \in ProposalType
  BY OpenedType DEF Opened, TypeOK
<1> QED
  BY <1>1, NextProposalStep
     DEF ProposalStep, Created, Voted, Settled, Executed, Opened, ProposalType

\* Every step preserves the strengthening.
LEMMA NextLedgerInductive ==
  ASSUME TypeOK, LedgerInductive, [Next]_vars
  PROVE  LedgerInductive'
<1>0. TypeOK'
  BY NextType
<1>1. \A p \in ProposalIds : Opened(p) => Opened(p)'
  BY KindStays
<1>2. CASE MintStep
  <2>1. PICK m \in Members, c \in Contributions, h \in RecordHashes, regular \in Nat,
             advance \in Nat, related \in BOOLEAN, p \in ProposalIds :
          executeMint(m, c, h, regular, advance, related, p)
    BY <1>2 DEF MintStep
  <2>2. MintWritten(m, h, regular, advance, ProposalOfMint(advance, related, p))
    BY <2>1, MintWrites
  <2>3. \A x \in RecordHashes : x # h => records'[x] = records[x]
    BY <2>2 DEF MintWritten
  <2>4. /\ IsFiniteSet({x \in RecordHashes : RecordExists(x)'})
        /\ \A x \in RecordHashes : x # h => RecordExists(x)' = RecordExists(x)
    BY <2>3, WritesKeepRecords
  <2>5. exists'
    BY <2>1 DEF executeMint, communityVars
  <2>6. \A x \in RecordsOf("mint")' : records'[x].epochNumber <= epoch'.epochNumber
    <3>1. RecordsOf("mint")' = RecordsOf("mint") \cup {h} /\ h \notin RecordsOf("mint")
      BY <2>2, MintSets
    <3>2. epoch.epochNumber \in Nat
      BY DEF TypeOK, LedgerTypeOK, EpochType
    <3>3. \A x \in RecordsOf("mint") :
            records'[x] = records[x] /\ records[x].epochNumber <= epoch.epochNumber
      BY <2>3, <3>1 DEF RecordsOf, LedgerInductive
    <3> QED
      BY <2>2, <3>1, <3>2, <3>3 DEF MintWritten
  <2>7. \A x \in Members :
          memberRegularMintedEpoch'[x] = Total(OfMember(MintsOfEpoch, x), RegularLeg)'
    <3>1. memberRegularMintedEpoch' = [memberRegularMintedEpoch EXCEPT ![m] = @ + regular]
          /\ memberRegularMintedEpoch \in [Members -> Nat]
      BY <2>1 DEF executeMint, ApplyMint, TypeOK, LedgerTypeOK
    <3>2. ASSUME NEW x \in Members
          PROVE  Total(OfMember(MintsOfEpoch, x), RegularLeg)'
                   = IF x = m THEN Total(OfMember(MintsOfEpoch, x), RegularLeg) + regular
                     ELSE Total(OfMember(MintsOfEpoch, x), RegularLeg)
      BY <2>2, MintTotals
    <3>3. ASSUME NEW x \in Members
          PROVE  memberRegularMintedEpoch[x] = Total(OfMember(MintsOfEpoch, x), RegularLeg)
      BY DEF LedgerInductive
    <3> QED
      BY <3>1, <3>2, <3>3
  <2>8. ASSUME NEW x \in RecordHashes, RecordExists(x)', records'[x].proposal # NoProposal
        PROVE  /\ records'[x].proposal \in proposalConsumedForMint'
               /\ proposals'[records'[x].proposal].status # "NONE"
    <3>1. proposals' = proposals /\ proposalConsumedForMint \subseteq proposalConsumedForMint'
      BY <2>1 DEF executeMint
    <3>2. CASE x = h
      <4>1. records'[x].proposal = p /\ p # NoProposal
        BY <2>1, <2>2, <2>8, <3>2, MintCites, SentinelAssumption DEF MintWritten
      <4>2. ProposalUsable(p) /\ p \in proposalConsumedForMint'
        BY <2>1, <2>2, <2>8, <3>2, MintCites DEF MintWritten
      <4> QED
        BY <3>1, <4>1, <4>2 DEF ProposalUsable
    <3>3. CASE x # h
      BY <2>3, <2>4, <2>8, <3>1, <3>3 DEF LedgerInductive
    <3> QED
      BY <3>2, <3>3
  <2> QED
    BY <2>4, <2>5, <2>6, <2>7, <2>8 DEF LedgerInductive
<1>3. CASE ReversalStep
  <2>1. PICK m \in Members, original \in Originals, h \in RecordHashes, amount \in Nat,
             p \in ProposalIds :
          executeReversal(m, original, h, amount, p)
    BY <1>3 DEF ReversalStep
  <2>2. ReversalWritten(m, h, amount)
    BY <2>1, ReversalWrites
  <2>3. \A x \in RecordHashes : x # h => records'[x] = records[x]
    BY <2>2 DEF ReversalWritten
  <2>4. /\ IsFiniteSet({x \in RecordHashes : RecordExists(x)'})
        /\ \A x \in RecordHashes : x # h => RecordExists(x)' = RecordExists(x)
    BY <2>3, WritesKeepRecords
  <2>5. exists' /\ epoch' = epoch /\ memberRegularMintedEpoch' = memberRegularMintedEpoch
    BY <2>1 DEF executeReversal, communityVars, epochVars
  <2>6. \A x \in RecordsOf("mint")' : records'[x].epochNumber <= epoch'.epochNumber
    <3>1. RecordsOf("mint")' = RecordsOf("mint") /\ h \notin RecordsOf("mint")
      BY <2>2, ReversalSets
    <3>2. \A x \in RecordsOf("mint") : records'[x] = records[x]
      BY <2>3, <3>1 DEF RecordsOf
    <3> QED
      BY <2>5, <3>1, <3>2 DEF LedgerInductive
  <2>7. \A x \in Members :
          memberRegularMintedEpoch'[x] = Total(OfMember(MintsOfEpoch, x), RegularLeg)'
    BY <2>2, <2>5, ReversalTotals DEF LedgerInductive
  <2>8. ASSUME NEW x \in RecordHashes, RecordExists(x)', records'[x].proposal # NoProposal
        PROVE  /\ records'[x].proposal \in proposalConsumedForMint'
               /\ proposals'[records'[x].proposal].status # "NONE"
    <3>1. proposals' = proposals /\ proposalConsumedForMint \subseteq proposalConsumedForMint'
      BY <2>1 DEF executeReversal
    <3>2. CASE x = h
      BY <2>1, <2>8, <3>1, <3>2, ReversalCites DEF ProposalUsable
    <3>3. CASE x # h
      BY <2>3, <2>4, <2>8, <3>1, <3>3 DEF LedgerInductive
    <3> QED
      BY <3>2, <3>3
  <2> QED
    BY <2>4, <2>5, <2>6, <2>7, <2>8 DEF LedgerInductive
<1>4. CASE createCommunity \/ rollEpoch
  <2>1. /\ EpochOpened /\ exists'
        /\ UNCHANGED <<proposals, proposalConsumedForMint>>
        /\ \A h \in RecordsOf("mint") : records[h].epochNumber < epoch'.epochNumber
    BY <1>4, OpenedStep
  <2>2. records' = records /\ RecordsOf("mint")' = RecordsOf("mint")
        /\ \A x \in RecordHashes : RecordExists(x)' = RecordExists(x)
    BY <2>1 DEF EpochOpened, RecordsOf, RecordExists
  <2>3. \A h \in RecordsOf("mint")' : records'[h].epochNumber <= epoch'.epochNumber
    <3>1. ASSUME NEW h \in RecordsOf("mint")
          PROVE  records[h].epochNumber \in Nat /\ epoch'.epochNumber \in Nat
      BY <1>0, MintRecordType DEF MintType, TypeOK, LedgerTypeOK, EpochType
    <3> QED
      BY <2>1, <2>2, <3>1
  <2>4. \A m \in Members : memberRegularMintedEpoch'[m] = 0
    <3>1. CASE rollEpoch
      BY <3>1 DEF rollEpoch
    <3>2. CASE createCommunity
      <4>1. RecordsOf("mint") = {} /\ memberRegularMintedEpoch' = memberRegularMintedEpoch
        BY <3>2 DEF createCommunity, LedgerInductive, RecordsOf
      <4>2. ASSUME NEW m \in Members PROVE memberRegularMintedEpoch[m] = 0
        <5>1. OfMember(MintsOfEpoch, m) = {}
          BY <4>1 DEF OfMember, MintsOfEpoch
        <5> QED
          BY <5>1, TotalsAreSums, SumsEmpty DEF LedgerInductive
      <4> QED
        BY <4>1, <4>2
    <3> QED
      BY <1>4, <3>1, <3>2
  <2>5. \A m \in Members :
          memberRegularMintedEpoch'[m] = Total(OfMember(MintsOfEpoch, m), RegularLeg)'
    BY <2>1, <2>4, OpenedTotals
  <2>6. IsFiniteSet({x \in RecordHashes : RecordExists(x)'})
    BY <2>2 DEF LedgerInductive
  <2> QED
    BY <2>1, <2>2, <2>3, <2>5, <2>6 DEF LedgerInductive
<1>5. CASE LedgerKept
  <2>1. UNCHANGED <<records, epoch, memberRegularMintedEpoch, exists, proposalConsumedForMint>>
    BY <1>5 DEF LedgerKept, ledgerVars, epochVars, recordVars
  <2>2. RecordsOf("mint")' = RecordsOf("mint")
        /\ \A x \in RecordHashes : RecordExists(x)' = RecordExists(x)
    BY <2>1 DEF RecordsOf, RecordExists
  <2>3. \A m \in Members :
          memberRegularMintedEpoch'[m] = Total(OfMember(MintsOfEpoch, m), RegularLeg)'
    BY <2>1, KeptTotals DEF LedgerInductive
  <2>4. IsFiniteSet({x \in RecordHashes : RecordExists(x)'})
    BY <2>2 DEF LedgerInductive
  <2>5. ASSUME NEW x \in RecordHashes, RecordExists(x)', records'[x].proposal # NoProposal
        PROVE  /\ records'[x].proposal \in proposalConsumedForMint'
               /\ proposals'[records'[x].proposal].status # "NONE"
    <3>1. /\ records[x].proposal \in proposalConsumedForMint
          /\ proposals[records[x].proposal].status # "NONE"
      BY <2>1, <2>2, <2>5 DEF LedgerInductive
    <3>2. records[x].proposal \in ProposalIds
      BY <3>1 DEF TypeOK, GovernanceTypeOK
    <3> QED
      BY <1>1, <2>1, <3>1, <3>2 DEF Opened
  <2> QED
    BY <2>1, <2>2, <2>3, <2>4, <2>5 DEF LedgerInductive
<1> QED
  BY <1>2, <1>3, <1>4, <1>5, NextLedgerStep

\* Init has no record.
LEMMA InitLedger == Init => LedgerInductive /\ LedgerReplay
<1> SUFFICES ASSUME Init PROVE LedgerInductive /\ LedgerReplay
  OBVIOUS
<1>1. \A h \in RecordHashes : ~RecordExists(h)
  BY DEF Init, RecordExists
<1>2. RecordsOf("mint") = {} /\ RecordsOf("reversal") = {} /\ MintsOfEpoch = {}
  BY <1>1 DEF RecordsOf, MintsOfEpoch
<1>3. \A m \in Members : /\ OfMember(RecordsOf("mint"), m) = {}
                         /\ OfMember(RecordsOf("reversal"), m) = {}
                         /\ OfMember(MintsOfEpoch, m) = {}
  BY <1>2 DEF OfMember
<1>4. Total(MintsOfEpoch, RegularLeg) = 0 /\ Total(MintsOfEpoch, AdvanceLeg) = 0
  BY <1>2, TotalsAreSums, SumsEmpty
<1>5. ASSUME NEW m \in Members
      PROVE  /\ Total(OfMember(RecordsOf("mint"), m), BothLegs) = 0
             /\ Total(OfMember(RecordsOf("reversal"), m), ReversedAmount) = 0
             /\ Total(OfMember(MintsOfEpoch, m), RegularLeg) = 0
  BY <1>3, TotalsAreSums, SumsEmpty
<1>6. IsFiniteSet({h \in RecordHashes : RecordExists(h)})
  <2>1. {h \in RecordHashes : RecordExists(h)} = {}
    BY <1>1
  <2> QED
    BY <2>1, FS_EmptySet
<1>7. LedgerInductive
  BY <1>1, <1>2, <1>5, <1>6 DEF Init, LedgerInductive
<1>8. LedgerReplay
  BY <1>4, <1>5 DEF Init, OpenEpoch, LedgerReplay
<1> QED
  BY <1>7, <1>8

\* The strengthening holds in every reachable state.
THEOREM LedgerInductiveHolds == Spec => []LedgerInductive
<1>1. TypeOK /\ LedgerInductive /\ [Next]_vars => LedgerInductive'
  BY NextLedgerInductive
<1> QED
  BY InitLedger, TypeCorrect, <1>1, PTL DEF Spec

\* The state of the ledger is what its records replay to: for any set of members
\* and of records, every balance, the supply and the open epoch's totals are the
\* sums over the events executeMint and executeReversal emitted.
THEOREM LedgerReplays == Spec => []LedgerReplay
<1>1. TypeOK /\ LedgerInductive /\ LedgerReplay /\ [Next]_vars => LedgerReplay'
  BY NextReplay
<1> QED
  BY InitLedger, TypeCorrect, LedgerInductiveHolds, <1>1, PTL DEF Spec

(***************************************************************************)
(* A proposal authorizes one mint or reversal.                             *)
(***************************************************************************)

Citing(p) == {h \in RecordHashes : RecordExists(h) /\ records[h].proposal = p}

\* A set with at most one element has at most one element.
LEMMA OneElement ==
  ASSUME NEW S, NEW a, S \subseteq {a}
  PROVE  Cardinality(S) <= 1
<1>1. S = {} \/ S = {a}
  OBVIOUS
<1>2. Cardinality({}) = 0
  BY FS_EmptySet
<1>3. Cardinality({a}) = 1
  BY FS_Singleton
<1>4. Cardinality(S) = 0 \/ Cardinality(S) = 1
  BY <1>1, <1>2, <1>3
<1> QED
  BY <1>4

\* One record and no other is written: a proposal it cites had no record.
LEMMA OneCitation ==
  ASSUME TypeOK, LedgerInductive, ProposalUsedOnce, NEW p \in ProposalIds,
         NEW h \in RecordHashes,
         \A x \in RecordHashes : x # h => records'[x] = records[x],
         records'[h].proposal = p => p \notin proposalConsumedForMint,
         ~RecordExists(h)
  PROVE  Cardinality(Citing(p)') <= 1
<1>1. \A x \in RecordHashes : x # h => RecordExists(x)' = RecordExists(x)
  BY WritesKeepRecords
<1>2. CASE records'[h].proposal = p
  <2>1. Citing(p) = {}
    BY <1>2, SentinelAssumption DEF Citing, LedgerInductive
  <2>2. Citing(p)' \subseteq {h}
    BY <1>1, <2>1 DEF Citing
  <2> QED
    BY <2>2, OneElement
<1>3. CASE records'[h].proposal # p
  <2>1. Citing(p)' = Citing(p)
    BY <1>1, <1>3 DEF Citing
  <2> QED
    BY <2>1 DEF ProposalUsedOnce, Citing
<1> QED
  BY <1>2, <1>3

\* Every step keeps the uses of a proposal to one.
LEMMA NextUsedOnce ==
  ASSUME TypeOK, LedgerInductive, ProposalUsedOnce, [Next]_vars
  PROVE  ProposalUsedOnce'
<1> SUFFICES ASSUME NEW q \in ProposalIds
             PROVE  Cardinality(Citing(q)') <= 1
  BY DEF ProposalUsedOnce, Citing
<1>1. CASE MintStep
  <2>1. PICK m \in Members, c \in Contributions, h \in RecordHashes, regular \in Nat,
             advance \in Nat, related \in BOOLEAN, p \in ProposalIds :
          executeMint(m, c, h, regular, advance, related, p)
    BY <1>1 DEF MintStep
  <2>2. MintWritten(m, h, regular, advance, ProposalOfMint(advance, related, p))
    BY <2>1, MintWrites
  <2>3. records'[h].proposal = q => q \notin proposalConsumedForMint
    <3>1. records'[h].proposal = ProposalOfMint(advance, related, p) /\ q # NoProposal
      BY <2>2, SentinelAssumption DEF MintWritten
    <3>2. CASE ProposalOfMint(advance, related, p) # NoProposal
      <4>1. ProposalOfMint(advance, related, p) = p /\ ProposalUsable(p)
        BY <2>1, <3>2, MintCites
      <4> QED
        BY <3>1, <4>1 DEF ProposalUsable
    <3> QED
      BY <3>1, <3>2
  <2> QED
    BY <2>2, <2>3, OneCitation DEF MintWritten
<1>2. CASE ReversalStep
  <2>1. PICK m \in Members, original \in Originals, h \in RecordHashes, amount \in Nat,
             p \in ProposalIds :
          executeReversal(m, original, h, amount, p)
    BY <1>2 DEF ReversalStep
  <2>2. ReversalWritten(m, h, amount)
    BY <2>1, ReversalWrites
  <2>3. records'[h].proposal = q => q \notin proposalConsumedForMint
    BY <2>1, ReversalCites, SentinelAssumption DEF ProposalUsable
  <2> QED
    BY <2>2, <2>3, OneCitation DEF ReversalWritten
<1>3. CASE LedgerKept \/ createCommunity \/ rollEpoch
  <2>1. records' = records
    BY <1>3 DEF LedgerKept, ledgerVars, recordVars, createCommunity, rollEpoch
  <2>2. Citing(q)' = Citing(q)
    BY <2>1 DEF Citing, RecordExists
  <2> QED
    BY <2>2 DEF ProposalUsedOnce, Citing
<1> QED
  BY <1>1, <1>2, <1>3, NextLedgerStep

\* One approved proposal authorizes at most one mint or reversal, whoever relays
\* authorizations that cite it and in whatever order.
THEOREM ProposalsUsedOnce == Spec => []ProposalUsedOnce
<1>1. Init => ProposalUsedOnce
  <2> SUFFICES ASSUME Init, NEW p \in ProposalIds
               PROVE  Cardinality(Citing(p)) <= 1
    BY DEF ProposalUsedOnce, Citing
  <2>1. Citing(p) = {}
    BY DEF Init, Citing, RecordExists
  <2> QED
    BY <2>1, FS_EmptySet
<1>2. TypeOK /\ LedgerInductive /\ ProposalUsedOnce /\ [Next]_vars => ProposalUsedOnce'
  BY NextUsedOnce
<1> QED
  BY <1>1, <1>2, TypeCorrect, LedgerInductiveHolds, PTL DEF Spec

(***************************************************************************)
(* The member cap and the advance gates.                                   *)
(***************************************************************************)

\* Fewer records have no larger sum.
LEMMA SumsOfFewer ==
  ASSUME NEW T, IsFiniteSet(T), NEW recs,
         \A x \in T : recs[x].regular \in Nat /\ recs[x].advance \in Nat, NEW S \in SUBSET T
  PROVE  /\ RegularSum(recs, S) <= RegularSum(recs, T)
         /\ AdvanceSum(recs, S) <= AdvanceSum(recs, T)
         /\ RegularSum(recs, S) \in Nat /\ AdvanceSum(recs, S) \in Nat
<1> DEFINE f == [x \in T |-> recs[x].regular]
           f1 == [x \in S |-> recs[x].regular]
           g == [x \in T |-> recs[x].advance]
           g1 == [x \in S |-> recs[x].advance]
<1>1. /\ DOMAIN f = T /\ DOMAIN f1 = S /\ DOMAIN g = T /\ DOMAIN g1 = S
      /\ \A x \in T : f[x] \in Nat /\ g[x] \in Nat
      /\ \A x \in S : f1[x] = f[x] /\ f1[x] \in Int /\ g1[x] = g[x] /\ g1[x] \in Int
  OBVIOUS
<1>2. IsFiniteSet(S)
  BY FS_Subset
<1> HIDE DEF f, f1, g, g1
<1>3. SumFunctionOnSet(f1, S) = SumFunctionOnSet(f, S)
  BY <1>1, <1>2, SumCongruence
<1>4. SumFunctionOnSet(g1, S) = SumFunctionOnSet(g, S)
  BY <1>1, <1>2, SumCongruence
<1>5. SumFunctionOnSet(f, S) <= SumFunctionOnSet(f, T)
  BY <1>1, SumSubset
<1>6. SumFunctionOnSet(g, S) <= SumFunctionOnSet(g, T)
  BY <1>1, SumSubset
<1>7. SumFunction(f1) <= SumFunction(f) /\ SumFunction(g1) <= SumFunction(g)
  BY <1>1, <1>3, <1>4, <1>5, <1>6 DEF SumFunction
<1>8. \A x \in S : f1[x] \in Nat /\ g1[x] \in Nat
  BY <1>1
<1>9. SumFunction(f1) \in Nat /\ SumFunction(g1) \in Nat
  BY <1>1, <1>2, <1>8, SumNat DEF SumFunction
<1> QED
  BY <1>7, <1>9 DEF f, f1, g, g1, RegularSum, AdvanceSum

\* The mints of the open epoch that the member cap limits.
Capped(m) ==
  {h \in OfMember(MintsOfEpoch, m) :
     records[h].proposal = NoProposal
       \/ proposals[records[h].proposal].kind # "special_mint"}

LEMMA CapHeldIsSum ==
  ASSUME NEW m
  PROVE  /\ Total(Capped(m), RegularLeg) = RegularSum(records, Capped(m))
         /\ Total(Capped(m), RegularLeg)' = RegularSum(records', Capped(m)')
BY DEF Total, RegularLeg, RegularSum

\* The capped total of a member is kept when no record of it is written.
LEMMA CappedKept ==
  ASSUME NEW m, Capped(m)' = Capped(m), \A x \in Capped(m) : records'[x] = records[x]
  PROVE  Total(Capped(m), RegularLeg)' = Total(Capped(m), RegularLeg)
BY CapHeldIsSum, SumsKept

\* Every step keeps the members within their cap.
LEMMA NextCap ==
  ASSUME TypeOK, LedgerInductive, MemberCapHeld, [Next]_vars
  PROVE  MemberCapHeld'
<1>0. TypeOK' /\ LedgerInductive'
  BY NextType, NextLedgerInductive
<1> SUFFICES ASSUME NEW x \in Members
             PROVE  Total(Capped(x), RegularLeg)' <= MemberEpochCap'
  BY DEF MemberCapHeld, Capped
<1>1. Total(Capped(x), RegularLeg) <= MemberEpochCap
  BY DEF MemberCapHeld, Capped
<1>2. CASE MintStep
  <2>1. PICK m \in Members, c \in Contributions, h \in RecordHashes, regular \in Nat,
             advance \in Nat, related \in BOOLEAN, p \in ProposalIds :
          executeMint(m, c, h, regular, advance, related, p)
    BY <1>2 DEF MintStep
  <2>2. MintWritten(m, h, regular, advance, ProposalOfMint(advance, related, p))
    BY <2>1, MintWrites
  <2>3. MintsOfEpoch' = MintsOfEpoch \cup {h} /\ h \notin MintsOfEpoch
        /\ MintsOfEpoch \subseteq RecordHashes
    BY <2>2, MintSets DEF MintsOfEpoch, RecordsOf
  <2>4. /\ \A y \in MintsOfEpoch : records'[y] = records[y]
        /\ records'[h].member = m
        /\ records'[h].proposal = ProposalOfMint(advance, related, p)
    BY <2>2, <2>3 DEF MintWritten
  <2>5. /\ proposals' = proposals /\ policy' = policy
        /\ epoch'.baseMintBudget = epoch.baseMintBudget
        /\ memberRegularMintedEpoch'[m] = memberRegularMintedEpoch[m] + regular
        /\ MemberCapOK(m, regular, p)
    BY <2>1 DEF executeMint, ApplyMint, communityVars, TypeOK, LedgerTypeOK, EpochType
  <2>6. MemberEpochCap' = MemberEpochCap
    BY <2>5 DEF MemberEpochCap
  <2>7. CASE x = m /\ ~(p # ZeroProposal /\ ProposalAuthorizes(p, m, "special_mint"))
    <3>1. memberRegularMintedEpoch[m] + regular <= MemberEpochCap
      BY <2>5, <2>7 DEF MemberCapOK
    <3> DEFINE T == OfMember(MintsOfEpoch, x) \cup {h}
    <3>2. OfMember(MintsOfEpoch, x)' = T /\ Capped(x)' \subseteq T
      BY <2>3, <2>4, <2>7 DEF Capped, OfMember
    <3>3. OfMember(MintsOfEpoch, x) \subseteq RecordsOf("mint")
      BY DEF OfMember, MintsOfEpoch
    <3>4. IsFiniteSet(OfMember(MintsOfEpoch, x))
      BY <3>3, MintRecordType, RecordsFinite
    <3>5. IsFiniteSet(T)
      BY <3>4, FS_AddElement
    <3>6. \A y \in T : records'[y].regular \in Nat /\ records'[y].advance \in Nat
      BY <2>2, <2>4, <3>3, MintRecordType DEF OfMember, MintWritten, RegularLeg, AdvanceLeg
    <3>7. memberRegularMintedEpoch'[x] = Total(OfMember(MintsOfEpoch, x), RegularLeg)'
      BY <1>0 DEF LedgerInductive
    <3> HIDE DEF T
    <3>8. /\ RegularSum(records', Capped(x)') <= RegularSum(records', T)
          /\ RegularSum(records', Capped(x)') \in Nat
      BY <3>2, <3>5, <3>6, SumsOfFewer
    <3>9. memberRegularMintedEpoch'[x] = RegularSum(records', T)
      BY <3>2, <3>7, TotalsAreSums
    <3>10. Total(Capped(x), RegularLeg)' = RegularSum(records', Capped(x)')
      BY CapHeldIsSum
    <3>11. memberRegularMintedEpoch'[x] \in Nat /\ MemberEpochCap \in Nat
      <4>1. policy.rates.memberCap \in Nat /\ epoch.baseMintBudget \in Nat
        BY DEF TypeOK, GovernanceTypeOK, PolicyType, Rates, LedgerTypeOK, EpochType
      <4> QED
        BY <1>0, <4>1, BpsOfType DEF MemberEpochCap, TypeOK, LedgerTypeOK
    <3>12. memberRegularMintedEpoch'[x] <= MemberEpochCap
      BY <2>5, <2>7, <3>1
    <3> QED
      BY <2>6, <3>8, <3>9, <3>10, <3>11, <3>12
  <2>8. CASE x # m \/ (p # ZeroProposal /\ ProposalAuthorizes(p, m, "special_mint"))
    <3>1. h \notin Capped(x)'
      <4>1. CASE x # m
        BY <2>4, <4>1 DEF Capped, OfMember
      <4>2. CASE p # ZeroProposal /\ ProposalAuthorizes(p, m, "special_mint")
        <5>1. p # NoProposal /\ proposals'[p].kind = "special_mint"
          BY <2>5, <4>2, SentinelAssumption DEF ProposalAuthorizes
        <5>2. records'[h].proposal = p
          BY <2>4, <4>2 DEF ProposalOfMint, ApprovalTier
        <5> QED
          BY <5>1, <5>2 DEF Capped
      <4> QED
        BY <2>8, <4>1, <4>2
    <3>2. Capped(x)' = Capped(x)
      BY <2>3, <2>4, <2>5, <3>1 DEF Capped, OfMember
    <3>3. \A y \in Capped(x) : records'[y] = records[y]
      BY <2>4 DEF Capped, OfMember
    <3>4. Total(Capped(x), RegularLeg)' = Total(Capped(x), RegularLeg)
      BY <3>2, <3>3, CappedKept
    <3> QED
      BY <1>1, <2>6, <3>4
  <2> QED
    BY <2>7, <2>8
<1>3. CASE ReversalStep
  <2>1. PICK m \in Members, original \in Originals, h \in RecordHashes, amount \in Nat,
             p \in ProposalIds :
          executeReversal(m, original, h, amount, p)
    BY <1>3 DEF ReversalStep
  <2>2. ReversalWritten(m, h, amount)
    BY <2>1, ReversalWrites
  <2>3. MintsOfEpoch' = MintsOfEpoch /\ \A y \in MintsOfEpoch : records'[y] = records[y]
    BY <2>2, ReversalSets DEF MintsOfEpoch, RecordsOf, ReversalWritten
  <2>4. UNCHANGED <<proposals, policy, epoch>>
    BY <2>1 DEF executeReversal, communityVars, epochVars
  <2>5. Capped(x)' = Capped(x) /\ \A y \in Capped(x) : records'[y] = records[y]
    BY <2>3, <2>4 DEF Capped, OfMember
  <2>6. MemberEpochCap' = MemberEpochCap
    BY <2>4 DEF MemberEpochCap
  <2> QED
    BY <1>1, <2>5, <2>6, CappedKept
<1>4. CASE createCommunity \/ rollEpoch
  <2>1. Capped(x)' = {}
    BY <1>4, OpenedStep DEF EpochOpened, Capped, OfMember
  <2>2. Total(Capped(x), RegularLeg)' = 0
    BY <2>1, CapHeldIsSum, SumsEmpty
  <2>3. MemberEpochCap' \in Nat
    <3>1. policy'.rates.memberCap \in Nat /\ epoch'.baseMintBudget \in Nat
      BY <1>0 DEF TypeOK, GovernanceTypeOK, PolicyType, Rates, LedgerTypeOK, EpochType
    <3> QED
      BY <3>1, BpsOfType DEF MemberEpochCap
  <2> QED
    BY <2>2, <2>3
<1>5. CASE LedgerKept
  <2>1. UNCHANGED <<records, epoch, policy, proposalConsumedForMint>>
    BY <1>5 DEF LedgerKept, ledgerVars, epochVars, recordVars
  <2>2. MintsOfEpoch' = MintsOfEpoch
    BY <2>1 DEF MintsOfEpoch, RecordsOf, RecordExists
  <2>3. ASSUME NEW y \in MintsOfEpoch, records[y].proposal # NoProposal
        PROVE  proposals'[records[y].proposal].kind = proposals[records[y].proposal].kind
    <3>1. y \in RecordHashes /\ RecordExists(y)
      BY DEF MintsOfEpoch, RecordsOf
    <3>2. /\ records[y].proposal \in ProposalIds
          /\ Opened(records[y].proposal)
      BY <2>3, <3>1 DEF LedgerInductive, TypeOK, GovernanceTypeOK, Opened
    <3> QED
      BY <3>2, KindStays
  <2>4. Capped(x)' = Capped(x)
    BY <2>1, <2>2, <2>3 DEF Capped, OfMember
  <2>5. MemberEpochCap' = MemberEpochCap
    BY <2>1 DEF MemberEpochCap
  <2> QED
    BY <1>1, <2>1, <2>4, <2>5, CappedKept
<1> QED
  BY <1>2, <1>3, <1>4, <1>5, NextLedgerStep

\* However a member's regular mints of an epoch are split, those no approved
\* special_mint proposal authorized stay within the member cap.
THEOREM MemberCapIsHeld == Spec => []MemberCapHeld
<1>1. Init => MemberCapHeld
  <2> SUFFICES ASSUME Init, NEW m \in Members
               PROVE  Total(Capped(m), RegularLeg) <= MemberEpochCap
    BY DEF MemberCapHeld, Capped
  <2>1. Capped(m) = {}
    BY DEF Init, Capped, OfMember, MintsOfEpoch, RecordsOf, RecordExists
  <2>2. MemberEpochCap \in Nat
    <3>1. policy.rates.memberCap \in Nat /\ epoch.baseMintBudget \in Nat
      BY InitType DEF TypeOK, GovernanceTypeOK, PolicyType, Rates, LedgerTypeOK, EpochType
    <3> QED
      BY <3>1, BpsOfType DEF MemberEpochCap
  <2> QED
    BY <2>1, <2>2, CapHeldIsSum, SumsEmpty
<1>2. TypeOK /\ LedgerInductive /\ MemberCapHeld /\ [Next]_vars => MemberCapHeld'
  BY NextCap
<1> QED
  BY <1>1, <1>2, TypeCorrect, LedgerInductiveHolds, PTL DEF Spec

\* The open epoch's mints that no proposal authorized, and a floored share.
Unvoted == {h \in MintsOfEpoch : records[h].proposal = NoProposal}

Under(amount, limit, budget) == amount > 0 => amount * BPS < (limit + 1) * budget

\* The gates, with the sum they are about.
LEMMA GatesAreSums ==
  /\ AdvanceGates <=>
       /\ Under(AdvanceSum(records, Unvoted), ADVANCE_DUAL_BPS, epoch.baseMintBudget)
       /\ Under(epoch.advanceMinted, MAX_ADVANCE_LIMIT_BPS, epoch.baseMintBudget)
       /\ epoch.advanceDebtFromPrev > 0 => epoch.advanceMinted = 0
  /\ AdvanceGates' <=>
       /\ Under(AdvanceSum(records', Unvoted'), ADVANCE_DUAL_BPS, epoch'.baseMintBudget)
       /\ Under(epoch'.advanceMinted, MAX_ADVANCE_LIMIT_BPS, epoch'.baseMintBudget)
       /\ epoch'.advanceDebtFromPrev > 0 => epoch'.advanceMinted = 0
BY DEF AdvanceGates, Under, Unvoted, AdvanceSum, Total, AdvanceLeg

\* A floored share that is within its limit is less than a basis point above it.
LEMMA FlooredShare ==
  ASSUME NEW n \in Nat, NEW d \in Nat \ {0}, NEW l \in Nat, n \div d <= l
  PROVE  n < (l + 1) * d
<1>1. n < (n \div d + 1) * d
  OBVIOUS
<1>2. n \div d \in Nat
  OBVIOUS
<1>3. \A q \in Nat : q <= l => (q + 1) * d <= (l + 1) * d
  OBVIOUS
<1>4. (n \div d + 1) * d <= (l + 1) * d
  BY <1>2, <1>3
<1>5. (n \div d + 1) * d \in Nat /\ (l + 1) * d \in Nat
  BY <1>2
<1> DEFINE lower == (n \div d + 1) * d
           upper == (l + 1) * d
<1> HIDE DEF lower, upper
<1> QED
  BY <1>1, <1>4, <1>5 DEF lower, upper

\* Less is under the same limit.
LEMMA UnderLess ==
  ASSUME NEW a \in Nat, NEW b \in Nat, a <= b, NEW n \in Nat, b * BPS < n
  PROVE  a * BPS < n
BY DEF BPS

\* Every step keeps the advances of the open epoch within both gates.
LEMMA NextGates ==
  ASSUME TypeOK, LedgerInductive, LedgerReplay, AdvanceGates, [Next]_vars
  PROVE  AdvanceGates'
<1>1. TypeOK'
  BY NextType
<1>2. CASE MintStep
  <2>1. PICK m \in Members, c \in Contributions, h \in RecordHashes, regular \in Nat,
             advance \in Nat, related \in BOOLEAN, p \in ProposalIds :
          executeMint(m, c, h, regular, advance, related, p)
    BY <1>2 DEF MintStep
  <2> DEFINE used == ProposalOfMint(advance, related, p)
  <2>2. MintWritten(m, h, regular, advance, ProposalOfMint(advance, related, p))
    BY <2>1, MintWrites
  <2>3. /\ MintsOfEpoch' = MintsOfEpoch \cup {h} /\ h \notin MintsOfEpoch
        /\ MintsOfEpoch \subseteq RecordsOf("mint") /\ MintsOfEpoch \subseteq RecordHashes
    BY <2>2, MintSets DEF MintsOfEpoch, RecordsOf
  <2>4. /\ \A y \in MintsOfEpoch : records'[y] = records[y]
        /\ records'[h].proposal = used /\ records'[h].advance = advance
    BY <2>2, <2>3 DEF MintWritten
  <2> DEFINE base == epoch.baseMintBudget
             before == epoch.advanceMinted
             sum == AdvanceSum(records, Unvoted)
  <2>5. /\ epoch'.baseMintBudget = base
        /\ epoch'.advanceMinted = before + advance
        /\ epoch'.advanceDebtFromPrev = epoch.advanceDebtFromPrev
        /\ AdvanceOK(advance)
        /\ base \in Nat /\ before \in Nat /\ epoch.advanceDebtFromPrev \in Nat
    BY <2>1 DEF executeMint, ApplyMint, TypeOK, LedgerTypeOK, EpochType
  <2>6. /\ Under(sum, ADVANCE_DUAL_BPS, base)
        /\ Under(before, MAX_ADVANCE_LIMIT_BPS, base)
        /\ epoch.advanceDebtFromPrev > 0 => before = 0
    BY GatesAreSums
  <2>7. /\ IsFiniteSet(MintsOfEpoch)
        /\ \A y \in MintsOfEpoch : /\ records[y].regular \in Nat
                                   /\ records[y].advance \in Nat
    BY <2>3, RecordsFinite, MintRecordType DEF RegularLeg, AdvanceLeg
  <2>8. sum <= before /\ sum \in Nat
    <3>1. before = AdvanceSum(records, MintsOfEpoch)
      BY TotalsAreSums DEF LedgerReplay
    <3>2. Unvoted \subseteq MintsOfEpoch
      BY DEF Unvoted
    <3> QED
      BY <2>7, <3>1, <3>2, SumsOfFewer
  <2>9. AdvanceSum(records', Unvoted') = IF used = NoProposal THEN sum + advance ELSE sum
    <3>1. Unvoted' = IF used = NoProposal THEN Unvoted \cup {h} ELSE Unvoted
      BY <2>3, <2>4 DEF Unvoted
    <3>2. \A y \in Unvoted : records'[y] = records[y] /\ records[y].advance \in Int
      BY <2>4, <2>7 DEF Unvoted
    <3>3. IsFiniteSet(Unvoted) /\ h \notin Unvoted /\ records'[h].advance \in Int
      BY <2>3, <2>4, <2>7, FS_Subset DEF Unvoted
    <3>4. AdvanceSum(records', Unvoted \cup {h})
            = AdvanceSum(records, Unvoted) + records'[h].advance
      BY <3>2, <3>3, AdvanceAdded
    <3>5. AdvanceSum(records', Unvoted) = sum
      BY <3>2, SumsKept
    <3> QED
      BY <2>4, <3>1, <3>4, <3>5
  <2>10. ADVANCE_DUAL_BPS \in Nat /\ MAX_ADVANCE_LIMIT_BPS \in Nat /\ BPS \in Nat
    BY DEF ADVANCE_DUAL_BPS, MAX_ADVANCE_LIMIT_BPS, BPS
  <2> HIDE DEF sum, base, before, used
  <2>11. CASE advance = 0
    BY <2>5, <2>6, <2>8, <2>9, <2>11, GatesAreSums
  <2>12. CASE advance > 0
    <3>1. base \in Nat \ {0} /\ epoch.advanceDebtFromPrev = 0
          /\ ((before + advance) * BPS) \div base <= MAX_ADVANCE_LIMIT_BPS
      BY <2>5, <2>12 DEF AdvanceOK, CumulativeAdvanceBps, base, before
    <3>2. (before + advance) * BPS \in Nat
      BY <2>5, <2>10
    <3>3. (before + advance) * BPS < (MAX_ADVANCE_LIMIT_BPS + 1) * base
      BY <2>10, <3>1, <3>2, FlooredShare
    <3>4. ASSUME used = NoProposal
          PROVE  (sum + advance) * BPS < (ADVANCE_DUAL_BPS + 1) * base
      <4>2. ApprovalTier(advance, related, p) # 3
        BY <3>4, SentinelAssumption DEF ProposalOfMint, used
      <4>3. ~(CumulativeAdvanceBps(advance) > ADVANCE_DUAL_BPS)
        BY <2>12, <4>2 DEF ApprovalTier
      <4>4. ((before + advance) * BPS) \div base <= ADVANCE_DUAL_BPS
        BY <2>10, <3>1, <3>2, <4>3 DEF CumulativeAdvanceBps, base, before
      <4>5. (before + advance) * BPS < (ADVANCE_DUAL_BPS + 1) * base
        BY <2>10, <3>1, <3>2, <4>4, FlooredShare
      <4>6. (ADVANCE_DUAL_BPS + 1) * base \in Nat
        BY <2>5, <2>10
      <4>7. sum + advance <= before + advance /\ sum + advance \in Nat /\ before + advance \in Nat
        BY <2>5, <2>8
      <4> QED
        BY <4>5, <4>6, <4>7, UnderLess
    <3>5. Under(AdvanceSum(records', Unvoted'), ADVANCE_DUAL_BPS, epoch'.baseMintBudget)
      <4>1. CASE used = NoProposal
        BY <2>5, <2>9, <3>4, <4>1 DEF Under
      <4>2. CASE used # NoProposal
        BY <2>5, <2>6, <2>9, <4>2
      <4> QED
        BY <4>1, <4>2
    <3>6. Under(epoch'.advanceMinted, MAX_ADVANCE_LIMIT_BPS, epoch'.baseMintBudget)
      BY <2>5, <3>3 DEF Under
    <3> QED
      BY <2>5, <3>1, <3>5, <3>6, GatesAreSums
  <2> QED
    BY <2>11, <2>12
<1>3. CASE ReversalStep
  <2>1. PICK m \in Members, original \in Originals, h \in RecordHashes, amount \in Nat,
             p \in ProposalIds :
          executeReversal(m, original, h, amount, p)
    BY <1>3 DEF ReversalStep
  <2>2. ReversalWritten(m, h, amount)
    BY <2>1, ReversalWrites
  <2>3. MintsOfEpoch' = MintsOfEpoch /\ \A y \in MintsOfEpoch : records'[y] = records[y]
    BY <2>2, ReversalSets DEF MintsOfEpoch, RecordsOf, ReversalWritten
  <2>4. epoch' = epoch
    BY <2>1 DEF executeReversal, epochVars
  <2>5. Unvoted' = Unvoted /\ \A y \in Unvoted : records'[y] = records[y]
    BY <2>3 DEF Unvoted
  <2>6. AdvanceSum(records', Unvoted') = AdvanceSum(records, Unvoted)
    BY <2>5, SumsKept
  <2> QED
    BY <2>4, <2>6, GatesAreSums
<1>4. CASE createCommunity \/ rollEpoch
  <2>1. Unvoted' = {} /\ epoch'.advanceMinted = 0
    BY <1>4, OpenedStep DEF EpochOpened, Unvoted
  <2>2. AdvanceSum(records', Unvoted') = 0
    BY <2>1, SumsEmpty
  <2> QED
    BY <2>1, <2>2, GatesAreSums DEF Under
<1>5. CASE LedgerKept
  <2>1. UNCHANGED <<records, epoch>>
    BY <1>5 DEF LedgerKept, ledgerVars, epochVars, recordVars
  <2>2. Unvoted' = Unvoted
    BY <2>1 DEF Unvoted, MintsOfEpoch, RecordsOf, RecordExists
  <2> QED
    BY <2>1, <2>2, GatesAreSums
<1> QED
  BY <1>2, <1>3, <1>4, <1>5, NextLedgerStep

\* Splitting an advance does not lower its tier: for any number of mints, the
\* advances of an epoch without a proposal stay below a basis point over the dual
\* limit, all of them below one over the hard limit, and there is none while debt
\* is owed.
THEOREM AdvancesAreGated == Spec => []AdvanceGates
<1>1. Init => AdvanceGates
  <2> SUFFICES ASSUME Init PROVE AdvanceGates
    OBVIOUS
  <2>1. Unvoted = {}
    BY DEF Init, Unvoted, MintsOfEpoch, RecordsOf, RecordExists
  <2>2. AdvanceSum(records, Unvoted) = 0 /\ epoch.advanceMinted = 0
    BY <2>1, SumsEmpty DEF Init, OpenEpoch
  <2> QED
    BY <2>2, GatesAreSums DEF Under
<1>2. TypeOK /\ LedgerInductive /\ LedgerReplay /\ AdvanceGates /\ [Next]_vars => AdvanceGates'
  BY NextGates
<1> QED
  BY <1>1, <1>2, TypeCorrect, LedgerInductiveHolds, LedgerReplays, PTL DEF Spec
=============================================================================
