----------------------- MODULE YouFenGovernanceVotes -----------------------
(***************************************************************************)
(* Types and governance of the contract model, for every value of the      *)
(* constants.  Type correctness comes first, one lemma per action, split by *)
(* the three parts of TypeOK, after lemmas on the amounts and on checkpoint *)
(* reads.  Then: a snapshot weight is frozen, a settled proposal is final, *)
(* and the policy changes only by an executed proposal, which follow from  *)
(* what a step may do to one proposal and to one checkpoint array, and from *)
(* GovernanceInductive.                                                    *)
(***************************************************************************)
EXTENDS YouFenGovernance, FiniteSetTheorems, SequenceTheorems, WellFoundedInduction, TLAPS

(***************************************************************************)
(* Amounts.                                                                *)
(***************************************************************************)

\* A share of an amount in basis points is a natural number.
LEMMA BpsOfType ==
  ASSUME NEW amount \in Nat, NEW bps \in Nat
  PROVE  BpsOf(amount, bps) \in Nat
<1>1. amount * bps \in Nat
  OBVIOUS
<1>2. \A n \in Nat : n \div 10000 \in Nat
  OBVIOUS
<1> QED
  BY <1>1, <1>2 DEF BpsOf, BPS

\* The guarded subtraction never leaves the naturals.
LEMMA FloorMinusType ==
  ASSUME NEW a \in Nat, NEW b \in Nat
  PROVE  FloorMinus(a, b) \in Nat
BY DEF FloorMinus

\* An epoch opened on natural numbers is an epoch record.
LEMMA OpenEpochType ==
  ASSUME NEW n \in Nat, NEW supply \in Nat, NEW rates \in Rates, NEW debt \in Nat
  PROVE  OpenEpoch(n, supply, rates, debt) \in EpochType
<1>1. /\ rates.inflation \in Nat
      /\ rates.maxAdvance \in Nat
  BY DEF Rates
<1>2. BpsOf(supply, rates.inflation) \in Nat
  BY <1>1, BpsOfType
<1>3. BpsOf(BpsOf(supply, rates.inflation), rates.maxAdvance) \in Nat
  BY <1>1, <1>2, BpsOfType
<1>4. FloorMinus(BpsOf(supply, rates.inflation), debt) \in Nat
  BY <1>2, FloorMinusType
<1> QED
  BY <1>2, <1>3, <1>4 DEF OpenEpoch, EpochType

(***************************************************************************)
(* Checkpoint reads.                                                       *)
(***************************************************************************)

\* A nonempty set of natural numbers with an upper bound has a maximum.
LEMMA MaximumExists ==
  ASSUME NEW S \in SUBSET Nat, NEW bound \in Nat, S # {}, \A i \in S : i <= bound
  PROVE  \E i \in S : \A j \in S : j <= i
<1> DEFINE T == {n \in Nat : \E i \in S : n = bound - i}
<1>1. T \subseteq Nat /\ T # {}
  <2>1. PICK i \in S : TRUE
    OBVIOUS
  <2>2. bound - i \in T
    BY <2>1
  <2> QED
    BY <2>2
<1>2. PICK x \in T : \A y \in T : ~ (<<y, x>> \in OpToRel(<, Nat))
  <2> HIDE DEF T
  <2> QED BY <1>1, NatLessThanWellFounded, WFMin
<1>3. \A y \in T : x <= y
  <2> HIDE DEF T
  <2> SUFFICES ASSUME NEW y \in T, y < x PROVE FALSE
    BY <1>1
  <2>1. y \in Nat /\ x \in Nat
    BY <1>1
  <2>2. <<y, x>> \in OpToRel(<, Nat)
    BY <2>1 DEF OpToRel
  <2> QED
    BY <1>2, <2>2
<1>4. PICK i \in S : x = bound - i
  OBVIOUS
<1>5. \A j \in S : bound - j \in T
  OBVIOUS
<1> QED
  BY <1>3, <1>4, <1>5

\* A regular-weight read returns a natural number.
LEMMA RegAtType ==
  ASSUME NEW R \in Seq(RegCkptType), NEW s \in Nat
  PROVE  RegAt(R, s) \in Nat
<1> DEFINE upTo == {i \in DOMAIN R : R[i].seq <= s}
<1>1. CASE upTo = {}
  BY <1>1 DEF RegAt
<1>2. CASE upTo # {}
  <2>1. \E i \in upTo : \A j \in upTo : j <= i
    <3>1. upTo \in SUBSET Nat /\ Len(R) \in Nat /\ \A i \in upTo : i <= Len(R)
      BY LenProperties
    <3> QED
      BY <1>2, <3>1, MaximumExists
  <2>2. (CHOOSE i \in upTo : \A j \in upTo : j <= i) \in DOMAIN R
    BY <2>1
  <2>3. \A i \in DOMAIN R : R[i].cumRegularGov \in Nat
    <3>1. \A i \in DOMAIN R : R[i] \in RegCkptType
      OBVIOUS
    <3> QED
      BY <3>1 DEF RegCkptType
  <2> QED
    BY <1>2, <2>2, <2>3 DEF RegAt
<1> QED
  BY <1>1, <1>2

\* An advance-weight read returns a natural number.
LEMMA AdvAtType ==
  ASSUME NEW A \in Seq(GrantType), NEW s \in Nat, NEW e \in Nat
  PROVE  AdvAt(A, s, e) \in Nat
<1> DEFINE mature == {i \in DOMAIN A : A[i].seq <= s /\ A[i].activationEpoch <= e}
<1>1. CASE mature = {}
  BY <1>1 DEF AdvAt
<1>2. CASE mature # {}
  <2>1. \E i \in mature : \A j \in mature : j <= i
    <3>1. mature \in SUBSET Nat /\ Len(A) \in Nat /\ \A i \in mature : i <= Len(A)
      BY LenProperties
    <3> QED
      BY <1>2, <3>1, MaximumExists
  <2>2. (CHOOSE i \in mature : \A j \in mature : j <= i) \in DOMAIN A
    BY <2>1
  <2>3. \A i \in DOMAIN A : A[i].cumAdvancePrefix \in Nat
    <3>1. \A i \in DOMAIN A : A[i] \in GrantType
      OBVIOUS
    <3> QED
      BY <3>1 DEF GrantType
  <2> QED
    BY <1>2, <2>2, <2>3 DEF AdvAt
<1> QED
  BY <1>1, <1>2

\* The voting weight of a holder at a snapshot is a natural number.
LEMMA GovernanceBalanceType ==
  ASSUME CheckpointTypeOK, NEW h \in Holders, NEW s \in Nat, NEW e \in Nat
  PROVE  governanceBalanceAt(h, s, e) \in Nat
<1>1. regCkpt[h] \in Seq(RegCkptType) /\ advGrant[h] \in Seq(GrantType)
  BY DEF CheckpointTypeOK
<1>2. RegAt(regCkpt[h], s) \in Nat
  BY <1>1, RegAtType
<1>3. AdvAt(advGrant[h], s, e) \in Nat
  BY <1>1, AdvAtType
<1> QED
  BY <1>2, <1>3 DEF governanceBalanceAt

(***************************************************************************)
(* Checkpoint writes.                                                      *)
(***************************************************************************)

\* Pushing a regular checkpoint keeps the arrays well typed.
LEMMA PushRegularType ==
  ASSUME CheckpointTypeOK, NEW m \in Members, NEW seq \in Nat, NEW delta \in Nat,
         NEW add \in BOOLEAN, PushRegularDelta(m, seq, delta, add)
  PROVE  regCkpt' \in [Holders -> Seq(RegCkptType)]
<1> DEFINE next(h) == IF add THEN LastReg(regCkpt[h]) + delta
                      ELSE FloorMinus(LastReg(regCkpt[h]), delta)
<1>1. ASSUME NEW h \in Holders
      PROVE  /\ regCkpt[h] \in Seq(RegCkptType)
             /\ Append(regCkpt[h], [seq |-> seq, cumRegularGov |-> next(h)])
                  \in Seq(RegCkptType)
  <2>1. regCkpt[h] \in Seq(RegCkptType)
    BY DEF CheckpointTypeOK
  <2>2. LastReg(regCkpt[h]) \in Nat
    <3>1. CASE regCkpt[h] = <<>>
      BY <3>1 DEF LastReg
    <3>2. CASE regCkpt[h] # <<>>
      <4>1. regCkpt[h][Len(regCkpt[h])] \in RegCkptType
        BY <2>1, <3>2, ElementOfSeq, LenProperties, EmptySeq
      <4> QED
        BY <3>2, <4>1 DEF LastReg, RegCkptType
    <3> QED
      BY <3>1, <3>2
  <2>3. next(h) \in Nat
    <3>1. LastReg(regCkpt[h]) + delta \in Nat
      BY <2>2
    <3>2. FloorMinus(LastReg(regCkpt[h]), delta) \in Nat
      BY <2>2, FloorMinusType
    <3>3. CASE add
      BY <3>1, <3>3
    <3>4. CASE ~add
      BY <3>2, <3>4
    <3> QED
      BY <3>3, <3>4
  <2>4. [seq |-> seq, cumRegularGov |-> next(h)] \in RegCkptType
    BY <2>3 DEF RegCkptType
  <2> HIDE DEF next
  <2> QED
    BY <2>1, <2>4, AppendProperties
<1> QED
  BY <1>1 DEF PushRegularDelta

\* Pushing an advance grant keeps the arrays well typed.
LEMMA PushAdvanceType ==
  ASSUME CheckpointTypeOK, NEW m \in Members, NEW seq \in Nat, NEW e \in Nat,
         NEW delta \in Nat, PushAdvance(m, seq, e, delta)
  PROVE  advGrant' \in [Holders -> Seq(GrantType)]
<1> DEFINE grant(h) == [seq |-> seq, activationEpoch |-> e,
                        cumAdvancePrefix |-> LastAdv(advGrant[h]) + delta]
<1>1. ASSUME NEW h \in Holders
      PROVE  /\ advGrant[h] \in Seq(GrantType)
             /\ Append(advGrant[h], grant(h)) \in Seq(GrantType)
  <2>1. advGrant[h] \in Seq(GrantType)
    BY DEF CheckpointTypeOK
  <2>2. LastAdv(advGrant[h]) \in Nat
    <3>1. CASE advGrant[h] = <<>>
      BY <3>1 DEF LastAdv
    <3>2. CASE advGrant[h] # <<>>
      <4>1. advGrant[h][Len(advGrant[h])] \in GrantType
        BY <2>1, <3>2, ElementOfSeq, LenProperties, EmptySeq
      <4> QED
        BY <3>2, <4>1 DEF LastAdv, GrantType
    <3> QED
      BY <3>1, <3>2
  <2>3. grant(h) \in GrantType
    BY <2>2 DEF GrantType
  <2> HIDE DEF grant
  <2> QED
    BY <2>1, <2>3, AppendProperties
<1> QED
  BY <1>1 DEF PushAdvance

(***************************************************************************)
(* Frames: an action that leaves a part of the state alone keeps its type. *)
(***************************************************************************)

\* A step that leaves the ledger alone keeps its types.
LEMMA LedgerFrame ==
  ASSUME LedgerTypeOK, UNCHANGED <<supplyVars, epochVars, recordVars>>
  PROVE  LedgerTypeOK'
BY DEF LedgerTypeOK, supplyVars, epochVars, recordVars

\* A step that leaves the checkpoints alone keeps their types.
LEMMA CheckpointFrame ==
  ASSUME CheckpointTypeOK, UNCHANGED ckptVars
  PROVE  CheckpointTypeOK'
BY DEF CheckpointTypeOK, ckptVars

\* The initial state is well typed.
LEMMA InitType == Init => TypeOK
<1> SUFFICES ASSUME Init PROVE TypeOK
  OBVIOUS
<1>1. NoRates \in Rates
  BY DEF NoRates, Rates
<1>2. LedgerTypeOK
  <2>1. epoch \in EpochType
    BY <1>1, OpenEpochType DEF Init
  <2> QED
    BY <2>1 DEF Init, LedgerTypeOK
<1>3. CheckpointTypeOK
  BY EmptySeq DEF Init, CheckpointTypeOK
<1>4. GovernanceTypeOK
  BY <1>1 DEF Init, GovernanceTypeOK, PolicyType
<1> QED
  BY <1>2, <1>3, <1>4 DEF TypeOK

(***************************************************************************)
(* Ledger actions.                                                         *)
(***************************************************************************)

\* _applyMint keeps the ledger's and the checkpoints' types.
LEMMA ApplyMintType ==
  ASSUME LedgerTypeOK, CheckpointTypeOK,
         NEW m \in Members, NEW regular \in Nat, NEW advance \in Nat,
         ApplyMint(m, regular, advance)
  PROVE  /\ currentTotalSupply' \in Nat
         /\ balances' \in [Members -> Nat]
         /\ issued' \in Nat
         /\ epoch' \in EpochType
         /\ memberRegularMintedEpoch' \in [Members -> Nat]
         /\ CheckpointTypeOK'
<1>1. currentTotalSupply' \in Nat /\ issued' \in Nat
  BY DEF LedgerTypeOK, ApplyMint
<1>2. balances' \in [Members -> Nat] /\ memberRegularMintedEpoch' \in [Members -> Nat]
  BY DEF LedgerTypeOK, ApplyMint
<1>3. epoch' \in EpochType
  <2>1. epoch.regularMinted + regular \in Nat /\ epoch.advanceMinted + advance \in Nat
    BY DEF LedgerTypeOK, EpochType
  <2>2. epoch' = [epoch EXCEPT !.regularMinted = epoch.regularMinted + regular,
                               !.advanceMinted = epoch.advanceMinted + advance]
    BY DEF ApplyMint
  <2> QED
    BY <2>1, <2>2 DEF LedgerTypeOK, EpochType
<1>4. govSeq' \in Nat /\ govSeq + 1 \in Nat
  BY DEF CheckpointTypeOK, ApplyMint
<1>5. regCkpt' \in [Holders -> Seq(RegCkptType)]
  <2>1. CASE regular > 0
    BY <1>4, <2>1, PushRegularType DEF ApplyMint
  <2>2. CASE ~ (regular > 0)
    BY <2>2 DEF CheckpointTypeOK, ApplyMint
  <2> QED
    BY <2>1, <2>2
<1>6. advGrant' \in [Holders -> Seq(GrantType)]
  <2>1. CASE advance > 0
    <3>1. epoch.epochNumber + 1 \in Nat
      BY DEF LedgerTypeOK, EpochType
    <3> QED
      BY <1>4, <2>1, <3>1, PushAdvanceType DEF ApplyMint
  <2>2. CASE ~ (advance > 0)
    BY <2>2 DEF CheckpointTypeOK, ApplyMint
  <2> QED
    BY <2>1, <2>2
<1> QED
  BY <1>1, <1>2, <1>3, <1>4, <1>5, <1>6 DEF CheckpointTypeOK

\* A mint keeps every type.
LEMMA ExecuteMintType ==
  ASSUME TypeOK, NEW m \in Members, NEW c \in Contributions, NEW h \in RecordHashes,
         NEW regular \in Nat, NEW advance \in Nat, NEW related \in BOOLEAN,
         NEW p \in ProposalIds,
         executeMint(m, c, h, regular, advance, related, p)
  PROVE  TypeOK'
<1> USE DEF TypeOK
<1> DEFINE used == ProposalOfMint(advance, related, p)
<1>1. ApplyMint(m, regular, advance)
  BY DEF executeMint
<1>2. PICK sigs \in SUBSET isApprover, n \in Nonces :
        /\ usedNonce' = usedNonce \cup {<<s, n>> : s \in sigs}
        /\ records' = [records EXCEPT ![h] =
             [type |-> "mint", member |-> m, contribution |-> c,
              regular |-> regular, advance |-> advance,
              epochNumber |-> epoch.epochNumber, related |-> related,
              proposal |-> used, approvers |-> Cardinality(sigs)]]
  BY DEF executeMint
<1>3. sigs \subseteq Signers /\ Cardinality(sigs) \in Nat
  <2>1. sigs \subseteq Signers
    BY DEF GovernanceTypeOK
  <2> QED
    BY <2>1, SignersAssumption, FS_Subset, FS_CardinalityType
<1>0. used \in ProposalIds \cup {NoProposal}
  BY DEF ProposalOfMint
<1> HIDE DEF used
<1>4. records' \in [RecordHashes -> MintType \cup ReversalType \cup {NoRecord}]
  <2>1. epoch.epochNumber \in Nat
    BY DEF LedgerTypeOK, EpochType
  <2>2. [type |-> "mint", member |-> m, contribution |-> c,
         regular |-> regular, advance |-> advance,
         epochNumber |-> epoch.epochNumber, related |-> related,
         proposal |-> used, approvers |-> Cardinality(sigs)] \in MintType
    BY <1>0, <1>3, <2>1 DEF MintType
  <2> QED
    BY <1>2, <2>2 DEF LedgerTypeOK
<1>5. LedgerTypeOK'
  <2>1. /\ granted' \in Nat
        /\ contributionConsumed' \in SUBSET Contributions
        /\ reversed' \in SUBSET Originals
    BY DEF LedgerTypeOK, executeMint
  <2> QED
    BY <1>1, <1>4, <2>1, ApplyMintType DEF LedgerTypeOK
<1>6. CheckpointTypeOK'
  BY <1>1, ApplyMintType
<1>7. GovernanceTypeOK'
  <2>1. usedNonce' \in SUBSET (Signers \X Nonces)
    BY <1>2, <1>3 DEF GovernanceTypeOK
  <2>2. proposalConsumedForMint' = proposalConsumedForMint \cup ({used} \ {NoProposal})
    BY DEF executeMint, used
  <2>3. proposalConsumedForMint' \in SUBSET ProposalIds
    BY <1>0, <2>2 DEF GovernanceTypeOK
  <2> QED
    BY <2>1, <2>3 DEF GovernanceTypeOK, executeMint, communityVars, keyVars, clockVars
<1> QED
  BY <1>5, <1>6, <1>7

\* A reversal keeps every type.
LEMMA ExecuteReversalType ==
  ASSUME TypeOK, NEW m \in Members, NEW original \in Originals,
         NEW h \in RecordHashes, NEW amount \in Nat,
         NEW p \in ProposalIds,
         executeReversal(m, original, h, amount, p)
  PROVE  TypeOK'
<1> USE DEF TypeOK
<1> DEFINE cited == IF ReversalAuthorized(p, m) THEN p ELSE NoProposal
<1>1. PICK sigs \in SUBSET isApprover, n \in Nonces :
        /\ usedNonce' = usedNonce \cup {<<s, n>> : s \in sigs}
        /\ records' = [records EXCEPT ![h] =
             [type |-> "reversal", member |-> m, original |-> original,
              amount |-> amount, approvers |-> Cardinality(sigs), proposal |-> cited]]
  BY DEF executeReversal
<1>2. sigs \subseteq Signers /\ Cardinality(sigs) \in Nat
  <2>1. sigs \subseteq Signers
    BY DEF GovernanceTypeOK
  <2> QED
    BY <2>1, SignersAssumption, FS_Subset, FS_CardinalityType
<1>3. cited \in ProposalIds \cup {NoProposal}
  OBVIOUS
<1>4. records' \in [RecordHashes -> MintType \cup ReversalType \cup {NoRecord}]
  <2> HIDE DEF cited
  <2>1. [type |-> "reversal", member |-> m, original |-> original, amount |-> amount,
         approvers |-> Cardinality(sigs), proposal |-> cited] \in ReversalType
    BY <1>2, <1>3 DEF ReversalType
  <2> QED
    BY <1>1, <2>1 DEF LedgerTypeOK
<1>5. balances' \in [Members -> Nat]
  <2>1. balances[m] - amount \in Nat
    BY DEF executeReversal, LedgerTypeOK
  <2> QED
    BY <2>1 DEF executeReversal, LedgerTypeOK
<1>6. LedgerTypeOK'
  <2>1. currentTotalSupply' \in Nat
    BY DEF executeReversal, LedgerTypeOK
  <2>2. reversed' \in SUBSET Originals
    BY DEF executeReversal, LedgerTypeOK
  <2> QED
    BY <1>4, <1>5, <2>1, <2>2 DEF executeReversal, LedgerTypeOK, epochVars
<1>7. CheckpointTypeOK'
  <2>1. govSeq' \in Nat /\ govSeq + 1 \in Nat
    BY DEF executeReversal, CheckpointTypeOK
  <2>2. regCkpt' \in [Holders -> Seq(RegCkptType)]
    BY <2>1, PushRegularType DEF executeReversal
  <2> QED
    BY <2>1, <2>2 DEF executeReversal, CheckpointTypeOK
<1>8. GovernanceTypeOK'
  <2>1. usedNonce' \in SUBSET (Signers \X Nonces)
    BY <1>1, <1>2 DEF GovernanceTypeOK
  <2>2. proposalConsumedForMint' \in SUBSET ProposalIds
    BY DEF GovernanceTypeOK, executeReversal
  <2> QED
    BY <2>1, <2>2 DEF GovernanceTypeOK, executeReversal, communityVars, keyVars, clockVars
<1> QED
  BY <1>6, <1>7, <1>8

\* The policy an epoch opens under is well typed.
LEMMA PolicyForType ==
  ASSUME GovernanceTypeOK, NEW n \in Nat
  PROVE  PolicyFor(n) \in PolicyType
BY DEF GovernanceTypeOK, PolicyFor, PolicyDue, PolicyType, PendingType

\* A roll opens a well-typed epoch and policy.
LEMMA RollEpochType ==
  ASSUME TypeOK, rollEpoch
  PROVE  TypeOK'
<1> USE DEF TypeOK
<1> DEFINE next == epoch.epochNumber + 1
<1>1. next \in Nat /\ NextDebt \in Nat
  <2>1. FloorMinus(epoch.advanceDebtFromPrev, epoch.baseMintBudget) \in Nat
    BY FloorMinusType DEF LedgerTypeOK, EpochType
  <2> QED
    BY <2>1 DEF LedgerTypeOK, EpochType, NextDebt
<1>2. PolicyFor(next) \in PolicyType
  BY <1>1, PolicyForType
<1>3. epoch' \in EpochType
  <2>1. PolicyFor(next).rates \in Rates
    BY <1>2 DEF PolicyType
  <2>2. OpenEpoch(next, currentTotalSupply, PolicyFor(next).rates, NextDebt) \in EpochType
    BY <1>1, <2>1, OpenEpochType DEF LedgerTypeOK
  <2> QED
    BY <2>2 DEF rollEpoch
<1>4. LedgerTypeOK'
  <2>1. granted' \in Nat
    BY DEF LedgerTypeOK, EpochType, rollEpoch
  <2> QED
    BY <1>3, <2>1 DEF LedgerTypeOK, rollEpoch, supplyVars, recordVars
<1>5. CheckpointTypeOK'
  BY CheckpointFrame DEF rollEpoch
<1>6. GovernanceTypeOK'
  BY <1>2 DEF GovernanceTypeOK, rollEpoch, keyVars, clockVars
<1> QED
  BY <1>4, <1>5, <1>6

(***************************************************************************)
(* Governance actions: each writes one proposal.                           *)
(***************************************************************************)

\* A proposal that was opened is a full proposal record.
LEMMA OpenedType ==
  ASSUME GovernanceTypeOK, NEW p \in ProposalIds, proposals[p].status # "NONE"
  PROVE  proposals[p] \in ProposalType
BY DEF GovernanceTypeOK, NoProposalYet

\* What is left to check when an action writes proposals and nothing else but
\* nonces and the pending policy.
LEMMA GovernanceFrame ==
  ASSUME TypeOK, NEW p \in ProposalIds, NEW v \in ProposalType,
         proposals' = [proposals EXCEPT ![p] = v],
         usedNonce' \in SUBSET (Signers \X Nonces),
         pendingPolicy' \in PendingType \cup {NoPolicy},
         UNCHANGED <<exists, policy, ledgerVars, keyVars, proposalConsumedForMint, clockVars>>
  PROVE  TypeOK'
<1> USE DEF TypeOK
<1>1. LedgerTypeOK'
  BY LedgerFrame DEF ledgerVars
<1>2. CheckpointTypeOK'
  BY CheckpointFrame DEF ledgerVars
<1>3. GovernanceTypeOK'
  BY DEF GovernanceTypeOK, keyVars, clockVars
<1> QED
  BY <1>1, <1>2, <1>3

\* A new proposal is a proposal record.
LEMMA CreateProposalType ==
  ASSUME TypeOK, NEW p \in ProposalIds, NEW kind \in Kinds, NEW ballot \in Ballots,
         NEW endTime \in 0..MaxTime, NEW minVoters \in MinVoterCounts,
         NEW target \in Members, NEW rates \in PolicyRates,
         createProposal(p, kind, ballot, endTime, minVoters, target, rates)
  PROVE  TypeOK'
<1> DEFINE v == [status |-> "ACTIVE", kind |-> kind, approved |-> FALSE,
        snapshotSeq |-> govSeq, snapshotEpoch |-> epoch.epochNumber,
        activeGovSupplySnapshot |->
          governanceBalanceAt(Community, govSeq, epoch.epochNumber),
        endTime |-> endTime, minVoterCount |-> LargerOf(minVoters, MinVoterCount),
        voterCount |-> 0, winningOptionId |-> NoOption, totalVoteWeight |-> 0,
        target |-> target, rates |-> rates, ballot |-> ballot,
        optionWeight |-> [o \in Options |-> 0], hasVoted |-> {}]
<1>1. proposals' = [proposals EXCEPT ![p] = v]
  BY DEF createProposal
<1>2. v \in ProposalType
  <2>1. govSeq \in Nat /\ epoch.epochNumber \in Nat
    BY DEF TypeOK, LedgerTypeOK, CheckpointTypeOK, EpochType
  <2>2. governanceBalanceAt(Community, govSeq, epoch.epochNumber) \in Nat
    BY <2>1, GovernanceBalanceType DEF TypeOK, Holders
  <2>3. LargerOf(minVoters, MinVoterCount) \in Nat
    BY InputAssumption, GenesisAssumption DEF LargerOf
  <2>4. /\ kind \in ProposalKinds /\ endTime \in Nat /\ rates \in Rates
        /\ ballot \in SUBSET Options
    BY InputAssumption, BoundsAssumption
  <2> QED
    BY <2>1, <2>2, <2>3, <2>4 DEF ProposalType
<1> HIDE DEF v
<1> QED
  BY <1>1, <1>2, GovernanceFrame
     DEF createProposal, TypeOK, GovernanceTypeOK, communityVars

\* A vote adds natural weights.
LEMMA CastVoteType ==
  ASSUME TypeOK, NEW p \in ProposalIds, NEW m \in Members, NEW option \in Options,
         NEW n \in Nonces, castVote(p, m, option, n)
  PROVE  TypeOK'
<1> DEFINE w == VoteWeight(p, m)
           v == [proposals[p] EXCEPT
                   !.hasVoted = proposals[p].hasVoted \cup {m},
                   !.optionWeight = [proposals[p].optionWeight EXCEPT
                                       ![option] = proposals[p].optionWeight[option] + w],
                   !.voterCount = proposals[p].voterCount + 1,
                   !.totalVoteWeight = proposals[p].totalVoteWeight + w]
<1>1. proposals[p] \in ProposalType
  BY OpenedType DEF castVote, VoteAccepted, TypeOK
<1>2. w \in Nat
  <2>1. proposals[p].snapshotSeq \in Nat /\ proposals[p].snapshotEpoch \in Nat
    BY <1>1 DEF ProposalType
  <2> QED
    BY <2>1, GovernanceBalanceType DEF TypeOK, Holders, VoteWeight
<1>3. proposals' = [proposals EXCEPT ![p] = v]
  BY <1>1 DEF castVote, TypeOK, GovernanceTypeOK, ProposalType
<1>4. v \in ProposalType
  <2> HIDE DEF w
  <2>1. /\ proposals[p].hasVoted \cup {m} \in SUBSET Members
        /\ proposals[p].voterCount + 1 \in Nat
        /\ proposals[p].totalVoteWeight + w \in Nat
    BY <1>1, <1>2 DEF ProposalType
  <2>2. [proposals[p].optionWeight EXCEPT ![option] = proposals[p].optionWeight[option] + w]
          \in [Options -> Nat]
    BY <1>1, <1>2 DEF ProposalType
  <2> QED
    BY <1>1, <2>1, <2>2 DEF ProposalType
<1>5. usedNonce' \in SUBSET (Signers \X Nonces)
  <2>1. memberSigner[m] \in Signers
    BY DEF castVote, VoteAccepted, TypeOK, GovernanceTypeOK
  <2> QED
    BY <2>1 DEF castVote, TypeOK, GovernanceTypeOK
<1> HIDE DEF v
<1> QED
  BY <1>3, <1>4, <1>5, GovernanceFrame
     DEF castVote, TypeOK, GovernanceTypeOK, communityVars

\* Settling keeps a proposal record.
LEMMA FinalizeType ==
  ASSUME TypeOK, NEW p \in ProposalIds, finalizeProposal(p)
  PROVE  TypeOK'
<1> DEFINE v == [proposals[p] EXCEPT
                   !.status = "FINALIZED",
                   !.winningOptionId = IF ApproveLeads(p) THEN Approve ELSE NoOption,
                   !.approved = QuorumMet(p) /\ ApproveLeads(p)]
<1>1. proposals[p] \in ProposalType
  BY OpenedType DEF finalizeProposal, VotingOver, TypeOK
<1>2. proposals' = [proposals EXCEPT ![p] = v]
  BY <1>1 DEF finalizeProposal, TypeOK, GovernanceTypeOK, ProposalType
<1>3. v \in ProposalType
  <2>1. (QuorumMet(p) /\ ApproveLeads(p)) \in BOOLEAN
    BY DEF QuorumMet, ApproveLeads
  <2>2. (IF ApproveLeads(p) THEN Approve ELSE NoOption) \in {Approve, NoOption}
    OBVIOUS
  <2> QED
    BY <1>1, <2>1, <2>2 DEF ProposalType
<1> HIDE DEF v
<1> QED
  BY <1>2, <1>3, GovernanceFrame
     DEF finalizeProposal, TypeOK, GovernanceTypeOK, communityVars

\* Executing keeps proposals and the pending policy well typed.
LEMMA ExecuteProposalType ==
  ASSUME TypeOK, NEW p \in ProposalIds, executeProposal(p)
  PROVE  TypeOK'
<1> DEFINE v == [proposals[p] EXCEPT !.status = "EXECUTED"]
<1>1. proposals[p] \in ProposalType
  BY OpenedType DEF executeProposal, Executable, TypeOK
<1>2. proposals' = [proposals EXCEPT ![p] = v]
  BY <1>1 DEF executeProposal, TypeOK, GovernanceTypeOK, ProposalType
<1>3. v \in ProposalType
  BY <1>1 DEF ProposalType
<1>4. pendingPolicy' \in PendingType \cup {NoPolicy}
  BY <1>1 DEF executeProposal, TypeOK, GovernanceTypeOK, LedgerTypeOK, EpochType,
              PendingType, PolicyType, ProposalType
<1> HIDE DEF v
<1> QED
  BY <1>2, <1>3, <1>4, GovernanceFrame
     DEF executeProposal, TypeOK, GovernanceTypeOK

(***************************************************************************)
(* Community actions and the theorem.                                      *)
(***************************************************************************)

\* Community, key and pause steps keep every type.
LEMMA CommunityStepType ==
  ASSUME TypeOK, CommunityStep
  PROVE  TypeOK'
<1> USE DEF TypeOK
<1>1. CASE createCommunity
  <2>1. epoch' \in EpochType
    BY <1>1, GenesisAssumption, OpenEpochType DEF createCommunity
  <2>2. LedgerTypeOK'
    BY <1>1, <2>1, GenesisAssumption DEF createCommunity, LedgerTypeOK, recordVars
  <2>3. CheckpointTypeOK'
    BY <1>1, CheckpointFrame DEF createCommunity
  <2>4. GovernanceTypeOK'
    BY <1>1, GenesisAssumption
       DEF createCommunity, GovernanceTypeOK, PolicyType, keyVars, clockVars
  <2> QED
    BY <2>2, <2>3, <2>4
<1>2. ASSUME UNCHANGED ledgerVars
      PROVE  LedgerTypeOK' /\ CheckpointTypeOK'
  BY <1>2, LedgerFrame, CheckpointFrame DEF ledgerVars
<1>3. CASE \E s \in Signers, b \in BOOLEAN : setApprover(s, b)
  BY <1>2, <1>3 DEF setApprover, GovernanceTypeOK, communityVars, clockVars
<1>4. CASE \E m \in Members, s \in Signers, auth \in Signers \cup {Owner}, n \in Nonces :
             enrollMember(m, s, auth, n)
  BY <1>2, <1>4 DEF enrollMember, GovernanceTypeOK, communityVars, clockVars
<1>5. CASE \E m \in Members, s \in Signers : rotateKey(m, s)
  BY <1>2, <1>5 DEF rotateKey, GovernanceTypeOK, communityVars, clockVars
<1>6. CASE pause \/ unpause
  BY <1>2, <1>6 DEF pause, unpause, GovernanceTypeOK, communityVars, keyVars
<1> QED
  BY <1>1, <1>3, <1>4, <1>5, <1>6 DEF CommunityStep

\* Mints, reversals and rolls keep every type.
LEMMA LedgerStepType ==
  ASSUME TypeOK, LedgerStep
  PROVE  TypeOK'
<1>1. Amounts \subseteq Nat
  BY InputAssumption
<1> QED
  BY <1>1, ExecuteMintType, ExecuteReversalType, RollEpochType DEF LedgerStep

\* Proposal steps keep every type.
LEMMA GovernanceStepType ==
  ASSUME TypeOK, GovernanceStep
  PROVE  TypeOK'
BY CreateProposalType, CastVoteType, FinalizeType, ExecuteProposalType DEF GovernanceStep

\* The clock keeps every type.
LEMMA TickType ==
  ASSUME TypeOK, Tick
  PROVE  TypeOK'
<1>1. LedgerTypeOK' /\ CheckpointTypeOK'
  BY LedgerFrame, CheckpointFrame DEF Tick, TypeOK, ledgerVars
<1>2. GovernanceTypeOK'
  BY DEF Tick, TypeOK, GovernanceTypeOK, communityVars, keyVars
<1> QED
  BY <1>1, <1>2 DEF TypeOK

\* A stuttering step keeps every type.
LEMMA StutterType ==
  ASSUME TypeOK, UNCHANGED vars
  PROVE  TypeOK'
<1>1. LedgerTypeOK' /\ CheckpointTypeOK'
  BY LedgerFrame, CheckpointFrame DEF vars, TypeOK, ledgerVars
<1>2. GovernanceTypeOK'
  BY DEF vars, TypeOK, GovernanceTypeOK, communityVars, keyVars, clockVars
<1> QED
  BY <1>1, <1>2 DEF TypeOK

\* Every step keeps every type.
LEMMA NextType ==
  ASSUME TypeOK, [Next]_vars
  PROVE  TypeOK'
BY CommunityStepType, LedgerStepType, GovernanceStepType, TickType, StutterType DEF Next

\* Every reachable state of the contract is well typed: no amount, supply, debt
\* or weight ever leaves the natural numbers, whatever the policy's rates.
THEOREM TypeCorrect == Spec => []TypeOK
<1>1. TypeOK /\ [Next]_vars => TypeOK'
  BY NextType
<1> QED
  BY InitType, <1>1, PTL DEF Spec
-----------------------------------------------------------------------------

(***************************************************************************)
(* What a step does to one proposal.                                       *)
(***************************************************************************)

Created(p) ==
  /\ exists
  /\ proposals[p].status = "NONE"
  /\ proposals'[p].status = "ACTIVE"
  /\ proposals'[p].snapshotSeq = govSeq

Voted(p) ==
  /\ proposals[p].status = "ACTIVE"
  /\ proposals'[p].status = "ACTIVE"
  /\ proposals'[p].kind = proposals[p].kind
  /\ proposals'[p].snapshotSeq = proposals[p].snapshotSeq
  /\ proposals'[p].snapshotEpoch = proposals[p].snapshotEpoch

Settled(p) ==
  /\ proposals[p].status = "ACTIVE"
  /\ proposals'[p].status = "FINALIZED"
  /\ proposals'[p].kind = proposals[p].kind
  /\ proposals'[p].snapshotSeq = proposals[p].snapshotSeq
  /\ proposals'[p].snapshotEpoch = proposals[p].snapshotEpoch
  /\ proposals'[p].approved = (QuorumMet(p) /\ ApproveLeads(p))
  /\ QuorumMet(p)' = QuorumMet(p)
  /\ ApproveLeads(p)' = ApproveLeads(p)

Executed(p) ==
  /\ proposals[p].status = "FINALIZED"
  /\ proposals[p].approved
  /\ proposals'[p] = [proposals[p] EXCEPT !.status = "EXECUTED"]

ProposalStep(p) ==
  \/ proposals'[p] = proposals[p]
  \/ Created(p)
  \/ Voted(p)
  \/ Settled(p)
  \/ Executed(p)

\* createProposal creates one proposal and leaves the others alone.
LEMMA CreateStep ==
  ASSUME TypeOK, NEW q \in ProposalIds,
         NEW p \in ProposalIds, NEW kind \in Kinds, NEW ballot \in Ballots,
         NEW endTime \in 0..MaxTime, NEW minVoters \in MinVoterCounts,
         NEW target \in Members, NEW rates \in PolicyRates,
         createProposal(p, kind, ballot, endTime, minVoters, target, rates)
  PROVE  ProposalStep(q)
<1>1. CASE q = p
  <2>1. Created(q)
    BY <1>1 DEF createProposal, Created, TypeOK, GovernanceTypeOK
  <2> QED
    BY <2>1 DEF ProposalStep
<1>2. CASE q # p
  BY <1>2 DEF createProposal, ProposalStep, TypeOK, GovernanceTypeOK
<1> QED
  BY <1>1, <1>2

\* castVote changes the tally of one active proposal only.
LEMMA VoteStep ==
  ASSUME TypeOK, NEW q \in ProposalIds, NEW p \in ProposalIds, NEW m \in Members,
         NEW option \in Options, NEW n \in Nonces, castVote(p, m, option, n)
  PROVE  ProposalStep(q)
<1>1. CASE q = p
  <2>1. proposals[p] \in ProposalType
    BY OpenedType DEF castVote, VoteAccepted, TypeOK
  <2>2. Voted(q)
    BY <1>1, <2>1 DEF castVote, VoteAccepted, Voted, TypeOK, GovernanceTypeOK, ProposalType
  <2> QED
    BY <2>2 DEF ProposalStep
<1>2. CASE q # p
  BY <1>2 DEF castVote, ProposalStep, TypeOK, GovernanceTypeOK
<1> QED
  BY <1>1, <1>2

\* finalizeProposal settles one active proposal only.
LEMMA FinalizeStep ==
  ASSUME TypeOK, NEW q \in ProposalIds, NEW p \in ProposalIds, finalizeProposal(p)
  PROVE  ProposalStep(q)
<1>1. CASE q = p
  <2>1. proposals[p] \in ProposalType
    BY OpenedType DEF finalizeProposal, VotingOver, TypeOK
  <2>2. /\ proposals'[p].optionWeight = proposals[p].optionWeight
        /\ proposals'[p].totalVoteWeight = proposals[p].totalVoteWeight
        /\ proposals'[p].voterCount = proposals[p].voterCount
        /\ proposals'[p].minVoterCount = proposals[p].minVoterCount
        /\ proposals'[p].snapshotSeq = proposals[p].snapshotSeq
        /\ proposals'[p].snapshotEpoch = proposals[p].snapshotEpoch
        /\ proposals'[p].status = "FINALIZED"
        /\ proposals'[p].kind = proposals[p].kind
        /\ proposals'[p].approved = (QuorumMet(p) /\ ApproveLeads(p))
    BY <2>1 DEF finalizeProposal, TypeOK, GovernanceTypeOK, ProposalType
  <2>3. QuorumMet(p)' = QuorumMet(p) /\ ApproveLeads(p)' = ApproveLeads(p)
    BY <2>2 DEF QuorumMet, ApproveLeads
  <2>4. Settled(p)
    BY <2>2, <2>3 DEF Settled, finalizeProposal, VotingOver
  <2> QED
    BY <1>1, <2>4 DEF ProposalStep
<1>2. CASE q # p
  BY <1>2 DEF finalizeProposal, ProposalStep, TypeOK, GovernanceTypeOK
<1> QED
  BY <1>1, <1>2

\* executeProposal executes one settled proposal only.
LEMMA ExecuteStep ==
  ASSUME TypeOK, NEW q \in ProposalIds, NEW p \in ProposalIds, executeProposal(p)
  PROVE  ProposalStep(q)
<1>1. CASE q = p
  <2>1. Executed(p)
    BY DEF executeProposal, Executable, Executed, TypeOK, GovernanceTypeOK
  <2> QED
    BY <1>1, <2>1 DEF ProposalStep
<1>2. CASE q # p
  BY <1>2 DEF executeProposal, ProposalStep, TypeOK, GovernanceTypeOK
<1> QED
  BY <1>1, <1>2

\* Actions other than the four governance ones leave every proposal alone.
LEMMA OtherStep ==
  ASSUME CommunityStep \/ LedgerStep \/ Tick \/ UNCHANGED vars
  PROVE  UNCHANGED proposals
<1>1. ASSUME CommunityStep PROVE UNCHANGED proposals
  BY <1>1 DEF CommunityStep, createCommunity, setApprover, enrollMember, rotateKey,
              pause, unpause
<1>2. ASSUME LedgerStep PROVE UNCHANGED proposals
  <2>1. ASSUME NEW m \in Members, NEW c \in Contributions, NEW h \in RecordHashes,
               NEW regular \in Amounts, NEW advance \in Amounts, NEW related \in BOOLEAN,
               NEW p \in ProposalIds,
               executeMint(m, c, h, regular, advance, related, p)
        PROVE  UNCHANGED proposals
    BY <2>1 DEF executeMint
  <2>2. ASSUME NEW m \in Members, NEW original \in Originals, NEW h \in RecordHashes,
               NEW amount \in Amounts, NEW p \in ProposalIds,
               executeReversal(m, original, h, amount, p)
        PROVE  UNCHANGED proposals
    BY <2>2 DEF executeReversal
  <2>3. ASSUME rollEpoch PROVE UNCHANGED proposals
    BY <2>3 DEF rollEpoch
  <2> QED
    BY <1>2, <2>1, <2>2, <2>3 DEF LedgerStep
<1>3. ASSUME Tick \/ UNCHANGED vars PROVE UNCHANGED proposals
  BY <1>3 DEF Tick, vars
<1> QED
  BY <1>1, <1>2, <1>3

\* Any step creates, votes on, settles, executes or leaves a given proposal.
LEMMA NextProposalStep ==
  ASSUME TypeOK, [Next]_vars, NEW q \in ProposalIds
  PROVE  ProposalStep(q)
<1>1. CASE GovernanceStep
  BY <1>1, CreateStep, VoteStep, FinalizeStep, ExecuteStep DEF GovernanceStep
<1>2. CASE CommunityStep \/ LedgerStep \/ Tick \/ UNCHANGED vars
  BY <1>2, OtherStep DEF ProposalStep
<1> QED
  BY <1>1, <1>2 DEF Next

(***************************************************************************)
(* What a step does to one holder's checkpoints, and why it cannot be seen *)
(* from an earlier sequence number.                                        *)
(***************************************************************************)

RegKeptOrPushed(h) ==
  \/ regCkpt'[h] = regCkpt[h]
  \/ \E x \in RegCkptType : x.seq = govSeq + 1 /\ regCkpt'[h] = Append(regCkpt[h], x)

AdvKeptOrPushed(h) ==
  \/ advGrant'[h] = advGrant[h]
  \/ \E x \in GrantType : x.seq = govSeq + 1 /\ advGrant'[h] = Append(advGrant[h], x)

\* A checkpoint pushed after sequence number s is invisible to a read at s.
LEMMA RegAppendInvisible ==
  ASSUME NEW R \in Seq(RegCkptType), NEW x \in RegCkptType, NEW s \in Nat, s < x.seq
  PROVE  RegAt(Append(R, x), s) = RegAt(R, s)
<1> DEFINE Q == Append(R, x)
           upTo == {i \in DOMAIN R : R[i].seq <= s}
           upToQ == {i \in DOMAIN Q : Q[i].seq <= s}
<1>1. /\ DOMAIN Q = DOMAIN R \cup {Len(R) + 1}
      /\ \A i \in DOMAIN R : Q[i] = R[i]
      /\ Q[Len(R) + 1] = x
  BY AppendProperties, LenProperties
<1>2. \A i \in DOMAIN R : i \in Nat /\ i <= Len(R) /\ R[i].seq \in Nat
  <2>1. \A i \in DOMAIN R : R[i] \in RegCkptType
    OBVIOUS
  <2> QED
    BY <2>1, LenProperties DEF RegCkptType
<1>3. ~ (x.seq <= s)
  BY DEF RegCkptType
<1>4. upToQ = upTo
  <2> HIDE DEF Q
  <2> QED BY <1>1, <1>3
<1>5. CASE upTo = {}
  BY <1>4, <1>5 DEF RegAt
<1>6. CASE upTo # {}
  <2>1. \E i \in upTo : \A j \in upTo : j <= i
    <3>1. upTo \in SUBSET Nat /\ Len(R) \in Nat /\ \A i \in upTo : i <= Len(R)
      BY <1>2, LenProperties
    <3> HIDE DEF upTo
    <3> QED
      BY <1>6, <3>1, MaximumExists
  <2> DEFINE last == CHOOSE i \in upTo : \A j \in upTo : j <= i
  <2>2. last \in DOMAIN R
    BY <2>1
  <2>3. RegAt(R, s) = R[last].cumRegularGov
    BY <1>6 DEF RegAt
  <2>4. RegAt(Q, s) = Q[last].cumRegularGov
    BY <1>4, <1>6 DEF RegAt
  <2> HIDE DEF Q, last
  <2>5. RegAt(Q, s) = RegAt(R, s)
    BY <1>1, <2>2, <2>3, <2>4
  <2> QED
    BY <2>5 DEF Q
<1> QED
  BY <1>5, <1>6

\* An advance granted after sequence number s, or maturing after epoch e, is
\* invisible to a read at s and e.
LEMMA AdvAppendInvisible ==
  ASSUME NEW A \in Seq(GrantType), NEW x \in GrantType, NEW s \in Nat, NEW e \in Nat,
         s < x.seq \/ e < x.activationEpoch
  PROVE  AdvAt(Append(A, x), s, e) = AdvAt(A, s, e)
<1> DEFINE Q == Append(A, x)
           mature == {i \in DOMAIN A : A[i].seq <= s /\ A[i].activationEpoch <= e}
           matureQ == {i \in DOMAIN Q : Q[i].seq <= s /\ Q[i].activationEpoch <= e}
<1>1. /\ DOMAIN Q = DOMAIN A \cup {Len(A) + 1}
      /\ \A i \in DOMAIN A : Q[i] = A[i]
      /\ Q[Len(A) + 1] = x
  BY AppendProperties, LenProperties
<1>2. \A i \in DOMAIN A : i \in Nat /\ i <= Len(A)
  BY LenProperties
<1>3. ~ (x.seq <= s /\ x.activationEpoch <= e)
  BY DEF GrantType
<1>4. matureQ = mature
  <2> HIDE DEF Q
  <2> QED BY <1>1, <1>3
<1>5. CASE mature = {}
  BY <1>4, <1>5 DEF AdvAt
<1>6. CASE mature # {}
  <2>1. \E i \in mature : \A j \in mature : j <= i
    <3>1. mature \in SUBSET Nat /\ Len(A) \in Nat /\ \A i \in mature : i <= Len(A)
      BY <1>2, LenProperties
    <3> HIDE DEF mature
    <3> QED
      BY <1>6, <3>1, MaximumExists
  <2> DEFINE last == CHOOSE i \in mature : \A j \in mature : j <= i
  <2>2. last \in DOMAIN A
    BY <2>1
  <2>3. AdvAt(A, s, e) = A[last].cumAdvancePrefix
    BY <1>6 DEF AdvAt
  <2>4. AdvAt(Q, s, e) = Q[last].cumAdvancePrefix
    BY <1>4, <1>6 DEF AdvAt
  <2> HIDE DEF Q, last
  <2>5. AdvAt(Q, s, e) = AdvAt(A, s, e)
    BY <1>1, <2>2, <2>3, <2>4
  <2> QED
    BY <2>5 DEF Q
<1> QED
  BY <1>5, <1>6

\* The element a well-typed array was extended by is well typed.
LEMMA AppendedElement ==
  ASSUME NEW T, NEW S \in Seq(T), NEW x, Append(S, x) \in Seq(T)
  PROVE  x \in T
<1>1. Append(S, x)[Len(S) + 1] = x /\ Len(Append(S, x)) = Len(S) + 1 /\ Len(S) \in Nat
  BY AppendProperties, LenProperties
<1>2. Append(S, x)[Len(S) + 1] \in T
  BY <1>1, ElementOfSeq
<1> QED
  BY <1>1, <1>2

\* A regular push only appends, with the new sequence number.
LEMMA PushRegularStep ==
  ASSUME CheckpointTypeOK, CheckpointTypeOK', NEW h \in Holders, NEW m \in Members,
         NEW delta, NEW add, PushRegularDelta(m, govSeq + 1, delta, add)
  PROVE  RegKeptOrPushed(h)
<1>1. regCkpt[h] \in Seq(RegCkptType) /\ regCkpt'[h] \in Seq(RegCkptType)
  BY DEF CheckpointTypeOK
<1>2. CASE h \in {m, Community}
  <2> DEFINE x == [seq |-> govSeq + 1,
                   cumRegularGov |-> IF add THEN LastReg(regCkpt[h]) + delta
                                     ELSE FloorMinus(LastReg(regCkpt[h]), delta)]
  <2>1. regCkpt'[h] = Append(regCkpt[h], x)
    BY <1>2 DEF PushRegularDelta
  <2>2. x.seq = govSeq + 1
    OBVIOUS
  <2> HIDE DEF x
  <2>3. x \in RegCkptType
    BY <1>1, <2>1, AppendedElement
  <2> QED
    BY <2>1, <2>2, <2>3 DEF RegKeptOrPushed
<1>3. CASE h \notin {m, Community}
  BY <1>3 DEF PushRegularDelta, RegKeptOrPushed
<1> QED
  BY <1>2, <1>3

\* An advance push only appends, with the new sequence number.
LEMMA PushAdvanceStep ==
  ASSUME CheckpointTypeOK, CheckpointTypeOK', NEW h \in Holders, NEW m \in Members,
         NEW e, NEW delta, PushAdvance(m, govSeq + 1, e, delta)
  PROVE  AdvKeptOrPushed(h)
<1>1. advGrant[h] \in Seq(GrantType) /\ advGrant'[h] \in Seq(GrantType)
  BY DEF CheckpointTypeOK
<1>2. CASE h \in {m, Community}
  <2> DEFINE x == [seq |-> govSeq + 1, activationEpoch |-> e,
                   cumAdvancePrefix |-> LastAdv(advGrant[h]) + delta]
  <2>1. advGrant'[h] = Append(advGrant[h], x)
    BY <1>2 DEF PushAdvance
  <2>2. x.seq = govSeq + 1
    OBVIOUS
  <2> HIDE DEF x
  <2>3. x \in GrantType
    BY <1>1, <2>1, AppendedElement
  <2> QED
    BY <2>1, <2>2, <2>3 DEF AdvKeptOrPushed
<1>3. CASE h \notin {m, Community}
  BY <1>3 DEF PushAdvance, AdvKeptOrPushed
<1> QED
  BY <1>2, <1>3

CheckpointStep(h) ==
  RegKeptOrPushed(h) /\ AdvKeptOrPushed(h) /\ govSeq <= govSeq'

\* Any step appends to a checkpoint array beyond govSeq or leaves it alone.
LEMMA NextCheckpointStep ==
  ASSUME TypeOK, [Next]_vars, NEW h \in Holders
  PROVE  CheckpointStep(h)
<1>1. CheckpointTypeOK /\ CheckpointTypeOK'
  BY NextType DEF TypeOK
<1>2. govSeq \in Nat
  BY <1>1 DEF CheckpointTypeOK
<1>3. ASSUME UNCHANGED ckptVars PROVE CheckpointStep(h)
  BY <1>2, <1>3 DEF ckptVars, CheckpointStep, RegKeptOrPushed, AdvKeptOrPushed
<1>4. ASSUME NEW m \in Members, NEW c \in Contributions, NEW r \in RecordHashes,
             NEW regular \in Amounts, NEW advance \in Amounts, NEW related \in BOOLEAN,
             NEW p \in ProposalIds,
             executeMint(m, c, r, regular, advance, related, p)
      PROVE  CheckpointStep(h)
  <2>1. ApplyMint(m, regular, advance)
    BY <1>4 DEF executeMint
  <2>2. RegKeptOrPushed(h)
    BY <1>1, <2>1, PushRegularStep DEF ApplyMint, RegKeptOrPushed
  <2>3. AdvKeptOrPushed(h)
    BY <1>1, <2>1, PushAdvanceStep DEF ApplyMint, AdvKeptOrPushed
  <2> QED
    BY <1>2, <2>1, <2>2, <2>3 DEF ApplyMint, CheckpointStep
<1>5. ASSUME NEW m \in Members, NEW original \in Originals, NEW r \in RecordHashes,
             NEW amount \in Amounts, NEW p \in ProposalIds,
             executeReversal(m, original, r, amount, p)
      PROVE  CheckpointStep(h)
  <2>1. RegKeptOrPushed(h)
    BY <1>1, <1>5, PushRegularStep DEF executeReversal
  <2>2. AdvKeptOrPushed(h)
    BY <1>5 DEF executeReversal, AdvKeptOrPushed
  <2> QED
    BY <1>2, <1>5, <2>1, <2>2 DEF executeReversal, CheckpointStep
<1>6. CASE LedgerStep
  <2>1. ASSUME rollEpoch PROVE UNCHANGED ckptVars
    BY <2>1 DEF rollEpoch
  <2> QED
    BY <1>3, <1>4, <1>5, <1>6, <2>1 DEF LedgerStep
<1>7. ASSUME CommunityStep PROVE UNCHANGED ckptVars
  BY <1>7 DEF CommunityStep, createCommunity, setApprover, enrollMember, rotateKey,
              pause, unpause, ledgerVars
<1>8. ASSUME GovernanceStep PROVE UNCHANGED ckptVars
  <2>1. ASSUME NEW p \in ProposalIds, NEW kind \in Kinds, NEW ballot \in Ballots,
               NEW endTime \in 0..MaxTime, NEW minVoters \in MinVoterCounts,
               NEW target \in Members, NEW rates \in PolicyRates,
               createProposal(p, kind, ballot, endTime, minVoters, target, rates)
        PROVE  UNCHANGED ckptVars
    BY <2>1 DEF createProposal, ledgerVars
  <2>2. ASSUME NEW p \in ProposalIds, NEW m \in Members, NEW option \in Options,
               NEW n \in Nonces, castVote(p, m, option, n)
        PROVE  UNCHANGED ckptVars
    BY <2>2 DEF castVote, ledgerVars
  <2>3. ASSUME NEW p \in ProposalIds, finalizeProposal(p) \/ executeProposal(p)
        PROVE  UNCHANGED ckptVars
    BY <2>3 DEF finalizeProposal, executeProposal, ledgerVars
  <2> QED
    BY <1>8, <2>1, <2>2, <2>3 DEF GovernanceStep
<1>9. ASSUME Tick \/ UNCHANGED vars PROVE UNCHANGED ckptVars
  BY <1>9 DEF Tick, vars, ledgerVars
<1> QED
  BY <1>3, <1>6, <1>7, <1>8, <1>9 DEF Next

(***************************************************************************)
(* GovernanceInductive is inductive.                                       *)
(***************************************************************************)

\* Before the community exists there is no proposal and no pending policy.
LEMMA InitGovernance == Init => GovernanceInductive
BY DEF Init, GovernanceInductive, Opened, NoProposalYet

\* An executed policy proposal stays one.
LEMMA PolicyProposalStays ==
  ASSUME TypeOK, [Next]_vars, NEW p \in ProposalIds, NEW rates, PolicyProposal(p, rates)
  PROVE  PolicyProposal(p, rates)'
<1>1. ProposalStep(p)
  BY NextProposalStep
<1> QED
  BY <1>1 DEF ProposalStep, Created, Voted, Settled, Executed, PolicyProposal

\* What a step does to the policy in force and to the pending one.
PolicyKept == UNCHANGED <<policy, pendingPolicy, exists>>

PolicyFounded == ~exists /\ UNCHANGED pendingPolicy

PolicyProposed ==
  /\ UNCHANGED <<policy, exists>>
  /\ \E p \in ProposalIds :
       /\ Executable(p) /\ proposals[p].kind = "token_policy_change"
       /\ pendingPolicy' = [version |-> policy.version + 1, rates |-> proposals[p].rates,
                            effectiveEpoch |-> epoch.epochNumber + 1]
       /\ PolicyProposal(p, pendingPolicy.rates)'

PolicyActivated ==
  /\ UNCHANGED exists
  /\ pendingPolicy # NoPolicy
  /\ policy' = [version |-> pendingPolicy.version, rates |-> pendingPolicy.rates]
  /\ pendingPolicy' = NoPolicy
  /\ epoch'.epochNumber = epoch.epochNumber + 1

PolicyStep == PolicyKept \/ PolicyFounded \/ PolicyProposed \/ PolicyActivated

\* The pending policy set by an executed proposal is that proposal's, one version on.
LEMMA ExecutePolicyStep ==
  ASSUME TypeOK, NEW p \in ProposalIds, executeProposal(p)
  PROVE  PolicyStep
<1>1. CASE proposals[p].kind = "token_policy_change"
  <2>1. proposals[p] \in ProposalType
    BY OpenedType DEF executeProposal, Executable, TypeOK
  <2>2. proposals'[p] = [proposals[p] EXCEPT !.status = "EXECUTED"]
    BY DEF executeProposal, TypeOK, GovernanceTypeOK
  <2>3. PolicyProposal(p, pendingPolicy.rates)'
    BY <1>1, <2>1, <2>2 DEF executeProposal, Executable, PolicyProposal, ProposalType
  <2>4. PolicyProposed
    BY <1>1, <2>3 DEF executeProposal, PolicyProposed
  <2> QED
    BY <2>4 DEF PolicyStep
<1>2. CASE proposals[p].kind # "token_policy_change"
  BY <1>2 DEF executeProposal, PolicyStep, PolicyKept
<1> QED
  BY <1>1, <1>2

\* A roll keeps the pending policy or makes it the active one.
LEMMA RollPolicyStep ==
  ASSUME TypeOK, rollEpoch
  PROVE  PolicyStep
<1> DEFINE next == epoch.epochNumber + 1
<1>1. epoch'.epochNumber = next
  BY DEF rollEpoch, OpenEpoch
<1>2. CASE PolicyDue(next)
  <2>1. pendingPolicy # NoPolicy
    BY <1>2 DEF PolicyDue
  <2>2. policy' = [version |-> pendingPolicy.version, rates |-> pendingPolicy.rates]
    BY <1>2 DEF rollEpoch, PolicyFor
  <2>3. pendingPolicy' = NoPolicy /\ exists' = exists
    BY <1>2 DEF rollEpoch
  <2> QED
    BY <1>1, <2>1, <2>2, <2>3 DEF PolicyStep, PolicyActivated
<1>3. CASE ~ PolicyDue(next)
  BY <1>3 DEF rollEpoch, PolicyFor, PolicyStep, PolicyKept
<1> QED
  BY <1>2, <1>3

\* Any step treats the pending policy in one of these ways.
LEMMA NextPolicyStep ==
  ASSUME TypeOK, [Next]_vars
  PROVE  PolicyStep
<1>1. CASE CommunityStep
  <2>1. CASE createCommunity
    BY <2>1 DEF createCommunity, PolicyStep, PolicyFounded
  <2>2. CASE \E s \in Signers, b \in BOOLEAN : setApprover(s, b)
    BY <2>2 DEF setApprover, communityVars, PolicyStep, PolicyKept
  <2>3. CASE \E m \in Members, s \in Signers, auth \in Signers \cup {Owner}, n \in Nonces :
               enrollMember(m, s, auth, n)
    BY <2>3 DEF enrollMember, communityVars, PolicyStep, PolicyKept
  <2>4. CASE \E m \in Members, s \in Signers : rotateKey(m, s)
    BY <2>4 DEF rotateKey, communityVars, PolicyStep, PolicyKept
  <2>5. CASE pause \/ unpause
    BY <2>5 DEF pause, unpause, communityVars, PolicyStep, PolicyKept
  <2> QED
    BY <1>1, <2>1, <2>2, <2>3, <2>4, <2>5 DEF CommunityStep
<1>2. CASE LedgerStep
  <2>1. ASSUME NEW m \in Members, NEW c \in Contributions, NEW r \in RecordHashes,
               NEW regular \in Amounts, NEW advance \in Amounts, NEW related \in BOOLEAN,
               NEW p \in ProposalIds,
               executeMint(m, c, r, regular, advance, related, p)
        PROVE  PolicyStep
    BY <2>1 DEF executeMint, communityVars, PolicyStep, PolicyKept
  <2>2. ASSUME NEW m \in Members, NEW original \in Originals, NEW r \in RecordHashes,
               NEW amount \in Amounts, NEW p \in ProposalIds,
               executeReversal(m, original, r, amount, p)
        PROVE  PolicyStep
    BY <2>2 DEF executeReversal, communityVars, PolicyStep, PolicyKept
  <2> QED
    BY <1>2, <2>1, <2>2, RollPolicyStep DEF LedgerStep
<1>3. CASE GovernanceStep
  <2>1. ASSUME NEW p \in ProposalIds, NEW kind \in Kinds, NEW ballot \in Ballots,
               NEW endTime \in 0..MaxTime, NEW minVoters \in MinVoterCounts,
               NEW target \in Members, NEW rates \in PolicyRates,
               createProposal(p, kind, ballot, endTime, minVoters, target, rates)
        PROVE  PolicyStep
    BY <2>1 DEF createProposal, communityVars, PolicyStep, PolicyKept
  <2>2. ASSUME NEW p \in ProposalIds, NEW m \in Members, NEW option \in Options,
               NEW n \in Nonces, castVote(p, m, option, n)
        PROVE  PolicyStep
    BY <2>2 DEF castVote, communityVars, PolicyStep, PolicyKept
  <2>3. ASSUME NEW p \in ProposalIds, finalizeProposal(p) PROVE PolicyStep
    BY <2>3 DEF finalizeProposal, communityVars, PolicyStep, PolicyKept
  <2> QED
    BY <1>3, <2>1, <2>2, <2>3, ExecutePolicyStep DEF GovernanceStep
<1>4. CASE Tick \/ UNCHANGED vars
  BY <1>4 DEF Tick, vars, communityVars, PolicyStep, PolicyKept
<1> QED
  BY <1>1, <1>2, <1>3, <1>4 DEF Next

\* Every step preserves the inductive form.
LEMMA NextGovernance ==
  ASSUME TypeOK, GovernanceInductive, [Next]_vars
  PROVE  GovernanceInductive'
<1>1. ~exists' => /\ pendingPolicy' = NoPolicy
                 /\ \A p \in ProposalIds : ~Opened(p)'
  <2> SUFFICES ASSUME ~exists'
               PROVE  pendingPolicy' = NoPolicy /\ \A p \in ProposalIds : ~Opened(p)'
    OBVIOUS
  <2>1. ~exists
    <3>1. PolicyStep
      BY NextPolicyStep
    <3> QED
      BY <3>1 DEF PolicyStep, PolicyKept, PolicyFounded, PolicyProposed, PolicyActivated
  <2>2. pendingPolicy = NoPolicy /\ \A p \in ProposalIds : proposals[p].status = "NONE"
    BY <2>1 DEF GovernanceInductive, Opened
  <2>3. pendingPolicy' = NoPolicy
    BY <2>2, NextPolicyStep
       DEF PolicyStep, PolicyKept, PolicyFounded, PolicyProposed, PolicyActivated, Executable
  <2>4. ASSUME NEW p \in ProposalIds PROVE ~Opened(p)'
    BY <2>1, <2>2, NextProposalStep
       DEF ProposalStep, Created, Voted, Settled, Executed, Opened
  <2> QED
    BY <2>3, <2>4
<1>2. ASSUME NEW p \in ProposalIds, Opened(p)'
      PROVE  proposals'[p].snapshotSeq <= govSeq'
  <2>1. govSeq <= govSeq' /\ govSeq \in Nat /\ govSeq' \in Nat
    BY NextCheckpointStep, NextType DEF CheckpointStep, Holders, TypeOK, CheckpointTypeOK
  <2>2. proposals'[p].snapshotSeq <= govSeq
    <3>1. CASE Opened(p)
      <4>1. proposals[p].snapshotSeq <= govSeq
        BY <3>1 DEF GovernanceInductive
      <4>2. proposals'[p].snapshotSeq = proposals[p].snapshotSeq
        <5>1. proposals[p] \in ProposalType
          BY <3>1, OpenedType DEF Opened, TypeOK
        <5> QED
          BY <3>1, <5>1, NextProposalStep
             DEF ProposalStep, Created, Voted, Settled, Executed, Opened, ProposalType
      <4> QED
        BY <4>1, <4>2
    <3>2. CASE ~Opened(p)
      <4>1. Created(p)
        BY <1>2, <3>2, NextProposalStep DEF ProposalStep, Voted, Settled, Executed, Opened
      <4> QED
        BY <2>1, <4>1 DEF Created
    <3> QED
      BY <3>1, <3>2
  <2>3. proposals'[p].snapshotSeq \in Nat
    <3>1. proposals'[p] \in ProposalType
      BY <1>2, NextType DEF TypeOK, GovernanceTypeOK, Opened, NoProposalYet
    <3> QED
      BY <3>1 DEF ProposalType
  <2> QED
    BY <2>1, <2>2, <2>3
<1>3. ASSUME NEW p \in ProposalIds, proposals'[p].status \in {"FINALIZED", "EXECUTED"}
      PROVE  proposals'[p].approved = (QuorumMet(p) /\ ApproveLeads(p))'
  <2>1. CASE Settled(p)
    BY <2>1 DEF Settled
  <2>2. CASE proposals'[p] = proposals[p]
    BY <1>3, <2>2 DEF GovernanceInductive, QuorumMet, ApproveLeads
  <2>3. CASE Executed(p)
    <3>1. proposals[p] \in ProposalType
      BY <2>3, OpenedType DEF Executed, TypeOK
    <3>2. proposals[p].approved = (QuorumMet(p) /\ ApproveLeads(p))
      BY <2>3 DEF Executed, GovernanceInductive
    <3>3. /\ proposals'[p].approved = proposals[p].approved
          /\ QuorumMet(p)' = QuorumMet(p)
          /\ ApproveLeads(p)' = ApproveLeads(p)
      BY <2>3, <3>1, ZenonT(60) DEF Executed, ProposalType, QuorumMet, ApproveLeads
    <3> QED
      BY <3>2, <3>3
  <2> QED
    BY <1>3, <2>1, <2>2, <2>3, NextProposalStep DEF ProposalStep, Created, Voted
<1>4. ASSUME pendingPolicy' # NoPolicy
      PROVE  /\ pendingPolicy'.version = policy'.version + 1
             /\ \E p \in ProposalIds : PolicyProposal(p, pendingPolicy.rates)'
  <2>1. CASE PolicyProposed
    <3>1. PICK p \in ProposalIds :
            /\ pendingPolicy' = [version |-> policy.version + 1, rates |-> proposals[p].rates,
                                 effectiveEpoch |-> epoch.epochNumber + 1]
            /\ PolicyProposal(p, pendingPolicy.rates)'
      BY <2>1 DEF PolicyProposed
    <3>2. policy' = policy
      BY <2>1 DEF PolicyProposed
    <3> QED
      BY <3>1, <3>2
  <2>2. CASE PolicyKept
    <3>1. /\ pendingPolicy.version = policy.version + 1
          /\ \E p \in ProposalIds : PolicyProposal(p, pendingPolicy.rates)
      BY <1>4, <2>2 DEF PolicyKept, GovernanceInductive
    <3>2. PICK p \in ProposalIds : PolicyProposal(p, pendingPolicy.rates)
      BY <3>1
    <3>3. PolicyProposal(p, pendingPolicy.rates)'
      BY <2>2, <3>2, PolicyProposalStays DEF PolicyKept, PolicyProposal
    <3> QED
      BY <2>2, <3>1, <3>3 DEF PolicyKept
  <2>3. CASE PolicyFounded
    BY <1>4, <2>3 DEF PolicyFounded, GovernanceInductive
  <2> QED
    BY <1>4, <2>1, <2>2, <2>3, NextPolicyStep DEF PolicyStep, PolicyActivated
<1> QED
  BY <1>1, <1>2, <1>3, <1>4 DEF GovernanceInductive

\* The strengthening holds in every reachable state.
THEOREM GovernanceInductiveHolds == Spec => []GovernanceInductive
<1>1. TypeOK /\ GovernanceInductive /\ [Next]_vars => GovernanceInductive'
  BY NextGovernance
<1> QED
  BY InitGovernance, TypeCorrect, <1>1, PTL DEF Spec

(***************************************************************************)
(* The three action properties.                                            *)
(***************************************************************************)

\* One step changes no snapshot weight of an opened proposal.
LEMMA FrozenStep ==
  ASSUME TypeOK, GovernanceInductive, [Next]_vars,
         NEW p \in ProposalIds, Opened(p), NEW h \in Holders
  PROVE  SnapshotWeight(p, h)' = SnapshotWeight(p, h)
<1> DEFINE s == proposals[p].snapshotSeq
           e == proposals[p].snapshotEpoch
<1>1. proposals[p] \in ProposalType
  BY OpenedType DEF Opened, TypeOK
<1>2. s \in Nat /\ e \in Nat
  BY <1>1 DEF ProposalType
<1>3. proposals'[p].snapshotSeq = s /\ proposals'[p].snapshotEpoch = e
  BY <1>1, NextProposalStep
     DEF ProposalStep, Created, Voted, Settled, Executed, Opened, ProposalType
<1>4. s <= govSeq /\ govSeq \in Nat
  BY DEF GovernanceInductive, TypeOK, CheckpointTypeOK
<1>5. regCkpt[h] \in Seq(RegCkptType) /\ advGrant[h] \in Seq(GrantType)
  BY DEF TypeOK, CheckpointTypeOK
<1>6. RegKeptOrPushed(h) /\ AdvKeptOrPushed(h)
  BY NextCheckpointStep DEF CheckpointStep
<1> HIDE DEF s, e
<1>7. RegAt(regCkpt'[h], s) = RegAt(regCkpt[h], s)
  <2>1. CASE regCkpt'[h] = regCkpt[h]
    BY <2>1
  <2>2. CASE \E x \in RegCkptType : x.seq = govSeq + 1 /\ regCkpt'[h] = Append(regCkpt[h], x)
    <3>1. PICK x \in RegCkptType : x.seq = govSeq + 1 /\ regCkpt'[h] = Append(regCkpt[h], x)
      BY <2>2
    <3>2. RegAt(Append(regCkpt[h], x), s) = RegAt(regCkpt[h], s)
      BY <1>2, <1>4, <1>5, <3>1, RegAppendInvisible
    <3> QED
      BY <3>1, <3>2
  <2> QED
    BY <1>6, <2>1, <2>2 DEF RegKeptOrPushed
<1>8. AdvAt(advGrant'[h], s, e) = AdvAt(advGrant[h], s, e)
  <2>1. CASE advGrant'[h] = advGrant[h]
    BY <2>1
  <2>2. CASE \E x \in GrantType : x.seq = govSeq + 1 /\ advGrant'[h] = Append(advGrant[h], x)
    <3>1. PICK x \in GrantType : x.seq = govSeq + 1 /\ advGrant'[h] = Append(advGrant[h], x)
      BY <2>2
    <3>2. s < x.seq
      BY <1>2, <1>4, <3>1
    <3>3. AdvAt(Append(advGrant[h], x), s, e) = AdvAt(advGrant[h], s, e)
      BY <1>2, <1>5, <3>2, AdvAppendInvisible
    <3> QED
      BY <3>1, <3>3
  <2> QED
    BY <1>6, <2>1, <2>2 DEF AdvKeptOrPushed
<1>9. SnapshotWeight(p, h) = RegAt(regCkpt[h], s) + AdvAt(advGrant[h], s, e)
  BY DEF SnapshotWeight, governanceBalanceAt, s, e
<1>10. SnapshotWeight(p, h)' = RegAt(regCkpt'[h], s) + AdvAt(advGrant'[h], s, e)
  BY <1>3 DEF SnapshotWeight, governanceBalanceAt
<1> QED
  BY <1>7, <1>8, <1>9, <1>10

\* A snapshot is frozen: whatever anyone mints, reverses, rolls or votes after a
\* proposal was opened, no holder's weight for that proposal changes.
THEOREM SnapshotsAreFrozen == Spec => SnapshotFrozen
<1>1. TypeOK /\ GovernanceInductive /\ [Next]_vars =>
        \A p \in ProposalIds : Opened(p) =>
          \A holder \in Holders : SnapshotWeight(p, holder)' = SnapshotWeight(p, holder)
  BY FrozenStep
<1> QED
  BY TypeCorrect, GovernanceInductiveHolds, <1>1, PTL DEF Spec, SnapshotFrozen

\* A settled proposal is final: no step changes its tally or its verdict, and the
\* verdict is the one its tally gives.
THEOREM SettlementIsFinal == Spec => SettledIsFinal
<1>1. TypeOK /\ GovernanceInductive /\ [Next]_vars =>
        \A p \in ProposalIds : proposals[p].status \in {"FINALIZED", "EXECUTED"} =>
          /\ proposals[p].approved = (QuorumMet(p) /\ ApproveLeads(p))
          /\ proposals'[p] = proposals[p]
             \/ /\ proposals[p].status = "FINALIZED"
                /\ proposals'[p] = [proposals[p] EXCEPT !.status = "EXECUTED"]
  BY NextProposalStep DEF GovernanceInductive, ProposalStep, Created, Voted, Settled, Executed
<1> QED
  BY TypeCorrect, GovernanceInductiveHolds, <1>1, PTL DEF Spec, SettledIsFinal

\* One step changes the policy only as an executed proposal named it.
LEMMA ActivationStep ==
  ASSUME TypeOK, GovernanceInductive, [Next]_vars, policy' # policy, exists
  PROVE  /\ epoch'.epochNumber = epoch.epochNumber + 1
         /\ policy'.version = policy.version + 1
         /\ \E p \in ProposalIds : PolicyProposal(p, policy'.rates)
<1>1. PolicyActivated
  BY NextPolicyStep DEF PolicyStep, PolicyKept, PolicyFounded, PolicyProposed
<1>2. policy'.version = pendingPolicy.version /\ policy'.rates = pendingPolicy.rates
  BY <1>1 DEF PolicyActivated
<1>3. PICK p \in ProposalIds : PolicyProposal(p, pendingPolicy.rates)
  BY <1>1 DEF PolicyActivated, GovernanceInductive
<1>4. PolicyProposal(p, policy'.rates)
  BY <1>2, <1>3
<1>5. pendingPolicy.version = policy.version + 1
  BY <1>1 DEF PolicyActivated, GovernanceInductive
<1> QED
  BY <1>1, <1>2, <1>4, <1>5 DEF PolicyActivated

\* The policy in force changes only as an epoch opens, one version at a time, to
\* rates that an approved and executed policy proposal named.
THEOREM PolicyChangesByProposal == Spec => PolicyByProposal
<1>1. TypeOK /\ GovernanceInductive /\ [Next]_vars =>
        (policy' # policy /\ exists =>
           /\ epoch'.epochNumber = epoch.epochNumber + 1
           /\ policy'.version = policy.version + 1
           /\ \E p \in ProposalIds : PolicyProposal(p, policy'.rates))
  BY ActivationStep
<1> QED
  BY TypeCorrect, GovernanceInductiveHolds, <1>1, PTL DEF Spec, PolicyByProposal
=============================================================================
