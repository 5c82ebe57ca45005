-------------------------- MODULE YouFenGovernance --------------------------
(***************************************************************************)
(* The v0.7 contract contracts/YouFenGovernance.sol, for one community:    *)
(* the epoch budget, the advance debt carried between epochs, balances and *)
(* supply, the approval tiers, proposals and votes, the governance         *)
(* checkpoints that freeze a voting weight, and the pending policy that an *)
(* epoch roll activates.  A transaction is atomic, so it is one action;    *)
(* a reverting transaction changes nothing and is no step.                 *)
(*                                                                         *)
(* Signatures are abstracted to the set of keys whose EIP-712 signature    *)
(* over the authorization recovers.  A relayer may submit any signed       *)
(* authorization at any time, so the fields of an authorization are inputs *)
(* chosen by \E.  Two of them, epochNumber and ruleVersion, must equal the *)
(* current ones and are read from the state; an authorization's deadline   *)
(* only restricts when it may be submitted and is left out.                *)
(***************************************************************************)
EXTENDS Integers, Sequences, FiniteSets, Functions

CONSTANTS
  Members,         \* memberIdHash values
  Signers,         \* addresses that can hold a client key (approvers, members)
  Owner,           \* the community owner's address
  Contributions,   \* contributionId values
  RecordHashes,    \* recordHash values no other community records
  MintedElsewhere, \* <<recordHash, memberIdHash>> of the mints of other communities
  ProposalIds,     \* proposalId values
  ZeroProposal,    \* the proposalId 0x0: an authorization that names no proposal
  Options,         \* optionId values
  Approve,         \* APPROVE_OPTION
  Ballots,         \* the sets of options a creator may put to the vote
  Nonces,          \* nonce values
  Amounts,         \* amounts an authorization may name
  Kinds,           \* proposal kinds that may be created
  PolicyRates,     \* rates a policy proposal may name
  MinVoterCounts,  \* minVoterCount values a creator may name
  GenesisSupply, GenesisRates, ApproverThreshold, MinVoterCount,
  MaxEpoch,        \* bound: no roll past this epoch
  MaxTime,         \* bound: the clock stops here
  NoSigner, NoProposal, NoRecord, NoPolicy, NoOption, Community

BPS == 10000
MAX_ADVANCE_LIMIT_BPS == 2500
ADVANCE_DUAL_BPS == 1000

ProposalKinds == {"community_decision", "token_policy_change", "budget_advance",
                  "special_mint", "related_party_mint", "token_reversal"}
Rates == [inflation: Nat, maxAdvance: Nat, memberCap: Nat]

ASSUME BoundsAssumption == MaxEpoch \in Nat \ {0} /\ MaxTime \in Nat

ASSUME GenesisAssumption ==
  /\ GenesisSupply \in Nat
  /\ GenesisRates \in Rates
  /\ ApproverThreshold \in Nat \ {0}
  /\ MinVoterCount \in Nat

ASSUME InputAssumption ==
  /\ Amounts \subseteq Nat
  /\ Kinds \subseteq ProposalKinds
  /\ PolicyRates \subseteq Rates
  /\ MinVoterCounts \subseteq Nat
  /\ Approve \in Options
  /\ Ballots \subseteq SUBSET Options

ASSUME SignersAssumption == IsFiniteSet(Signers)
ASSUME MembersAssumption == IsFiniteSet(Members)
ASSUME OptionsAssumption == IsFiniteSet(Options)

ASSUME SentinelAssumption ==
  /\ NoSigner \notin Signers \cup {Owner}
  /\ ZeroProposal \in ProposalIds
  /\ NoProposal \notin ProposalIds
  /\ Community \notin Members
  /\ NoOption \notin Options

VARIABLES
  exists,                    \* communities[id].exists
  currentTotalSupply,        \* communities[id].currentTotalSupply
  policy,                    \* activePolicyVersion and the three active rates
  pendingPolicy,             \* pendingPolicy[id], or NoPolicy
  epoch,                     \* epochs[id][currentEpochNumber]
  balances,                  \* balances[id]
  memberRegularMintedEpoch,  \* the current epoch's row of that mapping
  memberSigner,              \* memberSigner[id], NoSigner for address(0)
  isApprover,                \* the approved addresses
  usedNonce,                 \* pairs <<signer, nonce>> already used
  contributionConsumed,      \* contributions already minted
  records,                   \* recordExists, mintRecordMember and the event's payload
  reversed,                  \* originalRecordHash values already reversed
  proposalConsumedForMint,   \* proposals a mint or a reversal consumed
  govSeq,                    \* govSeq[id]
  regCkpt, advGrant,         \* checkpoints of each member and of the Community
  proposals,                 \* proposals, optionWeight, hasVoted, optionOnBallot
  now,                       \* block.timestamp
  paused,
  issued,                    \* history: every token ever minted
  granted                    \* history: the base budgets of the closed epochs

communityVars == <<exists, policy, pendingPolicy>>
supplyVars == <<currentTotalSupply, balances, issued>>
epochVars == <<epoch, memberRegularMintedEpoch, granted>>
keyVars == <<memberSigner, isApprover>>
recordVars == <<contributionConsumed, records, reversed>>
ckptVars == <<govSeq, regCkpt, advGrant>>
ledgerVars == <<supplyVars, epochVars, recordVars, ckptVars>>
clockVars == <<now, paused>>
vars == <<communityVars, ledgerVars, keyVars, usedNonce, proposalConsumedForMint,
          proposals, clockVars>>

Holders == Members \cup {Community}

\* What an originalRecordHash may name: mintRecordMember is one mapping for all communities.
Originals == RecordHashes \cup {mint[1] : mint \in MintedElsewhere}

(***************************************************************************)
(* Derived amounts.                                                        *)
(***************************************************************************)

BpsOf(amount, bps) == (amount * bps) \div BPS

\* Mutant: the guard against an unsigned underflow is missing.
PlainMinus(a, b) == a - b

FloorMinus(a, b) == IF a > b THEN a - b ELSE 0

LargerOf(a, b) == IF a > b THEN a ELSE b

OpenEpoch(n, openingSupply, rates, debt) ==
  LET base == BpsOf(openingSupply, rates.inflation)
  IN  [epochNumber            |-> n,
       baseMintBudget         |-> base,
       advanceDebtFromPrev    |-> debt,
       effectiveRegularBudget |-> FloorMinus(base, debt),
       maxAdvanceAmount       |-> BpsOf(base, rates.maxAdvance),
       regularMinted          |-> 0,
       advanceMinted          |-> 0]

\* Mutant: what the budget could not repay is forgiven.
DebtWithoutCarry == epoch.advanceMinted

\* The debt the open epoch hands to the next one: what it advanced, and what
\* its own budget could not repay.
NextDebt == epoch.advanceMinted
              + FloorMinus(epoch.advanceDebtFromPrev, epoch.baseMintBudget)

MemberEpochCap == BpsOf(epoch.baseMintBudget, policy.rates.memberCap)

(***************************************************************************)
(* Governance checkpoints.  A read at (seq, epoch) takes the last regular  *)
(* checkpoint not after seq, and the advance grants both made by seq and   *)
(* mature by epoch, which are a prefix of the grants.                      *)
(***************************************************************************)

RegAt(R, seq) ==
  LET upTo == {i \in DOMAIN R : R[i].seq <= seq}
  IN  IF upTo = {} THEN 0
      ELSE R[CHOOSE i \in upTo : \A j \in upTo : j <= i].cumRegularGov

AdvAt(A, seq, atEpoch) ==
  LET mature == {i \in DOMAIN A : A[i].seq <= seq /\ A[i].activationEpoch <= atEpoch}
  IN  IF mature = {} THEN 0
      ELSE A[CHOOSE i \in mature : \A j \in mature : j <= i].cumAdvancePrefix

governanceBalanceAt(holder, seq, atEpoch) ==
  RegAt(regCkpt[holder], seq) + AdvAt(advGrant[holder], seq, atEpoch)

LastReg(R) == IF R = <<>> THEN 0 ELSE R[Len(R)].cumRegularGov
LastAdv(A) == IF A = <<>> THEN 0 ELSE A[Len(A)].cumAdvancePrefix

\* _pushRegularDelta, for the member and for the community as a whole
PushRegularDelta(m, seq, delta, add) ==
  regCkpt' = [h \in Holders |->
    IF h \in {m, Community}
    THEN Append(regCkpt[h],
           [seq |-> seq,
            cumRegularGov |-> IF add THEN LastReg(regCkpt[h]) + delta
                              ELSE FloorMinus(LastReg(regCkpt[h]), delta)])
    ELSE regCkpt[h]]

\* Mutant: a grant's prefix is its own amount, not the running total.
PushAdvanceAlone(m, seq, activationEpoch, delta) ==
  advGrant' = [h \in Holders |->
    IF h \in {m, Community}
    THEN Append(advGrant[h],
           [seq |-> seq, activationEpoch |-> activationEpoch, cumAdvancePrefix |-> delta])
    ELSE advGrant[h]]

\* _pushAdvance, for the member and for the community as a whole
PushAdvance(m, seq, activationEpoch, delta) ==
  advGrant' = [h \in Holders |->
    IF h \in {m, Community}
    THEN Append(advGrant[h],
           [seq |-> seq, activationEpoch |-> activationEpoch,
            cumAdvancePrefix |-> LastAdv(advGrant[h]) + delta])
    ELSE advGrant[h]]

(***************************************************************************)
(* Approvals.                                                              *)
(***************************************************************************)

RecordExists(h) == records[h] # NoRecord

\* Mutant: an approval is not single-use.
ProposalApproved(p) ==
  /\ p \in ProposalIds
  /\ proposals[p].status \in {"FINALIZED", "EXECUTED"}
  /\ proposals[p].approved

\* A settled, approved proposal no mint or reversal has consumed.
ProposalUsable(p) ==
  /\ p \in ProposalIds
  /\ proposals[p].status \in {"FINALIZED", "EXECUTED"}
  /\ proposals[p].approved
  /\ p \notin proposalConsumedForMint

ProposalAuthorizes(p, m, kind) ==
  ProposalUsable(p) /\ proposals[p].kind = kind /\ proposals[p].target = m

MintProposalSatisfied(p, m) ==
  \/ ProposalAuthorizes(p, m, "special_mint")
  \/ ProposalAuthorizes(p, m, "related_party_mint")
  \/ ProposalUsable(p) /\ proposals[p].kind = "budget_advance"

\* The keys that signed are approvers, none is the recipient's own key, and
\* none has used the nonce: what _countDistinctApprovers requires of them.
ApproversAccepted(sigs, m, n) ==
  /\ sigs \subseteq isApprover
  /\ memberSigner[m] \notin sigs
  /\ \A s \in sigs : <<s, n>> \notin usedNonce

\* Mutant: the gate looks at this advance alone.
SingleAdvanceBps(advance) == (advance * BPS) \div epoch.baseMintBudget

CumulativeAdvanceBps(advance) ==
  ((epoch.advanceMinted + advance) * BPS) \div epoch.baseMintBudget

\* 1 = SINGLE, 2 = DUAL, 3 = PROPOSAL
ApprovalTier(advance, related, p) ==
  IF p # ZeroProposal \/ (advance > 0 /\ CumulativeAdvanceBps(advance) > ADVANCE_DUAL_BPS)
  THEN 3
  ELSE IF advance > 0 \/ related THEN 2 ELSE 1

\* The proposal a mint draws on and consumes: the one it names, which is 0x0 itself when
\* an advance needs a proposal and the authorization names none.
ProposalOfMint(advance, related, p) ==
  IF ApprovalTier(advance, related, p) = 3 THEN p ELSE NoProposal

RequiredApprovers(tier) ==
  IF tier = 3 THEN ApproverThreshold ELSE LargerOf(tier, ApproverThreshold)

MintApproved(m, advance, related, p, sigs, n) ==
  LET tier == ApprovalTier(advance, related, p)
  IN  /\ tier = 3 => MintProposalSatisfied(p, m)
      /\ ApproversAccepted(sigs, m, n)
      /\ Cardinality(sigs) >= RequiredApprovers(tier)

(***************************************************************************)
(* Community, approvers, member keys, pause.                               *)
(***************************************************************************)

createCommunity ==
  /\ ~paused /\ ~exists
  /\ exists' = TRUE
  /\ currentTotalSupply' = GenesisSupply
  /\ policy' = [version |-> 1, rates |-> GenesisRates]
  /\ epoch' = OpenEpoch(1, GenesisSupply, GenesisRates, 0)
  /\ UNCHANGED <<pendingPolicy, balances, issued, memberRegularMintedEpoch, granted,
                 keyVars, usedNonce, recordVars, ckptVars, proposalConsumedForMint,
                 proposals, clockVars>>

setApprover(account, approver) ==
  /\ exists
  /\ isApprover' = IF approver THEN isApprover \cup {account} ELSE isApprover \ {account}
  /\ UNCHANGED <<communityVars, ledgerVars, memberSigner, usedNonce,
                 proposalConsumedForMint, proposals, clockVars>>

\* The new key proves possession; an approver or the owner co-signs.
enrollMember(m, signer, auth, n) ==
  /\ ~paused /\ exists
  /\ memberSigner[m] = NoSigner
  /\ auth \in isApprover \cup {Owner}
  /\ <<signer, n>> \notin usedNonce
  /\ usedNonce' = usedNonce \cup {<<signer, n>>}
  /\ memberSigner' = [memberSigner EXCEPT ![m] = signer]
  /\ UNCHANGED <<communityVars, ledgerVars, isApprover, proposalConsumedForMint,
                 proposals, clockVars>>

\* Authorized by the current key alone; the authorization's nonce is not consumed.
rotateKey(m, newSigner) ==
  /\ ~paused
  /\ memberSigner[m] # NoSigner
  /\ memberSigner' = [memberSigner EXCEPT ![m] = newSigner]
  /\ UNCHANGED <<communityVars, ledgerVars, isApprover, usedNonce,
                 proposalConsumedForMint, proposals, clockVars>>

pause ==
  /\ paused' = TRUE
  /\ UNCHANGED <<communityVars, ledgerVars, keyVars, usedNonce,
                 proposalConsumedForMint, proposals, now>>

unpause ==
  /\ paused' = FALSE
  /\ UNCHANGED <<communityVars, ledgerVars, keyVars, usedNonce,
                 proposalConsumedForMint, proposals, now>>

(***************************************************************************)
(* Enforcement core: executeMint and executeReversal.                      *)
(***************************************************************************)

\* Mutant: the cap limits each mint, not the member's epoch.
MemberCapOKPerMint(m, regular, p) ==
  \/ p # ZeroProposal /\ ProposalAuthorizes(p, m, "special_mint")
  \/ regular <= MemberEpochCap

\* (4) only an unconsumed special_mint proposal for this member lifts the cap
MemberCapOK(m, regular, p) ==
  \/ p # ZeroProposal /\ ProposalAuthorizes(p, m, "special_mint")
  \/ memberRegularMintedEpoch[m] + regular <= MemberEpochCap

\* (5) no advance while debt is carried; the cumulative gate spans the epoch
AdvanceOK(advance) ==
  advance > 0 =>
    /\ epoch.advanceDebtFromPrev = 0
    /\ epoch.baseMintBudget > 0
    /\ advance <= epoch.maxAdvanceAmount
    /\ CumulativeAdvanceBps(advance) <= MAX_ADVANCE_LIMIT_BPS

\* (6) what the epoch's budget has left
BudgetOK(regular) == regular <= epoch.effectiveRegularBudget - epoch.regularMinted

\* Mutant: the epoch's advance total is overwritten, not increased.
ApplyMintOverwriting(m, regular, advance) ==
  /\ balances' = [balances EXCEPT ![m] = @ + regular + advance]
  /\ currentTotalSupply' = currentTotalSupply + regular + advance
  /\ issued' = issued + regular + advance
  /\ epoch' = [epoch EXCEPT !.regularMinted = @ + regular,
                            !.advanceMinted = advance]
  /\ memberRegularMintedEpoch' = [memberRegularMintedEpoch EXCEPT ![m] = @ + regular]
  /\ govSeq' = govSeq + 1
  /\ IF regular > 0 THEN PushRegularDelta(m, govSeq + 1, regular, TRUE)
     ELSE UNCHANGED regCkpt
  /\ IF advance > 0 THEN PushAdvance(m, govSeq + 1, epoch.epochNumber + 1, advance)
     ELSE UNCHANGED advGrant

\* Mutant: a mint is given the sequence number of the one before it.
ApplyMintSameSeq(m, regular, advance) ==
  /\ balances' = [balances EXCEPT ![m] = @ + regular + advance]
  /\ currentTotalSupply' = currentTotalSupply + regular + advance
  /\ issued' = issued + regular + advance
  /\ epoch' = [epoch EXCEPT !.regularMinted = @ + regular,
                            !.advanceMinted = @ + advance]
  /\ memberRegularMintedEpoch' = [memberRegularMintedEpoch EXCEPT ![m] = @ + regular]
  /\ UNCHANGED govSeq
  /\ IF regular > 0 THEN PushRegularDelta(m, govSeq, regular, TRUE)
     ELSE UNCHANGED regCkpt
  /\ IF advance > 0 THEN PushAdvance(m, govSeq, epoch.epochNumber + 1, advance)
     ELSE UNCHANGED advGrant

\* _applyMint
ApplyMint(m, regular, advance) ==
  /\ balances' = [balances EXCEPT ![m] = @ + regular + advance]
  /\ currentTotalSupply' = currentTotalSupply + regular + advance
  /\ issued' = issued + regular + advance
  /\ epoch' = [epoch EXCEPT !.regularMinted = @ + regular,
                            !.advanceMinted = @ + advance]
  /\ memberRegularMintedEpoch' = [memberRegularMintedEpoch EXCEPT ![m] = @ + regular]
  /\ govSeq' = govSeq + 1
  /\ IF regular > 0 THEN PushRegularDelta(m, govSeq + 1, regular, TRUE)
     ELSE UNCHANGED regCkpt
  /\ IF advance > 0 THEN PushAdvance(m, govSeq + 1, epoch.epochNumber + 1, advance)
     ELSE UNCHANGED advGrant

executeMint(m, c, h, regular, advance, related, p) ==
  /\ ~paused /\ exists
  /\ c \notin contributionConsumed
  /\ ~RecordExists(h)
  /\ regular + advance > 0
  /\ MemberCapOK(m, regular, p)
  /\ AdvanceOK(advance)
  /\ BudgetOK(regular)
  /\ \E sigs \in SUBSET isApprover, n \in Nonces :
       /\ MintApproved(m, advance, related, p, sigs, n)
       /\ usedNonce' = usedNonce \cup {<<s, n>> : s \in sigs}
       /\ records' = [records EXCEPT ![h] =
            [type |-> "mint", member |-> m, contribution |-> c,
             regular |-> regular, advance |-> advance,
             epochNumber |-> epoch.epochNumber, related |-> related,
             proposal |-> ProposalOfMint(advance, related, p), approvers |-> Cardinality(sigs)]]
  /\ contributionConsumed' = contributionConsumed \cup {c}
  /\ proposalConsumedForMint' =
       proposalConsumedForMint \cup ({ProposalOfMint(advance, related, p)} \ {NoProposal})
  /\ ApplyMint(m, regular, advance)
  /\ UNCHANGED <<communityVars, keyVars, reversed, granted, proposals, clockVars>>

\* With a token_reversal proposal the community threshold is enough; without
\* one, at least two approvers.
ReversalAuthorized(p, m) ==
  p # ZeroProposal /\ ProposalAuthorizes(p, m, "token_reversal")

ReversalApproved(m, p, sigs, n) ==
  /\ ApproversAccepted(sigs, m, n)
  /\ Cardinality(sigs) >= IF ReversalAuthorized(p, m) THEN ApproverThreshold
                          ELSE LargerOf(2, ApproverThreshold)

\* mintRecordMember[original] = m, also when another community has minted it
MintedFor(original, m) ==
  \/ /\ original \in RecordHashes /\ RecordExists(original)
     /\ records[original].type = "mint" /\ records[original].member = m
  \/ <<original, m>> \in MintedElsewhere

executeReversal(m, original, h, amount, p) ==
  /\ ~paused /\ exists
  /\ ~RecordExists(h)
  /\ MintedFor(original, m)
  /\ original \notin reversed
  /\ amount > 0
  /\ amount <= balances[m]
  /\ amount <= currentTotalSupply    \* checked arithmetic: an underflow reverts
  /\ \E sigs \in SUBSET isApprover, n \in Nonces :
       /\ ReversalApproved(m, p, sigs, n)
       /\ usedNonce' = usedNonce \cup {<<s, n>> : s \in sigs}
       /\ records' = [records EXCEPT ![h] =
            [type |-> "reversal", member |-> m, original |-> original,
             amount |-> amount, approvers |-> Cardinality(sigs),
             proposal |-> IF ReversalAuthorized(p, m) THEN p ELSE NoProposal]]
  /\ proposalConsumedForMint' =
       IF ReversalAuthorized(p, m)
       THEN proposalConsumedForMint \cup {p} ELSE proposalConsumedForMint
  /\ reversed' = reversed \cup {original}
  /\ balances' = [balances EXCEPT ![m] = @ - amount]
  /\ currentTotalSupply' = currentTotalSupply - amount
  /\ govSeq' = govSeq + 1
  /\ PushRegularDelta(m, govSeq + 1, amount, FALSE)
  /\ UNCHANGED <<communityVars, epochVars, keyVars, contributionConsumed, issued,
                 advGrant, proposals, clockVars>>

(***************************************************************************)
(* Governance.                                                             *)
(***************************************************************************)

createProposal(p, kind, ballot, endTime, minVoters, target, rates) ==
  /\ ~paused /\ exists
  /\ proposals[p].status = "NONE"
  /\ ballot # {}
  /\ endTime > now
  /\ isApprover # {}                 \* the creator's signature is an approver's
  /\ proposals' = [proposals EXCEPT ![p] =
       [status |-> "ACTIVE", kind |-> kind, approved |-> FALSE,
        snapshotSeq |-> govSeq, snapshotEpoch |-> epoch.epochNumber,
        activeGovSupplySnapshot |->
          governanceBalanceAt(Community, govSeq, epoch.epochNumber),
        endTime |-> endTime, minVoterCount |-> LargerOf(minVoters, MinVoterCount),
        voterCount |-> 0, winningOptionId |-> NoOption, totalVoteWeight |-> 0,
        target |-> target, rates |-> rates, ballot |-> ballot,
        optionWeight |-> [o \in Options |-> 0], hasVoted |-> {}]]
  /\ UNCHANGED <<communityVars, ledgerVars, keyVars, usedNonce,
                 proposalConsumedForMint, clockVars>>

\* Mutant: the weight is the member's current one.
CurrentWeight(p, m) == governanceBalanceAt(m, govSeq, epoch.epochNumber)

VoteWeight(p, m) ==
  governanceBalanceAt(m, proposals[p].snapshotSeq, proposals[p].snapshotEpoch)

\* The vote is signed by the member's own key.
VoteAccepted(p, m, option, n) ==
  /\ proposals[p].status = "ACTIVE"
  /\ now <= proposals[p].endTime
  /\ option \in proposals[p].ballot
  /\ memberSigner[m] # NoSigner
  /\ m \notin proposals[p].hasVoted
  /\ <<memberSigner[m], n>> \notin usedNonce
  /\ VoteWeight(p, m) > 0

\* relayVotes is a batch of these: an element that reverts is skipped.
castVote(p, m, option, n) ==
  /\ ~paused
  /\ VoteAccepted(p, m, option, n)
  /\ usedNonce' = usedNonce \cup {<<memberSigner[m], n>>}
  /\ proposals' = [proposals EXCEPT
       ![p].hasVoted = @ \cup {m},
       ![p].optionWeight[option] = @ + VoteWeight(p, m),
       ![p].voterCount = @ + 1,
       ![p].totalVoteWeight = @ + VoteWeight(p, m)]
  /\ UNCHANGED <<communityVars, ledgerVars, keyVars, proposalConsumedForMint,
                 clockVars>>

\* Approve wins with a strict majority of the weight cast.
ApproveLeads(p) ==
  /\ proposals[p].optionWeight[Approve] > 0
  /\ 2 * proposals[p].optionWeight[Approve] > proposals[p].totalVoteWeight

QuorumMet(p) == proposals[p].voterCount >= proposals[p].minVoterCount

VotingOver(p) == proposals[p].status = "ACTIVE" /\ now > proposals[p].endTime

finalizeProposal(p) ==
  /\ ~paused
  /\ VotingOver(p)
  /\ proposals' = [proposals EXCEPT
       ![p].status = "FINALIZED",
       ![p].winningOptionId = IF ApproveLeads(p) THEN Approve ELSE NoOption,
       ![p].approved = QuorumMet(p) /\ ApproveLeads(p)]
  /\ UNCHANGED <<communityVars, ledgerVars, keyVars, usedNonce,
                 proposalConsumedForMint, clockVars>>

\* Mutant: a proposal the vote rejected is executed.
ExecutableUnapproved(p) == proposals[p].status = "FINALIZED"

Executable(p) == proposals[p].status = "FINALIZED" /\ proposals[p].approved

\* A policy proposal replaces whatever policy was pending.
executeProposal(p) ==
  /\ ~paused
  /\ Executable(p)
  /\ proposals' = [proposals EXCEPT ![p].status = "EXECUTED"]
  /\ pendingPolicy' =
       IF proposals[p].kind = "token_policy_change"
       THEN [version |-> policy.version + 1, rates |-> proposals[p].rates,
             effectiveEpoch |-> epoch.epochNumber + 1]
       ELSE pendingPolicy
  /\ UNCHANGED <<exists, policy, ledgerVars, keyVars, usedNonce,
                 proposalConsumedForMint, clockVars>>

(***************************************************************************)
(* Epoch roll (anyone, at any time) and the clock.                         *)
(***************************************************************************)

PolicyDue(n) == pendingPolicy # NoPolicy /\ pendingPolicy.effectiveEpoch <= n

PolicyFor(n) ==
  IF PolicyDue(n) THEN [version |-> pendingPolicy.version, rates |-> pendingPolicy.rates]
  ELSE policy

rollEpoch ==
  LET next == epoch.epochNumber + 1
  IN  /\ ~paused /\ exists
      /\ next <= MaxEpoch
      /\ policy' = PolicyFor(next)
      /\ pendingPolicy' = IF PolicyDue(next) THEN NoPolicy ELSE pendingPolicy
      /\ epoch' = OpenEpoch(next, currentTotalSupply, PolicyFor(next).rates, NextDebt)
      /\ memberRegularMintedEpoch' = [m \in Members |-> 0]
      /\ granted' = granted + epoch.baseMintBudget
      /\ UNCHANGED <<exists, supplyVars, keyVars, recordVars, ckptVars, usedNonce,
                     proposalConsumedForMint, proposals, clockVars>>

Tick ==
  /\ now < MaxTime
  /\ now' = now + 1
  /\ UNCHANGED <<communityVars, ledgerVars, keyVars, usedNonce,
                 proposalConsumedForMint, proposals, paused>>

(***************************************************************************)
(* The specification.                                                      *)
(***************************************************************************)

NoRates == [inflation |-> 0, maxAdvance |-> 0, memberCap |-> 0]

NoProposalYet == [status |-> "NONE", approved |-> FALSE]

Init ==
  /\ exists = FALSE
  /\ currentTotalSupply = 0
  /\ policy = [version |-> 0, rates |-> NoRates]
  /\ pendingPolicy = NoPolicy
  /\ epoch = OpenEpoch(0, 0, NoRates, 0)
  /\ balances = [m \in Members |-> 0]
  /\ memberRegularMintedEpoch = [m \in Members |-> 0]
  /\ memberSigner = [m \in Members |-> NoSigner]
  /\ isApprover = {}
  /\ usedNonce = {}
  /\ contributionConsumed = {}
  /\ records = [h \in RecordHashes |-> NoRecord]
  /\ reversed = {}
  /\ proposalConsumedForMint = {}
  /\ govSeq = 0
  /\ regCkpt = [h \in Holders |-> <<>>]
  /\ advGrant = [h \in Holders |-> <<>>]
  /\ proposals = [p \in ProposalIds |-> NoProposalYet]
  /\ now = 0
  /\ paused = FALSE
  /\ issued = 0
  /\ granted = 0

CommunityStep ==
  \/ createCommunity
  \/ \E s \in Signers, b \in BOOLEAN : setApprover(s, b)
  \/ \E m \in Members, s \in Signers, auth \in Signers \cup {Owner}, n \in Nonces :
       enrollMember(m, s, auth, n)
  \/ \E m \in Members, s \in Signers : rotateKey(m, s)
  \/ pause
  \/ unpause

LedgerStep ==
  \/ \E m \in Members, c \in Contributions, h \in RecordHashes,
        regular, advance \in Amounts, related \in BOOLEAN,
        p \in ProposalIds :
       executeMint(m, c, h, regular, advance, related, p)
  \/ \E m \in Members, original \in Originals, h \in RecordHashes, amount \in Amounts,
        p \in ProposalIds :
       executeReversal(m, original, h, amount, p)
  \/ rollEpoch

GovernanceStep ==
  \/ \E p \in ProposalIds, kind \in Kinds, ballot \in Ballots, endTime \in 0..MaxTime,
        minVoters \in MinVoterCounts, target \in Members, rates \in PolicyRates :
       createProposal(p, kind, ballot, endTime, minVoters, target, rates)
  \/ \E p \in ProposalIds, m \in Members, option \in Options, n \in Nonces :
       castVote(p, m, option, n)
  \/ \E p \in ProposalIds : finalizeProposal(p)
  \/ \E p \in ProposalIds : executeProposal(p)

Next == CommunityStep \/ LedgerStep \/ GovernanceStep \/ Tick

Spec == Init /\ [][Next]_vars

(***************************************************************************)
(* Types.                                                                  *)
(***************************************************************************)

EpochType ==
  [epochNumber: Nat, baseMintBudget: Nat, advanceDebtFromPrev: Nat,
   effectiveRegularBudget: Nat, maxAdvanceAmount: Nat,
   regularMinted: Nat, advanceMinted: Nat]

PolicyType == [version: Nat, rates: Rates]
PendingType == [version: Nat, rates: Rates, effectiveEpoch: Nat]

MintType ==
  [type: {"mint"}, member: Members, contribution: Contributions, regular: Nat,
   advance: Nat, epochNumber: Nat, related: BOOLEAN,
   proposal: ProposalIds \cup {NoProposal}, approvers: Nat]

ReversalType ==
  [type: {"reversal"}, member: Members, original: Originals, amount: Nat,
   proposal: ProposalIds \cup {NoProposal}, approvers: Nat]

ASSUME RecordSentinelAssumption == NoRecord \notin MintType \cup ReversalType

RegCkptType == [seq: Nat, cumRegularGov: Nat]
GrantType == [seq: Nat, activationEpoch: Nat, cumAdvancePrefix: Nat]

ProposalType ==
  [status: {"ACTIVE", "FINALIZED", "EXECUTED"}, kind: ProposalKinds,
   approved: BOOLEAN, snapshotSeq: Nat, snapshotEpoch: Nat,
   activeGovSupplySnapshot: Nat, endTime: Nat, minVoterCount: Nat,
   voterCount: Nat, winningOptionId: {Approve, NoOption}, totalVoteWeight: Nat,
   target: Members, rates: Rates, ballot: SUBSET Options,
   optionWeight: [Options -> Nat], hasVoted: SUBSET Members]

LedgerTypeOK ==
  /\ currentTotalSupply \in Nat
  /\ balances \in [Members -> Nat]
  /\ issued \in Nat
  /\ epoch \in EpochType
  /\ memberRegularMintedEpoch \in [Members -> Nat]
  /\ granted \in Nat
  /\ contributionConsumed \in SUBSET Contributions
  /\ records \in [RecordHashes -> MintType \cup ReversalType \cup {NoRecord}]
  /\ reversed \in SUBSET Originals

CheckpointTypeOK ==
  /\ govSeq \in Nat
  /\ regCkpt \in [Holders -> Seq(RegCkptType)]
  /\ advGrant \in [Holders -> Seq(GrantType)]

GovernanceTypeOK ==
  /\ exists \in BOOLEAN
  /\ policy \in PolicyType
  /\ pendingPolicy \in PendingType \cup {NoPolicy}
  /\ memberSigner \in [Members -> Signers \cup {NoSigner}]
  /\ isApprover \in SUBSET Signers
  /\ usedNonce \in SUBSET (Signers \X Nonces)
  /\ proposalConsumedForMint \in SUBSET ProposalIds
  /\ proposals \in [ProposalIds -> ProposalType \cup {NoProposalYet}]
  /\ now \in Nat
  /\ paused \in BOOLEAN

\* The type invariant.
TypeOK == LedgerTypeOK /\ CheckpointTypeOK /\ GovernanceTypeOK

(***************************************************************************)
(* Safety properties: the ledger.                                          *)
(***************************************************************************)

RecordsOf(type) == {h \in RecordHashes : RecordExists(h) /\ records[h].type = type}

MintsOfEpoch == {h \in RecordsOf("mint") : records[h].epochNumber = epoch.epochNumber}

Total(S, amount(_)) == SumFunction([h \in S |-> amount(h)])

RegularLeg(h) == records[h].regular
AdvanceLeg(h) == records[h].advance
BothLegs(h) == records[h].regular + records[h].advance
ReversedAmount(h) == records[h].amount

OfMember(S, m) == {h \in S : records[h].member = m}

\* The ledger is what its event log replays to, as "DB rebuildable from getLogs"
\* needs: every balance is the member's mints less the member's reversals, the
\* supply is the genesis supply and the balances, and the open epoch's running
\* totals are the mints recorded in it.
LedgerReplay ==
  /\ \A m \in Members :
       balances[m] = Total(OfMember(RecordsOf("mint"), m), BothLegs)
                       - Total(OfMember(RecordsOf("reversal"), m), ReversedAmount)
  /\ exists => currentTotalSupply = GenesisSupply + SumFunction(balances)
  /\ epoch.regularMinted = Total(MintsOfEpoch, RegularLeg)
  /\ epoch.advanceMinted = Total(MintsOfEpoch, AdvanceLeg)

\* Debt is never forgiven: whatever mints, advances, reversals and rolls happen,
\* the tokens ever minted are covered by the base budgets of the epochs opened so
\* far and the debt the open epoch hands on (executeMint and rollEpoch together).
IssuanceCovered == issued <= granted + epoch.baseMintBudget + NextDebt

\* What keeps the previous bound across a roll: before the open epoch's own
\* mints the bound held with the debt it inherited, and it mints no regular
\* token beyond what the debt leaves of its budget.
IssuanceInductive ==
  /\ issued <= granted + epoch.advanceDebtFromPrev
                 + epoch.regularMinted + epoch.advanceMinted
  /\ epoch.regularMinted <= epoch.effectiveRegularBudget
  /\ epoch.effectiveRegularBudget
       = FloorMinus(epoch.baseMintBudget, epoch.advanceDebtFromPrev)
  /\ ~exists => issued = 0

\* A member's regular mints of the epoch stay within the member cap, however they
\* are split into mints, save those an approved special_mint proposal authorized.
MemberCapHeld ==
  \A m \in Members :
    Total({h \in OfMember(MintsOfEpoch, m) :
             records[h].proposal = NoProposal
               \/ proposals[records[h].proposal].kind # "special_mint"}, RegularLeg)
      <= MemberEpochCap

\* Splitting an advance does not lower its tier: the advances of an epoch that no
\* proposal authorized stay below 1 bp over the dual limit, all of them below 1 bp
\* over the hard limit (both gates floor), and an epoch that owes debt advances
\* nothing.
AdvanceGates ==
  LET unvoted == {h \in MintsOfEpoch : records[h].proposal = NoProposal}
      Within(amount, limit) ==
        amount > 0 => amount * BPS < (limit + 1) * epoch.baseMintBudget
  IN  /\ Within(Total(unvoted, AdvanceLeg), ADVANCE_DUAL_BPS)
      /\ Within(epoch.advanceMinted, MAX_ADVANCE_LIMIT_BPS)
      /\ epoch.advanceDebtFromPrev > 0 => epoch.advanceMinted = 0

\* One approved proposal authorizes at most one mint or reversal.
ProposalUsedOnce ==
  \A p \in ProposalIds :
    Cardinality({h \in RecordHashes : RecordExists(h) /\ records[h].proposal = p}) <= 1

\* What makes the four ledger invariants inductive: no record is of a later epoch,
\* a member's running total is the member's regular mints of the open epoch, and a
\* record's proposal was opened and is consumed.
LedgerInductive ==
  /\ IsFiniteSet({h \in RecordHashes : RecordExists(h)})
  /\ ~exists => \A h \in RecordHashes : ~RecordExists(h)
  /\ \A h \in RecordsOf("mint") : records[h].epochNumber <= epoch.epochNumber
  /\ \A m \in Members :
       memberRegularMintedEpoch[m] = Total(OfMember(MintsOfEpoch, m), RegularLeg)
  /\ \A h \in RecordHashes : RecordExists(h) /\ records[h].proposal # NoProposal =>
       /\ records[h].proposal \in proposalConsumedForMint
       /\ proposals[records[h].proposal].status # "NONE"

(***************************************************************************)
(* Safety properties: governance weight, votes, policy.                    *)
(***************************************************************************)

\* A weight once every grant has matured.
MaturedWeight(holder) == governanceBalanceAt(holder, govSeq, epoch.epochNumber + 1)

\* Both binary searches read sorted arrays: sequence numbers strictly increase,
\* never pass govSeq, and activation epochs never decrease.
CheckpointsSorted ==
  \A holder \in Holders :
    LET R == regCkpt[holder]  A == advGrant[holder]
    IN  /\ \A i, j \in DOMAIN R : i < j => R[i].seq < R[j].seq
        /\ \A i, j \in DOMAIN A :
             i < j => A[i].seq < A[j].seq /\ A[i].activationEpoch <= A[j].activationEpoch
        /\ \A i \in DOMAIN R : R[i].seq <= govSeq
        /\ \A i \in DOMAIN A : A[i].seq <= govSeq

\* Reversals never leave a member with less governance than tokens, and without a
\* reversal the two agree: matured weight, as the searches find it, is the balance (PRD 4.3).
WeightCoversBalance ==
  /\ CheckpointsSorted
  /\ \A m \in Members :
       /\ balances[m] <= MaturedWeight(m)
       /\ reversed = {} => balances[m] = MaturedWeight(m)

SnapshotWeight(p, holder) ==
  governanceBalanceAt(holder, proposals[p].snapshotSeq, proposals[p].snapshotEpoch)

Opened(p) == proposals[p].status # "NONE"

\* Tallies are the frozen weights: at any later time, whatever was minted or
\* reversed since, the weights recorded for a proposal are the snapshot weights of
\* the members that voted, each counted once; while nothing is reversed they are at
\* most the snapshot supply; the quorum counts those members.
TallyIsSnapshot ==
  \A p \in ProposalIds : Opened(p) =>
    /\ proposals[p].totalVoteWeight =
         SumFunction([m \in proposals[p].hasVoted |-> SnapshotWeight(p, m)])
    /\ proposals[p].totalVoteWeight = SumFunction(proposals[p].optionWeight)
    /\ proposals[p].voterCount = Cardinality(proposals[p].hasVoted)
    /\ proposals[p].activeGovSupplySnapshot = SnapshotWeight(p, Community)
    /\ reversed = {} => proposals[p].totalVoteWeight <= proposals[p].activeGovSupplySnapshot

\* No step changes the weight with which any holder can vote on an open proposal:
\* a mint, a reversal or a roll after the snapshot buys or loses nothing.
SnapshotFrozen ==
  [][\A p \in ProposalIds : Opened(p) =>
       \A holder \in Holders : SnapshotWeight(p, holder)' = SnapshotWeight(p, holder)]_vars

\* A settled proposal keeps its tally and its verdict, and the verdict is the
\* one its tally gives; an executed one stays executed.
SettledIsFinal ==
  [][\A p \in ProposalIds : proposals[p].status \in {"FINALIZED", "EXECUTED"} =>
       /\ proposals[p].approved = (QuorumMet(p) /\ ApproveLeads(p))
       /\ proposals'[p] = proposals[p]
          \/ /\ proposals[p].status = "FINALIZED"
             /\ proposals'[p] = [proposals[p] EXCEPT !.status = "EXECUTED"]]_vars

\* An executed policy proposal that named these rates.
PolicyProposal(p, rates) ==
  /\ proposals[p].status = "EXECUTED" /\ proposals[p].approved
  /\ proposals[p].kind = "token_policy_change"
  /\ proposals[p].rates = rates

\* The active policy changes only when an epoch opens, by exactly one version, to
\* rates an approved policy proposal named.
PolicyByProposal ==
  [][policy' # policy /\ exists =>
       /\ epoch'.epochNumber = epoch.epochNumber + 1
       /\ policy'.version = policy.version + 1
       /\ \E p \in ProposalIds : PolicyProposal(p, policy'.rates)]_vars

\* What makes the three action properties above inductive: no snapshot is ahead
\* of the sequence number, a settled verdict is the one its tally gives, and a
\* pending policy is the next version and was named by an executed proposal.
GovernanceInductive ==
  /\ ~exists => /\ pendingPolicy = NoPolicy
               /\ \A p \in ProposalIds : ~Opened(p)
  /\ \A p \in ProposalIds : Opened(p) => proposals[p].snapshotSeq <= govSeq
  /\ \A p \in ProposalIds : proposals[p].status \in {"FINALIZED", "EXECUTED"} =>
       proposals[p].approved = (QuorumMet(p) /\ ApproveLeads(p))
  /\ pendingPolicy # NoPolicy =>
       /\ pendingPolicy.version = policy.version + 1
       /\ \E p \in ProposalIds : PolicyProposal(p, pendingPolicy.rates)
=============================================================================
