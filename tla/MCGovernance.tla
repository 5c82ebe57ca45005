---------------------------- MODULE MCGovernance ----------------------------
(* The contract in four communities, each with its own use: one whose ledger *)
(* runs over several epochs without proposals, one whose members vote among   *)
(* mints and rolls, one that owes more than its next budgets can repay, and   *)
(* one with a single member and every operation.                              *)
EXTENDS YouFenGovernance, TLC

CONSTANTS
  FirstMember, SecondMember, FirstApprover, SecondApprover, FirstProposal, SecondProposal,
  MemberKey,     \* the key members bind; only a rotation gives them another
  ForeignRecord  \* a mint of FirstMember's in another community

VARIABLE use     \* which of the four communities this is

MCRates == [inflation |-> 1000, maxAdvance |-> 2500, memberCap |-> 6000]
NoInflation == [MCRates EXCEPT !.inflation = 0]
LowInflation == [MCRates EXCEPT !.inflation = 50]
MCPolicyRates == {NoInflation, LowInflation}
MCBallots == {Options}
MCMintedElsewhere == {<<ForeignRecord, FirstMember>>}

\* The two approvers are alike, so the second is appointed last.
Appoint(s) ==
  /\ s = SecondApprover => FirstApprover \in isApprover
  /\ setApprover(s, TRUE)

\* A base budget of 20: two members at their cap of 12 would exceed it, and an advance of 2
\* is at the dual limit of 10%.
LedgerNext ==
  \/ \E s \in {FirstApprover, SecondApprover} : Appoint(s)
  \/ \E m \in Members, c \in Contributions, h \in RecordHashes,
        regular \in {0, 12}, advance \in {0, 2, 6}, related \in BOOLEAN :
       executeMint(m, c, h, regular, advance, related, ZeroProposal)
  \/ \E m \in Members, original \in Originals, h \in RecordHashes, amount \in {2, 12} :
       executeReversal(m, original, h, amount, ZeroProposal)
  \/ rollEpoch

\* Two members and two of the contributions, one vote, one roll after both have keys.
VotingNext ==
  \/ \E s \in {FirstApprover, SecondApprover} : Appoint(s)
  \/ \E m \in Members, n \in Nonces :
       /\ m = FirstMember \/ memberSigner[FirstMember] # NoSigner
       /\ enrollMember(m, MemberKey, Owner, n)
  \/ \E m \in Members, c \in Contributions, h \in RecordHashes,
        regular, advance \in {0, 1}, p \in {FirstProposal, ZeroProposal} :
       /\ Cardinality(contributionConsumed) < 2
       /\ executeMint(m, c, h, regular, advance, FALSE, p)
  \/ epoch.epochNumber = 1 /\ memberSigner[SecondMember] # NoSigner /\ rollEpoch
  \/ createProposal(FirstProposal, "community_decision", Options, 1, 1, FirstMember, NoInflation)
  \/ \E m \in Members, option \in Options, n \in Nonces : castVote(FirstProposal, m, option, n)
  \/ finalizeProposal(FirstProposal) \/ executeProposal(FirstProposal)
  \/ Tick

\* A budget of 20 that is minted in full with an advance of 2 on top, and one or two policies
\* in an epoch, to inflate to a budget of 1 or no more: a debt of 2 that outlasts two rolls.
\* Both approvers sign each mint, the first member has its key and weight before the
\* proposals, and the second one is opened and voted on after the first.
DebtMint(m, regular, advance) ==
  \E c \in Contributions, h \in RecordHashes :
    /\ executeMint(m, c, h, regular, advance, FALSE, ZeroProposal)
    /\ records'[h].approvers = 2

DebtProposal(p, rates) ==
  /\ balances[FirstMember] > 0
  /\ createProposal(p, "token_policy_change", Options, 1, 1, FirstMember, rates)

DebtNext ==
  \/ \E s \in {FirstApprover, SecondApprover} : Appoint(s)
  \/ /\ SecondApprover \in isApprover
     /\ \E n \in Nonces : enrollMember(FirstMember, MemberKey, Owner, n)
  \/ /\ memberSigner[FirstMember] # NoSigner
     /\ \/ DebtMint(FirstMember, 12, 0)
        \/ DebtMint(SecondMember, 8, 2)
        \/ DebtMint(SecondMember, 1, 0)
        \/ rollEpoch
  \/ DebtProposal(FirstProposal, LowInflation)
  \/ Opened(FirstProposal) /\ DebtProposal(SecondProposal, NoInflation)
  \/ \E p \in {FirstProposal, SecondProposal} :
       \/ \E n \in Nonces :
            /\ castVote(p, FirstMember, Approve, n)
            /\ p = SecondProposal => proposals[FirstProposal].hasVoted # {}
       \/ finalizeProposal(p)
       \/ executeProposal(p)
  \/ Opened(FirstProposal) /\ Tick

\* One member, one key that may become an approver.
FullNext ==
  \/ \E b \in BOOLEAN : setApprover(FirstApprover, b)
  \/ \E auth \in {FirstApprover, Owner}, n \in Nonces :
       enrollMember(FirstMember, MemberKey, auth, n)
  \/ \E s \in {FirstApprover, MemberKey} : rotateKey(FirstMember, s)
  \/ pause
  \/ unpause
  \/ \E c \in Contributions, h \in RecordHashes,
        regular \in {0, 8}, advance \in {0, 4}, related \in BOOLEAN, p \in {FirstProposal, ZeroProposal} :
       executeMint(FirstMember, c, h, regular, advance, related, p)
  \/ \E original \in Originals, h \in RecordHashes, amount \in {4, 8}, p \in {FirstProposal, ZeroProposal} :
       executeReversal(FirstMember, original, h, amount, p)
  \/ rollEpoch
  \/ \E p \in {FirstProposal, ZeroProposal}, kind \in Kinds :
       /\ \A q \in ProposalIds : ~Opened(q)
       /\ p = ZeroProposal => kind = "budget_advance"
       /\ createProposal(p, kind, Options, 1, 1, FirstMember, NoInflation)
  \/ \E p \in {FirstProposal, ZeroProposal} :
       \/ \E option \in Options, n \in Nonces : castVote(p, FirstMember, option, n)
       \/ finalizeProposal(p)
       \/ executeProposal(p)
  \/ Tick

UsesNext ==
  /\ \/ createCommunity
     \/ use = "ledger" /\ LedgerNext
     \/ use = "voting" /\ VotingNext
     \/ use = "debt" /\ DebtNext
     \/ use = "full" /\ FullNext
  /\ UNCHANGED use

UsesInit == Init /\ use \in {"ledger", "voting", "debt", "full"}

UsesSpec == UsesInit /\ [][UsesNext]_<<vars, use>>

Interchangeable ==
  Permutations(Contributions) \cup Permutations(RecordHashes) \cup Permutations(Nonces)
=============================================================================
