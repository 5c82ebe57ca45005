---------------------------- MODULE BallotTally ----------------------------
(* One proposal from its options to its published result: the weights frozen  *)
(* by activate() and the ballots counted by end() are each committed to by a  *)
(* Merkle root.  A hash is a term, equal only to the hash of equal contents.  *)
EXTENDS Integers, SequencesExt, FiniteSetsExt

CONSTANTS
  OptionLists,    \* options a proposal may be created with
  Balances,       \* governance balances by member, a number, when it is activated
  MinimumVoters,
  MaxBallots,     \* bound on the ballots of the proposal
  None

VARIABLES
  status,         \* Proposal.status
  options,        \* Proposal.options
  snapshot,       \* ProposalMemberSnapshot rows: weight by member
  weightsRoot,    \* Proposal.weightsMerkleRoot
  votes,          \* Vote rows
  read,           \* the Vote rows as end() read them
  result          \* winningOptionId, totalVoteWeight, votesMerkleRoot and whether settle() ran

vars == <<status, options, snapshot, weightsRoot, votes, read, result>>

-----------------------------------------------------------------------------
(* lib/blockchain/hashing/merkle *)

ZeroRoot == <<"zero">>
hashSnapshotLeaf(m, weight) == <<"snapshot", m, weight>>
hashVoteLeaf(m, option, weight) == <<"vote", m, option, weight>>

\* The smaller hash comes first: a pair has no order.
hashPair(a, b) == <<"pair", {a, b}>>

\* Mutant: the odd last node is paired with itself.
LevelOfPairs(level) ==
  [i \in 1 .. (Len(level) + 1) \div 2 |->
     hashPair(level[2 * i - 1], IF 2 * i <= Len(level) THEN level[2 * i] ELSE level[2 * i - 1])]

nextLevel(level) ==
  [i \in 1 .. (Len(level) + 1) \div 2 |->
     IF 2 * i <= Len(level) THEN hashPair(level[2 * i - 1], level[2 * i]) ELSE level[2 * i - 1]]

RECURSIVE buildMerkleRoot(_)
buildMerkleRoot(level) ==
  CASE level = << >> -> ZeroRoot
    [] Len(level) = 1 -> level[1]
    [] OTHER -> buildMerkleRoot(nextLevel(level))

\* Positions count from 1.
RECURSIVE buildMerkleProof(_, _)
buildMerkleProof(level, i) ==
  LET sibling == IF i % 2 = 1 THEN i + 1 ELSE i - 1 IN
  IF Len(level) <= 1 THEN << >>
  ELSE (IF sibling <= Len(level) THEN <<level[sibling]>> ELSE << >>)
         \o buildMerkleProof(nextLevel(level), (i + 1) \div 2)

verifyMerkleProof(leaf, proof, root) == FoldLeft(hashPair, leaf, proof) = root

-----------------------------------------------------------------------------
(* The count *)

WeightFor(rows, option) ==
  FoldLeft(LAMBDA sum, v : IF v.option = option THEN sum + v.weight ELSE sum, 0, rows)

\* The options voted for, in the order of their first ballots.
VotedOptions(rows) ==
  FoldLeft(LAMBDA seen, v : IF Contains(seen, v.option) THEN seen ELSE Append(seen, v.option), << >>, rows)

\* The leader of a scan of the options, None after a tie.
tallyVotes(rows) ==
  LET Scan(best, option) ==
        LET weight == WeightFor(rows, option) IN
        CASE weight > best.max -> [winner |-> option, max |-> weight, tie |-> FALSE]
          [] weight = best.max -> [best EXCEPT !.tie = TRUE]
          [] OTHER -> best
      best == FoldLeft(Scan, [winner |-> None, max |-> -1, tie |-> FALSE], VotedOptions(rows))
  IN IF best.tie THEN None ELSE best.winner

\* The option recorded when no option leads.
Fallback == IF Contains(options, "reject") THEN "reject" ELSE Last(options)

resolveOutcome(rows) == IF tallyVotes(rows) # None THEN tallyVotes(rows) ELSE Fallback

-----------------------------------------------------------------------------
(* lib/engine/proposal-service *)

SnapshotLeaves(weights) ==
  LET members == SetToSortSeq(DOMAIN weights, <) IN
  [i \in DOMAIN members |-> hashSnapshotLeaf(members[i], weights[members[i]])]

VoteLeaves(rows) == [i \in DOMAIN rows |-> hashVoteLeaf(rows[i].member, rows[i].option, rows[i].weight)]

create ==
  /\ status = None
  /\ status' = "draft"
  /\ options' \in OptionLists
  /\ UNCHANGED <<snapshot, weightsRoot, votes, read, result>>

activate ==
  /\ status = "draft"
  /\ status' = "active"
  /\ snapshot' \in Balances
  /\ weightsRoot' = buildMerkleRoot(SnapshotLeaves(snapshot'))
  /\ UNCHANGED <<options, votes, read, result>>

\* A second ballot of a member is answered with the first.
castVote ==
  \E m \in DOMAIN snapshot, option \in ToSet(options) :
    /\ status = "active"
    /\ \A v \in votes : v.member # m
    /\ Cardinality(votes) < MaxBallots
    /\ votes' = votes \cup {[member |-> m, option |-> option, weight |-> snapshot[m]]}
    /\ UNCHANGED <<status, options, snapshot, weightsRoot, read, result>>

\* The query for the votes names no order.
end ==
  /\ status = "active"
  /\ status' = "recorded"
  /\ read' \in SetToSeqs(votes)
  /\ LET winner == resolveOutcome(read') IN
     result' = [winner |-> winner,
                weight |-> FoldLeft(LAMBDA sum, v : sum + v.weight, 0, read'),
                root |-> buildMerkleRoot(VoteLeaves(read')),
                settled |-> winner = "approve" /\ Len(read') >= MinimumVoters]
  /\ UNCHANGED <<options, snapshot, weightsRoot, votes>>

Init ==
  /\ status = None
  /\ options = << >>
  /\ snapshot = << >>
  /\ weightsRoot = ZeroRoot
  /\ votes = {}
  /\ read = << >>
  /\ result = None

Next == create \/ activate \/ castVote \/ end

Spec == Init /\ [][Next]_vars

-----------------------------------------------------------------------------
(* Properties *)

\* The hashes of a tree and the number of its levels above the leaves.
RECURSIVE Nodes(_)
Nodes(level) == ToSet(level) \cup IF Len(level) <= 1 THEN {} ELSE Nodes(nextLevel(level))

RECURSIVE Height(_)
Height(level) == IF Len(level) <= 1 THEN 0 ELSE 1 + Height(nextLevel(level))

\* Some proof made of the tree's hashes is accepted; no other hash occurs in its root.
Provable(leaf, leaves, root) ==
  \E proof \in BoundedSeq(Nodes(leaves), Height(leaves)) : verifyMerkleProof(leaf, proof, root)

\* The proofs that are built are accepted, and no other leaf has one.
Commits(root, leaves, others) ==
  /\ \A i \in DOMAIN leaves : verifyMerkleProof(leaves[i], buildMerkleProof(leaves, i), root)
  /\ \A leaf \in others \ ToSet(leaves) : ~Provable(leaf, leaves, root)

People == UNION {DOMAIN b : b \in Balances}
Weights == UNION {Range(b) : b \in Balances}
PossibleWeights == {hashSnapshotLeaf(m, w) : m \in People, w \in Weights}
PossibleBallots == {hashVoteLeaf(m, o, w) : m \in People, o \in ToSet(options), w \in Weights}

VotesFor(option) == {v \in votes : v.option = option}
Leads(option) ==
  /\ VotesFor(option) # {}
  /\ \A v \in votes \ VotesFor(option) :
       MapThenSumSet(LAMBDA u : u.weight, VotesFor(option))
         > MapThenSumSet(LAMBDA u : u.weight, VotesFor(v.option))
NoDecision == \A option \in ToSet(options) : ~Leads(option)

\* Any member can check the published roots: exactly the frozen weights have a proof
\* against the one, exactly the ballots cast, at those weights, against the other; and
\* the outcome is the option that leads, in whatever order the ballots were read.
ResultVerifiable ==
  /\ status = "active" /\ votes = {} =>
       Commits(weightsRoot, SnapshotLeaves(snapshot), PossibleWeights)
  /\ status = "recorded" =>
       /\ Commits(result.root, VoteLeaves(read), PossibleBallots)
       /\ ToSet(VoteLeaves(read)) = {hashVoteLeaf(v.member, v.option, snapshot[v.member]) : v \in votes}
       /\ \A option \in ToSet(options) : Leads(option) => result.winner = option
       /\ NoDecision => result.winner = Fallback

\* A tie or an empty ballot has no effect: it falls to 'reject' or the last option,
\* "never 'approve', so a non-decision can never settle" (proposal-service.ts:193-194).
NonDecisionNeverSettles == status = "recorded" /\ NoDecision => ~result.settled
=============================================================================
