---------------------------- MODULE ConsoleVotes ----------------------------
(* The same ballot with a second way in: the web console's own route stores a *)
(* Vote row itself, while balances go on changing.                            *)
EXTENDS BallotTally

CONSTANT MaxBalance   \* bound on the mints of a member

VARIABLES
  balance,   \* MemberTokenBalance.activeGovernanceBalance by member
  ballot     \* the row a request of the console is about to insert

consoleVars == <<vars, balance, ballot>>

Members == UNION {DOMAIN b : b \in Balances}

FrozenWeight(m) == IF m \in DOMAIN snapshot THEN snapshot[m] ELSE 0

activateAndMint ==
  /\ activate
  /\ balance' = [m \in Members |-> FrozenWeight(m)']
  /\ UNCHANGED ballot

mint ==
  /\ status = "active"
  /\ \E m \in Members :
       /\ balance[m] < MaxBalance
       /\ balance' = [balance EXCEPT ![m] = @ + 1]
  /\ UNCHANGED <<vars, ballot>>

\* POST reads the proposal, the member's votes and its balance, without a lock.
readBallot ==
  /\ status = "active"
  /\ ballot = None
  /\ \E m \in Members, option \in ToSet(options) :
       /\ \A v \in votes : v.member # m
       /\ ballot' = [member |-> m, option |-> option, weight |-> balance[m]]
  /\ UNCHANGED <<vars, balance>>

\* The row stays although the guard refuses the update of the snapshot sent beside it.
insertBallot ==
  /\ ballot # None
  /\ votes' = IF \E v \in votes : v.member = ballot.member THEN votes ELSE votes \cup {ballot}
  /\ ballot' = None
  /\ UNCHANGED <<status, options, snapshot, weightsRoot, read, result, balance>>

ConsoleInit == Init /\ balance = [m \in Members |-> 0] /\ ballot = None

ConsoleNext ==
  \/ (create \/ castVote \/ end) /\ UNCHANGED <<balance, ballot>>
  \/ activateAndMint
  \/ mint
  \/ readBallot
  \/ insertBallot

ConsoleSpec == ConsoleInit /\ [][ConsoleNext]_consoleVars

\* "Vote weight is read ONLY from the frozen per-proposal snapshot row - never a live
\* balance" (proposal-service.ts:4-5): the weight that is counted is the voters' frozen weight.
CountedAtFrozenWeight ==
  status = "recorded" =>
    result.weight = FoldLeft(LAMBDA sum, v : sum + FrozenWeight(v.member), 0, read)
=============================================================================
