--------------------------- MODULE EngineDatabase ---------------------------
(* The rows of one community the ledger engine works on, and the interactive  *)
(* database transactions it works with.  A transaction is a list of           *)
(* statements, each reading a snapshot of the committed rows (READ COMMITTED) *)
(* and locking the rows it selects FOR UPDATE one at a time; its writes show  *)
(* when it commits, and all its locks are kept until then.                    *)
EXTENDS Integers, Sequences, FiniteSets, FiniteSetsExt

CONSTANTS
  Txns,             \* transactions that may be open at a time
  Members,
  RelatedParties,   \* the members whose role is owner or manager
  Contributions,    \* approved contributions
  ContributionOf,   \* their member and approved amount
  MintCalls,        \* the contribution, advance request and proposal a mint may name
  Requests,         \* ids of advance requests
  Asks,             \* what an advance request may ask for
  Proposals,        \* ids of proposals
  Purposes,         \* what a proposal may be about
  Allocation,       \* the initial allocation: members, amounts and their running sum
  GenesisRates,     \* the first policy
  MinVoters,        \* minimumVoterCount of every proposal
  Kinds,            \* bound: the kinds of transaction that are started
  Reversals,        \* the proposal a reversal may name, whether its reason is a community
                    \* proposal, and an amount, or 0 for the whole mint
  MaxEpoch,         \* bound on the epochs opened
  MaxLedger,        \* bound on the ledger's length
  None, Free

ASSUME AllocationAssumption ==
  /\ Allocation \in Seq([member : Members, amount : Nat \ {0}, upTo : Nat])
  /\ Allocation # << >>
  /\ \A k \in DOMAIN Allocation :
       /\ Allocation[k].upTo = Allocation[k].amount + (IF k = 1 THEN 0 ELSE Allocation[k - 1].upTo)
       /\ \A j \in DOMAIN Allocation : j # k => Allocation[j].member # Allocation[k].member

ASSUME ContributionAssumption ==
  ContributionOf \in [Contributions -> [member : Members, amount : Nat \ {0}]]

ASSUME NotATransaction == Free \notin Txns

RatesOf == [inflation : Nat, maxAdvance : Nat, memberCap : Nat]

ASSUME BoundsAssumption == MinVoters \in Nat /\ MaxEpoch \in Nat /\ MaxLedger \in Nat

ASSUME MembersAssumption == IsFiniteSet(Members) /\ RelatedParties \subseteq Members

ASSUME ProposalsAssumption == IsFiniteSet(Proposals)

ASSUME InputsAssumption ==
  /\ MintCalls \subseteq [contribution : Contributions, request : Requests \cup {None},
                         proposal : Proposals \cup {None}]
  /\ Asks \subseteq [member : Members, amount : Nat, special : BOOLEAN, covers : SUBSET Contributions]
  /\ Reversals \subseteq [proposal : Proposals \cup {None}, voted : BOOLEAN, amount : Nat]
  /\ GenesisRates \in RatesOf
  /\ \A a \in Purposes :
       /\ a = [type |-> a.type, target |-> a.target]
       /\ a.type = "token_policy_change" => a.target \in RatesOf
       /\ a.type = "budget_advance" => a.target \in Requests

\* The sentinel is none of the values it stands beside.
ASSUME NoneAssumption ==
  /\ None \notin {"mint", "execute", "reverse", "close", "activate", "genesis", "createNext",
                  "createRequest", "secondApprove", "reject", "attach", "castVote", "end"}
  /\ None \notin {"pending_second_approval", "pending_proposal", "approved", "rejected", "executed"}
  /\ None \notin {"draft", "active", "recorded", "approve", "reject"}
  /\ None \notin Members /\ None \notin Contributions
  /\ None \notin Requests /\ None \notin Proposals
  /\ None \notin [version : Nat, rates : RatesOf, epoch : Nat]

VARIABLES
  epochs,     \* TokenEpoch rows by number
  supply,     \* CommunityTokenState.currentTotalSupply
  ledger,     \* TokenMintEvent and TokenReversalEvent rows by ledgerSeq
  balance,    \* MemberTokenBalance rows
  request,    \* TokenAdvanceRequest rows
  policy,     \* the CommunityTokenPolicy row
  versions,   \* numbers of the TokenPolicyVersion rows
  proposal,   \* Proposal rows with their snapshots and votes
  holder,     \* which transaction has locked a row
  txn         \* the open transactions

tables == <<epochs, supply, ledger, balance, request, policy, versions, proposal>>
vars == <<tables, holder, txn>>

-----------------------------------------------------------------------------
(* Token arithmetic *)

BpsOf(amount, bps) == (amount * bps) \div 10000
\* Mutant: the subtraction is not clamped at zero.
UnclampedMonus(a, b) == a - b
Monus(a, b) == IF a > b THEN a - b ELSE 0

\* Stands for Number.MAX_SAFE_INTEGER: beyond every rate.
Unbounded == 1000000

CumulativeBps(advanced, amount, base) ==
  IF base > 0 THEN ((advanced + amount) * 10000) \div base
  ELSE IF amount > 0 THEN Unbounded ELSE 0

ApprovalPath(bps, related, special) ==
  CASE bps > 2500 -> "system_forbidden"
    [] bps <= 2500 /\ (related \/ special \/ bps > 1000) -> "community_proposal"
    [] bps \in 1 .. 1000 /\ ~related /\ ~special -> "dual_admin"
    [] OTHER -> "standard_rule"

-----------------------------------------------------------------------------
(* Rows and their locks *)

Budget(e) == Monus(e.base, e.debt)
Remaining(e) == Budget(e) - e.regular

NewEpoch(opening, debt, rates) ==
  LET base == BpsOf(opening, rates.inflation) IN
  [status |-> "active", opening |-> opening, base |-> base, debt |-> debt,
   maxAdvance |-> BpsOf(base, rates.maxAdvance), regular |-> 0, advanced |-> 0]

ActiveEpochs == {n \in DOMAIN epochs : epochs[n].status = "active"}
SomeActiveEpoch == IF ActiveEpochs = {} THEN 0 ELSE CHOOSE n \in ActiveEpochs : TRUE
\* Mutant: the switch matures the new epoch's own mints.
MaturingEarly(n) == {i \in DOMAIN ledger : ledger[i].pending /\ ledger[i].epoch = n}
MaturingAt(n) == {i \in DOMAIN ledger : ledger[i].pending /\ ledger[i].epoch + 1 = n}
HasBalance(m) == \E i \in DOMAIN ledger : ledger[i].member = m
Reversed(i) == \E j \in DOMAIN ledger : ledger[j].of = i
MintedFor(c) == \E i \in DOMAIN ledger : ledger[i].contribution = c
MintedOn(r) == \E i \in DOMAIN ledger : ledger[i].request = r

NoBalance == [total |-> 0, active |-> 0, pending |-> 0, earned |-> 0]
NoRequest == [status |-> None, member |-> None, asked |-> 0, approved |-> 0, epoch |-> 0,
              second |-> FALSE, proposal |-> None, covers |-> {}]
NoProposal == [status |-> None, about |-> None, over |-> FALSE, epoch |-> 0, supply |-> 0,
               weight |-> [m \in Members |-> 0], eligible |-> {},
               vote |-> [m \in Members |-> None], winner |-> None, voters |-> 0]

Passed(p) ==
  /\ proposal[p].status = "recorded"
  /\ proposal[p].winner = "approve"
  /\ proposal[p].voters >= MinVoters

StateLock == <<"state", 0>>
EpochLock(n) == <<"epoch", n>>
BalanceLock(m) == <<"balance", m>>
MintLock(i) == <<"mint", i>>
ProposalLock(p) == <<"proposal", p>>

Rows ==
  {StateLock} \cup {EpochLock(n) : n \in 1 .. MaxEpoch} \cup {BalanceLock(m) : m \in Members}
    \cup {MintLock(i) : i \in 1 .. MaxLedger} \cup {ProposalLock(p) : p \in Proposals}

-----------------------------------------------------------------------------
(* Transactions *)

Unseen == [used |-> FALSE, epoch |-> 0, supply |-> 0, balance |-> NoBalance, mint |-> None,
           request |-> NoRequest, policy |-> None, status |-> None]
NoInput == [id |-> None, request |-> None, proposal |-> None, member |-> None, choice |-> None]
Idle == [kind |-> None, in |-> NoInput, todo |-> << >>, rows |-> {}, seen |-> Unseen]

\* The statements of an operation up to its writes, in the order of the code.
MintPlan == <<"priorMint", "activeEpoch", "state", "balance", "request">>

\* Mutant: the balance is locked before the state.
BalanceFirstPlan == <<"request", "requestEpoch", "balance", "state">>
ExecutePlan == <<"request", "requestEpoch", "state", "balance">>

\* Mutant: the supply is computed from an unlocked read.
UnlockedSupplyPlan == <<"mint", "closing", "balance">>
ReversePlan == <<"mint", "state", "balance">>

\* Mutant: the supply is read before the epoch is locked.
EarlySupplyPlan == <<"closing", "epoch", "pendingBalances", "pendingMints", "balances">>
ClosePlan == <<"epoch", "closing", "pendingBalances", "pendingMints", "balances">>

\* Mutant: a snapshot without the locks of epoch and state.
UnlockedSnapshotPlan == <<"proposal", "lastEpoch">>
ActivatePlan == <<"proposal", "activeEpoch", "state">>

PlanOf(kind) ==
  CASE kind = "mint" -> MintPlan
    [] kind = "execute" -> ExecutePlan
    [] kind = "reverse" -> ReversePlan
    [] kind = "close" -> ClosePlan
    [] kind = "activate" -> ActivatePlan
    [] kind = "genesis" -> <<"seeded", "state", "allocated">>
    [] kind = "createNext" -> <<"openEpoch", "lastEpoch">>
    [] kind = "createRequest" -> <<"activeEpoch">>
    [] kind \in {"secondApprove", "reject", "attach"} -> <<"request">>
    [] kind = "castVote" -> <<"proposal">>
    [] kind = "end" -> <<"proposal", "policy", "openEpoch">>

\* The operators below take a transaction x, which is about to be or is txn[t].
MemberOf(x) ==
  CASE x.kind = "mint" -> ContributionOf[x.in.id].member
    [] x.kind = "execute" -> x.seen.request.member
    [] x.kind = "reverse" -> ledger[x.in.id].member

\* The rows a statement selects FOR UPDATE or updates; none for a plain read.
RowsOf(x, statement) ==
  CASE statement = "activeEpoch" -> {EpochLock(n) : n \in ActiveEpochs}
    [] statement = "requestEpoch" -> {EpochLock(x.seen.request.epoch)}
    [] statement = "epoch" -> {EpochLock(x.in.id)}
    [] statement = "state" -> {StateLock}
    [] statement = "balance" -> {BalanceLock(MemberOf(x))}
    [] statement = "balances" -> {BalanceLock(m) : m \in Members}
    [] statement = "allocated" -> {BalanceLock(Allocation[k].member) : k \in DOMAIN Allocation}
    [] statement = "pendingBalances" ->
         {BalanceLock(m) : m \in {k \in Members : balance[k].pending > 0}}
    [] statement = "mint" -> {MintLock(x.in.id)}
    [] statement = "pendingMints" -> {MintLock(i) : i \in MaturingAt(x.in.id + 1)}
    [] statement = "proposal" -> {ProposalLock(x.in.id)}
    [] OTHER -> {}

\* What a statement that locks nothing reads.
ReadBy(x, statement) ==
  CASE statement = "priorMint" -> [x.seen EXCEPT !.used = MintedFor(x.in.id)]
    [] statement = "request" /\ x.in.request # None -> [x.seen EXCEPT !.request = request[x.in.request]]
    [] statement = "closing" -> [x.seen EXCEPT !.supply = supply, !.policy = policy]
    [] statement = "lastEpoch" ->
         [x.seen EXCEPT !.epoch = Len(epochs), !.supply = supply, !.policy = policy]
    [] statement = "seeded" -> [x.seen EXCEPT !.used = \E i \in DOMAIN ledger : ledger[i].kind = "genesis"]
    [] statement = "openEpoch" -> [x.seen EXCEPT !.used = ActiveEpochs # {}, !.epoch = SomeActiveEpoch]
    [] statement = "policy" -> [x.seen EXCEPT !.policy = policy]
    [] OTHER -> x.seen

\* What a locked row shows; an epoch no longer active does not match any more.
LockedBy(t, row) ==
  LET seen == txn[t].seen IN
  CASE row[1] = "state" -> [seen EXCEPT !.supply = supply]
    [] row[1] = "epoch" -> [seen EXCEPT !.epoch = IF row[2] \in ActiveEpochs THEN row[2] ELSE @]
    [] row[1] = "balance" /\ txn[t].kind \in {"mint", "execute", "reverse"} ->
         [seen EXCEPT !.balance = balance[row[2]]]
    [] row[1] = "mint" /\ txn[t].kind = "reverse" -> [seen EXCEPT !.mint = ledger[row[2]]]
    [] row[1] = "proposal" -> [seen EXCEPT !.status = proposal[row[2]].status]
    [] OTHER -> seen

\* The checks between the reads: an operation that fails one goes no further.
Continues(t, statement) ==
  LET seen == txn[t].seen  kind == txn[t].kind IN
  CASE statement = "requestEpoch" -> seen.request.status = "approved"
    [] statement \in {"closing", "state"} /\ kind \in {"mint", "execute", "close", "activate"} ->
         seen.epoch # 0
    [] statement = "activeEpoch" /\ kind \in {"mint", "activate"} ->
         ~seen.used /\ (kind = "activate" => seen.status = "draft")
    [] statement \in {"state", "lastEpoch"} -> ~seen.used
    [] statement = "policy" -> seen.status = "active"
    [] OTHER -> TRUE

\* The next statement of a transaction takes its snapshot.
Advanced(t, x) ==
  LET statement == Head(x.todo) IN
  [x EXCEPT !.todo = Tail(@), !.seen = ReadBy(x, statement),
            !.rows = {r \in RowsOf(x, statement) : holder[r] # t}]

Start(t, kind, in) ==
  /\ kind \in Kinds
  /\ txn[t] = Idle
  /\ txn' = [txn EXCEPT ![t] = Advanced(t, [Idle EXCEPT !.kind = kind, !.in = in, !.todo = PlanOf(kind)])]
  /\ UNCHANGED <<tables, holder>>

Statement(t) ==
  /\ txn[t].rows = {}
  /\ txn[t].todo # << >>
  /\ Continues(t, Head(txn[t].todo))
  /\ txn' = [txn EXCEPT ![t] = Advanced(t, @)]
  /\ UNCHANGED <<tables, holder>>

Lock(t, row) ==
  /\ row \in txn[t].rows
  /\ holder[row] = Free
  /\ holder' = [holder EXCEPT ![row] = t]
  /\ txn' = [txn EXCEPT ![t].rows = @ \ {row}, ![t].seen = LockedBy(t, row)]
  /\ UNCHANGED tables

Finish(t) ==
  /\ txn' = [txn EXCEPT ![t] = Idle]
  /\ holder' = [r \in Rows |-> IF holder[r] = t THEN Free ELSE holder[r]]

\* An early return, an error, a timeout, a lost connection or a deadlock's victim.
Rollback(t) ==
  /\ txn[t] # Idle
  /\ Finish(t)
  /\ UNCHANGED tables

Ready(t, kind) == txn[t].kind = kind /\ txn[t].todo = << >> /\ txn[t].rows = {}

Waits(t, u) == \E r \in txn[t].rows : holder[r] = u

DatabaseInit ==
  /\ epochs = << >> /\ supply = 0 /\ ledger = << >>
  /\ balance = [m \in Members |-> NoBalance]
  /\ request = [r \in Requests |-> NoRequest]
  /\ policy = [version |-> 1, rates |-> GenesisRates, pending |-> None]
  /\ versions = {1}
  /\ proposal = [p \in Proposals |-> NoProposal]
  /\ holder = [r \in Rows |-> Free]
  /\ txn = [t \in Txns |-> Idle]
=============================================================================
