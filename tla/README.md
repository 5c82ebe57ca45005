# YouFen in TLA+

YouFen is a community platform: members contribute, contributions are approved
and minted as tokens, tokens carry voting weight, and every mint, reversal,
epoch and vote is published on a chain. This directory specifies the parts of it
whose correctness is hard to see from one function: the token and governance
rules of the governance contract, the off-chain ledger with its transactions and
row locks, the pipeline that notarises the ledger's records, the relay that
collects signatures and sends them to the contract, and the indexer that folds
the contract's events back into the database.

## The system

| component | state | operations | speaks to |
|---|---|---|---|
| `contracts/YouFenGovernance.sol` (v0.7) | community, epoch meters, balances, checkpoints, proposals, policies | create, approvers, enrol, rotate, mint, reverse, propose, vote, finalize, execute, roll, pause | called by the relay; its events are read by the indexer |
| `contracts/YouFenRecords.sol` (v0.6) | notarised record hashes, mirrored balances, `lastLedgerSeq` | `record*` by one recorder | called by the submit worker |
| `lib/engine` (mint, advance, reversal, epoch, proposal, policy) | PostgreSQL rows: epochs, balances, mint and reversal events, advance requests, proposals, policy versions | one interactive transaction per operation, row locks taken in order | creates PublicRecords; enqueues them after commit |
| `lib/blockchain/records`, `queue` | PublicRecord rows, BullMQ jobs, the wallet's nonce counter | submit, confirm and reconcile workers | the engine's records in, YouFenRecords out |
| `lib/blockchain/relay`, `signatures` | SignatureRequest, Signature, ChainAction, ChainTransaction rows | collect signatures, submitReady, confirmPending (overlapping cron ticks) | the governance contract |
| `lib/blockchain/indexer` | ChainEvent rows, projections, cursor | syncOnce | the contract's logs in, projections and action statuses out |
| `lib/blockchain/hashing`, `payloads`, `signing` | none | canonical JSON, Merkle roots, EIP-712 digests | everything above |
| `lib/api`, `app/api` | Contribution and IdempotencyKey rows | validate, authorize, replay or run once, call a service; the web console's routes write rows themselves | services, database |
| web client, auth, chat, AI, rate limit, scripts | sessions, messages, prompts | | |

What is hard here: the contract is sequential, but its rules must hold over long
histories of mints, reversals, rolls and votes in any order (debt carried between
epochs, weights frozen in the past, caps and single-use approvals that a split or
a replay could get round). Off chain the difficulty is concurrency and failure:
database transactions interleave at their row locks, workers crash between a
broadcast and the write that records it, cron ticks overlap, jobs are lost or run
twice, and events reach the projections late. `PROJECT.json` lists each of these
hazards at its line, with the properties that cover it.

What makes each component correct, in short:

- *contract*: the event log replays to the state; issued tokens are covered by
  granted budgets and carried debt; tiers and caps cannot be split round; an
  approval is used once; a vote weighs what its member held at the snapshot; a
  verdict is final; the policy changes only by an approved proposal at a roll.
- *engine*: the rows are an append-only book under concurrent transactions; budgets,
  caps and carried debt hold; an approval is used once; no deadlock but with an epoch
  switch; a snapshot is of one moment, every ballot is in the result, and every
  passed policy gets a version of its own.
- *published results*: exactly the frozen weights and the ballots cast have a proof
  against the published roots, and a ballot that decides nothing has no effect.
- *record pipeline*: a record is notarised at most once, `verified` only if it is
  on chain, and every record ends verified or failed while the workers run.
- *relay and indexer*: a call is queued only fully signed and sent by one tick at a
  time; a status tells what happened on chain and, once final, stays; the projections
  are a replay of the chain, and what was executed is verified in the end.
- *requests*: what a client was told stays true whoever else was at work, and a
  request repeated under its key replays the first answer.

## Modules

`YouFenGovernance` models `contracts/YouFenGovernance.sol` for one community. Every
state-changing external function is one action, because a transaction is atomic
and a reverted one changes nothing. Some mappings are shared by all communities:
nonces (per signer), record hashes and what they mint, reversed mints, and proposal
ids. When another community takes a nonce, a hash or an id, or reverses a mint, the
calls here that name it are refused and nothing else changes, so those steps are left
out. What another community's mint allows here is a reversal that cites it, since
`executeReversal` compares the member and not the community: `MintedElsewhere` is the
set of such mints.

| contract state | model |
|---|---|
| `Community` | `exists`, `currentTotalSupply`, `policy` (version and rates) |
| `pendingPolicy` | `pendingPolicy`, `NoPolicy` when not set |
| the current `Epoch` | the record `epoch`; closed epochs are only summed, in the history variable `granted` |
| `balances`, `memberRegularMintedEpoch`, `memberSigner`, `isApprover`, `usedNonce` | the same names |
| `recordExists`, `mintRecordMember` and the mint and reversal events | `records`; `MintedElsewhere` for other communities' mints |
| `proposalId` 0x0 | `ZeroProposal`: an id like any other for `createProposal`, and "none" in an authorization; `NoProposal` is what a record holds that used none |
| `regCkptM/C`, `advGrantM/C` | `regCkpt`, `advGrant`, one sequence per member and one for the `Community` |
| `proposals`, `optionWeight`, `optionOnBallot`, `hasVoted` | `proposals` |
| `block.timestamp` | `now`, advanced by `Tick` |

Abstractions: a signature is the key that it recovers to, so an authorization is a
choice of fields and of a set of signing keys; the fields `epochNumber` and
`ruleVersion` must equal the current ones and are read from the state; a deadline only
forbids late submission and is left out; `relayVotes` is a sequence of `castVote` that
goes on after a rejected ballot. The binary searches over checkpoints are stated by what
they find, the last entry satisfying a predicate; `CheckpointsSorted`, part of
`WeightCoversBalance`, is what makes the searches find it. Amounts are unbounded
naturals: a 256-bit overflow reverts in Solidity 0.8 and is out of reach of real
supplies. `issued` (every token ever minted) and `granted` are history variables.

`MCGovernance` has four communities, told apart by `use`. One has a ledger and no
proposals, so that several epochs fit; one has members who vote among mints and a
roll; one owes more than its next budgets can repay; one has a single member and
every operation.

`YouFenGovernanceVotes` and `YouFenGovernanceLedger` hold its proofs, `FiniteSums` the
lemmas on sums over finite sets that they rest on. `RecordPipelineProofs`,
`RequestsProofs` and `RelayProofs` hold those of the modules they are named after;
`EngineProofs` has the invariant of the engine's transactions and `EngineSafety` what
follows from it.

The record pipeline is three modules:

- `RecordChain`: the wallet's mempool and nonces, receipts, and
  `contracts/YouFenRecords.sol` for one community. A transaction is the pair of the
  nonce and the record it signs, because the same record at the same nonce has the
  same hash. The node's side (mempool, acceptance, eviction) is external.
- `RecordLifecycle`: the abstract specification. A record has a status, and is
  notarised or not; it is shown verified only when notarised, and superseded only by
  a verified correction.
- `RecordPipeline` extends `RecordChain` with the workers and maps onto
  `RecordLifecycle` by forgetting everything but status and `notarised`.

| code | model |
|---|---|
| `PublicRecord` rows | `row`; `updatedAt` is the age `fresh`, `stale` (past the threshold of its status) or `hard` (past the hard timeout) |
| the chain-submit queue | `submitJobs`: attempts left of each job id; a finished job counts as none, because `createEnqueue` removes it |
| the chain-confirm queue | `confirmJobs`, and `confirmSeen` for the finished jobs it retains, which stop a second `add` |
| the repeatable chain-reconcile job | `scheduled`: it is registered when the host starts and lost with Redis |
| `processSubmitJob` | `worker`: where it stands, the nonce it took, and the step it goes on to after healing the counter |
| the wallet's `localNonce` | `localNonce`, `NoNonce` until seeded |
| `reconcileOnce` | `recon`: the rows as they were read, and the step of the row being handled |

Every row change is one conditional UPDATE, so an action is what runs between two
awaits. Where the answer of a read cannot change any more (a receipt, an existing
record, an overtaken nonce) the read is joined with the update it leads to. Faults
are named (`AllFaults`) and counted (`MaxFaults`): a restart of the host, a failed
RPC, database or queue call, a failed reseed, a broadcast whose answer is lost, a
lost Redis, an evicted transaction, a worker slower than the reconciler's patience,
a source row that no longer rebuilds to its hash. A confirm job may give up at any
time, and the API may or may not ask for a submission: neither counts as a fault.

The engine is three modules and an abstract one:

- `EngineDatabase`: the rows of one community, its row locks and its interactive
  transactions. A transaction is a list of statements (its *plan*, in the order of
  the code). A statement reads the rows committed by then (READ COMMITTED) and locks
  what it selects `FOR UPDATE` row by row; a row it has waited for is read as it is
  when the lock is granted. Writes show at the commit, and locks last until then. A
  transaction may roll back at any point.
- `EngineLedger`: the commit of every transaction that moves tokens: the checks on what it
  has read and locked, then its writes.
- `EngineGovernance`: those of proposals and policy versions, and the next-state
  relation of all of them together. `EngineProperties` states what they promise.
- `LedgerBook`: the abstract specification. A book of entries is only extended; each
  entry states the balance and the supply right after it, and the current figures
  are those of the last entries. `LedgerImplementsBook` maps the ledger rows and the
  balances onto it.

| code | model |
|---|---|
| `TokenEpoch`, `CommunityTokenState`, `MemberTokenBalance`, `TokenAdvanceRequest` | `epochs` (by number), `supply`, `balance`, `request` |
| `TokenMintEvent` and `TokenReversalEvent`, ordered by `ledgerSeq` | `ledger`; `ledgerSeq` is the position |
| `CommunityTokenPolicy`, `TokenPolicyVersion` | `policy` with its pending version, `versions` |
| `Proposal`, `ProposalMemberSnapshot`, `Vote` | `proposal` |
| `SELECT ... FOR UPDATE` in `db-locks.ts`, guarded updates in `sql.ts` | `Lock`, `holder`; `Metered` for the guarded increments |
| the local variables of a service between two awaits | `txn[t].seen`, `txn[t].todo`, `txn[t].in` |
| unique keys (mint legs, epoch number, version number) | guards of the commits: `LegsUnique`, `n = Len(epochs)`, `VersionFree` |
| `resolveAdvanceApproval` and the other functions of `calc.ts` | operators of the same meaning in `EngineDatabase` |

Rule ceilings, audit rows and the PublicRecords created with each
transaction are left out; the last are the input of the record pipeline. A proposal
has the options `approve` and `reject`; any others are the subject of `BallotTally`.

`Requests` is the HTTP API around a contribution. The engine's services appear in it
with the steps that the handlers can tell apart.

| code | model |
|---|---|
| `Contribution`, `TokenMintEvent`, `TokenReversalEvent`, `IdempotencyKey` rows | `contribution`, `mint`, `reversal`, `stored` |
| a request from its first statement to its answer | `request[c]`: operation, key, body, where it stands, what it will answer |
| `withIdempotency` | `find`, the handler, `save`: three steps, nothing locks a key |
| `handleApprove`, `handleReject` | one conditional update; a second read when it changed nothing |
| `mintForContribution` | what is read before the epoch's lock, and the commit, where the unique key finds a mint made meanwhile |
| `reverseMint` | one step, because it locks the mint row first |
| a killed invocation, a failed statement, a lost answer | `lose` |

A mint there stays within the regular budget: `EngineLedger` has the splits. Refusals
for other reasons (rule ceiling, caps, balances) look like `lose`. `answered` is a
history variable.

`BallotTally` is one proposal from its options to its published result: `activate()`
freezes the weights and commits to them with a Merkle root, `end()` reads the votes
in whatever order the database returns them, tallies them and commits to them. The
functions of `hashing/merkle.ts` are operators on lists of hashes, a hash being a
term that equals only the hash of equal contents; a pair is the set of its two
children, because the code sorts them. Terms are tagged with what they hash. The code's
are not: the leaf of a snapshot and a pair both hash 64 bytes, so an inner node could
also be read as the leaf of a member that does not exist. `ConsoleVotes` extends it with live balances and
with the vote route of the web console, which stores a Vote row without the engine.

The relay and the indexer:

- `RelayChain`: the contract as they see it. Calls of one wallet are mined in order,
  succeed if not yet executed, not expired and, for a reversal, after the mint; a
  success leaves an event with absolute figures. Those figures are what
  `YouFenGovernance` computes in detail.
- `Relay`: signatures, the signature request, the ChainAction, and the two ticks
  that submit and confirm it. A worker is one serverless invocation; several overlap.
- `RelayIndexer`: the sync tick that applies events and finishes actions, the
  rebuild script, and the properties.

| code | model |
|---|---|
| `Signature`, `SignatureRequest.status` | `signatures`, `request` |
| `ChainAction` and the newest `ChainTransaction` of it | `action`: status, the signatures in its call data, transaction |
| conditional `updateMany` on a status | `Transition` |
| an invocation of a handler or a tick | `worker[w]`: kind, step, list still to do, what it has read |
| `ChainEvent.processed` rows, `MemberChainBalance`, `CommunityTokenState`, `MemberEpochMintCounter` | `applied`, `balance`, `supply`, `minted` |
| `SyncCheckpoint.lastBlock` | `cursor` |
| killed invocation, failed RPC, lost answer, failed write, rebuild | the faults `kill`, `rpc`, `lost`, `db`, `rebuild`, counted by `MaxFaults` |

A block holds one transaction, so a block number, a nonce and a hash are one number:
the wallet gives each broadcast a nonce of its own. Two ticks that overlap could take
the same one; a transaction that replaces another is not modelled.
An enrolment comes signed and stands for every call that needs no signature request
(rotations, votes, proposals).

`MCGovernance`, `MCRecordPipeline`, `MCEngine`, `MCRequests`, `MCBallotTally`,
`MCConsoleVotes` and `MCRelay` hold the instances and the bounds that are not plain
constants.

## Runs

| run | what is asked | bounds and why they are enough |
|---|---|---|
| `governance` | types, event-log replay, debt conservation, advance tiers, weights and checkpoints, snapshot voting, caps, single use, policy changes | base budget 20. *ledger*: 2 members, 3 records, 3 epochs, regular parts of 0 or the cap of 12, advances of 0, 2 (the dual limit) or 6, so that the budget runs out. *voting*: 2 members, 2 mints, 1 roll, 1 proposal: mints before and after the snapshot, a roll that matures a grant, both ballots, settling at and after the end time. *debt*: the budget of 20 is minted in full with an advance of 2 on top, and one or two policy proposals of that epoch, executed in it, bring the next budget down to 1 or leave it at that: the debt of 2 exceeds it, and 1 is still owed after a second roll, where the bound of `IssuanceCovered` is met exactly. Which of the two policies is in force is decided by their order. *full*: 1 member, 1 proposal of any of five kinds, also one with the id 0x0, 3 contributions, 3 records, 3 epochs, a mint of another community: an approved proposal can be used for a mint and a reversal, split mints meet the cap, an approved policy is activated by a roll |
| `pipeline_records` | types, write order, single notarisation, the mirror, the reversal's reference | one record under any 2 faults (a fault in the recovery from another is reached), 1 attempt per job, 2 attempt epochs; or, without a fault, 2 mints, or a mint and its reversal, whose order is open (`OneOrTwoRecords`). Two records under faults are left to the theorems |
| `pipeline_live` | refinement of the life cycle, liveness, the wallet | 1 record, 2 faults, 2 attempts per job; no failed reseed, eviction or wiped Redis, see below |
| `engine_ledger` | the ledger, its budgets, deadlock, refinement of `LedgerBook` | 2 transactions at a time, 2 members, one of them a related party. It starts from a seeded community (200 allocated, 17 of a budget of 20 spent, an approved advance request, a passed proposal), so that with four more entries (`MaxLedger` 6) and one epoch switch mints fit, split, exceed the budget, share a proposal and a request, and are reversed in part |
| `engine_governance` | snapshots, ballots, approvals, policy versions | 2 transactions, 1 member, 2 epochs, from an empty community. `Bounded` takes one topic at a time: two policy proposals with an epoch switch, one proposal on an advance request, or one decision while mints are reversed |
| `ballot_result` | Merkle proofs and the tally | snapshots of 3, 4 and 5 members (odd nodes on one and on two levels), 4 ballots, 2 and 3 options, weights from 0 to 3, every order of the rows |
| `requests` | what was answered stays true, repeats replay | 2 clients, so that every pair of requests overlaps; 1 key for creation and reversal, 2 bodies to reuse it with; 2 contributions of an amount of 2 in a budget of 3, so that the second mint is refused; 3 answers (create, approve, mint; then the reversal or a repeat runs to its end), any number of lost requests |
| `relay` | signatures, exclusive claims, truthful and final statuses, projections, liveness | a mint that 2 approvers sign, 2 invocations at a time, windows of 1 block, 3 broadcasts, 2 faults of any kind; an enrolment beside it while nothing fails or expires (`EnrolmentOrFault`) |
| `engine_double_mint`, `relay_reversal`, `ballot_tie`, `console_vote` | expected violations | below |

The mutants in `PROJECT.json` say what each property is sensitive to: every one is a
changed definition under which the property fails in the same run. `IssuanceCovered`
also fails in it when advances are not owed, when nothing is owed, and when the budget
limits each mint instead of the epoch.

What some properties do not say, though a hazard they are listed under suggests it:

- `LifecycleRefined` lets a notarised record fail, so a confirm job that comes late and
  settles the row of another transaction is caught only when it verifies; and
  `FaultFreeVerifies` is about runs without the faults it takes.
- `StatusTruthful` and `ExecutedIsVerified` leave out a call that was broadcast twice and
  then called reverted.
- `FullySigned` says that no call is queued too early. Two signatures that arrive
  together may leave the request `collecting` for ever.
- `IssuanceCarried` is checked over one epoch switch and with a debt within the next
  budget; larger debts and more switches are in its theorem only.
- `ResultVerifiable` is about proofs of real members, and takes an option whose voters all
  have weight zero for the leader when it is the only one voted for, as the code does.

Deadlock (in TLC's sense) is not checked: a model with bounded nonces, epochs and
records stops, and a pipeline whose records are settled has nothing left to do. That
transactions do not wait for each other in a circle is the invariant `NoLockCycle`.
Interchangeable constants (members, keys, contributions, hashes, nonces,
transactions) are symmetry sets in the safety runs; no liveness run has one.

Fairness. In `pipeline_live` each worker and the reconcile schedule go on, a waiting
submit job is taken in the end (BullMQ takes jobs in order; strong fairness, because
the worker may be busy each time it is looked at), rows grow old, and the next
transaction is mined. In `relay` an invocation goes on until it ends or is killed,
blocks are mined, and the sync tick starts again and again: the platform's cron starts
it each minute (`vercel.json`), and the bound on simultaneous invocations, which the
platform does not have, must not keep it out for ever (strong fairness). No user has to
request, sign, submit or retry anything, and no deadline has to pass.

## Disagreements between the code and its comments or documents

Four are runs that TLC must find violated:

- `engine_double_mint`: `mint-service.ts:436` says that any prior mint of a
  contribution excludes another. The prior mint is read before the epoch is locked: a
  second mint that waits there through an advance mint and an epoch switch mints the
  whole amount again, from the new budget.
- `relay_reversal`: `projection.ts:9` says that mints and reversals carry the sequence
  number by which fresher figures win. The event of a reversal has none, so after a
  mint it is never folded into the projected balance and supply.
- `ballot_tie`: `proposal-service.ts:192` says that a ballot that decides nothing falls
  to a rejection, never to 'approve'. The fallback is the last option, whatever it is.
- `console_vote`: `proposal-service.ts:4-5` says that a vote's weight is read only from
  the frozen snapshot, never from a live balance. The console's route
  (`app/api/member/vote/route.ts`) stores the live balance with the vote, and `end()`
  counts it.

Others were seen while modelling. They are in the model and the properties are stated
around them:

- A reversal of an advance keeps its vote, though `docs/PRD.md:209-213` equates a
  balance with its governance weight. `WeightCoversBalance` is the half that holds.
- Healing a leaked nonce may fail; contrary to the comment at `submit-worker.ts:75-85`
  the next attempt does not reseed, and later transactions wait beyond the gap.
  `WalletInStep` holds while reseeds succeed.
- A transaction that stays in the mempool keeps its record confirming whatever the
  timeout, contrary to `docs/BLOCKCHAIN-DESIGN.md:401`.
- Nothing rebuilds a lost Redis before a restart, contrary to
  `reconcile-worker.ts:2-3`: the reconcile tick is itself a job in Redis. These three
  are why `pipeline_live` has no failed reseed, eviction or wiped Redis.
- Two overlapping `createNextEpoch` calls open two active epochs: the check is outside
  the transaction. `SeededFirst` keeps them apart, since little survives that state.
- `closeEpoch` locks balances before mint rows, `reverseMint` the mint row before the
  balance: they can deadlock, the hazard that the canonical order of
  `proposal-service.ts:261-264` is there to avoid for the epoch and the state row.
  `NoLockCycle` excludes epoch switches.
- A second approval reads the status of its request without a lock and writes `approved`
  whatever it is by then (`advance-service.ts:149-162`). Of two that overlap, the later may
  write when the first has long been drawn on: the executed request is approved again,
  and a mint can draw on it again. `engine_ledger` has no second approvals, and
  `ApprovalsAreUsedOnce` supposes that they are prompt.
- A policy proposal that ends just after an epoch switch, with the epoch read just
  before it, leaves a pending version for an epoch that is already open; activation
  needs equality, so it stays pending and blocks later ones.
- The rows of a vote are read in no order and the order is not stored, though
  `merkle.ts:107-108` asks for a stable one: a tree rebuilt later may have another root.
- A submission that is retried while the first is still running, or after it died
  between its work and the row of its key, is done twice; for proposals
  `api/proposals/handlers.ts:116-118` says otherwise. `RepeatsReplay` is about repeats
  of what was answered.
- The console ends a proposal without looking at its end time or quorum, with reads
  before an unconditional update, and opens proposals that are active at once and have
  no snapshot; its member edit overwrites balances beside the ledger.
- `lib/db/client.ts` builds the client on an HTTP driver. The engine needs interactive
  transactions, and whether that driver has them is decided outside this repository;
  the models assume it.

## Proofs

Every theorem is about the `Spec` that the runs check, for every value of its constants,
from the assumptions that the modules name: natural amounts and bounds, finite sets of
members, options, proposals and signers, well-typed inputs, sentinels outside the sets
they complete. Where a theorem has a further hypothesis, the text below says which and why.

**The contract.**

- `TypeCorrect`: one lemma per action. The interesting part is that every subtraction
  stays in the naturals, which is where an unsigned underflow would revert or wrap.
- `IssuanceIsCovered`: tokens issued never exceed granted budgets and carried
  debt. The property is not inductive: a roll replaces budget and debt at once.
  `IssuanceInductive` adds that regular mints stay within the effective budget,
  that this budget is the base less the debt, and that before the epoch's own mints
  the bound held with the inherited debt alone.
- `SnapshotsAreFrozen`, `SettlementIsFinal`, `PolicyChangesByProposal`: action
  properties, from `GovernanceInductive` (no snapshot is ahead of `govSeq`, a
  settled verdict is the one its tally gives, a pending policy is the next version
  and named by an executed proposal) and two step lemmas: a step appends to a
  checkpoint array with a sequence number beyond `govSeq` or leaves it alone, and a
  step does one of four things to a proposal.
- `WeightsCoverBalances`, from `WeightInductive`: checkpoint arrays are sorted and not
  ahead of `govSeq`, the community's last entry is the sum of the members', and what a
  member holds is within its regular weight and its advance grants.
- `TalliesAreSnapshots`, from `TallyInductive`: the tally of an option is the sum over
  its voters of what they held at the snapshot. It needs `WeightInductive`, because a
  frozen weight is only well defined over a sorted array, and frozen arrays are read
  after they have grown.
- `LedgerReplays`, `ProposalsUsedOnce`, `MemberCapIsHeld`, `AdvancesAreGated`, from
  `LedgerInductive`: records are finitely many, a mint belongs to a past or the current
  epoch, a member's meter is the sum of its regular mints of the epoch, what a record
  cites is an executed proposal that is consumed, and no two records cite one.

`FiniteSums` proves what these need of sums: a sum over a finite set grows by the value
of the element added, changes by what one value changes by, and is monotone. The
induction is along the well-founded order of the subsets of a finite set; the
hypothesis is stated as membership in a set, so no operator is passed to a theorem.

**The record pipeline**, for every set of records, every ledger with distinct sequence
numbers whose only corrections are reversals, and every number and kind of faults:

- `NotarisedOnceHolds`, `ReversalAfterOriginalHolds`, `MirrorIsNewestHolds`: each step
  sends, mines or evicts a transaction of a record or leaves the chain alone; the
  mempool holds only such transactions, and the mirror's sequence number belongs to a
  notarised record, without which a late record could tie with the newest.
- `NonceRecordedBeforeSendHolds`: no update of a row clears a nonce, and the worker
  has it persisted from the gas estimate to the broadcast, the only step that sends.
- `LifecycleRefinedHolds`: the pipeline implements `RecordLifecycle`. Every step
  changes the rows along one edge of the life of a record (`StepsOfTheRows`), and what
  needs an invariant is that `verified` is written only for a notarised record: the
  worker goes to its recovery only for one (`HandInv`), and the hash the reconciler asks
  the node about, as it read it from the row, is that of one of the record's own
  transactions (`RowInv`, `ReconInv`).
- `PipelineTypes`: `TypeInv` adds what the worker and the reconciler have in hand where
  they use it. That the node's pending nonce exists and is a number is `PendingCountFound`:
  a finite mempool leaves a nonce free, and there is a least one.
- `WalletStaysInStep`: without a failed reseed and an eviction the wallet's counter is
  never beyond the node's by more than the nonce being sent. The hypothesis is the
  set of faults that may happen; the other faults, and their number, are open.

**The requests.** `AnswersStayTrue` and `RepeatsAreReplayed`, from `RequestInv`: a mint
needs an approved contribution and a reversal a mint, an answer given or stored tells
what the rows say (`Told`), a key is taken before its request is answered, and a request
between two statements still knows what it read, because what it read cannot be undone.

**The relay and the indexer**, for any number of invocations, signers, attempts and
faults:

- `RelayTypes`, `CallsAreFullySigned`, `ClaimsAreExclusive`, `StatusesAreTruthful`,
  `ProjectionsAreReplays`, `SettledActionsStay`, from `RelayInv`: what each worker
  knows at each of its steps (`WorkersKnow`), that a worker between the claim and its
  release is the only one in that part (`HoldersKnow`), what each status of an action
  says of the chain (`ActionsKnow`), and that a projected row is that of the newest
  applied event (`ProjectionsKnow`).

**The ledger engine**, for any community and any number of interleaved transactions:

- `EngineInvHolds` is what the others rest on. A transaction works with values read
  statements ago; `EngineInv` says which of them still hold. What was read under a row
  lock is what the row says until the transaction commits (`StateKnown` and its
  likes), which also needs that locks are taken in the order of their rank and
  given back only at the end; what was read without one has its type and no more.
- `EngineTypes`; `BallotsAreCounted`, because a ballot and the end of its proposal meet
  at the proposal's row; `AdvancesAreAuthorised`, from `AuthInv`: a request is read without a
  lock, but what authorises it (a second approval, a passed proposal) is never undone, so
  whoever has read it approved may rely on it; `VersionsAreKept`, from `VersionsInv`: the
  numbers given away are those up to the pending version, and a switch that has
  read one with its epoch locked activates that very one.
- `LedgerRefinesBook`: the ledger implements `LedgerBook`. Every commit that moves tokens
  posts entries that start from the balance and the supply it has locked, each going on
  from the one before it; the invariant added is that whoever has entries has a
  last one, and that the current figures are those of the last entries.
- `ProposalsMintOnce`: one passed proposal authorises the mint of one contribution of a
  related party. Whoever commits second has the state row, and sees the entry of the first.
- `ApprovalsAreUsedOnce`, from `Used`: a request that has a mint is closed, and a mint that
  has read its request approved holds the state row, so nobody mints on it meanwhile.
  Its hypothesis `PromptApprovals` is that a second approval finds its request still
  waiting when it writes, which the code does not ensure (see the stale second approval
  above); without it a closed request is approved again.

Five theorems suppose that at most one epoch is active (`OneActive`), the state that
overlapping `createNextEpoch` calls can break, as said above. The runs keep those calls apart:

- `LocksInOrder`: transactions other than epoch switches never wait for each other in a
  circle, because each takes epoch, state and balances in this order and there is one
  epoch to take.
- `LayersAgree`, from `Numbered` (entries belong to existing epochs, the active one is the
  last, pending are the advances of that one) and `Layers` (the active and the
  pending balance of a member are the standing amounts of its active and pending mints).
- `SnapshotsAreOfOneMoment`: the moment is the length of the ledger when the activation
  commits. It holds the state row, which every commit that moves tokens needs, so the
  supply it has read is that of the last entry, and `Layers` gives the weights.
- `OpeningsFollowMints`, from `Openings` and `Closings`: the switch holds the epoch it
  closes when it reads the supply, so no mint comes between that and the opening it
  writes; reversals may.
- `IssuanceIsCarried`, from `Issuance`: the meters of every epoch are the sums of its
  entries and within budget and allowance (`Meters`), what a member has earned is within
  the cap (`Earns`), and all that was issued before an epoch is covered by the budgets
  until then and the debt it took over (`Carries`), which is what an epoch switch preserves.

Only model-checked: liveness and fairness, of the pipeline and the relay, which is out of
these provers' reach; and `BallotTally` and `ConsoleVotes`, which have recursive operators
(so `ResultVerifiable`, of Merkle proofs). `SettledIsFinal` is proved and no run
checks it any more.

## Plan

1. `YouFenGovernance` with its runs and first theorems (done).
2. `RecordChain`, `RecordLifecycle` and `RecordPipeline` with their runs; the
   contract's safety, the write order and the refinement proved (done).
3. `EngineDatabase`, `EngineLedger`, `EngineGovernance`, `LedgerBook` (done), and
   `BallotTally` for what a proposal publishes (done).
4. `RelayChain`, `Relay`, `RelayIndexer` (done).
5. Proofs: the contract, the pipeline, the requests, the relay and the indexer, and the
   engine, from its types to `LedgerImplementsBook` and `IssuanceCarried` (done).
6. `Requests` and `ConsoleVotes` (done).
7. Left to model: the signer table of enrolments and rotations in the indexer, the
   pages of the ledger's read API, the console's proposals and member edits.

## Not modelled

Canonical JSON, payloads, typed data and signature recovery are pure functions of
cryptographic strength: a hash is a term or a model value, a signature the key it
recovers to. Sessions, rate limits, chat, AI prompts and the web client keep no protocol
state beyond single rows; they are most of the repository's lines (pages, components,
animations, demo data), which is why the modelled part is a small share of it. Of the
HTTP handlers the ones that submit, review, mint and reverse a contribution are
modelled, and of the console's routes two; validation, authorization, read endpoints, AI
analysis, community and member administration are not. The relay signs with the same key
as the submit worker; its transactions are not in the pipeline's mempool, because the
two contracts are alternative deployments. Gas, reentrancy guards (no external call is
made) and event indexing are left out.
