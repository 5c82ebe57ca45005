---------------------------- MODULE RecordChain ----------------------------
(***************************************************************************)
(* The chain as the record pipeline sees it: the Server Wallet's mempool   *)
(* and nonces, receipts, and the contract contracts/YouFenRecords.sol,     *)
(* which notarises every record hash once and mirrors the newest balance   *)
(* snapshot.  Blocks are instantly final, so a receipt never changes.      *)
(*                                                                         *)
(* A transaction is the pair <<nonce, record>> it signs: the same record   *)
(* sent at the same nonce is the same transaction hash.                    *)
(***************************************************************************)
EXTENDS Integers, FiniteSets, Functions

CONSTANTS
  Records,   \* PublicRecord ids, one recordHash each
  Members,   \* memberIdHash values
  Ledger,    \* what each record carries to the contract
  NoRecord

Kinds == {"mint", "reversal", "summary"}

ASSUME LedgerAssumption ==
  /\ NoRecord \notin Records
  /\ Ledger \in [Records -> [kind: Kinds, member: Members, seq: Nat \ {0},
                             balanceAfter: Nat, supplyAfter: Nat,
                             original: Records \cup {NoRecord}]]
  \* assigned inside the ledger's database transaction, one per record
  /\ \A r, s \in Records : r # s => Ledger[r].seq # Ledger[s].seq
  \* only a reversal names an original
  /\ \A r \in Records : Ledger[r].original \in Records => Ledger[r].kind = "reversal"
  /\ IsFiniteSet(Records)

VARIABLES
  mempool,          \* transactions sent and not mined
  latestNonce,      \* getTransactionCount(wallet, 'latest')
  succeeded,        \* mined with receipt status 1
  revertedTxs,      \* mined with receipt status 0
  notarised,        \* records[h].exists
  lastLedgerSeq, balanceOf, totalSupplyOf

chainVars == <<mempool, latestNonce, succeeded, revertedTxs, notarised,
               lastLedgerSeq, balanceOf, totalSupplyOf>>

Txs == Nat \X Records
NonceOf(tx) == tx[1]
RecordOf(tx) == tx[2]

NoncesIn(txs) == {NonceOf(tx) : tx \in txs}

\* getTransactionCount(wallet, 'pending'): the first nonce no transaction uses.
PendingCount ==
  CHOOSE n \in latestNonce..(latestNonce + Cardinality(mempool)) :
    /\ n \notin NoncesIn(mempool)
    /\ \A k \in latestNonce..(n - 1) : k \in NoncesIn(mempool)

\* A node refuses a used nonce ("nonce too low") and, at the same gas price, a
\* second transaction at a nonce that is waiting.  A nonce too high is accepted.
Accepts(tx) == NonceOf(tx) >= latestNonce /\ NonceOf(tx) \notin NoncesIn(mempool)

Send(tx) ==
  /\ Accepts(tx)
  /\ mempool' = mempool \cup {tx}
  /\ UNCHANGED <<latestNonce, succeeded, revertedTxs, notarised,
                 lastLedgerSeq, balanceOf, totalSupplyOf>>

OriginalMissing(r) == Ledger[r].kind = "reversal" /\ Ledger[r].original \notin notarised

\* Mutants: each of the contract's two conditions on its own.
RevertsUnlessOriginal(r) == OriginalMissing(r)
RevertsIfRecorded(r) == r \in notarised

\* require(!records[h].exists); a reversal's original must exist.
Reverts(r) == r \in notarised \/ OriginalMissing(r)

Mirrored(r) == Ledger[r].kind # "summary"

\* Mutant: a late record overwrites the snapshot.
MirrorAlways(r) ==
  IF Mirrored(r)
  THEN /\ lastLedgerSeq' = Ledger[r].seq
       /\ balanceOf' = [balanceOf EXCEPT ![Ledger[r].member] = Ledger[r].balanceAfter]
       /\ totalSupplyOf' = Ledger[r].supplyAfter
  ELSE UNCHANGED <<lastLedgerSeq, balanceOf, totalSupplyOf>>

\* _mirrorIfNewer: a snapshot is applied only for a strictly newer sequence.
MirrorIfNewer(r) ==
  IF Mirrored(r) /\ Ledger[r].seq > lastLedgerSeq
  THEN /\ lastLedgerSeq' = Ledger[r].seq
       /\ balanceOf' = [balanceOf EXCEPT ![Ledger[r].member] = Ledger[r].balanceAfter]
       /\ totalSupplyOf' = Ledger[r].supplyAfter
  ELSE UNCHANGED <<lastLedgerSeq, balanceOf, totalSupplyOf>>

\* The transaction at the next nonce is executed: recordMint, recordReversal or a
\* summary writer; a revert still uses the nonce.
Mine(tx) ==
  /\ tx \in mempool /\ NonceOf(tx) = latestNonce
  /\ mempool' = mempool \ {tx}
  /\ latestNonce' = latestNonce + 1
  /\ \/ /\ Reverts(RecordOf(tx))
        /\ revertedTxs' = revertedTxs \cup {tx}
        /\ UNCHANGED <<succeeded, notarised, lastLedgerSeq, balanceOf, totalSupplyOf>>
     \/ /\ ~Reverts(RecordOf(tx))
        /\ succeeded' = succeeded \cup {tx}
        /\ notarised' = notarised \cup {RecordOf(tx)}
        /\ MirrorIfNewer(RecordOf(tx))
        /\ UNCHANGED revertedTxs

\* A node may evict a waiting transaction.
Evict(tx) ==
  /\ tx \in mempool
  /\ mempool' = mempool \ {tx}
  /\ UNCHANGED <<latestNonce, succeeded, revertedTxs, notarised,
                 lastLedgerSeq, balanceOf, totalSupplyOf>>

ChainInit ==
  /\ mempool = {}
  /\ latestNonce = 0
  /\ succeeded = {}
  /\ revertedTxs = {}
  /\ notarised = {}
  /\ lastLedgerSeq = 0
  /\ balanceOf = [m \in Members |-> 0]
  /\ totalSupplyOf = 0

ChainTypeOK ==
  /\ mempool \in SUBSET Txs
  /\ IsFiniteSet(mempool)
  /\ latestNonce \in Nat
  /\ succeeded \in SUBSET Txs
  /\ revertedTxs \in SUBSET Txs
  /\ notarised \in SUBSET Records
  /\ lastLedgerSeq \in Nat
  /\ balanceOf \in [Members -> Nat]
  /\ totalSupplyOf \in Nat

(***************************************************************************)
(* Safety properties of the contract.                                      *)
(***************************************************************************)

\* However records are retried, re-sent and reordered, each is notarised by at
\* most one transaction, and exactly the notarised ones have one.
NotarisedOnce ==
  /\ \A t, u \in succeeded : RecordOf(t) = RecordOf(u) => t = u
  /\ notarised = {RecordOf(tx) : tx \in succeeded}

\* A reversal is on the chain only with the mint it reverses (PRD 10.3), so no
\* reordering of the two records leaves a dangling reference.
ReversalAfterOriginal ==
  \A r \in notarised :
    Ledger[r].kind = "reversal" => Ledger[r].original \in notarised

\* The mirror is the snapshot of the newest record notarised so far, whatever the
\* order they were mined in, and no member shows a balance of a record that is not
\* on the chain (header invariant 6 of the contract).
MirrorIsNewest ==
  LET mirrored == {r \in notarised : Mirrored(r)}
  IN  /\ mirrored = {} => lastLedgerSeq = 0
      /\ \A r \in mirrored : Ledger[r].seq <= lastLedgerSeq
      /\ \A r \in mirrored : Ledger[r].seq = lastLedgerSeq =>
           /\ balanceOf[Ledger[r].member] = Ledger[r].balanceAfter
           /\ totalSupplyOf = Ledger[r].supplyAfter
      /\ \A m \in Members : balanceOf[m] # 0 =>
           \E r \in mirrored : Ledger[r].member = m /\ Ledger[r].balanceAfter = balanceOf[m]
=============================================================================
