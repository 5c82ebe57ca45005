---------------------------- MODULE EngineProofs ----------------------------
(***************************************************************************)
(* Safety of the ledger engine, for every community and any number of      *)
(* interleaved transactions.  What a transaction computes with it has read *)
(* statements ago; the invariant says what of it still holds at the commit *)
(* because the transaction has locked it, and that the rows have types.    *)
(***************************************************************************)
EXTENDS EngineProperties, FiniteSums, SequenceTheorems

(***************************************************************************)
(* The invariant.                                                          *)
(***************************************************************************)

TxnKinds ==
  {"mint", "execute", "reverse", "close", "activate", "genesis", "createNext", "createRequest",
   "secondApprove", "reject", "attach", "castVote", "end"}

Statements ==
  {"priorMint", "activeEpoch", "state", "balance", "request", "requestEpoch", "mint", "epoch",
   "closing", "pendingBalances", "pendingMints", "balances", "proposal", "seeded", "allocated",
   "openEpoch", "lastEpoch", "policy"}

RequestStatus ==
  {None, "pending_second_approval", "pending_proposal", "approved", "rejected", "executed"}
ProposalStatus == {None, "draft", "active", "recorded"}

RequestRow ==
  [status : RequestStatus, member : Members \cup {None}, asked : Nat, approved : Nat, epoch : Nat,
   second : BOOLEAN, proposal : Proposals \cup {None}, covers : SUBSET Contributions]
ProposalRow ==
  [status : ProposalStatus, about : Purposes \cup {None}, over : BOOLEAN, epoch : Nat, supply : Nat,
   weight : [Members -> Nat], eligible : SUBSET Members,
   vote : [Members -> {None, "approve", "reject"}], winner : {None, "approve", "reject"}, voters : Nat]

\* A request that exists is of a member and of an epoch that has been opened.
RequestOK(r) ==
  /\ r \in RequestRow
  /\ r.status # None => r.member \in Members /\ r.epoch \in DOMAIN epochs

LedgerRows ==
  /\ epochs \in Seq(EpochRow) /\ Len(epochs) <= MaxEpoch
  /\ supply \in Nat
  /\ ledger \in Seq(EntryRow) /\ Len(ledger) <= MaxLedger
  /\ balance \in [Members -> BalanceRow]

GovernanceRows ==
  /\ DOMAIN request = Requests /\ \A r \in Requests : RequestOK(request[r])
  /\ policy \in PolicyRow
  /\ versions \subseteq Nat
  /\ proposal \in [Proposals -> ProposalRow]
  /\ \A p \in Proposals : proposal[p].status # None => proposal[p].about \in Purposes

RowsTyped == LedgerRows /\ GovernanceRows

SeenRow ==
  [used : BOOLEAN, epoch : Nat, supply : Nat, balance : BalanceRow, mint : EntryRow \cup {None},
   request : RequestRow, policy : PolicyRow \cup {None}, status : ProposalStatus]

\* A record of a transaction, whatever its input is.
TxnRow(x) ==
  /\ x = [kind |-> x.kind, in |-> x.in, todo |-> x.todo, rows |-> x.rows, seen |-> x.seen]
  /\ x.kind \in TxnKinds \cup {None}
  /\ x.todo \in Seq(Statements)
  /\ x.rows \subseteq Rows
  /\ x.seen \in SeenRow

Left(t) == Len(txn[t].todo)

\* What is left to do is the end of the plan.
Follows(t) ==
  IF txn[t].kind = None THEN txn[t] = Idle
  ELSE /\ Left(t) < Len(PlanOf(txn[t].kind))
       /\ \A k \in 1 .. Left(t) :
            txn[t].todo[k] = PlanOf(txn[t].kind)[Len(PlanOf(txn[t].kind)) - Left(t) + k]

\* What a transaction of a kind is started with.
GivenTo(kind, in) ==
  /\ in.request \in Requests \cup {None} /\ in.proposal \in Proposals \cup {None}
  /\ kind = "mint" => in.id \in Contributions
  /\ kind = "createRequest" => in.id \in Requests /\ in.choice \in Asks
  /\ kind \in {"execute", "secondApprove", "reject", "attach"} => in.id \in Requests /\ in.request = in.id
  /\ kind = "attach" => in.proposal \in Proposals
  /\ kind = "reverse" =>
       in.id \in DOMAIN ledger /\ ledger[in.id].kind # "reversal" /\ in.choice \in Reversals
  /\ kind = "close" => in.id \in DOMAIN epochs
  /\ kind \in {"activate", "castVote", "end"} => in.id \in Proposals
  /\ kind = "castVote" => in.member \in Members /\ in.choice \in {"approve", "reject"}
Given(t) == GivenTo(txn[t].kind, txn[t].in)

\* What it has read without a lock.
Read(t) ==
  LET seen == txn[t].seen IN
  /\ RequestOK(seen.request)
  /\ seen.request.status # None =>
       txn[t].in.request \in Requests /\ request[txn[t].in.request].status # None
  /\ txn[t].kind = "execute" /\ Left(t) <= 2 => seen.request.status = "approved"
  /\ \/ txn[t].kind = "close" /\ Left(t) <= 3
     \/ txn[t].kind = "createNext" /\ Left(t) = 0
     \/ txn[t].kind = "end" /\ Left(t) <= 1
     => seen.policy \in PolicyRow

\* The rows are locked in this order, but by an epoch switch.
Rank(row) ==
  CASE row[1] = "mint" -> 1 [] row[1] = "proposal" -> 2 [] row[1] = "epoch" -> 3
    [] row[1] = "state" -> 4 [] row[1] = "balance" -> 5

\* How far in this order a transaction of a kind is with so many statements left.
Level(kind, left) ==
  CASE kind = "mint" -> IF left = 4 THEN 0 ELSE IF left = 3 THEN 3 ELSE IF left = 2 THEN 4 ELSE 5
    [] kind = "execute" -> IF left = 3 THEN 0 ELSE IF left = 2 THEN 3 ELSE IF left = 1 THEN 4 ELSE 5
    [] kind = "reverse" -> IF left = 2 THEN 1 ELSE IF left = 1 THEN 4 ELSE 5
    [] kind = "activate" -> IF left = 2 THEN 2 ELSE IF left = 1 THEN 3 ELSE 4
    [] kind = "genesis" -> IF left = 2 THEN 0 ELSE IF left = 1 THEN 4 ELSE 5
    [] kind = "createRequest" -> 3
    [] kind \in {"castVote", "end"} -> 2
    [] OTHER -> 0

Ordered(t) ==
  txn[t].kind # "close" =>
    /\ \A row \in txn[t].rows : Rank(row) = Level(txn[t].kind, Left(t))
    /\ \A row \in Rows : holder[row] = t => Rank(row) <= Level(txn[t].kind, Left(t))

\* The rows a statement waits for are the ones it means to read.
Waiting(t) ==
  LET x == txn[t] IN
  /\ \A row \in x.rows : holder[row] # t
  /\ \A m \in Members : txn[t].kind \in {"mint", "execute", "reverse"} /\ BalanceLock(m) \in x.rows => m = MemberOf(x)
  /\ \A i \in 1 .. MaxLedger : txn[t].kind = "reverse" /\ MintLock(i) \in x.rows => i = x.in.id
  /\ \A p \in Proposals :
       txn[t].kind \in {"activate", "castVote", "end"} /\ ProposalLock(p) \in x.rows => p = x.in.id
  /\ \A n \in 1 .. MaxEpoch : txn[t].kind = "close" /\ EpochLock(n) \in x.rows => n = x.in.id

\* What it has read under a lock is what the row says.
StateTaken(t) ==
  \/ txn[t].kind = "mint" /\ Left(t) <= 2
  \/ txn[t].kind \in {"execute", "reverse", "genesis"} /\ Left(t) <= 1
  \/ txn[t].kind = "activate" /\ Left(t) = 0
StateKnown(t) ==
  StateTaken(t) =>
    StateLock \in txn[t].rows \/ (holder[StateLock] = t /\ txn[t].seen.supply = supply)

BalanceTaken(t) ==
  \/ txn[t].kind = "mint" /\ Left(t) <= 1
  \/ txn[t].kind \in {"execute", "reverse"} /\ Left(t) = 0
BalanceKnown(t) ==
  BalanceTaken(t) =>
    LET m == MemberOf(txn[t]) IN
    BalanceLock(m) \in txn[t].rows \/ (holder[BalanceLock(m)] = t /\ txn[t].seen.balance = balance[m])

MintKnown(t) ==
  txn[t].kind = "reverse" =>
    LET i == txn[t].in.id IN
    MintLock(i) \in txn[t].rows \/ (holder[MintLock(i)] = t /\ txn[t].seen.mint = ledger[i])

ProposalKnown(t) ==
  txn[t].kind \in {"activate", "castVote", "end"} =>
    LET p == txn[t].in.id IN
    \/ ProposalLock(p) \in txn[t].rows
    \/ /\ holder[ProposalLock(p)] = t
       /\ txn[t].seen.status # None => txn[t].seen.status = proposal[p].status

\* An epoch it works in is active as long as it holds it.
EpochKnown(t) ==
  /\ txn[t].kind \in {"mint", "execute", "activate", "createRequest", "close"} /\ txn[t].seen.epoch # 0 =>
       txn[t].seen.epoch \in ActiveEpochs /\ holder[EpochLock(txn[t].seen.epoch)] = t
  /\ txn[t].kind = "close" =>
       /\ EpochLock(txn[t].in.id) \in txn[t].rows \/ holder[EpochLock(txn[t].in.id)] = t
       /\ txn[t].seen.epoch \in {0, txn[t].in.id}
       /\ Left(t) <= 3 => txn[t].seen.epoch = txn[t].in.id

\* An epoch switch has locked every balance it writes, and every mint row that matures.
SwitchKnown(t) ==
  /\ txn[t].kind = "close" /\ Left(t) = 0 =>
       \A m \in Members : BalanceLock(m) \in txn[t].rows \/ holder[BalanceLock(m)] = t
  /\ txn[t].kind = "close" /\ Left(t) <= 1 =>
       \A i \in MaturingAt(txn[t].in.id + 1) : MintLock(i) \in txn[t].rows \/ holder[MintLock(i)] = t
  /\ txn[t].kind = "genesis" /\ Left(t) = 0 =>
       \A k \in DOMAIN Allocation :
         LET row == BalanceLock(Allocation[k].member) IN row \in txn[t].rows \/ holder[row] = t

Locks(t) ==
  /\ Waiting(t) /\ StateKnown(t) /\ BalanceKnown(t) /\ MintKnown(t)
  /\ ProposalKnown(t) /\ EpochKnown(t) /\ SwitchKnown(t)

Sound(t) == Follows(t) /\ Given(t) /\ Read(t) /\ Ordered(t) /\ Locks(t)

TxnsTyped ==
  /\ holder \in [Rows -> Txns \cup {Free}]
  /\ DOMAIN txn = Txns /\ \A t \in Txns : TxnRow(txn[t])
  /\ \A row \in Rows : holder[row] # Free => txn[holder[row]].kind # None

EngineInv == RowsTyped /\ TxnsTyped /\ \A t \in Txns : Sound(t)

-----------------------------------------------------------------------------
(***************************************************************************)
(* The types of what the operators return.                                 *)
(***************************************************************************)

\* A product of natural numbers is one.
LEMMA ProductNat == \A a, b \in Nat : a * b \in Nat
OBVIOUS

\* A rate of an amount is an amount.
LEMMA BpsNat == \A a, b \in Nat : BpsOf(a, b) \in Nat
<1> SUFFICES ASSUME NEW a \in Nat, NEW b \in Nat
             PROVE  BpsOf(a, b) \in Nat
  OBVIOUS
<1>1. a * b \in Nat
  BY ProductNat
<1> QED
  BY <1>1 DEF BpsOf

\* A clamped difference.
LEMMA MonusNat ==
  \A a \in Nat, b \in Int :
    Monus(a, b) \in Int /\ (b >= 0 => Monus(a, b) \in Nat) /\ Monus(a, b) >= 0
BY DEF Monus

\* What the opening of an epoch writes is an active epoch.
LEMMA NewEpochType ==
  ASSUME NEW opening \in Nat, NEW debt \in Nat, NEW rates \in RatesOf
  PROVE  /\ NewEpoch(opening, debt, rates) \in EpochRow
         /\ NewEpoch(opening, debt, rates).status = "active"
<1> DEFINE base == BpsOf(opening, rates.inflation)
<1>1. rates.inflation \in Nat /\ rates.maxAdvance \in Nat
  BY DEF RatesOf
<1>2. base \in Nat
  BY <1>1, BpsNat
<1> HIDE DEF base
<1>3. BpsOf(base, rates.maxAdvance) \in Nat
  BY <1>1, <1>2, BpsNat
<1>4. NewEpoch(opening, debt, rates) =
        [status |-> "active", opening |-> opening, base |-> base, debt |-> debt,
         maxAdvance |-> BpsOf(base, rates.maxAdvance), regular |-> 0, advanced |-> 0]
  BY DEF NewEpoch, base
<1> QED
  BY <1>2, <1>3, <1>4 DEF EpochRow

\* The initial allocation's entries.
LEMMA AllocatedTo ==
  \A k \in DOMAIN Allocation :
    /\ k \in 1 .. Len(Allocation)
    /\ Allocation[k].member \in Members /\ Allocation[k].amount \in Nat \ {0}
    /\ Allocation[k].upTo \in Nat
<1> DEFINE To == [member : Members, amount : Nat \ {0}, upTo : Nat]
<1>1. Allocation \in Seq(To)
  BY AllocationAssumption
<1>2. \A k \in DOMAIN Allocation : k \in 1 .. Len(Allocation) /\ Allocation[k] \in To
  <2> HIDE DEF To
  <2> QED
    BY <1>1, ElementOfSeq, LenProperties
<1> QED
  BY <1>2

\* Rows that are locked are told apart by what they are locks of.
LEMMA RowsApart ==
  /\ StateLock \in Rows /\ Rank(StateLock) = 4
  /\ \A n \in 1 .. MaxEpoch : EpochLock(n) \in Rows /\ Rank(EpochLock(n)) = 3
  /\ \A m \in Members : BalanceLock(m) \in Rows /\ Rank(BalanceLock(m)) = 5
  /\ \A i \in 1 .. MaxLedger : MintLock(i) \in Rows /\ Rank(MintLock(i)) = 1
  /\ \A p \in Proposals : ProposalLock(p) \in Rows /\ Rank(ProposalLock(p)) = 2
BY DEF Rows, StateLock, EpochLock, BalanceLock, MintLock, ProposalLock, Rank

\* Every row is one of them.
LEMMA RowCases ==
  \A row \in Rows :
    \/ row = StateLock
    \/ \E n \in 1 .. MaxEpoch : row = EpochLock(n)
    \/ \E m \in Members : row = BalanceLock(m)
    \/ \E i \in 1 .. MaxLedger : row = MintLock(i)
    \/ \E p \in Proposals : row = ProposalLock(p)
BY DEF Rows

\* The entries and the epochs there are have rows to lock.
LEMMA OpenedRows ==
  ASSUME LedgerRows
  PROVE  /\ \A i \in DOMAIN ledger : MintLock(i) \in Rows
         /\ \A k \in DOMAIN epochs : EpochLock(k) \in Rows
<1>1. PICK n \in Nat, k \in Nat, a \in Nat, b \in Nat :
        n = Len(ledger) /\ k = Len(epochs) /\ a = MaxLedger /\ b = MaxEpoch
  BY BoundsAssumption DEF LedgerRows
<1>2. DOMAIN ledger = 1 .. n /\ DOMAIN epochs = 1 .. k /\ n <= a /\ k <= b
  BY <1>1 DEF LedgerRows
<1>3. DOMAIN ledger \subseteq 1 .. MaxLedger /\ DOMAIN epochs \subseteq 1 .. MaxEpoch
  BY ONLY <1>1, <1>2
<1> QED
  BY <1>3, RowsApart

\* A row's lock names the row.
LEMMA LocksInjective ==
  /\ \A m, k : BalanceLock(m) = BalanceLock(k) => m = k
  /\ \A i, k : MintLock(i) = MintLock(k) => i = k
  /\ \A i, k : EpochLock(i) = EpochLock(k) => i = k
  /\ \A p, q : ProposalLock(p) = ProposalLock(q) => p = q
BY DEF BalanceLock, MintLock, EpochLock, ProposalLock

LEMMA RankInt == \A row \in Rows : Rank(row) \in 1 .. 5
BY RowCases, RowsApart

\* The statements of a plan, by how many are left when one is taken.
LEMMA PlanLengths ==
  /\ Len(PlanOf("mint")) = 5 /\ Len(PlanOf("execute")) = 4 /\ Len(PlanOf("reverse")) = 3
  /\ Len(PlanOf("close")) = 5 /\ Len(PlanOf("activate")) = 3 /\ Len(PlanOf("genesis")) = 3
  /\ Len(PlanOf("createNext")) = 2 /\ Len(PlanOf("createRequest")) = 1
  /\ Len(PlanOf("secondApprove")) = 1 /\ Len(PlanOf("reject")) = 1 /\ Len(PlanOf("attach")) = 1
  /\ Len(PlanOf("castVote")) = 1 /\ Len(PlanOf("end")) = 3
BY DEF PlanOf, MintPlan, ExecutePlan, ReversePlan, ClosePlan, ActivatePlan

LEMMA PlansAreSequences ==
  \A kind \in TxnKinds : PlanOf(kind) \in Seq(Statements)
<1>1. PlanOf("mint") \in Seq(Statements)
  BY DEF Statements, PlanOf, MintPlan
<1>2. PlanOf("execute") \in Seq(Statements)
  BY DEF Statements, PlanOf, ExecutePlan
<1>3. PlanOf("reverse") \in Seq(Statements)
  BY DEF Statements, PlanOf, ReversePlan
<1>4. PlanOf("close") \in Seq(Statements)
  BY DEF Statements, PlanOf, ClosePlan
<1>5. PlanOf("activate") \in Seq(Statements)
  BY DEF Statements, PlanOf, ActivatePlan
<1>6. PlanOf("genesis") \in Seq(Statements) /\ PlanOf("end") \in Seq(Statements)
  BY DEF Statements, PlanOf
<1>7. PlanOf("createNext") \in Seq(Statements) /\ PlanOf("createRequest") \in Seq(Statements)
  BY DEF Statements, PlanOf
<1>8. \A kind \in {"secondApprove", "reject", "attach", "castVote"} : PlanOf(kind) \in Seq(Statements)
  BY DEF Statements, PlanOf
<1> QED
  BY <1>1, <1>2, <1>3, <1>4, <1>5, <1>6, <1>7, <1>8 DEF TxnKinds

\* The statement that a transaction takes next.
Next1(kind, left, statement) ==
  \/ kind = "mint" /\ \/ left = 4 /\ statement = "activeEpoch"
                      \/ left = 3 /\ statement = "state"
                      \/ left = 2 /\ statement = "balance"
                      \/ left = 1 /\ statement = "request"
  \/ kind = "execute" /\ \/ left = 3 /\ statement = "requestEpoch"
                         \/ left = 2 /\ statement = "state"
                         \/ left = 1 /\ statement = "balance"
  \/ kind = "reverse" /\ \/ left = 2 /\ statement = "state"
                         \/ left = 1 /\ statement = "balance"
  \/ kind = "close" /\ \/ left = 4 /\ statement = "closing"
                       \/ left = 3 /\ statement = "pendingBalances"
                       \/ left = 2 /\ statement = "pendingMints"
                       \/ left = 1 /\ statement = "balances"
  \/ kind = "activate" /\ \/ left = 2 /\ statement = "activeEpoch"
                          \/ left = 1 /\ statement = "state"
  \/ kind = "genesis" /\ \/ left = 2 /\ statement = "state"
                         \/ left = 1 /\ statement = "allocated"
  \/ kind = "createNext" /\ left = 1 /\ statement = "lastEpoch"
  \/ kind = "end" /\ \/ left = 2 /\ statement = "policy"
                     \/ left = 1 /\ statement = "openEpoch"

LEMMA NextOfPlan ==
  ASSUME NEW kind \in TxnKinds, NEW left \in Nat, left > 0, left < Len(PlanOf(kind))
  PROVE  Next1(kind, left, PlanOf(kind)[Len(PlanOf(kind)) - left + 1])
<1>1. CASE kind = "mint"
  BY <1>1 DEF Next1, PlanOf, MintPlan
<1>2. CASE kind = "execute"
  BY <1>2 DEF Next1, PlanOf, ExecutePlan
<1>3. CASE kind = "reverse"
  BY <1>3 DEF Next1, PlanOf, ReversePlan
<1>4. CASE kind = "close"
  BY <1>4 DEF Next1, PlanOf, ClosePlan
<1>5. CASE kind = "activate"
  BY <1>5 DEF Next1, PlanOf, ActivatePlan
<1>6. CASE kind = "genesis"
  BY <1>6 DEF Next1, PlanOf
<1>7. CASE kind = "createNext"
  BY <1>7 DEF Next1, PlanOf
<1>8. CASE kind = "end"
  BY <1>8 DEF Next1, PlanOf
<1>9. CASE kind \in {"createRequest", "secondApprove", "reject", "attach", "castVote"}
  BY <1>9, PlanLengths
<1> QED
  BY <1>1, <1>2, <1>3, <1>4, <1>5, <1>6, <1>7, <1>8, <1>9 DEF TxnKinds

\* A transaction that has statements left takes the next of its plan.
LEMMA NextTaken ==
  ASSUME NEW t \in Txns, TxnRow(txn[t]), Follows(t), txn[t].todo # << >>
  PROVE  /\ txn[t].kind \in TxnKinds
         /\ Left(t) \in Nat /\ Left(t) > 0
         /\ Next1(txn[t].kind, Left(t), Head(txn[t].todo))
         /\ Tail(txn[t].todo) \in Seq(Statements)
         /\ Len(Tail(txn[t].todo)) = Left(t) - 1
         /\ \A k \in 1 .. Left(t) - 1 :
              Tail(txn[t].todo)[k] =
                PlanOf(txn[t].kind)[Len(PlanOf(txn[t].kind)) - (Left(t) - 1) + k]
<1>1. txn[t].kind \in TxnKinds
  BY DEF TxnRow, Follows, Idle
<1>2. PICK s \in Seq(Statements) : s = txn[t].todo
  BY DEF TxnRow
<1>3. Left(t) = Len(s) /\ Len(s) \in Nat /\ Len(s) > 0 /\ Head(s) = s[1]
  BY <1>2, EmptySeq, LenProperties DEF Left
<1>4. PICK plan \in Seq(Statements) : plan = PlanOf(txn[t].kind)
  BY <1>1, PlansAreSequences
<1>5. Len(s) < Len(plan) /\ \A k \in 1 .. Len(s) : s[k] = plan[Len(plan) - Len(s) + k]
  <2>2. txn[t].kind # None
    BY <1>1, NoneAssumption DEF TxnKinds
  <2> QED
    BY <2>2, <1>2, <1>4 DEF Follows, Left
<1>6. s[1] = plan[Len(plan) - Len(s) + 1]
  BY <1>3, <1>5
<1>7. Next1(txn[t].kind, Len(s), Head(s))
  BY <1>1, <1>3, <1>4, <1>5, <1>6, NextOfPlan
<1>8. /\ Tail(s) \in Seq(Statements) /\ Len(Tail(s)) = Len(s) - 1
      /\ \A k \in 1 .. Len(s) - 1 : Tail(s)[k] = s[k + 1]
  BY <1>3, HeadTailProperties
<1>9. \A k \in 1 .. Len(s) - 1 : Tail(s)[k] = plan[Len(plan) - (Len(s) - 1) + k]
  <2> TAKE k \in 1 .. Len(s) - 1
  <2>1. k + 1 \in 1 .. Len(s) /\ Len(plan) \in Nat
    BY <1>3
  <2>2. Len(plan) - Len(s) + (k + 1) = Len(plan) - (Len(s) - 1) + k
    BY <1>3, <2>1
  <2> QED
    BY <1>5, <1>8, <2>1, <2>2
<1> QED
  BY <1>1, <1>2, <1>3, <1>4, <1>7, <1>8, <1>9

-----------------------------------------------------------------------------
(***************************************************************************)
(* What a transaction knows survives the steps of the others.              *)
(***************************************************************************)

\* What the rows that u has locked tell is left alone, and nothing is taken away.
LeavesAlone(u) ==
  /\ Len(epochs) <= Len(epochs')
  /\ \A k \in ActiveEpochs : holder[EpochLock(k)] = u => k \in ActiveEpochs'
  /\ Len(ledger) <= Len(ledger')
  /\ \A i \in DOMAIN ledger :
       /\ ledger'[i].member = ledger[i].member /\ ledger'[i].kind = ledger[i].kind
       /\ holder[MintLock(i)] = u => ledger'[i] = ledger[i]
  /\ \A k \in DOMAIN epochs :
       holder[EpochLock(k)] = u => MaturingAt(k + 1)' \subseteq MaturingAt(k + 1)
  /\ holder[StateLock] = u => supply' = supply
  /\ \A m \in Members : holder[BalanceLock(m)] = u => balance'[m] = balance[m]
  /\ \A p \in Proposals :
       holder[ProposalLock(p)] = u /\ proposal[p].status # None => proposal'[p].status = proposal[p].status
  /\ \A r \in Requests : request[r].status # None => request'[r].status # None

\* The members that a transaction's locks name stay the ones they were.
LEMMA MemberOfKept ==
  ASSUME NEW u \in Txns, Given(u), LeavesAlone(u), txn'[u] = txn[u],
         txn[u].kind \in {"mint", "execute", "reverse"}
  PROVE  MemberOf(txn[u])' = MemberOf(txn[u])
<1>1. CASE txn[u].kind = "mint"
  BY <1>1 DEF MemberOf
<1>2. CASE txn[u].kind = "execute"
  BY <1>2 DEF MemberOf
<1>3. CASE txn[u].kind = "reverse"
  <2>1. ledger'[txn[u].in.id].member = ledger[txn[u].in.id].member
    BY <1>3 DEF Given, GivenTo, LeavesAlone
  <2> QED
    BY <1>3, <2>1 DEF MemberOf
<1> QED
  BY <1>1, <1>2, <1>3 DEF Locks

LEMMA MemberOfType ==
  ASSUME NEW u \in Txns, LedgerRows, Given(u), Read(u), txn[u].kind \in {"mint", "execute", "reverse"},
         txn[u].kind = "execute" => Left(u) <= 2
  PROVE  MemberOf(txn[u]) \in Members
<1>1. CASE txn[u].kind = "mint"
  BY <1>1, ContributionAssumption DEF MemberOf, Given, GivenTo
<1>2. CASE txn[u].kind = "execute"
  BY <1>2, NoneAssumption DEF MemberOf, Read, RequestOK
<1>3. CASE txn[u].kind = "reverse"
  <2>1. ledger[txn[u].in.id] \in EntryRow
    BY <1>3 DEF Given, GivenTo, LedgerRows
  <2> QED
    BY <1>3, <2>1 DEF MemberOf, EntryRow
<1> QED
  BY <1>1, <1>2, <1>3 DEF Locks

LEMMA FrameOfOthers ==
  ASSUME RowsTyped, RowsTyped', TxnsTyped, NEW u \in Txns, Sound(u), txn'[u] = txn[u],
         \A row \in Rows : holder'[row] = u <=> holder[row] = u,
         LeavesAlone(u)
  PROVE  Sound(u)'
<1> DEFINE x == txn[u]
<1>0. Left(u)' = Left(u) /\ txn'[u] = txn[u]
  BY DEF Left
<1>1. Follows(u)'
  BY <1>0 DEF Sound, Follows
<1>2. DOMAIN epochs \subseteq DOMAIN epochs' /\ DOMAIN ledger \subseteq DOMAIN ledger'
  BY DEF RowsTyped, LedgerRows, LeavesAlone
<1>3. Given(u)'
  BY <1>2 DEF Sound, Given, GivenTo, LeavesAlone
<1>4. Read(u)'
  BY <1>0, <1>2 DEF Sound, Read, RequestOK, LeavesAlone
<1>5. Ordered(u)'
  BY <1>0 DEF Sound, Ordered
<1>6. Given(u) /\ Read(u) /\ Locks(u)
  BY DEF Sound
<1>7. txn[u].kind \in {"mint", "execute", "reverse"} => MemberOf(txn[u])' = MemberOf(txn[u])
  BY <1>6, MemberOfKept
<1>8. \A i \in 1 .. MaxLedger : MintLock(i) \in Rows
  BY RowsApart
<1>9. Waiting(u)'
  <2>1. x.rows \subseteq Rows
    BY DEF TxnsTyped, TxnRow
  <2>2. \A row \in x.rows : holder'[row] # u
    BY <1>6, <2>1 DEF Locks, Waiting
  <2>3. \A m \in Members :
          txn[u].kind \in {"mint", "execute", "reverse"} /\ BalanceLock(m) \in x.rows => m = MemberOf(txn[u])'
    BY <1>6, <1>7 DEF Locks, Waiting
  <2> QED
    BY <1>0, <1>6, <2>2, <2>3 DEF Locks, Waiting
<1>10. StateKnown(u)'
  BY <1>0, <1>6, RowsApart DEF Locks, StateKnown, StateTaken, LeavesAlone
<1>11. BalanceKnown(u)'
  <2> SUFFICES ASSUME BalanceTaken(u)' PROVE BalanceKnown(u)'
    BY DEF BalanceKnown
  <2>1. BalanceTaken(u) /\ txn[u].kind \in {"mint", "execute", "reverse"}
    BY <1>0 DEF BalanceTaken
  <2> DEFINE m == MemberOf(x)
  <2>2. m \in Members /\ MemberOf(txn[u])' = m
    <3>1. txn[u].kind = "execute" => Left(u) <= 2
      BY <2>1 DEF BalanceTaken
    <3> QED
      BY <1>6, <1>7, <2>1, <3>1, MemberOfType DEF RowsTyped
  <2>3. BalanceLock(m) \in Rows
    BY <2>2, RowsApart
  <2> HIDE DEF m
  <2>4. BalanceLock(m) \in x.rows \/ (holder[BalanceLock(m)] = u /\ x.seen.balance = balance[m])
    BY <1>6, <2>1 DEF Locks, BalanceKnown, m
  <2>5. BalanceLock(m) \in x.rows \/ (holder'[BalanceLock(m)] = u /\ x.seen.balance = balance'[m])
    BY <2>2, <2>3, <2>4 DEF LeavesAlone
  <2> QED
    BY <2>2, <2>5 DEF BalanceKnown
<1>12. MintKnown(u)'
  <2> SUFFICES ASSUME x.kind = "reverse" PROVE MintKnown(u)'
    BY DEF MintKnown
  <2>1. x.in.id \in DOMAIN ledger
    BY <1>6 DEF Given, GivenTo
  <2>2. MintLock(x.in.id) \in Rows
    BY <2>1, OpenedRows DEF RowsTyped
  <2> QED
    BY <1>6, <2>1, <2>2 DEF Locks, MintKnown, LeavesAlone
<1>13. ProposalKnown(u)'
  <2> SUFFICES ASSUME x.kind \in {"activate", "castVote", "end"} PROVE ProposalKnown(u)'
    BY DEF ProposalKnown
  <2>1. x.in.id \in Proposals
    BY <1>6 DEF Given, GivenTo
  <2> QED
    BY <1>6, <2>1, RowsApart DEF Locks, ProposalKnown, LeavesAlone
<1>14. EpochKnown(u)'
  <2>1. \A k \in DOMAIN epochs : EpochLock(k) \in Rows
    BY OpenedRows DEF RowsTyped
  <2>2. ActiveEpochs \subseteq DOMAIN epochs
    BY DEF ActiveEpochs
  <2>3. txn[u].kind = "close" => x.in.id \in DOMAIN epochs
    BY <1>6 DEF Given, GivenTo
  <2>4. EpochKnown(u)
    BY <1>6 DEF Locks
  <2>5. txn[u].kind \in {"mint", "execute", "activate", "createRequest", "close"} /\ x.seen.epoch # 0 =>
          x.seen.epoch \in ActiveEpochs' /\ holder'[EpochLock(x.seen.epoch)] = u
    BY <2>1, <2>2, <2>4 DEF EpochKnown, LeavesAlone
  <2>6. txn[u].kind = "close" =>
          EpochLock(x.in.id) \in x.rows \/ holder'[EpochLock(x.in.id)] = u
    BY <2>1, <2>3, <2>4 DEF EpochKnown
  <2> QED
    BY <1>0, <2>4, <2>5, <2>6 DEF EpochKnown
<1>15. SwitchKnown(u)'
  <2>1. txn[u].kind = "close" /\ Left(u) = 0 =>
          \A m \in Members : BalanceLock(m) \in x.rows \/ holder'[BalanceLock(m)] = u
    BY <1>6, RowsApart DEF Locks, SwitchKnown
  <2>2. txn[u].kind = "genesis" /\ Left(u) = 0 =>
          \A k \in DOMAIN Allocation :
            LET row == BalanceLock(Allocation[k].member) IN row \in x.rows \/ holder'[row] = u
    <3>1. \A k \in DOMAIN Allocation : BalanceLock(Allocation[k].member) \in Rows
      BY RowsApart, AllocatedTo
    <3> QED
      BY <1>6, <3>1 DEF Locks, SwitchKnown
  <2>3. ASSUME x.kind = "close", Left(u) <= 1, NEW i \in MaturingAt(x.in.id + 1)'
        PROVE  MintLock(i) \in x.rows \/ holder'[MintLock(i)] = u
    <3>1. x.in.id \in DOMAIN epochs /\ holder[EpochLock(x.in.id)] = u
      <4>1. x.in.id \in DOMAIN epochs
        BY <1>6, <2>3 DEF Given, GivenTo
      <4>2. x.in.id # 0 /\ x.seen.epoch = x.in.id
        <5>1. Left(u) \in Nat
          BY DEF Left, TxnsTyped, TxnRow
        <5>2. x.in.id # 0
          BY <4>1 DEF RowsTyped, LedgerRows
        <5> QED
          BY <1>6, <2>3, <5>1, <5>2 DEF Locks, EpochKnown
      <4> QED
        BY <1>6, <2>3, <4>1, <4>2 DEF Locks, EpochKnown
    <3>2. i \in MaturingAt(x.in.id + 1)
      BY <2>3, <3>1 DEF LeavesAlone
    <3>3. MintLock(i) \in x.rows \/ holder[MintLock(i)] = u
      BY <1>6, <2>3, <3>2 DEF Locks, SwitchKnown
    <3>4. MintLock(i) \in Rows
      BY <3>2, RowsApart, BoundsAssumption DEF MaturingAt, RowsTyped, LedgerRows
    <3> QED
      BY <3>3, <3>4
  <2> QED
    BY <1>0, <2>1, <2>2, <2>3 DEF SwitchKnown
<1> QED
  BY <1>1, <1>3, <1>4, <1>5, <1>9, <1>10, <1>11, <1>12, <1>13, <1>14, <1>15 DEF Sound, Locks

\* A transaction that is over has nothing to know.
LEMMA NothingToKnow ==
  ASSUME NEW t \in Txns, txn'[t] = Idle, \A row \in Rows : holder'[row] # t
  PROVE  Sound(t)' /\ TxnRow(txn[t])'
<1>1. /\ txn'[t].kind = None /\ txn'[t].todo = << >> /\ txn'[t].rows = {}
      /\ txn'[t].in = NoInput /\ txn'[t].seen = Unseen
  BY DEF Idle
<1>2. Left(t)' = 0
  BY <1>1 DEF Left
<1>4. \A kind \in TxnKinds : txn'[t].kind # kind
  BY <1>1, NoneAssumption DEF TxnKinds
<1>5. Given(t)'
  BY <1>1, <1>4 DEF Given, GivenTo, NoInput, TxnKinds
<1>6. NoRequest \in RequestRow /\ NoBalance \in BalanceRow
  BY DEF NoRequest, NoBalance, RequestRow, BalanceRow, RequestStatus
<1>7. Unseen \in SeenRow
  BY <1>6 DEF Unseen, SeenRow, ProposalStatus
<1>8. Read(t)'
  BY <1>1, <1>4, <1>6 DEF Read, RequestOK, TxnKinds, Unseen, NoRequest
<1>9. Follows(t)' /\ Ordered(t)'
  BY <1>1 DEF Follows, Ordered
<1>10. TxnRow(txn[t])'
  BY <1>1, <1>7 DEF TxnRow, Idle
<1>11. Locks(t)'
  BY <1>1, <1>4 DEF Locks, Waiting, StateKnown, StateTaken, BalanceKnown, BalanceTaken, MintKnown,
       ProposalKnown, EpochKnown, SwitchKnown, TxnKinds
<1> QED
  BY <1>5, <1>8, <1>9, <1>10, <1>11 DEF Sound

-----------------------------------------------------------------------------
(***************************************************************************)
(* The steps that leave the rows alone: a transaction starts, goes on,     *)
(* locks a row or gives up.                                                *)
(***************************************************************************)

\* A community begins without rows and without transactions.
LEMMA EngineInit == DatabaseInit => EngineInv
<1> SUFFICES ASSUME DatabaseInit PROVE EngineInv
  OBVIOUS
<1> USE DEF DatabaseInit
<1>1. NoRequest \in RequestRow /\ NoRequest.status = None /\ NoBalance \in BalanceRow
  BY DEF NoRequest, NoBalance, RequestRow, BalanceRow, RequestStatus
<1>2. NoProposal \in ProposalRow
  BY DEF NoProposal, ProposalRow, ProposalStatus
<1>3. [version |-> 1, rates |-> GenesisRates, pending |-> None] \in PolicyRow
  BY InputsAssumption DEF PolicyRow
<1>4. LedgerRows
  BY <1>1, BoundsAssumption DEF LedgerRows
<1>5. GovernanceRows
  <2>1. NoProposal.status = None
    BY DEF NoProposal
  <2> QED
    BY <1>1, <1>2, <1>3, <2>1 DEF GovernanceRows, RequestOK
<1>6. Unseen \in SeenRow
  BY <1>1 DEF Unseen, SeenRow, ProposalStatus
<1>7. TxnRow(Idle)
  BY <1>6 DEF TxnRow, Idle
<1>8. TxnsTyped
  BY <1>7, NotATransaction DEF TxnsTyped
<1>9. ASSUME NEW t \in Txns PROVE Sound(t)
  <2>1. txn[t] = Idle /\ \A row \in Rows : holder[row] # t
    BY NotATransaction
  <2>2. /\ txn[t].kind = None /\ txn[t].todo = << >> /\ txn[t].rows = {}
        /\ txn[t].in = NoInput /\ txn[t].seen = Unseen
    BY <2>1 DEF Idle
  <2>3. \A kind \in TxnKinds : txn[t].kind # kind
    BY <2>2, NoneAssumption DEF TxnKinds
  <2> HIDE DEF DatabaseInit
  <2>4. Given(t)
    BY <2>2, <2>3 DEF Given, GivenTo, NoInput, TxnKinds
  <2>5. Read(t)
    BY <1>1, <2>2, <2>3 DEF Read, RequestOK, TxnKinds, Unseen
  <2>6. Follows(t) /\ Ordered(t)
    BY <2>1, <2>2 DEF Follows, Ordered
  <2>7. Locks(t)
    BY <2>2, <2>3 DEF Locks, Waiting, StateKnown, StateTaken, BalanceKnown, BalanceTaken, MintKnown,
         ProposalKnown, EpochKnown, SwitchKnown, TxnKinds
  <2> QED
    BY <2>4, <2>5, <2>6, <2>7 DEF Sound
<1> QED
  BY <1>4, <1>5, <1>8, <1>9 DEF EngineInv, RowsTyped

\* When the rows are left alone, so is what the others know.
LEMMA NothingWritten ==
  ASSUME RowsTyped, UNCHANGED tables
  PROVE  RowsTyped' /\ \A u \in Txns : LeavesAlone(u)
<1>1. RowsTyped'
  BY DEF RowsTyped, LedgerRows, GovernanceRows, RequestOK, tables
<1>2. Len(epochs) \in Nat /\ Len(ledger) \in Nat
  BY DEF RowsTyped, LedgerRows
<1>3. ActiveEpochs' = ActiveEpochs /\ \A k : MaturingAt(k)' = MaturingAt(k)
  BY DEF ActiveEpochs, MaturingAt, tables
<1> QED
  BY <1>1, <1>2, <1>3 DEF LeavesAlone, tables

\* One transaction moves, and the others keep what they know.
LEMMA OneMoves ==
  ASSUME EngineInv, RowsTyped', NEW t \in Txns, TxnsTyped', Sound(t)',
         \A u \in Txns \ {t} :
           /\ txn'[u] = txn[u] /\ LeavesAlone(u)
           /\ \A row \in Rows : holder'[row] = u <=> holder[row] = u
  PROVE  EngineInv'
<1>1. \A u \in Txns \ {t} : Sound(u)'
  BY FrameOfOthers DEF EngineInv
<1> QED
  BY <1>1 DEF EngineInv

\* The first statement of a plan, and what is left after it.
LEMMA FirstOfPlan ==
  /\ Head(PlanOf("mint")) = "priorMint" /\ Head(PlanOf("execute")) = "request"
  /\ Head(PlanOf("reverse")) = "mint" /\ Head(PlanOf("close")) = "epoch"
  /\ Head(PlanOf("activate")) = "proposal" /\ Head(PlanOf("genesis")) = "seeded"
  /\ Head(PlanOf("createNext")) = "openEpoch" /\ Head(PlanOf("createRequest")) = "activeEpoch"
  /\ Head(PlanOf("secondApprove")) = "request" /\ Head(PlanOf("reject")) = "request"
  /\ Head(PlanOf("attach")) = "request" /\ Head(PlanOf("castVote")) = "proposal"
  /\ Head(PlanOf("end")) = "proposal"
<1>1. /\ Head(PlanOf("mint")) = "priorMint" /\ Head(PlanOf("execute")) = "request"
      /\ Head(PlanOf("reverse")) = "mint"
  BY DEF PlanOf, MintPlan, ExecutePlan, ReversePlan
<1>2. /\ Head(PlanOf("close")) = "epoch"
      /\ Head(PlanOf("activate")) = "proposal" /\ Head(PlanOf("genesis")) = "seeded"
  BY DEF PlanOf, ClosePlan, ActivatePlan
<1>3. /\ Head(PlanOf("createNext")) = "openEpoch" /\ Head(PlanOf("createRequest")) = "activeEpoch"
      /\ Head(PlanOf("secondApprove")) = "request" /\ Head(PlanOf("reject")) = "request"
  BY DEF PlanOf
<1>4. /\ Head(PlanOf("attach")) = "request" /\ Head(PlanOf("castVote")) = "proposal"
      /\ Head(PlanOf("end")) = "proposal"
  BY DEF PlanOf
<1> QED
  BY <1>1, <1>2, <1>3, <1>4

LEMMA RestOfPlan ==
  ASSUME NEW kind \in TxnKinds
  PROVE  /\ Tail(PlanOf(kind)) \in Seq(Statements)
         /\ Len(Tail(PlanOf(kind))) = Len(PlanOf(kind)) - 1
         /\ \A k \in 1 .. Len(PlanOf(kind)) - 1 : Tail(PlanOf(kind))[k] = PlanOf(kind)[1 + k]
<1>1. PICK plan \in Seq(Statements) : plan = PlanOf(kind)
  BY PlansAreSequences
<1>2. Len(plan) > 0
  <2>1. Len(PlanOf(kind)) \in 1 .. 5
    BY PlanLengths DEF TxnKinds
  <2> QED
    BY <1>1, <2>1
<1>3. plan # << >>
  BY <1>2
<1>4. /\ Tail(plan) \in Seq(Statements) /\ Len(Tail(plan)) = Len(plan) - 1
      /\ \A k \in 1 .. Len(plan) - 1 : Tail(plan)[k] = plan[k + 1]
  BY <1>2, <1>3, HeadTailProperties
<1>5. \A k \in 1 .. Len(plan) - 1 : k + 1 = 1 + k
  BY <1>2
<1> QED
  BY <1>1, <1>4, <1>5

\* The active epoch is one that has been opened.
LEMMA ActiveIsOpened ==
  ASSUME LedgerRows
  PROVE  ActiveEpochs \subseteq 1 .. Len(epochs) /\ ActiveEpochs \subseteq 1 .. MaxEpoch
         /\ SomeActiveEpoch \in Nat
BY BoundsAssumption DEF LedgerRows, ActiveEpochs, SomeActiveEpoch

\* A transaction with some of its fields replaced.
Fields == {"kind", "in", "todo", "rows", "seen"}

LEMMA TxnBegun ==
  ASSUME NEW x, x = [kind |-> x.kind, in |-> x.in, todo |-> x.todo, rows |-> x.rows, seen |-> x.seen],
         NEW kind, NEW in, NEW todo
  PROVE  [x EXCEPT !.kind = kind, !.in = in, !.todo = todo] =
           [kind |-> kind, in |-> in, todo |-> todo, rows |-> x.rows, seen |-> x.seen]
<1>1. PICK y : y = [x EXCEPT !.kind = kind, !.in = in, !.todo = todo]
  OBVIOUS
<1>2. PICK z : z = [kind |-> kind, in |-> in, todo |-> todo, rows |-> x.rows, seen |-> x.seen]
  OBVIOUS
<1>3. y = z
  <2>1. DOMAIN y = Fields /\ DOMAIN z = Fields
    BY <1>1, <1>2 DEF Fields
  <2>2. y.kind = z.kind /\ y.in = z.in /\ y.todo = z.todo /\ y.rows = z.rows /\ y.seen = z.seen
    BY <1>1, <1>2
  <2>3. y = [f \in Fields |-> y[f]] /\ z = [f \in Fields |-> z[f]]
    BY <1>1, <1>2 DEF Fields
  <2> QED
    BY <2>1, <2>2, <2>3 DEF Fields
<1> QED
  BY <1>1, <1>2, <1>3

LEMMA TxnAdvanced ==
  ASSUME NEW x, x = [kind |-> x.kind, in |-> x.in, todo |-> x.todo, rows |-> x.rows, seen |-> x.seen],
         NEW todo, NEW rows, NEW seen
  PROVE  [x EXCEPT !.todo = todo, !.seen = seen, !.rows = rows] =
           [kind |-> x.kind, in |-> x.in, todo |-> todo, rows |-> rows, seen |-> seen]
<1>4. PICK v : v = [x EXCEPT !.todo = todo, !.seen = seen, !.rows = rows]
  OBVIOUS
<1>5. PICK w : w = [kind |-> x.kind, in |-> x.in, todo |-> todo, rows |-> rows, seen |-> seen]
  OBVIOUS
<1>6. v = w
  <2>1. DOMAIN v = Fields /\ DOMAIN w = Fields
    BY <1>4, <1>5 DEF Fields
  <2>2. v.kind = w.kind /\ v.in = w.in /\ v.todo = w.todo /\ v.rows = w.rows /\ v.seen = w.seen
    BY <1>4, <1>5
  <2>3. v = [f \in Fields |-> v[f]] /\ w = [f \in Fields |-> w[f]]
    BY <1>4, <1>5 DEF Fields
  <2> QED
    BY <2>1, <2>2, <2>3 DEF Fields
<1> QED
  BY <1>4, <1>5, <1>6

LEMMA TxnLocked ==
  ASSUME NEW x, x = [kind |-> x.kind, in |-> x.in, todo |-> x.todo, rows |-> x.rows, seen |-> x.seen],
         NEW rows, NEW seen
  PROVE  [x EXCEPT !.rows = rows, !.seen = seen] =
           [kind |-> x.kind, in |-> x.in, todo |-> x.todo, rows |-> rows, seen |-> seen]
<1>7. PICK a : a = [x EXCEPT !.rows = rows, !.seen = seen]
  OBVIOUS
<1>8. PICK b : b = [kind |-> x.kind, in |-> x.in, todo |-> x.todo, rows |-> rows, seen |-> seen]
  OBVIOUS
<1>9. a = b
  <2>1. DOMAIN a = Fields /\ DOMAIN b = Fields
    BY <1>7, <1>8 DEF Fields
  <2>2. a.kind = b.kind /\ a.in = b.in /\ a.todo = b.todo /\ a.rows = b.rows /\ a.seen = b.seen
    BY <1>7, <1>8
  <2>3. a = [f \in Fields |-> a[f]] /\ b = [f \in Fields |-> b[f]]
    BY <1>7, <1>8 DEF Fields
  <2> QED
    BY <2>1, <2>2, <2>3 DEF Fields
<1> QED
  BY <1>7, <1>8, <1>9

\* A transaction that does nothing yet: its first statement.
Begun(kind, in) ==
  [kind |-> kind, in |-> in, todo |-> PlanOf(kind), rows |-> {}, seen |-> Unseen]

LEMMA StartShape ==
  ASSUME EngineInv, NEW t \in Txns, NEW kind \in TxnKinds, NEW in, Start(t, kind, in)
  PROVE  /\ UNCHANGED <<tables, holder>>
         /\ txn' = [txn EXCEPT ![t] = txn'[t]]
         /\ txn'[t] =
              [kind |-> kind, in |-> in, todo |-> Tail(PlanOf(kind)),
               rows |-> {r \in RowsOf(Begun(kind, in), Head(PlanOf(kind))) : holder[r] # t},
               seen |-> ReadBy(Begun(kind, in), Head(PlanOf(kind)))]
         /\ \A row \in Rows : holder[row] # t
<1>1. [Idle EXCEPT !.kind = kind, !.in = in, !.todo = PlanOf(kind)] = Begun(kind, in)
  <2>1. /\ Idle = [kind |-> Idle.kind, in |-> Idle.in, todo |-> Idle.todo, rows |-> Idle.rows, seen |-> Idle.seen]
        /\ Idle.rows = {} /\ Idle.seen = Unseen
    BY DEF Idle
  <2>2. [Idle EXCEPT !.kind = kind, !.in = in, !.todo = PlanOf(kind)] =
          [kind |-> kind, in |-> in, todo |-> PlanOf(kind), rows |-> Idle.rows, seen |-> Idle.seen]
    <3>1. PICK x : x = Idle
      OBVIOUS
    <3>2. PICK plan : plan = PlanOf(kind)
      OBVIOUS
    <3>4. x = [kind |-> x.kind, in |-> x.in, todo |-> x.todo, rows |-> x.rows, seen |-> x.seen]
      BY <2>1, <3>1
    <3>5. PICK y : y = [x EXCEPT !.kind = kind, !.in = in, !.todo = plan]
      OBVIOUS
    <3>6. y = [kind |-> kind, in |-> in, todo |-> plan, rows |-> x.rows, seen |-> x.seen]
      BY ONLY <3>4, <3>5, TxnBegun
    <3>3. [x EXCEPT !.kind = kind, !.in = in, !.todo = plan] =
            [kind |-> kind, in |-> in, todo |-> plan, rows |-> x.rows, seen |-> x.seen]
      BY ONLY <3>5, <3>6
    <3> QED
      BY ONLY <3>1, <3>2, <3>3
  <2> QED
    BY <2>1, <2>2 DEF Begun
<1>2. txn' = [txn EXCEPT ![t] = Advanced(t, Begun(kind, in))]
  BY <1>1 DEF Start
<1>3. Advanced(t, Begun(kind, in)) =
        [kind |-> kind, in |-> in, todo |-> Tail(PlanOf(kind)),
         rows |-> {r \in RowsOf(Begun(kind, in), Head(PlanOf(kind))) : holder[r] # t},
         seen |-> ReadBy(Begun(kind, in), Head(PlanOf(kind)))]
  <2>1. PICK x : x = Begun(kind, in)
    OBVIOUS
  <2>2. x = [kind |-> x.kind, in |-> x.in, todo |-> x.todo, rows |-> x.rows, seen |-> x.seen]
    BY <2>1 DEF Begun
  <2>3. x.kind = kind /\ x.in = in /\ x.todo = PlanOf(kind)
    BY <2>1 DEF Begun
  <2>4. Advanced(t, x) =
          [x EXCEPT !.todo = Tail(x.todo), !.seen = ReadBy(x, Head(x.todo)),
                    !.rows = {r \in RowsOf(x, Head(x.todo)) : holder[r] # t}]
    BY DEF Advanced
  <2>5. Advanced(t, x) =
          [kind |-> x.kind, in |-> x.in, todo |-> Tail(x.todo),
           rows |-> {r \in RowsOf(x, Head(x.todo)) : holder[r] # t}, seen |-> ReadBy(x, Head(x.todo))]
    BY ONLY <2>2, <2>4, TxnAdvanced
  <2> QED
    BY ONLY <2>1, <2>3, <2>5
<1>4. \A row \in Rows : holder[row] # t
  <2>1. txn[t].kind = None
    BY DEF Start, Idle
  <2> QED
    BY <2>1, NotATransaction DEF EngineInv, TxnsTyped
<1> QED
  BY <1>2, <1>3, <1>4 DEF EngineInv, TxnsTyped, Start

\* What the first statement locks.
FirstLocks(kind, in) == RowsOf(Begun(kind, in), Head(PlanOf(kind)))

LEMMA FirstRows ==
  ASSUME LedgerRows, NEW kind \in TxnKinds, NEW in, GivenTo(kind, in)
  PROVE  /\ FirstLocks(kind, in) \subseteq Rows
         /\ kind # "close" => \A row \in FirstLocks(kind, in) : Rank(row) = Level(kind, Len(PlanOf(kind)) - 1)
         /\ kind = "reverse" => FirstLocks(kind, in) = {MintLock(in.id)} /\ MintLock(in.id) \in Rows
         /\ kind = "close" => FirstLocks(kind, in) = {EpochLock(in.id)} /\ EpochLock(in.id) \in Rows
         /\ kind \in {"activate", "castVote", "end"} =>
              FirstLocks(kind, in) = {ProposalLock(in.id)} /\ ProposalLock(in.id) \in Rows
         /\ kind \in {"mint", "execute", "genesis", "createNext", "secondApprove", "reject", "attach"} => FirstLocks(kind, in) = {}
<1>0. PICK rows : rows = FirstLocks(kind, in)
  OBVIOUS
<1>1. CASE kind = "reverse"
  <2>1. rows = {MintLock(in.id)}
    BY <1>1, <1>0, FirstOfPlan DEF FirstLocks, RowsOf, Begun
  <2>2. in.id \in 1 .. MaxLedger
    BY <1>1, BoundsAssumption DEF GivenTo, LedgerRows
  <2> QED
    BY <1>0, <1>1, <2>1, <2>2, RowsApart, PlanLengths DEF Level
<1>2. CASE kind = "close"
  <2>1. rows = {EpochLock(in.id)}
    BY <1>2, <1>0, FirstOfPlan DEF FirstLocks, RowsOf, Begun
  <2>2. in.id \in 1 .. MaxEpoch
    BY <1>2, BoundsAssumption DEF GivenTo, LedgerRows
  <2> QED
    BY <1>0, <1>2, <2>1, <2>2, RowsApart, PlanLengths DEF Level
<1>3. CASE kind \in {"activate", "castVote", "end"}
  <2>1. rows = {ProposalLock(in.id)}
    BY <1>3, <1>0, FirstOfPlan DEF FirstLocks, RowsOf, Begun
  <2>2. in.id \in Proposals
    BY <1>3 DEF GivenTo
  <2> QED
    BY <1>0, <1>3, <2>1, <2>2, RowsApart, PlanLengths DEF Level
<1>4. CASE kind \in {"mint", "execute", "genesis", "createNext", "secondApprove", "reject", "attach"}
  <2>1. rows = {}
    BY <1>4, <1>0, FirstOfPlan DEF FirstLocks, RowsOf, Begun
  <2> QED
    BY <1>0, <1>4, <2>1
<1>5. CASE kind = "createRequest"
  <2>1. rows = {EpochLock(n) : n \in ActiveEpochs}
    BY <1>5, <1>0, FirstOfPlan DEF FirstLocks, RowsOf, Begun
  <2> QED
    BY <1>0, <1>5, <2>1, ActiveIsOpened, RowsApart, PlanLengths DEF Level
<1> QED
  BY <1>0, <1>1, <1>2, <1>3, <1>4, <1>5 DEF TxnKinds

\* What the first statement reads.
LEMMA FirstRead ==
  ASSUME RowsTyped, NEW kind \in TxnKinds, NEW in, GivenTo(kind, in),
         NEW seen, seen = ReadBy(Begun(kind, in), Head(PlanOf(kind)))
  PROVE  /\ seen \in SeenRow
         /\ RequestOK(seen.request)
         /\ seen.request.status # None => in.request \in Requests /\ request[in.request].status # None
         /\ kind # "createNext" => seen.epoch = 0
         /\ seen.status = None
<1>1. NoRequest \in RequestRow /\ NoRequest.status = None /\ NoBalance \in BalanceRow
  BY DEF NoRequest, NoBalance, RequestRow, BalanceRow, RequestStatus
<1>2. /\ Unseen \in SeenRow /\ RequestOK(Unseen.request) /\ Unseen.request.status = None
      /\ Unseen.epoch = 0 /\ Unseen.status = None
  BY <1>1 DEF Unseen, SeenRow, ProposalStatus, RequestOK
<1>3. CASE kind \in {"mint", "genesis"}
  <2>1. PICK b \in BOOLEAN : seen = [Unseen EXCEPT !.used = b]
    BY <1>3, FirstOfPlan DEF ReadBy, Begun, MintedFor
  <2> QED
    BY <1>2, <1>3, <2>1 DEF SeenRow
<1>4. CASE kind \in {"execute", "secondApprove", "reject", "attach"}
  <2>1. in.request \in Requests /\ in.request # None
    BY <1>4, NoneAssumption DEF GivenTo
  <2>2. seen = [Unseen EXCEPT !.request = request[in.request]]
    BY <1>4, <2>1, FirstOfPlan DEF ReadBy, Begun
  <2>3. RequestOK(request[in.request])
    BY <2>1 DEF RowsTyped, GovernanceRows
  <2>4. request[in.request] \in RequestRow
    BY <2>3 DEF RequestOK
  <2>5. seen \in SeenRow /\ seen.epoch = 0 /\ seen.status = None /\ seen.request = request[in.request]
    BY <1>2, <2>2, <2>4 DEF SeenRow
  <2> QED
    BY <1>4, <2>1, <2>3, <2>5
<1>5. CASE kind = "createNext"
  <2>1. PICK b \in BOOLEAN, n \in Nat : seen = [Unseen EXCEPT !.used = b, !.epoch = n]
    BY <1>5, FirstOfPlan, ActiveIsOpened DEF ReadBy, Begun, RowsTyped
  <2> QED
    BY <1>2, <1>5, <2>1 DEF SeenRow
<1>6. CASE kind \in {"reverse", "close", "activate", "createRequest", "castVote", "end"}
  <2>1. seen = Unseen
    BY <1>6, FirstOfPlan DEF ReadBy, Begun
  <2> QED
    BY <1>2, <1>6, <2>1
<1> QED
  BY <1>3, <1>4, <1>5, <1>6 DEF TxnKinds

\* A transaction starts with what it was given.
LEMMA StartKeeps ==
  ASSUME EngineInv, NEW t \in Txns, NEW kind \in TxnKinds, NEW in, GivenTo(kind, in), Start(t, kind, in)
  PROVE  EngineInv'
<1>1. /\ UNCHANGED <<tables, holder>>
      /\ txn' = [txn EXCEPT ![t] = txn'[t]]
      /\ txn'[t] =
           [kind |-> kind, in |-> in, todo |-> Tail(PlanOf(kind)),
            rows |-> {r \in RowsOf(Begun(kind, in), Head(PlanOf(kind))) : holder[r] # t},
            seen |-> ReadBy(Begun(kind, in), Head(PlanOf(kind)))]
      /\ \A row \in Rows : holder[row] # t
  BY StartShape
<1>2. RowsTyped' /\ \A u \in Txns : LeavesAlone(u)
  BY <1>1, NothingWritten DEF EngineInv
<1>3. PICK rows : rows = FirstLocks(kind, in)
  OBVIOUS
<1>4. PICK seen : seen = ReadBy(Begun(kind, in), Head(PlanOf(kind)))
  OBVIOUS
<1>5. /\ rows \subseteq Rows
      /\ kind # "close" => \A row \in rows : Rank(row) = Level(kind, Len(PlanOf(kind)) - 1)
      /\ kind = "reverse" => rows = {MintLock(in.id)} /\ MintLock(in.id) \in Rows
      /\ kind = "close" => rows = {EpochLock(in.id)} /\ EpochLock(in.id) \in Rows
      /\ kind \in {"activate", "castVote", "end"} =>
           rows = {ProposalLock(in.id)} /\ ProposalLock(in.id) \in Rows
      /\ kind \in {"mint", "execute", "genesis", "createNext", "secondApprove", "reject", "attach"} => rows = {}
  <2>1. LedgerRows
    BY DEF EngineInv, RowsTyped
  <2> QED
    BY <2>1, <1>3, FirstRows
<1>6. /\ seen \in SeenRow
      /\ RequestOK(seen.request)
      /\ seen.request.status # None => in.request \in Requests /\ request[in.request].status # None
      /\ kind # "createNext" => seen.epoch = 0
      /\ seen.status = None
  BY <1>4, FirstRead DEF EngineInv
<1>7. {r \in rows : holder[r] # t} = rows
  BY <1>1, <1>5
<1>8. PICK todo : todo = Tail(PlanOf(kind))
  OBVIOUS
<1>9. /\ todo \in Seq(Statements) /\ Len(todo) = Len(PlanOf(kind)) - 1
      /\ \A k \in 1 .. Len(todo) : todo[k] = PlanOf(kind)[1 + k]
  BY <1>8, RestOfPlan
<1>10. txn'[t] = [kind |-> kind, in |-> in, todo |-> todo, rows |-> rows, seen |-> seen]
  BY <1>1, <1>3, <1>4, <1>7, <1>8 DEF FirstLocks
<1>11. /\ txn'[t].kind = kind /\ txn'[t].in = in /\ txn'[t].todo = todo
       /\ txn'[t].rows = rows /\ txn'[t].seen = seen /\ Left(t)' = Len(todo)
  BY <1>10 DEF Left
<1>12. Len(PlanOf(kind)) \in Nat /\ Len(todo) \in Nat
  BY <1>9, PlanLengths DEF TxnKinds
<1>13. kind # None
  BY NoneAssumption DEF TxnKinds
<1>14. TxnRow(txn[t])'
  BY <1>5, <1>6, <1>9, <1>10, <1>11 DEF TxnRow
<1>15. \A u \in Txns \ {t} : txn'[u] = txn[u]
  BY <1>1 DEF EngineInv, TxnsTyped
<1>16. TxnsTyped'
  <2>1. DOMAIN txn' = Txns /\ \A u \in Txns : TxnRow(txn[u])'
    BY <1>1, <1>14, <1>15, ZenonT(60) DEF EngineInv, TxnsTyped, TxnRow
  <2>2. \A row \in Rows : holder'[row] # Free => txn'[holder'[row]].kind # None
    BY <1>1, <1>15 DEF EngineInv, TxnsTyped
  <2> QED
    BY <1>1, <2>1, <2>2 DEF EngineInv, TxnsTyped
<1>17. Follows(t)'
  <2>1. Len(todo) < Len(PlanOf(kind))
    BY <1>9, <1>12
  <2>2. \A k \in 1 .. Len(todo) : todo[k] = PlanOf(kind)[Len(PlanOf(kind)) - Len(todo) + k]
    BY <1>9, <1>12
  <2> QED
    BY <1>11, <1>13, <2>1, <2>2 DEF Follows
<1>18. Given(t)'
  BY <1>1, <1>11 DEF Given, GivenTo, tables
<1>19. Left(t)' = Len(PlanOf(kind)) - 1
  BY <1>9, <1>11
<1>28. /\ kind = "mint" => Left(t)' = 4
       /\ kind = "execute" => Left(t)' = 3
       /\ kind \in {"reverse", "activate", "genesis", "end"} => Left(t)' = 2
       /\ kind = "close" => Left(t)' = 4
       /\ kind = "createNext" => Left(t)' = 1
  BY <1>19, PlanLengths
<1>29. txn'[t].kind = kind
  BY <1>11
<1>30. txn'[t].seen = seen
  BY <1>11
<1>31. txn'[t].rows = rows /\ txn'[t].in = in
  BY <1>11
<1>20. Read(t)'
  <2>1. RequestOK(seen.request)'
    BY <1>1, <1>6 DEF RequestOK, tables
  <2>2. kind = "execute" => ~(Left(t)' <= 2)
    BY <1>28
  <2>3. /\ kind = "close" => ~(Left(t)' <= 3)
        /\ kind = "createNext" => Left(t)' # 0
        /\ kind = "end" => ~(Left(t)' <= 1)
    BY <1>28
  <2> QED
    BY <1>1, <1>6, <2>1, <2>2, <2>3, <1>29, <1>30, <1>31 DEF Read, RequestOK, tables
<1>21. Ordered(t)'
  BY <1>1, <1>5, <1>11, <1>19 DEF Ordered
<1>22. Waiting(t)'
  <2>1. \A m \in Members : kind = "execute" => BalanceLock(m) \notin rows
    BY <1>5
  <2>2. \A m \in Members : kind \in {"mint", "reverse"} => BalanceLock(m) \notin rows
    BY <1>5 DEF BalanceLock, MintLock
  <2>3. \A row \in rows : holder'[row] # t
    BY <1>1, <1>5
  <2> QED
    BY <1>5, <1>11, <2>1, <2>2, <2>3, LocksInjective DEF Waiting
<1>23. ~StateTaken(t)' /\ ~BalanceTaken(t)'
  <2>2. ~StateTaken(t)'
    BY <1>29, <1>28 DEF StateTaken
  <2>3. ~BalanceTaken(t)'
    BY <1>29, <1>28 DEF BalanceTaken
  <2> QED
    BY <2>2, <2>3
<1>24. MintKnown(t)' /\ ProposalKnown(t)'
  BY <1>5, <1>11 DEF MintKnown, ProposalKnown
<1>25. EpochKnown(t)'
  BY <1>5, <1>6, <1>28, <1>29, <1>30, <1>31 DEF EpochKnown
<1>26. SwitchKnown(t)'
  BY <1>28, <1>29 DEF SwitchKnown
<1>27. Sound(t)'
  BY <1>17, <1>18, <1>20, <1>21, <1>22, <1>23, <1>24, <1>25, <1>26
     DEF Sound, Locks, StateKnown, BalanceKnown
<1> QED
  BY <1>1, <1>2, <1>15, <1>16, <1>27, OneMoves

-----------------------------------------------------------------------------

LEMMA StatementShape ==
  ASSUME EngineInv, NEW t \in Txns, Statement(t)
  PROVE  /\ UNCHANGED <<tables, holder>>
         /\ txn' = [txn EXCEPT ![t] = txn'[t]]
         /\ txn[t].rows = {}
         /\ txn'[t] =
              [kind |-> txn[t].kind, in |-> txn[t].in, todo |-> Tail(txn[t].todo),
               rows |-> {r \in RowsOf(txn[t], Head(txn[t].todo)) : holder[r] # t},
               seen |-> ReadBy(txn[t], Head(txn[t].todo))]
         /\ Continues(t, Head(txn[t].todo))
<1>1. txn' = [txn EXCEPT ![t] = Advanced(t, txn[t])]
  BY DEF Statement
<1>2. PICK x : x = txn[t]
  OBVIOUS
<1>3. x = [kind |-> x.kind, in |-> x.in, todo |-> x.todo, rows |-> x.rows, seen |-> x.seen]
  BY <1>2 DEF EngineInv, TxnsTyped, TxnRow
<1>4. Advanced(t, x) =
        [x EXCEPT !.todo = Tail(x.todo), !.seen = ReadBy(x, Head(x.todo)),
                  !.rows = {r \in RowsOf(x, Head(x.todo)) : holder[r] # t}]
  BY DEF Advanced
<1>5. Advanced(t, x) =
        [kind |-> x.kind, in |-> x.in, todo |-> Tail(x.todo),
         rows |-> {r \in RowsOf(x, Head(x.todo)) : holder[r] # t}, seen |-> ReadBy(x, Head(x.todo))]
  BY ONLY <1>3, <1>4, TxnAdvanced
<1>6. txn'[t] = Advanced(t, x)
  BY <1>1, <1>2 DEF EngineInv, TxnsTyped
<1> QED
  BY <1>1, <1>2, <1>5, <1>6 DEF Statement

\* What a statement reads without a lock, and what it leaves as it was.
LEMMA StatementRead ==
  ASSUME RowsTyped, NEW t \in Txns, TxnRow(txn[t]), Given(t), Read(t),
         NEW statement, Next1(txn[t].kind, Left(t), statement),
         NEW seen, seen = ReadBy(txn[t], statement)
  PROVE  /\ seen \in SeenRow /\ RequestOK(seen.request)
         /\ seen.request.status # None =>
              txn[t].in.request \in Requests /\ request[txn[t].in.request].status # None
         /\ seen.balance = txn[t].seen.balance /\ seen.mint = txn[t].seen.mint
         /\ seen.status = txn[t].seen.status
         /\ statement \notin {"closing", "lastEpoch"} => seen.supply = txn[t].seen.supply
         /\ statement \notin {"lastEpoch", "openEpoch"} => seen.epoch = txn[t].seen.epoch
         /\ statement # "request" => seen.request = txn[t].seen.request
         /\ statement \in {"closing", "lastEpoch", "policy"} => seen.policy = policy
         /\ statement \notin {"closing", "lastEpoch", "policy"} => seen.policy = txn[t].seen.policy
<1>1. PICK old : old = txn[t].seen
  OBVIOUS
<1>2. /\ old \in SeenRow /\ RequestOK(old.request)
      /\ old.request.status # None =>
           txn[t].in.request \in Requests /\ request[txn[t].in.request].status # None
  BY <1>1 DEF TxnRow, Read
<1>3. CASE statement = "request"
  <2>1. CASE txn[t].in.request # None
    <3>1. seen = [old EXCEPT !.request = request[txn[t].in.request]]
      BY <1>1, <1>3, <2>1 DEF ReadBy
    <3>2. txn[t].in.request \in Requests /\ RequestOK(request[txn[t].in.request])
      BY <2>1 DEF Given, GivenTo, RowsTyped, GovernanceRows
    <3>3. request[txn[t].in.request] \in RequestRow
      BY <3>2 DEF RequestOK
    <3> QED
      BY <1>1, <1>2, <1>3, <3>1, <3>2, <3>3 DEF SeenRow
  <2>2. CASE txn[t].in.request = None
    <3>1. seen = old
      BY <1>1, <1>3, <2>2 DEF ReadBy
    <3> QED
      BY <1>1, <1>2, <1>3, <3>1
  <2> QED
    BY <2>1, <2>2
<1>4. CASE statement = "closing"
  <2>1. seen = [old EXCEPT !.supply = supply, !.policy = policy]
    BY <1>1, <1>4 DEF ReadBy
  <2> QED
    BY <1>1, <1>2, <1>4, <2>1 DEF SeenRow, RowsTyped, LedgerRows, GovernanceRows
<1>5. CASE statement = "lastEpoch"
  <2>1. PICK n \in Nat : n = Len(epochs)
    BY DEF RowsTyped, LedgerRows
  <2>2. seen = [old EXCEPT !.epoch = n, !.supply = supply, !.policy = policy]
    BY <1>1, <1>5, <2>1 DEF ReadBy
  <2>3. supply \in Nat /\ policy \in PolicyRow
    BY DEF RowsTyped, LedgerRows, GovernanceRows
  <2>4. /\ seen.epoch = n /\ seen.supply = supply /\ seen.policy = policy
        /\ seen.used = old.used /\ seen.balance = old.balance /\ seen.mint = old.mint
        /\ seen.request = old.request /\ seen.status = old.status
    BY <1>2, <2>2 DEF SeenRow
  <2>5. seen \in SeenRow
    BY <1>2, <2>2, <2>3 DEF SeenRow
  <2> QED
    BY <1>1, <1>2, <1>5, <2>4, <2>5
<1>6. CASE statement = "policy"
  <2>1. seen = [old EXCEPT !.policy = policy]
    BY <1>1, <1>6 DEF ReadBy
  <2> QED
    BY <1>1, <1>2, <1>6, <2>1 DEF SeenRow, RowsTyped, GovernanceRows
<1>7. CASE statement = "openEpoch"
  <2>1. PICK b \in BOOLEAN, n \in Nat : seen = [old EXCEPT !.used = b, !.epoch = n]
    BY <1>1, <1>7, ActiveIsOpened DEF ReadBy, RowsTyped
  <2> QED
    BY <1>1, <1>2, <1>7, <2>1 DEF SeenRow
<1>8. CASE statement \in {"activeEpoch", "state", "balance", "requestEpoch", "pendingBalances",
                         "pendingMints", "balances", "allocated"}
  <2>1. seen = old
    BY <1>1, <1>8 DEF ReadBy
  <2> QED
    BY <1>1, <1>2, <1>8, <2>1
<1> QED
  BY <1>3, <1>4, <1>5, <1>6, <1>7, <1>8 DEF Next1

\* What a statement locks, in the order of the rows.
LEMMA StatementRows ==
  ASSUME RowsTyped, NEW t \in Txns, TxnRow(txn[t]), Given(t), Read(t),
         NEW statement, Next1(txn[t].kind, Left(t), statement), Continues(t, statement)
  PROVE  /\ RowsOf(txn[t], statement) \subseteq Rows
         /\ txn[t].kind # "close" =>
              /\ Level(txn[t].kind, Left(t)) <= Level(txn[t].kind, Left(t) - 1)
              /\ \A row \in RowsOf(txn[t], statement) :
                   /\ Rank(row) = Level(txn[t].kind, Left(t) - 1)
                   /\ Level(txn[t].kind, Left(t)) < Rank(row)
<1>0. PICK rows : rows = RowsOf(txn[t], statement)
  OBVIOUS
<1>1. CASE statement = "activeEpoch"
  <2>1. rows = {EpochLock(n) : n \in ActiveEpochs}
    BY <1>0, <1>1 DEF RowsOf
  <2>2. \A row \in rows : row \in Rows /\ Rank(row) = 3
    BY <2>1, ActiveIsOpened, RowsApart DEF RowsTyped
  <2>3. \/ txn[t].kind = "mint" /\ Left(t) = 4
        \/ txn[t].kind = "activate" /\ Left(t) = 2
    BY <1>1 DEF Next1
  <2> QED
    BY <1>0, <2>2, <2>3 DEF Level
<1>2. CASE statement = "requestEpoch"
  <2>1. rows = {EpochLock(txn[t].seen.request.epoch)}
    BY <1>0, <1>2 DEF RowsOf
  <2>2. txn[t].seen.request.status = "approved"
    BY <1>2 DEF Continues
  <2>3. txn[t].seen.request.epoch \in 1 .. MaxEpoch
    BY <2>2, NoneAssumption, BoundsAssumption DEF Read, RequestOK, RowsTyped, LedgerRows
  <2>4. \A row \in rows : row \in Rows /\ Rank(row) = 3
    BY <2>1, <2>3, RowsApart
  <2>5. txn[t].kind = "execute" /\ Left(t) = 3
    BY <1>2 DEF Next1
  <2> QED
    BY <1>0, <2>4, <2>5 DEF Level
<1>3. CASE statement = "state"
  <2>1. rows = {StateLock}
    BY <1>0, <1>3 DEF RowsOf
  <2>2. \A row \in rows : row \in Rows /\ Rank(row) = 4
    BY <2>1, RowsApart
  <2>3. \/ txn[t].kind = "mint" /\ Left(t) = 3
        \/ txn[t].kind \in {"execute", "reverse", "genesis"} /\ Left(t) = 2
        \/ txn[t].kind = "activate" /\ Left(t) = 1
    BY <1>3 DEF Next1
  <2> QED
    BY <1>0, <2>2, <2>3 DEF Level
<1>4. CASE statement = "balance"
  <2>1. rows = {BalanceLock(MemberOf(txn[t]))}
    BY <1>0, <1>4 DEF RowsOf
  <2>2. \/ txn[t].kind = "mint" /\ Left(t) = 2
        \/ txn[t].kind \in {"execute", "reverse"} /\ Left(t) = 1
    BY <1>4 DEF Next1
  <2>3. MemberOf(txn[t]) \in Members
    BY <2>2, MemberOfType DEF RowsTyped
  <2>4. \A row \in rows : row \in Rows /\ Rank(row) = 5
    BY <2>1, <2>3, RowsApart
  <2> QED
    BY <1>0, <2>4, <2>2 DEF Level
<1>5. CASE statement = "request"
  <2>1. rows = {} /\ txn[t].kind = "mint" /\ Left(t) = 1
    BY <1>0, <1>5 DEF RowsOf, Next1
  <2> QED
    BY <1>0, <2>1 DEF Level
<1>6. CASE statement = "allocated"
  <2>1. rows = {BalanceLock(Allocation[k].member) : k \in DOMAIN Allocation}
    BY <1>0, <1>6 DEF RowsOf
  <2>2. \A row \in rows : row \in Rows /\ Rank(row) = 5
    BY <2>1, AllocatedTo, RowsApart
  <2>3. txn[t].kind = "genesis" /\ Left(t) = 1
    BY <1>6 DEF Next1
  <2> QED
    BY <1>0, <2>2, <2>3 DEF Level
<1>7. CASE statement \in {"lastEpoch", "policy", "openEpoch"}
  <2>1. rows = {}
    BY <1>0, <1>7 DEF RowsOf
  <2>2. txn[t].kind \in {"createNext", "end"}
    BY <1>7 DEF Next1
  <2>3. \A left : Level("createNext", left) = 0 /\ Level("end", left) = 2
    BY DEF Level
  <2> QED
    BY <1>0, <2>1, <2>2, <2>3
<1>8. CASE statement \in {"closing", "pendingBalances", "pendingMints", "balances"}
  <2>1. txn[t].kind = "close" /\ txn[t].in.id \in DOMAIN epochs
    BY <1>8 DEF Next1, Given, GivenTo
  <2>2. CASE statement = "closing"
    BY <1>0, <2>1, <2>2 DEF RowsOf
  <2>3. CASE statement = "pendingBalances"
    <3>1. rows = {BalanceLock(m) : m \in {k \in Members : balance[k].pending > 0}}
      BY <1>0, <2>3 DEF RowsOf
    <3> QED
      BY <1>0, <2>1, <3>1, RowsApart
  <2>4. CASE statement = "pendingMints"
    <3>1. rows = {MintLock(i) : i \in MaturingAt(txn[t].in.id + 1)}
      BY <1>0, <2>4 DEF RowsOf
    <3>2. MaturingAt(txn[t].in.id + 1) \subseteq 1 .. MaxLedger
      BY BoundsAssumption DEF MaturingAt, RowsTyped, LedgerRows
    <3> QED
      BY <1>0, <2>1, <3>1, <3>2, RowsApart
  <2>5. CASE statement = "balances"
    <3>1. rows = {BalanceLock(m) : m \in Members}
      BY <1>0, <2>5 DEF RowsOf
    <3> QED
      BY <1>0, <2>1, <3>1, RowsApart
  <2> QED
    BY <1>8, <2>2, <2>3, <2>4, <2>5
<1> QED
  BY <1>1, <1>2, <1>3, <1>4, <1>5, <1>6, <1>7, <1>8 DEF Next1

\* A transaction goes on with what it has read and locked.
LEMMA StatementKeeps ==
  ASSUME EngineInv, NEW t \in Txns, Statement(t)
  PROVE  EngineInv'
<1>1. /\ UNCHANGED <<tables, holder>>
      /\ txn' = [txn EXCEPT ![t] = txn'[t]]
      /\ txn[t].rows = {}
      /\ txn'[t] =
           [kind |-> txn[t].kind, in |-> txn[t].in, todo |-> Tail(txn[t].todo),
            rows |-> {r \in RowsOf(txn[t], Head(txn[t].todo)) : holder[r] # t},
            seen |-> ReadBy(txn[t], Head(txn[t].todo))]
      /\ Continues(t, Head(txn[t].todo))
  BY StatementShape
<1>2. RowsTyped' /\ \A u \in Txns : LeavesAlone(u)
  BY <1>1, NothingWritten DEF EngineInv
<1>3. PICK st : st = Head(txn[t].todo)
  OBVIOUS
<1>4. PICK todo : todo = Tail(txn[t].todo)
  OBVIOUS
<1>5. PICK rows : rows = {r \in RowsOf(txn[t], st) : holder[r] # t}
  OBVIOUS
<1>6. PICK seen : seen = ReadBy(txn[t], st)
  OBVIOUS
<1>7. PICK kind : kind = txn[t].kind
  OBVIOUS
<1>8. /\ TxnRow(txn[t]) /\ Follows(t) /\ Given(t) /\ Read(t) /\ Ordered(t) /\ Locks(t) /\ RowsTyped
  BY DEF EngineInv, TxnsTyped, Sound
<1>9. /\ kind \in TxnKinds
      /\ Left(t) \in Nat /\ Left(t) > 0
      /\ Next1(kind, Left(t), st)
      /\ todo \in Seq(Statements)
      /\ Len(todo) = Left(t) - 1
      /\ \A k \in 1 .. Left(t) - 1 :
           todo[k] = PlanOf(kind)[Len(PlanOf(kind)) - (Left(t) - 1) + k]
  BY <1>3, <1>4, <1>7, <1>8, NextTaken DEF Statement
<1>10. /\ seen \in SeenRow /\ RequestOK(seen.request)
       /\ seen.request.status # None =>
            txn[t].in.request \in Requests /\ request[txn[t].in.request].status # None
       /\ seen.balance = txn[t].seen.balance /\ seen.mint = txn[t].seen.mint
       /\ seen.status = txn[t].seen.status
       /\ st \notin {"closing", "lastEpoch"} => seen.supply = txn[t].seen.supply
       /\ st \notin {"lastEpoch", "openEpoch"} => seen.epoch = txn[t].seen.epoch
       /\ st # "request" => seen.request = txn[t].seen.request
       /\ st \in {"closing", "lastEpoch", "policy"} => seen.policy = policy
       /\ st \notin {"closing", "lastEpoch", "policy"} => seen.policy = txn[t].seen.policy
  <2>1. Next1(txn[t].kind, Left(t), st)
    BY <1>7, <1>9
  <2> QED
    BY <1>6, <1>8, <2>1, StatementRead, SMTT(60)
<1>11. /\ RowsOf(txn[t], st) \subseteq Rows
       /\ kind # "close" =>
            /\ Level(kind, Left(t)) <= Level(kind, Left(t) - 1)
            /\ \A row \in RowsOf(txn[t], st) :
                 /\ Rank(row) = Level(kind, Left(t) - 1)
                 /\ Level(kind, Left(t)) < Rank(row)
  BY <1>1, <1>3, <1>7, <1>8, <1>9, StatementRows
<1>12. txn'[t] = [kind |-> kind, in |-> txn[t].in, todo |-> todo, rows |-> rows, seen |-> seen]
  BY <1>1, <1>3, <1>4, <1>5, <1>6, <1>7
<1>13. txn'[t].kind = kind /\ txn'[t].in = txn[t].in
  BY <1>12
<1>14. txn'[t].rows = rows
  BY <1>12
<1>15. txn'[t].seen = seen
  BY <1>12
<1>16. Left(t)' = Left(t) - 1
  BY <1>9, <1>12 DEF Left
<1>17. kind # None
  BY <1>9, NoneAssumption DEF TxnKinds
<1>18. \A u \in Txns \ {t} : txn'[u] = txn[u]
  BY <1>1 DEF EngineInv, TxnsTyped
<1>19. \A row \in Rows : holder'[row] = holder[row]
  BY <1>1
<1>20. Level(kind, Left(t)) \in Int /\ Level(kind, Left(t) - 1) \in Int
  BY <1>9 DEF Level
\* A row a statement selects is not held yet, but in an epoch switch.
<1>21. kind # "close" => rows = RowsOf(txn[t], st)
  <2>1. ASSUME kind # "close", NEW row \in RowsOf(txn[t], st) PROVE holder[row] # t
    <3>1. row \in Rows /\ ~(Rank(row) <= Level(kind, Left(t)))
      BY <1>11, <1>20, <2>1, RankInt
    <3> QED
      BY <1>7, <1>8, <2>1, <3>1 DEF Ordered
  <2> QED
    BY <1>5, <2>1
<1>22. TxnRow(txn[t])'
  BY <1>5, <1>9, <1>10, <1>11, <1>12 DEF TxnRow
<1>23. TxnsTyped'
  <2>1. DOMAIN txn' = Txns /\ \A u \in Txns : TxnRow(txn[u])'
    BY <1>1, <1>18, <1>22, ZenonT(60) DEF EngineInv, TxnsTyped, TxnRow
  <2>2. \A row \in Rows : holder'[row] # Free => txn'[holder'[row]].kind # None
    BY <1>1, <1>7, <1>13, <1>18 DEF EngineInv, TxnsTyped
  <2> QED
    BY <1>1, <2>1, <2>2 DEF EngineInv, TxnsTyped
<1>24. Follows(t)'
  <2>1. Left(t) < Len(PlanOf(kind)) /\ Len(PlanOf(kind)) \in Nat
    BY <1>7, <1>8, <1>9, <1>17, PlanLengths DEF Follows, TxnKinds
  <2>2. Left(t)' < Len(PlanOf(kind))
    BY <1>9, <1>16, <2>1
  <2>3. txn'[t].todo = todo
    BY <1>12
  <2> QED
    BY <1>9, <1>13, <1>16, <1>17, <2>2, <2>3 DEF Follows
<1>25. Given(t)'
  BY <1>1, <1>7, <1>8, <1>13 DEF Given, GivenTo, tables
<1>26. Read(t)'
  <2>1. RequestOK(seen.request)'
    BY <1>1, <1>10 DEF RequestOK, tables
  <2>2. kind = "execute" /\ Left(t)' <= 2 => seen.request.status = "approved"
    <3> SUFFICES ASSUME kind = "execute", Left(t) - 1 <= 2 PROVE seen.request.status = "approved"
      BY <1>16
    <3>1. st # "request"
      BY <1>9 DEF Next1
    <3>2. CASE Left(t) <= 2
      BY <1>7, <1>8, <1>10, <3>1, <3>2 DEF Read
    <3>3. CASE Left(t) = 3
      <4>1. st = "requestEpoch"
        BY <1>9, <3>3 DEF Next1
      <4> QED
        BY <1>1, <1>3, <1>10, <4>1 DEF Continues
    <3> QED
      BY <1>9, <3>2, <3>3
  <2>3. \/ kind = "close" /\ Left(t)' <= 3
        \/ kind = "createNext" /\ Left(t)' = 0
        \/ kind = "end" /\ Left(t)' <= 1
        => seen.policy \in PolicyRow
    <3>1. policy \in PolicyRow
      BY <1>8 DEF RowsTyped, GovernanceRows
    <3>2. ASSUME kind = "close", Left(t) - 1 <= 3 PROVE seen.policy \in PolicyRow
      <4>1. CASE Left(t) = 4
        BY <1>9, <1>10, <3>1, <3>2, <4>1 DEF Next1
      <4>2. CASE Left(t) <= 3
        BY <1>7, <1>8, <1>9, <1>10, <3>1, <3>2, <4>2 DEF Next1, Read
      <4> QED
        BY <1>9, <3>2, <4>1, <4>2
    <3>3. ASSUME kind = "createNext", Left(t) - 1 = 0 PROVE seen.policy \in PolicyRow
      BY <1>9, <1>10, <3>1, <3>3 DEF Next1
    <3>4. ASSUME kind = "end", Left(t) - 1 <= 1 PROVE seen.policy \in PolicyRow
      <4>1. CASE Left(t) = 2
        BY <1>9, <1>10, <3>1, <3>4, <4>1 DEF Next1
      <4>2. CASE Left(t) <= 1
        BY <1>7, <1>8, <1>9, <1>10, <3>1, <3>4, <4>2 DEF Next1, Read
      <4> QED
        BY <1>9, <3>4, <4>1, <4>2
    <3> QED
      BY <1>16, <3>2, <3>3, <3>4
  <2> QED
    BY <1>1, <1>10, <1>13, <1>15, <2>1, <2>2, <2>3 DEF Read, RequestOK, tables
<1>27. Ordered(t)'
  <2> SUFFICES ASSUME kind # "close" PROVE Ordered(t)'
    BY <1>13 DEF Ordered
  <2>1. \A row \in rows : Rank(row) = Level(kind, Left(t) - 1)
    BY <1>11, <1>21
  <2>2. \A row \in Rows : holder[row] = t => Rank(row) <= Level(kind, Left(t) - 1)
    <3>1. \A row \in Rows : holder[row] = t => Rank(row) <= Level(kind, Left(t))
      BY <1>7, <1>8 DEF Ordered
    <3> QED
      BY <1>11, <1>20, <3>1, RankInt
  <2> QED
    BY <1>13, <1>14, <1>16, <1>19, <2>1, <2>2 DEF Ordered
<1>28. kind \in {"mint", "execute", "reverse"} /\ (kind = "execute" => st # "request") =>
         MemberOf(txn[t])' = MemberOf(txn[t])
  <2>1. CASE kind = "mint"
    BY <1>7, <1>13, <2>1 DEF MemberOf
  <2>2. CASE kind = "execute" /\ st # "request"
    BY <1>7, <1>10, <1>13, <1>15, <2>2 DEF MemberOf
  <2>3. CASE kind = "reverse"
    BY <1>1, <1>7, <1>13, <2>3 DEF MemberOf, tables
  <2> QED
    BY <2>1, <2>2, <2>3
<1>29. kind = "execute" => st # "request"
  BY <1>9 DEF Next1
<1>30. Waiting(t)'
  <2>1. \A row \in rows : holder'[row] # t
    BY <1>1, <1>5
  <2>2. ASSUME NEW m \in Members, kind \in {"mint", "execute", "reverse"}, BalanceLock(m) \in rows
        PROVE  m = MemberOf(txn[t])'
    <3>1. Rank(BalanceLock(m)) = 5 /\ Rank(BalanceLock(m)) = Level(kind, Left(t) - 1) /\ Level(kind, Left(t)) < 5
      BY <1>11, <1>21, <2>2, RowsApart
    <3>2. st = "balance"
      BY <1>9, <2>2, <3>1 DEF Level, Next1
    <3>3. RowsOf(txn[t], st) = {BalanceLock(MemberOf(txn[t]))}
      BY <3>2 DEF RowsOf
    <3> QED
      BY <1>21, <1>28, <1>29, <2>2, <3>3, LocksInjective
  <2>3. ASSUME NEW i \in 1 .. MaxLedger, kind = "reverse" PROVE MintLock(i) \notin rows
    <3>1. Level(kind, Left(t) - 1) # 1
      BY <1>9, <2>3 DEF Level, Next1
    <3> QED
      BY <1>11, <1>21, <2>3, <3>1, RowsApart
  <2>4. ASSUME NEW p \in Proposals, kind \in {"activate", "castVote", "end"} PROVE ProposalLock(p) \notin rows
    <3>1. Level(kind, Left(t)) >= 2
      BY <1>9, <2>4 DEF Level, Next1
    <3> QED
      BY <1>11, <1>20, <1>21, <2>4, <3>1, RowsApart
  <2>5. ASSUME NEW n \in 1 .. MaxEpoch, kind = "close" PROVE EpochLock(n) \notin rows
    <3>1. st \in {"closing", "pendingBalances", "pendingMints", "balances"}
      BY <1>9, <2>5 DEF Next1
    <3> QED
      BY <1>5, <3>1 DEF RowsOf, EpochLock, BalanceLock, MintLock
  <2> QED
    BY <1>13, <1>14, <2>1, <2>2, <2>3, <2>4, <2>5 DEF Waiting
<1>31. StateKnown(t)'
  <2> SUFFICES ASSUME StateTaken(t)'
               PROVE  StateLock \in rows \/ (holder'[StateLock] = t /\ seen.supply = supply')
    BY <1>14, <1>15 DEF StateKnown
  <2>1. \/ kind = "mint" /\ Left(t) - 1 <= 2
        \/ kind \in {"execute", "reverse", "genesis"} /\ Left(t) - 1 <= 1
        \/ kind = "activate" /\ Left(t) - 1 = 0
    BY <1>13, <1>16 DEF StateTaken
  <2>2. CASE st = "state"
    BY <1>21, <2>1, <2>2 DEF RowsOf
  <2>3. CASE st # "state"
    <3>1. StateTaken(t) /\ st \notin {"closing", "lastEpoch"}
      BY <1>7, <1>9, <2>1, <2>3 DEF StateTaken, Next1
    <3> QED
      BY <1>1, <1>8, <1>10, <3>1 DEF Locks, StateKnown, tables
  <2> QED
    BY <2>2, <2>3
<1>32. BalanceKnown(t)'
  <2> SUFFICES ASSUME BalanceTaken(t)'
               PROVE  LET m == MemberOf(txn[t]) IN
                      BalanceLock(m) \in rows \/ (holder'[BalanceLock(m)] = t /\ seen.balance = balance'[m])
    <3> SUFFICES ASSUME BalanceTaken(t)' PROVE BalanceKnown(t)'
      BY DEF BalanceKnown
    <3>1. kind \in {"mint", "execute", "reverse"}
      BY <1>13 DEF BalanceTaken
    <3>2. PICK m : m = MemberOf(txn[t])
      OBVIOUS
    <3>3. MemberOf(txn[t])' = m
      BY <1>28, <1>29, <3>1, <3>2
    <3> QED
      BY <1>14, <1>15, <3>2, <3>3 DEF BalanceKnown
  <2>1. \/ kind = "mint" /\ Left(t) - 1 <= 1
        \/ kind \in {"execute", "reverse"} /\ Left(t) - 1 = 0
    BY <1>13, <1>16 DEF BalanceTaken
  <2>2. CASE st = "balance"
    BY <1>21, <2>1, <2>2 DEF RowsOf
  <2>3. CASE st # "balance"
    <3>1. BalanceTaken(t)
      BY <1>7, <1>9, <2>1, <2>3 DEF BalanceTaken, Next1
    <3> QED
      BY <1>1, <1>8, <1>10, <3>1 DEF Locks, BalanceKnown, tables
  <2> QED
    BY <2>2, <2>3
<1>33. MintKnown(t)'
  BY <1>1, <1>7, <1>8, <1>10, <1>13, <1>15 DEF Locks, MintKnown, tables
<1>34. ProposalKnown(t)'
  BY <1>1, <1>7, <1>8, <1>10, <1>13, <1>15 DEF Locks, ProposalKnown, tables
<1>35. EpochKnown(t)'
  <2>1. kind \in {"mint", "execute", "activate", "createRequest", "close"} => seen.epoch = txn[t].seen.epoch
    BY <1>9, <1>10 DEF Next1
  <2>2. ActiveEpochs' = ActiveEpochs
    BY <1>1 DEF ActiveEpochs, tables
  <2>3. EpochKnown(t)
    BY <1>8 DEF Locks
  <2>4. kind = "close" /\ Left(t) - 1 <= 3 => seen.epoch = txn[t].in.id
    <3> SUFFICES ASSUME kind = "close", Left(t) - 1 <= 3 PROVE seen.epoch = txn[t].in.id
      OBVIOUS
    <3>1. CASE Left(t) <= 3
      BY <1>7, <2>1, <2>3, <3>1 DEF EpochKnown
    <3>2. CASE Left(t) = 4
      <4>1. st = "closing"
        BY <1>9, <3>2 DEF Next1
      <4>2. txn[t].seen.epoch # 0
        BY <1>1, <1>3, <1>7, <4>1 DEF Continues
      <4> QED
        BY <1>7, <2>1, <2>3, <4>2 DEF EpochKnown
    <3> QED
      BY <1>9, <3>1, <3>2
  <2>5. kind \in {"mint", "execute", "activate", "createRequest", "close"} /\ seen.epoch # 0 =>
          seen.epoch \in ActiveEpochs' /\ holder'[EpochLock(seen.epoch)] = t
    BY <1>1, <1>7, <2>1, <2>2, <2>3 DEF EpochKnown
  <2>6. kind = "close" => holder'[EpochLock(txn[t].in.id)] = t /\ seen.epoch \in {0, txn[t].in.id}
    BY <1>1, <1>7, <2>1, <2>3 DEF EpochKnown
  <2> QED
    BY <1>13, <1>14, <1>15, <1>16, <2>4, <2>5, <2>6 DEF EpochKnown
<1>36. SwitchKnown(t)'
  <2>1. ASSUME kind = "close", Left(t) - 1 = 0, NEW m \in Members
        PROVE  BalanceLock(m) \in rows \/ holder[BalanceLock(m)] = t
    <3>1. st = "balances"
      BY <1>9, <2>1 DEF Next1
    <3> QED
      BY <1>5, <3>1 DEF RowsOf
  <2>2. ASSUME kind = "close", Left(t) - 1 <= 1, NEW i \in MaturingAt(txn[t].in.id + 1)
        PROVE  MintLock(i) \in rows \/ holder[MintLock(i)] = t
    <3>1. CASE Left(t) = 2
      <4>1. st = "pendingMints"
        BY <1>9, <2>2, <3>1 DEF Next1
      <4> QED
        BY <1>5, <2>2, <4>1 DEF RowsOf
    <3>2. CASE Left(t) <= 1
      BY <1>1, <1>7, <1>8, <2>2, <3>2 DEF Locks, SwitchKnown
    <3> QED
      BY <1>9, <2>2, <3>1, <3>2
  <2>3. ASSUME kind = "genesis", Left(t) - 1 = 0, NEW k \in DOMAIN Allocation
        PROVE  LET row == BalanceLock(Allocation[k].member) IN row \in rows \/ holder[row] = t
    <3>1. st = "allocated"
      BY <1>9, <2>3 DEF Next1
    <3> QED
      BY <1>5, <2>3, <3>1 DEF RowsOf
  <2>4. MaturingAt(txn[t].in.id + 1)' = MaturingAt(txn[t].in.id + 1)
    BY <1>1, <1>13 DEF MaturingAt, tables
  <2> QED
    BY <1>1, <1>13, <1>14, <1>16, <2>1, <2>2, <2>3, <2>4 DEF SwitchKnown
<1>37. Sound(t)'
  BY <1>24, <1>25, <1>26, <1>27, <1>30, <1>31, <1>32, <1>33, <1>34, <1>35, <1>36 DEF Sound, Locks
<1> QED
  BY <1>1, <1>2, <1>18, <1>23, <1>37, OneMoves

-----------------------------------------------------------------------------

\* What a locked row shows, and what it leaves as it was.
LEMMA LockedRead ==
  ASSUME EngineInv, NEW t \in Txns, NEW row \in txn[t].rows,
         NEW old, old = txn[t].seen, NEW seen, seen = LockedBy(t, row)
  PROVE  /\ seen \in SeenRow /\ seen.request = old.request /\ seen.policy = old.policy
         /\ seen.supply = IF row = StateLock THEN supply ELSE old.supply
         /\ \A n \in 1 .. MaxEpoch :
              row = EpochLock(n) => seen.epoch = IF n \in ActiveEpochs THEN n ELSE old.epoch
         /\ (\A n \in 1 .. MaxEpoch : row # EpochLock(n)) => seen.epoch = old.epoch
         /\ txn[t].kind \in {"mint", "execute", "reverse"} =>
              /\ \A m \in Members : row = BalanceLock(m) => seen.balance = balance[m]
              /\ (\A m \in Members : row # BalanceLock(m)) => seen.balance = old.balance
         /\ txn[t].kind = "reverse" =>
              /\ \A i \in 1 .. MaxLedger : row = MintLock(i) => seen.mint = ledger[i]
              /\ (\A i \in 1 .. MaxLedger : row # MintLock(i)) => seen.mint = old.mint
         /\ \A p \in Proposals : row = ProposalLock(p) => seen.status = proposal[p].status
         /\ (\A p \in Proposals : row # ProposalLock(p)) => seen.status = old.status
<1>1. old \in SeenRow /\ row \in Rows
  BY DEF EngineInv, TxnsTyped, TxnRow
<1>2. CASE row = StateLock
  <2>1. seen = [old EXCEPT !.supply = supply]
    BY <1>2 DEF LockedBy, StateLock
  <2>2. supply \in Nat
    BY DEF EngineInv, RowsTyped, LedgerRows
  <2> QED
    BY <1>1, <1>2, <2>1, <2>2 DEF SeenRow, StateLock, EpochLock, BalanceLock, MintLock, ProposalLock
<1>3. CASE \E n \in 1 .. MaxEpoch : row = EpochLock(n)
  <2>1. PICK n \in 1 .. MaxEpoch : row = EpochLock(n)
    BY <1>3
  <2>2. seen = [old EXCEPT !.epoch = IF n \in ActiveEpochs THEN n ELSE old.epoch]
    BY <2>1 DEF LockedBy, EpochLock
  <2>3. seen \in SeenRow
    BY <1>1, <2>2, BoundsAssumption DEF SeenRow
  <2>4. \A k : row = EpochLock(k) => k = n
    BY <2>1, LocksInjective
  <2> QED
    BY <1>1, <2>1, <2>2, <2>3, <2>4 DEF SeenRow, StateLock, EpochLock, BalanceLock, MintLock, ProposalLock
<1>4. CASE \E m \in Members : row = BalanceLock(m)
  <2>1. PICK m \in Members : row = BalanceLock(m)
    BY <1>4
  <2>2. \A k : row = BalanceLock(k) => k = m
    BY <2>1, LocksInjective
  <2>3. balance[m] \in BalanceRow
    BY DEF EngineInv, RowsTyped, LedgerRows
  <2>4. CASE txn[t].kind \in {"mint", "execute", "reverse"}
    <3>1. seen = [old EXCEPT !.balance = balance[m]]
      BY <2>1, <2>4 DEF LockedBy, BalanceLock
    <3> QED
      BY <1>1, <2>1, <2>2, <2>3, <3>1 DEF SeenRow, StateLock, EpochLock, BalanceLock, MintLock, ProposalLock
  <2>5. CASE txn[t].kind \notin {"mint", "execute", "reverse"}
    <3>1. seen = old
      BY <2>1, <2>5 DEF LockedBy, BalanceLock
    <3> QED
      BY <1>1, <2>1, <2>5, <3>1 DEF StateLock, EpochLock, BalanceLock, MintLock, ProposalLock
  <2> QED
    BY <2>4, <2>5
<1>5. CASE \E i \in 1 .. MaxLedger : row = MintLock(i)
  <2>1. PICK i \in 1 .. MaxLedger : row = MintLock(i)
    BY <1>5
  <2>2. \A k : row = MintLock(k) => k = i
    BY <2>1, LocksInjective
  <2>4. CASE txn[t].kind = "reverse"
    <3>1. seen = [old EXCEPT !.mint = ledger[i]]
      BY <2>1, <2>4 DEF LockedBy, MintLock
    <3>2. i = txn[t].in.id
      BY <2>1, <2>4 DEF EngineInv, Sound, Locks, Waiting
    <3>3. ledger[i] \in EntryRow
      BY <2>4, <3>2 DEF EngineInv, Sound, Given, GivenTo, RowsTyped, LedgerRows
    <3> QED
      BY <1>1, <2>1, <2>2, <3>1, <3>3 DEF SeenRow, StateLock, EpochLock, BalanceLock, MintLock, ProposalLock
  <2>5. CASE txn[t].kind # "reverse"
    <3>1. seen = old
      BY <2>1, <2>5 DEF LockedBy, MintLock
    <3> QED
      BY <1>1, <2>1, <2>5, <3>1 DEF StateLock, EpochLock, BalanceLock, MintLock, ProposalLock
  <2> QED
    BY <2>4, <2>5
<1>6. CASE \E p \in Proposals : row = ProposalLock(p)
  <2>1. PICK p \in Proposals : row = ProposalLock(p)
    BY <1>6
  <2>2. \A q : row = ProposalLock(q) => q = p
    BY <2>1, LocksInjective
  <2>3. proposal[p].status \in ProposalStatus
    BY DEF EngineInv, RowsTyped, GovernanceRows, ProposalRow
  <2>4. seen = [old EXCEPT !.status = proposal[p].status]
    BY <2>1 DEF LockedBy, ProposalLock
  <2> QED
    BY <1>1, <2>1, <2>2, <2>3, <2>4 DEF SeenRow, StateLock, EpochLock, BalanceLock, MintLock, ProposalLock
<1> QED
  BY <1>1, <1>2, <1>3, <1>4, <1>5, <1>6, RowCases

\* A transaction locks a row, and knows it from then on.
LEMMA LockKeeps ==
  ASSUME EngineInv, NEW t \in Txns, NEW row \in Rows, Lock(t, row)
  PROVE  EngineInv'
<1>1. row \in txn[t].rows /\ holder[row] = Free /\ UNCHANGED tables
  BY DEF Lock
<1>2. RowsTyped' /\ \A u \in Txns : LeavesAlone(u)
  BY <1>1, NothingWritten DEF EngineInv
<1>3. PICK old : old = txn[t].seen
  OBVIOUS
<1>4. PICK seen : seen = LockedBy(t, row)
  OBVIOUS
<1>5. PICK kind : kind = txn[t].kind
  OBVIOUS
<1>6. PICK rows : rows = txn[t].rows \ {row}
  OBVIOUS
<1>7. /\ seen \in SeenRow /\ seen.request = old.request /\ seen.policy = old.policy
      /\ seen.supply = IF row = StateLock THEN supply ELSE old.supply
      /\ \A n \in 1 .. MaxEpoch :
           row = EpochLock(n) => seen.epoch = IF n \in ActiveEpochs THEN n ELSE old.epoch
      /\ (\A n \in 1 .. MaxEpoch : row # EpochLock(n)) => seen.epoch = old.epoch
      /\ kind \in {"mint", "execute", "reverse"} =>
           /\ \A m \in Members : row = BalanceLock(m) => seen.balance = balance[m]
           /\ (\A m \in Members : row # BalanceLock(m)) => seen.balance = old.balance
      /\ kind = "reverse" =>
           /\ \A i \in 1 .. MaxLedger : row = MintLock(i) => seen.mint = ledger[i]
           /\ (\A i \in 1 .. MaxLedger : row # MintLock(i)) => seen.mint = old.mint
      /\ \A p \in Proposals : row = ProposalLock(p) => seen.status = proposal[p].status
      /\ (\A p \in Proposals : row # ProposalLock(p)) => seen.status = old.status
  <2>1. \A k : k = txn[t].kind => k = kind
    BY <1>5
  <2> QED
    BY <1>1, <1>3, <1>4, <1>5, LockedRead
<1>8. /\ TxnRow(txn[t]) /\ Follows(t) /\ Given(t) /\ Read(t) /\ Ordered(t) /\ Locks(t) /\ RowsTyped
  BY DEF EngineInv, TxnsTyped, Sound
<1>9. txn'[t] = [kind |-> kind, in |-> txn[t].in, todo |-> txn[t].todo, rows |-> rows, seen |-> seen]
  <2>1. PICK x : x = txn[t]
    OBVIOUS
  <2>2. x = [kind |-> x.kind, in |-> x.in, todo |-> x.todo, rows |-> x.rows, seen |-> x.seen]
    BY <1>8, <2>1 DEF TxnRow
  <2>3. PICK y : y = [x EXCEPT !.rows = rows, !.seen = seen]
    OBVIOUS
  <2>4. y = [kind |-> x.kind, in |-> x.in, todo |-> x.todo, rows |-> rows, seen |-> seen]
    BY ONLY <2>2, <2>3, TxnLocked
  <2>5. txn'[t] = y
    BY <1>4, <1>6, <2>1, <2>3 DEF Lock, EngineInv, TxnsTyped
  <2> QED
    BY <1>5, <2>1, <2>4, <2>5
<1>10. txn'[t].kind = kind /\ txn'[t].in = txn[t].in /\ txn'[t].todo = txn[t].todo /\ Left(t)' = Left(t)
  BY <1>9 DEF Left
<1>11. txn'[t].rows = rows
  BY <1>9
<1>12. txn'[t].seen = seen
  BY <1>9
<1>13. \A u \in Txns \ {t} : txn'[u] = txn[u]
  BY DEF Lock, EngineInv, TxnsTyped
<1>14. holder' = [holder EXCEPT ![row] = t]
  BY DEF Lock
<1>15. holder'[row] = t /\ \A r \in Rows \ {row} : holder'[r] = holder[r]
  BY <1>14 DEF EngineInv, TxnsTyped
<1>16. kind # None
  BY <1>1, <1>5, <1>8 DEF Follows, Idle
<1>17. \A u \in Txns \ {t} : \A r \in Rows : holder'[r] = u <=> holder[r] = u
  BY <1>1, <1>15, NotATransaction
<1>18. TxnRow(txn[t])'
  BY <1>5, <1>6, <1>7, <1>8, <1>9 DEF TxnRow
<1>19. TxnsTyped'
  <2>1. DOMAIN txn' = Txns /\ \A u \in Txns : TxnRow(txn[u])'
    BY <1>13, <1>18 DEF EngineInv, TxnsTyped, TxnRow, Lock
  <2>2. \A r \in Rows : holder'[r] # Free => txn'[holder'[r]].kind # None
    BY <1>10, <1>13, <1>15, <1>16 DEF EngineInv, TxnsTyped
  <2>3. holder' \in [Rows -> Txns \cup {Free}]
    BY <1>14 DEF EngineInv, TxnsTyped
  <2> QED
    BY <2>1, <2>2, <2>3 DEF TxnsTyped
\* A row it meant to lock is one still, or it is locked.
<1>20. /\ \A r \in Rows : holder[r] = t => r # row /\ holder'[r] = t
       /\ \A r \in txn[t].rows : r \in rows \/ (r = row /\ holder'[r] = t)
  BY <1>1, <1>6, <1>15, NotATransaction
<1>21. txn[t].rows \subseteq Rows
  BY <1>8 DEF TxnRow
<1>22. Follows(t)'
  BY <1>5, <1>8, <1>10, <1>16 DEF Follows
<1>23. Given(t)'
  BY <1>1, <1>5, <1>8, <1>10 DEF Given, GivenTo, tables
<1>24. Read(t)'
  BY <1>1, <1>3, <1>5, <1>7, <1>8, <1>10, <1>12 DEF Read, RequestOK, tables
<1>25. Ordered(t)'
  <2> SUFFICES ASSUME kind # "close" PROVE Ordered(t)'
    BY <1>10 DEF Ordered
  <2>1. \A r \in txn[t].rows : Rank(r) = Level(kind, Left(t))
    BY <1>5, <1>8 DEF Ordered
  <2>2. \A r \in Rows : holder'[r] = t => Rank(r) <= Level(kind, Left(t))
    BY <1>1, <1>5, <1>8, <1>15, <2>1, RankInt DEF Ordered
  <2> QED
    BY <1>6, <1>10, <1>11, <2>1, <2>2 DEF Ordered
<1>26. kind \in {"mint", "execute", "reverse"} => MemberOf(txn[t])' = MemberOf(txn[t])
  BY <1>1, <1>3, <1>5, <1>7, <1>10, <1>12 DEF MemberOf, tables
<1>27. Waiting(t)'
  <2>1. \A r \in rows : holder'[r] # t
    BY <1>6, <1>8, <1>15, <1>21 DEF Locks, Waiting
  <2>2. \A m \in Members : kind \in {"mint", "execute", "reverse"} /\ BalanceLock(m) \in rows =>
          m = MemberOf(txn[t])'
    BY <1>5, <1>6, <1>8, <1>26 DEF Locks, Waiting
  <2> QED
    BY <1>5, <1>6, <1>8, <1>10, <1>11, <2>1, <2>2 DEF Locks, Waiting
<1>28. StateKnown(t)'
  <2>1. StateTaken(t)' = StateTaken(t)
    BY <1>5, <1>10 DEF StateTaken
  <2> SUFFICES ASSUME StateTaken(t)
               PROVE  StateLock \in rows \/ (holder'[StateLock] = t /\ seen.supply = supply)
    BY <1>1, <1>11, <1>12, <2>1 DEF StateKnown, tables
  <2> QED
    BY <1>3, <1>7, <1>8, <1>20, RowsApart DEF Locks, StateKnown
<1>29. BalanceKnown(t)'
  <2>1. BalanceTaken(t)' = BalanceTaken(t)
    BY <1>5, <1>10 DEF BalanceTaken
  <2>2. PICK m : m = MemberOf(txn[t])
    OBVIOUS
  <2>3. BalanceTaken(t) => kind \in {"mint", "execute", "reverse"} /\ m \in Members
    <3>1. BalanceTaken(t) => kind \in {"mint", "execute", "reverse"} /\ (kind = "execute" => Left(t) <= 2)
      BY <1>5 DEF BalanceTaken
    <3> QED
      BY <1>5, <1>8, <2>2, <3>1, MemberOfType DEF RowsTyped
  <2> SUFFICES ASSUME BalanceTaken(t)
               PROVE  BalanceLock(m) \in rows \/ (holder'[BalanceLock(m)] = t /\ seen.balance = balance[m])
    BY <1>1, <1>11, <1>12, <1>26, <2>1, <2>2, <2>3 DEF BalanceKnown, tables
  <2>4. BalanceLock(m) \in txn[t].rows \/ (holder[BalanceLock(m)] = t /\ old.balance = balance[m])
    BY <1>3, <1>8, <2>2 DEF Locks, BalanceKnown
  <2>5. BalanceLock(m) \in Rows
    BY <2>3, RowsApart
  <2>6. \A k \in Members : row = BalanceLock(k) => k = m
    BY <1>1, <1>5, <1>8, <2>2, <2>3 DEF Locks, Waiting
  <2>7. CASE row = BalanceLock(m)
    BY <1>7, <1>15, <2>3, <2>7
  <2>8. CASE row # BalanceLock(m)
    BY <1>7, <1>20, <2>3, <2>4, <2>5, <2>6, <2>8
  <2> QED
    BY <2>7, <2>8
<1>30. MintKnown(t)'
  <2> SUFFICES ASSUME kind = "reverse"
               PROVE  LET i == txn[t].in.id IN
                      MintLock(i) \in rows \/ (holder'[MintLock(i)] = t /\ seen.mint = ledger[i])
    BY <1>1, <1>10, <1>11, <1>12 DEF MintKnown, tables
  <2>1. PICK i : i = txn[t].in.id
    OBVIOUS
  <2>2. i \in 1 .. MaxLedger /\ MintLock(i) \in Rows
    BY <1>5, <1>8, <2>1, RowsApart, BoundsAssumption DEF Given, GivenTo, RowsTyped, LedgerRows
  <2>3. MintLock(i) \in txn[t].rows \/ (holder[MintLock(i)] = t /\ old.mint = ledger[i])
    BY <1>3, <1>5, <1>8, <2>1 DEF Locks, MintKnown
  <2>4. \A k \in 1 .. MaxLedger : row = MintLock(k) => k = i
    BY <1>1, <1>5, <1>8, <2>1 DEF Locks, Waiting
  <2>5. CASE row = MintLock(i)
    BY <1>7, <1>15, <2>1, <2>2, <2>5
  <2>6. CASE row # MintLock(i)
    BY <1>7, <1>20, <2>1, <2>2, <2>3, <2>4, <2>6
  <2> QED
    BY <2>5, <2>6
<1>31. ProposalKnown(t)'
  <2> SUFFICES ASSUME kind \in {"activate", "castVote", "end"}
               PROVE  LET p == txn[t].in.id IN
                      \/ ProposalLock(p) \in rows
                      \/ /\ holder'[ProposalLock(p)] = t
                         /\ seen.status # None => seen.status = proposal[p].status
    BY <1>1, <1>10, <1>11, <1>12 DEF ProposalKnown, tables
  <2>1. PICK p : p = txn[t].in.id
    OBVIOUS
  <2>2. p \in Proposals /\ ProposalLock(p) \in Rows
    BY <1>5, <1>8, <2>1, RowsApart DEF Given, GivenTo
  <2>3. \/ ProposalLock(p) \in txn[t].rows
        \/ holder[ProposalLock(p)] = t /\ (old.status # None => old.status = proposal[p].status)
    BY <1>3, <1>5, <1>8, <2>1 DEF Locks, ProposalKnown
  <2>4. \A q \in Proposals : row = ProposalLock(q) => q = p
    BY <1>1, <1>5, <1>8, <2>1 DEF Locks, Waiting
  <2>5. CASE row = ProposalLock(p)
    BY <1>7, <1>15, <2>1, <2>2, <2>5
  <2>6. CASE row # ProposalLock(p)
    BY <1>7, <1>20, <2>1, <2>2, <2>3, <2>4, <2>6
  <2> QED
    BY <2>5, <2>6
<1>32. EpochKnown(t)'
  <2>1. EpochKnown(t)
    BY <1>8 DEF Locks
  <2>2. ActiveEpochs' = ActiveEpochs
    BY <1>1 DEF ActiveEpochs, tables
  <2>3. ActiveEpochs \subseteq 1 .. MaxEpoch
    BY <1>8, ActiveIsOpened DEF RowsTyped
  <2>4. kind \in {"mint", "execute", "activate", "createRequest", "close"} /\ seen.epoch # 0 =>
          seen.epoch \in ActiveEpochs /\ holder'[EpochLock(seen.epoch)] = t
    <3> SUFFICES ASSUME kind \in {"mint", "execute", "activate", "createRequest", "close"}, seen.epoch # 0
                 PROVE  seen.epoch \in ActiveEpochs /\ holder'[EpochLock(seen.epoch)] = t
      OBVIOUS
    <3>1. CASE seen.epoch = old.epoch
      <4>1. old.epoch \in ActiveEpochs /\ holder[EpochLock(old.epoch)] = t
        BY <1>3, <1>5, <2>1, <3>1 DEF EpochKnown
      <4> QED
        BY <1>20, <2>3, <3>1, <4>1, RowsApart
    <3>2. CASE seen.epoch # old.epoch
      <4>1. PICK n \in 1 .. MaxEpoch : row = EpochLock(n) /\ n \in ActiveEpochs /\ seen.epoch = n
        BY <1>7, <3>2
      <4> QED
        BY <1>15, <4>1
    <3> QED
      BY <3>1, <3>2
  <2>5. kind = "close" =>
          /\ EpochLock(txn[t].in.id) \in rows \/ holder'[EpochLock(txn[t].in.id)] = t
          /\ seen.epoch \in {0, txn[t].in.id}
          /\ Left(t) <= 3 => seen.epoch = txn[t].in.id
    <3> SUFFICES ASSUME kind = "close"
                 PROVE  /\ EpochLock(txn[t].in.id) \in rows \/ holder'[EpochLock(txn[t].in.id)] = t
                        /\ seen.epoch \in {0, txn[t].in.id}
                        /\ Left(t) <= 3 => seen.epoch = txn[t].in.id
      OBVIOUS
    <3>1. EpochLock(txn[t].in.id) \in Rows
      BY <1>5, <1>8, RowsApart, BoundsAssumption DEF Given, GivenTo, RowsTyped, LedgerRows
    <3>2. \A n \in 1 .. MaxEpoch : row = EpochLock(n) => n = txn[t].in.id
      BY <1>1, <1>5, <1>8 DEF Locks, Waiting
    <3>3. seen.epoch \in {old.epoch, txn[t].in.id}
      BY <1>7, <3>2
    <3> QED
      BY <1>3, <1>5, <1>20, <2>1, <3>1, <3>3 DEF EpochKnown
  <2> QED
    BY <1>10, <1>11, <1>12, <2>2, <2>4, <2>5 DEF EpochKnown
<1>33. SwitchKnown(t)'
  <2>1. \A r \in Rows : r \in txn[t].rows \/ holder[r] = t => r \in rows \/ holder'[r] = t
    BY <1>20
  <2>2. SwitchKnown(t)
    BY <1>8 DEF Locks
  <2>3. ASSUME kind = "close", Left(t) <= 1, NEW i \in MaturingAt(txn[t].in.id + 1)
        PROVE  MintLock(i) \in rows \/ holder'[MintLock(i)] = t
    <3>1. MintLock(i) \in Rows
      BY <1>8, <2>3, RowsApart, BoundsAssumption DEF MaturingAt, RowsTyped, LedgerRows
    <3> QED
      BY <1>5, <2>1, <2>2, <2>3, <3>1 DEF SwitchKnown
  <2>4. MaturingAt(txn[t].in.id + 1)' = MaturingAt(txn[t].in.id + 1)
    BY <1>1, <1>10 DEF MaturingAt, tables
  <2>5. \A m \in Members : BalanceLock(m) \in Rows
    BY RowsApart
  <2>6. \A k \in DOMAIN Allocation : BalanceLock(Allocation[k].member) \in Rows
    BY RowsApart, AllocatedTo
  <2> QED
    BY <1>5, <1>10, <1>11, <2>1, <2>2, <2>3, <2>4, <2>5, <2>6 DEF SwitchKnown
<1>34. Sound(t)'
  BY <1>22, <1>23, <1>24, <1>25, <1>27, <1>28, <1>29, <1>30, <1>31, <1>32, <1>33 DEF Sound, Locks
<1> QED
  BY <1>2, <1>13, <1>17, <1>19, <1>34, OneMoves

\* A transaction that ends, whatever it has written, gives its locks back.
LEMMA FinishKeeps ==
  ASSUME EngineInv, NEW t \in Txns, Finish(t), RowsTyped', \A u \in Txns \ {t} : LeavesAlone(u)
  PROVE  EngineInv'
<1>1. txn'[t] = Idle /\ \A u \in Txns \ {t} : txn'[u] = txn[u]
  BY DEF Finish, EngineInv, TxnsTyped
<1>2. holder' = [r \in Rows |-> IF holder[r] = t THEN Free ELSE holder[r]]
  BY DEF Finish
<1>3. \A row \in Rows : holder'[row] # t
  BY <1>2, NotATransaction
<1>4. Sound(t)' /\ TxnRow(txn[t])'
  BY <1>1, <1>3, NothingToKnow
<1>5. \A u \in Txns \ {t} : \A row \in Rows : holder'[row] = u <=> holder[row] = u
  BY <1>2, NotATransaction
<1>6. TxnsTyped'
  <2>1. DOMAIN txn' = Txns /\ \A u \in Txns : TxnRow(txn[u])'
    BY <1>1, <1>4 DEF EngineInv, TxnsTyped, TxnRow, Finish
  <2>2. \A r \in Rows : holder'[r] # Free => txn'[holder'[r]].kind # None
    BY <1>1, <1>2, <1>3 DEF EngineInv, TxnsTyped
  <2>3. holder' \in [Rows -> Txns \cup {Free}]
    BY <1>2 DEF EngineInv, TxnsTyped
  <2> QED
    BY <2>1, <2>2, <2>3 DEF TxnsTyped
<1> QED
  BY <1>1, <1>4, <1>5, <1>6, OneMoves

\* A rollback writes nothing.
LEMMA RollbackKeeps ==
  ASSUME EngineInv, NEW t \in Txns, Rollback(t)
  PROVE  EngineInv'
<1>1. Finish(t) /\ UNCHANGED tables
  BY DEF Rollback
<1>2. RowsTyped' /\ \A u \in Txns : LeavesAlone(u)
  BY <1>1, NothingWritten DEF EngineInv
<1> QED
  BY <1>1, <1>2, FinishKeeps

\* Every operation starts with an input of its own kind.
LEMMA StartsAre ==
  ASSUME EngineInv, NEW t \in Txns, LedgerStart(t) \/ StartActivate(t) \/ StartCastVote(t) \/ StartEnd(t)
  PROVE  \E kind \in TxnKinds : \E in : GivenTo(kind, in) /\ Start(t, kind, in)
<1>0. NoInput.request = None /\ NoInput.proposal = None
  BY DEF NoInput
<1>1. CASE StartMint(t)
  <2>1. PICK call \in MintCalls :
          Start(t, "mint", [NoInput EXCEPT !.id = call.contribution, !.request = call.request,
                                           !.proposal = call.proposal])
    BY <1>1 DEF StartMint
  <2>2. /\ call.contribution \in Contributions /\ call.request \in Requests \cup {None}
        /\ call.proposal \in Proposals \cup {None}
    BY InputsAssumption
  <2>3. PICK c, r, p : c = call.contribution /\ r = call.request /\ p = call.proposal
    OBVIOUS
  <2>4. PICK in : in = [NoInput EXCEPT !.id = c, !.request = r, !.proposal = p]
    OBVIOUS
  <2>5. in.id = c /\ in.request = r /\ in.proposal = p
    BY <2>4 DEF NoInput
  <2>6. GivenTo("mint", in)
    BY <2>2, <2>3, <2>5 DEF GivenTo
  <2> QED
    BY <2>1, <2>3, <2>4, <2>6 DEF TxnKinds
<1>2. CASE StartInitialAllocation(t) \/ StartCreateNextEpoch(t)
  <2>1. GivenTo("genesis", NoInput) /\ GivenTo("createNext", NoInput)
    BY <1>0 DEF GivenTo
  <2> QED
    BY <1>2, <2>1 DEF StartInitialAllocation, StartCreateNextEpoch, TxnKinds
<1>3. CASE StartCreateRequest(t)
  <2>1. PICK r \in Requests, a \in Asks :
          Start(t, "createRequest", [NoInput EXCEPT !.id = r, !.choice = a])
    BY <1>3 DEF StartCreateRequest
  <2>2. PICK in : in = [NoInput EXCEPT !.id = r, !.choice = a]
    OBVIOUS
  <2>3. in.id = r /\ in.choice = a /\ in.request = None /\ in.proposal = None
    BY <2>2 DEF NoInput
  <2>4. GivenTo("createRequest", in)
    BY <2>3 DEF GivenTo
  <2> QED
    BY <2>1, <2>2, <2>4 DEF TxnKinds
<1>4. CASE StartOnRequest(t)
  <2>1. PICK kind \in {"secondApprove", "reject", "execute"}, r \in Requests :
          Start(t, kind, [NoInput EXCEPT !.id = r, !.request = r])
    BY <1>4 DEF StartOnRequest
  <2>2. PICK in : in = [NoInput EXCEPT !.id = r, !.request = r]
    OBVIOUS
  <2>3. in.id = r /\ in.request = r /\ in.proposal = None
    BY <2>2 DEF NoInput
  <2>4. GivenTo(kind, in)
    BY <2>3 DEF GivenTo
  <2> QED
    BY <2>1, <2>2, <2>4 DEF TxnKinds
<1>5. CASE StartAttach(t)
  <2>1. PICK r \in Requests, p \in Proposals :
          Start(t, "attach", [NoInput EXCEPT !.id = r, !.request = r, !.proposal = p])
    BY <1>5 DEF StartAttach
  <2>2. PICK in : in = [NoInput EXCEPT !.id = r, !.request = r, !.proposal = p]
    OBVIOUS
  <2>3. in.id = r /\ in.request = r /\ in.proposal = p
    BY <2>2 DEF NoInput
  <2>4. GivenTo("attach", in)
    BY <2>3 DEF GivenTo
  <2> QED
    BY <2>1, <2>2, <2>4 DEF TxnKinds
<1>6. CASE StartReverse(t)
  <2>1. PICK k \in DOMAIN ledger, call \in Reversals :
          /\ ledger[k].kind # "reversal"
          /\ Start(t, "reverse", [NoInput EXCEPT !.id = k, !.proposal = call.proposal, !.choice = call])
    BY <1>6 DEF StartReverse
  <2>2. PICK p : p = call.proposal
    OBVIOUS
  <2>3. PICK in : in = [NoInput EXCEPT !.id = k, !.proposal = p, !.choice = call]
    OBVIOUS
  <2>4. in.id = k /\ in.request = None /\ in.proposal = p /\ in.choice = call
    BY <2>3 DEF NoInput
  <2>5. GivenTo("reverse", in)
    BY <2>1, <2>2, <2>4, InputsAssumption DEF GivenTo
  <2> QED
    BY <2>1, <2>2, <2>3, <2>5 DEF TxnKinds
<1>7. CASE StartCloseEpoch(t)
  <2>1. PICK n \in DOMAIN epochs : Start(t, "close", [NoInput EXCEPT !.id = n])
    BY <1>7 DEF StartCloseEpoch
  <2>2. PICK in : in = [NoInput EXCEPT !.id = n]
    OBVIOUS
  <2>3. in.id = n /\ in.request = None /\ in.proposal = None
    BY <2>2 DEF NoInput
  <2>4. GivenTo("close", in)
    BY <2>3 DEF GivenTo
  <2> QED
    BY <2>1, <2>2, <2>4 DEF TxnKinds
<1>8. CASE StartActivate(t) \/ StartEnd(t)
  <2>1. PICK kind \in {"activate", "end"}, p \in Proposals : Start(t, kind, [NoInput EXCEPT !.id = p])
    BY <1>8 DEF StartActivate, StartEnd
  <2>2. PICK in : in = [NoInput EXCEPT !.id = p]
    OBVIOUS
  <2>3. in.id = p /\ in.request = None /\ in.proposal = None
    BY <2>2 DEF NoInput
  <2>4. GivenTo(kind, in)
    BY <2>3 DEF GivenTo
  <2> QED
    BY <2>1, <2>2, <2>4 DEF TxnKinds
<1>9. CASE StartCastVote(t)
  <2>1. PICK p \in Proposals, m \in Members, option \in {"approve", "reject"} :
          Start(t, "castVote", [NoInput EXCEPT !.id = p, !.member = m, !.choice = option])
    BY <1>9 DEF StartCastVote
  <2>2. PICK in : in = [NoInput EXCEPT !.id = p, !.member = m, !.choice = option]
    OBVIOUS
  <2>3. /\ in.id = p /\ in.request = None /\ in.proposal = None
        /\ in.member = m /\ in.choice = option
    BY <2>2 DEF NoInput
  <2>4. GivenTo("castVote", in)
    BY <2>3 DEF GivenTo
  <2> QED
    BY <2>1, <2>2, <2>4 DEF TxnKinds
<1> QED
  BY <1>1, <1>2, <1>3, <1>4, <1>5, <1>6, <1>7, <1>8, <1>9 DEF LedgerStart

LEMMA StartsKeep ==
  ASSUME EngineInv, NEW t \in Txns, LedgerStart(t) \/ StartActivate(t) \/ StartCastVote(t) \/ StartEnd(t)
  PROVE  EngineInv'
BY StartsAre, StartKeeps

-----------------------------------------------------------------------------
(***************************************************************************)
(* The steps that write rows: a transaction commits.                       *)
(***************************************************************************)

\* What a transaction that is ready to commit knows.
LEMMA ReadyKnows ==
  ASSUME EngineInv, NEW t \in Txns, NEW kind \in TxnKinds, Ready(t, kind)
  PROVE  /\ txn[t].kind = kind /\ txn[t].rows = {} /\ Left(t) = 0
         /\ GivenTo(kind, txn[t].in)
         /\ txn[t].seen \in SeenRow /\ RequestOK(txn[t].seen.request)
         /\ txn[t].seen.request.status # None =>
              txn[t].in.request \in Requests /\ request[txn[t].in.request].status # None
         /\ kind \in {"close", "createNext", "end"} => txn[t].seen.policy \in PolicyRow
         /\ kind \in {"mint", "execute", "reverse", "genesis", "activate"} =>
              holder[StateLock] = t /\ txn[t].seen.supply = supply
         /\ kind \in {"mint", "execute", "reverse"} =>
              /\ MemberOf(txn[t]) \in Members
              /\ holder[BalanceLock(MemberOf(txn[t]))] = t
              /\ txn[t].seen.balance = balance[MemberOf(txn[t])]
         /\ kind = "reverse" =>
              holder[MintLock(txn[t].in.id)] = t /\ txn[t].seen.mint = ledger[txn[t].in.id]
         /\ kind \in {"activate", "castVote", "end"} =>
              /\ holder[ProposalLock(txn[t].in.id)] = t
              /\ txn[t].seen.status # None => txn[t].seen.status = proposal[txn[t].in.id].status
         /\ kind \in {"mint", "execute", "activate", "createRequest", "close"} /\ txn[t].seen.epoch # 0 =>
              txn[t].seen.epoch \in ActiveEpochs /\ holder[EpochLock(txn[t].seen.epoch)] = t
         /\ kind = "close" =>
              /\ \A m \in Members : holder[BalanceLock(m)] = t
              /\ \A i \in MaturingAt(txn[t].in.id + 1) : holder[MintLock(i)] = t
         /\ kind = "genesis" => \A k \in DOMAIN Allocation : holder[BalanceLock(Allocation[k].member)] = t
<1>1. txn[t].kind = kind /\ txn[t].rows = {} /\ Left(t) = 0
  BY DEF Ready, Left
<1>2. /\ TxnRow(txn[t]) /\ Follows(t) /\ Given(t) /\ Read(t) /\ Locks(t) /\ RowsTyped
  BY DEF EngineInv, TxnsTyped, Sound
<1>3. GivenTo(kind, txn[t].in)
  BY <1>1, <1>2 DEF Given
<1>4. txn[t].seen \in SeenRow /\ RequestOK(txn[t].seen.request)
  BY <1>2 DEF TxnRow, Read
<1>5. /\ txn[t].seen.request.status # None =>
           txn[t].in.request \in Requests /\ request[txn[t].in.request].status # None
      /\ kind \in {"close", "createNext", "end"} => txn[t].seen.policy \in PolicyRow
  BY <1>1, <1>2 DEF Read
<1>6. kind \in {"mint", "execute", "reverse", "genesis", "activate"} =>
        holder[StateLock] = t /\ txn[t].seen.supply = supply
  BY <1>1, <1>2 DEF Locks, StateKnown, StateTaken
<1>7. kind \in {"mint", "execute", "reverse"} =>
        /\ MemberOf(txn[t]) \in Members
        /\ holder[BalanceLock(MemberOf(txn[t]))] = t
        /\ txn[t].seen.balance = balance[MemberOf(txn[t])]
  <2>1. kind \in {"mint", "execute", "reverse"} => MemberOf(txn[t]) \in Members
    BY <1>1, <1>2, MemberOfType DEF RowsTyped
  <2> QED
    BY <1>1, <1>2, <2>1 DEF Locks, BalanceKnown, BalanceTaken
<1>8. kind = "reverse" =>
        holder[MintLock(txn[t].in.id)] = t /\ txn[t].seen.mint = ledger[txn[t].in.id]
  BY <1>1, <1>2 DEF Locks, MintKnown
<1>9. kind \in {"activate", "castVote", "end"} =>
        /\ holder[ProposalLock(txn[t].in.id)] = t
        /\ txn[t].seen.status # None => txn[t].seen.status = proposal[txn[t].in.id].status
  BY <1>1, <1>2 DEF Locks, ProposalKnown
<1>10. kind \in {"mint", "execute", "activate", "createRequest", "close"} /\ txn[t].seen.epoch # 0 =>
         txn[t].seen.epoch \in ActiveEpochs /\ holder[EpochLock(txn[t].seen.epoch)] = t
  BY <1>1, <1>2 DEF Locks, EpochKnown
<1>11. /\ kind = "close" =>
            /\ \A m \in Members : holder[BalanceLock(m)] = t
            /\ \A i \in MaturingAt(txn[t].in.id + 1) : holder[MintLock(i)] = t
       /\ kind = "genesis" => \A k \in DOMAIN Allocation : holder[BalanceLock(Allocation[k].member)] = t
  BY <1>1, <1>2 DEF Locks, SwitchKnown
<1> QED
  BY <1>1, <1>3, <1>4, <1>5, <1>6, <1>7, <1>8, <1>9, <1>10, <1>11

\* A step that leaves the ledger, the epochs and the balances alone.
LEMMA LedgerLeftAlone ==
  ASSUME RowsTyped, UNCHANGED <<epochs, supply, ledger, balance>>, NEW t,
         \A p \in Proposals :
           holder[ProposalLock(p)] # t /\ proposal[p].status # None => proposal'[p].status = proposal[p].status,
         \A r \in Requests : request[r].status # None => request'[r].status # None
  PROVE  LedgerRows' /\ \A u \in Txns \ {t} : LeavesAlone(u)
<1>1. LedgerRows'
  BY DEF RowsTyped, LedgerRows
<1>2. Len(epochs) \in Nat /\ Len(ledger) \in Nat
  BY DEF RowsTyped, LedgerRows
<1>3. ActiveEpochs' = ActiveEpochs /\ \A k : MaturingAt(k)' = MaturingAt(k)
  BY DEF ActiveEpochs, MaturingAt
<1> QED
  BY <1>1, <1>2, <1>3 DEF LeavesAlone

\* A request whose status, approver or proposal is written is one all the same.
LEMMA RequestWritten ==
  ASSUME RowsTyped, UNCHANGED epochs, NEW r \in Requests, request[r].status # None, NEW new,
         new \in RequestRow, new.status # None, new.member = request[r].member,
         new.epoch = request[r].epoch, request' = [request EXCEPT ![r] = new]
  PROVE  /\ DOMAIN request' = Requests /\ \A q \in Requests : RequestOK(request[q])'
         /\ \A q \in Requests : request[q].status # None => request'[q].status # None
<1>1. DOMAIN request = Requests /\ \A q \in Requests : RequestOK(request[q])
  BY DEF RowsTyped, GovernanceRows
<1>2. request'[r] = new /\ \A q \in Requests \ {r} : request'[q] = request[q]
  BY <1>1
<1>3. new.member \in Members /\ new.epoch \in DOMAIN epochs
  BY <1>1 DEF RequestOK
<1>4. \A q \in Requests : RequestOK(request[q])'
  BY <1>1, <1>2, <1>3 DEF RequestOK
<1> QED
  BY <1>1, <1>2, <1>4

\* The approval, the rejection and the linking of a request.
LEMMA ApprovalsKeep ==
  ASSUME EngineInv, NEW t \in Txns, secondApprove(t) \/ reject(t) \/ attachProposal(t)
  PROVE  EngineInv'
<1>1. PICK kind \in {"secondApprove", "reject", "attach"} : Ready(t, kind)
  BY DEF secondApprove, reject, attachProposal
<1>2. /\ GivenTo(kind, txn[t].in) /\ txn[t].seen.request.status # None
      /\ txn[t].in.request \in Requests /\ request[txn[t].in.request].status # None
  <2>1. kind \in TxnKinds
    BY DEF TxnKinds
  <2>2. txn[t].seen.request.status # None
    BY NoneAssumption DEF secondApprove, reject, attachProposal
  <2> QED
    BY <1>1, <2>1, <2>2, ReadyKnows
<1>3. PICK r \in Requests : r = txn[t].in.id /\ request[r].status # None
  BY <1>2 DEF GivenTo
<1>4. /\ UNCHANGED <<epochs, supply, ledger, balance, policy, versions, proposal>> /\ Finish(t)
  BY DEF secondApprove, reject, attachProposal
<1>5. request[r] \in RequestRow /\ DOMAIN request = Requests
  BY <1>3 DEF EngineInv, RowsTyped, GovernanceRows, RequestOK
<1>6. PICK old \in RequestRow : old = request[r]
  BY <1>5
<1>7. PICK new \in RequestRow :
        /\ new.status # None /\ new.member = old.member /\ new.epoch = old.epoch
        /\ request' = [request EXCEPT ![r] = new]
  <2>1. CASE secondApprove(t)
    <3>1. PICK new : new = [old EXCEPT !.status = "approved", !.second = TRUE]
      OBVIOUS
    <3>2. new \in RequestRow /\ new.status = "approved" /\ new.member = old.member /\ new.epoch = old.epoch
      BY <3>1 DEF RequestRow, RequestStatus
    <3>3. request' = [request EXCEPT ![r] = new]
      BY <1>3, <1>5, <1>6, <2>1, <3>1 DEF secondApprove
    <3> QED
      BY <3>2, <3>3, NoneAssumption
  <2>2. CASE reject(t)
    <3>1. PICK new : new = [old EXCEPT !.status = "rejected"]
      OBVIOUS
    <3>2. new \in RequestRow /\ new.status = "rejected" /\ new.member = old.member /\ new.epoch = old.epoch
      BY <3>1 DEF RequestRow, RequestStatus
    <3>3. request' = [request EXCEPT ![r] = new]
      BY <1>3, <1>5, <1>6, <2>2, <3>1 DEF reject
    <3> QED
      BY <3>2, <3>3, NoneAssumption
  <2>3. CASE attachProposal(t)
    <3>0. PICK p \in Proposals : p = txn[t].in.proposal
      <4>1. kind = "attach"
        BY <1>1, <2>3 DEF attachProposal, Ready
      <4> QED
        BY <1>2, <4>1 DEF GivenTo
    <3>1. PICK new : new = [old EXCEPT !.proposal = p]
      OBVIOUS
    <3>2. new \in RequestRow /\ new.status = old.status /\ new.member = old.member /\ new.epoch = old.epoch
      BY <3>1 DEF RequestRow, RequestStatus
    <3>3. request' = [request EXCEPT ![r] = new]
      BY <1>3, <1>5, <1>6, <2>3, <3>0, <3>1 DEF attachProposal
    <3> QED
      BY <1>3, <1>6, <3>2, <3>3
  <2> QED
    BY <2>1, <2>2, <2>3
<1>8. /\ DOMAIN request' = Requests /\ \A q \in Requests : RequestOK(request[q])'
      /\ \A q \in Requests : request[q].status # None => request'[q].status # None
  <2>1. RowsTyped /\ UNCHANGED epochs
    BY <1>4 DEF EngineInv
  <2> QED
    BY <1>3, <1>6, <1>7, <2>1, RequestWritten
<1>9. LedgerRows' /\ \A u \in Txns \ {t} : LeavesAlone(u)
  BY <1>4, <1>8, LedgerLeftAlone DEF EngineInv
<1>10. GovernanceRows'
  BY <1>4, <1>8 DEF EngineInv, RowsTyped, GovernanceRows
<1> QED
  BY <1>4, <1>9, <1>10, FinishKeeps DEF RowsTyped

\* A request is created under the lock of its epoch.
LEMMA CreateRequestKeeps ==
  ASSUME EngineInv, NEW t \in Txns, createRequest(t)
  PROVE  EngineInv'
<1>1. /\ Ready(t, "createRequest") /\ Finish(t)
      /\ UNCHANGED <<epochs, supply, ledger, balance, policy, versions, proposal>>
  BY DEF createRequest
<1>2. /\ GivenTo("createRequest", txn[t].in)
      /\ txn[t].seen.epoch # 0 => txn[t].seen.epoch \in ActiveEpochs
  BY <1>1, ReadyKnows DEF TxnKinds
<1>3. PICK r \in Requests, a \in Asks : r = txn[t].in.id /\ a = txn[t].in.choice
  BY <1>2 DEF GivenTo
<1>4. PICK n \in DOMAIN epochs : n = txn[t].seen.epoch /\ n \in Nat
  BY <1>2 DEF createRequest, ActiveEpochs, EngineInv, RowsTyped, LedgerRows
<1>5. PICK status \in {"pending_second_approval", "pending_proposal"} :
        request' = [request EXCEPT ![r] =
          [NoRequest EXCEPT !.status = status, !.member = a.member, !.asked = a.amount, !.epoch = n,
                            !.covers = a.covers]]
  BY <1>3, <1>4 DEF createRequest
<1>6. a.member \in Members /\ a.amount \in Nat /\ a.covers \in SUBSET Contributions
  BY InputsAssumption
<1>7. PICK member, asked, covers : member = a.member /\ asked = a.amount /\ covers = a.covers
  OBVIOUS
<1>8. PICK new : new = [NoRequest EXCEPT !.status = status, !.member = member, !.asked = asked,
                                         !.epoch = n, !.covers = covers]
  OBVIOUS
<1>9. /\ new.status = status /\ new.member = member /\ new.epoch = n
      /\ new = [status |-> status, member |-> member, asked |-> asked, approved |-> 0, epoch |-> n,
                second |-> FALSE, proposal |-> None, covers |-> covers]
  BY <1>8 DEF NoRequest
<1>10. new \in RequestRow
  BY <1>4, <1>6, <1>7, <1>9 DEF RequestRow, RequestStatus
<1>11. request' = [request EXCEPT ![r] = new]
  BY <1>5, <1>7, <1>8
<1>12. DOMAIN request = Requests /\ \A q \in Requests : RequestOK(request[q])
  BY DEF EngineInv, RowsTyped, GovernanceRows
<1>13. request'[r] = new /\ \A q \in Requests \ {r} : request'[q] = request[q]
  BY <1>11, <1>12
<1>14. status # None
  BY NoneAssumption
<1>15. /\ DOMAIN request' = Requests /\ \A q \in Requests : RequestOK(request[q])'
       /\ \A q \in Requests : request[q].status # None => request'[q].status # None
  <2>1. RequestOK(new)'
    BY <1>1, <1>4, <1>6, <1>7, <1>9, <1>10 DEF RequestOK
  <2>2. \A q \in Requests \ {r} : RequestOK(request[q])'
    BY <1>1, <1>12, <1>13 DEF RequestOK
  <2> QED
    BY <1>9, <1>11, <1>12, <1>13, <1>14, <2>1, <2>2 DEF RequestOK
<1>16. LedgerRows' /\ \A u \in Txns \ {t} : LeavesAlone(u)
  BY <1>1, <1>15, LedgerLeftAlone DEF EngineInv
<1>17. GovernanceRows'
  BY <1>1, <1>15 DEF EngineInv, RowsTyped, GovernanceRows
<1> QED
  BY <1>1, <1>16, <1>17, FinishKeeps DEF RowsTyped

-----------------------------------------------------------------------------

\* A proposal that is written is one all the same.
LEMMA ProposalWritten ==
  ASSUME RowsTyped, NEW p \in Proposals, NEW new \in ProposalRow, new.about \in Purposes,
         proposal' = [proposal EXCEPT ![p] = new]
  PROVE  /\ proposal' \in [Proposals -> ProposalRow]
         /\ \A q \in Proposals : proposal'[q].status # None => proposal'[q].about \in Purposes
         /\ proposal'[p] = new /\ \A q \in Proposals \ {p} : proposal'[q] = proposal[q]
BY DEF RowsTyped, GovernanceRows

\* The ballots for an option, counted.
LEMMA VoterCountType ==
  \A p : VoterCount(p) \in Nat /\ Winner(p) \in {"approve", "reject"}
<1>1. \A p, option : Voters(p, option) \subseteq Members
  BY DEF Voters
<1>2. \A p, option : Cardinality(Voters(p, option)) \in Nat
  BY <1>1, MembersAssumption, FS_Subset, FS_CardinalityType
<1> QED
  BY <1>2 DEF VoterCount, Winner

\* A proposal is drafted, and its deadline passes, outside the transactions.
LEMMA DraftsKeep ==
  ASSUME EngineInv, create \/ Deadline
  PROVE  EngineInv'
<1>1. PICK p \in Proposals, new \in ProposalRow :
        /\ new.about \in Purposes /\ (proposal[p].status # None => new.status = proposal[p].status)
        /\ proposal' = [proposal EXCEPT ![p] = new]
  <2>1. CASE create
    <3>1. PICK p \in Proposals, a \in Purposes :
            /\ proposal[p] = NoProposal
            /\ proposal' = [proposal EXCEPT ![p] = [NoProposal EXCEPT !.status = "draft", !.about = a]]
      BY <2>1 DEF create
    <3>2. PICK new : new = [NoProposal EXCEPT !.status = "draft", !.about = a]
      OBVIOUS
    <3>3. new \in ProposalRow /\ new.about = a
      BY <3>2 DEF NoProposal, ProposalRow, ProposalStatus
    <3>4. proposal[p].status = None
      BY <3>1 DEF NoProposal
    <3> QED
      BY <3>1, <3>2, <3>3, <3>4
  <2>2. CASE Deadline
    <3>1. PICK p \in Proposals :
            /\ proposal[p].status = "active"
            /\ proposal' = [proposal EXCEPT ![p].over = TRUE]
      BY <2>2 DEF Deadline
    <3>2. PICK old \in ProposalRow : old = proposal[p]
      BY DEF EngineInv, RowsTyped, GovernanceRows
    <3>3. PICK new : new = [old EXCEPT !.over = TRUE]
      OBVIOUS
    <3>4. new \in ProposalRow /\ new.about = old.about /\ new.status = old.status
      BY <3>3 DEF ProposalRow
    <3>5. old.about \in Purposes
      BY <3>1, <3>2, NoneAssumption DEF EngineInv, RowsTyped, GovernanceRows
    <3>6. proposal' = [proposal EXCEPT ![p] = new]
      BY <3>1, <3>2, <3>3 DEF EngineInv, RowsTyped, GovernanceRows
    <3> QED
      BY <3>2, <3>4, <3>5, <3>6
  <2> QED
    BY <2>1, <2>2
<1>2. UNCHANGED <<epochs, supply, ledger, balance, request, policy, versions, holder, txn>>
  BY DEF create, Deadline
<1>3. /\ proposal' \in [Proposals -> ProposalRow]
      /\ \A q \in Proposals : proposal'[q].status # None => proposal'[q].about \in Purposes
      /\ \A q \in Proposals : proposal[q].status # None => proposal'[q].status = proposal[q].status
  <2>1. RowsTyped
    BY DEF EngineInv
  <2>2. /\ proposal' \in [Proposals -> ProposalRow]
        /\ \A q \in Proposals : proposal'[q].status # None => proposal'[q].about \in Purposes
        /\ proposal'[p] = new /\ \A q \in Proposals \ {p} : proposal'[q] = proposal[q]
    BY <1>1, <2>1, ProposalWritten
  <2> QED
    BY <1>1, <2>2
<1>4. LedgerRows' /\ \A u \in Txns : LeavesAlone(u)
  <2>1. LedgerRows' /\ \A u \in Txns \ {None} : LeavesAlone(u)
    BY <1>2, <1>3, LedgerLeftAlone DEF EngineInv
  <2>2. LedgerRows' /\ \A u \in Txns \ {Free} : LeavesAlone(u)
    BY <1>2, <1>3, LedgerLeftAlone DEF EngineInv
  <2> QED
    BY <2>1, <2>2, NotATransaction
<1>5. GovernanceRows'
  BY <1>2, <1>3 DEF EngineInv, RowsTyped, GovernanceRows, RequestOK
<1>6. TxnsTyped'
  BY <1>2 DEF EngineInv, TxnsTyped, TxnRow
<1>7. ASSUME NEW u \in Txns PROVE Sound(u)'
  <2>1. RowsTyped /\ RowsTyped' /\ TxnsTyped /\ Sound(u) /\ LeavesAlone(u)
    BY <1>4, <1>5 DEF EngineInv, RowsTyped
  <2> QED
    BY <1>2, <2>1, FrameOfOthers
<1> QED
  BY <1>4, <1>5, <1>6, <1>7 DEF EngineInv, RowsTyped

\* A proposal is activated or voted on by the transaction that has locked it.
LEMMA VotesKeep ==
  ASSUME EngineInv, NEW t \in Txns, activate(t) \/ castVote(t)
  PROVE  EngineInv'
<1>1. PICK kind \in {"activate", "castVote"} :
        Ready(t, kind) /\ (activate(t) => kind = "activate") /\ (castVote(t) => kind = "castVote")
  BY DEF activate, castVote, Ready
<1>2. /\ Finish(t) /\ txn[t].seen.status # None
      /\ UNCHANGED <<epochs, supply, ledger, balance, request, policy, versions>>
  BY NoneAssumption DEF activate, castVote
<1>3. /\ GivenTo(kind, txn[t].in) /\ txn[t].seen \in SeenRow
      /\ holder[ProposalLock(txn[t].in.id)] = t
      /\ txn[t].seen.status = proposal[txn[t].in.id].status
  <2>1. kind \in TxnKinds
    BY DEF TxnKinds
  <2> QED
    BY <1>1, <1>2, <2>1, ReadyKnows
<1>4. PICK p \in Proposals : p = txn[t].in.id
  BY <1>3 DEF GivenTo
<1>5. PICK old \in ProposalRow : old = proposal[p] /\ old.about \in Purposes
  BY <1>2, <1>3, <1>4 DEF EngineInv, RowsTyped, GovernanceRows
<1>6. PICK new \in ProposalRow : new.about = old.about /\ proposal' = [proposal EXCEPT ![p] = new]
  <2>1. CASE activate(t)
    <3>1. PICK n \in Nat, s \in Nat : n = txn[t].seen.epoch /\ s = txn[t].seen.supply
      BY <1>3 DEF SeenRow
    <3>2. PICK eligible \in SUBSET Members : eligible = {m \in Members : HasBalance(m)}
      OBVIOUS
    <3>3. PICK weight \in [Members -> Nat] : weight = [m \in Members |-> balance[m].active]
      BY DEF EngineInv, RowsTyped, LedgerRows, BalanceRow
    <3>4. PICK new : new = [old EXCEPT !.status = "active", !.epoch = n, !.supply = s,
                                       !.eligible = eligible, !.weight = weight]
      OBVIOUS
    <3>5. new \in ProposalRow /\ new.about = old.about
      BY <3>4 DEF ProposalRow, ProposalStatus
    <3>6. proposal' = [proposal EXCEPT ![p] = new]
      BY <1>4, <1>5, <2>1, <3>1, <3>2, <3>3, <3>4 DEF activate, EngineInv, RowsTyped, GovernanceRows
    <3> QED
      BY <3>5, <3>6
  <2>2. CASE castVote(t)
    <3>1. PICK m \in Members, c \in {"approve", "reject"} : m = txn[t].in.member /\ c = txn[t].in.choice
      BY <1>1, <1>3, <2>2 DEF GivenTo
    <3>2. PICK vote : vote = [old.vote EXCEPT ![m] = c]
      OBVIOUS
    <3>3. vote \in [Members -> {None, "approve", "reject"}]
      BY <3>1, <3>2 DEF ProposalRow
    <3>4. PICK new : new = [old EXCEPT !.vote = vote]
      OBVIOUS
    <3>5. new \in ProposalRow /\ new.about = old.about
      BY <3>3, <3>4 DEF ProposalRow
    <3>6. proposal' = [proposal EXCEPT ![p] = new]
      BY <1>4, <1>5, <2>2, <3>1, <3>2, <3>4 DEF castVote, EngineInv, RowsTyped, GovernanceRows
    <3> QED
      BY <3>5, <3>6
  <2> QED
    BY <2>1, <2>2
<1>7. /\ proposal' \in [Proposals -> ProposalRow]
      /\ \A q \in Proposals : proposal'[q].status # None => proposal'[q].about \in Purposes
      /\ proposal'[p] = new /\ \A q \in Proposals \ {p} : proposal'[q] = proposal[q]
  <2>1. RowsTyped
    BY DEF EngineInv
  <2> QED
    BY <1>5, <1>6, <2>1, ProposalWritten
<1>8. LedgerRows' /\ \A u \in Txns \ {t} : LeavesAlone(u)
  BY <1>2, <1>3, <1>4, <1>7, LedgerLeftAlone DEF EngineInv
<1>9. GovernanceRows'
  BY <1>2, <1>7 DEF EngineInv, RowsTyped, GovernanceRows, RequestOK
<1> QED
  BY <1>2, <1>8, <1>9, FinishKeeps DEF RowsTyped

\* The end of a vote settles what the proposal is about.
LEMMA EndKeeps ==
  ASSUME EngineInv, NEW t \in Txns, end(t)
  PROVE  EngineInv'
<1>1. Ready(t, "end") /\ Finish(t) /\ UNCHANGED <<epochs, supply, ledger, balance>> /\ txn[t].seen.status = "active"
  BY DEF end
<1>2. /\ GivenTo("end", txn[t].in) /\ txn[t].seen \in SeenRow /\ txn[t].seen.policy \in PolicyRow
      /\ holder[ProposalLock(txn[t].in.id)] = t
      /\ txn[t].seen.status = proposal[txn[t].in.id].status
  BY <1>1, ReadyKnows, NoneAssumption DEF TxnKinds
<1>3. PICK p \in Proposals : p = txn[t].in.id
  BY <1>2 DEF GivenTo
<1>4. PICK old \in ProposalRow : old = proposal[p] /\ old.about \in Purposes
  BY <1>1, <1>2, <1>3, NoneAssumption DEF EngineInv, RowsTyped, GovernanceRows
<1>5. PICK w \in {"approve", "reject"}, n \in Nat : w = Winner(p) /\ n = VoterCount(p)
  BY VoterCountType
<1>6. PICK new : new = [old EXCEPT !.status = "recorded", !.winner = w, !.voters = n]
  OBVIOUS
<1>7. new \in ProposalRow /\ new.about = old.about
  BY <1>6 DEF ProposalRow, ProposalStatus
<1>8. proposal' = [proposal EXCEPT ![p] = new]
  BY <1>3, <1>4, <1>5, <1>6 DEF end, EngineInv, RowsTyped, GovernanceRows
<1>9. /\ proposal' \in [Proposals -> ProposalRow]
      /\ \A q \in Proposals : proposal'[q].status # None => proposal'[q].about \in Purposes
      /\ proposal'[p] = new /\ \A q \in Proposals \ {p} : proposal'[q] = proposal[q]
  <2>1. RowsTyped
    BY DEF EngineInv
  <2> QED
    BY <1>4, <1>7, <1>8, <2>1, ProposalWritten
<1>10. /\ DOMAIN request' = Requests /\ \A q \in Requests : RequestOK(request[q])'
       /\ \A q \in Requests : request[q].status # None => request'[q].status # None
       /\ policy' \in PolicyRow /\ versions' \subseteq Nat
  <2>1. CASE UNCHANGED <<request, policy, versions>>
    BY <1>1, <2>1 DEF EngineInv, RowsTyped, GovernanceRows, RequestOK
  <2>2. CASE Settle(t, old.about)
    <3>1. CASE old.about.type = "token_policy_change"
      <4>1. old.about.target \in RatesOf
        BY <1>4, <3>1, InputsAssumption
      <4>2. PICK v \in Nat, n1 \in Nat : v = txn[t].seen.policy.version + 1 /\ n1 = txn[t].seen.epoch + 1
        <5>1. txn[t].seen.policy.version \in Nat /\ txn[t].seen.epoch \in Nat
          BY <1>2 DEF SeenRow, PolicyRow
        <5> QED
          BY <5>1
      <4>3. /\ versions' = versions \cup {v} /\ UNCHANGED request
            /\ policy' = [policy EXCEPT !.pending = [version |-> v, rates |-> old.about.target, epoch |-> n1]]
        BY <2>2, <3>1, <4>2 DEF Settle, PendingVersion
      <4>4. PICK pending \in [version : Nat, rates : RatesOf, epoch : Nat] :
              pending = [version |-> v, rates |-> old.about.target, epoch |-> n1]
        BY <4>1
      <4>5. policy' \in PolicyRow
        BY <4>3, <4>4 DEF EngineInv, RowsTyped, GovernanceRows, PolicyRow
      <4> QED
        BY <1>1, <4>3, <4>5 DEF EngineInv, RowsTyped, GovernanceRows, RequestOK
    <3>2. CASE old.about.type = "budget_advance"
      <4>1. PICK r \in Requests : r = old.about.target
        BY <1>4, <3>2, InputsAssumption
      <4>2. UNCHANGED <<policy, versions>>
        BY <2>2, <3>2 DEF Settle
      <4>3. CASE request[r].status = "pending_proposal"
        <5>1. PICK was \in RequestRow : was = request[r]
          BY DEF EngineInv, RowsTyped, GovernanceRows, RequestOK
        <5>2. PICK now : now = [was EXCEPT !.status = "approved"]
          OBVIOUS
        <5>3. now \in RequestRow /\ now.status = "approved" /\ now.member = was.member /\ now.epoch = was.epoch
          BY <5>2 DEF RequestRow, RequestStatus
        <5>4. request' = [request EXCEPT ![r] = now]
          BY <2>2, <3>2, <4>1, <4>3, <5>1, <5>2 DEF Settle, EngineInv, RowsTyped, GovernanceRows
        <5>5. RowsTyped /\ UNCHANGED epochs /\ request[r].status # None /\ now.status # None
          BY <1>1, <4>3, <5>3, NoneAssumption DEF EngineInv
        <5>6. /\ DOMAIN request' = Requests /\ \A q \in Requests : RequestOK(request[q])'
              /\ \A q \in Requests : request[q].status # None => request'[q].status # None
          BY <5>1, <5>3, <5>4, <5>5, RequestWritten
        <5> QED
          BY <4>2, <5>6 DEF EngineInv, RowsTyped, GovernanceRows
      <4>4. CASE request[r].status # "pending_proposal"
        <5>1. UNCHANGED request
          BY <2>2, <3>2, <4>1, <4>4 DEF Settle
        <5> QED
          BY <1>1, <4>2, <5>1 DEF EngineInv, RowsTyped, GovernanceRows, RequestOK
      <4> QED
        BY <4>3, <4>4
    <3>3. CASE old.about.type \notin {"token_policy_change", "budget_advance"}
      <4>1. UNCHANGED <<request, policy, versions>>
        BY <2>2, <3>3 DEF Settle
      <4> QED
        BY <2>1, <4>1
    <3> QED
      BY <3>1, <3>2, <3>3
  <2> QED
    BY <1>3, <1>4, <2>1, <2>2 DEF end
<1>11. LedgerRows' /\ \A u \in Txns \ {t} : LeavesAlone(u)
  BY <1>1, <1>2, <1>3, <1>9, <1>10, LedgerLeftAlone DEF EngineInv
<1>12. GovernanceRows'
  BY <1>9, <1>10 DEF GovernanceRows
<1> QED
  BY <1>1, <1>11, <1>12, FinishKeeps DEF RowsTyped

-----------------------------------------------------------------------------

\* An entry with some of its fields replaced.
EntryFields == {"kind", "member", "amount", "balanceAfter", "supplyAfter", "pending", "epoch",
                "contribution", "request", "proposal", "of"}
IsEntry(e) ==
  e = [kind |-> e.kind, member |-> e.member, amount |-> e.amount, balanceAfter |-> e.balanceAfter,
      supplyAfter |-> e.supplyAfter, pending |-> e.pending, epoch |-> e.epoch,
      contribution |-> e.contribution, request |-> e.request, proposal |-> e.proposal,
      of |-> e.of]

LEMMA EntryPlaced ==
  ASSUME NEW e, IsEntry(e), NEW n, NEW c, NEW p
  PROVE  [e EXCEPT !.epoch = n, !.contribution = c, !.proposal = p] =
           [kind |-> e.kind, member |-> e.member, amount |-> e.amount,
            balanceAfter |-> e.balanceAfter, supplyAfter |-> e.supplyAfter, pending |-> e.pending,
            epoch |-> n, contribution |-> c, request |-> e.request, proposal |-> p, of |-> e.of]
<1>1. PICK y : y = [e EXCEPT !.epoch = n, !.contribution = c, !.proposal = p]
  OBVIOUS
<1>2. PICK z : z = [kind |-> e.kind, member |-> e.member, amount |-> e.amount,
                    balanceAfter |-> e.balanceAfter, supplyAfter |-> e.supplyAfter,
                    pending |-> e.pending, epoch |-> n, contribution |-> c, request |-> e.request,
                    proposal |-> p, of |-> e.of]
  OBVIOUS
<1>3. DOMAIN y = EntryFields /\ DOMAIN z = EntryFields
  BY <1>1, <1>2 DEF EntryFields, IsEntry
<1>4. y.kind = z.kind /\ y.member = z.member /\ y.amount = z.amount /\
      y.balanceAfter = z.balanceAfter /\ y.supplyAfter = z.supplyAfter /\ y.pending = z.pending /\
      y.epoch = z.epoch /\ y.contribution = z.contribution /\ y.request = z.request /\
      y.proposal = z.proposal /\ y.of = z.of
  BY <1>1, <1>2 DEF IsEntry
<1>5. y = [f \in EntryFields |-> y[f]] /\ z = [f \in EntryFields |-> z[f]]
  BY <1>1, <1>2, <1>3 DEF EntryFields, IsEntry
<1>6. y = z
  BY <1>3, <1>4, <1>5 DEF EntryFields
<1> QED
  BY <1>1, <1>2, <1>6

LEMMA EntryAdvanced ==
  ASSUME NEW e, IsEntry(e), NEW r
  PROVE  [e EXCEPT !.pending = TRUE, !.request = r] =
           [kind |-> e.kind, member |-> e.member, amount |-> e.amount,
            balanceAfter |-> e.balanceAfter, supplyAfter |-> e.supplyAfter, pending |-> TRUE,
            epoch |-> e.epoch, contribution |-> e.contribution, request |-> r,
            proposal |-> e.proposal, of |-> e.of]
<1>1. PICK y : y = [e EXCEPT !.pending = TRUE, !.request = r]
  OBVIOUS
<1>2. PICK z : z = [kind |-> e.kind, member |-> e.member, amount |-> e.amount,
                    balanceAfter |-> e.balanceAfter, supplyAfter |-> e.supplyAfter,
                    pending |-> TRUE, epoch |-> e.epoch, contribution |-> e.contribution,
                    request |-> r, proposal |-> e.proposal, of |-> e.of]
  OBVIOUS
<1>3. DOMAIN y = EntryFields /\ DOMAIN z = EntryFields
  BY <1>1, <1>2 DEF EntryFields, IsEntry
<1>4. y.kind = z.kind /\ y.member = z.member /\ y.amount = z.amount /\
      y.balanceAfter = z.balanceAfter /\ y.supplyAfter = z.supplyAfter /\ y.pending = z.pending /\
      y.epoch = z.epoch /\ y.contribution = z.contribution /\ y.request = z.request /\
      y.proposal = z.proposal /\ y.of = z.of
  BY <1>1, <1>2 DEF IsEntry
<1>5. y = [f \in EntryFields |-> y[f]] /\ z = [f \in EntryFields |-> z[f]]
  BY <1>1, <1>2, <1>3 DEF EntryFields, IsEntry
<1>6. y = z
  BY <1>3, <1>4, <1>5 DEF EntryFields
<1> QED
  BY <1>1, <1>2, <1>6

LEMMA EntryExecuted ==
  ASSUME NEW e, IsEntry(e), NEW n, NEW r, NEW p
  PROVE  [e EXCEPT !.pending = TRUE, !.epoch = n, !.request = r, !.proposal = p] =
           [kind |-> e.kind, member |-> e.member, amount |-> e.amount,
            balanceAfter |-> e.balanceAfter, supplyAfter |-> e.supplyAfter, pending |-> TRUE,
            epoch |-> n, contribution |-> e.contribution, request |-> r, proposal |-> p,
            of |-> e.of]
<1>1. PICK y : y = [e EXCEPT !.pending = TRUE, !.epoch = n, !.request = r, !.proposal = p]
  OBVIOUS
<1>2. PICK z : z = [kind |-> e.kind, member |-> e.member, amount |-> e.amount,
                    balanceAfter |-> e.balanceAfter, supplyAfter |-> e.supplyAfter,
                    pending |-> TRUE, epoch |-> n, contribution |-> e.contribution, request |-> r,
                    proposal |-> p, of |-> e.of]
  OBVIOUS
<1>3. DOMAIN y = EntryFields /\ DOMAIN z = EntryFields
  BY <1>1, <1>2 DEF EntryFields, IsEntry
<1>4. y.kind = z.kind /\ y.member = z.member /\ y.amount = z.amount /\
      y.balanceAfter = z.balanceAfter /\ y.supplyAfter = z.supplyAfter /\ y.pending = z.pending /\
      y.epoch = z.epoch /\ y.contribution = z.contribution /\ y.request = z.request /\
      y.proposal = z.proposal /\ y.of = z.of
  BY <1>1, <1>2 DEF IsEntry
<1>5. y = [f \in EntryFields |-> y[f]] /\ z = [f \in EntryFields |-> z[f]]
  BY <1>1, <1>2, <1>3 DEF EntryFields, IsEntry
<1>6. y = z
  BY <1>3, <1>4, <1>5 DEF EntryFields
<1> QED
  BY <1>1, <1>2, <1>6

\* Entries of the ledger, written out.
RegularLeg(t, regular) ==
  [kind |-> "regular", member |-> MemberOf(txn[t]), amount |-> regular,
   balanceAfter |-> txn[t].seen.balance.total + regular, supplyAfter |-> txn[t].seen.supply + regular,
   pending |-> FALSE, epoch |-> txn[t].seen.epoch, contribution |-> txn[t].in.id, request |-> None,
   proposal |-> txn[t].in.proposal, of |-> 0]

AdvanceLeg(t, regular, advance) ==
  [kind |-> "advance", member |-> MemberOf(txn[t]), amount |-> advance,
   balanceAfter |-> txn[t].seen.balance.total + (regular + advance),
   supplyAfter |-> txn[t].seen.supply + (regular + advance),
   pending |-> TRUE, epoch |-> txn[t].seen.epoch, contribution |-> txn[t].in.id,
   request |-> txn[t].in.request, proposal |-> txn[t].in.proposal, of |-> 0]

Execution(t, amount) ==
  [kind |-> "execution", member |-> txn[t].seen.request.member, amount |-> amount,
   balanceAfter |-> txn[t].seen.balance.total + amount, supplyAfter |-> txn[t].seen.supply + amount,
   pending |-> TRUE, epoch |-> txn[t].seen.epoch, contribution |-> None, request |-> txn[t].in.id,
   proposal |-> txn[t].seen.request.proposal, of |-> 0]

Reversal(t, amount) ==
  [kind |-> "reversal", member |-> MemberOf(txn[t]), amount |-> amount,
   balanceAfter |-> txn[t].seen.balance.total - amount, supplyAfter |-> txn[t].seen.supply - amount,
   pending |-> FALSE, epoch |-> 0, contribution |-> None, request |-> None, proposal |-> None,
   of |-> txn[t].in.id]

Allotment(t, k) ==
  [kind |-> "genesis", member |-> Allocation[k].member, amount |-> Allocation[k].amount,
   balanceAfter |-> balance[Allocation[k].member].total + Allocation[k].amount,
   supplyAfter |-> txn[t].seen.supply + Allocation[k].upTo, pending |-> FALSE, epoch |-> 0,
   contribution |-> None, request |-> None, proposal |-> None, of |-> 0]

\* The legs of a mint are what it draws on its epoch's budget and on an advance.
LEMMA LegsAre ==
  ASSUME NEW t, NEW regular, NEW advance
  PROVE  Legs(t, regular, advance) =
           (IF regular > 0 THEN <<RegularLeg(t, regular)>> ELSE << >>)
           \o (IF advance > 0 THEN <<AdvanceLeg(t, regular, advance)>> ELSE << >>)
<1>1. PICK m, n, c, p, r, b, s :
        /\ m = MemberOf(txn[t]) /\ n = txn[t].seen.epoch /\ c = txn[t].in.id /\ p = txn[t].in.proposal
        /\ r = txn[t].in.request /\ b = txn[t].seen.balance.total /\ s = txn[t].seen.supply
  OBVIOUS
<1> DEFINE Leg(kind, part, upTo) ==
      [Entry(kind, m, part, b + upTo, s + upTo)
         EXCEPT !.epoch = n, !.contribution = c, !.proposal = p]
<1>2. \A kind, part, upTo :
        Leg(kind, part, upTo) =
          [kind |-> kind, member |-> m, amount |-> part, balanceAfter |-> b + upTo,
           supplyAfter |-> s + upTo, pending |-> FALSE, epoch |-> n, contribution |-> c,
           request |-> None, proposal |-> p, of |-> 0]
  <2> TAKE kind, part, upTo
  <2>1. PICK x, y : x = b + upTo /\ y = s + upTo
    OBVIOUS
  <2>2. PICK e : e = Entry(kind, m, part, x, y)
    OBVIOUS
  <2>3. /\ e.kind = kind /\ e.member = m /\ e.amount = part /\ e.balanceAfter = x /\ e.supplyAfter = y
        /\ e.pending = FALSE /\ e.request = None /\ e.of = 0 /\ IsEntry(e)
    BY <2>2 DEF Entry, IsEntry
  <2>4. [e EXCEPT !.epoch = n, !.contribution = c, !.proposal = p] =
          [kind |-> e.kind, member |-> e.member, amount |-> e.amount, balanceAfter |-> e.balanceAfter,
           supplyAfter |-> e.supplyAfter, pending |-> e.pending, epoch |-> n, contribution |-> c,
           request |-> e.request, proposal |-> p, of |-> e.of]
    BY ONLY <2>3, EntryPlaced
  <2>5. Leg(kind, part, upTo) = [e EXCEPT !.epoch = n, !.contribution = c, !.proposal = p]
    BY <2>1, <2>2
  <2> HIDE DEF Leg
  <2> QED
    BY ONLY <2>1, <2>3, <2>4, <2>5
<1>3. Leg("regular", regular, regular) = RegularLeg(t, regular)
  <2> HIDE DEF Leg
  <2> QED
    BY <1>1, <1>2 DEF RegularLeg
<1>4. [Leg("advance", advance, regular + advance) EXCEPT !.pending = TRUE, !.request = r] =
        AdvanceLeg(t, regular, advance)
  <2> HIDE DEF Leg
  <2>1. PICK e : e = Leg("advance", advance, regular + advance)
    OBVIOUS
  <2>2. e = [kind |-> "advance", member |-> m, amount |-> advance, balanceAfter |-> b + (regular + advance),
             supplyAfter |-> s + (regular + advance), pending |-> FALSE, epoch |-> n, contribution |-> c,
             request |-> None, proposal |-> p, of |-> 0]
    BY <1>2, <2>1
  <2>3. /\ e.kind = "advance" /\ e.member = m /\ e.amount = advance /\ e.balanceAfter = b + (regular + advance)
        /\ e.supplyAfter = s + (regular + advance) /\ e.epoch = n /\ e.contribution = c
        /\ e.proposal = p /\ e.of = 0 /\ IsEntry(e)
    BY ONLY <2>2 DEF IsEntry
  <2>4. [e EXCEPT !.pending = TRUE, !.request = r] =
          [kind |-> e.kind, member |-> e.member, amount |-> e.amount, balanceAfter |-> e.balanceAfter,
           supplyAfter |-> e.supplyAfter, pending |-> TRUE, epoch |-> e.epoch,
           contribution |-> e.contribution, request |-> r, proposal |-> e.proposal, of |-> e.of]
    BY ONLY <2>3, EntryAdvanced
  <2> QED
    BY ONLY <1>1, <2>1, <2>3, <2>4 DEF AdvanceLeg
<1>5. Legs(t, regular, advance) =
        (IF regular > 0 THEN <<Leg("regular", regular, regular)>> ELSE << >>)
        \o (IF advance > 0
            THEN <<[Leg("advance", advance, regular + advance) EXCEPT !.pending = TRUE, !.request = r]>>
            ELSE << >>)
  BY <1>1 DEF Legs
<1> HIDE DEF Leg
<1> QED
  BY <1>3, <1>4, <1>5

LEMMA LegsShape ==
  ASSUME EngineInv, NEW t \in Txns, Ready(t, "mint"), NEW regular \in Nat, NEW advance \in Nat,
         NEW legs, legs = Legs(t, regular, advance)
  PROVE  /\ legs \in Seq(EntryRow)
         /\ Len(legs) = (IF regular > 0 THEN 1 ELSE 0) + (IF advance > 0 THEN 1 ELSE 0)
         /\ regular > 0 => legs[1] = RegularLeg(t, regular) /\ RegularLeg(t, regular) \in EntryRow
         /\ advance > 0 => /\ legs[Len(legs)] = AdvanceLeg(t, regular, advance)
                           /\ AdvanceLeg(t, regular, advance) \in EntryRow
<1>1. /\ GivenTo("mint", txn[t].in) /\ txn[t].seen \in SeenRow /\ MemberOf(txn[t]) \in Members
  BY ReadyKnows DEF TxnKinds
<1>2. /\ txn[t].seen.balance.total \in Nat /\ txn[t].seen.supply \in Nat /\ txn[t].seen.epoch \in Nat
      /\ txn[t].in.id \in Contributions /\ txn[t].in.request \in Requests \cup {None}
      /\ txn[t].in.proposal \in Proposals \cup {None}
  BY <1>1 DEF GivenTo, SeenRow, BalanceRow
<1>3. regular > 0 => RegularLeg(t, regular) \in EntryRow
  BY <1>1, <1>2 DEF RegularLeg, EntryRow
<1>4. advance > 0 => AdvanceLeg(t, regular, advance) \in EntryRow
  <2>1. txn[t].seen.balance.total + (regular + advance) \in Nat /\ txn[t].seen.supply + (regular + advance) \in Nat
    BY <1>2
  <2> QED
    BY <1>1, <1>2, <2>1 DEF AdvanceLeg, EntryRow
<1>5. PICK one, two : one = RegularLeg(t, regular) /\ two = AdvanceLeg(t, regular, advance)
  OBVIOUS
<1>6. legs = (IF regular > 0 THEN <<one>> ELSE << >>) \o (IF advance > 0 THEN <<two>> ELSE << >>)
  BY <1>5, LegsAre
<1>7. PICK S : S = EntryRow
  OBVIOUS
<1>8. (regular > 0 => one \in S) /\ (advance > 0 => two \in S)
  BY <1>3, <1>4, <1>5, <1>7
<1>9. /\ legs \in Seq(S)
      /\ Len(legs) = (IF regular > 0 THEN 1 ELSE 0) + (IF advance > 0 THEN 1 ELSE 0)
      /\ regular > 0 => legs[1] = one
      /\ advance > 0 => legs[Len(legs)] = two
  <2>1. CASE regular > 0 /\ advance > 0
    BY <1>6, <1>8, <2>1
  <2>2. CASE regular > 0 /\ ~(advance > 0)
    BY <1>6, <1>8, <2>2
  <2>3. CASE ~(regular > 0) /\ advance > 0
    BY <1>6, <1>8, <2>3
  <2>4. CASE ~(regular > 0) /\ ~(advance > 0)
    BY <1>6, <1>8, <2>4
  <2> QED
    BY <2>1, <2>2, <2>3, <2>4
<1> QED
  BY <1>3, <1>4, <1>5, <1>7, <1>9

\* A step that only adds entries to the ledger, under the locks of a transaction.
LEMMA LedgerExtended ==
  ASSUME RowsTyped, NEW t \in Txns, NEW entries \in Seq(EntryRow), ledger' = ledger \o entries,
         Len(ledger) + Len(entries) <= MaxLedger,
         Len(epochs') = Len(epochs), \A k \in DOMAIN epochs : epochs'[k].status = epochs[k].status,
         epochs' \in Seq(EpochRow),
         \A k \in DOMAIN entries : entries[k].pending => holder[EpochLock(entries[k].epoch)] = t,
         holder[StateLock] = t,
         \A m \in Members : holder[BalanceLock(m)] # t => balance'[m] = balance[m],
         UNCHANGED proposal,
         \A r \in Requests : request[r].status # None => request'[r].status # None
  PROVE  /\ ledger' \in Seq(EntryRow) /\ Len(ledger') = Len(ledger) + Len(entries)
         /\ \A i \in DOMAIN ledger : ledger'[i] = ledger[i]
         /\ \A k \in DOMAIN entries : ledger'[Len(ledger) + k] = entries[k]
         /\ Len(ledger') <= MaxLedger
         /\ \A u \in Txns \ {t} : LeavesAlone(u)
<1>1. ledger \in Seq(EntryRow) /\ Len(ledger) \in Nat /\ Len(entries) \in Nat
  BY DEF RowsTyped, LedgerRows
<1>2. /\ ledger' \in Seq(EntryRow) /\ Len(ledger') = Len(ledger) + Len(entries)
      /\ \A i \in 1 .. Len(ledger) : ledger'[i] = ledger[i]
      /\ \A i \in Len(ledger) + 1 .. Len(ledger') : ledger'[i] = entries[i - Len(ledger)]
  <2>1. PICK S : S = EntryRow
    OBVIOUS
  <2> QED
    BY <1>1, <2>1, ConcatProperties
<1>3. DOMAIN ledger = 1 .. Len(ledger) /\ DOMAIN entries = 1 .. Len(entries) /\ DOMAIN ledger' = 1 .. Len(ledger')
  BY <1>1, <1>2
<1>4. \A k \in DOMAIN entries : ledger'[Len(ledger) + k] = entries[k]
  <2> TAKE k \in DOMAIN entries
  <2>1. Len(ledger) + k \in Len(ledger) + 1 .. Len(ledger') /\ (Len(ledger) + k) - Len(ledger) = k
    BY <1>1, <1>2, <1>3
  <2> QED
    BY <1>2, <2>1
<1>5. Len(epochs) \in Nat /\ DOMAIN epochs' = DOMAIN epochs
  BY DEF RowsTyped, LedgerRows
<1>6. ActiveEpochs' = ActiveEpochs
  BY <1>5 DEF ActiveEpochs
<1>7. ASSUME NEW u \in Txns \ {t}, NEW k \in DOMAIN epochs, holder[EpochLock(k)] = u,
             NEW i \in MaturingAt(k + 1)'
      PROVE  i \in MaturingAt(k + 1)
  <2>1. i \in DOMAIN ledger' /\ ledger'[i].pending /\ ledger'[i].epoch + 1 = k + 1
    BY <1>7 DEF MaturingAt
  <2>2. CASE i \in DOMAIN ledger
    BY <1>2, <1>3, <2>1, <2>2 DEF MaturingAt
  <2>3. CASE i \notin DOMAIN ledger
    <3>1. PICK j \in DOMAIN entries : j = i - Len(ledger)
      BY <1>1, <1>2, <1>3, <2>1, <2>3
    <3>2. ledger'[i] = entries[j]
      BY <1>1, <1>2, <1>3, <2>1, <2>3, <3>1
    <3>3. entries[j].epoch \in Nat /\ k \in Nat
      <4>1. entries[j] \in EntryRow
        BY <3>1
      <4> QED
        BY <1>5, <4>1 DEF EntryRow
    <3>4. entries[j].epoch = k
      BY <2>1, <3>2, <3>3
    <3> QED
      BY <1>7, <2>1, <3>2, <3>4
  <2> QED
    BY <2>2, <2>3
<1>8. \A u \in Txns \ {t} : LeavesAlone(u)
  BY <1>1, <1>2, <1>3, <1>5, <1>6, <1>7 DEF LeavesAlone
<1> QED
  BY <1>2, <1>3, <1>4, <1>8

\* What crediting a balance writes.
LEMMA Credited ==
  ASSUME LedgerRows, NEW m \in Members, NEW active \in Int, NEW pending \in Int, NEW earned \in Int,
         Credit(m, active, pending, earned),
         balance[m].total + active + pending >= 0, balance[m].active + active >= 0,
         balance[m].pending + pending >= 0, balance[m].earned + earned >= 0
  PROVE  /\ balance' \in [Members -> BalanceRow]
         /\ balance'[m].total = balance[m].total + active + pending
         /\ balance'[m].active = balance[m].active + active
         /\ balance'[m].pending = balance[m].pending + pending
         /\ balance'[m].earned = balance[m].earned + earned
         /\ \A k \in Members \ {m} : balance'[k] = balance[k]
<1>1. balance \in [Members -> BalanceRow]
  BY DEF LedgerRows
<1>2. PICK old \in BalanceRow : old = balance[m]
  BY <1>1
<1>3. PICK to, ac, pe, ea :
        to = old.total + active + pending /\ ac = old.active + active /\ pe = old.pending + pending
        /\ ea = old.earned + earned
  OBVIOUS
<1>4. PICK new : new = [total |-> to, active |-> ac, pending |-> pe, earned |-> ea]
  OBVIOUS
<1>5. to \in Nat /\ ac \in Nat /\ pe \in Nat /\ ea \in Nat
  BY <1>2, <1>3 DEF BalanceRow
<1>6. new \in BalanceRow
  BY <1>4, <1>5 DEF BalanceRow
<1>7. balance' = [balance EXCEPT ![m] = new]
  BY <1>2, <1>3, <1>4 DEF Credit
<1> QED
  BY <1>1, <1>2, <1>3, <1>4, <1>6, <1>7

\* What the metering of an epoch writes.
LEMMA MeteredShape ==
  ASSUME LedgerRows, NEW n \in DOMAIN epochs, NEW regular \in Nat, NEW advance \in Nat,
         Metered(n, regular, advance)
  PROVE  /\ epochs' \in Seq(EpochRow) /\ Len(epochs') = Len(epochs)
         /\ \A k \in DOMAIN epochs : epochs'[k].status = epochs[k].status
         /\ \A k \in DOMAIN epochs \ {n} : epochs'[k] = epochs[k]
         /\ epochs'[n].regular = epochs[n].regular + regular
         /\ epochs'[n].advanced = epochs[n].advanced + advance
         /\ epochs'[n].opening = epochs[n].opening /\ epochs'[n].base = epochs[n].base
         /\ epochs'[n].debt = epochs[n].debt /\ epochs'[n].maxAdvance = epochs[n].maxAdvance
<1>1. epochs \in Seq(EpochRow) /\ DOMAIN epochs = 1 .. Len(epochs) /\ Len(epochs) \in Nat
  BY DEF LedgerRows
<1>2. PICK old \in EpochRow : old = epochs[n]
  BY <1>1
<1>3. PICK r \in Nat, a \in Nat : r = old.regular + regular /\ a = old.advanced + advance
  BY DEF EpochRow
<1>4. PICK new : new = [old EXCEPT !.regular = r, !.advanced = a]
  OBVIOUS
<1>5. /\ new \in EpochRow /\ new.regular = r /\ new.advanced = a /\ new.status = old.status
      /\ new.opening = old.opening /\ new.base = old.base /\ new.debt = old.debt
      /\ new.maxAdvance = old.maxAdvance
  BY <1>4 DEF EpochRow
<1>6. epochs' = [epochs EXCEPT ![n] = new]
  BY <1>1, <1>2, <1>3, <1>4 DEF Metered
<1>7. /\ epochs' \in Seq(EpochRow) /\ Len(epochs') = Len(epochs)
      /\ \A k \in 1 .. Len(epochs) : epochs'[k] = IF k = n THEN new ELSE epochs[k]
  <2>1. PICK S : S = EpochRow
    OBVIOUS
  <2>2. PICK s : s = [epochs EXCEPT ![n] = new]
    OBVIOUS
  <2>3. s \in Seq(S) /\ Len(s) = Len(epochs) /\ \A k \in 1 .. Len(epochs) : s[k] = IF k = n THEN new ELSE epochs[k]
    BY <1>1, <1>5, <2>1, <2>2, ExceptSeq
  <2> QED
    BY <1>6, <2>1, <2>2, <2>3
<1> QED
  BY <1>1, <1>2, <1>3, <1>5, <1>7

\* A mint is split between the budget of its epoch and an advance.
Regular(amount, e) == IF amount <= Remaining(e) THEN amount ELSE Monus(Remaining(e), 0)

LEMMA MintSplit ==
  ASSUME NEW amount \in Nat \ {0}, NEW e \in EpochRow
  PROVE  /\ Regular(amount, e) \in Nat /\ amount - Regular(amount, e) \in Nat
         /\ Regular(amount, e) > 0 \/ amount - Regular(amount, e) > 0
<1>1. Remaining(e) \in Int
  BY MonusNat DEF Remaining, Budget, EpochRow, Monus
<1>2. PICK left \in Int : left = Remaining(e)
  BY <1>1
<1> QED
  BY <1>2 DEF Regular, Monus

\* What a mint has checked and what it writes.
MintWrites(t, n, regular, advance) ==
  LET c == txn[t].in.id
      m == MemberOf(txn[t])
      r == txn[t].in.request
      legs == Legs(t, regular, advance)
  IN /\ n = txn[t].seen.epoch /\ n \in DOMAIN epochs /\ holder[EpochLock(n)] = t
     /\ c \in Contributions /\ m = ContributionOf[c].member /\ m \in Members
     /\ regular + advance = ContributionOf[c].amount /\ (regular > 0 \/ advance > 0)
     /\ ~txn[t].seen.used
     /\ WithinCap(epochs[n], balance[m].earned, regular + advance)
     /\ RelatedPartyApproved(m, txn[t].in.proposal)
     /\ advance > 0 =>
          /\ r \in Requests /\ request[r].status # None
          /\ SplitAllowed(txn[t].seen.request, c, epochs[n], advance)
     /\ LegsUnique(c, legs)
     /\ legs \in Seq(EntryRow) /\ Len(ledger) + Len(legs) <= MaxLedger
     /\ ledger' = ledger \o legs
     /\ supply' = supply + (regular + advance)
     /\ Credit(m, regular, advance, regular)
     /\ Metered(n, regular, advance)
     /\ request' = IF advance > 0
                   THEN [request EXCEPT ![r].status = "executed", ![r].approved = advance]
                   ELSE request

LEMMA MintShape ==
  ASSUME EngineInv, NEW t \in Txns, mintForContribution(t)
  PROVE  \E regular, advance \in Nat : \E n \in ActiveEpochs : n \in Nat /\ MintWrites(t, n, regular, advance)
<1>1. Ready(t, "mint")
  BY DEF mintForContribution
<1>2. /\ txn[t].kind = "mint" /\ GivenTo("mint", txn[t].in)
      /\ txn[t].seen.request.status # None =>
           txn[t].in.request \in Requests /\ request[txn[t].in.request].status # None
      /\ MemberOf(txn[t]) \in Members
      /\ txn[t].seen.balance = balance[MemberOf(txn[t])]
      /\ txn[t].seen.epoch # 0 =>
           txn[t].seen.epoch \in ActiveEpochs /\ holder[EpochLock(txn[t].seen.epoch)] = t
  BY <1>1, ReadyKnows DEF TxnKinds
<1>3. txn[t].seen.epoch # 0
  BY DEF mintForContribution
<1>4. PICK n \in ActiveEpochs : n = txn[t].seen.epoch /\ n \in DOMAIN epochs /\ n \in Nat /\ holder[EpochLock(n)] = t
  <2>1. txn[t].seen.epoch \in DOMAIN epochs /\ DOMAIN epochs = 1 .. Len(epochs)
    BY <1>2, <1>3 DEF ActiveEpochs, EngineInv, RowsTyped, LedgerRows
  <2> QED
    BY <1>2, <1>3, <2>1
<1>5. PICK c \in Contributions : c = txn[t].in.id
  BY <1>2 DEF GivenTo
<1>6. PICK m \in Members : m = MemberOf(txn[t])
  BY <1>2
<1>7. m = ContributionOf[c].member
  BY <1>2, <1>5, <1>6 DEF MemberOf
<1>8. PICK amount \in Nat \ {0} : amount = ContributionOf[c].amount
  BY ContributionAssumption
<1>9. epochs[n] \in EpochRow
  BY <1>4 DEF EngineInv, RowsTyped, LedgerRows
<1>10. PICK regular \in Nat, advance \in Nat :
         regular = Regular(amount, epochs[n]) /\ advance = amount - regular /\ (regular > 0 \/ advance > 0)
  BY <1>9, MintSplit
<1>11. regular + advance = amount
  BY <1>10
<1>12. PICK legs : legs = Legs(t, regular, advance)
  OBVIOUS
<1>13. legs \in Seq(EntryRow)
  BY <1>1, <1>12, LegsShape
<1>14. /\ ~txn[t].seen.used
       /\ WithinCap(epochs[n], balance[m].earned, amount)
       /\ RelatedPartyApproved(m, txn[t].in.proposal)
       /\ advance > 0 => txn[t].in.request # None /\ SplitAllowed(txn[t].seen.request, c, epochs[n], advance)
       /\ LegsUnique(c, legs)
       /\ Len(ledger) + Len(legs) <= MaxLedger
       /\ ledger' = ledger \o legs
       /\ supply' = supply + amount
       /\ Credit(m, regular, advance, regular)
       /\ Metered(n, regular, advance)
       /\ request' = IF advance > 0
                     THEN [request EXCEPT ![txn[t].in.request].status = "executed",
                                          ![txn[t].in.request].approved = advance]
                     ELSE request
  BY <1>2, <1>4, <1>5, <1>6, <1>8, <1>10, <1>12 DEF mintForContribution, Regular, Spend
<1>15. advance > 0 => txn[t].in.request \in Requests /\ request[txn[t].in.request].status # None
  <2>1. advance > 0 => txn[t].seen.request.status # None
    BY <1>14, NoneAssumption DEF SplitAllowed
  <2> QED
    BY <1>2, <2>1
<1>16. MintWrites(t, n, regular, advance)
  BY <1>4, <1>5, <1>6, <1>7, <1>8, <1>10, <1>11, <1>12, <1>13, <1>14, <1>15 DEF MintWrites
<1> QED
  BY <1>4, <1>16

\* A mint keeps what the others know: it has locked what it writes.
LEMMA MintKeeps ==
  ASSUME EngineInv, NEW t \in Txns, mintForContribution(t)
  PROVE  EngineInv'
<1>1. /\ Ready(t, "mint") /\ Finish(t) /\ UNCHANGED <<policy, versions, proposal>>
  BY DEF mintForContribution
<1>2. /\ holder[StateLock] = t /\ holder[BalanceLock(MemberOf(txn[t]))] = t
  BY <1>1, ReadyKnows DEF TxnKinds
<1>3. PICK regular \in Nat, advance \in Nat, n \in ActiveEpochs : n \in Nat /\ MintWrites(t, n, regular, advance)
  BY MintShape
<1>4. PICK m \in Members : m = MemberOf(txn[t])
  BY <1>3 DEF MintWrites
<1>5. PICK legs \in Seq(EntryRow) : legs = Legs(t, regular, advance)
  BY <1>3 DEF MintWrites
<1>6. /\ Len(legs) = (IF regular > 0 THEN 1 ELSE 0) + (IF advance > 0 THEN 1 ELSE 0)
      /\ regular > 0 => legs[1] = RegularLeg(t, regular)
      /\ advance > 0 => legs[Len(legs)] = AdvanceLeg(t, regular, advance)
  BY <1>1, <1>5, LegsShape
<1>7. n \in DOMAIN epochs /\ Metered(n, regular, advance) /\ LedgerRows /\ RowsTyped
      /\ n = txn[t].seen.epoch /\ holder[EpochLock(n)] = t
  BY <1>3 DEF MintWrites, EngineInv, RowsTyped
<1>8. /\ epochs' \in Seq(EpochRow) /\ Len(epochs') = Len(epochs)
      /\ \A k \in DOMAIN epochs : epochs'[k].status = epochs[k].status
  BY <1>7, MeteredShape
<1>9. \A k \in DOMAIN legs : legs[k].epoch = n
  <2>1. \A k \in DOMAIN legs : (k = 1 /\ regular > 0) \/ (k = Len(legs) /\ advance > 0)
    <3>1. DOMAIN legs = 1 .. Len(legs)
      BY <1>5
    <3>2. PICK len \in Nat : len = Len(legs)
      BY <1>5
    <3>3. len = (IF regular > 0 THEN 1 ELSE 0) + (IF advance > 0 THEN 1 ELSE 0)
      BY <1>6, <3>2
    <3> QED
      <4>1. \A k \in 1 .. len : (k = 1 /\ regular > 0) \/ (k = len /\ advance > 0)
        <5>1. CASE regular > 0 /\ advance > 0
          <6>1. len = 2
            BY ONLY <3>3, <5>1
          <6> QED
            BY ONLY <5>1, <6>1
        <5>2. CASE ~(regular > 0) \/ ~(advance > 0)
          <6>1. CASE regular > 0
            <7>1. ~(advance > 0)
              BY ONLY <5>2, <6>1
            <7>2. len = 1
              BY ONLY <3>3, <6>1, <7>1
            <7>3. \A k \in 1 .. len : k = 1
              BY ONLY <7>2
            <7> QED
              BY ONLY <6>1, <7>3, Zenon
          <6>2. CASE ~(regular > 0) /\ advance > 0
            <7>1. len = 1
              BY ONLY <3>3, <6>2
            <7> QED
              BY ONLY <6>2, <7>1
          <6>3. CASE ~(regular > 0) /\ ~(advance > 0)
            <7>1. len = 0
              BY ONLY <3>3, <6>3
            <7> QED
              BY ONLY <7>1
          <6> QED
            BY ONLY <6>1, <6>2, <6>3
        <5> QED
          BY ONLY <5>1, <5>2
      <4> QED
        BY <3>1, <3>2, <4>1
  <2> QED
    BY <1>6, <1>7, <2>1 DEF RegularLeg, AdvanceLeg
<1>10. /\ balance' \in [Members -> BalanceRow] /\ \A k \in Members \ {m} : balance'[k] = balance[k]
  <2>1. Credit(m, regular, advance, regular)
    BY <1>3, <1>4 DEF MintWrites
  <2>2. balance[m] \in BalanceRow
    BY <1>7 DEF LedgerRows
  <2>3. /\ balance[m].total + regular + advance >= 0 /\ balance[m].active + regular >= 0
        /\ balance[m].pending + advance >= 0 /\ balance[m].earned + regular >= 0
    BY <2>2 DEF BalanceRow
  <2> QED
    BY <1>7, <2>1, <2>3, Credited
<1>11. /\ DOMAIN request' = Requests /\ \A q \in Requests : RequestOK(request[q])'
       /\ \A q \in Requests : request[q].status # None => request'[q].status # None
  <2>0. DOMAIN epochs' = DOMAIN epochs
    BY <1>7, <1>8 DEF LedgerRows
  <2>1. CASE advance > 0
    <3>1. PICK r \in Requests : r = txn[t].in.request /\ request[r].status # None
      BY <1>3, <2>1 DEF MintWrites
    <3>2. PICK was \in RequestRow : was = request[r]
      BY <1>7 DEF RowsTyped, GovernanceRows, RequestOK
    <3>3. PICK now : now = [was EXCEPT !.status = "executed", !.approved = advance]
      OBVIOUS
    <3>4. now \in RequestRow /\ now.status = "executed" /\ now.member = was.member /\ now.epoch = was.epoch
      BY <3>3 DEF RequestRow, RequestStatus
    <3>5. request' = [request EXCEPT ![r] = now]
      BY <1>3, <1>7, <2>1, <3>1, <3>2, <3>3 DEF MintWrites, RowsTyped, GovernanceRows
    <3>6. DOMAIN request = Requests /\ \A q \in Requests : RequestOK(request[q])
      BY <1>7 DEF RowsTyped, GovernanceRows
    <3>7. request'[r] = now /\ \A q \in Requests \ {r} : request'[q] = request[q]
      BY <3>5, <3>6
    <3>8. now.status # None /\ now.member \in Members /\ now.epoch \in DOMAIN epochs
      BY <3>1, <3>2, <3>4, <3>6, NoneAssumption DEF RequestOK
    <3> QED
      BY <2>0, <3>4, <3>5, <3>6, <3>7, <3>8 DEF RequestOK
  <2>2. CASE ~(advance > 0)
    <3>1. request' = request
      BY <1>3, <2>2 DEF MintWrites
    <3> QED
      BY <1>7, <2>0, <3>1 DEF RowsTyped, GovernanceRows, RequestOK
  <2> QED
    BY <2>1, <2>2
<1>12. supply' \in Nat
  <2>1. supply' = supply + (regular + advance)
    BY <1>3 DEF MintWrites
  <2>2. supply \in Nat
    BY <1>7 DEF LedgerRows
  <2> QED
    BY <2>1, <2>2
<1>13. /\ ledger' \in Seq(EntryRow) /\ Len(ledger') <= MaxLedger /\ \A u \in Txns \ {t} : LeavesAlone(u)
  <2>1. ledger' = ledger \o legs /\ Len(ledger) + Len(legs) <= MaxLedger
    BY <1>3, <1>5 DEF MintWrites
  <2>2. \A k \in DOMAIN legs : legs[k].pending => holder[EpochLock(legs[k].epoch)] = t
    BY <1>7, <1>9
  <2>3. \A k \in Members : holder[BalanceLock(k)] # t => balance'[k] = balance[k]
    BY <1>2, <1>4, <1>10
  <2> QED
    BY <1>1, <1>2, <1>7, <1>8, <1>11, <2>1, <2>2, <2>3, LedgerExtended
<1>14. RowsTyped'
  <2>1. LedgerRows'
    BY <1>7, <1>8, <1>10, <1>12, <1>13 DEF LedgerRows
  <2>2. GovernanceRows'
    BY <1>1, <1>7, <1>11 DEF RowsTyped, GovernanceRows
  <2> QED
    BY <2>1, <2>2 DEF RowsTyped
<1> QED
  BY <1>1, <1>13, <1>14, FinishKeeps

-----------------------------------------------------------------------------

\* What an execution has checked and what it writes.
ExecutionWrites(t, n, amount) ==
  LET seen == txn[t].seen
      r == txn[t].in.id
  IN /\ n = seen.epoch /\ n \in DOMAIN epochs /\ holder[EpochLock(n)] = t
     /\ r \in Requests /\ request[r].status # None
     /\ seen.request.status = "approved" /\ ~MintedOn(r)
     /\ seen.request.member \in Members
     /\ amount = Ceiling(seen.request)
     /\ Remaining(epochs[n]) < amount
     /\ ExecutionApproved(seen.request, CumulativeBps(epochs[n].advanced, amount, epochs[n].base))
     /\ Execution(t, amount) \in EntryRow /\ Len(ledger) < MaxLedger
     /\ ledger' = ledger \o <<Execution(t, amount)>>
     /\ supply' = supply + amount
     /\ Credit(seen.request.member, 0, amount, 0)
     /\ Metered(n, 0, amount)
     /\ request' = [request EXCEPT ![r].status = "executed", ![r].approved = amount]

LEMMA ExecutionShape ==
  ASSUME EngineInv, NEW t \in Txns, execute(t)
  PROVE  \E amount \in Nat \ {0} : \E n \in ActiveEpochs : n \in Nat /\ ExecutionWrites(t, n, amount)
<1>1. Ready(t, "execute") /\ txn[t].seen.request.status = "approved" /\ txn[t].seen.epoch # 0
  <2>1. MayExecute(t, txn[t].seen.request, epochs[txn[t].seen.epoch], Ceiling(txn[t].seen.request))
    BY ONLY execute(t) DEF execute
  <2>2. Ready(t, "execute") /\ txn[t].seen.epoch # 0
    BY ONLY execute(t) DEF execute
  <2> QED
    BY ONLY <2>1, <2>2 DEF MayExecute
<1>2. /\ GivenTo("execute", txn[t].in) /\ txn[t].kind = "execute"
      /\ txn[t].seen \in SeenRow /\ RequestOK(txn[t].seen.request)
      /\ txn[t].in.request \in Requests /\ request[txn[t].in.request].status # None
      /\ txn[t].seen.balance = balance[MemberOf(txn[t])]
      /\ txn[t].seen.supply = supply
      /\ txn[t].seen.epoch \in ActiveEpochs /\ holder[EpochLock(txn[t].seen.epoch)] = t
  BY <1>1, ReadyKnows, NoneAssumption DEF TxnKinds
<1>3. PICK n \in ActiveEpochs : n = txn[t].seen.epoch /\ n \in DOMAIN epochs /\ n \in Nat /\ holder[EpochLock(n)] = t
  <2>1. txn[t].seen.epoch \in DOMAIN epochs /\ DOMAIN epochs = 1 .. Len(epochs)
    BY <1>2 DEF ActiveEpochs, EngineInv, RowsTyped, LedgerRows
  <2> QED
    BY <1>2, <2>1
<1>4. PICK r \in Requests : r = txn[t].in.id /\ request[r].status # None
  BY <1>2 DEF GivenTo
<1>5. PICK seen \in RequestRow : seen = txn[t].seen.request /\ seen.member \in Members
  BY <1>1, <1>2, NoneAssumption DEF RequestOK
<1>6. PICK amount \in Nat : amount = Ceiling(seen)
  BY DEF Ceiling, RequestRow
<1>7. Remaining(epochs[n]) < amount /\ 0 + amount <= epochs[n].maxAdvance - epochs[n].advanced
      /\ epochs[n].regular + 0 <= Budget(epochs[n])
  <2>1. epochs[n] \in EpochRow
    BY <1>3 DEF EngineInv, RowsTyped, LedgerRows
  <2>2. epochs[n].advanced + amount <= epochs[n].maxAdvance /\ epochs[n].regular + 0 <= Budget(epochs[n])
    <3>1. Metered(n, 0, amount)
      BY ONLY execute(t), <1>3, <1>5, <1>6 DEF execute
    <3> QED
      BY <3>1 DEF Metered
  <2>3. epochs[n].advanced \in Nat /\ epochs[n].maxAdvance \in Nat
    BY <2>1 DEF EpochRow
  <2>4. Remaining(epochs[n]) < amount
    <3>1. MayExecute(t, seen, epochs[n], amount)
      BY ONLY execute(t), <1>3, <1>5, <1>6 DEF execute
    <3> QED
      BY ONLY <3>1 DEF MayExecute
  <2> QED
    BY <2>2, <2>3, <2>4
\* The budget is not overdrawn, so that an advance is of something.
<1>8. amount \in Nat \ {0}
  <2>1. epochs[n] \in EpochRow
    BY <1>3 DEF EngineInv, RowsTyped, LedgerRows
  <2>2. Budget(epochs[n]) \in Int /\ epochs[n].regular \in Nat
    BY <2>1 DEF Budget, Monus, EpochRow
  <2> QED
    BY <1>7, <2>2 DEF Remaining
<1>9. PICK b, s, p :
        b = txn[t].seen.balance.total /\ s = txn[t].seen.supply /\ p = seen.proposal
  OBVIOUS
<1>10. [Entry("execution", seen.member, amount, b + amount, s + amount)
          EXCEPT !.pending = TRUE, !.epoch = n, !.request = r, !.proposal = p] = Execution(t, amount)
  <2>1. PICK x, y, m : x = b + amount /\ y = s + amount /\ m = seen.member
    OBVIOUS
  <2>2. PICK e : e = Entry("execution", m, amount, x, y)
    OBVIOUS
  <2>3. /\ e.kind = "execution" /\ e.member = m /\ e.amount = amount /\ e.balanceAfter = x /\ e.supplyAfter = y
        /\ e.contribution = None /\ e.of = 0
    BY <2>2 DEF Entry
  <2>6. IsEntry(e)
    BY <2>2 DEF Entry, IsEntry
  <2>4. [e EXCEPT !.pending = TRUE, !.epoch = n, !.request = r, !.proposal = p] =
          [kind |-> e.kind, member |-> e.member, amount |-> e.amount, balanceAfter |-> e.balanceAfter,
           supplyAfter |-> e.supplyAfter, pending |-> TRUE, epoch |-> n,
           contribution |-> e.contribution, request |-> r, proposal |-> p, of |-> e.of]
    BY ONLY <2>6, EntryExecuted
  <2>5. Execution(t, amount) =
          [kind |-> "execution", member |-> m, amount |-> amount, balanceAfter |-> x,
           supplyAfter |-> y, pending |-> TRUE, epoch |-> n,
           contribution |-> None, request |-> r, proposal |-> p, of |-> 0]
    BY <1>3, <1>4, <1>5, <1>9, <2>1 DEF Execution
  <2> QED
    BY ONLY <2>1, <2>2, <2>3, <2>4, <2>5
<1>11. Execution(t, amount) \in EntryRow
  <2>1. b + amount \in Nat /\ s + amount \in Nat
    BY <1>2, <1>9 DEF SeenRow, BalanceRow
  <2>2. p \in Proposals \cup {None}
    BY <1>9 DEF RequestRow
  <2> QED
    BY <1>3, <1>4, <1>5, <1>8, <1>9, <2>1, <2>2 DEF Execution, EntryRow
<1>12. ledger' = ledger \o <<Execution(t, amount)>>
  <2>1. ledger' = Append(ledger, Execution(t, amount))
    <3>1. ledger' = Append(ledger, ExecutionEntry(t, amount))
      BY ONLY execute(t), <1>3, <1>4, <1>5, <1>6, <1>9 DEF execute
    <3>2. ExecutionEntry(t, amount) = Execution(t, amount)
      BY <1>3, <1>4, <1>5, <1>9, <1>10 DEF ExecutionEntry
    <3> QED
      BY <3>1, <3>2
  <2>2. PICK S, e : S = EntryRow /\ e = Execution(t, amount)
    OBVIOUS
  <2>3. ledger \in Seq(S) /\ e \in S
    BY <1>11, <2>2 DEF EngineInv, RowsTyped, LedgerRows
  <2>4. Append(ledger, e) = ledger \o <<e>>
    BY <2>3, AppendIsConcat
  <2> QED
    BY <2>1, <2>2, <2>4
<1>13. /\ ~MintedOn(r) /\ Len(ledger) < MaxLedger
       /\ ExecutionApproved(seen, CumulativeBps(epochs[n].advanced, amount, epochs[n].base))
       /\ supply' = supply + amount
       /\ Credit(seen.member, 0, amount, 0)
       /\ Metered(n, 0, amount)
       /\ request' = [request EXCEPT ![r].status = "executed", ![r].approved = amount]
  <2>1. MayExecute(t, seen, epochs[n], amount)
    BY ONLY execute(t), <1>3, <1>5, <1>6 DEF execute
  <2>2. /\ Len(ledger) < MaxLedger
        /\ supply' = supply + amount
        /\ Credit(seen.member, 0, amount, 0)
        /\ Metered(n, 0, amount)
        /\ request' = [request EXCEPT ![r].status = "executed", ![r].approved = amount]
    BY ONLY execute(t), <1>3, <1>4, <1>5, <1>6 DEF execute, Spend
  <2>3. /\ ~MintedOn(r)
        /\ ExecutionApproved(seen, CumulativeBps(epochs[n].advanced, amount, epochs[n].base))
    BY ONLY <1>4, <2>1 DEF MayExecute, NotMintedOn
  <2> QED
    BY ONLY <2>2, <2>3
<1>14. ExecutionWrites(t, n, amount)
  BY <1>1, <1>3, <1>4, <1>5, <1>6, <1>7, <1>11, <1>12, <1>13 DEF ExecutionWrites
<1> QED
  BY <1>3, <1>8, <1>14

\* A transaction that has locked the state and the balance adds one entry.
LEMMA ExecutionKeeps ==
  ASSUME EngineInv, NEW t \in Txns, execute(t)
  PROVE  EngineInv'
<1>1. /\ Ready(t, "execute") /\ Finish(t) /\ UNCHANGED <<policy, versions, proposal>>
  BY ONLY execute(t) DEF execute
<1>2. /\ holder[StateLock] = t /\ holder[BalanceLock(MemberOf(txn[t]))] = t /\ txn[t].kind = "execute"
  BY <1>1, ReadyKnows DEF TxnKinds
<1>3. PICK amount \in Nat \ {0}, n \in ActiveEpochs : n \in Nat /\ ExecutionWrites(t, n, amount)
  BY ExecutionShape
<1>4. PICK m \in Members : m = MemberOf(txn[t]) /\ m = txn[t].seen.request.member
  BY <1>2, <1>3 DEF ExecutionWrites, MemberOf
<1>5. PICK entry \in EntryRow : entry = Execution(t, amount)
  BY <1>3 DEF ExecutionWrites
<1>6. n \in DOMAIN epochs /\ Metered(n, 0, amount) /\ LedgerRows /\ RowsTyped
      /\ n = txn[t].seen.epoch /\ holder[EpochLock(n)] = t
  BY <1>3 DEF ExecutionWrites, EngineInv, RowsTyped
<1>7. /\ epochs' \in Seq(EpochRow) /\ Len(epochs') = Len(epochs)
      /\ \A k \in DOMAIN epochs : epochs'[k].status = epochs[k].status
  BY <1>6, MeteredShape
<1>8. /\ balance' \in [Members -> BalanceRow] /\ \A k \in Members \ {m} : balance'[k] = balance[k]
  <2>1. Credit(m, 0, amount, 0)
    BY <1>3, <1>4 DEF ExecutionWrites
  <2>2. balance[m] \in BalanceRow
    BY <1>6 DEF LedgerRows
  <2>3. /\ balance[m].total + 0 + amount >= 0 /\ balance[m].active + 0 >= 0
        /\ balance[m].pending + amount >= 0 /\ balance[m].earned + 0 >= 0
    BY <2>2 DEF BalanceRow
  <2> QED
    BY <1>6, <2>1, <2>3, Credited
<1>9. PICK r \in Requests : r = txn[t].in.id /\ request[r].status # None
  BY <1>3 DEF ExecutionWrites
<1>10. /\ DOMAIN request' = Requests /\ \A q \in Requests : RequestOK(request[q])'
       /\ \A q \in Requests : request[q].status # None => request'[q].status # None
  <2>0. DOMAIN epochs' = DOMAIN epochs
    BY <1>6, <1>7 DEF LedgerRows
  <2>2. PICK was \in RequestRow : was = request[r]
    BY <1>6 DEF RowsTyped, GovernanceRows, RequestOK
  <2>3. PICK now : now = [was EXCEPT !.status = "executed", !.approved = amount]
    OBVIOUS
  <2>4. now \in RequestRow /\ now.status = "executed" /\ now.member = was.member /\ now.epoch = was.epoch
    BY <2>3 DEF RequestRow, RequestStatus
  <2>5. request' = [request EXCEPT ![r] = now]
    BY <1>3, <1>6, <1>9, <2>2, <2>3 DEF ExecutionWrites, RowsTyped, GovernanceRows
  <2>6. DOMAIN request = Requests /\ \A q \in Requests : RequestOK(request[q])
    BY <1>6 DEF RowsTyped, GovernanceRows
  <2>7. request'[r] = now /\ \A q \in Requests \ {r} : request'[q] = request[q]
    BY <2>5, <2>6
  <2>8. now.status # None /\ now.member \in Members /\ now.epoch \in DOMAIN epochs
    BY <1>9, <2>2, <2>4, <2>6, NoneAssumption DEF RequestOK
  <2> QED
    BY <2>0, <2>4, <2>5, <2>6, <2>7, <2>8 DEF RequestOK
<1>11. supply' \in Nat
  <2>1. supply' = supply + amount
    BY <1>3 DEF ExecutionWrites
  <2>2. supply \in Nat
    BY <1>6 DEF LedgerRows
  <2> QED
    BY <2>1, <2>2
<1>12. /\ ledger' \in Seq(EntryRow) /\ Len(ledger') <= MaxLedger /\ \A u \in Txns \ {t} : LeavesAlone(u)
  <2>0. PICK entries \in Seq(EntryRow) : entries = <<entry>> /\ Len(entries) = 1 /\ entries[1] = entry
    <3>1. PICK S : S = EntryRow
      OBVIOUS
    <3>2. entry \in S
      BY <1>5, <3>1
    <3>3. <<entry>> \in Seq(S) /\ Len(<<entry>>) = 1 /\ <<entry>>[1] = entry
      BY ONLY <3>2
    <3> QED
      BY <3>1, <3>3
  <2>1. ledger' = ledger \o entries /\ Len(ledger) + Len(entries) <= MaxLedger
    <3>1. Len(ledger) \in Nat /\ Len(ledger) < MaxLedger /\ MaxLedger \in Nat
      <4>1. Len(ledger) < MaxLedger
        BY ONLY <1>3 DEF ExecutionWrites
      <4>2. Len(ledger) \in Nat
        BY ONLY <1>6 DEF LedgerRows
      <4> QED
        BY <4>1, <4>2, BoundsAssumption
    <3>2. ledger' = ledger \o <<entry>>
      BY <1>3, <1>5 DEF ExecutionWrites
    <3> QED
      BY <2>0, <3>1, <3>2
  <2>2. \A k \in DOMAIN entries : entries[k].pending => holder[EpochLock(entries[k].epoch)] = t
    <3>1. DOMAIN entries = {1}
      BY <2>0
    <3>2. entries[1].epoch = n
      BY <1>5, <1>6, <2>0 DEF Execution
    <3> QED
      BY <1>6, <3>1, <3>2
  <2>3. \A k \in Members : holder[BalanceLock(k)] # t => balance'[k] = balance[k]
    BY <1>2, <1>4, <1>8
  <2>4. /\ Len(epochs') = Len(epochs) /\ \A k \in DOMAIN epochs : epochs'[k].status = epochs[k].status
        /\ epochs' \in Seq(EpochRow) /\ holder[StateLock] = t /\ UNCHANGED proposal
        /\ \A q \in Requests : request[q].status # None => request'[q].status # None
        /\ RowsTyped /\ t \in Txns /\ entries \in Seq(EntryRow)
    BY <1>1, <1>2, <1>6, <1>7, <1>10
  <2>5. /\ ledger' \in Seq(EntryRow) /\ Len(ledger') <= MaxLedger
        /\ \A u \in Txns \ {t} : LeavesAlone(u)
    BY ONLY <2>1, <2>2, <2>3, <2>4, LedgerExtended
  <2> QED
    BY <2>5
<1>13. RowsTyped'
  <2>1. LedgerRows'
    BY <1>6, <1>7, <1>8, <1>11, <1>12 DEF LedgerRows
  <2>2. GovernanceRows'
    BY <1>1, <1>6, <1>10 DEF RowsTyped, GovernanceRows
  <2> QED
    BY <2>1, <2>2 DEF RowsTyped
<1> QED
  BY <1>1, <1>12, <1>13, FinishKeeps

-----------------------------------------------------------------------------

\* What a reversal has checked and what it writes.
ReversalWrites(t, amount, pending) ==
  LET i == txn[t].in.id
      m == MemberOf(txn[t])
  IN /\ i \in DOMAIN ledger /\ m = ledger[i].member /\ m \in Members
     /\ ledger[i].kind # "reversal" /\ ~Reversed(i)
     /\ ReversalApproved(t)
     /\ amount <= ledger[i].amount /\ pending = IF ledger[i].pending THEN amount ELSE 0
     /\ amount - pending <= balance[m].active /\ pending <= balance[m].pending
     /\ amount <= balance[m].total /\ amount <= supply
     /\ Reversal(t, amount) \in EntryRow /\ Len(ledger) < MaxLedger
     /\ ledger' = ledger \o <<Reversal(t, amount)>>
     /\ supply' = supply - amount
     /\ Credit(m, -(amount - pending), -pending, 0)

LEMMA EntryReversing ==
  ASSUME NEW e, IsEntry(e), NEW i
  PROVE  [e EXCEPT !.of = i] =
           [kind |-> e.kind, member |-> e.member, amount |-> e.amount,
            balanceAfter |-> e.balanceAfter, supplyAfter |-> e.supplyAfter, pending |-> e.pending,
            epoch |-> e.epoch, contribution |-> e.contribution, request |-> e.request,
            proposal |-> e.proposal, of |-> i]
<1>1. PICK y : y = [e EXCEPT !.of = i]
  OBVIOUS
<1>2. PICK z : z = [kind |-> e.kind, member |-> e.member, amount |-> e.amount,
                    balanceAfter |-> e.balanceAfter, supplyAfter |-> e.supplyAfter,
                    pending |-> e.pending, epoch |-> e.epoch, contribution |-> e.contribution,
                    request |-> e.request, proposal |-> e.proposal, of |-> i]
  OBVIOUS
<1>3. DOMAIN y = EntryFields /\ DOMAIN z = EntryFields
  BY <1>1, <1>2 DEF EntryFields, IsEntry
<1>4. y.kind = z.kind /\ y.member = z.member /\ y.amount = z.amount /\
      y.balanceAfter = z.balanceAfter /\ y.supplyAfter = z.supplyAfter /\ y.pending = z.pending /\
      y.epoch = z.epoch /\ y.contribution = z.contribution /\ y.request = z.request /\
      y.proposal = z.proposal /\ y.of = z.of
  BY <1>1, <1>2 DEF IsEntry
<1>5. y = [f \in EntryFields |-> y[f]] /\ z = [f \in EntryFields |-> z[f]]
  BY <1>1, <1>2, <1>3 DEF EntryFields, IsEntry
<1>6. y = z
  BY <1>3, <1>4, <1>5 DEF EntryFields
<1> QED
  BY <1>1, <1>2, <1>6

LEMMA ReversalShape ==
  ASSUME EngineInv, NEW t \in Txns, reverseMint(t)
  PROVE  \E amount \in Nat \ {0}, pending \in Nat : pending <= amount /\ ReversalWrites(t, amount, pending)
<1>1. Ready(t, "reverse")
  BY ONLY reverseMint(t) DEF reverseMint
<1>2. /\ GivenTo("reverse", txn[t].in) /\ txn[t].kind = "reverse"
      /\ MemberOf(txn[t]) \in Members
      /\ txn[t].seen.balance = balance[MemberOf(txn[t])]
      /\ txn[t].seen.supply = supply
      /\ txn[t].seen.mint = ledger[txn[t].in.id]
  BY <1>1, ReadyKnows DEF TxnKinds
<1>3. PICK i \in DOMAIN ledger : i = txn[t].in.id /\ ledger[i].kind # "reversal"
  BY <1>2 DEF GivenTo
<1>4. PICK m \in Members : m = MemberOf(txn[t]) /\ m = ledger[i].member
  BY <1>2, <1>3 DEF MemberOf
<1>5. PICK mint \in EntryRow : mint = ledger[i]
  BY DEF EngineInv, RowsTyped, LedgerRows
<1>6. PICK amount \in Nat \ {0} :
        amount = IF txn[t].in.choice.amount = 0 THEN mint.amount ELSE txn[t].in.choice.amount
  BY <1>2, InputsAssumption DEF GivenTo, EntryRow
<1>7. PICK pending \in Nat : pending = (IF mint.pending THEN amount ELSE 0) /\ pending <= amount
  BY DEF EntryRow
<1>8. PICK active \in Nat :
        active = (IF mint.pending THEN 0 ELSE amount) /\ active = amount - pending /\ pending = amount - active
  BY <1>7
<1>9. PICK b \in BalanceRow : b = balance[m]
  BY DEF EngineInv, RowsTyped, LedgerRows
<1>10. /\ ReversalApproved(t) /\ ~Reversed(i)
       /\ amount <= mint.amount /\ active <= b.active /\ pending <= b.pending
       /\ amount <= b.total /\ amount <= supply
       /\ Len(ledger) < MaxLedger
       /\ ledger' = Append(ledger,
            [Entry("reversal", m, amount, b.total - amount, supply - amount) EXCEPT !.of = i])
       /\ supply' = supply - amount
       /\ Credit(m, -active, -pending, 0)
  <2>1. txn[t].seen.mint = mint /\ txn[t].seen.balance = b /\ txn[t].seen.supply = supply
    BY <1>2, <1>3, <1>4, <1>5, <1>9
  <2> QED
    BY ONLY reverseMint(t), <1>3, <1>4, <1>6, <1>7, <1>8, <2>1 DEF reverseMint
<1>11. [Entry("reversal", m, amount, b.total - amount, supply - amount) EXCEPT !.of = i] = Reversal(t, amount)
  <2>1. PICK x, y : x = b.total - amount /\ y = supply - amount
    OBVIOUS
  <2>2. [Entry("reversal", m, amount, x, y) EXCEPT !.of = i] =
          [kind |-> "reversal", member |-> m, amount |-> amount, balanceAfter |-> x, supplyAfter |-> y,
           pending |-> FALSE, epoch |-> 0, contribution |-> None, request |-> None, proposal |-> None,
           of |-> i]
    <3>1. PICK e : e = Entry("reversal", m, amount, x, y)
      OBVIOUS
    <3>2. IsEntry(e)
      BY ONLY <3>1 DEF IsEntry, Entry
    <3>3. [e EXCEPT !.of = i] =
            [kind |-> e.kind, member |-> e.member, amount |-> e.amount, balanceAfter |-> e.balanceAfter,
             supplyAfter |-> e.supplyAfter, pending |-> e.pending, epoch |-> e.epoch,
             contribution |-> e.contribution, request |-> e.request, proposal |-> e.proposal, of |-> i]
      BY ONLY <3>2, EntryReversing
    <3> QED
      BY ONLY <3>1, <3>3 DEF Entry
  <2> QED
    BY <1>2, <1>3, <1>4, <1>9, <2>1, <2>2 DEF Reversal
<1>12. Reversal(t, amount) \in EntryRow
  <2>1. b.total - amount \in Nat /\ supply - amount \in Nat
    <3>1. supply \in Nat /\ amount <= b.total /\ amount <= supply
      BY <1>10 DEF EngineInv, RowsTyped, LedgerRows
    <3>2. PICK x \in Nat, y \in Nat : x = b.total /\ y = supply
      BY <3>1 DEF BalanceRow
    <3>3. x - amount \in Nat /\ y - amount \in Nat
      BY <3>1, <3>2
    <3> QED
      BY <3>2, <3>3
  <2>2. i \in Nat
    BY DEF EngineInv, RowsTyped, LedgerRows
  <2>3. /\ txn[t].seen.balance.total = b.total /\ txn[t].seen.supply = supply
        /\ MemberOf(txn[t]) = m /\ txn[t].in.id = i
    BY <1>2, <1>3, <1>4, <1>9
  <2> QED
    BY <2>1, <2>2, <2>3 DEF Reversal, EntryRow
<1>13. ledger' = ledger \o <<Reversal(t, amount)>>
  <2>1. PICK S, e : S = EntryRow /\ e = Reversal(t, amount)
    OBVIOUS
  <2>2. ledger \in Seq(S) /\ e \in S
    BY <1>12, <2>1 DEF EngineInv, RowsTyped, LedgerRows
  <2>3. Append(ledger, e) = ledger \o <<e>>
    BY <2>2, AppendIsConcat
  <2> QED
    BY <1>10, <1>11, <2>1, <2>3
<1>14. ReversalWrites(t, amount, pending)
  BY <1>3, <1>4, <1>5, <1>7, <1>8, <1>9, <1>10, <1>12, <1>13 DEF ReversalWrites
<1> QED
  BY <1>7, <1>14

\* A step that writes one entry, one balance and the supply.
LEMMA ReversalKeeps ==
  ASSUME EngineInv, NEW t \in Txns, reverseMint(t)
  PROVE  EngineInv'
<1>1. /\ Ready(t, "reverse") /\ Finish(t) /\ UNCHANGED <<epochs, request, policy, versions, proposal>>
  BY ONLY reverseMint(t) DEF reverseMint
<1>2. /\ holder[StateLock] = t /\ holder[BalanceLock(MemberOf(txn[t]))] = t
  BY <1>1, ReadyKnows DEF TxnKinds
<1>3. PICK amount \in Nat \ {0}, pending \in Nat : pending <= amount /\ ReversalWrites(t, amount, pending)
  BY ReversalShape
<1>4. PICK m \in Members : m = MemberOf(txn[t])
  BY <1>3 DEF ReversalWrites
<1>5. PICK entry \in EntryRow : entry = Reversal(t, amount)
  BY <1>3 DEF ReversalWrites
<1>6. LedgerRows /\ RowsTyped
  BY DEF EngineInv, RowsTyped
<1>7. /\ balance' \in [Members -> BalanceRow] /\ \A k \in Members \ {m} : balance'[k] = balance[k]
  <2>1. PICK b \in BalanceRow : b = balance[m]
    BY <1>6 DEF LedgerRows
  <2>2. PICK active \in Nat : active = amount - pending /\ active + pending = amount
    BY <1>3
  <2>3. Credit(m, -active, -pending, 0) /\ active <= b.active /\ pending <= b.pending /\ amount <= b.total
    BY <1>3, <1>4, <2>1, <2>2 DEF ReversalWrites
  <2>4. b.total + -active + -pending >= 0 /\ b.active + -active >= 0 /\ b.pending + -pending >= 0
        /\ b.earned + 0 >= 0
    BY <2>2, <2>3 DEF BalanceRow
  <2>5. -active \in Int /\ -pending \in Int
    OBVIOUS
  <2> QED
    BY <1>6, <2>1, <2>3, <2>4, <2>5, Credited
<1>8. supply' \in Nat
  <2>1. supply' = supply - amount /\ amount <= supply
    BY <1>3 DEF ReversalWrites
  <2>2. supply \in Nat
    BY <1>6 DEF LedgerRows
  <2> QED
    BY <2>1, <2>2
<1>9. /\ ledger' \in Seq(EntryRow) /\ Len(ledger') <= MaxLedger /\ \A u \in Txns \ {t} : LeavesAlone(u)
  <2>0. PICK entries \in Seq(EntryRow) : entries = <<entry>> /\ Len(entries) = 1 /\ entries[1] = entry
    <3>1. PICK S : S = EntryRow
      OBVIOUS
    <3>2. entry \in S
      BY <1>5, <3>1
    <3>3. <<entry>> \in Seq(S) /\ Len(<<entry>>) = 1 /\ <<entry>>[1] = entry
      BY ONLY <3>2
    <3> QED
      BY <3>1, <3>3
  <2>1. ledger' = ledger \o entries /\ Len(ledger) + Len(entries) <= MaxLedger
    <3>1. Len(ledger) \in Nat /\ Len(ledger) < MaxLedger /\ MaxLedger \in Nat
      <4>1. Len(ledger) < MaxLedger
        BY ONLY <1>3 DEF ReversalWrites
      <4>2. Len(ledger) \in Nat
        BY ONLY <1>6 DEF LedgerRows
      <4> QED
        BY <4>1, <4>2, BoundsAssumption
    <3>2. ledger' = ledger \o <<entry>>
      BY <1>3, <1>5 DEF ReversalWrites
    <3> QED
      BY <2>0, <3>1, <3>2
  <2>2. \A k \in DOMAIN entries : entries[k].pending => holder[EpochLock(entries[k].epoch)] = t
    <3>1. DOMAIN entries = {1}
      BY <2>0
    <3>2. entries[1].pending = FALSE
      BY <1>5, <2>0 DEF Reversal
    <3> QED
      BY <3>1, <3>2
  <2>3. \A k \in Members : holder[BalanceLock(k)] # t => balance'[k] = balance[k]
    BY <1>2, <1>4, <1>7
  <2>4. /\ Len(epochs') = Len(epochs) /\ epochs' \in Seq(EpochRow)
        /\ \A k \in DOMAIN epochs : epochs'[k].status = epochs[k].status
        /\ UNCHANGED proposal /\ \A r \in Requests : request[r].status # None => request'[r].status # None
    BY <1>1, <1>6 DEF LedgerRows
  <2> QED
    BY <1>2, <1>6, <2>1, <2>2, <2>3, <2>4, LedgerExtended
<1>10. RowsTyped'
  <2>1. LedgerRows'
    BY <1>1, <1>6, <1>7, <1>8, <1>9 DEF LedgerRows
  <2>2. GovernanceRows'
    BY <1>1, <1>6 DEF RowsTyped, GovernanceRows, RequestOK
  <2> QED
    BY <2>1, <2>2 DEF RowsTyped
<1> QED
  BY <1>1, <1>9, <1>10, FinishKeeps

\* The entries of the initial allocation.
Allotments(t) == [k \in 1 .. Len(Allocation) |-> Allotment(t, k)]

LEMMA AllotmentsType ==
  ASSUME EngineInv, NEW t \in Txns, Ready(t, "genesis")
  PROVE  /\ Allotments(t) \in Seq(EntryRow) /\ Len(Allotments(t)) = Len(Allocation)
         /\ \A k \in 1 .. Len(Allocation) : Allotments(t)[k] = Allotment(t, k)
<1>1. Len(Allocation) \in Nat
  BY AllocationAssumption
<1>2. DOMAIN Allocation = 1 .. Len(Allocation)
  BY AllocationAssumption
<1>3. txn[t].seen.supply \in Nat
  <2>1. txn[t].seen.supply = supply
    BY ReadyKnows DEF TxnKinds
  <2> QED
    BY <2>1 DEF EngineInv, RowsTyped, LedgerRows
<1>4. ASSUME NEW k \in 1 .. Len(Allocation)
      PROVE  Allotment(t, k) \in EntryRow
  <2>1. /\ Allocation[k].member \in Members /\ Allocation[k].amount \in Nat \ {0}
        /\ Allocation[k].upTo \in Nat
    BY <1>2, AllocatedTo
  <2>2. balance[Allocation[k].member].total \in Nat
    BY <2>1 DEF EngineInv, RowsTyped, LedgerRows, BalanceRow
  <2>3. /\ balance[Allocation[k].member].total + Allocation[k].amount \in Nat
        /\ txn[t].seen.supply + Allocation[k].upTo \in Nat
    BY <1>3, <2>1, <2>2
  <2> QED
    BY <2>1, <2>3 DEF Allotment, EntryRow
<1>5. PICK S, f : S = EntryRow /\ f = Allotments(t)
  OBVIOUS
<1>6. DOMAIN f = 1 .. Len(Allocation) /\ \A k \in 1 .. Len(Allocation) : f[k] = Allotment(t, k)
  BY <1>5 DEF Allotments
<1>7. f \in [1 .. Len(Allocation) -> S]
  BY <1>4, <1>5, <1>6 DEF Allotments
<1>8. f \in Seq(S) /\ Len(f) = Len(Allocation)
  BY ONLY <1>1, <1>7
<1> QED
  BY <1>5, <1>6, <1>8

\* What the initial allocation writes.
LEMMA GenesisShape ==
  ASSUME EngineInv, NEW t \in Txns, mintInitialAllocation(t)
  PROVE  /\ Ready(t, "genesis") /\ ~txn[t].seen.used /\ Finish(t)
         /\ UNCHANGED <<epochs, request, policy, versions, proposal>>
         /\ Len(ledger) + Len(Allocation) <= MaxLedger
         /\ ledger' = ledger \o Allotments(t)
         /\ supply' = supply + Allocation[Len(Allocation)].upTo
<1>1. /\ Ready(t, "genesis") /\ ~txn[t].seen.used /\ Finish(t)
      /\ UNCHANGED <<epochs, request, policy, versions, proposal>>
      /\ Len(ledger) + Len(Allocation) <= MaxLedger
      /\ supply' = supply + Allocation[Len(Allocation)].upTo
      /\ ledger' = ledger \o [k \in 1 .. Len(Allocation) |->
           Entry("genesis", Allocation[k].member, Allocation[k].amount,
                 balance[Allocation[k].member].total + Allocation[k].amount,
                 txn[t].seen.supply + Allocation[k].upTo)]
  BY ONLY mintInitialAllocation(t) DEF mintInitialAllocation
<1>2. \A k : Entry("genesis", Allocation[k].member, Allocation[k].amount,
                   balance[Allocation[k].member].total + Allocation[k].amount,
                   txn[t].seen.supply + Allocation[k].upTo) = Allotment(t, k)
  BY ONLY TRUE DEF Entry, Allotment
<1> QED
  BY <1>1, <1>2 DEF Allotments

\* A balance with two of its fields replaced.
LEMMA BalanceRaised ==
  ASSUME NEW b \in BalanceRow, NEW to, NEW ac
  PROVE  [b EXCEPT !.total = to, !.active = ac] =
           [total |-> to, active |-> ac, pending |-> b.pending, earned |-> b.earned]
<1> DEFINE Columns == {"total", "active", "pending", "earned"}
<1>1. PICK y : y = [b EXCEPT !.total = to, !.active = ac]
  OBVIOUS
<1>2. PICK z : z = [total |-> to, active |-> ac, pending |-> b.pending, earned |-> b.earned]
  OBVIOUS
<1>3. DOMAIN y = Columns /\ DOMAIN z = Columns
  BY <1>1, <1>2 DEF BalanceRow
<1>4. y.total = z.total /\ y.active = z.active /\ y.pending = z.pending /\ y.earned = z.earned
  BY <1>1, <1>2 DEF BalanceRow
<1>5. y = [f \in Columns |-> y[f]] /\ z = [f \in Columns |-> z[f]]
  BY <1>1, <1>2, <1>3 DEF BalanceRow
<1>6. y = z
  BY <1>3, <1>4, <1>5
<1> QED
  BY <1>1, <1>2, <1>6

\* A balance of the initial allocation.
LEMMA GenesisBalances ==
  ASSUME EngineInv, NEW t \in Txns, mintInitialAllocation(t)
  PROVE  /\ DOMAIN balance' = Members
         /\ \A k \in DOMAIN Allocation :
              balance'[Allocation[k].member] =
                [total |-> balance[Allocation[k].member].total + Allocation[k].amount,
                 active |-> balance[Allocation[k].member].active + Allocation[k].amount,
                 pending |-> balance[Allocation[k].member].pending,
                 earned |-> balance[Allocation[k].member].earned]
         /\ \A m \in Members :
              (\A k \in DOMAIN Allocation : Allocation[k].member # m) => balance'[m] = balance[m]
<1>1. balance' = [m \in Members |->
        IF \E k \in DOMAIN Allocation : Allocation[k].member = m
        THEN LET k == CHOOSE k \in DOMAIN Allocation : Allocation[k].member = m IN
             [balance[m] EXCEPT !.total = @ + Allocation[k].amount, !.active = @ + Allocation[k].amount]
        ELSE balance[m]]
  BY ONLY mintInitialAllocation(t) DEF mintInitialAllocation
<1>2. ASSUME NEW k \in DOMAIN Allocation
      PROVE  balance'[Allocation[k].member] =
               [total |-> balance[Allocation[k].member].total + Allocation[k].amount,
                active |-> balance[Allocation[k].member].active + Allocation[k].amount,
                pending |-> balance[Allocation[k].member].pending,
                earned |-> balance[Allocation[k].member].earned]
  <2>1. PICK m \in Members : m = Allocation[k].member
    BY AllocatedTo
  <2>2. (CHOOSE j \in DOMAIN Allocation : Allocation[j].member = m) = k
    <3>1. \A j \in DOMAIN Allocation : Allocation[j].member = m => j = k
      BY <2>1, AllocationAssumption
    <3> QED
      BY <2>1, <3>1
  <2>3. balance'[m] = [balance[m] EXCEPT !.total = @ + Allocation[k].amount, !.active = @ + Allocation[k].amount]
    BY <1>1, <2>1, <2>2
  <2>4. PICK b \in BalanceRow : b = balance[m]
    BY DEF EngineInv, RowsTyped, LedgerRows
  <2>5. PICK a : a = Allocation[k].amount
    OBVIOUS
  <2>6. PICK to, ac : to = b.total + a /\ ac = b.active + a
    OBVIOUS
  <2>7. balance'[m] = [b EXCEPT !.total = to, !.active = ac]
    BY ONLY <2>3, <2>4, <2>5, <2>6
  <2>8. [b EXCEPT !.total = to, !.active = ac] = [total |-> to, active |-> ac, pending |-> b.pending, earned |-> b.earned]
    BY BalanceRaised
  <2> QED
    BY <2>1, <2>4, <2>5, <2>6, <2>7, <2>8
<1> QED
  BY <1>1, <1>2

LEMMA GenesisKeeps ==
  ASSUME EngineInv, NEW t \in Txns, mintInitialAllocation(t)
  PROVE  EngineInv'
<1>1. /\ Ready(t, "genesis") /\ Finish(t) /\ UNCHANGED <<epochs, request, policy, versions, proposal>>
      /\ Len(ledger) + Len(Allocation) <= MaxLedger
      /\ ledger' = ledger \o Allotments(t)
      /\ supply' = supply + Allocation[Len(Allocation)].upTo
  BY GenesisShape
<1>2. LedgerRows /\ RowsTyped
  BY DEF EngineInv, RowsTyped
<1>3. PICK entries \in Seq(EntryRow) : entries = Allotments(t) /\ Len(entries) = Len(Allocation)
  BY <1>1, AllotmentsType
<1>4. \A k \in DOMAIN entries : ~entries[k].pending
  <2>1. DOMAIN entries = 1 .. Len(Allocation)
    BY <1>3
  <2>2. \A k \in 1 .. Len(Allocation) : entries[k] = Allotment(t, k)
    BY <1>1, <1>3, AllotmentsType
  <2> QED
    BY <2>1, <2>2 DEF Allotment
<1>5. \A k \in DOMAIN Allocation : holder[BalanceLock(Allocation[k].member)] = t
  BY <1>1, ReadyKnows DEF TxnKinds
<1>6. holder[StateLock] = t
  BY <1>1, ReadyKnows DEF TxnKinds
<1>7. \A m \in Members : holder[BalanceLock(m)] # t => balance'[m] = balance[m]
  BY <1>5, GenesisBalances
<1>8. balance' \in [Members -> BalanceRow]
  <2>1. ASSUME NEW m \in Members
        PROVE  balance'[m] \in BalanceRow
    <3>1. PICK b \in BalanceRow : b = balance[m]
      BY <1>2 DEF LedgerRows
    <3>2. CASE \A k \in DOMAIN Allocation : Allocation[k].member # m
      BY <3>1, <3>2, GenesisBalances
    <3>3. ASSUME NEW k \in DOMAIN Allocation, Allocation[k].member = m
          PROVE  balance'[m] \in BalanceRow
      <4>1. balance'[m] = [total |-> b.total + Allocation[k].amount, active |-> b.active + Allocation[k].amount,
                           pending |-> b.pending, earned |-> b.earned]
        BY <3>1, <3>3, GenesisBalances
      <4>2. Allocation[k].amount \in Nat
        BY AllocatedTo
      <4> QED
        BY <4>1, <4>2 DEF BalanceRow
    <3> QED
      BY <3>2, <3>3
  <2>2. balance' = [m \in Members |-> balance'[m]]
    BY DEF mintInitialAllocation
  <2> QED
    BY <2>1, <2>2
<1>9. supply' \in Nat
  <2>1. Len(Allocation) \in DOMAIN Allocation
    BY AllocationAssumption
  <2> QED
    BY <1>1, <1>2, <2>1, AllocatedTo DEF LedgerRows
<1>10. /\ ledger' \in Seq(EntryRow) /\ Len(ledger') <= MaxLedger /\ \A u \in Txns \ {t} : LeavesAlone(u)
  <2>1. ledger' = ledger \o entries /\ Len(ledger) + Len(entries) <= MaxLedger
    BY <1>1, <1>3
  <2>2. /\ Len(epochs') = Len(epochs) /\ epochs' \in Seq(EpochRow)
        /\ \A k \in DOMAIN epochs : epochs'[k].status = epochs[k].status
        /\ UNCHANGED proposal /\ \A r \in Requests : request[r].status # None => request'[r].status # None
    BY <1>1, <1>2 DEF LedgerRows
  <2> QED
    BY <1>2, <1>4, <1>6, <1>7, <2>1, <2>2, LedgerExtended
<1>11. RowsTyped'
  <2>1. LedgerRows'
    BY <1>1, <1>2, <1>8, <1>9, <1>10 DEF LedgerRows
  <2>2. GovernanceRows'
    BY <1>1, <1>2 DEF RowsTyped, GovernanceRows, RequestOK
  <2> QED
    BY <2>1, <2>2 DEF RowsTyped
<1> QED
  BY <1>1, <1>10, <1>11, FinishKeeps

-----------------------------------------------------------------------------

\* What the opening of an epoch writes.
LEMMA EpochAppended ==
  ASSUME LedgerRows, NEW s \in Seq(EpochRow), NEW e \in EpochRow, epochs' = Append(s, e),
         Len(s) = Len(epochs)
  PROVE  /\ epochs' \in Seq(EpochRow) /\ Len(epochs') = Len(epochs) + 1
         /\ Len(epochs) \in Nat /\ DOMAIN epochs = 1 .. Len(epochs)
         /\ DOMAIN epochs' = 1 .. Len(epochs) + 1
         /\ \A k \in DOMAIN epochs : epochs'[k] = s[k]
         /\ epochs'[Len(epochs) + 1] = e
<1>1. Len(epochs) \in Nat /\ DOMAIN epochs = 1 .. Len(epochs)
  BY DEF LedgerRows
<1>2. PICK S : S = EpochRow
  OBVIOUS
<1>3. /\ Append(s, e) \in Seq(S) /\ Len(Append(s, e)) = Len(s) + 1
      /\ \A k \in 1 .. Len(s) : Append(s, e)[k] = s[k]
      /\ Append(s, e)[Len(s) + 1] = e
  BY <1>2, AppendProperties
<1>4. DOMAIN Append(s, e) = 1 .. Len(s) + 1
  BY <1>3
<1> QED
  BY <1>1, <1>2, <1>3, <1>4

\* A request stays one as epochs are opened.
LEMMA GovernanceLeftAlone ==
  ASSUME RowsTyped, UNCHANGED <<request, versions, proposal>>, policy' \in PolicyRow,
         DOMAIN epochs \subseteq DOMAIN epochs'
  PROVE  GovernanceRows'
BY DEF RowsTyped, GovernanceRows, RequestOK

\* The next epoch of a community without an active one.
LEMMA CreateNextKeeps ==
  ASSUME EngineInv, NEW t \in Txns, createNextEpoch(t)
  PROVE  EngineInv'
<1>1. /\ Ready(t, "createNext") /\ Finish(t)
      /\ UNCHANGED <<supply, ledger, balance, request, policy, versions, proposal>>
      /\ Len(epochs) < MaxEpoch
      /\ epochs' = Append(epochs, NewEpoch(txn[t].seen.supply, 0, txn[t].seen.policy.rates))
  BY DEF createNextEpoch
<1>2. txn[t].seen.supply \in Nat /\ txn[t].seen.policy.rates \in RatesOf
  <2>1. txn[t].seen.policy \in PolicyRow /\ txn[t].seen \in SeenRow
    BY <1>1, ReadyKnows DEF TxnKinds
  <2> QED
    BY <2>1 DEF PolicyRow, SeenRow
<1>3. PICK e \in EpochRow : e = NewEpoch(txn[t].seen.supply, 0, txn[t].seen.policy.rates) /\ e.status = "active"
  BY <1>2, NewEpochType
<1>4. LedgerRows /\ RowsTyped
  BY DEF EngineInv, RowsTyped
<1>5. /\ epochs' \in Seq(EpochRow) /\ Len(epochs') = Len(epochs) + 1
      /\ Len(epochs) \in Nat /\ DOMAIN epochs = 1 .. Len(epochs)
      /\ DOMAIN epochs' = 1 .. Len(epochs) + 1
      /\ \A k \in DOMAIN epochs : epochs'[k] = epochs[k]
  <2>1. epochs \in Seq(EpochRow)
    BY <1>4 DEF LedgerRows
  <2> QED
    BY <1>1, <1>3, <1>4, <2>1, EpochAppended
<1>6. LedgerRows'
  <2>1. Len(epochs') <= MaxEpoch
    BY <1>1, <1>5, BoundsAssumption
  <2> QED
    BY <1>1, <1>4, <1>5, <2>1 DEF LedgerRows
<1>7. GovernanceRows'
  <2>1. policy' \in PolicyRow
    BY <1>1, <1>4 DEF RowsTyped, GovernanceRows
  <2> QED
    BY <1>1, <1>4, <1>5, <2>1, GovernanceLeftAlone
<1>8. \A u \in Txns : LeavesAlone(u)
  <2>1. \A k : MaturingAt(k)' = MaturingAt(k)
    BY <1>1 DEF MaturingAt
  <2>2. \A k \in ActiveEpochs : k \in ActiveEpochs'
    BY <1>5 DEF ActiveEpochs
  <2>3. Len(ledger) \in Nat
    BY <1>4 DEF LedgerRows
  <2> QED
    BY <1>1, <1>5, <2>1, <2>2, <2>3 DEF LeavesAlone
<1> QED
  BY <1>1, <1>6, <1>7, <1>8, FinishKeeps DEF RowsTyped

\* The policy the next epoch runs under.
DuePolicy(t) ==
  IF PolicyDue(txn[t].seen.policy, txn[t].in.id + 1)
  THEN txn[t].seen.policy.pending.rates ELSE txn[t].seen.policy.rates

\* What an epoch switch writes.
Matured(t, i) == [ledger[i] EXCEPT !.pending = @ /\ i \notin MaturingAt(txn[t].in.id + 1)]

LEMMA CloseShape ==
  ASSUME NEW t \in Txns, closeEpoch(t)
  PROVE  /\ Ready(t, "close") /\ Finish(t) /\ UNCHANGED <<supply, request, versions, proposal>>
         /\ txn[t].seen.epoch = txn[t].in.id /\ txn[t].in.id = Len(epochs) /\ txn[t].in.id < MaxEpoch
         /\ epochs' = Append([epochs EXCEPT ![txn[t].in.id].status = "closed"],
                             NewEpoch(txn[t].seen.supply, CarriedDebt(epochs[txn[t].in.id]), DuePolicy(t)))
         /\ policy' = IF PolicyDue(txn[t].seen.policy, txn[t].in.id + 1)
                      THEN Activated(txn[t].seen.policy) ELSE policy
         /\ balance' = [m \in Members |->
              [balance[m] EXCEPT !.active = @ + balance[m].pending, !.pending = 0, !.earned = 0]]
         /\ ledger' = [i \in DOMAIN ledger |-> Matured(t, i)]
BY ONLY closeEpoch(t) DEF closeEpoch, DuePolicy, Matured

\* A matured balance.
LEMMA BalanceMatured ==
  ASSUME NEW b \in BalanceRow
  PROVE  [b EXCEPT !.active = @ + b.pending, !.pending = 0, !.earned = 0] =
           [total |-> b.total, active |-> b.active + b.pending, pending |-> 0, earned |-> 0]
<1> DEFINE Columns == {"total", "active", "pending", "earned"}
<1>0. PICK ac : ac = b.active + b.pending
  OBVIOUS
<1>1. PICK y : y = [b EXCEPT !.active = ac, !.pending = 0, !.earned = 0]
  OBVIOUS
<1>2. PICK z : z = [total |-> b.total, active |-> ac, pending |-> 0, earned |-> 0]
  OBVIOUS
<1>3. DOMAIN y = Columns /\ DOMAIN z = Columns
  BY <1>1, <1>2 DEF BalanceRow
<1>4. y.total = z.total /\ y.active = z.active /\ y.pending = z.pending /\ y.earned = z.earned
  BY <1>1, <1>2 DEF BalanceRow
<1>5. y = [f \in Columns |-> y[f]] /\ z = [f \in Columns |-> z[f]]
  BY <1>1, <1>2, <1>3 DEF BalanceRow
<1>6. y = z
  BY <1>3, <1>4, <1>5
<1> QED
  BY ONLY <1>0, <1>1, <1>2, <1>6

\* An entry whose amount has matured, or not.
LEMMA MaturedEntry ==
  ASSUME NEW e \in EntryRow, NEW p \in BOOLEAN
  PROVE  /\ [e EXCEPT !.pending = @ /\ p] \in EntryRow
         /\ [e EXCEPT !.pending = @ /\ p].pending = (e.pending /\ p)
         /\ \A f \in EntryFields \ {"pending"} : [e EXCEPT !.pending = @ /\ p][f] = e[f]
         /\ p => [e EXCEPT !.pending = @ /\ p] = e
<1>1. PICK q \in BOOLEAN : q = (e.pending /\ p)
  OBVIOUS
<1>2. PICK y : y = [e EXCEPT !.pending = q]
  OBVIOUS
<1>3. y = [e EXCEPT !.pending = @ /\ p]
  BY <1>1, <1>2
<1>4. y \in EntryRow /\ y.pending = q
  BY <1>2 DEF EntryRow
<1>5. \A f \in EntryFields \ {"pending"} : y[f] = e[f]
  BY <1>2 DEF EntryRow, EntryFields
<1>6. ASSUME p
      PROVE  y = e
  <2>1. q = e.pending
    BY <1>1, <1>6 DEF EntryRow
  <2>2. y = [f \in EntryFields |-> y[f]] /\ e = [f \in EntryFields |-> e[f]]
    BY <1>4 DEF EntryRow, EntryFields
  <2>3. \A f \in EntryFields : y[f] = e[f]
    BY <1>4, <1>5, <2>1 DEF EntryFields
  <2> QED
    BY ONLY <2>2, <2>3
<1> QED
  BY <1>1, <1>3, <1>4, <1>5, <1>6

\* The ledger an epoch switch leaves.
LEMMA LedgerMatured ==
  ASSUME LedgerRows, NEW t \in Txns, ledger' = [i \in DOMAIN ledger |-> Matured(t, i)]
  PROVE  /\ ledger' \in Seq(EntryRow) /\ Len(ledger') = Len(ledger)
         /\ \A i \in DOMAIN ledger :
              /\ ledger'[i].pending = (ledger[i].pending /\ i \notin MaturingAt(txn[t].in.id + 1))
              /\ \A f \in EntryFields \ {"pending"} : ledger'[i][f] = ledger[i][f]
              /\ i \notin MaturingAt(txn[t].in.id + 1) => ledger'[i] = ledger[i]
<1>1. ASSUME NEW i \in DOMAIN ledger
      PROVE  /\ ledger'[i] \in EntryRow
             /\ ledger'[i].pending = (ledger[i].pending /\ i \notin MaturingAt(txn[t].in.id + 1))
             /\ \A f \in EntryFields \ {"pending"} : ledger'[i][f] = ledger[i][f]
             /\ i \notin MaturingAt(txn[t].in.id + 1) => ledger'[i] = ledger[i]
  <2>1. PICK p \in BOOLEAN : p = (i \notin MaturingAt(txn[t].in.id + 1))
    OBVIOUS
  <2>2. PICK e \in EntryRow : e = ledger[i]
    BY DEF LedgerRows
  <2>3. ledger'[i] = [e EXCEPT !.pending = @ /\ p]
    BY <2>1, <2>2 DEF Matured
  <2> QED
    <3>1. PICK y : y = [e EXCEPT !.pending = @ /\ p]
      OBVIOUS
    <3>2. /\ y \in EntryRow /\ y.pending = (e.pending /\ p)
          /\ \A f \in EntryFields \ {"pending"} : y[f] = e[f]
          /\ p => y = e
      BY <3>1, MaturedEntry
    <3>3. ledger'[i] = y
      BY <2>3, <3>1
    <3>4. ledger'[i] \in EntryRow /\ (p => ledger'[i] = ledger[i])
      BY <2>2, <3>2, <3>3
    <3>5. ledger'[i].pending = (ledger[i].pending /\ p)
      BY <2>2, <3>2, <3>3
    <3>6. \A f \in EntryFields \ {"pending"} : ledger'[i][f] = ledger[i][f]
      BY <2>2, <3>2, <3>3
    <3>7. ledger'[i].pending = (ledger[i].pending /\ i \notin MaturingAt(txn[t].in.id + 1))
      BY ONLY <2>1, <3>5
    <3> QED
      BY <2>1, <3>4, <3>6, <3>7
<1>2. PICK S : S = EntryRow
  OBVIOUS
<1>3. Len(ledger) \in Nat /\ DOMAIN ledger = 1 .. Len(ledger)
  BY DEF LedgerRows
<1>4. DOMAIN ledger' = 1 .. Len(ledger) /\ ledger' \in [1 .. Len(ledger) -> S]
  BY <1>1, <1>2, <1>3
<1>5. ledger' \in Seq(S) /\ Len(ledger') = Len(ledger)
  BY ONLY <1>3, <1>4
<1> QED
  BY <1>1, <1>2, <1>5

\* The epochs a switch leaves.
LEMMA EpochsSwitched ==
  ASSUME LedgerRows, NEW n \in DOMAIN epochs, NEW e \in EpochRow, e.status = "active",
         epochs' = Append([epochs EXCEPT ![n].status = "closed"], e)
  PROVE  /\ epochs' \in Seq(EpochRow) /\ Len(epochs') = Len(epochs) + 1
         /\ Len(epochs) \in Nat /\ DOMAIN epochs = 1 .. Len(epochs)
         /\ DOMAIN epochs' = 1 .. Len(epochs) + 1
         /\ \A k \in DOMAIN epochs \ {n} : epochs'[k] = epochs[k]
         /\ epochs'[n] = [epochs[n] EXCEPT !.status = "closed"]
         /\ epochs'[Len(epochs) + 1] = e
<1>1. PICK old \in EpochRow : old = epochs[n]
  BY DEF LedgerRows
<1>2. PICK new \in EpochRow : new = [old EXCEPT !.status = "closed"]
  BY DEF EpochRow
<1>3. PICK s : s = [epochs EXCEPT ![n] = new]
  OBVIOUS
<1>4. epochs' = Append(s, e)
  BY <1>1, <1>2, <1>3 DEF LedgerRows
<1>5. s \in Seq(EpochRow) /\ Len(s) = Len(epochs) /\ \A k \in 1 .. Len(epochs) : s[k] = IF k = n THEN new ELSE epochs[k]
  <2>1. PICK S : S = EpochRow
    OBVIOUS
  <2>2. epochs \in Seq(S) /\ n \in 1 .. Len(epochs)
    BY <2>1 DEF LedgerRows
  <2> QED
    BY <1>3, <2>1, <2>2, ExceptSeq
<1>6. /\ epochs' \in Seq(EpochRow) /\ Len(epochs') = Len(epochs) + 1
      /\ Len(epochs) \in Nat /\ DOMAIN epochs = 1 .. Len(epochs)
      /\ DOMAIN epochs' = 1 .. Len(epochs) + 1
      /\ \A k \in DOMAIN epochs : epochs'[k] = s[k]
      /\ epochs'[Len(epochs) + 1] = e
  BY <1>4, <1>5, EpochAppended
<1> QED
  BY <1>1, <1>2, <1>5, <1>6

\* An epoch is switched under the locks of the epoch, of every balance and of every
\* mint that matures.
LEMMA CloseKeeps ==
  ASSUME EngineInv, NEW t \in Txns, closeEpoch(t)
  PROVE  EngineInv'
<1>1. /\ Ready(t, "close") /\ Finish(t) /\ UNCHANGED <<supply, request, versions, proposal>>
      /\ txn[t].seen.epoch = txn[t].in.id /\ txn[t].in.id = Len(epochs) /\ txn[t].in.id < MaxEpoch
      /\ epochs' = Append([epochs EXCEPT ![txn[t].in.id].status = "closed"],
                          NewEpoch(txn[t].seen.supply, CarriedDebt(epochs[txn[t].in.id]), DuePolicy(t)))
      /\ policy' = IF PolicyDue(txn[t].seen.policy, txn[t].in.id + 1)
                   THEN Activated(txn[t].seen.policy) ELSE policy
      /\ balance' = [m \in Members |->
           [balance[m] EXCEPT !.active = @ + balance[m].pending, !.pending = 0, !.earned = 0]]
      /\ ledger' = [i \in DOMAIN ledger |-> Matured(t, i)]
  BY CloseShape
<1>2. LedgerRows /\ RowsTyped
  BY DEF EngineInv, RowsTyped
<1>3. /\ txn[t].in.id \in DOMAIN epochs
      /\ \A m \in Members : holder[BalanceLock(m)] = t
      /\ \A i \in MaturingAt(txn[t].in.id + 1) : holder[MintLock(i)] = t
      /\ txn[t].seen.policy \in PolicyRow /\ txn[t].seen \in SeenRow
      /\ txn[t].seen.epoch # 0 => holder[EpochLock(txn[t].seen.epoch)] = t
  <2>1. GivenTo("close", txn[t].in) => txn[t].in.id \in DOMAIN epochs
    BY DEF GivenTo
  <2> QED
    BY <1>1, <2>1, ReadyKnows DEF TxnKinds
<1>4. PICK n \in DOMAIN epochs : n = txn[t].in.id /\ n = Len(epochs) /\ holder[EpochLock(n)] = t
  <2>1. txn[t].in.id # 0
    BY <1>2, <1>3 DEF LedgerRows
  <2> QED
    BY <1>1, <1>3, <2>1
<1>5. DuePolicy(t) \in RatesOf /\ policy' \in PolicyRow
  <2>1. PICK p \in PolicyRow : p = txn[t].seen.policy
    BY <1>3
  <2>2. PolicyDue(p, n + 1) => p.pending \in [version : Nat, rates : RatesOf, epoch : Nat]
    BY DEF PolicyDue, PolicyRow
  <2>3. DuePolicy(t) \in RatesOf
    BY <1>4, <2>1, <2>2 DEF DuePolicy, PolicyRow
  <2>4. PolicyDue(p, n + 1) => Activated(p) \in PolicyRow
    BY <2>2 DEF Activated, PolicyRow
  <2>5. policy \in PolicyRow
    BY <1>2 DEF RowsTyped, GovernanceRows
  <2> QED
    BY <1>1, <1>4, <2>1, <2>3, <2>4, <2>5
<1>6. PICK e \in EpochRow : /\ e = NewEpoch(txn[t].seen.supply, CarriedDebt(epochs[n]), DuePolicy(t))
                            /\ e.status = "active"
  <2>1. txn[t].seen.supply \in Nat
    BY <1>3 DEF SeenRow
  <2>2. CarriedDebt(epochs[n]) \in Nat
    <3>1. PICK o \in EpochRow : o = epochs[n]
      BY <1>2 DEF LedgerRows
    <3>2. PICK a \in Nat, d \in Nat, b \in Nat : a = o.advanced /\ d = o.debt /\ b = o.base
      BY DEF EpochRow
    <3>3. Monus(d, b) \in Nat
      BY MonusNat
    <3>4. a + Monus(d, b) \in Nat
      BY ONLY <3>3, a \in Nat
    <3> QED
      BY <3>1, <3>2, <3>4 DEF CarriedDebt
  <2> QED
    BY <1>5, <2>1, <2>2, NewEpochType
<1>7. /\ epochs' \in Seq(EpochRow) /\ Len(epochs') = Len(epochs) + 1
      /\ Len(epochs) \in Nat /\ DOMAIN epochs = 1 .. Len(epochs)
      /\ DOMAIN epochs' = 1 .. Len(epochs) + 1
      /\ \A k \in DOMAIN epochs \ {n} : epochs'[k] = epochs[k]
  <2>1. epochs' = Append([epochs EXCEPT ![n].status = "closed"], e)
    BY <1>1, <1>4, <1>6
  <2> QED
    BY <1>2, <1>6, <2>1, EpochsSwitched
<1>8. /\ ledger' \in Seq(EntryRow) /\ Len(ledger') = Len(ledger)
      /\ \A i \in DOMAIN ledger :
           /\ ledger'[i].pending = (ledger[i].pending /\ i \notin MaturingAt(n + 1))
           /\ \A f \in EntryFields \ {"pending"} : ledger'[i][f] = ledger[i][f]
           /\ i \notin MaturingAt(n + 1) => ledger'[i] = ledger[i]
  BY <1>1, <1>2, <1>4, LedgerMatured
<1>9. balance' \in [Members -> BalanceRow]
  <2>1. ASSUME NEW m \in Members
        PROVE  balance'[m] \in BalanceRow
    <3>1. PICK b \in BalanceRow : b = balance[m]
      BY <1>2 DEF LedgerRows
    <3>2. balance'[m] = [total |-> b.total, active |-> b.active + b.pending, pending |-> 0, earned |-> 0]
      BY <1>1, <3>1, BalanceMatured
    <3> QED
      BY <3>2 DEF BalanceRow
  <2> QED
    BY <1>1, <2>1
<1>10. LedgerRows'
  <2>1. Len(epochs') <= MaxEpoch
    <3>1. Len(epochs) < MaxEpoch /\ Len(epochs') = Len(epochs) + 1 /\ Len(epochs) \in Nat /\ MaxEpoch \in Nat
      BY <1>1, <1>4, <1>7, BoundsAssumption
    <3> QED
      BY ONLY <3>1
  <2>2. Len(ledger') <= MaxLedger /\ supply' \in Nat
    BY <1>1, <1>2, <1>8 DEF LedgerRows
  <2> QED
    BY <1>7, <1>8, <1>9, <2>1, <2>2 DEF LedgerRows
<1>11. GovernanceRows'
  <2>1. DOMAIN epochs \subseteq DOMAIN epochs'
    BY ONLY <1>7
  <2> QED
    BY <1>1, <1>2, <1>5, <2>1, GovernanceLeftAlone
<1>12. \A u \in Txns \ {t} : LeavesAlone(u)
  <2> TAKE u \in Txns \ {t}
  <2>1. \A k \in ActiveEpochs : holder[EpochLock(k)] = u => k \in ActiveEpochs'
    BY <1>4, <1>7 DEF ActiveEpochs
  <2>2. \A i \in DOMAIN ledger :
          /\ ledger'[i].member = ledger[i].member /\ ledger'[i].kind = ledger[i].kind
          /\ ledger'[i].epoch = ledger[i].epoch
          /\ ledger'[i].pending => ledger[i].pending
          /\ holder[MintLock(i)] = u => ledger'[i] = ledger[i]
    BY <1>3, <1>4, <1>8, ZenonT(60) DEF EntryFields
  <2>3. DOMAIN ledger' = DOMAIN ledger /\ Len(ledger) \in Nat
    BY <1>2, <1>8 DEF LedgerRows
  <2>4. \A k : MaturingAt(k)' \subseteq MaturingAt(k)
    BY <2>2, <2>3 DEF MaturingAt
  <2>5. Len(epochs) <= Len(epochs') /\ Len(ledger) <= Len(ledger')
    BY <1>7, <1>8, <2>3
  <2>6. \A i \in DOMAIN ledger :
          /\ ledger'[i].member = ledger[i].member /\ ledger'[i].kind = ledger[i].kind
          /\ holder[MintLock(i)] = u => ledger'[i] = ledger[i]
    BY <2>2
  <2>7. \A m \in Members : holder[BalanceLock(m)] = u => balance'[m] = balance[m]
    BY <1>3
  <2>8. supply' = supply /\ proposal' = proposal /\ request' = request
    BY <1>1
  <2>9. \A k \in DOMAIN epochs : holder[EpochLock(k)] = u => MaturingAt(k + 1)' \subseteq MaturingAt(k + 1)
    BY <2>4
  <2> QED
    BY ONLY <2>1, <2>5, <2>6, <2>7, <2>8, <2>9 DEF LeavesAlone
<1> QED
  BY <1>1, <1>10, <1>11, <1>12, FinishKeeps DEF RowsTyped

-----------------------------------------------------------------------------
(***************************************************************************)
(* The invariant holds.                                                    *)
(***************************************************************************)

LEMMA EngineNext ==
  ASSUME EngineInv, Next
  PROVE  EngineInv'
<1>1. CASE create \/ Deadline
  BY <1>1, DraftsKeep
<1>2. ASSUME NEW t \in Txns, LedgerStart(t) \/ StartActivate(t) \/ StartCastVote(t) \/ StartEnd(t)
      PROVE  EngineInv'
  BY <1>2, StartsKeep
<1>3. ASSUME NEW t \in Txns, Statement(t)
      PROVE  EngineInv'
  BY <1>3, StatementKeeps
<1>4. ASSUME NEW t \in Txns, NEW row \in Rows, Lock(t, row)
      PROVE  EngineInv'
  BY <1>4, LockKeeps
<1>5. ASSUME NEW t \in Txns, LedgerCommit(t)
      PROVE  EngineInv'
  BY <1>5, MintKeeps, GenesisKeeps, CreateRequestKeeps, ApprovalsKeep, ExecutionKeeps, ReversalKeeps,
     CloseKeeps, CreateNextKeeps DEF LedgerCommit
<1>6. ASSUME NEW t \in Txns, activate(t) \/ castVote(t)
      PROVE  EngineInv'
  BY <1>6, VotesKeep
<1>7. ASSUME NEW t \in Txns, end(t)
      PROVE  EngineInv'
  BY <1>7, EndKeeps
<1>8. ASSUME NEW t \in Txns, Rollback(t)
      PROVE  EngineInv'
  BY <1>8, RollbackKeeps
<1> QED
  BY <1>1, <1>2, <1>3, <1>4, <1>5, <1>6, <1>7, <1>8 DEF Next

\* A step that changes nothing.
LEMMA EngineStutters ==
  ASSUME EngineInv, UNCHANGED vars
  PROVE  EngineInv'
<1>1. UNCHANGED tables /\ UNCHANGED <<holder, txn>>
  BY DEF vars
<1>2. RowsTyped' /\ \A u \in Txns : LeavesAlone(u)
  BY <1>1, NothingWritten DEF EngineInv
<1>3. TxnsTyped'
  BY <1>1 DEF EngineInv, TxnsTyped, TxnRow
<1>4. \A u \in Txns : Sound(u)'
  BY <1>1, <1>2, FrameOfOthers DEF EngineInv
<1> QED
  BY <1>2, <1>3, <1>4 DEF EngineInv

\* What a transaction has read under a lock stays what the row says until it commits,
\* in every interleaving of any number of transactions.
THEOREM EngineInvHolds == Spec => []EngineInv
<1>1. DatabaseInit => EngineInv
  BY EngineInit
<1>2. EngineInv /\ [Next]_vars => EngineInv'
  BY EngineNext, EngineStutters
<1> QED
  BY <1>1, <1>2, PTL DEF Spec

\* Every row is of its type and every lock belongs to an open transaction.
THEOREM EngineTypes == Spec => []TypeOK
<1>1. EngineInv => TypeOK
  <2> SUFFICES ASSUME EngineInv
               PROVE  TypeOK
    OBVIOUS
  <2>1. RowsTyped /\ TxnsTyped
    BY DEF EngineInv
  <2>2. \A r \in Requests :
          request[r].status \in {None, "pending_second_approval", "pending_proposal", "approved",
                                 "rejected", "executed"}
    BY <2>1 DEF RowsTyped, GovernanceRows, RequestOK, RequestRow, RequestStatus
  <2>3. \A p \in Proposals : proposal[p].status \in {None, "draft", "active", "recorded"}
    BY <2>1 DEF RowsTyped, GovernanceRows, ProposalRow, ProposalStatus
  <2>4. \A row \in Rows : holder[row] # Free => txn[holder[row]] # Idle
    BY <2>1 DEF TxnsTyped, Idle
  <2> QED
    BY <2>1, <2>2, <2>3, <2>4 DEF TypeOK, RowsTyped, LedgerRows, GovernanceRows, TxnsTyped
<1> QED
  BY <1>1, EngineInvHolds, PTL

=============================================================================
